CONSTANTS
    u1 = u1
    u2 = u2
    t1 = t1
    t2 = t2
    o1 = o1
    o2 = o2
    None = None
    Users <- TwoUsers
    NoOne = NoOne
    Accounts <- TwoUsers
    Tabs <- TwoTabs
    Objects <- TwoObjects
    MaxActs = 4
    MaxBookActs = 3
SPECIFICATION OneSpec
INVARIANTS TypeOK StoreFollowsClient RecoveryIsVerified ProfileFollowsSession BusyEnds BooksTypeOK PackagesAreWhole OnlyMyPackages
SYMMETRY Alike
CHECK_DEADLOCK FALSE
