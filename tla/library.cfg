CONSTANTS
    s1 = s1
    s2 = s2
    c1 = c1
    c2 = c2
    None = None
    Segments <- TwoSegments
    Chapters <- TwoChapters
    Needs <- Shared
    Room = 2
    MaxRuns = 3
    MaxFaults = 2
SPECIFICATION FairSpec
INVARIANTS TypeOK PublishedIsPlayable CountersAreExact
PROPERTIES NothingIsLost LibraryGetsPublished
CHECK_DEADLOCK FALSE
