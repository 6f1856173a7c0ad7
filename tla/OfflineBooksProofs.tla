------------------------ MODULE OfflineBooksProofs ------------------------
(***************************************************************************)
(* Theorems about OfflineBooks, for any tabs, accounts, files and number   *)
(* of requests.                                                            *)
(***************************************************************************)
EXTENDS OfflineBooks, TLAPS

Someone == Accounts \cup {NoOne}
Steps == {"none", "lock", "metadata", "previous", "first", "fetch", "store", "progress", "ready", "failing"}
Statuses == {"absent", "downloading", "failed", "ready"}

Jobs == [step : Steps, n : Nat, aborted : BOOLEAN, scope : Someone, left : SUBSET Objects, object : SUBSET Objects]
Removals == [step : {"none", "wait", "delete"}, user : Someone, waits : Nat]
Sweeps == [tab : Tabs, user : Someone, waits : Nat, left : SUBSET Accounts,
           step : {"recover", "mark", "wait", "sweep", "locked"}]

Packages ==
  /\ records \in [Accounts -> [status : Statuses, generation : Nat]]
  /\ \A r \in resources : r[1] \in Accounts

Types ==
  /\ Packages
  /\ account \in Someone
  /\ identity \in [Tabs -> Someone]
  /\ job \in [Tabs -> Jobs]
  /\ removal \in [Tabs -> Removals]
  /\ sweeps \subseteq Sweeps
  /\ bookActs \in Nat

(* What a download has saved is recorded, and stays until it ends.         *)
Scoped(t) == Downloads(t) /\ job[t].step # "metadata"
Saving(t) == job[t].step \in {"fetch", "store", "progress", "ready"}

JobOK(t) ==
  /\ job[t].step # "none" => job[t].n # 0
  /\ Scoped(t) => job[t].scope \in Accounts /\ job[t].scope # NoOne
  /\ Saving(t) =>
       /\ records[job[t].scope].status = "downloading"
       /\ \A o \in Objects \ job[t].left : <<job[t].scope, job[t].n, o>> \in resources
  /\ job[t].step \in {"lock", "metadata", "previous", "first"} => job[t].left = Objects
  /\ job[t].step = "ready" => job[t].left = {}

(* A download of another account than the tab's is waited for by a sweep,  *)
(* and whoever a package belongs to is signed in as some tab knows, or     *)
(* will be found by a sweep, or a tab will sweep when it starts, or a      *)
(* sweep that gave up has left it.                                         *)
JobSwept(t) ==
  Scoped(t) /\ job[t].scope # identity[t] =>
    \E s \in sweeps : s.tab = t /\ s.step = "wait" /\ s.waits = job[t].n

Finds(s, u) == s.step \in {"recover", "mark", "wait"} \/ u \in s.left

Covered(u) ==
  records[u] # NoRecord =>
    u \in spared \/ \E t \in Tabs : t \notin open \/ identity[t] = u \/ \E s \in sweeps : s.tab = t /\ Finds(s, u)

Idle(t) == t \notin open => job[t].step = "none"

(* The sweeps are those of open tabs. *)
SweptTabs == open \subseteq Tabs /\ \A s \in sweeps : s.tab \in open

Inductive ==
  /\ Types
  /\ Exclusive
  /\ \A t \in Tabs : JobOK(t) /\ JobSwept(t) /\ Idle(t)
  /\ PackagesAreWhole
  /\ \A u \in Accounts : Covered(u)
  /\ Numbered /\ Held /\ SweptTabs
---------------------------------------------------------------------------
(* Types *)

LEMMA JobTypes ==
  ASSUME NEW j \in Jobs
  PROVE  /\ j.step \in Steps /\ j.n \in Nat /\ j.scope \in Someone /\ j.left \subseteq Objects
         /\ j.object \subseteq Objects
         /\ \A step \in Steps : [j EXCEPT !.step = step] \in Jobs
         /\ \A u \in Someone : [j EXCEPT !.scope = u] \in Jobs
         /\ \A o \in Objects : [j EXCEPT !.object = {o}] \in Jobs
         /\ [j EXCEPT !.left = @ \ j.object] \in Jobs
         /\ Abort(j) \in Jobs
BY DEF Jobs, Abort

LEMMA NewTypes ==
  /\ NoJob \in Jobs /\ NoRemoval \in Removals
  /\ \A n \in Nat : [NoJob EXCEPT !.step = "lock", !.n = n, !.left = Objects] \in Jobs
BY DEF Jobs, NoJob, NoRemoval, Removals, Someone, Steps

LEMMA SweepTypes ==
  ASSUME NEW s \in Sweeps
  PROVE  /\ s.tab \in Tabs /\ s.left \subseteq Accounts
         /\ s.step \in {"recover", "mark", "wait", "sweep", "locked"}
         /\ \A step \in {"recover", "mark", "wait", "sweep", "locked"} : [s EXCEPT !.step = step] \in Sweeps
         /\ \A step \in {"sweep"}, left \in SUBSET Accounts :
              [s EXCEPT !.step = step, !.left = left] \in Sweeps
BY DEF Sweeps

LEMMA StepTypes ==
  ASSUME Types, NEW t \in Tabs, NEW j \in Jobs, NEW next \in Steps,
         Step(t, j, next) \/ GoesOn(t, j, next) \/ End(t)
  PROVE  job' \in [Tabs -> Jobs]
<1>1. [j EXCEPT !.step = next] \in Jobs /\ [j EXCEPT !.step = "failing"] \in Jobs /\ NoJob \in Jobs
  BY JobTypes, NewTypes DEF Steps
<1> QED BY <1>1 DEF Types, Step, GoesOn, End

LEMMA PutTypes ==
  ASSUME Types, NEW u \in Accounts, NEW status \in Statuses, NEW n \in Nat,
         Put(u, [status |-> status, generation |-> n])
  PROVE  records' \in [Accounts -> [status : Statuses, generation : Nat]]
BY DEF Types, Packages, Put

LEMMA DeleteTypes ==
  ASSUME Types, NEW u, Delete(u)
  PROVE  Packages'
BY DEF Types, Packages, Delete, Put, NoRecord, Statuses

LEMMA MarkedRecords ==
  ASSUME Packages, NEW s, NEW us, records' = Marked(s, us)
  PROVE  /\ records' \in [Accounts -> [status : Statuses, generation : Nat]]
         /\ \A u \in Accounts :
              \/ records'[u] = records[u]
              \/ /\ records[u] # NoRecord /\ records'[u] # NoRecord
                 /\ records'[u].status = "failed" /\ records'[u].generation = records[u].generation
BY DEF Packages, Marked, NoRecord, Statuses

LEMMA TypesKept ==
  ASSUME Types, [BooksNext]_bookVars, \A t \in Tabs : Scoped(t) => job[t].scope \in Accounts
  PROVE  Types'
<1>0. /\ \A t \in Tabs : job[t] \in Jobs /\ identity[t] \in Someone
  BY DEF Types
<1>1. CASE ChangeAccount
  BY <1>1 DEF Types, Packages, ChangeAccount, BookActing, Someone
<1>2. ASSUME NEW t \in Tabs, Download(t)
      PROVE  Types'
  <2>0. bookActs + 1 \in Nat /\ bookActs' = bookActs + 1
    BY <1>2 DEF Types, Download, BookActing
  <2>1. [NoJob EXCEPT !.step = "lock", !.n = bookActs + 1, !.left = Objects] \in Jobs
    BY <2>0, NewTypes
  <2> QED BY <1>2, <2>0, <2>1 DEF Types, Packages, Download
<1>3. ASSUME NEW t \in Tabs, Enter(t) \/ SaveFails(t)
      PROVE  Types'
  <2>1. job' \in [Tabs -> Jobs]
    BY <1>0, <1>3, StepTypes DEF Enter, SaveFails, Steps
  <2> QED BY <1>3, <2>1 DEF Types, Packages, Enter, SaveFails, BookActing
<1>4. ASSUME NEW t \in Tabs, Metadata(t)
      PROVE  Types'
  <2>1. [job[t] EXCEPT !.scope = identity[t]] \in Jobs
    BY <1>0, JobTypes
  <2>2. job' \in [Tabs -> Jobs]
    BY <1>0, <1>4, <2>1, StepTypes DEF Metadata, Steps
  <2> QED BY <1>4, <2>2 DEF Types, Packages, Metadata, BookActing
<1>5. ASSUME NEW t \in Tabs, Previous(t)
      PROVE  Types'
  <2>1. job' \in [Tabs -> Jobs]
    BY <1>0, <1>5, StepTypes DEF Previous, Steps
  <2>2. Packages'
    BY <1>5, DeleteTypes DEF Previous, Types, Packages
  <2> QED BY <1>5, <2>1, <2>2 DEF Types, Previous
<1>6. ASSUME NEW t \in Tabs, Save(t)
      PROVE  Types'
  <2>0. job[t].scope \in Accounts /\ job[t].n \in Nat
    BY <1>0, <1>6, JobTypes DEF Save, Scoped, Downloads
  <2>1. job' \in [Tabs -> Jobs]
    <3>1. /\ \A o \in Objects : [job[t] EXCEPT !.object = {o}] \in Jobs
          /\ [job[t] EXCEPT !.left = @ \ job[t].object] \in Jobs
          /\ job[t].left \subseteq Objects
      BY <1>0, JobTypes
    <3> QED BY <1>0, <1>6, <3>1, StepTypes DEF Save, Steps
  <2>2. records' \in [Accounts -> [status : Statuses, generation : Nat]]
    <3>1. Put(job[t].scope, Downloading(job[t])) \/ records' = records
      BY <1>6 DEF Save
    <3> QED BY <2>0, <3>1, PutTypes DEF Downloading, Statuses, Types, Packages
  <2>3. \A r \in resources' : r[1] \in Accounts
    BY <1>6, <2>0 DEF Save, Types, Packages
  <2> QED BY <1>6, <2>1, <2>2, <2>3 DEF Types, Packages, Save
<1>7. ASSUME NEW t \in Tabs, MarkReady(t) \/ Fail(t)
      PROVE  Types'
  <2>0. job[t].scope \in Accounts /\ job[t].n \in Nat
    BY <1>0, <1>7, JobTypes DEF MarkReady, Fail, Scoped, Downloads
  <2>1. job' \in [Tabs -> Jobs]
    BY <1>0, <1>7, StepTypes DEF MarkReady, Fail, Steps
  <2>2. records' \in [Accounts -> [status : Statuses, generation : Nat]]
    <3>1. \/ Put(job[t].scope, [status |-> "ready", generation |-> job[t].n])
          \/ Put(job[t].scope, [status |-> "failed", generation |-> job[t].n])
          \/ records' = records
      BY <1>7 DEF MarkReady, Fail
    <3> QED BY <2>0, <3>1, PutTypes DEF Statuses, Types, Packages
  <2> QED BY <1>7, <2>1, <2>2 DEF Types, Packages, MarkReady, Fail, BookActing
<1>8. ASSUME NEW t \in Tabs, Remove(t)
      PROVE  Types'
  <2>1. Abort(job[t]) \in Jobs /\ job[t].n \in Nat
    BY <1>0, JobTypes
  <2>2. removal' \in [Tabs -> Removals]
    BY <1>0, <1>8, <2>1 DEF Types, Remove, Removals
  <2>3. job' \in [Tabs -> Jobs]
    BY <1>8, <2>1 DEF Types, Remove
  <2> QED BY <1>8, <2>2, <2>3 DEF Types, Packages, Remove, BookActing
<1>9. ASSUME NEW t \in Tabs, RemoveLocked(t)
      PROVE  Types'
  <2>1. removal' \in [Tabs -> Removals]
    BY <1>9 DEF Types, RemoveLocked, Removals
  <2> QED BY <1>9, <2>1 DEF Types, Packages, RemoveLocked
<1>10. ASSUME NEW t \in Tabs, RemoveNow(t)
      PROVE  Types'
  BY <1>10, DeleteTypes, NewTypes DEF Types, RemoveNow
<1>11. ASSUME NEW t \in Tabs, Follow(t)
      PROVE  Types'
  <2>1. Abort(job[t]) \in Jobs /\ job[t].n \in Nat
    BY <1>0, JobTypes
  <2>2. job' \in [Tabs -> Jobs]
    BY <1>11, <2>1 DEF Types, Follow
  <2>3. \A w \in Nat : [tab |-> t, user |-> account, step |-> "wait", waits |-> w, left |-> {}] \in Sweeps
    BY DEF Types, Sweeps
  <2>4. sweeps' \subseteq Sweeps
    BY <1>11, <2>1, <2>3 DEF Types, Follow
  <2> QED BY <1>11, <2>2, <2>4 DEF Types, Packages, Follow
<1>12. ASSUME NEW t \in Tabs, Close(t)
      PROVE  Types'
  <2>1. job' \in [Tabs -> Jobs] /\ removal' \in [Tabs -> Removals]
    BY <1>12, NewTypes DEF Types, Close
  <2>2. sweeps' \subseteq Sweeps /\ bookActs' \in Nat
    BY <1>12 DEF Types, Close, BookActing
  <2>3. UNCHANGED <<records, resources, account, identity>>
    BY <1>12 DEF Close
  <2> QED BY <2>1, <2>2, <2>3 DEF Types, Packages
<1>13. ASSUME NEW t \in Tabs, Open(t)
      PROVE  Types'
  <2>1. [tab |-> t, user |-> account, step |-> "recover", waits |-> 0, left |-> {}] \in Sweeps
    BY DEF Types, Sweeps
  <2> QED BY <1>13, <2>1 DEF Types, Packages, Open
<1>14. ASSUME NEW s \in sweeps, SweepLists(s)
      PROVE  Types'
  <2>1. s \in Sweeps /\ Others(s.tab) \in SUBSET Accounts
    BY DEF Types, Others
  <2>2. [s EXCEPT !.step = "sweep", !.left = Others(s.tab)] \in Sweeps
    BY <2>1, SweepTypes
  <2> QED BY <1>14, <2>2 DEF Types, Packages, SweepLists, Change
<1>15. ASSUME NEW s \in sweeps, SweepRemoves(s)
      PROVE  Types'
  <2>0. s \in Sweeps /\ s.left \subseteq Accounts
    BY SweepTypes DEF Types
  <2>1. CASE s.step = "sweep"
    <3>1. [s EXCEPT !.step = "locked"] \in Sweeps
      BY <2>0, SweepTypes
    <3> QED BY <1>15, <2>1, <3>1 DEF Types, Packages, SweepRemoves, Change
  <2>2. CASE s.step = "locked"
    <3>1. PICK u \in s.left :
             /\ IF u # identity[s.tab] THEN Delete(u) ELSE UNCHANGED <<records, resources>>
             /\ IF s.left = {u} THEN sweeps' = sweeps \ {s}
                ELSE Change(s, [s EXCEPT !.step = "sweep", !.left = s.left \ {u}])
      BY <1>15, <2>2 DEF SweepRemoves
    <3>2. Packages'
      BY <3>1, DeleteTypes DEF Types, Packages
    <3>3. UNCHANGED <<account, identity, open, job, removal, bookActs>>
      BY <1>15 DEF SweepRemoves
    <3>4. [s EXCEPT !.step = "sweep", !.left = s.left \ {u}] \in Sweeps
      BY <2>0, SweepTypes
    <3>5. sweeps' \subseteq Sweeps
      BY <3>1, <3>4 DEF Types, Change
    <3> QED BY <3>2, <3>3, <3>5 DEF Types
  <2> QED BY <1>15, <2>1, <2>2 DEF SweepRemoves
<1>16. ASSUME NEW s \in sweeps, Recover(s)
      PROVE  Types'
  <2>1. [s EXCEPT !.step = "mark"] \in Sweeps /\ [s EXCEPT !.step = "wait"] \in Sweeps
    BY SweepTypes DEF Types
  <2>2. sweeps' \subseteq Sweeps
    BY <1>16, <2>1 DEF Types, Recover, Change
  <2>3. records' \in [Accounts -> [status : Statuses, generation : Nat]]
    BY <1>16, MarkedRecords DEF Types, Packages, Recover
  <2> QED BY <1>16, <2>2, <2>3 DEF Types, Packages, Recover
<1>17. CASE UNCHANGED bookVars
  BY <1>17 DEF Types, Packages, bookVars
<1>18. ASSUME NEW t \in Tabs, RemoveFails(t)
       PROVE  Types'
  BY <1>18, NewTypes DEF Types, Packages, RemoveFails
<1>19. ASSUME NEW s \in sweeps, SweepFails(s)
       PROVE  Types'
  <2>1. records' \in [Accounts -> [status : Statuses, generation : Nat]]
    BY <1>19, MarkedRecords DEF Types, Packages, SweepFails
  <2> QED BY <1>19, <2>1 DEF Types, Packages, SweepFails
<1> QED BY <1>1, <1>2, <1>3, <1>4, <1>5, <1>6, <1>7, <1>8, <1>9, <1>10, <1>11, <1>12, <1>13, <1>14, <1>15,
       <1>16, <1>17, <1>18, <1>19 DEF BooksNext, DownloadStep

---------------------------------------------------------------------------
(* The lock *)

LEMMA NobodyWorks ==
  ASSUME Exclusive, lock = Free
  PROVE  /\ \A t \in Tabs : ~Downloads(t) /\ ~Removes(t)
         /\ \A s \in sweeps : ~Works(s)
BY DEF Exclusive

LEMMA LockKept ==
  ASSUME Types, Exclusive, lock' = lock, \A t \in Tabs : (Downloads(t)' => Downloads(t)) /\ (Removes(t)' => Removes(t)),
         \A s \in sweeps' : Works(s) => s \in sweeps
  PROVE  Exclusive'
<1>1. \A s \in sweeps : s.tab \in Tabs
  BY DEF Types, Sweeps
<1> QED BY <1>1 DEF Exclusive, Works

LEMMA LockGiven ==
  ASSUME \A t \in Tabs : ~Downloads(t)' /\ ~Removes(t)', \A s \in sweeps' : ~Works(s)
  PROVE  Exclusive'
BY DEF Exclusive, Works

LEMMA LockTaken ==
  ASSUME Exclusive, lock = Free, NEW t \in Tabs, NEW who, lock' = <<t, who>>,
         \/ /\ \A u \in Tabs : (Downloads(u)' => u = t) /\ ~Removes(u)'
            /\ \A s \in sweeps' : ~Works(s)
         \/ /\ \A u \in Tabs : ~Downloads(u)' /\ (Removes(u)' => u = t)
            /\ \A s \in sweeps' : ~Works(s)
         \/ /\ \A u \in Tabs : ~Downloads(u)' /\ ~Removes(u)'
            /\ \E r : r.tab = t /\ \A s \in sweeps' : Works(s) => s = r
  PROVE  Exclusive'
<1>1. lock' # Free /\ lock'[1] = t
  BY DEF Free
<1> QED BY <1>1 DEF Exclusive, Works

(* A tab whose operation works is alone. *)
LEMMA Alone ==
  ASSUME Types, Exclusive, NEW t \in Tabs
  PROVE  /\ Downloads(t) => /\ \A u \in Tabs : (Downloads(u) => u = t) /\ ~Removes(u)
                            /\ \A s \in sweeps : ~Works(s)
         /\ Removes(t) => /\ \A u \in Tabs : ~Downloads(u) /\ (Removes(u) => u = t)
                          /\ \A s \in sweeps : ~Works(s)
         /\ \A s \in sweeps : Works(s) => /\ \A u \in Tabs : ~Downloads(u) /\ ~Removes(u)
                                          /\ \A r \in sweeps : Works(r) => r = s
<1>1. \A s \in sweeps : s.tab \in Tabs
  BY DEF Types, Sweeps
<1> QED BY <1>1 DEF Exclusive

LEMMA ExclusiveKept ==
  ASSUME Types, Exclusive, [BooksNext]_bookVars, \A t \in Tabs : Idle(t)
  PROVE  Exclusive'
<1>0. job \in [Tabs -> Jobs] /\ removal \in [Tabs -> Removals] /\ sweeps \subseteq Sweeps
  BY DEF Types
<1>1. CASE ChangeAccount \/ UNCHANGED bookVars
  BY <1>1, LockKept DEF ChangeAccount, bookVars, Downloads, Removes
<1>2. ASSUME NEW t \in Tabs, Download(t)
      PROVE  Exclusive'
  <2>1. \A u \in Tabs : Downloads(u)' => Downloads(u)
    BY <1>0, <1>2 DEF Download, Downloads, NoJob
  <2> QED BY <1>2, <2>1, LockKept DEF Download, Removes
<1>3. ASSUME NEW t \in Tabs, Enter(t)
      PROVE  Exclusive'
  <2>1. lock = Free /\ lock' = <<t, "download">> /\ sweeps' = sweeps /\ removal' = removal
    BY <1>3 DEF Enter, Taken
  <2>2. \A u \in Tabs : u # t => Downloads(u)' = Downloads(u)
    BY <1>0, <1>3 DEF Enter, Step, Downloads
  <2> QED BY <2>1, <2>2, NobodyWorks, LockTaken DEF Removes
<1>4. ASSUME NEW t \in Tabs, Downloads(t), ~Downloads(t)', \A u \in Tabs : u # t => job'[u] = job[u],
             UNCHANGED <<removal, sweeps>>
      PROVE  Exclusive'
  <2>1. \A u \in Tabs : ~Downloads(u)' /\ ~Removes(u)'
    BY <1>4, Alone DEF Downloads, Removes
  <2>2. \A s \in sweeps' : ~Works(s)
    BY <1>4, Alone
  <2> QED BY <2>1, <2>2, LockGiven
<1>5. ASSUME NEW t \in Tabs, Downloads(t), \A u \in Tabs : u # t => job'[u] = job[u],
             UNCHANGED <<lock, removal, sweeps>>
      PROVE  Exclusive'
  <2>1. \A u \in Tabs : Downloads(u)' => Downloads(u)
    BY <1>5 DEF Downloads
  <2> QED BY <1>5, <2>1, LockKept DEF Removes
<1>6. ASSUME NEW t \in Tabs, Metadata(t) \/ Previous(t) \/ Save(t) \/ MarkReady(t) \/ SaveFails(t) \/ Fail(t)
      PROVE  Exclusive'
  <2>1. /\ Downloads(t) /\ \A u \in Tabs : u # t => job'[u] = job[u]
        /\ UNCHANGED <<removal, sweeps>>
    BY <1>0, <1>6 DEF Metadata, Previous, Save, MarkReady, SaveFails, Fail, Step, GoesOn, End, Downloads
  <2>2. End(t) \/ UNCHANGED lock
    BY <1>6 DEF Metadata, Previous, Save, MarkReady, SaveFails, Fail
  <2>3. End(t) => ~Downloads(t)'
    BY <1>0 DEF End, Downloads, NoJob
  <2> QED BY <1>4, <1>5, <2>1, <2>2, <2>3
<1>7. ASSUME NEW t \in Tabs, Remove(t)
      PROVE  Exclusive'
  <2>1. \A u \in Tabs : Downloads(u)' => Downloads(u)
    BY <1>0, <1>7 DEF Remove, Downloads, Abort, Jobs
  <2>2. \A u \in Tabs : Removes(u)' => Removes(u)
    BY <1>0, <1>7 DEF Remove, Removes
  <2> QED BY <1>7, <2>1, <2>2, LockKept DEF Remove
<1>8. ASSUME NEW t \in Tabs, RemoveLocked(t)
      PROVE  Exclusive'
  <2>1. lock = Free /\ lock' = <<t, "remove">> /\ sweeps' = sweeps /\ job' = job
    BY <1>8 DEF RemoveLocked, Taken
  <2>2. \A u \in Tabs : u # t => Removes(u)' = Removes(u)
    BY <1>0, <1>8 DEF RemoveLocked, Removes
  <2> QED BY <2>1, <2>2, NobodyWorks, LockTaken DEF Downloads
<1>9. ASSUME NEW t \in Tabs, RemoveNow(t) \/ RemoveFails(t), Removes(t)
      PROVE  Exclusive'
  <2>1. Removes(t) /\ UNCHANGED <<job, sweeps>>
    BY <1>9 DEF RemoveNow, RemoveFails
  <2>2. \A u \in Tabs : ~Removes(u)'
    BY <1>0, <1>9, <2>1, Alone DEF RemoveNow, RemoveFails, Removes, NoRemoval
  <2>3. \A u \in Tabs : ~Downloads(u)'
    BY <2>1, Alone DEF Downloads
  <2>4. \A s \in sweeps' : ~Works(s)
    BY <2>1, Alone
  <2> QED BY <2>2, <2>3, <2>4, LockGiven
<1>10. ASSUME NEW t \in Tabs, Follow(t)
       PROVE  Exclusive'
  <2>1. \A u \in Tabs : Downloads(u)' => Downloads(u)
    BY <1>0, <1>10 DEF Follow, Downloads, Abort, Jobs
  <2>2. \A s \in sweeps' : Works(s) => s \in sweeps
    BY <1>10 DEF Follow, Works
  <2> QED BY <1>10, <2>1, <2>2, LockKept DEF Follow, Removes
<1>11. ASSUME NEW t \in Tabs, Open(t)
       PROVE  Exclusive'
  <2>1. \A s \in sweeps' : Works(s) => s \in sweeps
    BY <1>11 DEF Open, Works
  <2> QED BY <1>11, <2>1, LockKept DEF Open, Removes, Downloads
<1>12. ASSUME NEW t \in Tabs, Close(t)
       PROVE  Exclusive'
  <2>1. \A u \in Tabs : /\ Downloads(u)' => Downloads(u) /\ u # t
                        /\ Removes(u)' => Removes(u) /\ u # t
    BY <1>0, <1>12 DEF Close, Downloads, Removes, NoJob, NoRemoval
  <2>2. \A s \in sweeps' : s \in sweeps /\ s.tab # t
    BY <1>12 DEF Close
  <2>3. CASE lock # Free /\ lock[1] = t
    <3>1. \A u \in Tabs : ~Downloads(u)' /\ ~Removes(u)'
      BY <2>1, <2>3 DEF Exclusive
    <3>2. \A s \in sweeps' : ~Works(s)
      BY <2>2, <2>3 DEF Exclusive
    <3> QED BY <3>1, <3>2, LockGiven
  <2>4. CASE ~(lock # Free /\ lock[1] = t)
    BY <1>12, <2>1, <2>2, <2>4, LockKept DEF Close
  <2> QED BY <2>3, <2>4
<1>13. ASSUME NEW s \in sweeps, SweepLists(s)
       PROVE  Exclusive'
  <2>1. UNCHANGED <<lock, job, removal>>
    BY <1>13 DEF SweepLists
  <2>2. [s EXCEPT !.step = "sweep", !.left = Others(s.tab)].step = "sweep"
    BY <1>0 DEF Sweeps
  <2>3. \A r \in sweeps' : Works(r) => r \in sweeps
    BY <1>13, <2>2 DEF SweepLists, Change, Works
  <2> QED BY <2>1, <2>3, LockKept DEF Downloads, Removes
<1>14. ASSUME NEW s \in sweeps, NEW step, Change(s, [s EXCEPT !.step = step]), UNCHANGED <<job, removal>>,
              NEW who, Taken(<<s.tab, who>>)
       PROVE  Exclusive'
  <2>1. s.tab \in Tabs /\ [s EXCEPT !.step = step].tab = s.tab
    BY <1>0 DEF Sweeps
  <2>2. \A r \in sweeps' : Works(r) => r = [s EXCEPT !.step = step]
    BY <1>14, NobodyWorks DEF Change, Taken
  <2>3. \A u \in Tabs : ~Downloads(u)' /\ ~Removes(u)'
    BY <1>14, NobodyWorks DEF Taken, Downloads, Removes
  <2>4. lock = Free /\ lock' = <<s.tab, who>>
    BY <1>14 DEF Taken
  <2>5. \E r : r.tab = s.tab /\ \A q \in sweeps' : Works(q) => q = r
    BY <2>1, <2>2
  <2> QED BY <2>1, <2>3, <2>4, <2>5, LockTaken
<1>15. ASSUME NEW s \in sweeps, Works(s), UNCHANGED <<job, removal>>,
              \A r \in sweeps' : r \in sweeps \ {s} \/ ~Works(r)
       PROVE  Exclusive'
  <2>1. s.tab \in Tabs
    BY <1>0 DEF Sweeps
  <2>2. /\ \A u \in Tabs : ~Downloads(u)' /\ ~Removes(u)'
        /\ \A r \in sweeps : Works(r) => r = s
    BY <1>15, <2>1, Alone DEF Downloads, Removes
  <2> QED BY <1>15, <2>2, LockGiven
<1>16. ASSUME NEW s \in sweeps, SweepRemoves(s)
       PROVE  Exclusive'
  <2>1. UNCHANGED <<job, removal>>
    BY <1>16 DEF SweepRemoves
  <2>2. CASE s.step = "sweep"
    BY <1>14, <1>16, <2>1, <2>2 DEF SweepRemoves
  <2>3. CASE s.step = "locked"
    <3>1. PICK u \in s.left : IF s.left = {u} THEN sweeps' = sweeps \ {s}
                              ELSE Change(s, [s EXCEPT !.step = "sweep", !.left = s.left \ {u}])
      BY <1>16, <2>3 DEF SweepRemoves
    <3>2. [s EXCEPT !.step = "sweep", !.left = s.left \ {u}].step = "sweep"
      BY <1>0 DEF Sweeps
    <3>3. \A r \in sweeps' : r \in sweeps \ {s} \/ ~Works(r)
      BY <3>1, <3>2 DEF Change, Works
    <3> QED BY <1>15, <2>1, <2>3, <3>3 DEF Works
  <2> QED BY <1>16, <2>2, <2>3 DEF SweepRemoves
<1>17. ASSUME NEW s \in sweeps, Recover(s)
       PROVE  Exclusive'
  <2>1. UNCHANGED <<job, removal>>
    BY <1>17 DEF Recover
  <2>2. [s EXCEPT !.step = "wait"].step = "wait"
    BY <1>0 DEF Sweeps
  <2>3. CASE s.step = "recover" /\ Taken(<<s.tab, "recover">>)
    BY <1>14, <1>17, <2>1, <2>3 DEF Recover, Taken
  <2>4. CASE s.step = "recover" /\ lock # Free
    <3>1. lock' = lock /\ \A r \in sweeps' : Works(r) => r \in sweeps
      BY <1>17, <2>2, <2>4 DEF Recover, Change, Works, Taken
    <3> QED BY <2>1, <3>1, LockKept DEF Downloads, Removes
  <2>5. CASE s.step = "mark"
    <3>1. \A r \in sweeps' : r \in sweeps \ {s} \/ ~Works(r)
      BY <1>17, <2>2, <2>5 DEF Recover, Change, Works
    <3> QED BY <1>15, <2>1, <2>5, <3>1 DEF Works
  <2> QED BY <1>17, <2>3, <2>4, <2>5 DEF Recover
<1>18. ASSUME NEW t \in Tabs, RemoveFails(t), ~Removes(t)
       PROVE  Exclusive'
  <2>1. UNCHANGED <<lock, job, sweeps>>
    BY <1>18 DEF RemoveFails, Removes
  <2>2. \A u \in Tabs : Removes(u)' => Removes(u)
    BY <1>0, <1>18 DEF RemoveFails, Removes, NoRemoval
  <2> QED BY <2>1, <2>2, LockKept DEF Downloads
<1>19. ASSUME NEW s \in sweeps, SweepFails(s)
       PROVE  Exclusive'
  <2>1. UNCHANGED <<job, removal>> /\ sweeps' = sweeps \ {s}
    BY <1>19 DEF SweepFails
  <2>2. CASE Works(s)
    BY <1>15, <2>1, <2>2
  <2>3. CASE ~Works(s)
    <3>1. lock' = lock
      BY <1>19, <2>3 DEF SweepFails, Works
    <3> QED BY <2>1, <3>1, LockKept DEF Downloads, Removes
  <2> QED BY <2>2, <2>3
<1>20. ASSUME NEW t \in Tabs, RemoveNow(t)
       PROVE  Removes(t)
  BY <1>20 DEF RemoveNow, Removes
<1> QED BY <1>1, <1>2, <1>3, <1>6, <1>7, <1>8, <1>9, <1>10, <1>11, <1>12, <1>13, <1>16, <1>17, <1>18, <1>19, <1>20
       DEF BooksNext, DownloadStep

---------------------------------------------------------------------------
(* Packages *)

LEMMA WholeWhenDeleted ==
  ASSUME Types, PackagesAreWhole, NEW u, Delete(u)
  PROVE  PackagesAreWhole'
<1>1. /\ \A w \in Accounts : records'[w] = IF w = u THEN NoRecord ELSE records[w]
      /\ resources' = {r \in resources : r[1] # u}
      /\ \A r \in resources : r[1] \in Accounts
  BY DEF Types, Packages, Delete, Put
<1>2. ASSUME NEW w \in Accounts, records'[w].status = "ready", NEW o \in Objects
      PROVE  <<w, records'[w].generation, o>> \in resources'
  <2>1. w # u /\ records'[w] = records[w]
    BY <1>1, <1>2 DEF NoRecord
  <2> QED BY <1>1, <1>2, <2>1 DEF PackagesAreWhole
<1>3. ASSUME NEW r \in resources'
      PROVE  records'[r[1]] # NoRecord
  BY <1>1 DEF PackagesAreWhole
<1> QED BY <1>2, <1>3 DEF PackagesAreWhole

LEMMA WholeWhenPut ==
  ASSUME Types, PackagesAreWhole, NEW u \in Accounts, NEW status \in Statuses \ {"absent"}, NEW n \in Nat,
         Put(u, [status |-> status, generation |-> n]), resources' = resources,
         status = "ready" => \A o \in Objects : <<u, n, o>> \in resources
  PROVE  PackagesAreWhole'
<1>1. \A w \in Accounts : records'[w] = IF w = u THEN [status |-> status, generation |-> n] ELSE records[w]
  BY DEF Types, Packages, Put
<1>2. \A r \in resources : r[1] \in Accounts
  BY DEF Types, Packages
<1>3. [status |-> status, generation |-> n] # NoRecord
  BY DEF NoRecord
<1> QED BY <1>1, <1>2, <1>3 DEF PackagesAreWhole

LEMMA JobStays ==
  ASSUME Types, NEW t \in Tabs, JobOK(t), job'[t] \in {job[t], Abort(job[t]), NoJob},
         Saving(t) => UNCHANGED <<records, resources>>
  PROVE  JobOK(t)'
<1>1. CASE job'[t] = job[t]
  BY <1>1 DEF JobOK, Saving, Scoped, Downloads
<1>2. CASE job'[t] = Abort(job[t])
  <2>1. /\ job'[t].step = job[t].step /\ job'[t].n = job[t].n /\ job'[t].scope = job[t].scope
        /\ job'[t].left = job[t].left
    BY <1>2 DEF Types, Jobs, Abort
  <2> QED BY <2>1 DEF JobOK, Saving, Scoped, Downloads
<1>3. CASE job'[t] = NoJob
  BY <1>3 DEF JobOK, Saving, Scoped, Downloads, NoJob
<1> QED BY <1>1, <1>2, <1>3

(* The steps of one download, whose job the others' are not. *)
LEMMA SavedKept ==
  ASSUME Inductive, NEW t \in Tabs, DownloadStep(t)
  PROVE  JobOK(t)' /\ PackagesAreWhole'
<1>0. /\ Types /\ JobOK(t) /\ PackagesAreWhole /\ job \in [Tabs -> Jobs] /\ job[t] \in Jobs
      /\ job[t].n \in Nat /\ job[t].step \in Steps
  BY JobTypes DEF Inductive, Types
<1>1. ASSUME NEW j \in Jobs, NEW next \in Steps, Step(t, j, next)
      PROVE  /\ job'[t].step = next /\ job'[t].n = j.n /\ job'[t].scope = j.scope /\ job'[t].left = j.left
  BY <1>0, <1>1 DEF Step, Jobs
<1>2. ASSUME NEW j \in Jobs, NEW next \in Steps, GoesOn(t, j, next)
      PROVE  /\ job'[t].step \in {next, "failing"}
             /\ job'[t].n = j.n /\ job'[t].scope = j.scope /\ job'[t].left = j.left
  <2>1. "failing" \in Steps
    BY DEF Steps
  <2> QED BY <1>1, <1>2, <2>1 DEF GoesOn
<1>3. ASSUME UNCHANGED <<records, resources>>
      PROVE  PackagesAreWhole'
  BY <1>0, <1>3 DEF PackagesAreWhole
<1>4. ASSUME End(t)
      PROVE  JobOK(t)'
  <2>1. job'[t] = NoJob
    BY <1>0, <1>4 DEF End
  <2> QED BY <2>1 DEF JobOK, Saving, Scoped, Downloads, NoJob
<1>5. CASE Enter(t)
  <2>1. Step(t, job[t], "metadata") /\ job[t].step = "lock" /\ UNCHANGED <<records, resources>>
    BY <1>5 DEF Enter
  <2>2. job'[t].step = "metadata" /\ job'[t].n = job[t].n /\ job'[t].left = job[t].left
    BY <1>0, <1>1, <2>1 DEF Steps
  <2> QED BY <1>0, <1>3, <2>1, <2>2 DEF JobOK, Saving, Scoped, Downloads
<1>6. CASE Metadata(t)
  <2>1. UNCHANGED <<records, resources>> /\ job[t].step = "metadata"
    BY <1>6 DEF Metadata
  <2>2. CASE identity[t] # NoOne /\ Step(t, [job[t] EXCEPT !.scope = identity[t]], "previous")
    <3>1. identity[t] \in Accounts
      BY <1>0, <2>2 DEF Types, Someone
    <3>2. /\ [job[t] EXCEPT !.scope = identity[t]] \in Jobs
          /\ [job[t] EXCEPT !.scope = identity[t]].scope = identity[t]
          /\ [job[t] EXCEPT !.scope = identity[t]].n = job[t].n
          /\ [job[t] EXCEPT !.scope = identity[t]].left = job[t].left
      BY <1>0, <3>1, JobTypes DEF Jobs, Someone
    <3>3. /\ job'[t].step = "previous" /\ job'[t].n = job[t].n /\ job'[t].scope = identity[t]
          /\ job'[t].left = job[t].left
      BY <1>1, <2>2, <3>2 DEF Steps
    <3> QED BY <1>0, <1>3, <2>1, <2>2, <3>1, <3>3 DEF JobOK, Saving, Scoped, Downloads
  <2> QED BY <1>3, <1>4, <1>6, <2>1, <2>2 DEF Metadata
<1>7. CASE Previous(t)
  <2>1. job[t].step = "previous"
    BY <1>7 DEF Previous
  <2>2. ASSUME GoesOn(t, job[t], "first")
        PROVE  JobOK(t)'
    <3>1. /\ job'[t].step \in {"first", "failing"} /\ job'[t].n = job[t].n
          /\ job'[t].scope = job[t].scope /\ job'[t].left = job[t].left
      BY <1>0, <1>2, <2>2 DEF Steps
    <3> QED BY <1>0, <2>1, <3>1 DEF JobOK, Saving, Scoped, Downloads
  <2>3. JobOK(t)'
    BY <1>4, <1>7, <2>2 DEF Previous
  <2>4. PackagesAreWhole'
    BY <1>0, <1>3, <1>7, WholeWhenDeleted DEF Previous
  <2> QED BY <2>3, <2>4
<1>8. CASE SaveFails(t)
  <2>1. /\ Step(t, job[t], "failing") /\ UNCHANGED <<records, resources>>
        /\ job[t].step \in {"previous", "first", "fetch", "store", "progress", "ready"}
    BY <1>8 DEF SaveFails
  <2>2. job'[t].step = "failing" /\ job'[t].n = job[t].n /\ job'[t].scope = job[t].scope
    BY <1>0, <1>1, <2>1 DEF Steps
  <2> QED BY <1>0, <1>3, <2>1, <2>2 DEF JobOK, Saving, Scoped, Downloads
<1>9. CASE MarkReady(t)
  <2>1. /\ job[t].scope \in Accounts /\ job[t].left = {}
        /\ \A o \in Objects : <<job[t].scope, job[t].n, o>> \in resources
    BY <1>0, <1>9 DEF MarkReady, JobOK, Saving, Scoped, Downloads
  <2> QED BY <1>0, <1>4, <1>9, <2>1, WholeWhenPut DEF MarkReady, Statuses
<1>10. CASE Fail(t)
  <2>1. job[t].scope \in Accounts
    BY <1>0, <1>10 DEF Fail, JobOK, Scoped, Downloads
  <2> QED BY <1>0, <1>3, <1>4, <1>10, <2>1, WholeWhenPut DEF Fail, Statuses
<1>11. CASE Save(t)
  <2>0. job[t].step \in {"first", "fetch", "store", "progress"} /\ job[t].n # 0
        /\ job[t].scope \in Accounts /\ job[t].scope # NoOne
    BY <1>0, <1>11 DEF Save, JobOK, Scoped, Downloads
  <2>1. ASSUME Put(job[t].scope, Downloading(job[t])), UNCHANGED resources
        PROVE  PackagesAreWhole' /\ records'[job[t].scope].status = "downloading"
    <3>1. PackagesAreWhole'
      BY <1>0, <2>0, <2>1, WholeWhenPut DEF Downloading, Statuses
    <3>2. records'[job[t].scope].status = "downloading"
      BY <1>0, <2>0, <2>1 DEF Put, Downloading, Types, Packages
    <3> QED BY <3>1, <3>2
  <2>2. CASE job[t].step = "first"
    <3>1. /\ Put(job[t].scope, Downloading(job[t])) /\ UNCHANGED resources
          /\ Step(t, job[t], "fetch") /\ job[t].left = Objects
      BY <1>0, <1>11, <2>2 DEF Save, JobOK
    <3>2. /\ job'[t].step = "fetch" /\ job'[t].n = job[t].n
          /\ job'[t].scope = job[t].scope /\ job'[t].left = job[t].left
      BY <1>0, <1>1, <3>1 DEF Steps
    <3> QED BY <2>0, <2>1, <3>1, <3>2 DEF JobOK, Saving, Scoped, Downloads
  <2>3. CASE job[t].step = "fetch"
    <3>1. PICK o \in job[t].left : GoesOn(t, [job[t] EXCEPT !.object = {o}], "store")
      BY <1>11, <2>3 DEF Save
    <3>2. /\ [job[t] EXCEPT !.object = {o}] \in Jobs
          /\ [job[t] EXCEPT !.object = {o}].n = job[t].n
          /\ [job[t] EXCEPT !.object = {o}].scope = job[t].scope
          /\ [job[t] EXCEPT !.object = {o}].left = job[t].left
      BY <1>0, JobTypes DEF Jobs
    <3>3. /\ job'[t].step \in {"store", "failing"} /\ job'[t].n = job[t].n
          /\ job'[t].scope = job[t].scope /\ job'[t].left = job[t].left
      BY <1>2, <3>1, <3>2 DEF Steps
    <3>4. UNCHANGED <<records, resources>>
      BY <1>11, <2>3 DEF Save
    <3> QED BY <1>0, <1>3, <2>0, <2>3, <3>3, <3>4 DEF JobOK, Saving, Scoped, Downloads
  <2>4. CASE job[t].step = "store"
    <3>1. /\ resources' = resources \cup {<<job[t].scope, job[t].n, o>> : o \in job[t].object}
          /\ GoesOn(t, [job[t] EXCEPT !.left = @ \ job[t].object], "progress") /\ UNCHANGED records
      BY <1>11, <2>4 DEF Save
    <3>2. /\ [job[t] EXCEPT !.left = @ \ job[t].object] \in Jobs
          /\ [job[t] EXCEPT !.left = @ \ job[t].object].n = job[t].n
          /\ [job[t] EXCEPT !.left = @ \ job[t].object].scope = job[t].scope
          /\ [job[t] EXCEPT !.left = @ \ job[t].object].left = job[t].left \ job[t].object
      BY <1>0, JobTypes DEF Jobs
    <3>3. /\ job'[t].step \in {"progress", "failing"} /\ job'[t].n = job[t].n
          /\ job'[t].scope = job[t].scope /\ job'[t].left = job[t].left \ job[t].object
      BY <1>2, <3>1, <3>2 DEF Steps
    <3>4. /\ records[job[t].scope].status = "downloading"
          /\ \A o \in Objects \ job[t].left : <<job[t].scope, job[t].n, o>> \in resources
      BY <1>0, <2>4 DEF JobOK, Saving
    <3>5. \A o \in Objects \ job'[t].left : <<job[t].scope, job[t].n, o>> \in resources'
      BY <3>1, <3>3, <3>4
    <3>6. JobOK(t)'
      BY <2>0, <3>1, <3>3, <3>4, <3>5 DEF JobOK, Saving, Scoped, Downloads
    <3>7. PackagesAreWhole'
      <4>1. records[job[t].scope] # NoRecord
        BY <3>4 DEF NoRecord
      <4>2. \A r \in resources' : r \in resources \/ r[1] = job[t].scope
        BY <3>1
      <4> QED BY <1>0, <3>1, <4>1, <4>2 DEF PackagesAreWhole
    <3> QED BY <3>6, <3>7
  <2>5. CASE job[t].step = "progress"
    <3>1. /\ Put(job[t].scope, Downloading(job[t])) /\ UNCHANGED resources
          /\ IF job[t].left = {} THEN GoesOn(t, job[t], "ready") ELSE Step(t, job[t], "fetch")
      BY <1>11, <2>5 DEF Save
    <3>2. /\ job'[t].step \in {"ready", "failing", "fetch"} /\ job'[t].n = job[t].n
          /\ job'[t].scope = job[t].scope /\ job'[t].left = job[t].left
          /\ job'[t].step = "ready" => job[t].left = {}
      BY <1>0, <1>1, <1>2, <3>1 DEF Steps
    <3>3. \A o \in Objects \ job[t].left : <<job[t].scope, job[t].n, o>> \in resources
      BY <1>0, <2>5 DEF JobOK, Saving
    <3> QED BY <2>0, <2>1, <3>1, <3>2, <3>3 DEF JobOK, Saving, Scoped, Downloads
  <2> QED BY <2>0, <2>2, <2>3, <2>4, <2>5
<1> QED BY <1>5, <1>6, <1>7, <1>8, <1>9, <1>10, <1>11 DEF DownloadStep

(* Whoever works alone touches no package that is being saved. *)
LEMMA JobsAndPackagesKept ==
  ASSUME Inductive, [BooksNext]_bookVars
  PROVE  PackagesAreWhole' /\ \A t \in Tabs : JobOK(t)'
<1>0. /\ Types /\ Exclusive /\ PackagesAreWhole /\ \A t \in Tabs : JobOK(t)
      /\ job \in [Tabs -> Jobs] /\ sweeps \subseteq Sweeps
  BY DEF Inductive, Types
<1>1. \A t \in Tabs : Saving(t) => Downloads(t)
  BY DEF Saving, Downloads
<1>2. ASSUME UNCHANGED <<records, resources>>
      PROVE  PackagesAreWhole'
  BY <1>0, <1>2 DEF PackagesAreWhole
<1>3. ASSUME UNCHANGED <<records, resources>>,
             \A t \in Tabs : job'[t] \in {job[t], Abort(job[t]), NoJob}
      PROVE  PackagesAreWhole' /\ \A t \in Tabs : JobOK(t)'
  BY <1>0, <1>2, <1>3, JobStays
<1>4. ASSUME UNCHANGED job, \A t \in Tabs : ~Downloads(t)
      PROVE  \A t \in Tabs : JobOK(t)'
  BY <1>0, <1>1, <1>4, JobStays
<1>5. CASE ChangeAccount \/ UNCHANGED bookVars
  BY <1>3, <1>5 DEF ChangeAccount, bookVars
<1>6. ASSUME NEW t \in Tabs, Remove(t) \/ RemoveLocked(t) \/ RemoveFails(t) \/ Follow(t) \/ Close(t) \/ Open(t)
      PROVE  PackagesAreWhole' /\ \A u \in Tabs : JobOK(u)'
  <2>1. UNCHANGED <<records, resources>>
    BY <1>6 DEF Remove, RemoveLocked, RemoveFails, Follow, Close, Open
  <2>2. \A u \in Tabs : job'[u] \in {job[u], Abort(job[u]), NoJob}
    BY <1>0, <1>6 DEF Remove, RemoveLocked, RemoveFails, Follow, Close, Open
  <2> QED BY <1>3, <2>1, <2>2
<1>7. ASSUME NEW t \in Tabs, Download(t)
      PROVE  PackagesAreWhole' /\ \A u \in Tabs : JobOK(u)'
  <2>1. UNCHANGED <<records, resources>> /\ bookActs \in Nat
    BY <1>0, <1>7 DEF Download, Types
  <2>2. job' = [job EXCEPT ![t] = [NoJob EXCEPT !.step = "lock", !.n = bookActs + 1, !.left = Objects]]
    BY <1>7 DEF Download
  <2>3. job'[t].step = "lock" /\ job'[t].n = bookActs + 1 /\ job'[t].left = Objects
    BY <1>0, <2>2 DEF NoJob
  <2>4. JobOK(t)'
    BY <2>1, <2>3 DEF JobOK, Saving, Scoped, Downloads
  <2>5. \A u \in Tabs : u # t => job'[u] = job[u]
    BY <1>0, <2>2
  <2>6. \A u \in Tabs : u # t => JobOK(u)'
    BY <1>0, <2>1, <2>5, JobStays
  <2> QED BY <1>2, <2>1, <2>4, <2>6
<1>8. ASSUME NEW t \in Tabs, DownloadStep(t)
      PROVE  PackagesAreWhole' /\ \A u \in Tabs : JobOK(u)'
  <2>1. \A u \in Tabs : u # t => job'[u] = job[u]
    BY <1>0, <1>8 DEF DownloadStep, Enter, Metadata, Previous, Save, MarkReady, SaveFails, Fail, Step, GoesOn, End
  <2>2. Enter(t) => UNCHANGED <<records, resources>>
    BY DEF Enter
  <2>3. ~Enter(t) => Downloads(t)
    BY <1>8 DEF DownloadStep, Metadata, Previous, Save, MarkReady, SaveFails, Fail, Downloads
  <2>4. \A u \in Tabs : u # t => JobOK(u)'
    BY <1>0, <1>1, <2>1, <2>2, <2>3, Alone, JobStays
  <2> QED BY <1>8, <2>4, SavedKept
<1>9. ASSUME NEW t \in Tabs, RemoveNow(t)
      PROVE  PackagesAreWhole' /\ \A u \in Tabs : JobOK(u)'
  <2>1. Removes(t) /\ UNCHANGED job /\ Delete(removal[t].user)
    BY <1>9 DEF RemoveNow, Removes
  <2> QED BY <1>0, <1>4, <2>1, Alone, WholeWhenDeleted
<1>10. ASSUME NEW s \in sweeps, SweepLists(s)
       PROVE  PackagesAreWhole' /\ \A u \in Tabs : JobOK(u)'
  BY <1>3, <1>10 DEF SweepLists
<1>11. ASSUME NEW s \in sweeps, SweepRemoves(s)
       PROVE  PackagesAreWhole' /\ \A u \in Tabs : JobOK(u)'
  <2>0. UNCHANGED job /\ s.tab \in Tabs
    BY <1>0, <1>11 DEF SweepRemoves, Sweeps
  <2>1. CASE s.step = "sweep"
    BY <1>3, <1>11, <2>0, <2>1 DEF SweepRemoves
  <2>2. CASE s.step = "locked"
    <3>1. \A u \in Tabs : ~Downloads(u)
      BY <1>0, <2>0, <2>2, Alone DEF Works
    <3>2. PICK u \in s.left : IF u # identity[s.tab] THEN Delete(u) ELSE UNCHANGED <<records, resources>>
      BY <1>11, <2>2 DEF SweepRemoves
    <3>3. PackagesAreWhole'
      BY <1>0, <1>2, <3>2, WholeWhenDeleted
    <3> QED BY <1>4, <2>0, <3>1, <3>3
  <2> QED BY <1>11, <2>1, <2>2 DEF SweepRemoves
<1>12. ASSUME NEW s \in sweeps, Recover(s) \/ SweepFails(s)
       PROVE  PackagesAreWhole' /\ \A u \in Tabs : JobOK(u)'
  <2>0. UNCHANGED <<job, resources>> /\ s.tab \in Tabs
    BY <1>0, <1>12 DEF Recover, SweepFails, Sweeps
  <2>1. CASE UNCHANGED records
    BY <1>3, <2>0, <2>1
  <2>2. CASE s.step = "mark"
    <3>1. \A u \in Tabs : ~Downloads(u)
      BY <1>0, <2>0, <2>2, Alone DEF Works
    <3>2. \E us : records' = Marked(s, us)
      BY <1>12, <2>2 DEF Recover, SweepFails
    <3>3. \A u \in Accounts : \/ records'[u] = records[u]
                              \/ records'[u].status = "failed" /\ records'[u] # NoRecord
      BY <1>0, <3>2, MarkedRecords DEF Types
    <3>4. \A r \in resources : r[1] \in Accounts
      BY <1>0 DEF Types, Packages
    <3>5. PackagesAreWhole'
      BY <1>0, <2>0, <3>3, <3>4 DEF PackagesAreWhole
    <3> QED BY <1>4, <2>0, <3>1, <3>5
  <2> QED BY <1>12, <2>1, <2>2 DEF Recover, SweepFails
<1> QED BY <1>5, <1>6, <1>7, <1>8, <1>9, <1>10, <1>11, <1>12 DEF BooksNext

---------------------------------------------------------------------------
(* Packages of other accounts *)

LEMMA IdleKept ==
  ASSUME Types, [BooksNext]_bookVars, \A t \in Tabs : Idle(t)
  PROVE  \A t \in Tabs : Idle(t)'
<1> SUFFICES ASSUME NEW t \in Tabs PROVE Idle(t)'
  OBVIOUS
<1>0. job \in [Tabs -> Jobs] /\ Idle(t)
  BY DEF Types
<1>1. CASE UNCHANGED <<open, job>>
  BY <1>0, <1>1 DEF Idle
<1>2. ASSUME NEW u \in Tabs, Download(u) \/ DownloadStep(u)
      PROVE  Idle(t)'
  <2>1. open' = open /\ \A w \in Tabs : w # u => job'[w] = job[w]
    BY <1>0, <1>2 DEF Download, DownloadStep, Enter, Metadata, Previous, Save, MarkReady, SaveFails, Fail, Step, GoesOn, End
  <2>2. u \in open
    BY <1>2 DEF Idle, Download, DownloadStep, Enter, Metadata, Previous, Save, MarkReady, SaveFails, Fail
  <2> QED BY <1>0, <2>1, <2>2 DEF Idle
<1>3. ASSUME NEW u \in Tabs, Remove(u) \/ Follow(u)
      PROVE  Idle(t)'
  <2>1. open' = open /\ u \in open /\ \A w \in Tabs : w # u => job'[w] = job[w]
    BY <1>0, <1>3 DEF Remove, Follow
  <2> QED BY <1>0, <2>1 DEF Idle
<1>4. ASSUME NEW u \in Tabs, Close(u)
      PROVE  Idle(t)'
  BY <1>0, <1>4 DEF Close, Idle, NoJob
<1>5. ASSUME NEW u \in Tabs, Open(u)
      PROVE  Idle(t)'
  BY <1>0, <1>5 DEF Open, Idle
<1>6. ASSUME NEW u \in Tabs, RemoveLocked(u) \/ RemoveNow(u) \/ RemoveFails(u)
      PROVE  UNCHANGED <<open, job>>
  BY <1>6 DEF RemoveLocked, RemoveNow, RemoveFails
<1>7. ASSUME NEW s \in sweeps, SweepLists(s) \/ SweepRemoves(s) \/ Recover(s) \/ SweepFails(s)
      PROVE  UNCHANGED <<open, job>>
  BY <1>7 DEF SweepLists, SweepRemoves, Recover, SweepFails
<1> QED BY <1>1, <1>2, <1>3, <1>4, <1>5, <1>6, <1>7 DEF BooksNext, ChangeAccount, bookVars

(* The sweep that waits for a download. *)
WaitsFor(s, t) == s.tab = t /\ s.step = "wait" /\ s.waits = job[t].n

LEMMA SweptFrame ==
  ASSUME NEW t \in Tabs, JobSwept(t), identity'[t] = identity[t],
         Scoped(t)' => /\ Scoped(t) /\ job'[t].n = job[t].n /\ job'[t].scope = job[t].scope
                       /\ \A s \in sweeps : WaitsFor(s, t) => s \in sweeps'
  PROVE  JobSwept(t)'
BY DEF JobSwept, WaitsFor

LEMMA SweptKept ==
  ASSUME Inductive, [BooksNext]_bookVars
  PROVE  \A t \in Tabs : JobSwept(t)'
<1> SUFFICES ASSUME NEW t \in Tabs PROVE JobSwept(t)'
  OBVIOUS
<1>0. /\ Types /\ JobSwept(t) /\ JobOK(t) /\ job \in [Tabs -> Jobs] /\ job[t] \in Jobs
      /\ identity \in [Tabs -> Someone] /\ sweeps \subseteq Sweeps
  BY DEF Inductive, Types
<1>1. ASSUME identity'[t] = identity[t], job'[t] \in {job[t], Abort(job[t]), NoJob},
             \A s \in sweeps : WaitsFor(s, t) /\ Scoped(t) => s \in sweeps'
      PROVE  JobSwept(t)'
  <2>1. /\ Abort(job[t]).step = job[t].step /\ Abort(job[t]).n = job[t].n
        /\ Abort(job[t]).scope = job[t].scope /\ NoJob.step = "none"
    BY <1>0 DEF Jobs, Abort, NoJob
  <2>2. Scoped(t)' => job'[t] \in {job[t], Abort(job[t])} /\ Scoped(t)
    BY <1>1, <2>1 DEF Scoped, Downloads
  <2> QED BY <1>0, <1>1, <2>1, <2>2, SweptFrame
<1>2. CASE ChangeAccount \/ UNCHANGED bookVars
  BY <1>1, <1>2 DEF ChangeAccount, bookVars
<1>3. ASSUME NEW u \in Tabs, Download(u)
      PROVE  JobSwept(t)'
  <2>1. /\ UNCHANGED <<identity, sweeps>>
        /\ job' = [job EXCEPT ![u] = [NoJob EXCEPT !.step = "lock", !.n = bookActs + 1, !.left = Objects]]
    BY <1>3 DEF Download
  <2>2. CASE u = t
    <3>1. job'[t].step = "lock"
      BY <1>0, <2>1, <2>2 DEF NoJob
    <3> QED BY <3>1 DEF JobSwept, Scoped, Downloads
  <2>3. CASE u # t
    BY <1>0, <1>1, <2>1, <2>3
  <2> QED BY <2>2, <2>3
<1>4. ASSUME NEW u \in Tabs, DownloadStep(u)
      PROVE  JobSwept(t)'
  <2>1. UNCHANGED <<identity, sweeps>>
    BY <1>4 DEF DownloadStep, Enter, Metadata, Previous, Save, MarkReady, SaveFails, Fail
  <2>2. CASE u # t
    <3>1. job'[t] = job[t]
      BY <1>0, <1>4, <2>2 DEF DownloadStep, Enter, Metadata, Previous, Save, MarkReady, SaveFails, Fail, Step, GoesOn, End
    <3> QED BY <1>1, <2>1, <3>1
  <2>3. CASE u = t /\ End(t)
    <3>1. job'[t] = NoJob
      BY <1>0, <2>3 DEF End
    <3> QED BY <1>1, <2>1, <3>1
  <2>4. CASE u = t /\ Scoped(t) /\ ~End(t)
    <3>1. \E next \in Steps : \E o, left :
             \/ Step(t, job[t], next)
             \/ Step(t, [job[t] EXCEPT !.object = o], next)
             \/ Step(t, [job[t] EXCEPT !.left = left], next)
      BY <1>4, <2>4 DEF DownloadStep, Enter, Metadata, Previous, Save, MarkReady, SaveFails, Fail, GoesOn, Steps,
             Scoped, Downloads
    <3>2. job'[t].n = job[t].n /\ job'[t].scope = job[t].scope
      BY <1>0, <3>1 DEF Step, Jobs
    <3> QED BY <1>0, <2>1, <2>4, <3>2, SweptFrame
  <2>5. CASE u = t /\ ~Scoped(t) /\ ~End(t)
    <3>1. CASE Enter(t)
      <4>1. job'[t].step = "metadata"
        BY <1>0, <3>1 DEF Enter, Step, Jobs
      <4> QED BY <4>1 DEF JobSwept, Scoped, Downloads
    <3>2. CASE Metadata(t)
      <4>1. Step(t, [job[t] EXCEPT !.scope = identity[t]], "previous")
        BY <2>5, <3>2 DEF Metadata
      <4>2. job'[t].scope = identity[t]
        BY <1>0, <4>1 DEF Step, Jobs
      <4> QED BY <2>1, <4>2 DEF JobSwept
    <3> QED BY <1>4, <2>5, <3>1, <3>2 DEF DownloadStep, Previous, Save, MarkReady, SaveFails, Fail, Scoped, Downloads
  <2> QED BY <2>2, <2>3, <2>4, <2>5
<1>5. ASSUME NEW u \in Tabs, Remove(u)
      PROVE  JobSwept(t)'
  BY <1>0, <1>1, <1>5 DEF Remove
<1>6. ASSUME NEW u \in Tabs, RemoveLocked(u) \/ RemoveNow(u) \/ RemoveFails(u)
      PROVE  JobSwept(t)'
  BY <1>1, <1>6 DEF RemoveLocked, RemoveNow, RemoveFails
<1>7. ASSUME NEW u \in Tabs, Close(u)
      PROVE  JobSwept(t)'
  <2>1. CASE u = t
    BY <1>0, <1>7, <2>1 DEF Close, JobSwept, Scoped, Downloads, NoJob
  <2>2. CASE u # t
    <3>1. identity' = identity /\ job'[t] = job[t] /\ \A s \in sweeps : WaitsFor(s, t) => s \in sweeps'
      BY <1>0, <1>7, <2>2 DEF Close, WaitsFor
    <3> QED BY <1>1, <3>1
  <2> QED BY <2>1, <2>2
<1>8. ASSUME NEW u \in Tabs, Open(u)
      PROVE  JobSwept(t)'
  <2>1. CASE u = t
    <3>1. job'[t].step = "none"
      BY <1>8, <2>1 DEF Open, Inductive, Idle
    <3> QED BY <3>1 DEF JobSwept, Scoped, Downloads
  <2>2. CASE u # t
    BY <1>0, <1>1, <1>8, <2>2 DEF Open
  <2> QED BY <2>1, <2>2
<1>9. ASSUME NEW u \in Tabs, Follow(u)
      PROVE  JobSwept(t)'
  <2>1. CASE u # t
    <3>1. identity'[t] = identity[t] /\ job'[t] = job[t] /\ sweeps \subseteq sweeps'
      BY <1>0, <1>9, <2>1 DEF Follow
    <3> QED BY <1>1, <3>1
  <2>2. CASE u = t
    <3>1. /\ identity'[t] = account /\ job'[t] \in {job[t], Abort(job[t])}
      BY <1>0, <1>9, <2>2 DEF Follow
    <3>2. job'[t].step = job[t].step /\ job'[t].n = job[t].n /\ job'[t].scope = job[t].scope
      BY <1>0, <3>1 DEF Jobs, Abort
    <3>3. SUFFICES ASSUME Scoped(t), job[t].scope # account
                   PROVE  \E s \in sweeps' : s.tab = t /\ s.step = "wait" /\ s.waits = job[t].n
      BY <3>1, <3>2 DEF JobSwept, Scoped, Downloads
    <3>4. job[t].step # "none" /\ job[t].scope \notin {NoOne, account}
      BY <1>0, <3>3 DEF JobOK, Scoped, Downloads
    <3>5. [tab |-> t, user |-> account, step |-> "wait", waits |-> job[t].n, left |-> {}] \in sweeps'
      BY <1>9, <2>2, <3>4 DEF Follow
    <3> QED BY <3>5
  <2> QED BY <2>1, <2>2
<1>10. ASSUME NEW r \in sweeps, SweepLists(r) \/ SweepFails(r)
       PROVE  JobSwept(t)'
  <2>1. UNCHANGED <<identity, job>> /\ \A s \in sweeps : s = r \/ s \in sweeps'
    BY <1>10 DEF SweepLists, SweepFails, Change
  <2>2. ~(WaitsFor(r, t) /\ Scoped(t))
    BY <1>0, <1>10 DEF SweepLists, SweepFails, Waited, WaitsFor, Ended, JobOK, Scoped, Downloads
  <2> QED BY <1>1, <2>1, <2>2
<1>11. ASSUME NEW r \in sweeps, SweepRemoves(r) \/ Recover(r)
       PROVE  JobSwept(t)'
  <2>1. UNCHANGED <<identity, job>> /\ \A s \in sweeps : s = r \/ s \in sweeps'
    BY <1>11 DEF SweepRemoves, Recover, Change
  <2>2. ~WaitsFor(r, t)
    BY <1>11 DEF SweepRemoves, Recover, WaitsFor
  <2> QED BY <1>1, <2>1, <2>2
<1> QED BY <1>2, <1>3, <1>4, <1>5, <1>6, <1>7, <1>8, <1>9, <1>10, <1>11 DEF BooksNext

LEMMA CoveredFrame ==
  ASSUME NEW u \in Accounts, Covered(u),
         records'[u] # NoRecord => records[u] # NoRecord /\ (u \in spared => u \in spared'),
         \A t \in Tabs : identity'[t] = identity[t],
         \A t \in Tabs : t \notin open => t \notin open',
         \A s \in sweeps : Finds(s, u) =>
           \/ identity[s.tab] = u
           \/ \E r \in sweeps' : r.tab = s.tab /\ Finds(r, u)
  PROVE  Covered(u)'
BY DEF Covered, Finds

(* The package that a download records is looked after as the download is. *)
LEMMA RecordedCovered ==
  ASSUME Inductive, NEW t \in Tabs, Scoped(t), UNCHANGED <<identity, open, sweeps>>,
         NEW u, u = job[t].scope
  PROVE  Covered(u)'
<1>1. JobSwept(t)
  BY DEF Inductive
<1>2. CASE u = identity[t]
  BY <1>2 DEF Covered
<1>3. CASE u # identity[t]
  <2>1. PICK s \in sweeps : s.tab = t /\ s.step = "wait"
    BY <1>1, <1>3 DEF JobSwept
  <2> QED BY <2>1 DEF Covered, Finds
<1> QED BY <1>2, <1>3

LEMMA CoveredKept ==
  ASSUME Inductive, [BooksNext]_bookVars
  PROVE  \A u \in Accounts : Covered(u)'
<1> SUFFICES ASSUME NEW u \in Accounts PROVE Covered(u)'
  OBVIOUS
<1>0. /\ Types /\ Covered(u) /\ records \in [Accounts -> [status : Statuses, generation : Nat]]
      /\ identity \in [Tabs -> Someone] /\ sweeps \subseteq Sweeps
  BY DEF Inductive, Types, Packages
<1>1. ASSUME records'[u] # NoRecord => records[u] # NoRecord /\ (u \in spared => u \in spared'),
             UNCHANGED identity, \A t \in Tabs : t \notin open => t \notin open', sweeps \subseteq sweeps'
      PROVE  Covered(u)'
  BY <1>0, <1>1, CoveredFrame DEF Sweeps
<1>2. CASE ChangeAccount \/ UNCHANGED bookVars
  BY <1>1, <1>2 DEF ChangeAccount, bookVars
<1>3. ASSUME NEW t \in Tabs, Download(t) \/ Remove(t) \/ RemoveLocked(t) \/ RemoveFails(t)
      PROVE  Covered(u)'
  BY <1>1, <1>3 DEF Download, Remove, RemoveLocked, RemoveFails
<1>4. ASSUME NEW w, Delete(w)
      PROVE  records'[u] # NoRecord => records[u] # NoRecord /\ (u \in spared => u \in spared')
  BY <1>0, <1>4 DEF Delete, Put
<1>5. ASSUME NEW t \in Tabs, DownloadStep(t)
      PROVE  Covered(u)'
  <2>1. UNCHANGED <<identity, open, sweeps>>
    BY <1>5 DEF DownloadStep, Enter, Metadata, Previous, Save, MarkReady, SaveFails, Fail
  <2>2. CASE Scoped(t) /\ job[t].scope = u
    BY <2>1, <2>2, RecordedCovered
  <2>3. CASE Scoped(t) /\ job[t].scope # u
    <3>1. \/ UNCHANGED <<records, spared>>
          \/ \E w : Delete(w)
          \/ UNCHANGED spared /\ \E record : Put(job[t].scope, record)
      BY <1>5, <2>3 DEF DownloadStep, Enter, Metadata, Previous, Save, MarkReady, SaveFails, Fail
    <3>2. records'[u] # NoRecord => records[u] # NoRecord /\ (u \in spared => u \in spared')
      BY <1>0, <1>4, <2>3, <3>1 DEF Put
    <3> QED BY <1>1, <2>1, <3>2
  <2>4. CASE ~Scoped(t)
    <3>1. UNCHANGED <<records, spared>>
      BY <1>5, <2>4 DEF DownloadStep, Enter, Metadata, Previous, Save, MarkReady, SaveFails, Fail, Scoped, Downloads
    <3> QED BY <1>1, <2>1, <3>1
  <2> QED BY <2>2, <2>3, <2>4
<1>6. ASSUME NEW t \in Tabs, RemoveNow(t)
      PROVE  Covered(u)'
  BY <1>1, <1>4, <1>6 DEF RemoveNow
<1>7. ASSUME NEW t \in Tabs, Follow(t)
      PROVE  Covered(u)'
  <2>1. /\ records' = records /\ spared' = spared /\ open' = open /\ sweeps \subseteq sweeps'
        /\ \A w \in Tabs : w # t => identity'[w] = identity[w]
    BY <1>0, <1>7 DEF Follow
  <2>2. \E n : [tab |-> t, user |-> account, step |-> "wait", waits |-> n, left |-> {}] \in sweeps'
    BY <1>7 DEF Follow
  <2>3. \E s \in sweeps' : s.tab = t /\ s.step = "wait"
    BY <2>2
  <2> QED BY <1>0, <2>1, <2>3 DEF Covered, Finds
<1>8. ASSUME NEW t \in Tabs, Close(t)
      PROVE  Covered(u)'
  BY <1>8 DEF Close, Covered
<1>9. ASSUME NEW t \in Tabs, Open(t)
      PROVE  Covered(u)'
  <2>1. /\ records' = records /\ spared' = spared /\ open' = open \cup {t} /\ sweeps \subseteq sweeps'
        /\ \A w \in Tabs : w # t => identity'[w] = identity[w]
    BY <1>0, <1>9 DEF Open
  <2>2. [tab |-> t, user |-> account, step |-> "recover", waits |-> 0, left |-> {}] \in sweeps'
    BY <1>9 DEF Open
  <2>3. \E s \in sweeps' : s.tab = t /\ s.step = "recover"
    BY <2>2
  <2> QED BY <1>0, <2>1, <2>3 DEF Covered, Finds
<1>10. ASSUME NEW s \in sweeps, SweepLists(s)
       PROVE  Covered(u)'
  <2>1. UNCHANGED <<records, identity, open>> /\ \A r \in sweeps : r = s \/ r \in sweeps'
    BY <1>10 DEF SweepLists, Change
  <2>2. CASE records[u] = NoRecord
    BY <2>1, <2>2 DEF Covered
  <2>3. CASE u = identity[s.tab]
    <3>1. u \in spared => u \in spared'
      BY <1>10, <2>3 DEF SweepLists, Others
    <3> QED BY <1>0, <2>1, <2>3, <3>1, CoveredFrame
  <2>4. CASE records[u] # NoRecord /\ u # identity[s.tab]
    <3>1. u \in Others(s.tab)
      BY <2>4 DEF Others
    <3>2. [s EXCEPT !.step = "sweep", !.left = Others(s.tab)] \in sweeps'
      BY <1>10, <3>1 DEF SweepLists, Change
    <3>3. /\ [s EXCEPT !.step = "sweep", !.left = Others(s.tab)].tab = s.tab
          /\ [s EXCEPT !.step = "sweep", !.left = Others(s.tab)].left = Others(s.tab)
      BY <1>0 DEF Sweeps
    <3>4. \E r \in sweeps' : r.tab = s.tab /\ Finds(r, u)
      BY <3>1, <3>2, <3>3 DEF Finds
    <3>5. s.tab \in Tabs
      BY <1>0 DEF Sweeps
    <3> QED BY <3>4, <3>5 DEF Covered, Finds
  <2> QED BY <2>2, <2>3, <2>4
<1>11. ASSUME NEW s \in sweeps, SweepRemoves(s)
       PROVE  Covered(u)'
  <2>0. UNCHANGED <<identity, open>>
    BY <1>11 DEF SweepRemoves
  <2>1. CASE s.step = "sweep"
    <3>1. UNCHANGED <<records, spared>> /\ \A r \in sweeps : r = s \/ r \in sweeps'
      BY <1>11, <2>1 DEF SweepRemoves, Change
    <3>2. [s EXCEPT !.step = "locked"] \in sweeps'
      BY <1>11, <2>1 DEF SweepRemoves, Change
    <3>3. /\ [s EXCEPT !.step = "locked"].tab = s.tab
          /\ Finds(s, u) => Finds([s EXCEPT !.step = "locked"], u)
      BY <1>0, <2>1 DEF Sweeps, Finds
    <3> QED BY <1>0, <2>0, <3>1, <3>2, <3>3, CoveredFrame
  <2>2. CASE s.step = "locked"
    <3>1. PICK v \in s.left :
             /\ IF v # identity[s.tab] THEN Delete(v) ELSE UNCHANGED <<records, resources, spared>>
             /\ IF s.left = {v} THEN sweeps' = sweeps \ {s}
                ELSE Change(s, [s EXCEPT !.step = "sweep", !.left = s.left \ {v}])
      BY <1>11, <2>2 DEF SweepRemoves
    <3>2. records'[u] # NoRecord => records[u] # NoRecord /\ (u \in spared => u \in spared')
      BY <1>4, <3>1
    <3>3. \A r \in sweeps : r = s \/ r \in sweeps'
      BY <3>1 DEF Change
    <3>4. CASE u = v /\ u # identity[s.tab]
      <4>1. records'[u] = NoRecord
        BY <1>0, <3>1, <3>4 DEF Delete, Put
      <4> QED BY <4>1 DEF Covered
    <3>5. CASE u = identity[s.tab] \/ u \notin s.left
      <4>1. Finds(s, u) => identity[s.tab] = u
        BY <2>2, <3>5 DEF Finds
      <4> QED BY <1>0, <2>0, <3>2, <3>3, <4>1, CoveredFrame
    <3>6. CASE u # v /\ u \in s.left
      <4>1. [s EXCEPT !.step = "sweep", !.left = s.left \ {v}] \in sweeps'
        BY <3>1, <3>6 DEF Change
      <4>2. /\ [s EXCEPT !.step = "sweep", !.left = s.left \ {v}].tab = s.tab
            /\ [s EXCEPT !.step = "sweep", !.left = s.left \ {v}].left = s.left \ {v}
        BY <1>0 DEF Sweeps
      <4>3. \E r \in sweeps' : r.tab = s.tab /\ Finds(r, u)
        BY <3>6, <4>1, <4>2 DEF Finds
      <4> QED BY <1>0, <2>0, <3>2, <3>3, <4>3, CoveredFrame
    <3> QED BY <3>4, <3>5, <3>6
  <2> QED BY <1>11, <2>1, <2>2 DEF SweepRemoves
<1>12. ASSUME NEW s \in sweeps, Recover(s)
       PROVE  Covered(u)'
  <2>1. UNCHANGED <<identity, open>> /\ \A r \in sweeps : r = s \/ r \in sweeps'
    BY <1>12 DEF Recover, Change
  <2>2. records'[u] # NoRecord => records[u] # NoRecord /\ (u \in spared => u \in spared')
    BY <1>0, <1>12, MarkedRecords DEF Recover, Types
  <2>3. PICK step \in {"mark", "wait"} : [s EXCEPT !.step = step] \in sweeps'
    BY <1>12 DEF Recover, Change
  <2>4. [s EXCEPT !.step = step].tab = s.tab /\ [s EXCEPT !.step = step].step = step
    BY <1>0 DEF Sweeps
  <2>5. \E r \in sweeps' : r.tab = s.tab /\ Finds(r, u)
    BY <2>3, <2>4 DEF Finds
  <2> QED BY <1>0, <2>1, <2>2, <2>5, CoveredFrame
<1>13. ASSUME NEW s \in sweeps, SweepFails(s)
       PROVE  Covered(u)'
  <2>1. /\ UNCHANGED <<identity, open>> /\ \A r \in sweeps : r = s \/ r \in sweeps'
        /\ spared' = spared \cup LeftBy(s)
    BY <1>13 DEF SweepFails
  <2>2. records'[u] # NoRecord => records[u] # NoRecord
    BY <1>0, <1>13, MarkedRecords DEF SweepFails, Types
  <2>3. CASE records'[u] = NoRecord \/ u \in LeftBy(s)
    BY <2>1, <2>3 DEF Covered
  <2>4. CASE records'[u] # NoRecord /\ u \notin LeftBy(s)
    <3>1. Finds(s, u) => identity[s.tab] = u
      BY <1>0, <2>2, <2>4 DEF LeftBy, Others, Finds
    <3> QED BY <1>0, <2>1, <2>2, <3>1, CoveredFrame
  <2> QED BY <2>3, <2>4
<1> QED BY <1>2, <1>3, <1>5, <1>6, <1>7, <1>8, <1>9, <1>10, <1>11, <1>12, <1>13 DEF BooksNext

---------------------------------------------------------------------------
(* The lock is held by somebody, and numbers have been given *)

LEMMA HeldFrame ==
  ASSUME Held, lock' = lock,
         \A t \in Tabs : (Downloads(t) => Downloads(t)') /\ (Removes(t) => Removes(t)'),
         \A s \in sweeps : Works(s) => s \in sweeps'
  PROVE  Held'
BY DEF Held, Works

LEMMA StepDownloads ==
  ASSUME Types, NEW t \in Tabs, NEW j \in Jobs, NEW next \in Steps \ {"none", "lock"},
         Step(t, j, next) \/ GoesOn(t, j, next)
  PROVE  \A u \in Tabs : Downloads(u) => Downloads(u)'
<1>1. PICK step \in {next, "failing"} : job' = [job EXCEPT ![t] = [j EXCEPT !.step = step]]
  BY DEF Step, GoesOn
<1>2. [j EXCEPT !.step = step].step = step
  BY DEF Jobs
<1> QED BY <1>1, <1>2 DEF Types, Downloads

LEMMA HeldKept ==
  ASSUME Types, Exclusive, Held, [BooksNext]_bookVars, \A t \in Tabs : Idle(t)
  PROVE  Held'
<1>0. job \in [Tabs -> Jobs] /\ removal \in [Tabs -> Removals] /\ sweeps \subseteq Sweeps
  BY DEF Types
<1>1. CASE ChangeAccount \/ UNCHANGED bookVars
  BY <1>1, HeldFrame DEF ChangeAccount, bookVars, Downloads, Removes
<1>2. ASSUME NEW t \in Tabs, Download(t)
      PROVE  Held'
  BY <1>0, <1>2, HeldFrame DEF Download, Downloads, Removes
<1>3. ASSUME NEW t \in Tabs, Enter(t)
      PROVE  Held'
  <2>1. Downloads(t)'
    BY <1>0, <1>3 DEF Enter, Step, Downloads
  <2> QED BY <2>1 DEF Held
<1>4. ASSUME NEW t \in Tabs, Metadata(t) \/ Previous(t) \/ Save(t) \/ SaveFails(t)
      PROVE  Held'
  <2>1. CASE lock' = Free
    BY <2>1 DEF Held
  <2>2. CASE ~ (lock' = Free)
    <3>1. UNCHANGED <<lock, removal, sweeps>>
      BY <1>4, <2>2 DEF Metadata, Previous, Save, SaveFails, End
    <3>2. \A u \in Tabs : Downloads(u) => Downloads(u)'
      <4>0. job[t] \in Jobs /\ job[t].left \subseteq Objects /\ identity[t] \in Someone
        BY <1>0, JobTypes DEF Types
      <4>1. CASE Metadata(t)
        <5>1. [job[t] EXCEPT !.scope = identity[t]] \in Jobs
          BY <4>0, JobTypes
        <5> QED BY <2>2, <4>1, <5>1, StepDownloads DEF Metadata, End, Steps
      <4>2. CASE Previous(t)
        BY <2>2, <4>0, <4>2, StepDownloads DEF Previous, End, Steps
      <4>3. CASE Save(t)
        <5>1. /\ \A o \in Objects : [job[t] EXCEPT !.object = {o}] \in Jobs
              /\ [job[t] EXCEPT !.left = @ \ job[t].object] \in Jobs
          BY <4>0, JobTypes
        <5>2. \/ Step(t, job[t], "fetch")
              \/ \E o \in Objects : GoesOn(t, [job[t] EXCEPT !.object = {o}], "store")
              \/ GoesOn(t, [job[t] EXCEPT !.left = @ \ job[t].object], "progress")
              \/ GoesOn(t, job[t], "ready")
          BY <4>0, <4>3 DEF Save
        <5>3. {"fetch", "store", "progress", "ready"} \subseteq Steps \ {"none", "lock"}
          BY DEF Steps
        <5> QED BY <4>0, <5>1, <5>2, <5>3, StepDownloads
      <4>4. CASE SaveFails(t)
        BY <4>0, <4>4, StepDownloads DEF SaveFails, Steps
      <4> QED BY <1>4, <4>1, <4>2, <4>3, <4>4
    <3> QED BY <3>1, <3>2, HeldFrame DEF Removes
  <2> QED BY <2>1, <2>2
<1>5. ASSUME NEW t \in Tabs, MarkReady(t) \/ Fail(t) \/ RemoveNow(t)
      PROVE  Held'
  BY <1>5 DEF MarkReady, Fail, End, RemoveNow, Held
<1>6. ASSUME NEW t \in Tabs, Remove(t) \/ Follow(t) \/ Open(t)
      PROVE  Held'
  <2>0. job' = job \/ job' = [job EXCEPT ![t] = Abort(job[t])]
    BY <1>6 DEF Remove, Follow, Open
  <2>1. \A u \in Tabs : job'[u].step = job[u].step
    <3>1. Abort(job[t]).step = job[t].step
      BY <1>0 DEF Abort, Jobs
    <3> QED BY <1>0, <2>0, <3>1
  <2>2. \A u \in Tabs : Removes(u) => Removes(u)'
    BY <1>0, <1>6 DEF Remove, Follow, Open, Removes
  <2>3. lock' = lock /\ sweeps \subseteq sweeps'
    BY <1>6 DEF Remove, Follow, Open
  <2> QED BY <2>1, <2>2, <2>3, HeldFrame DEF Downloads
<1>7. ASSUME NEW t \in Tabs, RemoveLocked(t)
      PROVE  Held'
  <2>1. Removes(t)'
    BY <1>0, <1>7 DEF RemoveLocked, Removes, Removals
  <2> QED BY <2>1 DEF Held
<1>8. ASSUME NEW t \in Tabs, Close(t)
      PROVE  Held'
  <2>1. CASE lock' = Free
    BY <2>1 DEF Held
  <2>2. CASE ~ (lock' = Free)
    <3>1. lock' = lock /\ lock # Free /\ lock[1] # t
      BY <1>8, <2>2 DEF Close
    <3>2. \A u \in Tabs \ {t} : job'[u] = job[u] /\ removal'[u] = removal[u]
      BY <1>0, <1>8 DEF Close
    <3>3. \A s \in sweeps : Works(s) => s \in sweeps'
      BY <1>8, <3>1 DEF Close, Exclusive
    <3>4. \A u \in Tabs : (Downloads(u) => Downloads(u)') /\ (Removes(u) => Removes(u)')
      BY <3>1, <3>2 DEF Exclusive, Downloads, Removes
    <3> QED BY <3>1, <3>3, <3>4, HeldFrame
  <2> QED BY <2>1, <2>2
<1>9. ASSUME NEW s \in sweeps, SweepLists(s)
      PROVE  Held'
  <2>1. \A r \in sweeps : Works(r) => r \in sweeps'
    BY <1>9 DEF SweepLists, Change, Works
  <2> QED BY <1>9, <2>1, HeldFrame DEF SweepLists, Downloads, Removes
<1>10. ASSUME NEW s \in sweeps, SweepRemoves(s) \/ Recover(s)
      PROVE  Held'
  <2>0. s \in Sweeps
    BY <1>0
  <2>1. CASE lock' = Free
    BY <2>1 DEF Held
  <2>2. CASE ~ (lock' = Free)
    <3>1. CASE s.step = "recover" /\ lock # Free
      <4>1. \A r \in sweeps : Works(r) => r \in sweeps'
        BY <1>10, <3>1 DEF SweepRemoves, Recover, Change, Works, Taken
      <4> QED BY <1>10, <3>1, <4>1, HeldFrame DEF SweepRemoves, Recover, Taken, Downloads, Removes
    <3>2. CASE ~ (s.step = "recover" /\ lock # Free)
      <4>1. PICK step \in {"locked", "mark"} : [s EXCEPT !.step = step] \in sweeps'
        BY <1>10, <2>2, <3>2 DEF SweepRemoves, Recover, Change
      <4>2. [s EXCEPT !.step = step].step = step
        BY <2>0 DEF Sweeps
      <4> QED BY <4>1, <4>2 DEF Held, Works
    <3> QED BY <3>1, <3>2
  <2> QED BY <2>1, <2>2
<1>11. ASSUME NEW t \in Tabs, RemoveFails(t)
       PROVE  Held'
  <2>1. CASE lock' = Free
    BY <2>1 DEF Held
  <2>2. CASE ~ (lock' = Free)
    <3>1. UNCHANGED <<lock, job, sweeps>> /\ ~Removes(t)
      BY <1>11, <2>2 DEF RemoveFails, Removes
    <3>2. \A u \in Tabs : Removes(u) => Removes(u)'
      BY <1>0, <1>11, <3>1 DEF RemoveFails, Removes
    <3> QED BY <3>1, <3>2, HeldFrame DEF Downloads
  <2> QED BY <2>1, <2>2
<1>12. ASSUME NEW s \in sweeps, SweepFails(s)
       PROVE  Held'
  <2>1. CASE Works(s)
    BY <1>12, <2>1 DEF SweepFails, Works, Held
  <2>2. CASE ~Works(s)
    <3>1. UNCHANGED <<lock, job, removal>> /\ \A r \in sweeps : Works(r) => r \in sweeps'
      BY <1>12, <2>2 DEF SweepFails, Works
    <3> QED BY <3>1, HeldFrame DEF Downloads, Removes
  <2> QED BY <2>1, <2>2
<1> QED BY <1>1, <1>2, <1>3, <1>4, <1>5, <1>6, <1>7, <1>8, <1>9, <1>10, <1>11, <1>12 DEF BooksNext, DownloadStep

Given == 0..bookActs

LEMMA NumberedWhen ==
  ASSUME Numbered, bookActs' = bookActs \/ bookActs' = bookActs + 1,
         records' \in [Accounts -> [status : Statuses, generation : Given]],
         resources' \subseteq Accounts \X (1..bookActs) \X Objects,
         \A t \in Tabs : job'[t].n \in 0..bookActs'
  PROVE  Numbered'
<1>1. bookActs \in Nat /\ bookActs' \in Nat /\ bookActs <= bookActs'
  BY DEF Numbered
<1>2. Given \subseteq 0..bookActs' /\ 1..bookActs \subseteq 1..bookActs'
  BY <1>1 DEF Given
<1>3. records' \in [Accounts -> [status : Statuses, generation : 0..bookActs']]
  BY <1>2
<1>4. resources' \subseteq Accounts \X (1..bookActs') \X Objects
  BY <1>2
<1> QED BY <1>1, <1>3, <1>4 DEF Numbered, Statuses

LEMMA NumberedFrame ==
  ASSUME Numbered, bookActs' = bookActs \/ bookActs' = bookActs + 1, records' = records, resources' = resources,
         \A t \in Tabs : job'[t].n \in 0..bookActs'
  PROVE  Numbered'
BY NumberedWhen DEF Numbered, Given, Statuses

LEMMA NumbersGrow ==
  ASSUME Numbered, bookActs' = bookActs \/ bookActs' = bookActs + 1,
         \A t \in Tabs : job'[t].n \in {job[t].n, 0, bookActs'}
  PROVE  \A t \in Tabs : job'[t].n \in 0..bookActs'
BY DEF Numbered

LEMMA NumbersInSteps ==
  ASSUME Types, NEW t \in Tabs, NEW j \in Jobs, j.n = job[t].n, NEW next,
         Step(t, j, next) \/ GoesOn(t, j, next) \/ End(t)
  PROVE  \A u \in Tabs : job'[u].n \in {job[u].n, 0, bookActs'}
<1>1. CASE End(t)
  BY <1>1 DEF End, NoJob, Types
<1>2. CASE Step(t, j, next) \/ GoesOn(t, j, next)
  <2>1. PICK step \in {next, "failing"} : job' = [job EXCEPT ![t] = [j EXCEPT !.step = step]]
    BY <1>2 DEF Step, GoesOn
  <2>2. [j EXCEPT !.step = step].n = j.n
    BY DEF Jobs
  <2> QED BY <2>1, <2>2 DEF Types
<1> QED BY <1>1, <1>2

LEMMA DeleteNumbered ==
  ASSUME Numbered, NEW u, Delete(u)
  PROVE  /\ records' \in [Accounts -> [status : Statuses, generation : Given]]
         /\ resources' \subseteq Accounts \X (1..bookActs) \X Objects
<1>1. NoRecord \in [status : Statuses, generation : Given]
  BY DEF Numbered, NoRecord, Statuses, Given
<1> QED BY <1>1 DEF Numbered, Delete, Put, Statuses, Given

LEMMA PutNumbered ==
  ASSUME Numbered, NEW t \in Tabs, NEW status \in Statuses, NEW u,
         Put(u, [status |-> status, generation |-> job[t].n])
  PROVE  records' \in [Accounts -> [status : Statuses, generation : Given]]
BY DEF Numbered, Put, Statuses, Given

LEMMA NumberedKept ==
  ASSUME Types, Numbered, [BooksNext]_bookVars, \A t \in Tabs : JobOK(t)
  PROVE  Numbered'
<1>0. /\ job \in [Tabs -> Jobs] /\ \A t \in Tabs : job[t] \in Jobs
      /\ records \in [Accounts -> [status : Statuses, generation : Given]]
      /\ resources \subseteq Accounts \X (1..bookActs) \X Objects
  BY DEF Types, Numbered, Statuses, Given
<1>1. CASE ChangeAccount \/ UNCHANGED bookVars
  BY <1>1, NumbersGrow, NumberedFrame DEF ChangeAccount, BookActing, bookVars
<1>2. ASSUME NEW t \in Tabs, Download(t)
      PROVE  Numbered'
  <2>1. [NoJob EXCEPT !.step = "lock", !.n = bookActs + 1, !.left = Objects].n = bookActs + 1
    BY DEF NoJob
  <2>2. \A u \in Tabs : job'[u].n \in {job[u].n, 0, bookActs'}
    BY <1>0, <1>2, <2>1 DEF Download, BookActing
  <2> QED BY <1>2, <2>2, NumbersGrow, NumberedFrame DEF Download, BookActing
<1>3. ASSUME NEW t \in Tabs, Enter(t) \/ SaveFails(t)
      PROVE  Numbered'
  <2>1. \A u \in Tabs : job'[u].n \in {job[u].n, 0, bookActs'}
    BY <1>0, <1>3, NumbersInSteps DEF Enter, SaveFails
  <2> QED BY <1>3, <2>1, NumbersGrow, NumberedFrame DEF Enter, SaveFails, BookActing
<1>4. ASSUME NEW t \in Tabs, Metadata(t)
      PROVE  Numbered'
  <2>1. [job[t] EXCEPT !.scope = identity[t]] \in Jobs /\ [job[t] EXCEPT !.scope = identity[t]].n = job[t].n
    BY <1>0, JobTypes DEF Types, Jobs
  <2>2. \A u \in Tabs : job'[u].n \in {job[u].n, 0, bookActs'}
    BY <1>0, <1>4, <2>1, NumbersInSteps DEF Metadata
  <2> QED BY <1>4, <2>2, NumbersGrow, NumberedFrame DEF Metadata, BookActing
<1>5. ASSUME NEW t \in Tabs, Previous(t)
      PROVE  Numbered'
  <2>1. \A u \in Tabs : job'[u].n \in {job[u].n, 0, bookActs'}
    BY <1>0, <1>5, NumbersInSteps DEF Previous
  <2>2. (records' = records /\ resources' = resources) \/ Delete(identity[t])
    BY <1>5 DEF Previous
  <2> QED BY <1>0, <1>5, <2>1, <2>2, NumbersGrow, NumberedWhen, DeleteNumbered DEF Previous
<1>6. ASSUME NEW t \in Tabs, Save(t)
      PROVE  Numbered'
  <2>0. job[t].scope \in Accounts /\ job[t].n \in 1..bookActs /\ job[t].object \subseteq Objects
    BY <1>0, <1>6, JobTypes DEF Save, JobOK, Scoped, Downloads, Numbered
  <2>1. \A u \in Tabs : job'[u].n \in {job[u].n, 0, bookActs'}
    <3>1. /\ \A o \in Objects : /\ [job[t] EXCEPT !.object = {o}] \in Jobs
                                /\ [job[t] EXCEPT !.object = {o}].n = job[t].n
          /\ [job[t] EXCEPT !.left = @ \ job[t].object] \in Jobs
          /\ [job[t] EXCEPT !.left = @ \ job[t].object].n = job[t].n
      BY <1>0, JobTypes DEF Jobs
    <3>2. \/ Step(t, job[t], "fetch")
          \/ \E o \in Objects : GoesOn(t, [job[t] EXCEPT !.object = {o}], "store")
          \/ GoesOn(t, [job[t] EXCEPT !.left = @ \ job[t].object], "progress")
          \/ GoesOn(t, job[t], "ready")
      BY <1>0, <1>6, JobTypes DEF Save
    <3> QED BY <1>0, <3>1, <3>2, NumbersInSteps
  <2>2. records' \in [Accounts -> [status : Statuses, generation : Given]]
    <3>1. Put(job[t].scope, Downloading(job[t])) \/ records' = records
      BY <1>6 DEF Save
    <3> QED BY <1>0, <3>1, PutNumbered DEF Downloading, Statuses
  <2>3. resources' \subseteq Accounts \X (1..bookActs) \X Objects
    BY <1>0, <1>6, <2>0 DEF Save
  <2> QED BY <1>6, <2>1, <2>2, <2>3, NumbersGrow, NumberedWhen DEF Save
<1>7. ASSUME NEW t \in Tabs, MarkReady(t) \/ Fail(t)
      PROVE  Numbered'
  <2>1. \A u \in Tabs : job'[u].n \in {job[u].n, 0, bookActs'}
    BY <1>0, <1>7, NumbersInSteps DEF MarkReady, Fail
  <2>2. records' \in [Accounts -> [status : Statuses, generation : Given]]
    <3>1. \/ Put(job[t].scope, [status |-> "ready", generation |-> job[t].n])
          \/ Put(job[t].scope, [status |-> "failed", generation |-> job[t].n])
          \/ records' = records
      BY <1>7 DEF MarkReady, Fail
    <3> QED BY <1>0, <3>1, PutNumbered DEF Statuses
  <2> QED BY <1>0, <1>7, <2>1, <2>2, NumbersGrow, NumberedWhen DEF MarkReady, Fail, BookActing
<1>8. ASSUME NEW t \in Tabs, Remove(t) \/ Follow(t) \/ Open(t)
      PROVE  Numbered'
  <2>1. job' = job \/ job' = [job EXCEPT ![t] = Abort(job[t])]
    BY <1>8 DEF Remove, Follow, Open
  <2>2. Abort(job[t]).n = job[t].n
    BY <1>0 DEF Abort, Jobs
  <2>3. \A u \in Tabs : job'[u].n \in {job[u].n, 0, bookActs'}
    BY <1>0, <2>1, <2>2
  <2> QED BY <1>8, <2>3, NumbersGrow, NumberedFrame DEF Remove, Follow, Open, BookActing
<1>9. ASSUME NEW t \in Tabs, Close(t)
      PROVE  Numbered'
  <2>1. \A u \in Tabs : job'[u].n \in {job[u].n, 0, bookActs'}
    BY <1>0, <1>9 DEF Close, NoJob
  <2> QED BY <1>9, <2>1, NumbersGrow, NumberedFrame DEF Close, BookActing
<1>10. ASSUME NEW t \in Tabs, RemoveLocked(t) \/ RemoveNow(t) \/ RemoveFails(t)
      PROVE  Numbered'
  <2>1. (records' = records /\ resources' = resources) \/ Delete(removal[t].user)
    BY <1>10 DEF RemoveLocked, RemoveNow, RemoveFails
  <2>2. job' = job /\ bookActs' = bookActs
    BY <1>10 DEF RemoveLocked, RemoveNow, RemoveFails
  <2> QED BY <1>0, <2>1, <2>2, NumbersGrow, NumberedWhen, DeleteNumbered
<1>11. ASSUME NEW s \in sweeps, SweepLists(s) \/ SweepRemoves(s)
      PROVE  Numbered'
  <2>1. (records' = records /\ resources' = resources) \/ \E u : Delete(u)
    BY <1>11 DEF SweepLists, SweepRemoves
  <2>2. job' = job /\ bookActs' = bookActs
    BY <1>11 DEF SweepLists, SweepRemoves
  <2> QED BY <1>0, <2>1, <2>2, NumbersGrow, NumberedWhen, DeleteNumbered
<1>12. ASSUME NEW s \in sweeps, Recover(s) \/ SweepFails(s)
      PROVE  Numbered'
  <2>1. records' = records \/ \E us : records' = Marked(s, us)
    BY <1>12 DEF Recover, SweepFails
  <2>2. records' \in [Accounts -> [status : Statuses, generation : Given]]
    BY <1>0, <2>1 DEF Marked, Statuses
  <2> QED BY <1>0, <1>12, <2>2, NumbersGrow, NumberedWhen DEF Recover, SweepFails
<1> QED BY <1>1, <1>2, <1>3, <1>4, <1>5, <1>6, <1>7, <1>8, <1>9, <1>10, <1>11, <1>12 DEF BooksNext, DownloadStep

LEMMA SweptTabsKept ==
  ASSUME Types, SweptTabs, [BooksNext]_bookVars
  PROVE  SweptTabs'
<1>0. \A s \in sweeps : s \in Sweeps
  BY DEF Types
<1>1. CASE ChangeAccount \/ UNCHANGED bookVars
  BY <1>1 DEF SweptTabs, ChangeAccount, bookVars
<1>2. ASSUME NEW t \in Tabs, Download(t) \/ DownloadStep(t) \/ Remove(t) \/ RemoveLocked(t) \/ RemoveNow(t)
                             \/ RemoveFails(t)
      PROVE  SweptTabs'
  <2>1. UNCHANGED <<open, sweeps>>
    BY <1>2 DEF Download, DownloadStep, Enter, Metadata, Previous, Save, MarkReady, SaveFails, Fail,
                Remove, RemoveLocked, RemoveNow, RemoveFails
  <2> QED BY <2>1 DEF SweptTabs
<1>3. ASSUME NEW t \in Tabs, Follow(t) \/ Close(t) \/ Open(t)
      PROVE  SweptTabs'
  BY <1>3 DEF SweptTabs, Follow, Close, Open
<1>4. ASSUME NEW s \in sweeps, SweepLists(s) \/ SweepRemoves(s) \/ Recover(s) \/ SweepFails(s)
      PROVE  SweptTabs'
  <2>1. open' = open
    BY <1>4 DEF SweepLists, SweepRemoves, Recover, SweepFails
  <2>2. \A step, left : [s EXCEPT !.step = step, !.left = left].tab = s.tab
    BY <1>0 DEF Sweeps
  <2>3. \A step : [s EXCEPT !.step = step].tab = s.tab
    BY <1>0 DEF Sweeps
  <2>4. \/ sweeps' \subseteq sweeps
        \/ \E step : sweeps' \subseteq sweeps \cup {[s EXCEPT !.step = step]}
        \/ \E step, left : sweeps' \subseteq sweeps \cup {[s EXCEPT !.step = step, !.left = left]}
    <3>1. CASE SweepLists(s)
      BY <3>1 DEF SweepLists, Change
    <3>2. CASE SweepRemoves(s)
      BY <3>2 DEF SweepRemoves, Change
    <3>3. CASE Recover(s)
      BY <3>3 DEF Recover, Change
    <3>4. CASE SweepFails(s)
      BY <3>4 DEF SweepFails
    <3> QED BY <1>4, <3>1, <3>2, <3>3, <3>4
  <2> QED BY <2>1, <2>2, <2>3, <2>4 DEF SweptTabs
<1> QED BY <1>1, <1>2, <1>3, <1>4 DEF BooksNext

---------------------------------------------------------------------------
(* The invariant *)

LEMMA InductiveInit ==
  BooksInit => Inductive
<1> SUFFICES ASSUME BooksInit PROVE Inductive
  OBVIOUS
<1>1. Types
  <2>1. NoRecord \in [status : Statuses, generation : Nat]
    BY DEF NoRecord, Statuses
  <2> QED BY <2>1, NewTypes DEF BooksInit, Types, Packages, Someone
<1>2. Exclusive
  BY DEF BooksInit, Exclusive, Downloads, Removes, NoJob, NoRemoval
<1>3. \A t \in Tabs : JobOK(t) /\ JobSwept(t) /\ Idle(t)
  BY DEF BooksInit, JobOK, JobSwept, Idle, Scoped, Saving, Downloads, NoJob
<1>4. PackagesAreWhole /\ \A u \in Accounts : Covered(u)
  BY DEF BooksInit, PackagesAreWhole, Covered, NoRecord
<1>5. Held /\ SweptTabs
  BY DEF BooksInit, Held, SweptTabs
<1>6. Numbered
  BY DEF BooksInit, Numbered, NoRecord, NoJob
<1> QED BY <1>1, <1>2, <1>3, <1>4, <1>5, <1>6 DEF Inductive

LEMMA InductiveStep ==
  Inductive /\ [BooksNext]_bookVars => Inductive'
<1> SUFFICES ASSUME Inductive, [BooksNext]_bookVars PROVE Inductive'
  OBVIOUS
<1>0. Types /\ Exclusive /\ \A t \in Tabs : Idle(t) /\ JobOK(t)
  BY DEF Inductive
<1>1. Types'
  BY <1>0, TypesKept DEF JobOK
<1>2. Exclusive' /\ \A t \in Tabs : Idle(t)'
  BY <1>0, ExclusiveKept, IdleKept
<1>3. PackagesAreWhole' /\ \A t \in Tabs : JobOK(t)' /\ JobSwept(t)'
  BY JobsAndPackagesKept, SweptKept
<1>4. \A u \in Accounts : Covered(u)'
  BY CoveredKept
<1>5. Held' /\ Numbered' /\ SweptTabs'
  BY <1>0, HeldKept, NumberedKept, SweptTabsKept DEF Inductive
<1> QED BY <1>1, <1>2, <1>3, <1>4, <1>5 DEF Inductive

LEMMA AlwaysInductive ==
  BooksSpec => []Inductive
BY InductiveInit, InductiveStep, PTL DEF BooksSpec

(* A package that is said to be ready has all its files, and no file is    *)
(* left without a record, in whatever order downloads, removals, sweeps    *)
(* and recoveries of any number of tabs follow (offline-books.ts).         *)
THEOREM PackagesStayWhole ==
  BooksSpec => []PackagesAreWhole
<1>1. Inductive => PackagesAreWhole
  BY DEF Inductive
<1> QED BY <1>1, AlwaysInductive, PTL

(* When every tab knows the account and has nothing to do, a package of    *)
(* another account is there only if a sweep or a recovery that failed has  *)
(* left it and no sweep has listed it since (offline-books.ts, recover and *)
(* identityChanged, whose errors offline/books.ts:49 and :57 swallow).     *)
THEOREM OthersPackagesGo ==
  BooksSpec => []OnlyMyPackages
<1>1. Inductive => OnlyMyPackages
  <2>1. SUFFICES ASSUME Inductive, Settled, NEW u \in Accounts, records[u] # NoRecord, u \notin spared
                PROVE  u = account
    BY DEF OnlyMyPackages
  <2>2. Covered(u)
    BY <2>1 DEF Inductive
  <2> QED BY <2>1, <2>2 DEF Covered, Settled
<1> QED BY <1>1, AlwaysInductive, PTL

(* The values of the variables, and the lock of the dataset: it is held by *)
(* exactly one operation that works on the book, in whichever tab          *)
(* (offline/books.ts, offline-books.ts).                                   *)
THEOREM BooksTypes ==
  BooksSpec => []BooksTypeOK
<1>1. Inductive => BooksTypeOK
  <2>1. SUFFICES ASSUME Inductive PROVE BooksTypeOK
    OBVIOUS
  <2>2. \A t \in Tabs : job[t].left \subseteq Objects
    BY <2>1, JobTypes DEF Inductive, Types
  <2> QED BY <2>1, <2>2 DEF Inductive, Types, SweptTabs, BooksTypeOK, Someone
<1> QED BY <1>1, AlwaysInductive, PTL
=============================================================================
