---------------------------- MODULE OfflineBooks ----------------------------
(***************************************************************************)
(* A private book that is kept for reading offline.  Every tab of the      *)
(* browser has a library object; the records and files are in a database   *)
(* they share.  Downloads, removals, the recovery of a tab that starts and *)
(* the sweep after a change of account run side by side; the lock of the   *)
(* book's dataset admits one of them, of all tabs, at a time.              *)
(*                                                                         *)
(* A check and the write it permits are two steps: the account may change  *)
(* between them.  One book; its package belongs to the account that saved  *)
(* it.  A tab that closes loses its operations and the lock.               *)
(***************************************************************************)
EXTENDS Integers

CONSTANTS
  Tabs,         \* of the browser
  Accounts,     \* users who may sign in
  Objects,      \* files of the book
  MaxBookActs,  \* bound of the model: requests, account changes, closed tabs, failed downloads
  NoOne         \* nobody is signed in

VARIABLES
  records,    \* [Accounts -> the record of the account's package]
  resources,  \* files in the database, as <<user, generation, object>>
  lock,       \* who holds the lock of the dataset
  account,    \* who is signed in, by the storage of the session
  identity,   \* [Tabs -> who is signed in as the tab knows]
  open,       \* open tabs
  job,        \* [Tabs -> the download]
  removal,    \* [Tabs -> the removal by the reader]
  sweeps,     \* recoveries and sweeps of packages that are another account's
  bookActs,   \* bounded acts so far; also numbers operations and generations
  spared      \* history: whose packages a sweep that gave up has left

bookVars == <<records, resources, lock, account, identity, open, job, removal, sweeps, bookActs, spared>>

NoRecord == [status |-> "absent", generation |-> 0]
NoJob == [step |-> "none", n |-> 0, aborted |-> FALSE, scope |-> NoOne, left |-> {}, object |-> {}]
NoRemoval == [step |-> "none", user |-> NoOne, waits |-> 0]
Free == <<>>

BooksInit ==
  /\ records = [u \in Accounts |-> NoRecord]
  /\ resources = {}
  /\ lock = Free
  /\ account \in Accounts \cup {NoOne}
  /\ identity = [t \in Tabs |-> account]
  /\ open = Tabs
  /\ job = [t \in Tabs |-> NoJob]
  /\ removal = [t \in Tabs |-> NoRemoval]
  /\ sweeps = {}
  /\ bookActs = 0
  /\ spared = {}

BookActing == bookActs < MaxBookActs /\ bookActs' = bookActs + 1
Taken(who) == lock = Free /\ lock' = who
Put(u, record) == records' = [records EXCEPT ![u] = record]

(* The repository removes a record and its files in one transaction. *)
Delete(u) ==
  /\ Put(u, NoRecord)
  /\ resources' = {r \in resources : r[1] # u}
  /\ spared' = spared \ {u}

Abort(j) == [j EXCEPT !.aborted = TRUE]
Ended(t, n) == job[t].n # n

---------------------------------------------------------------------------
(* Download *)

Active(t, j) == ~j.aborted /\ (j.scope # NoOne => j.scope = identity[t])
Step(t, j, next) == job' = [job EXCEPT ![t] = [j EXCEPT !.step = next]]
GoesOn(t, j, next) == Step(t, j, IF Active(t, j) THEN next ELSE "failing")

Download(t) ==
  /\ t \in open /\ job[t].step = "none" /\ BookActing
  /\ job' = [job EXCEPT ![t] = [NoJob EXCEPT !.step = "lock", !.n = bookActs + 1, !.left = Objects]]
  /\ UNCHANGED <<records, resources, lock, account, identity, open, removal, sweeps, spared>>

(* Mutant of Enter: the download does not wait for the lock. *)
EnterUnlocked(t) ==
  /\ job[t].step = "lock"
  /\ Step(t, job[t], "metadata")
  /\ UNCHANGED <<records, resources, lock, account, identity, open, removal, sweeps, bookActs, spared>>

Enter(t) ==
  /\ job[t].step = "lock" /\ Taken(<<t, "download">>)
  /\ Step(t, job[t], "metadata")
  /\ UNCHANGED <<records, resources, account, identity, open, removal, sweeps, bookActs, spared>>

End(t) ==
  /\ job' = [job EXCEPT ![t] = NoJob]
  /\ lock' = Free

(* The catalogue says that the book is private: it is saved for whoever is *)
(* signed in.  Without a record there is nothing to mark as failed.        *)
Metadata(t) ==
  LET j == job[t]
  IN /\ j.step = "metadata"
     /\ \/ /\ ~j.aborted /\ identity[t] # NoOne
           /\ Step(t, [j EXCEPT !.scope = identity[t]], "previous")
           /\ UNCHANGED <<lock, bookActs>>
        \/ /\ j.aborted \/ identity[t] = NoOne
           /\ End(t) /\ UNCHANGED bookActs
        \/ /\ BookActing /\ End(t)
     /\ UNCHANGED <<records, resources, account, identity, open, removal, sweeps, spared>>

(* A complete package is left intact, another one is replaced.  It is      *)
(* looked for among those of the account that is signed in by now.         *)
Previous(t) ==
  LET j == job[t]
      status == IF identity[t] = NoOne THEN "absent" ELSE records[identity[t]].status
  IN /\ j.step = "previous"
     /\ \/ /\ status = "ready" /\ End(t) /\ UNCHANGED <<records, resources, spared>>
        \/ /\ status = "absent" /\ GoesOn(t, j, "first") /\ UNCHANGED <<records, resources, lock, spared>>
        \/ /\ status \in {"downloading", "failed"}
           /\ Delete(identity[t])
           /\ GoesOn(t, j, "first")
           /\ UNCHANGED lock
     /\ UNCHANGED <<account, identity, open, removal, sweeps, bookActs>>

Downloading(j) == [status |-> "downloading", generation |-> j.n]

(* The record comes first, then every file and the progress. *)
Save(t) ==
  LET j == job[t]
  IN /\ \/ /\ j.step = "first"
           /\ Put(j.scope, Downloading(j))
           /\ Step(t, j, "fetch")
           /\ UNCHANGED resources
        \/ /\ j.step = "fetch"
           /\ \E o \in j.left : GoesOn(t, [j EXCEPT !.object = {o}], "store")
           /\ UNCHANGED <<records, resources>>
        \/ /\ j.step = "store"
           /\ resources' = resources \cup {<<j.scope, j.n, o>> : o \in j.object}
           /\ GoesOn(t, [j EXCEPT !.left = @ \ j.object], "progress")
           /\ UNCHANGED records
        \/ /\ j.step = "progress"
           /\ Put(j.scope, Downloading(j))
           /\ IF j.left = {} THEN GoesOn(t, j, "ready") ELSE Step(t, j, "fetch")
           /\ UNCHANGED resources
     /\ UNCHANGED <<lock, account, identity, open, removal, sweeps, bookActs, spared>>

MarkReady(t) ==
  LET j == job[t]
  IN /\ j.step = "ready"
     /\ Put(j.scope, [status |-> "ready", generation |-> j.n])
     /\ End(t)
     /\ UNCHANGED <<resources, account, identity, open, removal, sweeps, bookActs, spared>>

(* The network or the database fails. *)
SaveFails(t) ==
  /\ job[t].step \in {"previous", "first", "fetch", "store", "progress", "ready"} /\ BookActing
  /\ Step(t, job[t], "failing")
  /\ UNCHANGED <<records, resources, lock, account, identity, open, removal, sweeps, spared>>

(* The failure is recorded, if that is possible. *)
Fail(t) ==
  LET j == job[t]
  IN /\ j.step = "failing"
     /\ \/ Put(j.scope, [status |-> "failed", generation |-> j.n]) /\ UNCHANGED bookActs
        \/ BookActing /\ UNCHANGED records
     /\ End(t)
     /\ UNCHANGED <<resources, account, identity, open, removal, sweeps, spared>>

---------------------------------------------------------------------------
(* Removal *)

(* The reader removes a book the tab shows; its download is stopped first. *)
Remove(t) ==
  /\ t \in open /\ removal[t].step = "none" /\ identity[t] # NoOne
  /\ records[identity[t]] # NoRecord /\ BookActing
  /\ removal' = [removal EXCEPT ![t] = [step |-> "wait", user |-> identity[t], waits |-> job[t].n]]
  /\ job' = IF job[t].step = "none" THEN job ELSE [job EXCEPT ![t] = Abort(@)]
  /\ UNCHANGED <<records, resources, lock, account, identity, open, sweeps, spared>>

(* Mutant of RemoveLocked: the lock is for downloads only. *)
RemoveUnlocked(t) ==
  /\ removal[t].step = "wait" /\ (removal[t].waits = 0 \/ Ended(t, removal[t].waits))
  /\ removal' = [removal EXCEPT ![t].step = "delete"]
  /\ UNCHANGED <<records, resources, lock, account, identity, open, job, sweeps, bookActs, spared>>

RemoveLocked(t) ==
  /\ removal[t].step = "wait" /\ (removal[t].waits = 0 \/ Ended(t, removal[t].waits))
  /\ Taken(<<t, "remove">>)
  /\ removal' = [removal EXCEPT ![t].step = "delete"]
  /\ UNCHANGED <<records, resources, account, identity, open, job, sweeps, bookActs, spared>>

RemoveNow(t) ==
  /\ removal[t].step = "delete"
  /\ Delete(removal[t].user)
  /\ lock' = Free
  /\ removal' = [removal EXCEPT ![t] = NoRemoval]
  /\ UNCHANGED <<account, identity, open, job, sweeps, bookActs>>

(* The lock is refused, or the database does not remove. *)
RemoveFails(t) ==
  /\ \/ removal[t].step = "wait" /\ (removal[t].waits = 0 \/ Ended(t, removal[t].waits)) /\ UNCHANGED lock
     \/ removal[t].step = "delete" /\ lock' = Free
  /\ removal' = [removal EXCEPT ![t] = NoRemoval]
  /\ UNCHANGED <<records, resources, account, identity, open, job, sweeps, bookActs, spared>>

---------------------------------------------------------------------------
(* Sweeps *)

Change(s, new) == sweeps' = (sweeps \ {s}) \cup {new}

(* Mutant of Follow: downloads of the old account are not interrupted. *)
FollowWithoutWaiting(t) ==
  /\ t \in open /\ identity[t] # account
  /\ identity' = [identity EXCEPT ![t] = account]
  /\ sweeps' = sweeps \cup {[tab |-> t, user |-> account, step |-> "wait", waits |-> 0, left |-> {}]}
  /\ UNCHANGED <<records, resources, lock, account, open, job, removal, bookActs, spared>>

(* The tab learns of the account: a download for another one is stopped,   *)
(* and the packages that are not the account's are removed after it.       *)
Follow(t) ==
  LET j == job[t]
      interrupted == j.step # "none" /\ j.scope \notin {NoOne, account}
  IN /\ t \in open /\ identity[t] # account
     /\ identity' = [identity EXCEPT ![t] = account]
     /\ job' = IF interrupted THEN [job EXCEPT ![t] = Abort(@)] ELSE job
     /\ sweeps' = sweeps \cup {[tab |-> t, user |-> account, step |-> "wait",
                                waits |-> IF interrupted THEN j.n ELSE 0, left |-> {}]}
     /\ UNCHANGED <<records, resources, lock, account, open, removal, bookActs, spared>>

Waited(s) == s.waits = 0 \/ Ended(s.tab, s.waits)
Others(t) == {u \in Accounts : records[u] # NoRecord /\ u # identity[t]}

SweepLists(s) ==
  /\ s \in sweeps /\ s.step = "wait" /\ Waited(s)
  /\ IF Others(s.tab) = {} THEN sweeps' = sweeps \ {s}
     ELSE Change(s, [s EXCEPT !.step = "sweep", !.left = Others(s.tab)])
  /\ spared' = spared \ Others(s.tab)
  /\ UNCHANGED <<records, resources, lock, account, identity, open, job, removal, bookActs>>

(* One after the other, under the lock; it may be the account's by then. *)
SweepRemoves(s) ==
  /\ s \in sweeps
  /\ \/ /\ s.step = "sweep" /\ Taken(<<s.tab, s.user>>)
        /\ Change(s, [s EXCEPT !.step = "locked"])
        /\ UNCHANGED <<records, resources, spared>>
     \/ /\ s.step = "locked"
        /\ lock' = Free
        /\ \E u \in s.left :
             /\ IF u # identity[s.tab] THEN Delete(u) ELSE UNCHANGED <<records, resources, spared>>
             /\ IF s.left = {u} THEN sweeps' = sweeps \ {s}
                ELSE Change(s, [s EXCEPT !.step = "sweep", !.left = @ \ {u}])
  /\ UNCHANGED <<account, identity, open, job, removal, bookActs>>

(* What the tab has not downloaded itself is downloaded by nobody. *)
Marked(s, us) ==
  [u \in Accounts |-> IF u \in us /\ records[u].status = "downloading" /\ job[s.tab].step = "none"
                     THEN [records[u] EXCEPT !.status = "failed"] ELSE records[u]]

(* A tab that starts marks what nobody downloads any more as failed, if    *)
(* the lock is available, and then sweeps.                                 *)
Recover(s) ==
  /\ s \in sweeps
  /\ \/ /\ s.step = "recover" /\ Taken(<<s.tab, "recover">>)
        /\ Change(s, [s EXCEPT !.step = "mark"])
        /\ UNCHANGED records
     \/ /\ s.step = "recover" /\ lock # Free
        /\ Change(s, [s EXCEPT !.step = "wait"])
        /\ UNCHANGED <<records, lock>>
     \/ /\ s.step = "mark"
        /\ records' = Marked(s, Accounts)
        /\ lock' = Free
        /\ Change(s, [s EXCEPT !.step = "wait"])
  /\ UNCHANGED <<resources, account, identity, open, job, removal, bookActs, spared>>

LeftBy(s) == {u \in Others(s.tab) : s.step \in {"sweep", "locked"} => u \in s.left}

(* The database or the lock fails: the rest of the recovery and of the     *)
(* sweep is given up, and nobody is told.                                  *)
SweepFails(s) ==
  /\ s \in sweeps /\ (s.step = "wait" => Waited(s))
  /\ sweeps' = sweeps \ {s}
  /\ spared' = spared \cup LeftBy(s)
  /\ lock' = IF s.step \in {"locked", "mark"} THEN Free ELSE lock
  /\ IF s.step = "mark" THEN \E us \in SUBSET Accounts : records' = Marked(s, us) ELSE UNCHANGED records
  /\ UNCHANGED <<resources, account, identity, open, job, removal, bookActs>>

---------------------------------------------------------------------------
ChangeAccount ==
  /\ BookActing
  /\ \E u \in (Accounts \cup {NoOne}) \ {account} : account' = u
  /\ UNCHANGED <<records, resources, lock, identity, open, job, removal, sweeps, spared>>

Close(t) ==
  /\ t \in open /\ BookActing
  /\ open' = open \ {t}
  /\ job' = [job EXCEPT ![t] = NoJob]
  /\ removal' = [removal EXCEPT ![t] = NoRemoval]
  /\ sweeps' = {s \in sweeps : s.tab # t}
  /\ lock' = IF lock # Free /\ lock[1] = t THEN Free ELSE lock
  /\ UNCHANGED <<records, resources, account, identity, spared>>

Open(t) ==
  /\ t \notin open
  /\ open' = open \cup {t}
  /\ identity' = [identity EXCEPT ![t] = account]
  /\ sweeps' = sweeps \cup {[tab |-> t, user |-> account, step |-> "recover", waits |-> 0, left |-> {}]}
  /\ UNCHANGED <<records, resources, lock, account, job, removal, bookActs, spared>>

DownloadStep(t) ==
  Enter(t) \/ Metadata(t) \/ Previous(t) \/ Save(t) \/ MarkReady(t) \/ SaveFails(t) \/ Fail(t)

BooksNext ==
  \/ ChangeAccount
  \/ \E t \in Tabs :
       \/ Download(t) \/ DownloadStep(t)
       \/ Remove(t) \/ RemoveLocked(t) \/ RemoveNow(t) \/ RemoveFails(t)
       \/ Follow(t) \/ Close(t) \/ Open(t)
  \/ \E s \in sweeps : SweepLists(s) \/ SweepRemoves(s) \/ Recover(s) \/ SweepFails(s)

BooksSpec == BooksInit /\ [][BooksNext]_bookVars

---------------------------------------------------------------------------
Downloads(t) == job[t].step \notin {"none", "lock"}
Removes(t) == removal[t].step = "delete"
Works(s) == s.step \in {"locked", "mark"}

(* Of all tabs, one operation at a time works on the book, and it holds    *)
(* the lock.                                                               *)
Exclusive ==
  /\ \A t \in Tabs : Downloads(t) \/ Removes(t) => lock # Free /\ lock[1] = t
  /\ \A s \in sweeps : Works(s) => lock # Free /\ lock[1] = s.tab
  /\ \A t \in Tabs : ~(Downloads(t) /\ Removes(t))
  /\ \A s \in sweeps : Works(s) => ~Downloads(s.tab) /\ ~Removes(s.tab)
  /\ \A s, r \in sweeps : Works(s) /\ Works(r) => s = r

(* Nobody holds the lock without working. *)
Held ==
  lock # Free =>
    (\E t \in Tabs : Downloads(t) \/ Removes(t)) \/ (\E s \in sweeps : Works(s))

(* Packages and operations carry numbers that have been given. *)
Numbered ==
  /\ bookActs \in Nat
  /\ records \in [Accounts -> [status : {"absent", "downloading", "failed", "ready"},
                               generation : 0..bookActs]]
  /\ resources \subseteq Accounts \X (1..bookActs) \X Objects
  /\ \A t \in Tabs : job[t].n \in 0..bookActs

(* The variables have the values that the code gives them, and the lock of *)
(* the dataset is held exactly by an operation that works under it, in     *)
(* whichever tab (offline/books.ts).                                       *)
BooksTypeOK ==
  /\ Numbered
  /\ account \in Accounts \cup {NoOne}
  /\ identity \in [Tabs -> Accounts \cup {NoOne}]
  /\ open \subseteq Tabs
  /\ \A t \in Tabs : job[t].left \subseteq Objects
  /\ \A s \in sweeps : s.tab \in open
  /\ Exclusive
  /\ Held

(* A package that is ready has all its files, and no file is left without  *)
(* a record by which it can be removed, whoever downloads, removes, sweeps *)
(* or recovers in which tab (offline-books.ts: the lock of the dataset).   *)
PackagesAreWhole ==
  /\ \A u \in Accounts : records[u].status = "ready" =>
       \A o \in Objects : <<u, records[u].generation, o>> \in resources
  /\ \A r \in resources : records[r[1]] # NoRecord

Settled ==
  /\ open = Tabs /\ sweeps = {}
  /\ \A t \in Tabs : identity[t] = account /\ job[t].step = "none" /\ removal[t].step = "none"

(* When every tab knows the account and is done, no package of another one *)
(* is left, although downloads of the old account were under way and put   *)
(* their records after the account had changed; except what a sweep that   *)
(* gave up has left (its errors are swallowed, offline/books.ts:49, :57),  *)
(* and only until a package is removed or a later sweep lists it.          *)
OnlyMyPackages ==
  Settled => \A u \in Accounts : records[u] # NoRecord => u = account \/ u \in spared
=============================================================================
