------------------------- MODULE TaskMonitorProofs -------------------------
(***************************************************************************)
(* Proofs about TaskMonitor, for every period, policy and retention.       *)
(*                                                                         *)
(* What a tick decides comes from reading a stretch of the inbox, as many  *)
(* entries as there are, so the proof has an induction in it.  The         *)
(* induction theorems of the library take an operator that the provers     *)
(* cannot instantiate; here induction is stated with a set instead, and    *)
(* follows from the well-founded order of the finite sets.                 *)
(***************************************************************************)
EXTENDS TaskMonitor, FiniteSetTheorems, TLAPS

(* An entry of the inbox: the outcome of a run, or a ping. *)
Entries ==
  [kind : {"run", "start", "success", "fail"}, slot : Slots \cup {None}, at : Nat,
   outcome : RunOutcomes \cup {"none"}]

Kinds == {"idle", "accepted", "exhausted", "failed", "refused"}

Ticks ==
  [step : {"put", "ping", "clear"}, now : Nat, kind : Kinds, slot : Slots \cup {None},
   caughtUp : BOOLEAN, state : States]

(* An outcome is that of a run that is over; a ping has none. *)
Recorded(entry) ==
  IF entry.kind = "run"
  THEN /\ entry.slot \in Slots
       /\ runs[entry.slot].state = "done" /\ runs[entry.slot].logged > 0
       /\ runs[entry.slot].at = entry.at /\ runs[entry.slot].outcome = entry.outcome
  ELSE entry.outcome = "none"

(* What a state means to send is what the check does not show yet. *)
Told(state) ==
  /\ state.down <=> state.incidentAt # None
  /\ state.down => state.activated
  /\ state.pending = "none" => (external = "down" <=> state.down)
  /\ state.pending = "start" => ~state.down /\ external # "down"
  /\ state.pending = "success" => ~state.down
  /\ state.pending = "fail" => state.down

(* The failures are runs that were read, and ended since the last success. *)
Counted(state) ==
  /\ state.lastSuccessAt <= state.lastExecutionAt
  /\ state.executionFailures <= Cardinality(state.seen \cap Failing(state.lastSuccessAt))

(* The deadline is that of a success or of the start, or an earlier one. *)
Life(start) ==
  {start} \cup {log[n].at : n \in {k \in 1..Len(log) : log[k].outcome = "success"}}

Dated(state, start) == \E at \in Life(start) : state.deadlineAt <= NextDeadline(at)

Sound(start) == {s \in States : s.initialized /\ Told(s) /\ Counted(s) /\ Dated(s, start)}

Started == IF history.started = None THEN tick.now ELSE history.started

(* A success that was logged after a state and is as new as its incident. *)
Recovery(state) ==
  \E n \in (state.cursor + 1)..Len(log) :
    log[n].outcome = "success" /\ log[n].at >= state.incidentAt

LogOK ==
  /\ log \in Seq(Entries)
  /\ \A n \in 1..Len(log) : Recorded(log[n])

(* Before the first decision nobody was told anything. *)
FreshOK ==
  monitor = None =>
    /\ external = "new" /\ history.started = None
    /\ \A n \in 1..Len(log) : log[n].kind = "run"
    /\ tick.step \in {"idle", "put"}

StoredOK == monitor # None => history.started \in Nat /\ monitor \in Sound(history.started)

PutOK ==
  tick.step = "put" =>
    /\ tick.state \in Sound(Started)
    /\ tick.caughtUp => tick.state.down \/ tick.now < tick.state.deadlineAt
    /\ monitor # None /\ monitor.down => tick.state.down \/ Recovery(monitor)

SendOK ==
  /\ tick.step \in {"ping", "clear"} => monitor = tick.state /\ tick.state.pending # "none"
  /\ tick.step = "clear" => external = Shown(tick.state.pending)

MonitorInv ==
  /\ TypeOK
  /\ LogOK
  /\ tick = Idle \/ tick \in Ticks
  /\ FreshOK /\ StoredOK /\ PutOK /\ SendOK

---------------------------------------------------------------------------
(* Induction *)

(* Every set of naturals that has an element has a least one: of the       *)
(* intervals that end in the set, one contains no other.                   *)
LEMMA LeastExists ==
  ASSUME NEW S \in SUBSET Nat, S # {}
  PROVE  \E m \in S : \A k \in S : m <= k
<1> DEFINE R == StrictSubsetOrdering(Nat)
           F == FiniteSubsetsOf(Nat)
           T == {0..n : n \in S}
<1>1. IsWellFoundedOn(R, F)
  BY FS_StrictSubsetOrderingWellFounded
<1>2. T \subseteq F /\ T # {}
  <2>1. ASSUME NEW n \in S PROVE 0..n \in F
    <3>1. IsFiniteSet(0..n) BY FS_Interval
    <3>2. 0..n \subseteq Nat OBVIOUS
    <3> QED BY <3>1, <3>2 DEF FiniteSubsetsOf
  <2> QED BY <2>1
<1>3. PICK M \in T : \A y \in T : ~ (<<y, M>> \in R)
  <2> HIDE DEF R, T, F
  <2> QED BY <1>1, <1>2, WFMin
<1>4. PICK m \in S : M = 0..m
  OBVIOUS
<1>5. ASSUME NEW k \in S, k < m PROVE FALSE
  <2>1. 0..k \in T /\ 0..k \in SUBSET Nat /\ M \in SUBSET Nat
    BY <1>4
  <2>2. 0..k \subseteq M /\ 0..k # M
    BY <1>4, <1>5
  <2> QED BY <2>1, <2>2, <1>3 DEF StrictSubsetOrdering
<1> QED BY <1>5, <1>4

(* Induction on the natural numbers, with a set for the predicate. *)
LEMMA Induction ==
  ASSUME NEW P, 0 \in P, \A n \in Nat : n \in P => n + 1 \in P
  PROVE  Nat \subseteq P
<1> SUFFICES ASSUME Nat \ P # {} PROVE FALSE
  OBVIOUS
<1>1. PICK m \in Nat \ P : \A k \in Nat \ P : m <= k
  BY LeastExists
<1>2. m # 0 /\ m - 1 \in Nat /\ m - 1 \in P
  BY <1>1
<1> QED BY <1>1, <1>2

(* A set of numbers with a bound has a latest one. *)
LEMMA LatestIsIn ==
  ASSUME NEW bound \in Nat, NEW numbers \in SUBSET (1..bound), numbers # {}
  PROVE  Latest(numbers) \in numbers
<1> DEFINE S == {bound - n : n \in numbers}
<1>0. \A n \in numbers : n \in Nat /\ bound - n \in Nat
  <2> SUFFICES ASSUME NEW n \in numbers PROVE n \in Nat /\ bound - n \in Nat
    OBVIOUS
  <2>1. n \in 1..bound
    OBVIOUS
  <2> QED BY <2>1
<1>1. S \in SUBSET Nat /\ S # {}
  BY <1>0
<1>2. PICK m \in S : \A k \in S : m <= k
  <2> HIDE DEF S
  <2> QED BY <1>1, LeastExists
<1>3. PICK n \in numbers : m = bound - n
  OBVIOUS
<1>4. \A k \in numbers : k <= n
  <2> SUFFICES ASSUME NEW k \in numbers PROVE k <= n
    OBVIOUS
  <2>1. bound - k \in S
    OBVIOUS
  <2>2. bound - n <= bound - k
    BY <1>2, <1>3, <2>1
  <2> QED BY <2>2, <1>0
<1> QED BY <1>3, <1>4 DEF Latest

---------------------------------------------------------------------------
(* Reading a stretch of the inbox *)

(* The states while the entries up to the last are read. *)
IsReading(reads, state, last) ==
  reads = [n \in 0..last |->
             IF n < FirstUnread(state.cursor) THEN state ELSE Read(reads[n - 1], n)]

LEMMA FirstIsPositive ==
  ASSUME log \in Seq(Entries)
  PROVE  First \in Nat \ {0}
<1>1. Len(log) \in Nat /\ Retain \in Nat \ {0}
  BY MonitorAssumption
<1> QED BY <1>1 DEF First

LEMMA FirstUnreadIsUnread ==
  ASSUME log \in Seq(Entries), NEW cursor \in Nat
  PROVE  /\ FirstUnread(cursor) \in Nat \ {0}
         /\ cursor < FirstUnread(cursor) /\ First <= FirstUnread(cursor)
BY FirstIsPositive DEF FirstUnread

(* A longer reading goes on where a shorter one ends. *)
LEMMA ReadingExists ==
  ASSUME log \in Seq(Entries), NEW state \in States, NEW last \in Nat
  PROVE  \E reads : IsReading(reads, state, last)
<1> DEFINE P == {k \in Nat : \E reads : IsReading(reads, state, k)}
           first == FirstUnread(state.cursor)
<1>0. first \in Nat \ {0}
  BY FirstUnreadIsUnread DEF States
<1>1. 0 \in P
  <2>1. IsReading([n \in 0..0 |-> state], state, 0)
    BY <1>0 DEF IsReading
  <2> QED BY <2>1
<1>2. ASSUME NEW k \in Nat, k \in P PROVE k + 1 \in P
  <2>1. PICK reads : IsReading(reads, state, k)
    BY <1>2
  <2> DEFINE longer == [n \in 0..(k + 1) |->
               IF n = k + 1 THEN IF n < first THEN state ELSE Read(reads[k], n) ELSE reads[n]]
  <2>2. ASSUME NEW n \in 0..(k + 1)
        PROVE  longer[n] = IF n < first THEN state ELSE Read(longer[n - 1], n)
    <3>1. CASE n = k + 1
      <4>1. n - 1 = k /\ k \in 0..(k + 1) /\ k # k + 1
        BY <3>1
      <4>2. longer[n - 1] = reads[k]
        BY <4>1
      <4> QED BY <3>1, <4>2
    <3>2. CASE n # k + 1
      <4>1. n \in 0..k
        BY <3>2
      <4>2. longer[n] = reads[n]
        BY <3>2
      <4>3. reads[n] = IF n < first THEN state ELSE Read(reads[n - 1], n)
        BY <2>1, <4>1 DEF IsReading
      <4>4. ASSUME ~(n < first) PROVE longer[n - 1] = reads[n - 1]
        <5>1. n - 1 \in 0..(k + 1) /\ n - 1 # k + 1
          BY <4>1, <4>4, <1>0
        <5> QED BY <5>1
      <4> HIDE DEF longer, first
      <4> QED BY <4>2, <4>3, <4>4
    <3> QED BY <3>1, <3>2
  <2>3. IsReading(longer, state, k + 1)
    <3>1. longer = [n \in 0..(k + 1) |-> longer[n]]
      OBVIOUS
    <3> HIDE DEF longer
    <3> QED BY <2>2, <3>1 DEF IsReading
  <2> QED BY <2>3
<1>3. Nat \subseteq P
  <2> HIDE DEF P
  <2> QED BY <1>1, <1>2, Induction
<1> QED BY <1>3

(* What every entry of a reading keeps, the reading keeps. *)
LEMMA ReadingKeeps ==
  ASSUME log \in Seq(Entries), NEW state \in States, NEW last \in Nat,
         NEW P, state \in P,
         \A n \in FirstUnread(state.cursor)..last : \A s \in P : Read(s, n) \in P
  PROVE  ReadUpTo(state, last) \in P
<1> DEFINE first == FirstUnread(state.cursor)
           reads == CHOOSE r : IsReading(r, state, last)
           Q == {k \in Nat : k <= last => reads[k] \in P}
<1>1. IsReading(reads, state, last)
  BY ReadingExists
<1>2. ReadUpTo(state, last) = reads[last]
  BY DEF ReadUpTo, IsReading
<1>3. \A n \in 0..last : reads[n] = IF n < first THEN state ELSE Read(reads[n - 1], n)
  <2> HIDE DEF reads
  <2> QED BY <1>1 DEF IsReading
<1>4. first \in Nat \ {0}
  BY FirstUnreadIsUnread DEF States
<1> HIDE DEF reads, first
<1>5. 0 \in Q
  BY <1>3, <1>4
<1>6. ASSUME NEW k \in Nat, k \in Q PROVE k + 1 \in Q
  <2> SUFFICES ASSUME k + 1 <= last PROVE reads[k + 1] \in P
    OBVIOUS
  <2>1. reads[k] \in P /\ k + 1 \in 0..last /\ (k + 1) - 1 = k
    BY <1>6
  <2>2. CASE k + 1 < first
    BY <2>1, <2>2, <1>3
  <2>3. CASE ~(k + 1 < first)
    <3>1. k + 1 \in first..last
      BY <2>1, <2>3, <1>4
    <3>2. reads[k + 1] = Read(reads[k], k + 1)
      BY <2>1, <2>3, <1>3
    <3> QED BY <3>1, <3>2, <2>1 DEF first
  <2> QED BY <2>2, <2>3
<1>7. Nat \subseteq Q
  <2> HIDE DEF Q
  <2> QED BY <1>5, <1>6, Induction
<1> QED BY <1>2, <1>7

(* A tick reads entries that are left and were not read before. *)
LEMMA SelectedAreUnread ==
  ASSUME log \in Seq(Entries), NEW cursor \in Nat
  PROVE  /\ LastSelected(cursor) \in Nat
         /\ \A n \in FirstUnread(cursor)..LastSelected(cursor) :
              n \in First..Len(log) /\ n \in (cursor + 1)..Len(log)
<1> DEFINE from == FirstUnread(cursor)
           fits == {n \in from..Len(log) : Bodies(from, n) <= Budget}
<1>1. from \in Nat \ {0} /\ cursor < from /\ First <= from /\ First \in Nat \ {0}
  BY FirstUnreadIsUnread, FirstIsPositive
<1>2. Len(log) \in Nat
  OBVIOUS
<1>3. CASE fits = {}
  <2>1. LastSelected(cursor) = cursor
    BY <1>3 DEF LastSelected
  <2> QED BY <2>1, <1>1
<1>4. CASE fits # {}
  <2>1. LastSelected(cursor) = Latest(fits)
    BY <1>4 DEF LastSelected
  <2>2. fits \in SUBSET (1..Len(log))
    <3> HIDE DEF from
    <3> QED BY <1>1, <1>2
  <2>3. Latest(fits) \in fits
    <3> HIDE DEF fits
    <3> QED BY <1>2, <1>4, <2>2, LatestIsIn
  <2>4. LastSelected(cursor) \in from..Len(log)
    BY <2>1, <2>3
  <2> HIDE DEF from, fits
  <2> QED BY <2>4, <1>1, <1>2 DEF from
<1> QED BY <1>3, <1>4


---------------------------------------------------------------------------
(* The alert policy: every step of it keeps a sound state sound *)

LEMMA NextDeadlineType ==
  ASSUME NEW at \in Nat
  PROVE  NextDeadline(at) \in Nat
<1>1. Period \in Nat \ {0} /\ Grace \in Nat
  BY MonitorAssumption
<1>2. at \div Period \in Nat
  BY <1>1
<1>3. (at \div Period + 1) * Period \in Nat
  BY <1>1, <1>2
<1> QED BY <1>1, <1>3 DEF NextDeadline

LEMMA NoneIsNoNumber ==
  /\ None \notin Nat /\ None \notin Slots
  /\ Slots \subseteq Nat \ {0}
BY MonitorAssumption DEF Slots

LEMMA MarkDownSound ==
  ASSUME NEW start, NEW s \in Sound(start), NEW at \in Nat
  PROVE  MarkDown(s, at) \in Sound(start) /\ MarkDown(s, at).down
<1> DEFINE t == [s EXCEPT !.down = TRUE, !.activated = TRUE, !.incidentAt = at, !.pending = "fail"]
<1>0. s \in States
  BY DEF Sound
<1>1. CASE s.down
  BY <1>1 DEF MarkDown
<1>2. CASE ~s.down
  <2>1. MarkDown(s, at) = t
    BY <1>2 DEF MarkDown
  <2>2. t \in States
    BY <1>0 DEF States
  <2>3. t.down /\ t.activated /\ t.incidentAt = at /\ t.pending = "fail"
    BY <1>0 DEF States
  <2>4. t.initialized = s.initialized /\ t.lastSuccessAt = s.lastSuccessAt /\ t.seen = s.seen
        /\ t.lastExecutionAt = s.lastExecutionAt /\ t.executionFailures = s.executionFailures
        /\ t.deadlineAt = s.deadlineAt
    BY <1>0 DEF States
  <2> HIDE DEF t
  <2>5. Told(t)
    BY <2>3, NoneIsNoNumber DEF Told
  <2>6. Counted(t) /\ Dated(t, start) /\ t.initialized
    BY <2>4 DEF Sound, Counted, Dated
  <2> QED BY <2>1, <2>2, <2>3, <2>5, <2>6 DEF Sound
<1> QED BY <1>1, <1>2

LEMMA NoDispatchFailureSound ==
  ASSUME NEW start, NEW s \in Sound(start)
  PROVE  /\ NoDispatchFailure(s) \in Sound(start)
         /\ NoDispatchFailure(s).down = s.down /\ NoDispatchFailure(s).incidentAt = s.incidentAt
<1> DEFINE t == NoDispatchFailure(s)
<1>0. s \in States
  BY DEF Sound
<1>1. t \in States
  BY <1>0 DEF States, NoDispatchFailure
<1>2. t.down = s.down /\ t.activated = s.activated /\ t.incidentAt = s.incidentAt /\ t.pending = s.pending
  BY <1>0 DEF States, NoDispatchFailure
<1>3. t.initialized = s.initialized /\ t.lastSuccessAt = s.lastSuccessAt /\ t.seen = s.seen
      /\ t.lastExecutionAt = s.lastExecutionAt /\ t.executionFailures = s.executionFailures
      /\ t.deadlineAt = s.deadlineAt
  BY <1>0 DEF States, NoDispatchFailure
<1> HIDE DEF t
<1>4. Told(t)
  BY <1>2 DEF Told, Sound
<1>5. Counted(t) /\ Dated(t, start) /\ t.initialized
  BY <1>3 DEF Sound, Counted, Dated
<1> QED BY <1>1, <1>2, <1>4, <1>5 DEF Sound, t


LEMMA LifeType ==
  ASSUME NEW start \in Nat, log \in Seq(Entries)
  PROVE  Life(start) \subseteq Nat
<1> SUFFICES ASSUME NEW n \in 1..Len(log) PROVE log[n].at \in Nat
  BY DEF Life
<1>1. log[n] \in Entries
  OBVIOUS
<1> QED BY <1>1 DEF Entries

(* A change that is only about what people are told. *)
LEMMA SoundIfAlike ==
  ASSUME NEW start, NEW s \in Sound(start), NEW t \in States, Told(t), t.initialized,
         t.lastSuccessAt = s.lastSuccessAt, t.lastExecutionAt = s.lastExecutionAt,
         t.seen = s.seen, t.executionFailures = s.executionFailures,
         t.deadlineAt <= s.deadlineAt, start \in Nat, log \in Seq(Entries)
  PROVE  t \in Sound(start)
<1>1. Counted(t)
  BY DEF Sound, Counted
<1>2. Dated(t, start)
  <2>1. PICK at \in Life(start) : s.deadlineAt <= NextDeadline(at)
    BY DEF Sound, Dated
  <2>2. at \in Nat
    BY LifeType
  <2>3. NextDeadline(at) \in Nat /\ s.deadlineAt \in Nat /\ t.deadlineAt \in Nat
    BY <2>2, NextDeadlineType DEF Sound, States
  <2> QED BY <2>1, <2>3 DEF Dated
<1> QED BY <1>1, <1>2 DEF Sound

LEMMA ObserveExpectedSlotSound ==
  ASSUME NEW start \in Nat, NEW s \in Sound(start), NEW slot \in Slots, log \in Seq(Entries)
  PROVE  /\ ObserveExpectedSlot(s, slot) \in Sound(start)
         /\ ObserveExpectedSlot(s, slot).down = s.down
<1> DEFINE due == slot + Grace
           d == IF s.lastSuccessAt < slot /\ due < s.deadlineAt
                THEN [s EXCEPT !.deadlineAt = due] ELSE s
           t == [d EXCEPT !.activated = TRUE, !.pending = "start"]
<1>0. s \in States /\ due \in Nat
  BY MonitorAssumption, NoneIsNoNumber DEF Sound
<1>1. d \in States
  BY <1>0 DEF States
<1>2. d.down = s.down /\ d.activated = s.activated /\ d.incidentAt = s.incidentAt
      /\ d.pending = s.pending /\ d.initialized = s.initialized
  BY <1>0 DEF States
<1>3. d.lastSuccessAt = s.lastSuccessAt /\ d.lastExecutionAt = s.lastExecutionAt
      /\ d.seen = s.seen /\ d.executionFailures = s.executionFailures
  BY <1>0 DEF States
<1>4. d.deadlineAt <= s.deadlineAt
  BY <1>0 DEF States
<1>5. d \in Sound(start)
  <2> HIDE DEF d
  <2>1. Told(d) /\ d.initialized
    BY <1>2 DEF Told, Sound
  <2> QED BY <1>1, <1>3, <1>4, <2>1, SoundIfAlike
<1>6. ObserveExpectedSlot(s, slot) = IF ~s.activated /\ s.pending = "none" THEN t ELSE d
  BY DEF ObserveExpectedSlot, NoPending
<1> HIDE DEF d
<1>7. CASE ~s.activated /\ s.pending = "none"
  <2>1. t \in States /\ t.down = d.down /\ t.incidentAt = d.incidentAt /\ t.pending = "start"
        /\ t.initialized = d.initialized /\ t.activated
    BY <1>1 DEF States
  <2>2. t.lastSuccessAt = d.lastSuccessAt /\ t.lastExecutionAt = d.lastExecutionAt
        /\ t.seen = d.seen /\ t.executionFailures = d.executionFailures /\ t.deadlineAt = d.deadlineAt
    BY <1>1 DEF States
  <2>3. d.deadlineAt <= d.deadlineAt
    BY <1>1 DEF States
  <2> HIDE DEF t
  <2>4. Told(t) /\ t.initialized
    BY <2>1, <1>2, <1>7 DEF Told, Sound
  <2>5. t \in Sound(start)
    BY <1>5, <2>1, <2>2, <2>3, <2>4, SoundIfAlike
  <2> QED BY <1>6, <1>7, <2>1, <2>5, <1>2
<1>8. CASE ~(~s.activated /\ s.pending = "none")
  BY <1>5, <1>6, <1>8, <1>2
<1> QED BY <1>7, <1>8

(* Sets of slots are finite. *)
LEMMA SlotsAreFinite ==
  ASSUME NEW S \in SUBSET Slots
  PROVE  IsFiniteSet(S) /\ Cardinality(S) \in Nat
<1>1. IsFiniteSet(1..MaxTime)
  BY MonitorAssumption, FS_Interval
<1>2. IsFiniteSet(S)
  BY <1>1, FS_Subset DEF Slots
<1> QED BY <1>2, FS_CardinalityType

LEMMA SucceedSound ==
  ASSUME NEW start \in Nat, NEW s \in Sound(start), NEW at \in Nat, at \in Life(start),
         s.lastExecutionAt = at
  PROVE  /\ Succeed(s, at) \in Sound(start)
         /\ s.down /\ at < s.incidentAt =>
              Succeed(s, at).down /\ Succeed(s, at).incidentAt = s.incidentAt
<1> DEFINE fresh == [s EXCEPT !.activated = TRUE, !.lastSuccessAt = at, !.executionFailures = 0,
                              !.deadlineAt = NextDeadline(at)]
           since == IF s.dispatchExpectedAt = None THEN s.dispatchFailedAt ELSE s.dispatchExpectedAt
           reached == IF s.dispatchFailedAt # None /\ at >= since THEN NoDispatchFailure(fresh) ELSE fresh
           t == [reached EXCEPT !.down = FALSE, !.incidentAt = None, !.pending = "success"]
<1>0. s \in States /\ NextDeadline(at) \in Nat
  BY NextDeadlineType DEF Sound
<1>1. fresh \in States /\ fresh.activated /\ fresh.down = s.down /\ fresh.pending = s.pending
      /\ fresh.incidentAt = s.incidentAt /\ fresh.initialized = s.initialized
  BY <1>0 DEF States
<1>2. fresh.lastSuccessAt = at /\ fresh.executionFailures = 0 /\ fresh.seen = s.seen
      /\ fresh.lastExecutionAt = at /\ fresh.deadlineAt = NextDeadline(at)
  BY <1>0 DEF States
<1>3. fresh \in Sound(start)
  <2> HIDE DEF fresh
  <2>1. Told(fresh) /\ fresh.initialized
    BY <1>1 DEF Told, Sound
  <2>2. fresh.seen \cap Failing(at) \in SUBSET Slots
    BY DEF Failing
  <2>3. Counted(fresh)
    BY <1>2, <2>2, SlotsAreFinite DEF Counted
  <2>4. Dated(fresh, start)
    BY <1>0, <1>2 DEF Dated
  <2> QED BY <1>1, <2>1, <2>3, <2>4 DEF Sound
<1>4. reached \in Sound(start) /\ reached.down = s.down /\ reached.incidentAt = s.incidentAt
  <2> HIDE DEF fresh
  <2>1. NoDispatchFailure(fresh) \in Sound(start) /\ NoDispatchFailure(fresh).down = fresh.down
        /\ NoDispatchFailure(fresh).incidentAt = fresh.incidentAt
    BY <1>3, NoDispatchFailureSound
  <2> QED BY <1>1, <1>3, <2>1
<1>5. Succeed(s, at) = IF s.down /\ at < s.incidentAt THEN reached ELSE t
  BY DEF Succeed
<1>6. reached.activated
  BY <1>1, <1>2, <1>0 DEF NoDispatchFailure, States
<1> HIDE DEF reached
<1>7. reached \in States
  BY <1>4 DEF Sound
<1>8. t \in Sound(start)
  <2>1. t \in States /\ ~t.down /\ t.incidentAt = None /\ t.pending = "success"
        /\ t.initialized = reached.initialized
    BY <1>7 DEF States
  <2>2. t.lastSuccessAt = reached.lastSuccessAt /\ t.lastExecutionAt = reached.lastExecutionAt
        /\ t.seen = reached.seen /\ t.executionFailures = reached.executionFailures
        /\ t.deadlineAt = reached.deadlineAt
    BY <1>7 DEF States
  <2> HIDE DEF t
  <2>3. Told(t)
    BY <2>1 DEF Told
  <2>4. Counted(t) /\ Dated(t, start) /\ t.initialized
    BY <1>4, <2>1, <2>2 DEF Sound, Counted, Dated
  <2> QED BY <2>1, <2>3, <2>4 DEF Sound
<1> HIDE DEF t
<1> QED BY <1>4, <1>5, <1>8


LEMMA FailOnceSound ==
  ASSUME NEW start \in Nat, NEW s \in Sound(start), NEW event, event.at \in Nat,
         s.executionFailures + 1 <= Cardinality(s.seen \cap Failing(s.lastSuccessAt))
  PROVE  /\ FailOnce(s, event) \in Sound(start)
         /\ s.down => FailOnce(s, event).down /\ FailOnce(s, event).incidentAt = s.incidentAt
<1> DEFINE counted == [s EXCEPT !.executionFailures = @ + 1]
<1>0. s \in States
  BY DEF Sound
<1>1. counted \in States /\ counted.executionFailures = s.executionFailures + 1
      /\ counted.lastSuccessAt = s.lastSuccessAt /\ counted.lastExecutionAt = s.lastExecutionAt
      /\ counted.seen = s.seen /\ counted.deadlineAt = s.deadlineAt
  BY <1>0 DEF States
<1>2. counted.down = s.down /\ counted.activated = s.activated /\ counted.pending = s.pending
      /\ counted.incidentAt = s.incidentAt /\ counted.initialized = s.initialized
  BY <1>0 DEF States
<1>3. FailOnce(s, event) \in {counted, MarkDown(counted, event.at)}
  BY DEF FailOnce
<1> HIDE DEF counted
<1>4. counted \in Sound(start)
  <2>1. Told(counted) /\ counted.initialized
    BY <1>2 DEF Told, Sound
  <2>2. Counted(counted)
    BY <1>1 DEF Counted, Sound
  <2>3. Dated(counted, start)
    BY <1>1 DEF Dated, Sound
  <2> QED BY <1>1, <2>1, <2>2, <2>3 DEF Sound
<1>5. MarkDown(counted, event.at) \in Sound(start)
  BY <1>4, MarkDownSound
<1>6. s.down => MarkDown(counted, event.at) = counted
  BY <1>2 DEF MarkDown
<1> QED BY <1>2, <1>3, <1>4, <1>5, <1>6

(* An outcome that is new adds its slot to those that were read, and to    *)
(* the failures if it is one.                                              *)
LEMMA NewFailureCounts ==
  ASSUME NEW seen \in SUBSET Slots, NEW slot \in Slots, slot \notin seen,
         NEW since, slot \in Failing(since)
  PROVE  Cardinality((seen \cup {slot}) \cap Failing(since)) =
           Cardinality(seen \cap Failing(since)) + 1
<1> DEFINE S == seen \cap Failing(since)
<1>1. IsFiniteSet(S)
  <2>1. S \in SUBSET Slots
    OBVIOUS
  <2> QED BY <2>1, SlotsAreFinite
<1>2. (seen \cup {slot}) \cap Failing(since) = S \cup {slot} /\ slot \notin S
  OBVIOUS
<1> HIDE DEF S
<1>3. Cardinality(S \cup {slot}) = Cardinality(S) + 1
  BY <1>1, <1>2, FS_AddElement
<1> QED BY <1>2, <1>3 DEF S

LEMMA MoreSeenCounts ==
  ASSUME NEW seen \in SUBSET Slots, NEW slot \in Slots, NEW since
  PROVE  Cardinality(seen \cap Failing(since)) <=
           Cardinality((seen \cup {slot}) \cap Failing(since))
<1> DEFINE S == seen \cap Failing(since)
           T == (seen \cup {slot}) \cap Failing(since)
<1>1. T \in SUBSET Slots /\ S \in SUBSET T
  OBVIOUS
<1>2. IsFiniteSet(T)
  BY <1>1, SlotsAreFinite
<1> HIDE DEF S, T
<1>3. Cardinality(S) <= Cardinality(T)
  BY <1>1, <1>2, FS_Subset
<1> QED BY <1>3 DEF S, T

LEMMA ApplyExecutionSound ==
  ASSUME NEW start \in Nat, NEW s \in Sound(start), LogOK,
         NEW n \in 1..Len(log), log[n].kind = "run"
  PROVE  /\ ApplyExecution(s, log[n]) \in Sound(start)
         /\ \/ ~s.down
            \/ log[n].outcome = "success" /\ log[n].at >= s.incidentAt
            \/ /\ ApplyExecution(s, log[n]).down
               /\ ApplyExecution(s, log[n]).incidentAt = s.incidentAt
<1> DEFINE event == log[n]
           known == [s EXCEPT !.seen = @ \cup {event.slot}, !.lastExecutionAt = event.at]
<1>0. s \in States
  BY DEF Sound
<1>1. event \in Entries /\ Recorded(event)
  BY DEF LogOK
<1>2. event.slot \in Slots /\ event.at \in Nat /\ runs[event.slot].state = "done"
      /\ runs[event.slot].logged > 0 /\ runs[event.slot].at = event.at
      /\ runs[event.slot].outcome = event.outcome
  BY <1>1 DEF Recorded, Entries
<1>3. CASE event.slot \in s.seen \/ event.at < s.lastExecutionAt
  BY <1>3 DEF ApplyExecution
<1>4. CASE ~(event.slot \in s.seen \/ event.at < s.lastExecutionAt)
  <2>1. ApplyExecution(s, event) =
          IF event.outcome = "success" THEN Succeed(known, event.at) ELSE FailOnce(known, event)
    BY <1>4 DEF ApplyExecution
  <2>2. known \in States /\ known.lastExecutionAt = event.at /\ known.seen = s.seen \cup {event.slot}
        /\ known.executionFailures = s.executionFailures /\ known.lastSuccessAt = s.lastSuccessAt
        /\ known.deadlineAt = s.deadlineAt
    BY <1>0, <1>2 DEF States
  <2>3. known.down = s.down /\ known.activated = s.activated /\ known.pending = s.pending
        /\ known.incidentAt = s.incidentAt /\ known.initialized = s.initialized
    BY <1>0, <1>2 DEF States
  <2>4. /\ s.lastExecutionAt <= event.at /\ s.lastSuccessAt <= event.at
        /\ s.seen \in SUBSET Slots /\ s.executionFailures \in Nat
        /\ s.executionFailures <= Cardinality(s.seen \cap Failing(s.lastSuccessAt))
    BY <1>0, <1>2, <1>4 DEF States, Sound, Counted
  <2>5. /\ s.seen \cap Failing(s.lastSuccessAt) \in SUBSET Slots
        /\ (s.seen \cup {event.slot}) \cap Failing(s.lastSuccessAt) \in SUBSET Slots
    BY <2>4, <1>2
  <2>6. /\ Cardinality(s.seen \cap Failing(s.lastSuccessAt)) \in Nat
        /\ Cardinality((s.seen \cup {event.slot}) \cap Failing(s.lastSuccessAt)) \in Nat
    BY <2>5, SlotsAreFinite
  <2> HIDE DEF known
  <2>7. known \in Sound(start)
    <3>1. Told(known) /\ known.initialized
      BY <2>3 DEF Told, Sound
    <3>2. Cardinality(s.seen \cap Failing(s.lastSuccessAt)) <=
            Cardinality((s.seen \cup {event.slot}) \cap Failing(s.lastSuccessAt))
      BY <2>4, <1>2, MoreSeenCounts
    <3>3. Counted(known)
      BY <2>2, <2>4, <2>6, <3>2 DEF Counted
    <3>4. Dated(known, start)
      BY <2>2 DEF Dated, Sound
    <3> QED BY <2>2, <3>1, <3>3, <3>4 DEF Sound
  <2>8. CASE event.outcome = "success"
    <3>1. event.at \in Life(start)
      BY <2>8 DEF Life
    <3>2. Succeed(known, event.at) \in Sound(start)
          /\ (known.down /\ event.at < known.incidentAt =>
                Succeed(known, event.at).down /\ Succeed(known, event.at).incidentAt = known.incidentAt)
      BY <1>2, <2>2, <2>7, <3>1, SucceedSound
    <3>3. ASSUME s.down PROVE s.incidentAt \in Nat
      BY <3>3, <1>0 DEF Sound, Told, States
    <3> QED BY <1>2, <2>1, <2>3, <2>8, <3>2, <3>3
  <2>9. CASE event.outcome # "success"
    <3>1. event.slot \in Failing(s.lastSuccessAt)
      BY <1>2, <2>4, <2>9 DEF Failing
    <3>2. Cardinality((s.seen \cup {event.slot}) \cap Failing(s.lastSuccessAt)) =
            Cardinality(s.seen \cap Failing(s.lastSuccessAt)) + 1
      BY <1>2, <1>4, <2>4, <3>1, NewFailureCounts
    <3>3. known.executionFailures + 1 <= Cardinality(known.seen \cap Failing(known.lastSuccessAt))
      BY <2>2, <2>4, <2>6, <3>2
    <3>4. FailOnce(known, event) \in Sound(start)
          /\ (known.down => FailOnce(known, event).down
                             /\ FailOnce(known, event).incidentAt = known.incidentAt)
      BY <1>2, <2>7, <3>3, FailOnceSound
    <3> QED BY <2>1, <2>3, <2>9, <3>4
  <2> QED BY <2>8, <2>9
<1> QED BY <1>3, <1>4

LEMMA ReadSound ==
  ASSUME NEW start \in Nat, NEW s \in Sound(start), LogOK, NEW n \in 1..Len(log)
  PROVE  /\ Read(s, n) \in Sound(start)
         /\ \/ ~s.down
            \/ log[n].outcome = "success" /\ log[n].at >= s.incidentAt
            \/ Read(s, n).down /\ Read(s, n).incidentAt = s.incidentAt
<1> DEFINE r == IF log[n].kind = "run" THEN ApplyExecution(s, log[n]) ELSE s
           t == [r EXCEPT !.cursor = n]
<1>1. r \in Sound(start)
      /\ (\/ ~s.down
          \/ log[n].outcome = "success" /\ log[n].at >= s.incidentAt
          \/ r.down /\ r.incidentAt = s.incidentAt)
  BY ApplyExecutionSound
<1>2. Read(s, n) = t
  BY DEF Read
<1> HIDE DEF r
<1>3. r \in States /\ n \in Nat /\ log \in Seq(Entries)
  BY <1>1 DEF Sound, LogOK
<1>4. t \in States /\ t.down = r.down /\ t.incidentAt = r.incidentAt /\ t.pending = r.pending
      /\ t.activated = r.activated /\ t.initialized = r.initialized
  BY <1>3 DEF States
<1>5. t.lastSuccessAt = r.lastSuccessAt /\ t.lastExecutionAt = r.lastExecutionAt
      /\ t.seen = r.seen /\ t.executionFailures = r.executionFailures
      /\ t.deadlineAt = r.deadlineAt /\ r.deadlineAt <= r.deadlineAt
  BY <1>3 DEF States
<1> HIDE DEF t
<1>6. Told(t) /\ t.initialized
  BY <1>1, <1>4 DEF Told, Sound
<1>7. t \in Sound(start)
  BY <1>1, <1>3, <1>4, <1>5, <1>6, SoundIfAlike
<1> QED BY <1>1, <1>2, <1>4, <1>7


LEMMA ApplyDispatchSound ==
  ASSUME NEW start \in Nat, NEW s \in Sound(start), log \in Seq(Entries),
         NEW kind \in Kinds, NEW slot \in Slots \cup {None},
         kind \in {"failed", "refused"} => slot \in Slots, NEW at \in Nat
  PROVE  /\ ApplyDispatch(s, kind, slot, at) \in Sound(start)
         /\ s.down => ApplyDispatch(s, kind, slot, at).down
<1> DEFINE failing == [s EXCEPT !.dispatchExpectedAt = slot,
                         !.dispatchFailedAt = IF @ = None THEN at ELSE @,
                         !.dispatchPermanent = (kind = "refused")]
           r == ApplyDispatch(s, kind, slot, at)
<1>0. s \in States
  BY DEF Sound
<1>1. failing \in Sound(start) /\ failing.down = s.down
  <2>1. failing \in States
    BY <1>0 DEF States
  <2>2. failing.down = s.down /\ failing.activated = s.activated /\ failing.pending = s.pending
        /\ failing.incidentAt = s.incidentAt /\ failing.initialized = s.initialized
    BY <1>0 DEF States
  <2>3. failing.lastSuccessAt = s.lastSuccessAt /\ failing.lastExecutionAt = s.lastExecutionAt
        /\ failing.seen = s.seen /\ failing.executionFailures = s.executionFailures
        /\ failing.deadlineAt = s.deadlineAt /\ s.deadlineAt <= s.deadlineAt
    BY <1>0 DEF States
  <2> HIDE DEF failing
  <2>4. Told(failing) /\ failing.initialized
    BY <2>2 DEF Told, Sound
  <2> QED BY <2>1, <2>2, <2>3, <2>4, SoundIfAlike
<1> HIDE DEF failing
<1>2. r = s \/ r = failing \/ r = MarkDown(failing, at) \/ r = NoDispatchFailure(s) \/ r = MarkDown(s, at)
  BY DEF ApplyDispatch, Kinds, failing
<1> HIDE DEF r
<1>3. MarkDown(failing, at) \in Sound(start) /\ MarkDown(failing, at).down
  BY <1>1, MarkDownSound
<1>4. MarkDown(s, at) \in Sound(start) /\ MarkDown(s, at).down
  BY MarkDownSound
<1>5. NoDispatchFailure(s) \in Sound(start) /\ NoDispatchFailure(s).down = s.down
  BY NoDispatchFailureSound
<1>6. r \in Sound(start) /\ (s.down => r.down)
  BY <1>1, <1>2, <1>3, <1>4, <1>5
<1> QED BY <1>6 DEF r

LEMMA EvaluateDeadlineSound ==
  ASSUME NEW start \in Nat, NEW s \in Sound(start), NEW at \in Nat
  PROVE  /\ EvaluateDeadline(s, at) \in Sound(start)
         /\ s.down => EvaluateDeadline(s, at).down
         /\ EvaluateDeadline(s, at).down \/ at < EvaluateDeadline(s, at).deadlineAt
<1>1. MarkDown(s, at) \in Sound(start) /\ MarkDown(s, at).down
  BY MarkDownSound
<1>2. s.deadlineAt \in Nat
  BY DEF Sound, States
<1> QED BY <1>1, <1>2 DEF EvaluateDeadline

LEMMA MarkHistoryGapSound ==
  ASSUME NEW start \in Nat, NEW s \in Sound(start), NEW at \in Nat
  PROVE  /\ MarkHistoryGap(s, at) \in Sound(start) /\ MarkHistoryGap(s, at).down
         /\ s.down => MarkHistoryGap(s, at) = s
<1> DEFINE m == MarkDown(s, at)
           t == [m EXCEPT !.incidentAt = s.lastExecutionAt]
<1>1. m \in Sound(start) /\ m.down
  BY MarkDownSound
<1>2. s.lastExecutionAt \in Nat /\ m \in States
  BY <1>1 DEF Sound, States
<1> HIDE DEF m
<1>3. t \in States /\ t.down = m.down /\ t.incidentAt = s.lastExecutionAt /\ t.pending = m.pending
      /\ t.activated = m.activated /\ t.initialized = m.initialized
  BY <1>2 DEF States
<1>4. t.lastSuccessAt = m.lastSuccessAt /\ t.lastExecutionAt = m.lastExecutionAt
      /\ t.seen = m.seen /\ t.executionFailures = m.executionFailures /\ t.deadlineAt = m.deadlineAt
  BY <1>2 DEF States
<1>5. MarkHistoryGap(s, at) = IF s.down THEN s ELSE t
  BY DEF MarkHistoryGap, m
<1> HIDE DEF t
<1>6. Told(t) /\ t.initialized
  BY <1>1, <1>2, <1>3, NoneIsNoNumber DEF Told, Sound
<1>7. Counted(t) /\ Dated(t, start)
  BY <1>1, <1>4 DEF Counted, Dated, Sound
<1>8. t \in Sound(start)
  BY <1>3, <1>6, <1>7 DEF Sound
<1> QED BY <1>1, <1>3, <1>5, <1>8

(* The state of the first tick. *)
LEMMA TakeOverSound ==
  ASSUME LogOK, NEW at \in Nat, external = "new",
         \A n \in 1..Len(log) : log[n].kind = "run"
  PROVE  TakeOver(InitialState(at)) \in Sound(at)
<1> DEFINE s == InitialState(at)
           t == [s EXCEPT !.activated = FALSE, !.initialized = TRUE]
<1>1. First \in Nat \ {0}
  BY FirstIsPositive DEF LogOK
<1>2. \A n \in First..Len(log) : n \in 1..Len(log)
  BY <1>1 DEF LogOK
<1>3. Successes = {}
  BY <1>2 DEF Successes
<1>4. (\E n \in First..Len(log) : log[n].kind # "run") = FALSE
  BY <1>2
<1>5. TakeOver(s) = t
  BY <1>3, <1>4 DEF TakeOver
<1>6. NextDeadline(at) \in Nat
  BY NextDeadlineType
<1>7. s \in States
  BY <1>6 DEF InitialState, States, NoPending
<1>8. t \in States
  BY <1>7 DEF States
<1>9. ~t.down /\ t.incidentAt = None /\ t.pending = "none" /\ t.initialized
      /\ t.lastSuccessAt = 0 /\ t.lastExecutionAt = 0 /\ t.executionFailures = 0 /\ t.seen = {}
      /\ t.deadlineAt = NextDeadline(at)
  BY DEF InitialState, NoPending
<1> HIDE DEF t, s
<1>10. Told(t)
  BY <1>9 DEF Told
<1>11. Counted(t)
  <2>1. t.seen \cap Failing(0) \in SUBSET Slots
    BY DEF Failing
  <2> QED BY <1>9, <2>1, SlotsAreFinite DEF Counted
<1>12. Dated(t, at)
  BY <1>6, <1>9 DEF Dated, Life
<1> QED BY <1>5, <1>8, <1>9, <1>10, <1>11, <1>12 DEF Sound, s

(* Resuming keeps the incident that is known, and does not go back.  *)
LEMMA ResumeSound ==
  ASSUME LogOK, NEW start \in Nat, NEW s \in Sound(start), NEW at \in Nat
  PROVE  /\ Resume(s, at) \in Sound(start)
         /\ s.cursor <= Resume(s, at).cursor
         /\ s.down => Resume(s, at).down /\ Resume(s, at).incidentAt = s.incidentAt
         /\ First > s.cursor + 1 => Resume(s, at).down
<1> DEFINE m == MarkHistoryGap(s, at)
           t == [m EXCEPT !.cursor = First - 1]
<1>1. m \in Sound(start) /\ m.down /\ (s.down => m = s)
  BY MarkHistoryGapSound
<1>2. First \in Nat \ {0} /\ s \in States /\ s.cursor \in Nat /\ s.initialized
      /\ log \in Seq(Entries) /\ m \in States /\ First - 1 \in Nat
  BY <1>1, FirstIsPositive DEF LogOK, Sound, States
<1>3. Resume(s, at) = IF First > s.cursor + 1 THEN t ELSE s
  BY <1>2 DEF Resume
<1> HIDE DEF m
<1>4. t \in States /\ t.down = m.down /\ t.incidentAt = m.incidentAt /\ t.pending = m.pending
      /\ t.activated = m.activated /\ t.initialized = m.initialized /\ t.cursor = First - 1
  BY <1>2 DEF States
<1>5. t.lastSuccessAt = m.lastSuccessAt /\ t.lastExecutionAt = m.lastExecutionAt
      /\ t.seen = m.seen /\ t.executionFailures = m.executionFailures
      /\ t.deadlineAt = m.deadlineAt
  BY <1>2 DEF States
<1> HIDE DEF t
<1>6. Told(t) /\ t.initialized
  BY <1>1, <1>4 DEF Told, Sound
<1>7. Counted(t) /\ Dated(t, start)
  BY <1>1, <1>5 DEF Counted, Dated, Sound
<1>8. t \in Sound(start)
  BY <1>4, <1>6, <1>7 DEF Sound
<1>9. CASE First > s.cursor + 1
  <2>1. Resume(s, at) = t /\ s.cursor <= t.cursor
    BY <1>2, <1>3, <1>4, <1>9
  <2> QED BY <1>1, <1>4, <1>8, <2>1
<1>10. CASE ~(First > s.cursor + 1)
  <2>1. Resume(s, at) = s /\ s.cursor <= s.cursor
    BY <1>2, <1>3, <1>10
  <2> QED BY <1>10, <2>1
<1> QED BY <1>9, <1>10


LostEntries == monitor # None /\ First > monitor.cursor + 1

(* What a tick decides is sound; it ends an incident only for a success    *)
(* that it read, and raises one when entries are lost.                     *)
LEMMA DecideSound ==
  ASSUME LogOK, FreshOK, StoredOK, NEW at \in Nat, NEW kind \in Kinds,
         NEW slot \in Slots \cup {None}, kind \in {"failed", "refused"} => slot \in Slots
  PROVE  LET d == Decide(at, kind, slot)
         IN  /\ d \in Ticks /\ d.step = "put" /\ d.now = at
             /\ d.kind = kind /\ d.slot = slot
             /\ d.state \in Sound(IF history.started = None THEN at ELSE history.started)
             /\ d.caughtUp => d.state.down \/ at < d.state.deadlineAt
             /\ monitor # None /\ monitor.down => d.state.down \/ Recovery(monitor)
             /\ LostEntries => \/ d.state.down
                               \/ \E n \in First..Len(log) : log[n].outcome = "success"
<1> DEFINE start == IF history.started = None THEN at ELSE history.started
           previous == IF monitor = None THEN InitialState(at) ELSE monitor
           resumed == Resume(previous, at)
           last == LastSelected(resumed.cursor)
           read == ReadUpTo(resumed, last)
           expected == IF slot = None THEN read ELSE ObserveExpectedSlot(read, slot)
           dispatched == ApplyDispatch(expected, kind, slot, at)
           caughtUp == last = Len(log)
           final == IF caughtUp THEN EvaluateDeadline(dispatched, at) ELSE dispatched
           d == Decide(at, kind, slot)
<1>0. log \in Seq(Entries) /\ Len(log) \in Nat
  BY DEF LogOK
<1>1. d = [step |-> "put", now |-> at, kind |-> kind, slot |-> slot, caughtUp |-> caughtUp,
           state |-> final]
  BY DEF Decide
<1>2. start \in Nat /\ (monitor # None => start = history.started)
  BY NoneIsNoNumber DEF StoredOK, FreshOK
<1>3. /\ resumed \in Sound(start)
      /\ monitor # None => monitor.cursor <= resumed.cursor /\ monitor.cursor \in Nat
      /\ monitor # None /\ monitor.down => resumed.down /\ resumed.incidentAt = monitor.incidentAt
      /\ LostEntries => resumed.down
  <2>1. CASE monitor = None
    <3>1. resumed = TakeOver(InitialState(at))
      BY <2>1 DEF Resume, InitialState
    <3>2. start = at
      BY <2>1 DEF FreshOK
    <3>3. TakeOver(InitialState(at)) \in Sound(at)
      BY <2>1, TakeOverSound DEF FreshOK
    <3> QED BY <2>1, <3>1, <3>2, <3>3 DEF LostEntries
  <2>2. CASE monitor # None
    <3>1. monitor \in Sound(start) /\ previous = monitor
      BY <1>2, <2>2 DEF StoredOK
    <3>2. monitor.cursor \in Nat
      BY <3>1 DEF Sound, States
    <3>3. /\ Resume(monitor, at) \in Sound(start)
          /\ monitor.cursor <= Resume(monitor, at).cursor
          /\ monitor.down => Resume(monitor, at).down
                               /\ Resume(monitor, at).incidentAt = monitor.incidentAt
          /\ First > monitor.cursor + 1 => Resume(monitor, at).down
      BY <1>2, <3>1, ResumeSound
    <3> QED BY <2>2, <3>1, <3>2, <3>3 DEF LostEntries
  <2> QED BY <2>1, <2>2
<1>4. resumed \in States /\ resumed.cursor \in Nat
  BY <1>3 DEF Sound, States
<1> HIDE DEF start, resumed
<1>5. /\ last \in Nat
      /\ \A n \in FirstUnread(resumed.cursor)..last :
           n \in First..Len(log) /\ n \in (resumed.cursor + 1)..Len(log) /\ n \in 1..Len(log)
  <2>1. /\ last \in Nat
        /\ \A n \in FirstUnread(resumed.cursor)..last :
             n \in First..Len(log) /\ n \in (resumed.cursor + 1)..Len(log)
    BY <1>0, <1>4, SelectedAreUnread
  <2>2. \A n \in (resumed.cursor + 1)..Len(log) : n \in 1..Len(log)
    BY <1>0, <1>4
  <2> HIDE DEF last
  <2> QED BY <2>1, <2>2
<1> HIDE DEF last
<1>6. read \in Sound(start)
  <2>1. \A n \in FirstUnread(resumed.cursor)..last : \A s \in Sound(start) : Read(s, n) \in Sound(start)
    BY <1>2, <1>5, ReadSound
  <2> DEFINE P == Sound(start)
  <2>2. resumed \in P
    BY <1>3
  <2> HIDE DEF P
  <2> QED BY <1>0, <1>4, <1>5, <2>1, <2>2, ReadingKeeps DEF P
<1>7. ASSUME monitor # None, monitor.down, ~Recovery(monitor) PROVE read.down
  <2> DEFINE P == {s \in Sound(start) : s.down /\ s.incidentAt = monitor.incidentAt}
  <2>1. resumed \in P
    BY <1>3, <1>7
  <2>2. ASSUME NEW n \in FirstUnread(resumed.cursor)..last, NEW s \in P
        PROVE  Read(s, n) \in P
    <3>1. n \in (monitor.cursor + 1)..Len(log)
      BY <1>0, <1>3, <1>4, <1>5, <1>7
    <3>2. ~(log[n].outcome = "success" /\ log[n].at >= monitor.incidentAt)
      BY <1>7, <3>1 DEF Recovery
    <3>3. /\ Read(s, n) \in Sound(start)
          /\ \/ ~s.down
             \/ log[n].outcome = "success" /\ log[n].at >= s.incidentAt
             \/ Read(s, n).down /\ Read(s, n).incidentAt = s.incidentAt
      BY <1>2, <1>5, ReadSound
    <3> QED BY <3>2, <3>3
  <2>3. read \in P
    <3> HIDE DEF P
    <3> QED BY <1>0, <1>4, <1>5, <2>1, <2>2, ReadingKeeps
  <2> QED BY <2>3
<1>8. ASSUME LostEntries, ~(\E n \in First..Len(log) : log[n].outcome = "success") PROVE read.down
  <2> DEFINE P == {s \in Sound(start) : s.down}
  <2>1. resumed \in P
    BY <1>3, <1>8
  <2>2. ASSUME NEW n \in FirstUnread(resumed.cursor)..last, NEW s \in P
        PROVE  Read(s, n) \in P
    <3>1. /\ Read(s, n) \in Sound(start)
          /\ \/ ~s.down
             \/ log[n].outcome = "success" /\ log[n].at >= s.incidentAt
             \/ Read(s, n).down /\ Read(s, n).incidentAt = s.incidentAt
      BY <1>2, <1>5, ReadSound
    <3>2. log[n].outcome # "success"
      BY <1>5, <1>8
    <3> QED BY <3>1, <3>2
  <2>3. read \in P
    <3> HIDE DEF P
    <3> QED BY <1>0, <1>4, <1>5, <2>1, <2>2, ReadingKeeps
  <2> QED BY <2>3
<1> HIDE DEF read
<1>9. expected \in Sound(start) /\ (read.down => expected.down)
  <2>1. CASE slot = None
    BY <1>6, <2>1
  <2>2. CASE slot # None
    <3>1. slot \in Slots
      BY <2>2
    <3>2. ObserveExpectedSlot(read, slot) \in Sound(start)
          /\ ObserveExpectedSlot(read, slot).down = read.down
      BY <1>0, <1>2, <1>6, <3>1, ObserveExpectedSlotSound
    <3> QED BY <2>2, <3>2
  <2> QED BY <2>1, <2>2
<1> HIDE DEF expected
<1>10. dispatched \in Sound(start) /\ (expected.down => dispatched.down)
  BY <1>0, <1>2, <1>9, ApplyDispatchSound
<1> HIDE DEF dispatched
<1>11. /\ final \in Sound(start) /\ (dispatched.down => final.down)
       /\ caughtUp => final.down \/ at < final.deadlineAt
  <2>1. /\ EvaluateDeadline(dispatched, at) \in Sound(start)
        /\ dispatched.down => EvaluateDeadline(dispatched, at).down
        /\ EvaluateDeadline(dispatched, at).down \/ at < EvaluateDeadline(dispatched, at).deadlineAt
    BY <1>2, <1>10, EvaluateDeadlineSound
  <2> HIDE DEF caughtUp
  <2> QED BY <1>10, <2>1
<1> HIDE DEF final
<1>12. final \in States /\ caughtUp \in BOOLEAN
  BY <1>11 DEF Sound
<1> HIDE DEF caughtUp
<1>13. d \in Ticks /\ d.step = "put" /\ d.now = at /\ d.kind = kind /\ d.slot = slot
       /\ d.state = final /\ d.caughtUp = caughtUp
  BY <1>1, <1>12 DEF Ticks
<1>14. read.down => final.down
  BY <1>9, <1>10, <1>11
<1> HIDE DEF d
<1>15. d.state \in Sound(start) /\ (d.caughtUp => d.state.down \/ at < d.state.deadlineAt)
  BY <1>11, <1>13
<1>16. /\ monitor # None /\ monitor.down => d.state.down \/ Recovery(monitor)
       /\ LostEntries => d.state.down \/ \E n \in First..Len(log) : log[n].outcome = "success"
  BY <1>7, <1>8, <1>13, <1>14
<1> QED BY <1>13, <1>15, <1>16 DEF d, start


---------------------------------------------------------------------------
(* The steps *)

RunsKept ==
  \A s \in Slots :
    runs[s].state = "done" =>
      /\ runs'[s].state = "done" /\ runs'[s].at = runs[s].at /\ runs'[s].outcome = runs[s].outcome
      /\ (runs[s].logged > 0 => runs'[s].logged > 0)

LogKept ==
  \/ log' = log
  \/ \E entry \in Entries : log' = Append(log, entry) /\ Recorded(entry)'

(* The inbox only grows, and what it says of the runs stays true. *)
LEMMA LogStays ==
  ASSUME LogOK, RunsKept, LogKept
  PROVE  /\ LogOK'
         /\ Len(log) <= Len(log') /\ Len(log) \in Nat /\ Len(log') \in Nat
         /\ \A n \in 1..Len(log) : log'[n] = log[n]
         /\ \A since \in Nat : Failing(since) \subseteq Failing(since)'
<1>1. ASSUME NEW n \in 1..Len(log) PROVE log[n] \in Entries /\ Recorded(log[n])
  BY DEF LogOK
<1>2. \A entry \in Entries : Recorded(entry) => Recorded(entry)'
  BY DEF RunsKept, Recorded, Entries
<1>3. \A since \in Nat : Failing(since) \subseteq Failing(since)'
  BY DEF RunsKept, Failing
<1>4. log \in Seq(Entries) /\ Len(log) \in Nat
  BY DEF LogOK
<1>5. CASE log' = log
  <2>1. (\A n \in 1..Len(log) : Recorded(log[n]))'
    BY <1>1, <1>2, <1>5
  <2> QED BY <1>3, <1>4, <1>5, <2>1 DEF LogOK
<1>6. CASE \E entry \in Entries : log' = Append(log, entry) /\ Recorded(entry)'
  <2>1. PICK entry \in Entries : log' = Append(log, entry) /\ Recorded(entry)'
    BY <1>6
  <2>2. log' \in Seq(Entries) /\ Len(log') = Len(log) + 1 /\ log'[Len(log) + 1] = entry
        /\ \A n \in 1..Len(log) : log'[n] = log[n]
    BY <1>4, <2>1
  <2>3. ASSUME NEW n \in 1..Len(log') PROVE Recorded(log[n])'
    <3>1. n \in 1..Len(log) \/ n = Len(log) + 1
      BY <1>4, <2>2
    <3> QED BY <1>1, <1>2, <2>1, <2>2, <3>1
  <2> QED BY <1>3, <1>4, <2>2, <2>3 DEF LogOK
<1> QED BY <1>5, <1>6 DEF LogKept

(* Nothing the runs or the inbox do makes a state unsound. *)
LEMMA StaysSound ==
  ASSUME NEW start, NEW s \in Sound(start), Told(s)', LogOK, RunsKept, LogKept
  PROVE  s \in Sound(start)'
<1>0. s \in States
  BY DEF Sound
<1>1. /\ Len(log) <= Len(log') /\ Len(log) \in Nat /\ Len(log') \in Nat
      /\ \A n \in 1..Len(log) : log'[n] = log[n]
      /\ \A since \in Nat : Failing(since) \subseteq Failing(since)'
  BY LogStays
<1>2. Counted(s)'
  <2> DEFINE S == s.seen \cap Failing(s.lastSuccessAt)
             T == s.seen \cap Failing(s.lastSuccessAt)'
  <2>1. S \subseteq T /\ T \in SUBSET Slots /\ S \in SUBSET Slots
    BY <1>0, <1>1 DEF States
  <2>2. IsFiniteSet(T) /\ Cardinality(T) \in Nat /\ Cardinality(S) \in Nat
    BY <2>1, SlotsAreFinite
  <2>3. Cardinality(S) <= Cardinality(T)
    <3> HIDE DEF S, T
    <3> QED BY <2>1, <2>2, FS_Subset
  <2>4. s.lastSuccessAt <= s.lastExecutionAt /\ s.executionFailures <= Cardinality(S)
        /\ s.executionFailures \in Nat
    BY <1>0 DEF Sound, Counted, States
  <2>5. s.executionFailures <= Cardinality(T)
    <3> HIDE DEF S, T
    <3> QED BY <2>2, <2>3, <2>4
  <2> QED BY <2>4, <2>5 DEF Counted
<1>3. Dated(s, start)'
  <2>1. PICK at \in Life(start) : s.deadlineAt <= NextDeadline(at)
    BY DEF Sound, Dated
  <2>2. at \in Life(start)'
    <3>1. CASE at = start
      BY <3>1 DEF Life
    <3>2. CASE at # start
      <4>1. PICK n \in 1..Len(log) : log[n].outcome = "success" /\ at = log[n].at
        BY <2>1, <3>2 DEF Life
      <4>2. n \in 1..Len(log') /\ log'[n] = log[n]
        BY <1>1
      <4> QED BY <4>1, <4>2 DEF Life
    <3> QED BY <3>1, <3>2
  <2> QED BY <2>1, <2>2 DEF Dated
<1> QED BY <1>0, <1>2, <1>3 DEF Sound

LEMMA ToldStays ==
  ASSUME NEW start, NEW s \in Sound(start), external' = external
  PROVE  Told(s)'
BY DEF Sound, Told

LEMMA RecoveryStays ==
  ASSUME LogOK, RunsKept, LogKept, NEW s \in States, Recovery(s)
  PROVE  Recovery(s)'
<1>1. /\ Len(log) <= Len(log') /\ Len(log) \in Nat /\ Len(log') \in Nat
      /\ \A n \in 1..Len(log) : log'[n] = log[n]
  BY LogStays
<1>2. PICK n \in (s.cursor + 1)..Len(log) :
        log[n].outcome = "success" /\ log[n].at >= s.incidentAt
  BY DEF Recovery
<1>3. s.cursor \in Nat
  BY DEF States
<1>4. n \in 1..Len(log) /\ n \in (s.cursor + 1)..Len(log')
  BY <1>1, <1>2, <1>3
<1> QED BY <1>1, <1>2, <1>4 DEF Recovery

(* Runs and the inbox may go on while nobody decides or is told anything.  *)
LEMMA OthersStay ==
  ASSUME MonitorInv, RunsKept, LogKept, monitor' = monitor, history' = history,
         external' = external,
         tick' = tick \/ tick' = Idle,
         monitor = None => \A n \in 1..Len(log') : log'[n].kind = "run"
  PROVE  /\ LogOK' /\ FreshOK' /\ StoredOK' /\ PutOK' /\ SendOK'
         /\ tick' = Idle \/ tick' \in Ticks
<1> USE DEF MonitorInv
<1>1. LogOK'
  BY LogStays
<1>2. Idle.step = "idle"
  BY DEF Idle
<1>3. FreshOK'
  BY <1>2 DEF FreshOK
<1>4. StoredOK'
  <2> SUFFICES ASSUME monitor # None PROVE monitor' \in Sound(history.started)'
    BY DEF StoredOK
  <2>1. monitor \in Sound(history.started)
    BY DEF StoredOK
  <2>2. Told(monitor)'
    BY <2>1, ToldStays
  <2> QED BY <2>1, <2>2, StaysSound
<1>5. PutOK'
  <2> SUFFICES ASSUME tick'.step = "put" PROVE PutOK'
    BY DEF PutOK
  <2>1. tick' = tick /\ tick.step = "put"
    BY <1>2
  <2>2. tick.state \in Sound(Started) /\ Started' = Started
    BY <2>1 DEF PutOK, Started
  <2>3. Told(tick.state)'
    BY <2>1, <2>2, ToldStays
  <2>4. tick'.state \in Sound(Started)'
    BY <2>1, <2>2, <2>3, StaysSound
  <2>5. tick'.caughtUp => tick'.state.down \/ tick'.now < tick'.state.deadlineAt
    BY <2>1 DEF PutOK
  <2>6. monitor' # None /\ monitor'.down => tick'.state.down \/ Recovery(monitor)'
    <3> SUFFICES ASSUME monitor # None, monitor.down, ~tick.state.down PROVE Recovery(monitor)'
      BY <2>1
    <3>1. Recovery(monitor) /\ monitor \in States
      BY <2>1 DEF PutOK, StoredOK, Sound
    <3> QED BY <3>1, RecoveryStays
  <2> QED BY <2>4, <2>5, <2>6 DEF PutOK
<1>6. SendOK'
  BY <1>2 DEF SendOK, Shown
<1> QED BY <1>1, <1>3, <1>4, <1>5, <1>6


LEMMA ConstantTypes ==
  /\ Period \in Nat \ {0} /\ MaxTime \in Nat /\ Period <= MaxTime /\ MaxFaults \in Nat
  /\ Idle.step = "idle" /\ Idle \notin Ticks
BY MonitorAssumption DEF Idle, Ticks

(* What the types say that the steps need. *)
LEMMA TypeFacts ==
  ASSUME TypeOK
  PROVE  /\ now \in Nat /\ now \in Period..MaxTime /\ claimed \in 0..now
         /\ faults \in 0..MaxFaults /\ external \in {"new", "up", "down"}
         /\ \A s \in Slots :
              /\ runs[s].state \in {"none", "running", "done"} /\ runs[s].at \in Nat
              /\ runs[s].outcome \in RunOutcomes /\ runs[s].logged \in 0..2
BY ConstantTypes DEF TypeOK

(* Typing follows from the parts. *)
LEMMA TypedAgain ==
  ASSUME now' \in Period..MaxTime, claimed' \in 0..now',
         runs' \in [Slots -> [state : {"none", "running", "done"}, at : Nat,
                              outcome : RunOutcomes, logged : 0..2]],
         LogOK', StoredOK', tick' = Idle \/ tick' \in Ticks,
         external' \in {"new", "up", "down"}, faults' \in 0..MaxFaults
  PROVE  TypeOK'
<1>1. \A n \in 1..Len(log') : log'[n].kind \in {"run", "start", "success", "fail"}
  <2> SUFFICES ASSUME NEW n \in 1..Len(log')
               PROVE  log'[n].kind \in {"run", "start", "success", "fail"}
    OBVIOUS
  <2>1. log'[n] \in Entries
    BY DEF LogOK
  <2> QED BY <2>1 DEF Entries
<1>2. monitor' # None => monitor' \in States /\ (monitor'.down <=> monitor'.incidentAt # None)
  BY DEF StoredOK, Sound, Told
<1>3. tick' # Idle => tick'.step \in {"put", "ping", "clear"} /\ tick'.state \in States
  BY DEF Ticks
<1> QED BY <1>1, <1>2, <1>3 DEF TypeOK

LEMMA InitInv ==
  Init => MonitorInv
<1> SUFFICES ASSUME Init PROVE MonitorInv
  OBVIOUS
<1>1. LogOK
  BY DEF Init, LogOK
<1>2. StoredOK /\ FreshOK /\ PutOK /\ SendOK /\ tick = Idle
  BY ConstantTypes DEF Init, StoredOK, FreshOK, PutOK, SendOK
<1>3. runs \in [Slots -> [state : {"none", "running", "done"}, at : Nat,
                          outcome : RunOutcomes, logged : 0..2]]
  BY DEF Init, NotRun, RunOutcomes
<1>4. now \in Period..MaxTime /\ claimed \in 0..now /\ faults \in 0..MaxFaults
  BY ConstantTypes DEF Init
<1>5. external \in {"new", "up", "down"}
  BY DEF Init
<1>6. TypeOK
  BY <1>2, <1>3, <1>4, <1>5 DEF TypeOK, Init
<1> QED BY <1>1, <1>2, <1>6 DEF MonitorInv

(* The slot that is due is one of the task's slots. *)
LEMMA DueSlotType ==
  ASSUME now \in Period..MaxTime
  PROVE  DueSlot \in Slots \cup {None}
<1> DEFINE slot == (now \div Period) * Period
<1>1. Period \in Nat \ {0} /\ now \in Nat /\ Period <= now /\ now <= MaxTime
  BY ConstantTypes
<1>2. now \div Period \in Nat /\ now \div Period >= 1
  BY <1>1
<1>3. slot <= now /\ slot \in Nat /\ slot >= 1 /\ slot % Period = 0
  <2>1. slot % Period = 0 /\ slot \in Nat
    BY <1>1, <1>2
  <2>2. now = slot + (now % Period) /\ now % Period \in Nat
    BY <1>1
  <2>3. slot >= Period
    BY <1>1, <1>2
  <2> QED BY <1>1, <2>1, <2>2, <2>3
<1>4. slot \in Slots
  BY <1>1, <1>3, ConstantTypes DEF Slots
<1> QED BY <1>4 DEF DueSlot

(* A tick decides soundly whatever happens to its dispatch. *)
LEMMA BeginInv ==
  ASSUME MonitorInv, Begin
  PROVE  MonitorInv'
<1> USE DEF MonitorInv
<1>0. /\ now \in Nat /\ now \in Period..MaxTime /\ claimed \in 0..now
      /\ faults \in 0..MaxFaults /\ external \in {"new", "up", "down"}
      /\ \A s \in Slots :
           /\ runs[s].state \in {"none", "running", "done"} /\ runs[s].at \in Nat
           /\ runs[s].outcome \in RunOutcomes /\ runs[s].logged \in 0..2
  BY TypeFacts
<1>1. /\ now' = now /\ log' = log /\ monitor' = monitor /\ external' = external
      /\ history' = history /\ claimed' = now /\ tick.step = "idle"
  BY DEF Begin
<1>2. PICK kind \in Kinds, slot \in Slots \cup {None} :
        (kind \in {"failed", "refused"} => slot \in Slots) /\ tick' = Decide(now, kind, slot)
  BY <1>0, DueSlotType DEF Begin, Kinds
<1>3. RunsKept /\ LogKept
  <2>1. \A s \in Slots : runs[s].state # "none" => runs'[s] = runs[s]
    <3>1. runs' = runs \/ \E s \in Slots : /\ runs[s].state = "none"
                                         /\ runs' = [runs EXCEPT ![s].state = "running"]
      BY <1>0, DueSlotType DEF Begin
    <3> QED BY <3>1 DEF TypeOK
  <2> QED BY <1>1, <2>1 DEF RunsKept, LogKept
<1>4. runs' \in [Slots -> [state : {"none", "running", "done"}, at : Nat,
                           outcome : RunOutcomes, logged : 0..2]]
  BY <1>0, DueSlotType DEF Begin, TypeOK
<1>5. faults' \in 0..MaxFaults
  BY <1>0, ConstantTypes DEF Begin
<1>d. PICK d : d = Decide(now, kind, slot)
  OBVIOUS
<1>6. /\ d \in Ticks /\ d.step = "put" /\ d.now = now
      /\ d.state \in Sound(IF history.started = None THEN now ELSE history.started)
      /\ d.caughtUp => d.state.down \/ now < d.state.deadlineAt
      /\ monitor # None /\ monitor.down => d.state.down \/ Recovery(monitor)
  BY <1>0, <1>2, <1>d, DecideSound
<1>7. tick' = d
  BY <1>2, <1>d
<1>8. LogOK'
  BY <1>3, LogStays
<1>9. FreshOK'
  BY <1>1, <1>6, <1>7 DEF FreshOK
<1>10. StoredOK'
  <2> SUFFICES ASSUME monitor # None PROVE monitor' \in Sound(history.started)'
    BY <1>1 DEF StoredOK
  <2>1. monitor \in Sound(history.started)
    BY DEF StoredOK
  <2>2. Told(monitor)'
    BY <1>1, <2>1, ToldStays
  <2> QED BY <1>1, <1>3, <2>1, <2>2, StaysSound
<1>11. PutOK'
  <2>0. PICK start : start = IF history.started = None THEN now ELSE history.started
    OBVIOUS
  <2>1. Started' = start
    BY <1>1, <1>6, <1>7, <2>0 DEF Started
  <2>2. d.state \in Sound(start)
    BY <1>6, <2>0
  <2>3. Told(d.state)'
    BY <1>1, <1>7, <2>2, ToldStays
  <2>4. tick'.state \in Sound(Started)'
    BY <1>3, <1>7, <2>1, <2>2, <2>3, StaysSound DEF MonitorInv
  <2>5. tick'.caughtUp => tick'.state.down \/ tick'.now < tick'.state.deadlineAt
    BY <1>6, <1>7
  <2>6. monitor' # None /\ monitor'.down => tick'.state.down \/ Recovery(monitor)'
    <3> SUFFICES ASSUME monitor # None, monitor.down, ~d.state.down PROVE Recovery(monitor)'
      BY <1>1, <1>7
    <3>1. Recovery(monitor) /\ monitor \in States
      BY <1>6 DEF StoredOK, Sound
    <3> QED BY <1>1, <1>3, <3>1, RecoveryStays
  <2> QED BY <2>4, <2>5, <2>6 DEF PutOK
<1>12. SendOK'
  BY <1>6, <1>7 DEF SendOK
<1>13. claimed' \in 0..now' /\ now' \in Period..MaxTime
  BY <1>0, <1>1
<1>14. TypeOK'
  BY <1>0, <1>1, <1>4, <1>5, <1>6, <1>7, <1>8, <1>10, <1>13, TypedAgain
<1> QED BY <1>6, <1>7, <1>8, <1>9, <1>10, <1>11, <1>12, <1>14


(* The steps that decide and tell nothing leave the runs, the inbox or the *)
(* tick behind as they were.                                               *)
LEMMA PassiveInv ==
  ASSUME MonitorInv, RunsKept, LogKept, monitor' = monitor, history' = history,
         external' = external, tick' = tick \/ tick' = Idle,
         monitor = None => \A n \in 1..Len(log') : log'[n].kind = "run",
         now' \in Period..MaxTime, claimed' \in 0..now', faults' \in 0..MaxFaults,
         runs' \in [Slots -> [state : {"none", "running", "done"}, at : Nat,
                              outcome : RunOutcomes, logged : 0..2]]
  PROVE  MonitorInv'
<1>1. /\ LogOK' /\ FreshOK' /\ StoredOK' /\ PutOK' /\ SendOK'
      /\ tick' = Idle \/ tick' \in Ticks
  BY OthersStay
<1>2. external' \in {"new", "up", "down"}
  BY DEF MonitorInv, TypeOK
<1>3. TypeOK'
  BY <1>1, <1>2, TypedAgain
<1> QED BY <1>1, <1>3 DEF MonitorInv

LEMMA PutInv ==
  ASSUME MonitorInv, Put
  PROVE  MonitorInv'
<1> USE DEF MonitorInv
<1>1. /\ tick.step = "put" /\ monitor' = tick.state
      /\ tick' = IF tick.caughtUp /\ tick.state.pending # "none"
                 THEN [tick EXCEPT !.step = "ping"] ELSE Idle
      /\ history' = Known(tick.kind, tick.slot, tick.now)
      /\ UNCHANGED <<now, claimed, runs, log, external, faults>>
  BY DEF Put, NoPending
<1>2. tick \in Ticks
  BY <1>1, ConstantTypes
<1>3. PICK start : start = Started
  OBVIOUS
<1>4. history'.started = start
  BY <1>1, <1>3 DEF Known, Started
<1>5. PICK state : state = tick.state
  OBVIOUS
<1>6. state \in Sound(start) /\ state \in States
  BY <1>1, <1>3, <1>5 DEF PutOK, Sound
<1>7. RunsKept /\ LogKept
  BY <1>1 DEF RunsKept, LogKept
<1>8. Told(state)'
  BY <1>1, <1>6, ToldStays
<1>9. state \in Sound(start)'
  BY <1>6, <1>7, <1>8, StaysSound
<1>10. start \in Nat
  BY <1>2, <1>3, NoneIsNoNumber DEF Ticks, Started, StoredOK, FreshOK
<1>11. monitor' # None
  BY <1>1, <1>5, <1>6, NoneAssumption
<1>12. LogOK'
  BY <1>7, LogStays
<1>13. FreshOK' /\ StoredOK'
  BY <1>1, <1>4, <1>5, <1>9, <1>10, <1>11 DEF FreshOK, StoredOK
<1>14. /\ tick' = Idle \/ tick' \in Ticks
       /\ tick' # Idle => tick'.step = "ping" /\ tick'.state = state /\ state.pending # "none"
  <2>1. CASE tick.caughtUp /\ tick.state.pending # "none"
    <3>1. tick' = [tick EXCEPT !.step = "ping"]
      BY <1>1, <2>1
    <3>2. tick' \in Ticks /\ tick'.step = "ping" /\ tick'.state = tick.state
      BY <1>2, <3>1 DEF Ticks
    <3> QED BY <1>5, <2>1, <3>2
  <2>2. CASE ~(tick.caughtUp /\ tick.state.pending # "none")
    BY <1>1, <2>2
  <2> QED BY <2>1, <2>2
<1>15. PutOK' /\ SendOK'
  BY <1>1, <1>5, <1>14, ConstantTypes DEF PutOK, SendOK
<1>16. TypeOK'
  <2>1. /\ now' \in Period..MaxTime /\ claimed' \in 0..now' /\ external' \in {"new", "up", "down"}
        /\ faults' \in 0..MaxFaults
        /\ runs' \in [Slots -> [state : {"none", "running", "done"}, at : Nat,
                                outcome : RunOutcomes, logged : 0..2]]
    BY <1>1 DEF TypeOK
  <2> QED BY <2>1, <1>12, <1>13, <1>14, TypedAgain
<1> QED BY <1>12, <1>13, <1>14, <1>15, <1>16

(* A ping shows what the stored state means to send. *)
LEMMA PingInv ==
  ASSUME MonitorInv, Ping
  PROVE  MonitorInv'
<1> USE DEF MonitorInv
<1>1. /\ tick.step = "ping" /\ UNCHANGED <<now, claimed, runs, monitor, history>>
      /\ monitor = tick.state /\ tick.state.pending # "none"
  BY DEF Ping, SendOK
<1>2. tick \in Ticks /\ tick.state \in States
  BY <1>1, ConstantTypes DEF Ticks
<1>3. monitor # None /\ monitor \in States
  BY <1>1, <1>2, NoneAssumption
<1>4. now \in Nat
  BY TypeFacts
<1>5. monitor.pending \in {"start", "success", "fail"}
  BY <1>1, <1>3 DEF States
<1>6. \/ log' = log /\ external' = external
      \/ Sent(monitor.pending)
  BY <1>1 DEF Ping
<1>7. RunsKept /\ LogKept
  <2>1. RunsKept
    BY <1>1 DEF RunsKept
  <2>2. CASE Sent(monitor.pending)
    <3>1. PICK entry :
            entry = [kind |-> monitor.pending, slot |-> None, at |-> now, outcome |-> "none"]
      OBVIOUS
    <3>2. log' = Append(log, entry)
      BY <2>2, <3>1 DEF Sent
    <3>3. entry \in Entries
      BY <1>4, <1>5, <3>1 DEF Entries
    <3>4. Recorded(entry)'
      BY <1>5, <3>1 DEF Recorded
    <3>5. LogKept
      BY <3>2, <3>3, <3>4 DEF LogKept
    <3> QED BY <2>1, <3>5
  <2>3. CASE log' = log
    BY <2>1, <2>3 DEF LogKept
  <2> QED BY <1>6, <2>1, <2>2, <2>3
<1>8. external' \in {"new", "up", "down"} /\ (monitor.pending = "start" => external' = external)
  BY <1>5, <1>6, TypeFacts DEF Sent, Shown
<1>9. monitor \in Sound(history.started) /\ history.started \in Nat
  BY <1>3 DEF StoredOK
<1>10. Told(monitor)'
  BY <1>1, <1>5, <1>8, <1>9 DEF Told, Sound
<1>11. monitor' \in Sound(history.started)'
  BY <1>1, <1>7, <1>9, <1>10, StaysSound
<1>12. LogOK' /\ StoredOK' /\ FreshOK'
  BY <1>1, <1>3, <1>7, <1>9, <1>11, LogStays DEF StoredOK, FreshOK
<1>13. \/ tick' = Idle
       \/ /\ tick' \in Ticks /\ tick'.step = "clear" /\ tick'.state = tick.state
          /\ Sent(monitor.pending)
  BY <1>1, <1>2 DEF Ping, Ticks
<1>14. PutOK'
  BY <1>13, ConstantTypes DEF PutOK
<1>15. SendOK'
  <2>1. CASE tick' = Idle
    BY <2>1, ConstantTypes DEF SendOK
  <2>2. CASE tick' # Idle
    <3>1. tick'.state = tick.state /\ external' = Shown(monitor.pending)
      BY <1>13, <2>2 DEF Sent
    <3>2. external' = Shown(tick.state.pending)'
      BY <1>1, <1>5, <1>8, <3>1 DEF Shown
    <3> QED BY <1>1, <1>13, <2>2, <3>1, <3>2 DEF SendOK
  <2> QED BY <2>1, <2>2
<1>16. TypeOK'
  <2>1. /\ now' \in Period..MaxTime /\ claimed' \in 0..now'
        /\ runs' \in [Slots -> [state : {"none", "running", "done"}, at : Nat,
                                outcome : RunOutcomes, logged : 0..2]]
    BY <1>1 DEF TypeOK
  <2>2. faults' \in 0..MaxFaults
    BY TypeFacts, ConstantTypes DEF Ping
  <2> QED BY <2>1, <2>2, <1>8, <1>12, <1>13, TypedAgain
<1> QED BY <1>12, <1>13, <1>14, <1>15, <1>16

LEMMA ClearInv ==
  ASSUME MonitorInv, Clear
  PROVE  MonitorInv'
<1> USE DEF MonitorInv
<1>1. /\ tick.step = "clear" /\ tick' = Idle
      /\ monitor' = [tick.state EXCEPT !.pending = "none"]
      /\ UNCHANGED <<now, claimed, runs, log, external, history, faults>>
      /\ monitor = tick.state /\ tick.state.pending # "none"
      /\ external = Shown(tick.state.pending)
  BY DEF Clear, SendOK, NoPending
<1>2. tick \in Ticks /\ tick.state \in States
  BY <1>1, ConstantTypes DEF Ticks
<1>3. monitor # None /\ monitor \in States
  BY <1>1, <1>2, NoneAssumption
<1>4. monitor \in Sound(history.started) /\ history.started \in Nat
  BY <1>3 DEF StoredOK
<1>5. PICK m : m = [tick.state EXCEPT !.pending = "none"]
  OBVIOUS
<1>6. m \in States /\ m.down = monitor.down /\ m.incidentAt = monitor.incidentAt
      /\ m.pending = "none" /\ m.activated = monitor.activated
      /\ m.initialized = monitor.initialized
  BY <1>1, <1>2, <1>5 DEF States
<1>7. m.lastSuccessAt = monitor.lastSuccessAt /\ m.lastExecutionAt = monitor.lastExecutionAt
      /\ m.seen = monitor.seen /\ m.executionFailures = monitor.executionFailures
      /\ m.deadlineAt = monitor.deadlineAt
  BY <1>1, <1>2, <1>5 DEF States
<1>8. Told(m)
  <2>1. monitor.pending \in {"start", "success", "fail"} /\ external = Shown(monitor.pending)
    BY <1>1, <1>3 DEF States
  <2> QED BY <1>4, <1>6, <2>1 DEF Told, Sound, Shown
<1>9. m \in Sound(history.started)
  BY <1>4, <1>6, <1>7, <1>8 DEF Sound, Counted, Dated
<1>10. RunsKept /\ LogKept
  BY <1>1 DEF RunsKept, LogKept
<1>11. Told(m)'
  BY <1>1, <1>9, ToldStays
<1>12. monitor' \in Sound(history.started)' /\ monitor' # None
  BY <1>1, <1>5, <1>6, <1>9, <1>10, <1>11, StaysSound, NoneAssumption
<1>13. LogOK' /\ StoredOK' /\ FreshOK' /\ PutOK' /\ SendOK'
  BY <1>1, <1>4, <1>10, <1>12, LogStays, ConstantTypes
  DEF StoredOK, FreshOK, PutOK, SendOK
<1>14. TypeOK'
  <2>1. /\ now' \in Period..MaxTime /\ claimed' \in 0..now' /\ external' \in {"new", "up", "down"}
        /\ faults' \in 0..MaxFaults
        /\ runs' \in [Slots -> [state : {"none", "running", "done"}, at : Nat,
                                outcome : RunOutcomes, logged : 0..2]]
    BY <1>1 DEF TypeOK
  <2> QED BY <1>1, <1>13, <2>1, TypedAgain
<1> QED BY <1>1, <1>13, <1>14

(* An outcome is logged when its run is over. *)
LEMMA RunInv ==
  ASSUME MonitorInv, NEW s \in Slots,
         LogAgain(s) \/ \E outcome \in RunOutcomes : Complete(s, outcome)
  PROVE  MonitorInv'
<1>1. /\ UNCHANGED <<now, claimed, monitor, tick, external, history>>
      /\ now \in Nat /\ faults \in 0..MaxFaults /\ LogOK /\ TypeOK
      /\ \A r \in Slots :
           /\ runs[r].state \in {"none", "running", "done"} /\ runs[r].at \in Nat
           /\ runs[r].outcome \in RunOutcomes /\ runs[r].logged \in 0..2
  BY TypeFacts DEF LogAgain, Complete, MonitorInv
<1>2. PICK run \in [state : {"done"}, at : Nat, outcome : RunOutcomes, logged : 0..2] :
        /\ runs' = [runs EXCEPT ![s] = run]
        /\ runs[s].state # "none"
        /\ runs[s].state = "done" =>
             /\ run.at = runs[s].at /\ run.outcome = runs[s].outcome
             /\ runs[s].logged > 0 => run.logged > 0
        /\ \/ log' = log
           \/ /\ log' = Append(log, [kind |-> "run", slot |-> s, at |-> run.at,
                                     outcome |-> run.outcome])
              /\ run.logged > 0
  <2>1. CASE LogAgain(s)
    <3> DEFINE run == [runs[s] EXCEPT !.logged = @ + 1]
    <3>1. runs[s] \in [state : {"none", "running", "done"}, at : Nat,
                       outcome : RunOutcomes, logged : 0..2]
      BY <1>1 DEF TypeOK
    <3>2. runs[s].state = "done" /\ runs[s].logged \in 0..1
      BY <2>1 DEF LogAgain
    <3>3. run \in [state : {"done"}, at : Nat, outcome : RunOutcomes, logged : 0..2]
          /\ run.at = runs[s].at /\ run.outcome = runs[s].outcome
          /\ run.logged = runs[s].logged + 1
      BY <3>1, <3>2
    <3>4. runs' = [runs EXCEPT ![s] = run]
      BY <2>1 DEF LogAgain
    <3>5. log' = Append(log, [kind |-> "run", slot |-> s, at |-> run.at, outcome |-> run.outcome])
      BY <2>1, <3>3 DEF LogAgain, Logged
    <3>6. run.logged > 0 /\ runs[s].state # "none"
      BY <3>2, <3>3
    <3> HIDE DEF run
    <3> QED BY <3>3, <3>4, <3>5, <3>6
  <2>2. CASE \E outcome \in RunOutcomes : Complete(s, outcome)
    <3>1. PICK outcome \in RunOutcomes : Complete(s, outcome)
      BY <2>2
    <3>2. runs[s].state = "running"
      BY <3>1 DEF Complete
    <3>3. CASE /\ runs' = [runs EXCEPT ![s] = [state |-> "done", at |-> now, outcome |-> outcome,
                                               logged |-> 1]]
               /\ Logged(s, outcome, now)
      <4> DEFINE run == [state |-> "done", at |-> now, outcome |-> outcome, logged |-> 1]
      <4>1. run \in [state : {"done"}, at : Nat, outcome : RunOutcomes, logged : 0..2]
            /\ run.at = now /\ run.outcome = outcome /\ run.logged > 0
        BY <1>1
      <4>2. log' = Append(log, [kind |-> "run", slot |-> s, at |-> now, outcome |-> outcome])
        BY <3>3 DEF Logged
      <4> QED BY <3>2, <3>3, <4>1, <4>2
    <3>4. CASE /\ runs' = [runs EXCEPT ![s] = [state |-> "done", at |-> now, outcome |-> outcome,
                                               logged |-> 0]]
               /\ log' = log
      <4> DEFINE run == [state |-> "done", at |-> now, outcome |-> outcome, logged |-> 0]
      <4>1. run \in [state : {"done"}, at : Nat, outcome : RunOutcomes, logged : 0..2]
        BY <1>1
      <4> QED BY <3>2, <3>4, <4>1
    <3> QED BY <3>1, <3>3, <3>4 DEF Complete
  <2> QED BY <2>1, <2>2
<1>3. runs' \in [Slots -> [state : {"none", "running", "done"}, at : Nat,
                           outcome : RunOutcomes, logged : 0..2]]
      /\ runs'[s] = run /\ \A r \in Slots \ {s} : runs'[r] = runs[r]
  <2>1. run \in [state : {"none", "running", "done"}, at : Nat, outcome : RunOutcomes, logged : 0..2]
    BY <1>2
  <2> QED BY <1>1, <1>2, <2>1 DEF TypeOK
<1>4. RunsKept
  BY <1>2, <1>3 DEF RunsKept
<1>5. LogKept /\ (monitor = None => \A n \in 1..Len(log') : log'[n].kind = "run")
  <2>1. CASE log' = log
    BY <2>1 DEF LogKept, MonitorInv, FreshOK
  <2>2. CASE log' # log
    <3>1. PICK entry : entry = [kind |-> "run", slot |-> s, at |-> run.at, outcome |-> run.outcome]
      OBVIOUS
    <3>2. log' = Append(log, entry) /\ run.logged > 0
      BY <1>2, <2>2, <3>1
    <3>3. entry \in Entries
      BY <1>2, <3>1 DEF Entries
    <3>4. Recorded(entry)'
      BY <1>2, <1>3, <3>1, <3>2 DEF Recorded
    <3>5. LogKept
      BY <3>2, <3>3, <3>4 DEF LogKept
    <3>6. ASSUME monitor = None, NEW n \in 1..Len(log') PROVE log'[n].kind = "run"
      <4>1. Len(log) \in Nat /\ Len(log') = Len(log) + 1 /\ log'[Len(log) + 1] = entry
            /\ \A k \in 1..Len(log) : log'[k] = log[k]
        BY <1>1, <3>2, <3>3 DEF LogOK
      <4>2. n \in 1..Len(log) \/ n = Len(log) + 1
        BY <4>1
      <4> QED BY <3>1, <3>6, <4>1, <4>2 DEF MonitorInv, FreshOK
    <3> QED BY <3>5, <3>6
  <2> QED BY <2>1, <2>2
<1>6. faults' \in 0..MaxFaults
  BY <1>1, ConstantTypes DEF LogAgain, Complete
<1>7. now' \in Period..MaxTime /\ claimed' \in 0..now'
  BY <1>1 DEF TypeOK
<1> QED BY <1>1, <1>3, <1>4, <1>5, <1>6, <1>7, PassiveInv


LEMMA NextInv ==
  MonitorInv /\ [Next]_vars => MonitorInv'
<1> SUFFICES ASSUME MonitorInv, [Next]_vars PROVE MonitorInv'
  OBVIOUS
<1>1. /\ now \in Nat /\ now \in Period..MaxTime /\ claimed \in 0..now /\ faults \in 0..MaxFaults
      /\ runs \in [Slots -> [state : {"none", "running", "done"}, at : Nat,
                             outcome : RunOutcomes, logged : 0..2]]
      /\ monitor = None => \A n \in 1..Len(log) : log[n].kind = "run"
  BY TypeFacts DEF MonitorInv, FreshOK, TypeOK
<1>2. CASE Begin
  BY <1>2, BeginInv
<1>3. CASE Put
  BY <1>3, PutInv
<1>4. CASE Ping
  BY <1>4, PingInv
<1>5. CASE Clear
  BY <1>5, ClearInv
<1>6. CASE Die
  <2>1. RunsKept /\ LogKept
    BY <1>6 DEF Die, RunsKept, LogKept
  <2>2. faults' \in 0..MaxFaults
    BY <1>1, <1>6, ConstantTypes DEF Die
  <2> QED BY <1>1, <1>6, <2>1, <2>2, PassiveInv DEF Die
<1>7. CASE Pass
  <2>1. RunsKept /\ LogKept
    BY <1>7 DEF Pass, RunsKept, LogKept
  <2>2. now' \in Period..MaxTime /\ claimed' \in 0..now'
    BY <1>1, <1>7, ConstantTypes DEF Pass
  <2> QED BY <1>1, <1>7, <2>1, <2>2, PassiveInv DEF Pass
<1>8. CASE \E s \in Slots : LogAgain(s) \/ \E outcome \in RunOutcomes : Complete(s, outcome)
  BY <1>8, RunInv
<1>9. CASE UNCHANGED vars
  <2>1. RunsKept /\ LogKept
    BY <1>9 DEF vars, RunsKept, LogKept
  <2> QED BY <1>1, <1>9, <2>1, PassiveInv DEF vars
<1> QED BY <1>2, <1>3, <1>4, <1>5, <1>6, <1>7, <1>8, <1>9 DEF Next, TickStep

LEMMA MonitorInvHolds ==
  Spec => []MonitorInv
<1>1. Init => MonitorInv
  BY InitInv
<1>2. MonitorInv /\ [Next]_vars => MonitorInv'
  BY NextInv
<1> QED BY <1>1, <1>2, PTL DEF Spec

---------------------------------------------------------------------------
(* What follows *)

(* The state of the monitor has the form the code gives it, and knows      *)
(* since when it is down exactly when it is down (MonitorState).           *)
THEOREM MonitorTypes ==
  Spec => []TypeOK
<1>1. MonitorInv => TypeOK
  BY DEF MonitorInv
<1> QED BY <1>1, MonitorInvHolds, PTL

(* When nothing is waiting to be sent, the check shows what the monitor    *)
(* decided, although ticks die and pings get lost (TaskMonitor.tick).      *)
THEOREM SignalsStayAgreed ==
  Spec => []SignalsAgree
<1>1. MonitorInv => SignalsAgree
  BY DEF MonitorInv, StoredOK, Sound, Told, SignalsAgree, NoPending
<1> QED BY <1>1, MonitorInvHolds, PTL

(* No run is counted twice as a failure, and none that a success outdated  *)
(* (applyExecution).                                                       *)
THEOREM FailuresStayDistinct ==
  Spec => []FailuresAreDistinct
<1>1. MonitorInv => FailuresAreDistinct
  <2> SUFFICES ASSUME MonitorInv, monitor # None
               PROVE  monitor.executionFailures <= Cardinality(Failing(monitor.lastSuccessAt))
    BY DEF FailuresAreDistinct
  <2> DEFINE T == Failing(monitor.lastSuccessAt)
             S == monitor.seen \cap T
  <2>1. monitor.executionFailures \in Nat /\ monitor.executionFailures <= Cardinality(S)
    BY DEF MonitorInv, StoredOK, Sound, Counted, States
  <2>2. T \in SUBSET Slots /\ S \in SUBSET T
    BY DEF Failing
  <2>3. IsFiniteSet(T) /\ Cardinality(T) \in Nat /\ S \in SUBSET Slots
    BY <2>2, SlotsAreFinite
  <2>4. Cardinality(S) \in Nat
    <3> HIDE DEF S, T
    <3> QED BY <2>3, SlotsAreFinite
  <2> HIDE DEF S, T
  <2>5. Cardinality(S) <= Cardinality(T)
    BY <2>2, <2>3, FS_Subset
  <2>6. monitor.executionFailures <= Cardinality(T)
    BY <2>1, <2>3, <2>4, <2>5
  <2> QED BY <2>6 DEF T
<1> QED BY <1>1, MonitorInvHolds, PTL

(* The monitor is never green past the deadline that its last real success *)
(* or its start set, whatever else was observed (evaluateDeadline).        *)
THEOREM SilenceIsHeard ==
  Spec => []SilenceAlarms
<1>1. MonitorInv => SilenceAlarms
  <2> SUFFICES ASSUME MonitorInv, tick.step = "put", tick.caughtUp, ~tick.state.down,
                      history.started # None
               PROVE  \E at \in LastLife : tick.now < NextDeadline(at)
    BY DEF SilenceAlarms
  <2>1. tick \in Ticks /\ Started = history.started
    BY ConstantTypes DEF MonitorInv, Started
  <2>2. tick.state \in Sound(history.started) /\ tick.now < tick.state.deadlineAt
    BY <2>1 DEF MonitorInv, PutOK
  <2>3. PICK at \in Life(history.started) : tick.state.deadlineAt <= NextDeadline(at)
    BY <2>2 DEF Sound, Dated
  <2>4. at \in LastLife
    BY <2>3 DEF Life, LastLife
  <2>5. at \in Nat
    <3>1. history.started \in Nat
      BY NoneIsNoNumber DEF MonitorInv, StoredOK, FreshOK
    <3> QED BY <2>3, <3>1, LifeType DEF MonitorInv, LogOK
  <2>6. tick.now \in Nat /\ tick.state.deadlineAt \in Nat /\ NextDeadline(at) \in Nat
    BY <2>1, <2>5, NextDeadlineType DEF Ticks, States
  <2>7. tick.now < NextDeadline(at)
    BY <2>2, <2>3, <2>6
  <2> QED BY <2>4, <2>7
<1> QED BY <1>1, MonitorInvHolds, PTL

(* An incident ends with a success that was logged since and is not older, *)
(* and nothing else; entries that are lost unread raise one, unless a      *)
(* success came after them (applyExecution, markHistoryGap).               *)
THEOREM IncidentsStayReal ==
  Spec => IncidentsAreReal
<1>1. MonitorInv /\ [Next]_vars => [EndsByRecovery /\ GapAlarms]_vars
  <2> SUFFICES ASSUME MonitorInv, Next PROVE EndsByRecovery /\ GapAlarms
    OBVIOUS
  <2>1. EndsByRecovery
    <3> SUFFICES ASSUME monitor # None, monitor.down, ~monitor'.down
                 PROVE  Recovery(monitor)
      BY DEF EndsByRecovery, Recovery
    <3>1. CASE Put
      BY <3>1 DEF Put, MonitorInv, PutOK
    <3>2. CASE Clear
      <4>1. tick.step = "clear" /\ monitor' = [tick.state EXCEPT !.pending = "none"]
            /\ monitor = tick.state /\ monitor \in States
        BY <3>2 DEF Clear, MonitorInv, SendOK, NoPending, StoredOK, Sound
      <4>2. monitor'.down = monitor.down
        BY <4>1 DEF States
      <4> QED BY <4>2
    <3>3. CASE monitor' = monitor
      BY <3>3
    <3> QED BY <3>1, <3>2, <3>3
        DEF Next, TickStep, Begin, Ping, Die, Pass, LogAgain, Complete
  <2>2. GapAlarms
    <3> SUFFICES ASSUME tick = Idle, tick'.step = "put", LostEntries
                 PROVE  \/ tick'.state.down
                        \/ \E n \in First..Len(log) : log[n].outcome = "success"
      BY DEF GapAlarms, LostEntries
    <3>1. Begin
      BY ConstantTypes
      DEF Next, TickStep, Put, Ping, Clear, Die, Pass, LogAgain, Complete
    <3>2. now \in Nat /\ now \in Period..MaxTime
      BY TypeFacts DEF MonitorInv
    <3>3. PICK kind \in Kinds, slot \in Slots \cup {None} :
            (kind \in {"failed", "refused"} => slot \in Slots) /\ tick' = Decide(now, kind, slot)
      BY <3>1, <3>2, DueSlotType DEF Begin, Kinds
    <3>4. LostEntries => \/ Decide(now, kind, slot).state.down
                         \/ \E n \in First..Len(log) : log[n].outcome = "success"
      BY <3>2, <3>3, DecideSound DEF MonitorInv
    <3> QED BY <3>3, <3>4
  <2> QED BY <2>1, <2>2
<1> QED BY <1>1, MonitorInvHolds, PTL DEF Spec, IncidentsAreReal

=============================================================================
