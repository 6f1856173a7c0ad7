---------------------------- MODULE TaskMonitor ----------------------------
(***************************************************************************)
(* The monitor of one scheduled task.  Workflow runs log their outcome in  *)
(* the inbox of an external check; every tick of the scheduler dispatches  *)
(* the slot that is due, reads the new outcomes, decides whether the task  *)
(* is down, stores the decision and only then pings the check, which       *)
(* alerts people.  A tick may die at any point, a ping may fail or be      *)
(* applied although its answer is lost, an outcome may be logged late or   *)
(* twice, and the inbox keeps only the latest entries.                     *)
(*                                                                         *)
(* Time is counted in minutes; slots are the multiples of Period.  The     *)
(* lease of the scheduler admits one tick a minute (MaintenanceScheduler), *)
(* and the function that runs it is stopped after 55 seconds; in the last  *)
(* minute of the model there is no limit.                                  *)
(***************************************************************************)
EXTENDS Integers, Sequences, FiniteSets

CONSTANTS
  Period,         \* distance of the task's slots
  Grace,          \* graceSeconds of its check
  Window,         \* catch-up window of a slot
  FailureLimit,   \* policy.executionFailures
  DispatchLimit,  \* policy.dispatchFailureSeconds
  Budget,         \* bodies a tick may download
  Retain,         \* entries the inbox keeps
  MaxTime,        \* bound of the model: time
  MaxFaults,      \* bound of the model: refused dispatches, lost ticks, pings, duplicates
  None

ASSUME MonitorAssumption ==
  /\ Period \in Nat \ {0} /\ Grace \in Nat \ {0} /\ Window \in 1..Period
  /\ FailureLimit \in Nat \ {0} /\ DispatchLimit \in Nat
  /\ Budget \in Nat \ {0} /\ Retain \in Nat \ {0}
  /\ MaxTime \in Nat /\ Period <= MaxTime /\ MaxFaults \in Nat
  /\ None \notin Int

Slots == {t \in 1..MaxTime : t % Period = 0}

VARIABLES
  now,       \* the time
  claimed,   \* the minute of the latest tick
  runs,      \* [Slots -> the workflow run of the slot]
  log,       \* all entries the inbox of the check ever had
  monitor,   \* the stored state, or None
  tick,      \* the tick in progress
  external,  \* what the check shows
  history,   \* of the stored ticks: the first, and since when each slot is refused
  faults     \* faults so far

vars == <<now, claimed, runs, log, monitor, tick, external, history, faults>>

NoPending == "none"
Idle == [step |-> "idle"]
RunOutcomes == {"success", "failure", "permanent"}
NotRun == [state |-> "none", at |-> 0, outcome |-> "failure", logged |-> 0]

Init ==
  /\ now = Period
  /\ claimed = 0
  /\ runs = [s \in Slots |-> NotRun]
  /\ log = <<>>
  /\ monitor = None
  /\ tick = Idle
  /\ external = "new"
  /\ history = [started |-> None, refused |-> [s \in Slots |-> None]]
  /\ faults = 0

---------------------------------------------------------------------------
(* The alert policy: a state, and what an observation makes of it *)

NextDeadline(successAt) == (successAt \div Period + 1) * Period + Grace

InitialState(at) ==
  [cursor |-> 0, initialized |-> FALSE, activated |-> FALSE, deadlineAt |-> NextDeadline(at),
   lastSuccessAt |-> 0, executionFailures |-> 0, lastExecutionAt |-> 0, seen |-> {},
   dispatchFailedAt |-> None, dispatchExpectedAt |-> None, dispatchPermanent |-> FALSE,
   incidentAt |-> None, down |-> FALSE, pending |-> NoPending]

MarkDown(state, at) ==
  IF state.down THEN state
  ELSE [state EXCEPT !.down = TRUE, !.activated = TRUE, !.incidentAt = at, !.pending = "fail"]

(* The incident of a gap begins with the last outcome that was read. *)
MarkHistoryGap(state, at) ==
  IF state.down THEN state
  ELSE [MarkDown(state, at) EXCEPT !.incidentAt = state.lastExecutionAt]

NoDispatchFailure(state) ==
  [state EXCEPT !.dispatchFailedAt = None, !.dispatchExpectedAt = None, !.dispatchPermanent = FALSE]

ObserveExpectedSlot(state, slot) ==
  LET due == slot + Grace
      dated == IF state.lastSuccessAt < slot /\ due < state.deadlineAt
               THEN [state EXCEPT !.deadlineAt = due] ELSE state
  IN IF ~state.activated /\ state.pending = NoPending
     THEN [dated EXCEPT !.activated = TRUE, !.pending = "start"] ELSE dated

(* Mutant of Succeed: the beginning of the incident is not forgotten. *)
SucceedKeepingIncident(state, at) ==
  [state EXCEPT !.activated = TRUE, !.lastSuccessAt = at, !.executionFailures = 0,
                !.deadlineAt = NextDeadline(at), !.down = FALSE, !.pending = "success"]

(* A success outdates a dispatch failure of its slot or an earlier one, by *)
(* the time it was logged with, and ends an incident that is not newer.    *)
Succeed(state, at) ==
  LET fresh == [state EXCEPT !.activated = TRUE, !.lastSuccessAt = at, !.executionFailures = 0,
                             !.deadlineAt = NextDeadline(at)]
      since == IF state.dispatchExpectedAt = None THEN state.dispatchFailedAt
               ELSE state.dispatchExpectedAt
      reached == IF state.dispatchFailedAt # None /\ at >= since
                 THEN NoDispatchFailure(fresh) ELSE fresh
  IN IF state.down /\ at < state.incidentAt THEN reached
     ELSE [reached EXCEPT !.down = FALSE, !.incidentAt = None, !.pending = "success"]

(* Mutant of FailOnce: a failed run counts as a sign of life. *)
FailOncePostponing(state, event) ==
  LET counted == [state EXCEPT !.executionFailures = @ + 1, !.deadlineAt = NextDeadline(event.at)]
  IN IF event.outcome = "permanent" \/ counted.executionFailures >= FailureLimit
     THEN MarkDown(counted, event.at) ELSE counted

(* A failure is an incident when it is permanent or one too many. *)
FailOnce(state, event) ==
  LET counted == [state EXCEPT !.executionFailures = @ + 1]
  IN IF event.outcome = "permanent" \/ counted.executionFailures >= FailureLimit
     THEN MarkDown(counted, event.at) ELSE counted

(* Mutant of ApplyExecution: an attempt that is logged twice counts twice. *)
ApplyEveryExecution(state, event) ==
  IF event.at < state.lastExecutionAt THEN state
  ELSE LET known == [state EXCEPT !.seen = @ \cup {event.slot}, !.lastExecutionAt = event.at]
       IN IF event.outcome = "success" THEN Succeed(known, event.at) ELSE FailOnce(known, event)

(* Every attempt counts once, and an outcome older than the last is void. *)
ApplyExecution(state, event) ==
  IF event.slot \in state.seen \/ event.at < state.lastExecutionAt THEN state
  ELSE LET known == [state EXCEPT !.seen = @ \cup {event.slot}, !.lastExecutionAt = event.at]
       IN IF event.outcome = "success" THEN Succeed(known, event.at) ELSE FailOnce(known, event)

(* What happened to the dispatch of the slot, unless the slot is known to  *)
(* have succeeded.                                                         *)
ApplyDispatch(state, kind, slot, at) ==
  IF slot # None /\ state.lastSuccessAt >= slot THEN state
  ELSE CASE kind \in {"failed", "refused"} ->
              LET failing == [state EXCEPT !.dispatchExpectedAt = slot,
                                !.dispatchFailedAt = IF @ = None THEN at ELSE @,
                                !.dispatchPermanent = (kind = "refused")]
              IN IF kind = "refused" THEN MarkDown(failing, at) ELSE failing
         [] kind = "accepted" -> NoDispatchFailure(state)
         [] kind = "exhausted" -> MarkDown(state, at)
         [] kind = "idle" -> state

EvaluateDeadline(state, at) ==
  IF \/ at >= state.deadlineAt
     \/ state.dispatchFailedAt # None /\ state.dispatchPermanent
     \/ state.dispatchFailedAt # None /\ at - state.dispatchFailedAt >= DispatchLimit
  THEN MarkDown(state, at) ELSE state

---------------------------------------------------------------------------
(* The inbox *)

First == IF Len(log) > Retain THEN Len(log) - Retain + 1 ELSE 1
HasBody(entry) == entry.kind \in {"run", "success"}
Bodies(from, to) == Len(SelectSeq(SubSeq(log, from, to), HasBody))
Successes == {n \in First..Len(log) : log[n].kind = "success"}
Latest(numbers) == CHOOSE n \in numbers : \A m \in numbers : m <= n

(* The first tick takes over the heartbeat that is there already. *)
TakeOver(state) ==
  LET started == IF Successes = {} THEN state
                 ELSE LET at == log[Latest(Successes)].at
                      IN [state EXCEPT !.lastSuccessAt = at, !.deadlineAt = NextDeadline(at)]
  IN [started EXCEPT !.activated = \E n \in First..Len(log) : log[n].kind # "run",
                     !.initialized = TRUE]

(* Mutant of Resume: entries that are gone are skipped silently. *)
ResumeSilently(state, at) ==
  IF ~state.initialized THEN TakeOver(state)
  ELSE IF First > state.cursor + 1 THEN [state EXCEPT !.cursor = First - 1]
  ELSE state

(* Entries that are gone before they were read raise an alarm. *)
Resume(state, at) ==
  IF ~state.initialized THEN TakeOver(state)
  ELSE IF First > state.cursor + 1 THEN [MarkHistoryGap(state, at) EXCEPT !.cursor = First - 1]
  ELSE state

Read(state, n) ==
  [(IF log[n].kind = "run" THEN ApplyExecution(state, log[n]) ELSE state) EXCEPT !.cursor = n]

(* The first entry after the cursor that is left. *)
FirstUnread(cursor) == IF cursor + 1 > First THEN cursor + 1 ELSE First

(* As many entries as there is budget for the bodies of. *)
LastSelected(cursor) ==
  LET from == FirstUnread(cursor)
      fits == {n \in from..Len(log) : Bodies(from, n) <= Budget}
  IN IF fits = {} THEN cursor ELSE Latest(fits)

(* The entries that are left are read in their order, up to the last one. *)
ReadUpTo(state, last) ==
  LET reads[n \in 0..last] ==
        IF n < FirstUnread(state.cursor) THEN state ELSE Read(reads[n - 1], n)
  IN reads[last]

(* What a tick at a time decides from the stored state, the inbox and its  *)
(* own dispatch; deadlines are judged only when the inbox is read up.      *)
Decide(at, kind, slot) ==
  LET previous == IF monitor = None THEN InitialState(at) ELSE monitor
      resumed == Resume(previous, at)
      last == LastSelected(resumed.cursor)
      read == ReadUpTo(resumed, last)
      expected == IF slot = None THEN read ELSE ObserveExpectedSlot(read, slot)
      dispatched == ApplyDispatch(expected, kind, slot, at)
      caughtUp == last = Len(log)
  IN [step |-> "put", now |-> at, kind |-> kind, slot |-> slot, caughtUp |-> caughtUp,
      state |-> IF caughtUp THEN EvaluateDeadline(dispatched, at) ELSE dispatched]

---------------------------------------------------------------------------
(* The scheduler's tick *)

DueSlot == IF now % Period < Window THEN (now \div Period) * Period ELSE None
Over(s) == runs[s].state = "done" /\ runs[s].outcome # "success"

(* A tick dispatches the slot that is due, if any, and decides.  A slot    *)
(* whose run failed is accepted, when the run was its only attempt or the  *)
(* next one is not due, or it is exhausted.  A dispatch that fails without *)
(* an answer may have started the run.                                     *)
Begin ==
  /\ tick.step = "idle"
  /\ claimed < now \/ now = MaxTime
  /\ claimed' = now
  /\ LET s == DueSlot
         started == IF runs[s].state = "none" THEN [runs EXCEPT ![s].state = "running"] ELSE runs
     IN \/ /\ s = None
           /\ tick' = Decide(now, "idle", None)
           /\ UNCHANGED <<runs, faults>>
        \/ /\ s # None
           /\ tick' = Decide(now, "accepted", s)
           /\ runs' = started
           /\ UNCHANGED faults
        \/ /\ s # None /\ Over(s)
           /\ tick' = Decide(now, "exhausted", s)
           /\ UNCHANGED <<runs, faults>>
        \/ /\ s # None /\ faults < MaxFaults
           /\ \E kind \in {"failed", "refused"} :
                /\ tick' = Decide(now, kind, s)
                /\ runs' = runs \/ (kind = "failed" /\ runs' = started)
           /\ faults' = faults + 1
  /\ UNCHANGED <<now, log, monitor, external, history>>

Known(kind, slot, at) ==
  [started |-> IF history.started = None THEN at ELSE history.started,
   refused |-> CASE kind = "accepted" -> [s \in Slots |-> None]
                 [] kind \in {"failed", "refused"} ->
                      [history.refused EXCEPT ![slot] = IF @ = None THEN at ELSE @]
                 [] OTHER -> history.refused]

(* Mutant of Put: what is pending is kept in memory only. *)
PutWithoutPending ==
  /\ tick.step = "put"
  /\ monitor' = [tick.state EXCEPT !.pending = NoPending]
  /\ tick' = IF tick.caughtUp /\ tick.state.pending # NoPending
             THEN [tick EXCEPT !.step = "ping"] ELSE Idle
  /\ history' = Known(tick.kind, tick.slot, tick.now)
  /\ UNCHANGED <<now, claimed, runs, log, external, faults>>

(* The decision is stored before anybody is told. *)
Put ==
  /\ tick.step = "put"
  /\ monitor' = tick.state
  /\ tick' = IF tick.caughtUp /\ tick.state.pending # NoPending
             THEN [tick EXCEPT !.step = "ping"] ELSE Idle
  /\ history' = Known(tick.kind, tick.slot, tick.now)
  /\ UNCHANGED <<now, claimed, runs, log, external, faults>>

Shown(signal) == CASE signal = "success" -> "up" [] signal = "fail" -> "down" [] OTHER -> external
Sent(signal) ==
  /\ log' = Append(log, [kind |-> signal, slot |-> None, at |-> now, outcome |-> "none"])
  /\ external' = Shown(signal)

(* The check is pinged; a ping that fails may have been applied. *)
Ping ==
  /\ tick.step = "ping"
  /\ \/ /\ Sent(tick.state.pending)
        /\ tick' = [tick EXCEPT !.step = "clear"]
        /\ UNCHANGED faults
     \/ /\ faults < MaxFaults
        /\ faults' = faults + 1
        /\ Sent(tick.state.pending) \/ UNCHANGED <<log, external>>
        /\ tick' = Idle
  /\ UNCHANGED <<now, claimed, runs, monitor, history>>

(* The alert is done. *)
Clear ==
  /\ tick.step = "clear"
  /\ monitor' = [tick.state EXCEPT !.pending = NoPending]
  /\ tick' = Idle
  /\ UNCHANGED <<now, claimed, runs, log, external, history, faults>>

(* The tick dies, or a call to the store or the inbox fails. *)
Die ==
  /\ tick.step # "idle" /\ faults < MaxFaults
  /\ faults' = faults + 1
  /\ tick' = Idle
  /\ UNCHANGED <<now, claimed, runs, log, monitor, external, history>>

---------------------------------------------------------------------------
(* The runs *)

Logged(s, outcome, at) ==
  log' = Append(log, [kind |-> "run", slot |-> s, at |-> at, outcome |-> outcome])

(* A run ends and logs its outcome, or the entry is delayed. *)
Complete(s, outcome) ==
  /\ runs[s].state = "running"
  /\ \/ /\ runs' = [runs EXCEPT ![s] = [state |-> "done", at |-> now, outcome |-> outcome, logged |-> 1]]
        /\ Logged(s, outcome, now)
        /\ UNCHANGED faults
     \/ /\ faults < MaxFaults
        /\ faults' = faults + 1
        /\ runs' = [runs EXCEPT ![s] = [state |-> "done", at |-> now, outcome |-> outcome, logged |-> 0]]
        /\ UNCHANGED log
  /\ UNCHANGED <<now, claimed, monitor, tick, external, history>>

(* A delayed entry arrives, or an entry comes a second time. *)
LogAgain(s) ==
  /\ runs[s].state = "done"
  /\ \/ runs[s].logged = 0 /\ UNCHANGED faults
     \/ /\ runs[s].logged = 1 /\ faults < MaxFaults
        /\ faults' = faults + 1
  /\ Logged(s, runs[s].outcome, runs[s].at)
  /\ runs' = [runs EXCEPT ![s].logged = @ + 1]
  /\ UNCHANGED <<now, claimed, monitor, tick, external, history>>

(* A minute passes; no tick takes that long. *)
Pass ==
  /\ now < MaxTime /\ tick = Idle
  /\ now' = now + 1
  /\ UNCHANGED <<claimed, runs, log, monitor, tick, external, history, faults>>

TickStep == Begin \/ Put \/ Ping \/ Clear

Next ==
  \/ TickStep \/ Die \/ Pass
  \/ \E s \in Slots : LogAgain(s) \/ \E outcome \in RunOutcomes : Complete(s, outcome)

Spec == Init /\ [][Next]_vars

---------------------------------------------------------------------------
States ==
  [cursor : Nat, initialized : BOOLEAN, activated : BOOLEAN, deadlineAt : Nat,
   lastSuccessAt : Nat, executionFailures : Nat, lastExecutionAt : Nat, seen : SUBSET Slots,
   dispatchFailedAt : Nat \cup {None}, dispatchExpectedAt : Slots \cup {None},
   dispatchPermanent : BOOLEAN, incidentAt : Nat \cup {None}, down : BOOLEAN,
   pending : {"none", "start", "success", "fail"}]

ASSUME NoneAssumption == None \notin States

(* The variables have the values that the code gives them; a state is down *)
(* exactly when it knows since when.                                       *)
TypeOK ==
  /\ now \in Period..MaxTime /\ claimed \in 0..now
  /\ runs \in [Slots -> [state : {"none", "running", "done"}, at : Nat,
                         outcome : RunOutcomes, logged : 0..2]]
  /\ \A n \in 1..Len(log) : log[n].kind \in {"run", "start", "success", "fail"}
  /\ monitor # None => monitor \in States /\ (monitor.down <=> monitor.incidentAt # None)
  /\ tick # Idle => tick.step \in {"put", "ping", "clear"} /\ tick.state \in States
  /\ external \in {"new", "up", "down"}
  /\ faults \in 0..MaxFaults

(* When nothing is waiting to be sent, the check shows what the monitor    *)
(* decided, although ticks die between a ping and the put that records it  *)
(* and newer outcomes change the decision (monitor-object.ts: durable      *)
(* state is committed before external delivery).                           *)
SignalsAgree ==
  monitor # None /\ monitor.pending = NoPending => (external = "down" <=> monitor.down)

Failing(since) ==
  {s \in Slots : runs[s].state = "done" /\ runs[s].outcome # "success"
                   /\ runs[s].logged > 0 /\ runs[s].at >= since}

(* The failures that count towards an alarm are distinct runs without a    *)
(* success after them, whatever was logged twice or read again by a tick   *)
(* that replays a dead one.                                                *)
FailuresAreDistinct ==
  monitor # None => monitor.executionFailures <= Cardinality(Failing(monitor.lastSuccessAt))

LastLife ==
  {history.started} \cup {log[n].at : n \in {k \in 1..Len(log) : log[k].outcome = "success"}}

(* A monitor never stays green past the deadline after the last real       *)
(* success: new slots, retries, failed runs and accepted dispatches do not *)
(* move it (monitor-policy.ts, README: recover only on real success).      *)
SilenceAlarms ==
  tick.step = "put" /\ tick.caughtUp /\ ~tick.state.down /\ history.started # None =>
    \E at \in LastLife : tick.now < NextDeadline(at)

EndsByRecovery ==
  monitor # None /\ monitor.down /\ ~monitor'.down =>
    \E n \in (monitor.cursor + 1)..Len(log) :
      log[n].outcome = "success" /\ log[n].at >= monitor.incidentAt

GapAlarms ==
  /\ tick = Idle /\ tick'.step = "put"
  /\ monitor # None /\ monitor.initialized /\ First > monitor.cursor + 1
  => \/ tick'.state.down
     \/ \E n \in First..Len(log) : log[n].outcome = "success"

(* An incident ends only with a real success that was logged since and is  *)
(* not older than the incident; and outcomes that fell out of the inbox    *)
(* before they were read raise one, unless a success that is still there   *)
(* came after them (monitor-policy.ts).                                    *)
IncidentsAreReal == [][EndsByRecovery /\ GapAlarms]_vars

(* A dispatch that stays refused raises an alarm: a success of an older    *)
(* slot cannot suppress it (README of the scheduler).                      *)
OlderSuccessDoesNotHide ==
  \A s \in Slots :
    /\ tick.step = "put" /\ tick.caughtUp /\ tick.kind # "accepted"
    /\ history.refused[s] # None /\ runs[s].state = "none"
    /\ tick.now - history.refused[s] >= DispatchLimit
    /\ \A later \in Slots : later > s => runs[later].state = "none"
    => tick.state.down
=============================================================================
