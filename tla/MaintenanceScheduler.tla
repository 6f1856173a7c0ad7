------------------------ MODULE MaintenanceScheduler ------------------------
(***************************************************************************)
(* The minute tick of the maintenance scheduler: a cloud function claims   *)
(* the lease, decides for every due task whether to start its GitHub       *)
(* workflow, and releases the lease.  Calls to the state database and to   *)
(* GitHub may fail, be applied although the caller gave up, or be applied  *)
(* late; the function is killed at its time limit or before; a run that    *)
(* GitHub started appears in its list only some time later.                *)
(*                                                                         *)
(* The monitors of a tick are a component of their own and are left out;   *)
(* they only prolong the tick.  All clocks agree.                          *)
(***************************************************************************)
EXTENDS SchedulerState, FiniteSets

CONSTANTS
  MaxAttempts,   \* [Tasks -> runs a slot may start]
  RetryDelay,    \* [Tasks -> time between two attempts of a slot]
  RunLimit,      \* the function is killed after this time (55 seconds)
  MaxClock       \* bound of the model: time stops here

ASSUME DispatchAssumption ==
  /\ MaxAttempts \in [Tasks -> Nat \ {0}]
  /\ RetryDelay \in [Tasks -> Nat]
  /\ \A t \in Tasks : MaxAttempts[t] > 1 => RetryDelay[t] > 0
  /\ RunLimit \in Nat
  /\ RunLimit < LeaseLength
  /\ MaxClock \in Nat

VARIABLES
  registry,  \* the tasks this deployment schedules; they never change
  clock,     \* the time
  lease,     \* the control row of the state database
  receipt,   \* [Tasks -> the delivery receipt stored for the task]
  late,      \* requests to the database whose caller has given up
  phase,     \* [Invocations -> the life of the invocation]
  began,     \* [Invocations -> when it observed the time]
  step,      \* [Invocations -> [Tasks -> its next step for the task]]
  known,     \* [Invocations -> [Tasks -> the receipt it has read]]
  posts,     \* dispatches GitHub has neither accepted nor rejected yet
  runs       \* workflow runs GitHub has started for the scheduler

ticks == <<phase, began, step, known>>
github == <<posts, runs>>
vars == <<registry, clock, lease, receipt, late, phase, began, step, known, posts, runs>>

Phases == {"new", "claiming", "working", "ended"}
Steps == {"get", "list", "put", "post", "answer", "accepted", "rejected", "sending", "done"}
Dispatches == [by : Invocations, task : Tasks, slot : Nat]
Runs == [by : Invocations, task : Tasks, slot : Nat, created : Nat,
         status : {"active", "success", "failure"}, visible : BOOLEAN]
Requests ==
  [by : Invocations, op : {"claim"}, tick : Nat]
    \cup [by : Invocations, op : {"release"}]
    \cup [by : Invocations, op : {"put"}, task : Tasks, receipt : Receipts]

Init ==
  /\ registry \in SUBSET Tasks
  /\ clock = 0
  /\ lease = NoLease
  /\ receipt = [t \in Tasks |-> NoReceipt]
  /\ late = {}
  /\ phase = [i \in Invocations |-> "new"]
  /\ began = [i \in Invocations |-> 0]
  /\ step = [i \in Invocations |-> [t \in Tasks |-> "done"]]
  /\ known = [i \in Invocations |-> [t \in Tasks |-> NoReceipt]]
  /\ posts = {}
  /\ runs = {}

Running(i) == phase[i] \in {"claiming", "working"}
Working(i) == phase[i] = "working"
MySlot(i, t) == Slot(t, began[i])

Goto(i, t, next) == step' = [step EXCEPT ![i][t] = next]

(* What a function knew is gone with it. *)
End(i) ==
  /\ phase' = [phase EXCEPT ![i] = "ended"]
  /\ began' = [began EXCEPT ![i] = 0]
  /\ step' = [step EXCEPT ![i] = [t \in Tasks |-> "done"]]
  /\ known' = [known EXCEPT ![i] = [t \in Tasks |-> NoReceipt]]

---------------------------------------------------------------------------
(* The timer fires, on time, late or twice. *)
Start(i) ==
  /\ phase[i] = "new"
  /\ phase' = [phase EXCEPT ![i] = "claiming"]
  /\ began' = [began EXCEPT ![i] = clock]
  /\ UNCHANGED <<clock, lease, receipt, late, step, known, github>>

(* A due task begins by reading its receipt; the others are idle. *)
FirstSteps(i) ==
  [t \in Tasks |-> IF t \in registry /\ Due(t, began[i]) THEN "get" ELSE "done"]

Claim(i) ==
  /\ phase[i] = "claiming"
  /\ IF Claimable(lease, i, TickOf(began[i]), clock)
     THEN /\ lease' = Claimed(lease, i, TickOf(began[i]), clock)
          /\ phase' = [phase EXCEPT ![i] = "working"]
          /\ step' = [step EXCEPT ![i] = FirstSteps(i)]
          /\ UNCHANGED <<began, known>>
     ELSE End(i) /\ UNCHANGED lease
  /\ UNCHANGED <<clock, receipt, late, github>>

(* The answer of the claim is lost: nobody repeats it. *)
ClaimFails(i) ==
  /\ phase[i] = "claiming"
  /\ late' = late \cup {[by |-> i, op |-> "claim", tick |-> TickOf(began[i])]}
  /\ End(i)
  /\ UNCHANGED <<clock, lease, receipt, github>>

At(i, t, s) == Working(i) /\ step[i][t] = s

(* The receipt already answers for a task with one attempt. *)
SettledByReceipt(i, t, r) ==
  /\ r.slot = MySlot(i, t)
  /\ r.state = "accepted"
  /\ MaxAttempts[t] = 1

Get(i, t) ==
  /\ At(i, t, "get")
  /\ MayWrite(lease, i, clock)
  /\ known' = [known EXCEPT ![i][t] = receipt[t]]
  /\ Goto(i, t, IF SettledByReceipt(i, t, receipt[t]) THEN "done" ELSE "list")
  /\ UNCHANGED <<clock, lease, receipt, late, phase, began, github>>

---------------------------------------------------------------------------
Listed(t) == {r \in runs : r.task = t /\ r.visible}
InSlot(t, s) == {r \in Listed(t) : SlotStart(t, s) <= r.created /\ r.created < SlotEnd(t, s)}

(* Mutant of reconcileOnly: an unknown answer counts as no dispatch.       *)
OnlyAcceptedReconciled(i, t) ==
  known[i][t].slot = MySlot(i, t) /\ known[i][t].state = "accepted"

(* An earlier dispatch for this slot may have been accepted unseen, and no *)
(* run that came after it has completed.                                   *)
reconcileOnly(i, t) ==
  /\ known[i][t].slot = MySlot(i, t)
  /\ known[i][t].state \in {"sending", "accepted"}
  /\ ~ \E r \in Listed(t) :
         /\ r.status # "active"
         /\ known[i][t].at <= r.created
         /\ r.created < SlotEnd(t, MySlot(i, t))

(* The checks of dispatchScheduledTask on the listed runs. *)
MayDispatch(i, t) ==
  LET slotRuns == InSlot(t, MySlot(i, t)) IN
  /\ \A r \in Listed(t) : r.status # "active"
  /\ \A r \in slotRuns : r.status # "success"
  /\ Cardinality(slotRuns) < MaxAttempts[t]
  /\ \A r \in slotRuns : began[i] - r.created >= RetryDelay[t]
  /\ ~ reconcileOnly(i, t)

List(i, t) ==
  /\ At(i, t, "list")
  /\ Goto(i, t, IF MayDispatch(i, t) THEN "put" ELSE "done")
  /\ UNCHANGED <<clock, lease, receipt, late, phase, began, known, github>>

---------------------------------------------------------------------------
(* Mutant of Stamp: the fields of the previous receipt win. *)
PreviousSlotKept(i, t, state) == [slot |-> known[i][t].slot, state |-> state, at |-> began[i]]

Stamp(i, t, state) == [slot |-> MySlot(i, t), state |-> state, at |-> began[i]]
PutRequest(i, t, state) == [by |-> i, op |-> "put", task |-> t, receipt |-> Stamp(i, t, state)]

(* Mutant of BeforePost: the receipt is written with the answer only. *)
PostUnrecorded(i, t) ==
  /\ At(i, t, "put")
  /\ MayWrite(lease, i, clock)
  /\ Goto(i, t, "post")
  /\ UNCHANGED <<clock, lease, receipt, late, phase, began, known, github>>

(* The receipt is durable before the dispatch is sent. *)
BeforePost(i, t) ==
  /\ At(i, t, "put")
  /\ MayWrite(lease, i, clock)
  /\ receipt' = [receipt EXCEPT ![t] = Stamp(i, t, "sending")]
  /\ Goto(i, t, "post")
  /\ UNCHANGED <<clock, lease, late, phase, began, known, github>>

Post(i, t) ==
  /\ At(i, t, "post")
  /\ posts' = posts \cup {[by |-> i, task |-> t, slot |-> MySlot(i, t)]}
  /\ Goto(i, t, "answer")
  /\ UNCHANGED <<clock, lease, receipt, late, phase, began, known, runs>>

MyPosts(i, t) == {p \in posts : p.by = i /\ p.task = t}
MyRuns(i, t) == {r \in runs : r.by = i /\ r.task = t}

(* What the status of the answer says of the dispatch: a 2xx only of an    *)
(* accepted one, a definite 4xx only of a rejected one, anything else of   *)
(* any.                                                                    *)
AnswerFits(i, t, answer) ==
  \/ answer = "accepted" /\ MyRuns(i, t) # {}
  \/ answer = "rejected" /\ MyRuns(i, t) = {} /\ MyPosts(i, t) = {}
  \/ answer = "sending"

Answer(i, t) ==
  /\ At(i, t, "answer")
  /\ \E answer \in {"accepted", "rejected", "sending"} :
       AnswerFits(i, t, answer) /\ Goto(i, t, answer)
  /\ UNCHANGED <<clock, lease, receipt, late, phase, began, known, github>>

AfterPost(i, t) ==
  /\ Working(i)
  /\ step[i][t] \in {"accepted", "rejected", "sending"}
  /\ MayWrite(lease, i, clock)
  /\ receipt' = [receipt EXCEPT ![t] = Stamp(i, t, step[i][t])]
  /\ Goto(i, t, "done")
  /\ UNCHANGED <<clock, lease, late, phase, began, known, github>>

(* A read or a dispatch that fails or times out ends the task's part. *)
TaskFails(i, t) ==
  /\ Working(i)
  /\ step[i][t] # "done"
  /\ Goto(i, t, "done")
  /\ UNCHANGED <<clock, lease, receipt, late, phase, began, known, github>>

(* So does a write whose answer is lost; the database may apply it yet. *)
WriteUnanswered(i, t) ==
  /\ Working(i)
  /\ step[i][t] \in {"put", "accepted", "rejected", "sending"}
  /\ LET state == IF step[i][t] = "put" THEN "sending" ELSE step[i][t]
     IN  late' = late \cup {PutRequest(i, t, state)}
  /\ Goto(i, t, "done")
  /\ UNCHANGED <<clock, lease, receipt, phase, began, known, github>>

---------------------------------------------------------------------------
AllDone(i) == \A t \in Tasks : step[i][t] = "done"

Release(i) ==
  /\ Working(i)
  /\ AllDone(i)
  /\ lease' = IF MayWrite(lease, i, clock) THEN Released(lease) ELSE lease
  /\ End(i)
  /\ UNCHANGED <<clock, receipt, late, github>>

ReleaseUnanswered(i) ==
  /\ Working(i)
  /\ AllDone(i)
  /\ late' = late \cup {[by |-> i, op |-> "release"]}
  /\ End(i)
  /\ UNCHANGED <<clock, lease, receipt, github>>

(* The platform kills the function, at its time limit or before. *)
Kill(i) ==
  /\ Running(i)
  /\ End(i)
  /\ UNCHANGED <<clock, lease, receipt, late, github>>

(* The database applies a request nobody waits for any more. *)
ApplyLate(q) ==
  /\ late' = late \ {q}
  /\ \/ /\ q.op = "claim"
        /\ Claimable(lease, q.by, q.tick, clock)
        /\ lease' = Claimed(lease, q.by, q.tick, clock)
        /\ UNCHANGED receipt
     \/ /\ q.op = "release"
        /\ MayWrite(lease, q.by, clock)
        /\ lease' = Released(lease)
        /\ UNCHANGED receipt
     \/ /\ q.op = "put"
        /\ MayWrite(lease, q.by, clock)
        /\ receipt' = [receipt EXCEPT ![q.task] = q.receipt]
        /\ UNCHANGED lease
  /\ UNCHANGED <<clock, ticks, github>>

---------------------------------------------------------------------------
(* GitHub starts a run for a dispatch, however late, or never does.  It is *)
(* taken not to be so late that a slot with several attempts has ended: a  *)
(* daily one ends at least 21 hours after its last dispatch.               *)
InTime(p) == MaxAttempts[p.task] = 1 \/ clock < SlotEnd(p.task, p.slot)

Accept(p) ==
  /\ InTime(p)
  /\ posts' = posts \ {p}
  /\ runs' = runs \cup {[by |-> p.by, task |-> p.task, slot |-> p.slot,
                         created |-> clock, status |-> "active", visible |-> FALSE]}
  /\ UNCHANGED <<clock, lease, receipt, late, ticks>>

Reject(p) ==
  /\ posts' = posts \ {p}
  /\ UNCHANGED <<clock, lease, receipt, late, ticks, runs>>

Replace(r, s) == runs' = (runs \ {r}) \cup {s}

Appear(r) ==
  /\ ~ r.visible
  /\ Replace(r, [r EXCEPT !.visible = TRUE])
  /\ UNCHANGED <<clock, lease, receipt, late, ticks, posts>>

Complete(r) ==
  /\ r.status = "active"
  /\ \E outcome \in {"success", "failure"} : Replace(r, [r EXCEPT !.status = outcome])
  /\ UNCHANGED <<clock, lease, receipt, late, ticks, posts>>

(* No invocation outlives its time limit. *)
Pass ==
  /\ clock < MaxClock
  /\ \A i \in Invocations : Running(i) => clock + 1 - began[i] <= RunLimit
  /\ clock' = clock + 1
  /\ UNCHANGED <<lease, receipt, late, ticks, github>>

TaskStep(i, t) ==
  \/ Get(i, t) \/ List(i, t) \/ BeforePost(i, t) \/ Post(i, t) \/ Answer(i, t)
  \/ AfterPost(i, t) \/ TaskFails(i, t) \/ WriteUnanswered(i, t)

Step ==
  \/ \E i \in Invocations :
       \/ Start(i) \/ Claim(i) \/ ClaimFails(i) \/ Release(i) \/ ReleaseUnanswered(i) \/ Kill(i)
       \/ \E t \in Tasks : TaskStep(i, t)
  \/ \E q \in late : ApplyLate(q)
  \/ \E p \in posts : Accept(p) \/ Reject(p)
  \/ \E r \in runs : Appear(r) \/ Complete(r)
  \/ Pass

Next == Step /\ UNCHANGED registry

Spec == Init /\ [][Next]_vars

---------------------------------------------------------------------------
TypeOK ==
  /\ registry \subseteq Tasks
  /\ clock \in Nat
  /\ lease \in Leases
  /\ receipt \in [Tasks -> Receipts \cup {NoReceipt}]
  /\ late \subseteq Requests
  /\ phase \in [Invocations -> Phases]
  /\ began \in [Invocations -> Nat]
  /\ step \in [Invocations -> [Tasks -> Steps]]
  /\ known \in [Invocations -> [Tasks -> Receipts \cup {NoReceipt}]]
  /\ posts \subseteq Dispatches
  /\ runs \subseteq Runs

(* Two invocations never work at the same time, not even when one lost the *)
(* answer of its claim or release and the database applies it much later:  *)
(* the 55 seconds of the function and the 90 of the lease.                 *)
OneWorker == \A i, j \in Invocations : Working(i) /\ Working(j) => i = j

PostsOf(t, s) == {p \in posts : p.task = t /\ p.slot = s}
RunsOf(t, s) == {r \in runs : r.task = t /\ r.slot = s}
Unsettled(t, s) == PostsOf(t, s) # {} \/ \E r \in RunsOf(t, s) : r.status = "active"

(* A dispatch that GitHub may still accept, or a run that has not ended,   *)
(* is never forgotten: the stored receipt of its task says it may exist,   *)
(* until a later slot takes the receipt.                                   *)
ReceiptCoversDispatch ==
  \A t \in Tasks : \A s \in 0 .. Slot(t, clock) :
    Unsettled(t, s) =>
      \/ receipt[t].slot > s
      \/ receipt[t].slot = s /\ receipt[t].state \in {"sending", "accepted"}

(* A slot never starts more runs than its task may, whatever GitHub's list *)
(* of runs shows or hides in the meantime.                                 *)
AttemptsBounded ==
  \A t \in Tasks : \A s \in 0 .. Slot(t, clock) :
    Cardinality(PostsOf(t, s)) + Cardinality(RunsOf(t, s)) <= MaxAttempts[t]

(* What GitHub may still start or run stays in the receipts, and so no     *)
(* slot gets more runs than its task may have (durable-dispatch.ts).       *)
DispatchesAreCounted == ReceiptCoversDispatch /\ AttemptsBounded

RetryFollowsFailure ==
  \A p \in posts' \ posts :
    /\ ~ Unsettled(p.task, p.slot)
    /\ \A r \in RunsOf(p.task, p.slot) :
         r.status = "failure" /\ clock - r.created >= RetryDelay[p.task]

(* A dispatch is repeated only after everything sent before it for the     *)
(* slot was rejected or has failed, and after the delay between attempts   *)
(* (durable-dispatch.ts, dispatch.ts).                                     *)
RetriesFollowFailures == [][RetryFollowsFailure]_vars

(* The receipt of a task never returns to an earlier slot, as the write of *)
(* a killed function that arrives late could make it.                      *)
ReceiptsMoveOn ==
  [][ \A t \in Tasks : receipt'[t].slot >= receipt[t].slot ]_vars
=============================================================================
