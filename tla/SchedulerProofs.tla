-------------------------- MODULE SchedulerProofs --------------------------
(***************************************************************************)
(* Theorems about MaintenanceScheduler, for every set of invocations and   *)
(* tasks, every schedule and every retry policy: one worker at a time,     *)
(* receipts that only move on, and from these what is sent: no dispatch is *)
(* forgotten, and none is repeated before the ones before it have failed.  *)
(***************************************************************************)
EXTENDS MaintenanceScheduler, FiniteSetTheorems, TLAPS

---------------------------------------------------------------------------
(* Ticks and slots are natural numbers, and later times are not in earlier *)
(* ones.                                                                   *)
LEMMA Quotient ==
  ASSUME NEW n \in Nat, NEW p \in Nat \ {0}
  PROVE  n \div p \in Nat
BY SMT

LEMMA QuotientGrows ==
  ASSUME NEW m \in Nat, NEW n \in Nat, NEW p \in Nat \ {0}, m <= n
  PROVE  m \div p <= n \div p
BY SMT

LEMMA TickIsNat == \A now \in Nat : TickOf(now) \in Nat
BY Quotient, TimesAssumption DEF TickOf

LEMMA SlotIsNat == \A t \in Tasks : \A now \in Nat : Slot(t, now) \in Nat
BY Quotient, TimesAssumption DEF Slot

LEMMA ClaimedIsLease ==
  ASSUME NEW l \in Leases, NEW i \in Invocations, NEW tick \in Nat, NEW now \in Nat
  PROVE  Claimed(l, i, tick, now) \in Leases
BY TimesAssumption DEF Claimed, Leases

LEMMA ReleasedIsLease ==
  ASSUME NEW l \in Leases
  PROVE  Released(l) \in Leases
BY DEF Released, Leases

LEMMA StampIsReceipt ==
  ASSUME TypeOK, NEW i \in Invocations, NEW t \in Tasks,
         NEW state \in {"sending", "accepted", "rejected"}
  PROVE  Stamp(i, t, state) \in Receipts
<1>1. began[i] \in Nat
  BY DEF TypeOK
<1>2. MySlot(i, t) \in Nat
  BY <1>1, SlotIsNat DEF MySlot
<1> QED BY <1>1, <1>2 DEF Stamp, Receipts

---------------------------------------------------------------------------
(* Types.  Each part of the state is changed by few actions.               *)
LEMMA EndKeepsTypes ==
  ASSUME TypeOK, NEW i \in Invocations, End(i)
  PROVE  /\ phase' \in [Invocations -> Phases]
         /\ began' \in [Invocations -> Nat]
         /\ step' \in [Invocations -> [Tasks -> Steps]]
         /\ known' \in [Invocations -> [Tasks -> Receipts \cup {NoReceipt}]]
<1>1. [t \in Tasks |-> "done"] \in [Tasks -> Steps]
  BY DEF Steps
<1>2. [t \in Tasks |-> NoReceipt] \in [Tasks -> Receipts \cup {NoReceipt}]
  OBVIOUS
<1>3. phase' \in [Invocations -> Phases] /\ began' \in [Invocations -> Nat]
  BY DEF TypeOK, End, Phases
<1> QED BY <1>1, <1>2, <1>3 DEF TypeOK, End

LEMMA GotoKeepsTypes ==
  ASSUME TypeOK, NEW i \in Invocations, NEW t \in Tasks, NEW next \in Steps, Goto(i, t, next)
  PROVE  step' \in [Invocations -> [Tasks -> Steps]]
BY DEF TypeOK, Goto

(* The steps of an invocation for one of its tasks.                        *)
LEMMA TaskStepKeepsTypes ==
  ASSUME TypeOK, UNCHANGED registry,
         NEW i \in Invocations, NEW t \in Tasks, TaskStep(i, t)
  PROVE  TypeOK'
<1> USE DEF TypeOK
<1>1. CASE Get(i, t)
  <2>1. known' \in [Invocations -> [Tasks -> Receipts \cup {NoReceipt}]]
    BY <1>1 DEF Get
  <2>2. step' \in [Invocations -> [Tasks -> Steps]]
    BY <1>1, GotoKeepsTypes DEF Get, Steps
  <2> QED BY <1>1, <2>1, <2>2 DEF Get, github
<1>2. CASE List(i, t)
  <2>1. step' \in [Invocations -> [Tasks -> Steps]]
    BY <1>2, GotoKeepsTypes DEF List, Steps
  <2> QED BY <1>2, <2>1 DEF List, github
<1>3. CASE BeforePost(i, t)
  <2>1. Stamp(i, t, "sending") \in Receipts
    BY StampIsReceipt
  <2>2. step' \in [Invocations -> [Tasks -> Steps]]
    BY <1>3, GotoKeepsTypes DEF BeforePost, Steps
  <2> QED BY <1>3, <2>1, <2>2 DEF BeforePost, github
<1>4. CASE Post(i, t)
  <2>1. [by |-> i, task |-> t, slot |-> MySlot(i, t)] \in Dispatches
    BY SlotIsNat DEF Dispatches, MySlot
  <2>2. step' \in [Invocations -> [Tasks -> Steps]]
    BY <1>4, GotoKeepsTypes DEF Post, Steps
  <2> QED BY <1>4, <2>1, <2>2 DEF Post
<1>5. CASE Answer(i, t)
  <2>1. step' \in [Invocations -> [Tasks -> Steps]]
    BY <1>5, GotoKeepsTypes DEF Answer, Steps
  <2> QED BY <1>5, <2>1 DEF Answer, github
<1>6. CASE AfterPost(i, t)
  <2>1. Stamp(i, t, step[i][t]) \in Receipts
    BY <1>6, StampIsReceipt DEF AfterPost
  <2>2. step' \in [Invocations -> [Tasks -> Steps]]
    BY <1>6, GotoKeepsTypes DEF AfterPost, Steps
  <2> QED BY <1>6, <2>1, <2>2 DEF AfterPost, github
<1>7. CASE TaskFails(i, t)
  <2>1. step' \in [Invocations -> [Tasks -> Steps]]
    BY <1>7, GotoKeepsTypes DEF TaskFails, Steps
  <2> QED BY <1>7, <2>1 DEF TaskFails, github
<1>8. CASE WriteUnanswered(i, t)
  <2> DEFINE state == IF step[i][t] = "put" THEN "sending" ELSE step[i][t]
  <2>1. state \in {"sending", "accepted", "rejected"}
    BY <1>8 DEF WriteUnanswered
  <2>2. Stamp(i, t, state) \in Receipts
    BY <2>1, StampIsReceipt
  <2>3. PutRequest(i, t, state) \in Requests
    BY <2>2 DEF PutRequest, Requests
  <2>4. step' \in [Invocations -> [Tasks -> Steps]]
    BY <1>8, GotoKeepsTypes DEF WriteUnanswered, Steps
  <2> QED BY <1>8, <2>3, <2>4 DEF WriteUnanswered, github
<1> QED BY <1>1, <1>2, <1>3, <1>4, <1>5, <1>6, <1>7, <1>8 DEF TaskStep

LEMMA RequestFields ==
  ASSUME NEW q \in Requests
  PROVE  /\ q.by \in Invocations
         /\ q.op \in {"claim", "release", "put"}
         /\ q.op = "claim" => q.tick \in Nat
         /\ q.op = "put" => q.task \in Tasks /\ q.receipt \in Receipts
BY DEF Requests

(* The life of an invocation, the database and GitHub.                     *)
LEMMA InvocationKeepsTypes ==
  ASSUME TypeOK, UNCHANGED registry, NEW i \in Invocations,
         Start(i) \/ Claim(i) \/ ClaimFails(i) \/ Release(i) \/ ReleaseUnanswered(i) \/ Kill(i)
  PROVE  TypeOK'
<1> USE DEF TypeOK
<1> DEFINE tick == TickOf(began[i])
<1>a. tick \in Nat
  BY TickIsNat
<1>1. CASE Start(i)
  BY <1>1 DEF Start, Phases, github
<1>2. CASE Claim(i) /\ Claimable(lease, i, tick, clock)
  <2>1. lease' \in Leases
    BY <1>2, <1>a, ClaimedIsLease DEF Claim
  <2>2. FirstSteps(i) \in [Tasks -> Steps]
    BY DEF FirstSteps, Steps
  <2>3. step' \in [Invocations -> [Tasks -> Steps]]
    BY <1>2, <2>2 DEF Claim
  <2>4. phase' \in [Invocations -> Phases]
    BY <1>2 DEF Claim, Phases
  <2>5. UNCHANGED <<clock, receipt, late, began, known, posts, runs>>
    BY <1>2 DEF Claim, github
  <2> QED BY <2>1, <2>3, <2>4, <2>5
<1>3. CASE Claim(i) /\ ~ Claimable(lease, i, tick, clock)
  <2>1. End(i) /\ UNCHANGED <<clock, lease, receipt, late, posts, runs>>
    BY <1>3 DEF Claim, github
  <2> QED BY <2>1, EndKeepsTypes
<1>4. CASE ClaimFails(i)
  <2>1. [by |-> i, op |-> "claim", tick |-> tick] \in Requests
    BY <1>a DEF Requests
  <2>2. End(i) /\ UNCHANGED <<clock, lease, receipt, posts, runs>> /\ late' \subseteq Requests
    BY <1>4, <2>1 DEF ClaimFails, github
  <2> QED BY <2>2, EndKeepsTypes
<1>5. CASE Release(i)
  <2>1. lease' \in Leases
    BY <1>5, ReleasedIsLease DEF Release
  <2>2. End(i) /\ UNCHANGED <<clock, receipt, late, posts, runs>>
    BY <1>5 DEF Release, github
  <2> QED BY <2>1, <2>2, EndKeepsTypes
<1>6. CASE ReleaseUnanswered(i)
  <2>1. [by |-> i, op |-> "release"] \in Requests
    BY DEF Requests
  <2>2. End(i) /\ UNCHANGED <<clock, lease, receipt, posts, runs>> /\ late' \subseteq Requests
    BY <1>6, <2>1 DEF ReleaseUnanswered, github
  <2> QED BY <2>2, EndKeepsTypes
<1>7. CASE Kill(i)
  <2>1. End(i) /\ UNCHANGED <<clock, lease, receipt, late, posts, runs>>
    BY <1>7 DEF Kill, github
  <2> QED BY <2>1, EndKeepsTypes
<1> QED BY <1>1, <1>2, <1>3, <1>4, <1>5, <1>6, <1>7

LEMMA OutsideKeepsTypes ==
  ASSUME TypeOK, UNCHANGED registry,
         \/ \E q \in late : ApplyLate(q)
         \/ \E p \in posts : Accept(p) \/ Reject(p)
         \/ \E r \in runs : Appear(r) \/ Complete(r)
         \/ Pass
  PROVE  TypeOK'
<1> USE DEF TypeOK
<1>1. ASSUME NEW q \in late, ApplyLate(q) PROVE TypeOK'
  <2>1. q \in Requests /\ late' \subseteq Requests
    BY <1>1 DEF ApplyLate
  <2>2. UNCHANGED <<clock, phase, began, step, known, posts, runs>>
    BY <1>1 DEF ApplyLate, ticks, github
  <2>3. CASE q.op = "claim"
    <3>1. lease' = Claimed(lease, q.by, q.tick, clock) /\ UNCHANGED receipt
      BY <1>1, <2>3 DEF ApplyLate
    <3> QED BY <2>1, <2>2, <2>3, <3>1, RequestFields, ClaimedIsLease
  <2>4. CASE q.op = "release"
    <3>1. lease' = Released(lease) /\ UNCHANGED receipt
      BY <1>1, <2>4 DEF ApplyLate
    <3> QED BY <2>1, <2>2, <3>1, ReleasedIsLease
  <2>5. CASE q.op = "put"
    <3>1. receipt' = [receipt EXCEPT ![q.task] = q.receipt] /\ UNCHANGED lease
      BY <1>1, <2>5 DEF ApplyLate
    <3>2. q.receipt \in Receipts
      BY <2>1, <2>5, RequestFields
    <3> QED BY <2>1, <2>2, <3>1, <3>2
  <2> QED BY <2>1, <2>3, <2>4, <2>5, RequestFields
<1>2. ASSUME NEW p \in posts, Accept(p) \/ Reject(p) PROVE TypeOK'
  <2>1. [by |-> p.by, task |-> p.task, slot |-> p.slot,
         created |-> clock, status |-> "active", visible |-> FALSE] \in Runs
    BY DEF Dispatches, Runs
  <2>2. posts' \subseteq Dispatches /\ runs' \subseteq Runs
    BY <1>2, <2>1 DEF Accept, Reject
  <2>3. UNCHANGED <<clock, lease, receipt, late, phase, began, step, known>>
    BY <1>2 DEF Accept, Reject, ticks
  <2> QED BY <2>2, <2>3
<1>3. ASSUME NEW r \in runs, Appear(r) \/ Complete(r) PROVE TypeOK'
  <2>1. [r EXCEPT !.visible = TRUE] \in Runs
    BY DEF Runs
  <2>2. \A outcome \in {"success", "failure"} : [r EXCEPT !.status = outcome] \in Runs
    BY DEF Runs
  <2>3. runs' \subseteq Runs
    BY <1>3, <2>1, <2>2 DEF Appear, Complete, Replace
  <2>4. UNCHANGED <<clock, lease, receipt, late, phase, began, step, known, posts>>
    BY <1>3 DEF Appear, Complete, ticks
  <2> QED BY <2>3, <2>4
<1>4. ASSUME Pass PROVE TypeOK'
  BY <1>4 DEF Pass, ticks, github
<1> QED BY <1>1, <1>2, <1>3, <1>4

LEMMA NextKeepsTypes == TypeOK /\ [Next]_vars => TypeOK'
<1> SUFFICES ASSUME TypeOK, [Next]_vars PROVE TypeOK'
  OBVIOUS
<1>1. CASE UNCHANGED vars
  BY <1>1 DEF TypeOK, vars
<1>2. CASE Next
  BY <1>2, TaskStepKeepsTypes, InvocationKeepsTypes, OutsideKeepsTypes DEF Next, Step
<1> QED BY <1>1, <1>2

(* The clock, the lease, the receipts, the invocations and GitHub's runs   *)
(* keep their shapes in every reachable state.                             *)
THEOREM TypeCorrect == Spec => []TypeOK
<1>1. Init => TypeOK
  BY TimesAssumption DEF Init, TypeOK, NoLease, Leases, NoReceipt, Phases, Steps
<1> QED BY <1>1, NextKeepsTypes, PTL DEF Spec

---------------------------------------------------------------------------
(* One worker.  A worker owns a lease that ends after the platform would   *)
(* have killed it; what a request may do to the lease that nobody waits    *)
(* for any more concerns an invocation that has ended.                     *)
LeaseInv ==
  /\ \A i \in Invocations : Running(i) => began[i] <= clock /\ clock <= began[i] + RunLimit
  /\ \A i \in Invocations :
       Working(i) => lease.owner = i /\ began[i] + LeaseLength <= lease.leaseUntil
  /\ \A i \in Invocations : phase[i] \in {"new", "claiming"} => lease.owner # i
  /\ \A q \in late : q.op \in {"claim", "release"} => phase[q.by] = "ended"

(* One order of writes.  The receipts are stamped with the times of their  *)
(* writers, no two of which share a tick.                                  *)
Stamped(t, r) == r.slot = Slot(t, r.at)
Puts == {q \in late : q.op = "put"}

ReceiptInv ==
  /\ \A t \in Tasks :
       receipt[t] # NoReceipt =>
         Stamped(t, receipt[t]) /\ TickOf(receipt[t].at) <= lease.lastTick
  /\ \A i \in Invocations :
       Working(i) =>
         /\ TickOf(began[i]) = lease.lastTick
         /\ \A t \in Tasks : receipt[t].at <= began[i]
  /\ \A q \in Puts :
       /\ Stamped(q.task, q.receipt)
       /\ phase[q.by] \in {"working", "ended"}
       /\ Working(q.by) => q.receipt.at = began[q.by]
       /\ lease.owner = q.by =>
            /\ receipt[q.task].at <= q.receipt.at
            /\ TickOf(q.receipt.at) <= lease.lastTick
       /\ \A other \in Puts : other.by = q.by => other.receipt.at = q.receipt.at
       /\ \A other \in late : other.op = "claim" => other.by # q.by

(* While an invocation works, its lease has not ended.                     *)
LEMMA WorkerHolds ==
  ASSUME TypeOK, LeaseInv, NEW i \in Invocations, Working(i)
  PROVE  Holds(lease, i, clock)
<1>1. began[i] \in Nat /\ clock \in Nat /\ lease.leaseUntil \in Nat
  BY DEF TypeOK, Leases
<1>2. Running(i)
  BY DEF Running, Working
<1>3. clock <= began[i] + RunLimit /\ lease.owner = i /\ began[i] + LeaseLength <= lease.leaseUntil
  BY <1>2 DEF LeaseInv
<1>4. RunLimit \in Nat /\ LeaseLength \in Nat /\ RunLimit < LeaseLength
  BY TimesAssumption, DispatchAssumption
<1> QED BY <1>1, <1>3, <1>4 DEF Holds

(* So a claim that is granted to another one finds no worker.              *)
LEMMA ClaimFindsNoWorker ==
  ASSUME TypeOK, LeaseInv, NEW i \in Invocations, ~ Working(i), NEW tick \in Nat,
         Claimable(lease, i, tick, clock), NEW j \in Invocations
  PROVE  ~ Working(j)
<1>1. SUFFICES ASSUME Working(j) PROVE FALSE
  OBVIOUS
<1>2. Holds(lease, j, clock)
  BY <1>1, WorkerHolds
<1>3. i # j
  BY <1>1
<1> QED BY <1>2, <1>3 DEF Holds, Claimable, TypeOK, Leases

LEMMA TaskStepKeepsLease ==
  ASSUME TypeOK, LeaseInv, NEW i \in Invocations, NEW t \in Tasks, TaskStep(i, t)
  PROVE  LeaseInv' /\ UNCHANGED <<lease, clock, phase, began>>
<1>1. UNCHANGED <<lease, clock, phase, began>>
  BY DEF TaskStep, Get, List, BeforePost, Post, Answer, AfterPost, TaskFails, WriteUnanswered, github
<1>2. \A q \in late' : q \in late \/ q.op = "put"
  BY DEF TaskStep, Get, List, BeforePost, Post, Answer, AfterPost, TaskFails, WriteUnanswered,
         github, PutRequest
<1> QED BY <1>1, <1>2 DEF LeaseInv, Running, Working

LEMMA EndKeepsLease ==
  ASSUME TypeOK, LeaseInv, NEW i \in Invocations, Running(i), End(i),
         UNCHANGED clock,
         lease' = lease \/ (lease' = Released(lease) /\ lease.owner = i),
         \A q \in late' : q \in late \/ q.by = i
  PROVE  LeaseInv'
<1>1. phase' = [phase EXCEPT ![i] = "ended"] /\ began' = [began EXCEPT ![i] = 0]
  BY DEF End
<1>2. phase'[i] = "ended"
  BY <1>1 DEF TypeOK
<1>3. \A j \in Invocations : j # i => phase'[j] = phase[j] /\ began'[j] = began[j]
  BY <1>1 DEF TypeOK
<1>4. \A j \in Invocations : Running(j)' => j # i
  BY <1>2 DEF Running
<1>5. \A j \in Invocations : Running(j)' => began'[j] <= clock' /\ clock' <= began'[j] + RunLimit
  BY <1>3, <1>4 DEF LeaseInv, Running
<1>6. \A j \in Invocations :
        Working(j)' => lease'.owner = j /\ began'[j] + LeaseLength <= lease'.leaseUntil
  <2> SUFFICES ASSUME NEW j \in Invocations, Working(j)'
               PROVE  lease'.owner = j /\ began'[j] + LeaseLength <= lease'.leaseUntil
    OBVIOUS
  <2>1. j # i /\ Working(j) /\ began'[j] = began[j]
    BY <1>2, <1>3 DEF Working
  <2>2. lease.owner = j /\ began[j] + LeaseLength <= lease.leaseUntil
    BY <2>1 DEF LeaseInv
  <2> QED BY <2>1, <2>2
<1>7. \A j \in Invocations : phase'[j] \in {"new", "claiming"} => lease'.owner # j
  <2> SUFFICES ASSUME NEW j \in Invocations, phase'[j] \in {"new", "claiming"}
               PROVE  lease'.owner # j
    OBVIOUS
  <2>1. j # i /\ lease.owner # j
    BY <1>2, <1>3 DEF LeaseInv
  <2>2. Released(lease).owner = NoOne
    BY DEF Released, TypeOK, Leases
  <2> QED BY <2>1, <2>2, TimesAssumption
<1>8. \A q \in late' : q.op \in {"claim", "release"} => phase'[q.by] = "ended"
  <2> SUFFICES ASSUME NEW q \in late', q.op \in {"claim", "release"}
               PROVE  phase'[q.by] = "ended"
    OBVIOUS
  <2>1. CASE q.by = i
    BY <2>1, <1>2
  <2>2. CASE q \in late /\ q.by # i
    <3>1. q.by \in Invocations
      BY <2>2, RequestFields DEF TypeOK
    <3> QED BY <2>2, <3>1, <1>3 DEF LeaseInv
  <2> QED BY <2>1, <2>2
<1> QED BY <1>5, <1>6, <1>7, <1>8 DEF LeaseInv

LEMMA InvocationKeepsLease ==
  ASSUME TypeOK, LeaseInv, NEW i \in Invocations,
         Start(i) \/ Claim(i) \/ ClaimFails(i) \/ Release(i) \/ ReleaseUnanswered(i) \/ Kill(i)
  PROVE  LeaseInv'
<1> DEFINE tick == TickOf(began[i])
<1>a. tick \in Nat /\ began[i] \in Nat /\ clock \in Nat
  BY TickIsNat DEF TypeOK
<1>b. \A q \in late : q.by \in Invocations
  BY RequestFields DEF TypeOK
<1>c. RunLimit \in Nat /\ LeaseLength \in Nat
  BY TimesAssumption, DispatchAssumption
<1>1. CASE Start(i)
  <2>1. phase'[i] = "claiming" /\ began'[i] = clock /\ phase[i] = "new"
    BY <1>1 DEF Start, TypeOK
  <2>2. \A j \in Invocations : j # i => phase'[j] = phase[j] /\ began'[j] = began[j]
    BY <1>1 DEF Start, TypeOK
  <2>3. UNCHANGED <<clock, lease, late>>
    BY <1>1 DEF Start
  <2>4. \A j \in Invocations : Running(j)' => began'[j] <= clock' /\ clock' <= began'[j] + RunLimit
    BY <2>1, <2>2, <2>3, <1>a, <1>c DEF LeaseInv, Running
  <2>5. \A j \in Invocations : Working(j)' => j # i /\ Working(j)
    BY <2>1, <2>2 DEF Working
  <2>6. \A j \in Invocations :
          Working(j)' => lease'.owner = j /\ began'[j] + LeaseLength <= lease'.leaseUntil
    BY <2>2, <2>3, <2>5 DEF LeaseInv
  <2>7. \A q \in late' : q.op \in {"claim", "release"} => phase'[q.by] = "ended"
    BY <2>1, <2>2, <2>3, <1>b DEF LeaseInv
  <2>8. \A j \in Invocations : phase'[j] \in {"new", "claiming"} => lease'.owner # j
    BY <2>1, <2>2, <2>3 DEF LeaseInv
  <2> QED BY <2>4, <2>6, <2>7, <2>8 DEF LeaseInv
<1>2. CASE Claim(i) /\ Claimable(lease, i, tick, clock)
  <2>1. phase[i] = "claiming" /\ UNCHANGED <<clock, late, began>>
    BY <1>2 DEF Claim
  <2>2. \A j \in Invocations : ~ Working(j)
    BY <1>2, <1>a, <2>1, ClaimFindsNoWorker DEF Working
  <2>3. ~ Holds(lease, i, clock)
    BY <2>1 DEF LeaseInv, Holds
  <2>4. lease' = [owner |-> i, leaseUntil |-> clock + LeaseLength, lastTick |-> tick]
    BY <1>2, <2>3 DEF Claim, Claimed
  <2>5. phase' = [phase EXCEPT ![i] = "working"]
    BY <1>2 DEF Claim
  <2>6. \A j \in Invocations : j # i => phase'[j] = phase[j] /\ ~ Working(j)'
    BY <2>2, <2>5 DEF Working, TypeOK
  <2>7. phase'[i] = "working"
    BY <2>5 DEF TypeOK
  <2>8. began[i] <= clock /\ \A j \in Invocations : Running(j)' => Running(j)
    BY <2>1, <2>6 DEF LeaseInv, Running
  <2>9. \A j \in Invocations : Running(j)' => began'[j] <= clock' /\ clock' <= began'[j] + RunLimit
    BY <2>1, <2>8 DEF LeaseInv
  <2>10. began'[i] + LeaseLength <= lease'.leaseUntil /\ lease'.owner = i
    BY <2>1, <2>4, <2>8, <1>a, <1>c
  <2>11. \A q \in late' : q.op \in {"claim", "release"} => phase'[q.by] = "ended"
    BY <2>1, <2>5, <2>6, <1>b DEF LeaseInv
  <2>12. \A j \in Invocations : phase'[j] \in {"new", "claiming"} => lease'.owner # j
    BY <2>7, <2>10
  <2>13. \A j \in Invocations :
           Working(j)' => lease'.owner = j /\ began'[j] + LeaseLength <= lease'.leaseUntil
    BY <2>6, <2>10
  <2> QED BY <2>9, <2>11, <2>12, <2>13 DEF LeaseInv
<1>3. CASE Claim(i) /\ ~ Claimable(lease, i, tick, clock)
  <2>1. Running(i) /\ End(i) /\ UNCHANGED <<clock, lease, late>>
    BY <1>3 DEF Claim, Running
  <2> QED BY <2>1, EndKeepsLease
<1>4. CASE ClaimFails(i)
  <2>1. Running(i) /\ End(i) /\ UNCHANGED <<clock, lease>> /\ \A q \in late' : q \in late \/ q.by = i
    BY <1>4 DEF ClaimFails, Running
  <2> QED BY <2>1, EndKeepsLease
<1>5. CASE Release(i)
  <2>1. Running(i) /\ End(i) /\ UNCHANGED <<clock, late>>
    BY <1>5 DEF Release, Running, Working
  <2>2. lease' = lease \/ (lease' = Released(lease) /\ lease.owner = i)
    BY <1>5 DEF Release, MayWrite, Holds
  <2> QED BY <2>1, <2>2, EndKeepsLease
<1>6. CASE ReleaseUnanswered(i)
  <2>1. Running(i) /\ End(i) /\ UNCHANGED <<clock, lease>> /\ \A q \in late' : q \in late \/ q.by = i
    BY <1>6 DEF ReleaseUnanswered, Running, Working
  <2> QED BY <2>1, EndKeepsLease
<1>7. CASE Kill(i)
  <2>1. Running(i) /\ End(i) /\ UNCHANGED <<clock, lease, late>>
    BY <1>7 DEF Kill
  <2> QED BY <2>1, EndKeepsLease
<1> QED BY <1>1, <1>2, <1>3, <1>4, <1>5, <1>6, <1>7

(* What a late claim or release may do to the lease.                       *)
LEMMA LateKeepsLease ==
  ASSUME TypeOK, LeaseInv, NEW q \in late, ApplyLate(q)
  PROVE  LeaseInv'
<1>1. q \in Requests /\ q.by \in Invocations
  BY RequestFields DEF TypeOK
<1>2. UNCHANGED <<clock, phase, began>> /\ late' \subseteq late
  BY DEF ApplyLate, ticks
<1>3. CASE q.op = "put"
  <2>1. UNCHANGED lease
    BY <1>3 DEF ApplyLate
  <2> QED BY <1>2, <2>1 DEF LeaseInv, Running, Working
<1>4. CASE q.op \in {"claim", "release"}
  <2>1. phase[q.by] = "ended"
    BY <1>4 DEF LeaseInv
  <2>2. lease' = lease \/ \A j \in Invocations : ~ Working(j)
    <3>1. CASE q.op = "claim"
      <4>1. Claimable(lease, q.by, q.tick, clock) /\ q.tick \in Nat
        BY <1>1, <3>1, RequestFields DEF ApplyLate
      <4>2. ~ Working(q.by)
        BY <2>1 DEF Working
      <4> QED BY <1>1, <4>1, <4>2, ClaimFindsNoWorker
    <3>2. CASE q.op = "release"
      <4>1. lease.owner = q.by
        BY <3>2 DEF ApplyLate, MayWrite, Holds
      <4> QED BY <2>1, <4>1 DEF LeaseInv, Working
    <3> QED BY <1>4, <3>1, <3>2
  <2>3. lease'.owner = lease.owner \/ lease'.owner = q.by \/ lease'.owner = NoOne
    <3>1. CASE q.op = "claim"
      <4>1. lease' = Claimed(lease, q.by, q.tick, clock)
        BY <3>1 DEF ApplyLate
      <4> QED BY <4>1 DEF Claimed
    <3>2. CASE q.op = "release"
      <4>1. lease' = Released(lease) /\ lease \in Leases
        BY <3>2 DEF ApplyLate, TypeOK
      <4> QED BY <4>1 DEF Released, Leases
    <3> QED BY <1>4, <3>1, <3>2
  <2>4. \A j \in Invocations : phase'[j] \in {"new", "claiming"} => lease'.owner # j
    BY <1>2, <2>1, <2>3, TimesAssumption DEF LeaseInv
  <2>5. \A j \in Invocations :
          Working(j)' => lease'.owner = j /\ began'[j] + LeaseLength <= lease'.leaseUntil
    BY <1>2, <2>2 DEF LeaseInv, Working
  <2> QED BY <1>2, <2>4, <2>5 DEF LeaseInv, Running
<1> QED BY <1>1, <1>3, <1>4, RequestFields

LEMMA NextKeepsLease == TypeOK /\ LeaseInv /\ [Next]_vars => LeaseInv'
<1> SUFFICES ASSUME TypeOK, LeaseInv, [Next]_vars PROVE LeaseInv'
  OBVIOUS
<1>1. CASE UNCHANGED vars
  BY <1>1 DEF LeaseInv, Running, Working, vars
<1>2. ASSUME NEW p \in posts, Accept(p) \/ Reject(p) PROVE LeaseInv'
  BY <1>2 DEF Accept, Reject, ticks, LeaseInv, Running, Working
<1>3. ASSUME NEW r \in runs, Appear(r) \/ Complete(r) PROVE LeaseInv'
  BY <1>3 DEF Appear, Complete, ticks, LeaseInv, Running, Working
<1>4. ASSUME Pass PROVE LeaseInv'
  <2>1. clock' = clock + 1 /\ clock \in Nat /\ UNCHANGED <<lease, late, phase, began>>
    BY <1>4 DEF Pass, ticks, TypeOK
  <2>2. \A i \in Invocations : Running(i) => clock + 1 - began[i] <= RunLimit
    BY <1>4 DEF Pass
  <2>3. \A i \in Invocations : began[i] \in Nat
    BY DEF TypeOK
  <2>4. \A i \in Invocations : Running(i) => began[i] <= clock' /\ clock' <= began[i] + RunLimit
    BY <2>1, <2>2, <2>3, DispatchAssumption DEF LeaseInv
  <2> QED BY <2>1, <2>4 DEF LeaseInv, Running, Working
<1> QED
  BY <1>1, <1>2, <1>3, <1>4, TaskStepKeepsLease, InvocationKeepsLease, LateKeepsLease DEF Next, Step

LEMMA InitLease == Init => TypeOK /\ LeaseInv
<1> SUFFICES ASSUME Init PROVE TypeOK /\ LeaseInv
  OBVIOUS
<1>1. TypeOK
  BY TimesAssumption DEF Init, TypeOK, NoLease, Leases, NoReceipt, Phases, Steps
<1>2. LeaseInv
  BY TimesAssumption DEF Init, LeaseInv, NoLease, Running, Working
<1> QED BY <1>1, <1>2

(* No two ticks of the scheduler ever work at the same time, whatever the  *)
(* lengths of the lease and of the run, if the lease is the longer one.    *)
THEOREM OneWorkerAtATime == Spec => []OneWorker
<1>1. TypeOK /\ LeaseInv /\ [Next]_vars => (TypeOK /\ LeaseInv)'
  BY NextKeepsTypes, NextKeepsLease
<1>2. LeaseInv => OneWorker
  BY DEF LeaseInv, OneWorker
<1> QED BY InitLease, <1>1, <1>2, PTL DEF Spec

---------------------------------------------------------------------------
(* The order of the receipts.                                              *)
LEMMA LaterTick ==
  ASSUME NEW m \in Nat, NEW n \in Nat, TickOf(m) < TickOf(n)
  PROVE  m < n
<1>1. SUFFICES ASSUME n <= m PROVE FALSE
  OBVIOUS
<1>2. TickOf(n) <= TickOf(m)
  BY <1>1, QuotientGrows, TimesAssumption DEF TickOf
<1> QED BY <1>2, TickIsNat

LEMMA LaterSlot ==
  ASSUME NEW t \in Tasks, NEW m \in Nat, NEW n \in Nat, m <= n
  PROVE  Slot(t, m) <= Slot(t, n)
BY QuotientGrows, TimesAssumption DEF Slot

LEMMA ReceiptFields ==
  ASSUME TypeOK, NEW t \in Tasks
  PROVE  /\ receipt[t].at \in Nat
         /\ receipt[t].slot \in Nat \cup {-1}
         /\ receipt[t] # NoReceipt => receipt[t].slot \in Nat
         /\ receipt[t] = NoReceipt => receipt[t].slot = -1
BY DEF TypeOK, Receipts, NoReceipt

(* A receipt stamped no earlier than the stored one is for no earlier slot. *)
LEMMA StampedLater ==
  ASSUME TypeOK, ReceiptInv, NEW t \in Tasks, NEW r \in Receipts,
         Stamped(t, r), receipt[t].at <= r.at
  PROVE  r.slot >= receipt[t].slot
<1>1. r.at \in Nat /\ r.slot \in Nat
  BY DEF Receipts
<1>2. CASE receipt[t] = NoReceipt
  BY <1>1, <1>2, ReceiptFields
<1>3. CASE receipt[t] # NoReceipt
  <2>1. receipt[t].slot = Slot(t, receipt[t].at) /\ r.slot = Slot(t, r.at)
    BY <1>3 DEF ReceiptInv, Stamped
  <2>2. Slot(t, receipt[t].at) <= Slot(t, r.at)
    BY <1>1, ReceiptFields, LaterSlot
  <2> QED BY <2>1, <2>2, <1>1, ReceiptFields
<1> QED BY <1>2, <1>3

(* What a working invocation writes is stamped with its own time.          *)
LEMMA OwnStamp ==
  ASSUME TypeOK, ReceiptInv, NEW i \in Invocations, NEW t \in Tasks, Working(i),
         NEW state \in {"sending", "accepted", "rejected"}
  PROVE  LET r == Stamp(i, t, state) IN
         /\ r \in Receipts
         /\ Stamped(t, r)
         /\ r.at = began[i]
         /\ receipt[t].at <= r.at
         /\ TickOf(r.at) = lease.lastTick
<1>1. Stamp(i, t, state) \in Receipts
  BY StampIsReceipt
<1>2. Stamp(i, t, state).at = began[i] /\ Stamp(i, t, state).slot = Slot(t, began[i])
  BY DEF Stamp, MySlot
<1> QED BY <1>1, <1>2 DEF ReceiptInv, Stamped

(* A write by the holder of the lease, in time or late.                    *)
LEMMA WriteKeepsOrder ==
  ASSUME TypeOK, LeaseInv, ReceiptInv, NEW i \in Invocations, NEW t \in Tasks, NEW r \in Receipts,
         lease.owner = i,
         receipt' = [receipt EXCEPT ![t] = r],
         UNCHANGED <<lease, phase, began>>, late' \subseteq late,
         Stamped(t, r), TickOf(r.at) <= lease.lastTick,
         Working(i) => r.at = began[i],
         \A q \in Puts : q.by = i => q.receipt.at = r.at
  PROVE  ReceiptInv'
<1>1. /\ receipt'[t] = r
      /\ \A u \in Tasks : u # t => receipt'[u] = receipt[u]
  BY DEF TypeOK
<1>2. Puts' \subseteq Puts
  BY DEF Puts
<1>3. r.at \in Nat
  BY DEF Receipts
<1>4. \A u \in Tasks :
        receipt'[u] # NoReceipt =>
          Stamped(u, receipt'[u]) /\ TickOf(receipt'[u].at) <= lease'.lastTick
  BY <1>1 DEF ReceiptInv
<1>5. ASSUME NEW j \in Invocations, Working(j)'
      PROVE  /\ TickOf(began'[j]) = lease'.lastTick
             /\ \A u \in Tasks : receipt'[u].at <= began'[j]
  <2>1. Working(j) /\ j = i
    BY <1>5 DEF LeaseInv, Working
  <2> QED BY <2>1, <1>1, <1>3 DEF ReceiptInv
<1>6. ASSUME NEW q \in Puts'
      PROVE  /\ Stamped(q.task, q.receipt)
             /\ phase'[q.by] \in {"working", "ended"}
             /\ Working(q.by)' => q.receipt.at = began'[q.by]
             /\ lease'.owner = q.by =>
                  /\ receipt'[q.task].at <= q.receipt.at
                  /\ TickOf(q.receipt.at) <= lease'.lastTick
             /\ \A other \in Puts' : other.by = q.by => other.receipt.at = q.receipt.at
             /\ \A other \in late' : other.op = "claim" => other.by # q.by
  <2>1. q \in Puts
    BY <1>2, <1>6
  <2>2. q.task \in Tasks
    BY <2>1, RequestFields DEF Puts, TypeOK
  <2>3. lease'.owner = q.by =>
          /\ receipt'[q.task].at <= q.receipt.at
          /\ TickOf(q.receipt.at) <= lease'.lastTick
    BY <2>1, <2>2, <1>1, <1>3 DEF ReceiptInv
  <2>4. Working(q.by)' => Working(q.by)
    BY DEF Working
  <2> QED BY <2>1, <2>3, <2>4, <1>2 DEF ReceiptInv
<1> QED BY <1>4, <1>5, <1>6 DEF ReceiptInv

(* A request that nobody waits for joins the others.                       *)
LEMMA UnansweredKeepsOrder ==
  ASSUME TypeOK, LeaseInv, ReceiptInv, NEW i \in Invocations, NEW t \in Tasks,
         WriteUnanswered(i, t)
  PROVE  ReceiptInv'
<1> DEFINE state == IF step[i][t] = "put" THEN "sending" ELSE step[i][t]
           new == PutRequest(i, t, state)
<1>1. Working(i) /\ state \in {"sending", "accepted", "rejected"}
  BY DEF WriteUnanswered
<1>2. late' = late \cup {new} /\ UNCHANGED <<lease, receipt, phase, began>>
  BY DEF WriteUnanswered
<1>3. /\ new.by = i /\ new.op = "put" /\ new.task = t
      /\ new.receipt = Stamp(i, t, state)
  BY DEF PutRequest
<1>4. /\ Stamped(t, new.receipt)
      /\ new.receipt.at = began[i]
      /\ receipt[t].at <= new.receipt.at
      /\ TickOf(new.receipt.at) = lease.lastTick
  BY <1>1, <1>3, OwnStamp
<1>5. TickOf(new.receipt.at) \in Nat
  BY <1>4, TickIsNat DEF TypeOK
<1>6. Puts' = Puts \cup {new}
  BY <1>2, <1>3 DEF Puts
<1>7. phase[i] = "working"
  BY <1>1 DEF Working
<1>8. ASSUME NEW q \in Puts, q.by = i PROVE q.receipt.at = new.receipt.at
  BY <1>1, <1>4, <1>8 DEF ReceiptInv
<1>9. ASSUME NEW q \in late', q.op = "claim" PROVE q \in late /\ q.by # i
  <2>1. q \in late
    BY <1>2, <1>3, <1>9
  <2> QED BY <2>1, <1>7, <1>9 DEF LeaseInv
<1>10. ASSUME NEW q \in Puts'
       PROVE  /\ Stamped(q.task, q.receipt)
              /\ phase'[q.by] \in {"working", "ended"}
              /\ Working(q.by)' => q.receipt.at = began'[q.by]
              /\ lease'.owner = q.by =>
                   /\ receipt'[q.task].at <= q.receipt.at
                   /\ TickOf(q.receipt.at) <= lease'.lastTick
              /\ \A other \in Puts' : other.by = q.by => other.receipt.at = q.receipt.at
              /\ \A other \in late' : other.op = "claim" => other.by # q.by
  <2>1. CASE q = new
    <3>1. \A other \in Puts' : other.by = q.by => other.receipt.at = q.receipt.at
      BY <2>1, <1>3, <1>6, <1>8
    <3>2. \A other \in late' : other.op = "claim" => other.by # q.by
      BY <2>1, <1>3, <1>9
    <3>3. TickOf(q.receipt.at) <= lease'.lastTick
      BY <2>1, <1>2, <1>4, <1>5
    <3> QED BY <2>1, <3>1, <3>2, <3>3, <1>2, <1>3, <1>4, <1>7
  <2>2. CASE q \in Puts
    <3>1. \A other \in Puts' : other.by = q.by => other.receipt.at = q.receipt.at
      BY <2>2, <1>3, <1>6, <1>8 DEF ReceiptInv
    <3>2. \A other \in late' : other.op = "claim" => other.by # q.by
      BY <2>2, <1>9 DEF ReceiptInv
    <3> QED BY <2>2, <3>1, <3>2, <1>2 DEF ReceiptInv, Working
  <2> QED BY <2>1, <2>2, <1>6
<1> QED BY <1>2, <1>10 DEF ReceiptInv, Working

LEMMA TaskStepKeepsOrder ==
  ASSUME TypeOK, LeaseInv, ReceiptInv, NEW i \in Invocations, NEW t \in Tasks, TaskStep(i, t)
  PROVE  ReceiptInv'
<1>1. ASSUME NEW state \in {"sending", "accepted", "rejected"}, Working(i), MayWrite(lease, i, clock),
             receipt' = [receipt EXCEPT ![t] = Stamp(i, t, state)],
             UNCHANGED <<lease, phase, began, late>>
      PROVE  ReceiptInv'
  <2> DEFINE r == Stamp(i, t, state)
  <2>1. /\ r \in Receipts /\ Stamped(t, r) /\ r.at = began[i]
        /\ TickOf(r.at) = lease.lastTick
    BY <1>1, OwnStamp
  <2>2. TickOf(r.at) <= lease.lastTick
    BY <2>1, TickIsNat DEF TypeOK
  <2>3. lease.owner = i
    BY <1>1 DEF MayWrite, Holds
  <2>4. \A q \in Puts : q.by = i => q.receipt.at = r.at
    BY <1>1, <2>1 DEF ReceiptInv
  <2> QED BY <1>1, <2>1, <2>2, <2>3, <2>4, WriteKeepsOrder
<1>2. CASE BeforePost(i, t)
  BY <1>1, <1>2 DEF BeforePost, At
<1>3. CASE AfterPost(i, t)
  BY <1>1, <1>3 DEF AfterPost
<1>4. CASE WriteUnanswered(i, t)
  BY <1>4, UnansweredKeepsOrder
<1>5. CASE Get(i, t) \/ List(i, t) \/ Post(i, t) \/ Answer(i, t) \/ TaskFails(i, t)
  <2>1. UNCHANGED <<lease, receipt, late, phase, began>>
    BY <1>5 DEF Get, List, Post, Answer, TaskFails
  <2> QED BY <2>1 DEF ReceiptInv, Puts, Working
<1> QED BY <1>2, <1>3, <1>4, <1>5 DEF TaskStep

(* The end of an invocation.                                               *)
LEMMA EndKeepsOrder ==
  ASSUME TypeOK, LeaseInv, ReceiptInv, NEW i \in Invocations, Running(i), End(i),
         UNCHANGED receipt,
         lease'.lastTick = lease.lastTick,
         lease'.owner = lease.owner \/ lease'.owner = NoOne,
         \A q \in late' :
           \/ q \in late
           \/ q.op = "release"
           \/ q.op = "claim" /\ q.by = i /\ phase[i] = "claiming"
  PROVE  ReceiptInv'
<1>1. phase'[i] = "ended"
  BY DEF End, TypeOK
<1>2. \A j \in Invocations : j # i => phase'[j] = phase[j] /\ began'[j] = began[j]
  BY DEF End, TypeOK
<1>3. \A j \in Invocations : Working(j)' => Working(j) /\ began'[j] = began[j]
  BY <1>1, <1>2 DEF Working
<1>4. Puts' \subseteq Puts
  BY DEF Puts
<1>5. ASSUME NEW q \in Puts'
      PROVE  /\ Stamped(q.task, q.receipt)
             /\ phase'[q.by] \in {"working", "ended"}
             /\ Working(q.by)' => q.receipt.at = began'[q.by]
             /\ lease'.owner = q.by =>
                  /\ receipt'[q.task].at <= q.receipt.at
                  /\ TickOf(q.receipt.at) <= lease'.lastTick
             /\ \A other \in Puts' : other.by = q.by => other.receipt.at = q.receipt.at
             /\ \A other \in late' : other.op = "claim" => other.by # q.by
  <2>1. q \in Puts /\ q.by \in Invocations
    BY <1>4, <1>5, RequestFields DEF Puts, TypeOK
  <2>2. phase'[q.by] \in {"working", "ended"}
    BY <2>1, <1>1, <1>2 DEF ReceiptInv
  <2>3. \A other \in late' : other.op = "claim" => other.by # q.by
    BY <2>1 DEF ReceiptInv
  <2>4. lease'.owner = q.by => lease.owner = q.by
    BY <2>1, TimesAssumption
  <2>5. \A other \in Puts' : other.by = q.by => other.receipt.at = q.receipt.at
    BY <2>1, <1>4 DEF ReceiptInv
  <2>6. Working(q.by)' => q.receipt.at = began'[q.by]
    BY <2>1, <1>3 DEF ReceiptInv
  <2> QED BY <2>1, <2>2, <2>3, <2>4, <2>5, <2>6 DEF ReceiptInv
<1> QED BY <1>3, <1>5 DEF ReceiptInv

(* A claim that is granted, in time or late, begins a later tick.          *)
LEMMA GrantKeepsOrder ==
  ASSUME TypeOK, LeaseInv, ReceiptInv, NEW i \in Invocations, NEW tick \in Nat,
         ~ Working(i), Claimable(lease, i, tick, clock), ~ Holds(lease, i, clock),
         lease' = Claimed(lease, i, tick, clock),
         UNCHANGED <<receipt, began>>, late' \subseteq late,
         \A q \in Puts : q.by # i,
         \A j \in Invocations : j # i => phase'[j] = phase[j],
         phase'[i] = phase[i] \/ tick = TickOf(began[i])
  PROVE  ReceiptInv'
<1>1. lease'.owner = i /\ lease'.lastTick = tick /\ lease.lastTick < tick
  BY DEF Claimed, Claimable
<1>2. lease.lastTick \in Nat \cup {-1}
  BY DEF TypeOK, Leases
<1>3. \A j \in Invocations : ~ Working(j)
  BY ClaimFindsNoWorker
<1>4. ASSUME NEW t \in Tasks, receipt[t] # NoReceipt
      PROVE  /\ Stamped(t, receipt[t])
             /\ TickOf(receipt[t].at) < tick
  <2>1. TickOf(receipt[t].at) <= lease.lastTick /\ Stamped(t, receipt[t])
    BY <1>4 DEF ReceiptInv
  <2>2. TickOf(receipt[t].at) \in Nat
    BY ReceiptFields, TickIsNat
  <2> QED BY <2>1, <2>2, <1>1, <1>2
<1>5. \A t \in Tasks :
        receipt'[t] # NoReceipt =>
          Stamped(t, receipt'[t]) /\ TickOf(receipt'[t].at) <= lease'.lastTick
  BY <1>1, <1>4, ReceiptFields, TickIsNat
<1>6. ASSUME NEW j \in Invocations, Working(j)'
      PROVE  /\ TickOf(began'[j]) = lease'.lastTick
             /\ \A t \in Tasks : receipt'[t].at <= began'[j]
  <2>1. j = i /\ tick = TickOf(began[i])
    BY <1>3, <1>6 DEF Working
  <2>2. began[i] \in Nat
    BY DEF TypeOK
  <2>3. ASSUME NEW t \in Tasks PROVE receipt[t].at <= began[i]
    <3>1. CASE receipt[t] = NoReceipt
      BY <3>1, <2>2 DEF NoReceipt
    <3>2. CASE receipt[t] # NoReceipt
      BY <3>2, <2>1, <2>2, <1>4, LaterTick, ReceiptFields
    <3> QED BY <3>1, <3>2
  <2> QED BY <2>1, <2>3, <1>1
<1>7. Puts' \subseteq Puts
  BY DEF Puts
<1>8. ASSUME NEW q \in Puts'
      PROVE  /\ Stamped(q.task, q.receipt)
             /\ phase'[q.by] \in {"working", "ended"}
             /\ Working(q.by)' => q.receipt.at = began'[q.by]
             /\ lease'.owner = q.by =>
                  /\ receipt'[q.task].at <= q.receipt.at
                  /\ TickOf(q.receipt.at) <= lease'.lastTick
             /\ \A other \in Puts' : other.by = q.by => other.receipt.at = q.receipt.at
             /\ \A other \in late' : other.op = "claim" => other.by # q.by
  <2>1. q \in Puts /\ q.by # i /\ q.by \in Invocations
    BY <1>7, <1>8, RequestFields DEF Puts, TypeOK
  <2>2. phase'[q.by] = phase[q.by] /\ lease'.owner # q.by
    BY <2>1, <1>1
  <2> QED BY <2>1, <2>2, <1>7 DEF ReceiptInv, Working
<1> QED BY <1>5, <1>6, <1>8 DEF ReceiptInv

LEMMA InvocationKeepsOrder ==
  ASSUME TypeOK, LeaseInv, ReceiptInv, NEW i \in Invocations,
         Start(i) \/ Claim(i) \/ ClaimFails(i) \/ Release(i) \/ ReleaseUnanswered(i) \/ Kill(i)
  PROVE  ReceiptInv'
<1> DEFINE tick == TickOf(began[i])
<1>a. tick \in Nat
  BY TickIsNat DEF TypeOK
<1>b. Released(lease).lastTick = lease.lastTick /\ Released(lease).owner = NoOne
  BY DEF Released, TypeOK, Leases
<1>1. CASE Start(i)
  <2>1. phase[i] = "new" /\ phase'[i] = "claiming" /\ UNCHANGED <<lease, receipt, late>>
    BY <1>1 DEF Start, TypeOK
  <2>2. \A j \in Invocations : j # i => phase'[j] = phase[j] /\ began'[j] = began[j]
    BY <1>1 DEF Start, TypeOK
  <2>3. \A j \in Invocations : Working(j)' => Working(j) /\ began'[j] = began[j]
    BY <2>1, <2>2 DEF Working
  <2>4. \A q \in Puts : q.by \in Invocations /\ q.by # i
    BY <2>1, RequestFields DEF ReceiptInv, Puts, TypeOK
  <2>5. Puts' = Puts
    BY <2>1 DEF Puts
  <2>6. ASSUME NEW q \in Puts'
        PROVE  /\ phase'[q.by] \in {"working", "ended"}
               /\ Working(q.by)' => q.receipt.at = began'[q.by]
    BY <2>2, <2>3, <2>4, <2>5, <2>6 DEF ReceiptInv
  <2> QED BY <2>1, <2>3, <2>5, <2>6 DEF ReceiptInv
<1>2. CASE Claim(i) /\ Claimable(lease, i, tick, clock)
  <2>1. /\ phase[i] = "claiming"
        /\ lease' = Claimed(lease, i, tick, clock)
        /\ phase' = [phase EXCEPT ![i] = "working"]
        /\ UNCHANGED <<receipt, began, late>>
    BY <1>2 DEF Claim
  <2>2. ~ Working(i) /\ ~ Holds(lease, i, clock)
    BY <2>1 DEF Working, LeaseInv, Holds
  <2>3. \A q \in Puts : q.by # i
    BY <2>1 DEF ReceiptInv
  <2>4. \A j \in Invocations : j # i => phase'[j] = phase[j]
    BY <2>1 DEF TypeOK
  <2> QED BY <1>2, <1>a, <2>1, <2>2, <2>3, <2>4, GrantKeepsOrder
<1>3. CASE Claim(i) /\ ~ Claimable(lease, i, tick, clock)
  <2>1. Running(i) /\ End(i) /\ UNCHANGED <<lease, receipt, late>>
    BY <1>3 DEF Claim, Running
  <2> QED BY <2>1, EndKeepsOrder
<1>4. CASE ClaimFails(i)
  <2>1. /\ Running(i) /\ End(i) /\ phase[i] = "claiming" /\ UNCHANGED <<lease, receipt>>
        /\ late' = late \cup {[by |-> i, op |-> "claim", tick |-> tick]}
    BY <1>4 DEF ClaimFails, Running
  <2>2. \A q \in late' : q \in late \/ (q.op = "claim" /\ q.by = i /\ phase[i] = "claiming")
    BY <2>1
  <2> QED BY <2>1, <2>2, EndKeepsOrder
<1>5. CASE Release(i)
  <2>1. Running(i) /\ End(i) /\ UNCHANGED <<receipt, late>>
    BY <1>5 DEF Release, Running, Working
  <2>2. lease' = lease \/ lease' = Released(lease)
    BY <1>5 DEF Release
  <2> QED BY <2>1, <2>2, <1>b, EndKeepsOrder
<1>6. CASE ReleaseUnanswered(i)
  <2>1. Running(i) /\ End(i) /\ UNCHANGED <<lease, receipt>>
    BY <1>6 DEF ReleaseUnanswered, Running, Working
  <2>2. \A q \in late' : q \in late \/ q.op = "release"
    BY <1>6 DEF ReleaseUnanswered
  <2> QED BY <2>1, <2>2, EndKeepsOrder
<1>7. CASE Kill(i)
  <2>1. Running(i) /\ End(i) /\ UNCHANGED <<lease, receipt, late>>
    BY <1>7 DEF Kill
  <2> QED BY <2>1, EndKeepsOrder
<1> QED BY <1>1, <1>2, <1>3, <1>4, <1>5, <1>6, <1>7

(* A late write that is applied is the lease holder's own.                 *)
LEMMA LatePut ==
  ASSUME TypeOK, LeaseInv, ReceiptInv, NEW q \in late, ApplyLate(q), q.op = "put"
  PROVE  /\ q \in Puts /\ q.by \in Invocations /\ q.task \in Tasks /\ q.receipt \in Receipts
         /\ lease.owner = q.by
         /\ receipt' = [receipt EXCEPT ![q.task] = q.receipt]
         /\ UNCHANGED <<lease, phase, began>> /\ late' \subseteq late
         /\ Stamped(q.task, q.receipt)
         /\ receipt[q.task].at <= q.receipt.at
         /\ TickOf(q.receipt.at) <= lease.lastTick
<1>1. q \in Puts /\ q.by \in Invocations /\ q.task \in Tasks /\ q.receipt \in Receipts
  BY RequestFields DEF Puts, TypeOK
<1>2. /\ lease.owner = q.by
      /\ receipt' = [receipt EXCEPT ![q.task] = q.receipt]
      /\ UNCHANGED <<lease, phase, began>> /\ late' \subseteq late
  BY DEF ApplyLate, ticks, MayWrite, Holds
<1> QED BY <1>1, <1>2 DEF ReceiptInv

LEMMA LateKeepsOrder ==
  ASSUME TypeOK, LeaseInv, ReceiptInv, NEW q \in late, ApplyLate(q)
  PROVE  ReceiptInv'
<1>1. q \in Requests /\ q.by \in Invocations
  BY RequestFields DEF TypeOK
<1>2. UNCHANGED <<clock, phase, began>> /\ late' \subseteq late /\ Puts' \subseteq Puts
  BY DEF ApplyLate, ticks, Puts
<1>3. CASE q.op = "put"
  <2>1. Working(q.by) => q.receipt.at = began[q.by]
    BY <1>3, LatePut DEF ReceiptInv
  <2>2. \A other \in Puts : other.by = q.by => other.receipt.at = q.receipt.at
    BY <1>3, LatePut DEF ReceiptInv
  <2> QED BY <1>3, <2>1, <2>2, LatePut, WriteKeepsOrder
<1>4. CASE q.op = "release"
  <2>1. lease' = Released(lease) /\ UNCHANGED receipt
    BY <1>4 DEF ApplyLate
  <2>2. lease'.lastTick = lease.lastTick /\ lease'.owner = NoOne
    BY <2>1 DEF Released, TypeOK, Leases
  <2>3. \A other \in Puts : lease'.owner # other.by
    BY <2>2, RequestFields, TimesAssumption DEF Puts, TypeOK
  <2> QED BY <1>2, <2>1, <2>2, <2>3 DEF ReceiptInv, Working
<1>5. CASE q.op = "claim"
  <2>1. /\ Claimable(lease, q.by, q.tick, clock) /\ q.tick \in Nat
        /\ lease' = Claimed(lease, q.by, q.tick, clock) /\ UNCHANGED receipt
    BY <1>1, <1>5, RequestFields DEF ApplyLate
  <2>2. CASE Holds(lease, q.by, clock)
    <3>1. UNCHANGED lease
      BY <2>1, <2>2 DEF Claimed
    <3> QED BY <1>2, <2>1, <3>1 DEF ReceiptInv, Working
  <2>3. CASE ~ Holds(lease, q.by, clock)
    <3>1. ~ Working(q.by)
      BY <1>5 DEF LeaseInv, Working
    <3>2. \A other \in Puts : other.by # q.by
      BY <1>5 DEF ReceiptInv
    <3> QED BY <1>1, <1>2, <2>1, <2>3, <3>1, <3>2, GrantKeepsOrder
  <2> QED BY <2>2, <2>3
<1> QED BY <1>1, <1>3, <1>4, <1>5, RequestFields

LEMMA NextKeepsOrder == TypeOK /\ LeaseInv /\ ReceiptInv /\ [Next]_vars => ReceiptInv'
<1> SUFFICES ASSUME TypeOK, LeaseInv, ReceiptInv, [Next]_vars PROVE ReceiptInv'
  OBVIOUS
<1>1. CASE UNCHANGED <<lease, receipt, late, phase, began>>
  BY <1>1 DEF ReceiptInv, Puts, Working
<1>2. CASE UNCHANGED vars
  BY <1>1, <1>2 DEF vars
<1>3. ASSUME NEW p \in posts, Accept(p) \/ Reject(p) PROVE ReceiptInv'
  BY <1>1, <1>3 DEF Accept, Reject, ticks
<1>4. ASSUME NEW r \in runs, Appear(r) \/ Complete(r) PROVE ReceiptInv'
  BY <1>1, <1>4 DEF Appear, Complete, ticks
<1>5. CASE Pass
  BY <1>1, <1>5 DEF Pass, ticks
<1> QED
  BY <1>2, <1>3, <1>4, <1>5, TaskStepKeepsOrder, InvocationKeepsOrder, LateKeepsOrder DEF Next, Step

LEMMA InitOrder == Init => ReceiptInv
BY DEF Init, ReceiptInv, Puts, Working

(* One step: the only writes are those of a worker and late ones.          *)
LEMMA StepMovesOn ==
  ASSUME TypeOK, LeaseInv, ReceiptInv, [Next]_vars, NEW t \in Tasks
  PROVE  receipt'[t].slot >= receipt[t].slot
<1>1. CASE UNCHANGED receipt
  <2>1. receipt[t].slot \in Nat \cup {-1}
    BY ReceiptFields
  <2> QED BY <1>1, <2>1
<1>2. ASSUME NEW u \in Tasks, NEW r \in Receipts, receipt' = [receipt EXCEPT ![u] = r],
             Stamped(u, r), receipt[u].at <= r.at
      PROVE  receipt'[t].slot >= receipt[t].slot
  <2>1. receipt'[u] = r /\ (u # t => receipt'[t] = receipt[t])
    BY <1>2 DEF TypeOK
  <2>2. r.slot >= receipt[u].slot
    BY <1>2, StampedLater
  <2>3. receipt[t].slot \in Nat \cup {-1}
    BY ReceiptFields
  <2> QED BY <2>1, <2>2, <2>3
<1>3. ASSUME NEW q \in late, ApplyLate(q) PROVE receipt'[t].slot >= receipt[t].slot
  <2>1. q.op = "put" \/ UNCHANGED receipt
    BY <1>3 DEF ApplyLate
  <2> QED BY <1>1, <1>2, <1>3, <2>1, LatePut
<1>4. ASSUME NEW i \in Invocations, NEW u \in Tasks, TaskStep(i, u)
      PROVE  receipt'[t].slot >= receipt[t].slot
  <2>1. CASE BeforePost(i, u)
    <3>1. Working(i) /\ receipt' = [receipt EXCEPT ![u] = Stamp(i, u, "sending")]
      BY <2>1 DEF BeforePost, At
    <3> QED BY <3>1, <1>2, OwnStamp
  <2>2. CASE AfterPost(i, u)
    <3>1. /\ Working(i) /\ step[i][u] \in {"sending", "accepted", "rejected"}
          /\ receipt' = [receipt EXCEPT ![u] = Stamp(i, u, step[i][u])]
      BY <2>2 DEF AfterPost
    <3> QED BY <3>1, <1>2, OwnStamp
  <2>3. CASE ~ BeforePost(i, u) /\ ~ AfterPost(i, u)
    <3>1. UNCHANGED receipt
      BY <1>4, <2>3 DEF TaskStep, Get, List, Post, Answer, TaskFails, WriteUnanswered
    <3> QED BY <3>1, <1>1
  <2> QED BY <2>1, <2>2, <2>3
<1>5. CASE UNCHANGED vars
  BY <1>1, <1>5 DEF vars
<1>6. ASSUME NEW i \in Invocations,
             Start(i) \/ Claim(i) \/ ClaimFails(i) \/ Release(i) \/ ReleaseUnanswered(i) \/ Kill(i)
      PROVE  receipt'[t].slot >= receipt[t].slot
  BY <1>1, <1>6 DEF Start, Claim, ClaimFails, Release, ReleaseUnanswered, Kill
<1>7. ASSUME NEW p \in posts, Accept(p) \/ Reject(p) PROVE receipt'[t].slot >= receipt[t].slot
  BY <1>1, <1>7 DEF Accept, Reject
<1>8. ASSUME NEW r \in runs, Appear(r) \/ Complete(r) PROVE receipt'[t].slot >= receipt[t].slot
  BY <1>1, <1>8 DEF Appear, Complete
<1>9. CASE Pass
  BY <1>1, <1>9 DEF Pass
<1> QED BY <1>3, <1>4, <1>5, <1>6, <1>7, <1>8, <1>9 DEF Next, Step

(* No write of a killed invocation, however late the database applies it,  *)
(* takes a task's receipt back to an earlier slot.                         *)
THEOREM ReceiptsOnlyMoveOn == Spec => ReceiptsMoveOn
<1> DEFINE IInv == TypeOK /\ LeaseInv /\ ReceiptInv
<1>1. Init => IInv
  BY InitLease, InitOrder
<1>2. IInv /\ [Next]_vars => IInv'
  BY NextKeepsTypes, NextKeepsLease, NextKeepsOrder
<1>3. IInv /\ [Next]_vars => [\A t \in Tasks : receipt'[t].slot >= receipt[t].slot]_vars
  BY StepMovesOn
<1> QED BY <1>1, <1>2, <1>3, PTL DEF Spec, ReceiptsMoveOn

---------------------------------------------------------------------------
(* What is sent.  A tick that began at some time sees a run when GitHub    *)
(* lists it as failed and its delay is over by then; a slot is clear when  *)
(* all that was ever sent for it is seen.  Otherwise a single dispatch is  *)
(* open: one writer sent it, and its run is not older than the receipt.    *)
Seen(t, r, at) == r.visible /\ r.status = "failure" /\ r.created + RetryDelay[t] <= at

Clear(t, s, at) == PostsOf(t, s) = {} /\ \A r \in RunsOf(t, s) : Seen(t, r, at)

Sole(t, s, at, w) ==
  /\ \A p \in PostsOf(t, s) : p.by = w
  /\ \A r \in RunsOf(t, s) :
       ~ Seen(t, r, at) => r.by = w /\ at <= r.created /\ PostsOf(t, s) = {}
  /\ \A r, other \in RunsOf(t, s) :
       ~ Seen(t, r, at) /\ ~ Seen(t, other, at) => r = other

Sent(t, s) == Cardinality(PostsOf(t, s)) + Cardinality(RunsOf(t, s))

(* What a receipt says of its slot.                                        *)
Tells(t, r) ==
  IF r.state = "rejected"
  THEN Clear(t, r.slot, r.at)
  ELSE \E w \in Invocations : Sole(t, r.slot, r.at, w)

(* GitHub has nothing of a later slot than that of the receipt; a run      *)
(* begins in its slot, or later when the slot has a single attempt.        *)
GithubInv ==
  /\ IsFiniteSet(posts) /\ IsFiniteSet(runs)
  /\ \A p \in posts :
       p.slot <= receipt[p.task].slot /\ SlotStart(p.task, p.slot) <= clock
  /\ \A r \in runs :
       /\ r.slot <= receipt[r.task].slot /\ SlotStart(r.task, r.slot) <= r.created
       /\ MaxAttempts[r.task] = 1 \/ r.created < SlotEnd(r.task, r.slot)

SentInv == \A t \in Tasks : \A s \in Nat : Sent(t, s) <= MaxAttempts[t]

ToldInv == \A t \in Tasks : receipt[t].at <= clock /\ Tells(t, receipt[t])

(* A worker acts on what is still so.                                      *)
MayPost(i, t) == Clear(t, MySlot(i, t), began[i]) /\ Sent(t, MySlot(i, t)) < MaxAttempts[t]
Sending(i, t) == receipt[t] = Stamp(i, t, "sending")

Ready(i, t) ==
  /\ step[i][t] = "list" => known[i][t] = receipt[t]
  /\ step[i][t] \in {"put", "post"} => MayPost(i, t)
  /\ step[i][t] = "post" => Sending(i, t)
  /\ step[i][t] \in {"answer", "accepted", "rejected", "sending"} =>
       Sending(i, t) /\ Sole(t, MySlot(i, t), began[i], i)
  /\ step[i][t] = "rejected" => Clear(t, MySlot(i, t), began[i])

WorkInv == \A i \in Invocations : Working(i) => \A t \in Tasks : Ready(i, t)

(* A late write that may still be applied would be right.                  *)
LateInv ==
  \A q \in Puts :
    lease.owner = q.by =>
      /\ q.receipt.at <= clock
      /\ Working(q.by) => step[q.by][q.task] = "done"
      /\ Tells(q.task, q.receipt)

---------------------------------------------------------------------------
(* A time lies in one slot.                                                *)
LEMMA QuotientBounds ==
  ASSUME NEW n \in Nat, NEW p \in Nat \ {0}
  PROVE  (n \div p) * p <= n /\ n < ((n \div p) + 1) * p
BY SMT

LEMMA ProductGrows ==
  ASSUME NEW a \in Nat, NEW b \in Nat, NEW p \in Nat \ {0}, a < b
  PROVE  (a + 1) * p <= b * p
BY SMT

LEMMA TimeInSlot ==
  ASSUME NEW t \in Tasks, NEW n \in Nat
  PROVE  SlotStart(t, Slot(t, n)) <= n /\ n < SlotEnd(t, Slot(t, n))
<1>1. Period[t] \in Nat \ {0}
  BY TimesAssumption
<1> QED BY <1>1, QuotientBounds DEF SlotStart, SlotEnd, Slot

LEMMA SlotOfTime ==
  ASSUME NEW t \in Tasks, NEW n \in Nat, NEW s \in Nat, NEW u \in Nat,
         SlotStart(t, s) <= n, n < SlotEnd(t, s), SlotStart(t, u) <= n, n < SlotEnd(t, u)
  PROVE  s = u
<1> DEFINE p == Period[t]
<1>1. p \in Nat \ {0}
  BY TimesAssumption
<1>2. s * p <= n /\ n < (s + 1) * p /\ u * p <= n /\ n < (u + 1) * p
  BY DEF SlotStart, SlotEnd
<1>3. s * p \in Nat /\ u * p \in Nat /\ (s + 1) * p \in Nat /\ (u + 1) * p \in Nat
  BY <1>1, SMT
<1> HIDE DEF p
<1>4. CASE s < u
  <2>1. (s + 1) * p <= u * p
    BY <1>1, <1>4, ProductGrows
  <2> QED BY <1>2, <1>3, <2>1
<1>5. CASE u < s
  <2>1. (u + 1) * p <= s * p
    BY <1>1, <1>5, ProductGrows
  <2> QED BY <1>2, <1>3, <2>1
<1> QED BY <1>4, <1>5

LEMMA SlotBoundsAreNat ==
  ASSUME NEW t \in Tasks, NEW s \in Nat
  PROVE  SlotStart(t, s) \in Nat /\ SlotEnd(t, s) \in Nat
<1>1. Period[t] \in Nat
  BY TimesAssumption
<1>2. \A a, b \in Nat : a * b \in Nat
  BY SMT
<1> QED BY <1>1, <1>2 DEF SlotStart, SlotEnd

(* What GitHub has of a slot is finite.                                    *)
LEMMA PartsAreFinite ==
  ASSUME GithubInv, NEW t \in Tasks, NEW s
  PROVE  /\ IsFiniteSet(PostsOf(t, s)) /\ IsFiniteSet(RunsOf(t, s))
         /\ Cardinality(PostsOf(t, s)) \in Nat /\ Cardinality(RunsOf(t, s)) \in Nat
         /\ Sent(t, s) \in Nat
<1>1. PostsOf(t, s) \subseteq posts /\ RunsOf(t, s) \subseteq runs
  BY DEF PostsOf, RunsOf
<1>2. IsFiniteSet(PostsOf(t, s)) /\ IsFiniteSet(RunsOf(t, s))
  BY <1>1, FS_Subset DEF GithubInv
<1>3. Cardinality(PostsOf(t, s)) \in Nat /\ Cardinality(RunsOf(t, s)) \in Nat
  BY <1>2, FS_CardinalityType
<1> QED BY <1>2, <1>3 DEF Sent

LEMMA PartsAreFiniteAfter ==
  ASSUME GithubInv', NEW t \in Tasks, NEW s
  PROVE  Sent(t, s)' \in Nat
<1>1. PostsOf(t, s)' \subseteq posts' /\ RunsOf(t, s)' \subseteq runs'
  BY DEF PostsOf, RunsOf
<1>2. IsFiniteSet(PostsOf(t, s)') /\ IsFiniteSet(RunsOf(t, s)')
  BY <1>1, FS_Subset DEF GithubInv
<1>3. Cardinality(PostsOf(t, s)') \in Nat /\ Cardinality(RunsOf(t, s)') \in Nat
  BY <1>2, FS_CardinalityType
<1> QED BY <1>3 DEF Sent

LEMMA RunFields ==
  ASSUME TypeOK, NEW r \in runs
  PROVE  /\ r.by \in Invocations /\ r.task \in Tasks /\ r.slot \in Nat /\ r.created \in Nat
         /\ r.status \in {"active", "success", "failure"} /\ r.visible \in BOOLEAN
BY DEF TypeOK, Runs

LEMMA PostFields ==
  ASSUME TypeOK, NEW p \in posts
  PROVE  p.by \in Invocations /\ p.task \in Tasks /\ p.slot \in Nat
BY DEF TypeOK, Dispatches

LEMMA DelayIsNat == \A t \in Tasks : RetryDelay[t] \in Nat /\ MaxAttempts[t] \in Nat \ {0}
BY DispatchAssumption

(* What is seen or clear at a time is so later.                            *)
LEMMA ClearLater ==
  ASSUME TypeOK, NEW t \in Tasks, NEW s, NEW at \in Nat, NEW later \in Nat, at <= later,
         Clear(t, s, at)
  PROVE  Clear(t, s, later)
<1>1. \A r \in RunsOf(t, s) : r.created + RetryDelay[t] <= later
  <2> SUFFICES ASSUME NEW r \in RunsOf(t, s) PROVE r.created + RetryDelay[t] <= later
    OBVIOUS
  <2>1. r.created \in Nat /\ RetryDelay[t] \in Nat
    BY RunFields, DelayIsNat DEF RunsOf
  <2>2. r.created + RetryDelay[t] <= at
    BY DEF Clear, Seen
  <2> QED BY <2>1, <2>2
<1> QED BY <1>1 DEF Clear, Seen

LEMMA ClearIsSole ==
  ASSUME NEW t, NEW s, NEW at, NEW w, Clear(t, s, at)
  PROVE  Sole(t, s, at, w)
BY DEF Clear, Sole

LEMMA ClearTells ==
  ASSUME NEW t \in Tasks, NEW r \in Receipts, NEW w \in Invocations, Clear(t, r.slot, r.at)
  PROVE  Tells(t, r)
BY ClearIsSole DEF Tells


---------------------------------------------------------------------------
(* What GitHub does takes nothing back: what was clear stays clear, what   *)
(* one writer sent stays his, and nothing more is sent.                    *)
Kept(t, s, at) ==
  /\ Clear(t, s, at) => Clear(t, s, at)'
  /\ \A w \in Invocations : at <= clock /\ Sole(t, s, at, w) => Sole(t, s, at, w)'
  /\ Sent(t, s)' <= Sent(t, s)

LEMMA UntouchedIsKept ==
  ASSUME GithubInv, NEW t \in Tasks, NEW s, NEW at,
         PostsOf(t, s)' = PostsOf(t, s), RunsOf(t, s)' = RunsOf(t, s)
  PROVE  Kept(t, s, at)
<1>1. Clear(t, s, at) => Clear(t, s, at)'
  BY DEF Clear
<1>2. \A w \in Invocations : Sole(t, s, at, w) => Sole(t, s, at, w)'
  BY DEF Sole
<1>3. Sent(t, s)' = Sent(t, s) /\ Sent(t, s) \in Nat
  BY PartsAreFinite DEF Sent
<1> QED BY <1>1, <1>2, <1>3 DEF Kept

LEMMA AcceptKeeps ==
  ASSUME TypeOK, GithubInv, NEW p \in posts, Accept(p), NEW t \in Tasks, NEW s, NEW at
  PROVE  Kept(t, s, at)
<1> DEFINE new == [by |-> p.by, task |-> p.task, slot |-> p.slot,
                   created |-> clock, status |-> "active", visible |-> FALSE]
<1>1. posts' = posts \ {p} /\ runs' = runs \cup {new} /\ clock' = clock
  BY DEF Accept
<1>2. CASE ~ (p.task = t /\ p.slot = s)
  <2>1. PostsOf(t, s)' = PostsOf(t, s) /\ RunsOf(t, s)' = RunsOf(t, s)
    BY <1>1, <1>2 DEF PostsOf, RunsOf
  <2> QED BY <2>1, UntouchedIsKept
<1>3. CASE p.task = t /\ p.slot = s
  <2>1. p \in PostsOf(t, s)
    BY <1>3 DEF PostsOf
  <2>2. PostsOf(t, s)' = PostsOf(t, s) \ {p} /\ RunsOf(t, s)' = RunsOf(t, s) \cup {new}
    BY <1>1, <1>3 DEF PostsOf, RunsOf
  <2>3. ~ Clear(t, s, at)
    BY <2>1 DEF Clear
  <2>4. ASSUME NEW w \in Invocations, at <= clock, Sole(t, s, at, w) PROVE Sole(t, s, at, w)'
    <3>1. \A r \in RunsOf(t, s) : Seen(t, r, at)
      BY <2>1, <2>4 DEF Sole
    <3>2. \A o \in PostsOf(t, s) : o.by = w
      BY <2>4 DEF Sole
    <3>3. \A o \in PostsOf(t, s) : o = p
      <4> SUFFICES ASSUME NEW o \in PostsOf(t, s) PROVE o = p
        OBVIOUS
      <4>1. o.by = p.by /\ o.task = p.task /\ o.slot = p.slot
        BY <1>3, <2>1, <3>2 DEF PostsOf
      <4>2. o \in Dispatches /\ p \in Dispatches
        BY DEF PostsOf, TypeOK
      <4> QED BY <4>1, <4>2 DEF Dispatches
    <3>4. PostsOf(t, s)' = {}
      BY <2>2, <3>3
    <3>5. new.by = w /\ at <= new.created
      BY <2>1, <2>4, <3>2
    <3>6. \A r \in RunsOf(t, s)' : r = new \/ Seen(t, r, at)
      BY <2>2, <3>1
    <3> HIDE DEF new
    <3> QED BY <3>4, <3>5, <3>6 DEF Sole, Seen
  <2>5. Sent(t, s)' <= Sent(t, s)
    <3>1. /\ IsFiniteSet(PostsOf(t, s)) /\ IsFiniteSet(RunsOf(t, s))
          /\ Cardinality(PostsOf(t, s)) \in Nat /\ Cardinality(RunsOf(t, s)) \in Nat
      BY PartsAreFinite
    <3>2. Cardinality(PostsOf(t, s) \ {p}) = Cardinality(PostsOf(t, s)) - 1
      BY <2>1, <3>1, FS_RemoveElement
    <3>3. \/ Cardinality(RunsOf(t, s) \cup {new}) = Cardinality(RunsOf(t, s))
          \/ Cardinality(RunsOf(t, s) \cup {new}) = Cardinality(RunsOf(t, s)) + 1
      BY <3>1, FS_AddElement
    <3> HIDE DEF new
    <3> QED BY <2>2, <3>1, <3>2, <3>3 DEF Sent
  <2> QED BY <2>3, <2>4, <2>5 DEF Kept
<1> QED BY <1>2, <1>3

LEMMA RejectKeeps ==
  ASSUME TypeOK, GithubInv, NEW p \in posts, Reject(p), NEW t \in Tasks, NEW s, NEW at
  PROVE  Kept(t, s, at)
<1>1. posts' = posts \ {p} /\ runs' = runs
  BY DEF Reject
<1>2. PostsOf(t, s)' \subseteq PostsOf(t, s) /\ RunsOf(t, s)' = RunsOf(t, s)
  BY <1>1 DEF PostsOf, RunsOf
<1>3. Clear(t, s, at) => Clear(t, s, at)'
  BY <1>2 DEF Clear
<1>4. \A w \in Invocations : Sole(t, s, at, w) => Sole(t, s, at, w)'
  BY <1>2 DEF Sole
<1>5. IsFiniteSet(PostsOf(t, s)) /\ Cardinality(PostsOf(t, s)) \in Nat /\ Cardinality(RunsOf(t, s)) \in Nat
  BY PartsAreFinite
<1>6. Cardinality(PostsOf(t, s)') <= Cardinality(PostsOf(t, s)) /\ Cardinality(PostsOf(t, s)') \in Nat
  BY <1>2, <1>5, FS_Subset, FS_CardinalityType
<1>7. Sent(t, s)' <= Sent(t, s)
  BY <1>2, <1>5, <1>6 DEF Sent
<1> QED BY <1>3, <1>4, <1>7 DEF Kept

(* A run that appears in the list or ends.                                 *)
LEMMA ReplaceKeeps ==
  ASSUME TypeOK, GithubInv, NEW r \in runs, NEW m,
         runs' = (runs \ {r}) \cup {m}, UNCHANGED <<posts, clock>>,
         m.by = r.by, m.task = r.task, m.slot = r.slot, m.created = r.created,
         ~ (r.visible /\ r.status = "failure"),
         NEW t \in Tasks, NEW s, NEW at
  PROVE  Kept(t, s, at)
<1>1. PostsOf(t, s)' = PostsOf(t, s)
  BY DEF PostsOf
<1>2. CASE ~ (r.task = t /\ r.slot = s)
  <2>1. RunsOf(t, s)' = RunsOf(t, s)
    BY <1>2 DEF RunsOf
  <2> QED BY <1>1, <2>1, UntouchedIsKept
<1>3. CASE r.task = t /\ r.slot = s
  <2>1. r \in RunsOf(t, s) /\ ~ Seen(t, r, at)
    BY <1>3 DEF RunsOf, Seen
  <2>2. RunsOf(t, s)' = (RunsOf(t, s) \ {r}) \cup {m}
    BY <1>3 DEF RunsOf
  <2>3. ~ Clear(t, s, at)
    BY <2>1 DEF Clear
  <2>4. ASSUME NEW w \in Invocations, Sole(t, s, at, w) PROVE Sole(t, s, at, w)'
    <3>1. m.by = w /\ at <= m.created /\ PostsOf(t, s) = {}
      BY <2>1, <2>4 DEF Sole
    <3>2. \A o \in RunsOf(t, s)' : o = m \/ Seen(t, o, at)
      BY <2>1, <2>2, <2>4 DEF Sole
    <3> QED BY <1>1, <3>1, <3>2 DEF Sole
  <2>5. Sent(t, s)' <= Sent(t, s)
    <3>1. /\ IsFiniteSet(RunsOf(t, s))
          /\ Cardinality(PostsOf(t, s)) \in Nat /\ Cardinality(RunsOf(t, s)) \in Nat
      BY PartsAreFinite
    <3>2. /\ Cardinality(RunsOf(t, s) \ {r}) = Cardinality(RunsOf(t, s)) - 1
          /\ IsFiniteSet(RunsOf(t, s) \ {r})
      BY <2>1, <3>1, FS_RemoveElement
    <3>3. \/ Cardinality(RunsOf(t, s)') = Cardinality(RunsOf(t, s) \ {r})
          \/ Cardinality(RunsOf(t, s)') = Cardinality(RunsOf(t, s) \ {r}) + 1
      BY <2>2, <3>2, FS_AddElement
    <3> QED BY <1>1, <3>1, <3>2, <3>3 DEF Sent
  <2> QED BY <2>3, <2>4, <2>5 DEF Kept
<1> QED BY <1>2, <1>3

GithubStep ==
  \/ \E p \in posts : Accept(p) \/ Reject(p)
  \/ \E r \in runs : Appear(r) \/ Complete(r)

LEMMA GithubKeeps ==
  ASSUME TypeOK, GithubInv, GithubStep, NEW t \in Tasks, NEW s, NEW at
  PROVE  Kept(t, s, at)
<1>1. ASSUME NEW r \in runs, Appear(r) PROVE Kept(t, s, at)
  <2>1. PICK m : m = [r EXCEPT !.visible = TRUE]
    OBVIOUS
  <2>2. m.by = r.by /\ m.task = r.task /\ m.slot = r.slot /\ m.created = r.created
    BY <2>1
  <2> QED BY <1>1, <2>1, <2>2, ReplaceKeeps DEF Appear, Replace
<1>2. ASSUME NEW r \in runs, Complete(r) PROVE Kept(t, s, at)
  <2>1. PICK outcome \in {"success", "failure"} : Replace(r, [r EXCEPT !.status = outcome])
    BY <1>2 DEF Complete
  <2>2. PICK m : m = [r EXCEPT !.status = outcome]
    OBVIOUS
  <2>3. m.by = r.by /\ m.task = r.task /\ m.slot = r.slot /\ m.created = r.created
    BY <2>2
  <2> QED BY <1>2, <2>1, <2>2, <2>3, ReplaceKeeps DEF Complete, Replace
<1> QED BY <1>1, <1>2, AcceptKeeps, RejectKeeps DEF GithubStep


LEMMA AcceptKeepsGithub ==
  ASSUME TypeOK, GithubInv, NEW p \in posts, Accept(p)
  PROVE  GithubInv'
<1>1. PICK new : new = [by |-> p.by, task |-> p.task, slot |-> p.slot,
                        created |-> clock, status |-> "active", visible |-> FALSE]
  OBVIOUS
<1>2. posts' = posts \ {p} /\ runs' = runs \cup {new} /\ UNCHANGED <<clock, receipt>>
  BY <1>1 DEF Accept
<1>3. IsFiniteSet(posts') /\ IsFiniteSet(runs')
  BY <1>2, FS_Subset, FS_AddElement DEF GithubInv
<1>4. new.task = p.task /\ new.slot = p.slot /\ new.created = clock
  BY <1>1
<1>5. /\ new.slot <= receipt[new.task].slot /\ SlotStart(new.task, new.slot) <= new.created
      /\ MaxAttempts[new.task] = 1 \/ new.created < SlotEnd(new.task, new.slot)
  BY <1>4 DEF GithubInv, Accept, InTime
<1> QED BY <1>2, <1>3, <1>5 DEF GithubInv

LEMMA ReplaceKeepsGithub ==
  ASSUME TypeOK, GithubInv, NEW r \in runs, NEW m,
         runs' = (runs \ {r}) \cup {m}, UNCHANGED <<posts, clock, receipt>>,
         m.task = r.task, m.slot = r.slot, m.created = r.created
  PROVE  GithubInv'
<1>1. IsFiniteSet(runs')
  BY FS_Subset, FS_AddElement, runs \ {r} \subseteq runs DEF GithubInv
<1> QED BY <1>1 DEF GithubInv

LEMMA GithubStepKeepsGithub ==
  ASSUME TypeOK, GithubInv, GithubStep
  PROVE  GithubInv'
<1>1. ASSUME NEW p \in posts, Reject(p) PROVE GithubInv'
  <2>1. posts' = posts \ {p} /\ UNCHANGED <<runs, clock, receipt>>
    BY <1>1 DEF Reject
  <2>2. IsFiniteSet(posts')
    BY <2>1, FS_Subset DEF GithubInv
  <2> QED BY <2>1, <2>2 DEF GithubInv
<1>2. ASSUME NEW r \in runs, Appear(r) PROVE GithubInv'
  <2>1. PICK m : m = [r EXCEPT !.visible = TRUE]
    OBVIOUS
  <2>2. m.task = r.task /\ m.slot = r.slot /\ m.created = r.created
    BY <2>1
  <2> QED BY <1>2, <2>1, <2>2, ReplaceKeepsGithub DEF Appear, Replace
<1>3. ASSUME NEW r \in runs, Complete(r) PROVE GithubInv'
  <2>1. PICK outcome \in {"success", "failure"} : Replace(r, [r EXCEPT !.status = outcome])
    BY <1>3 DEF Complete
  <2>2. PICK m : m = [r EXCEPT !.status = outcome]
    OBVIOUS
  <2>3. m.task = r.task /\ m.slot = r.slot /\ m.created = r.created
    BY <2>2
  <2> QED BY <1>3, <2>1, <2>2, <2>3, ReplaceKeepsGithub DEF Complete, Replace
<1> QED BY <1>1, <1>2, <1>3, AcceptKeepsGithub DEF GithubStep

LEMMA TellsKept ==
  ASSUME NEW t \in Tasks, NEW r, r.at <= clock, Kept(t, r.slot, r.at), Tells(t, r)
  PROVE  Tells(t, r)'
<1>1. CASE r.state = "rejected"
  BY <1>1 DEF Tells, Kept
<1>2. CASE r.state # "rejected"
  BY <1>2 DEF Tells, Kept
<1> QED BY <1>1, <1>2

(* The actors see what GitHub does only when they ask.                     *)
SentAndTold == GithubInv /\ SentInv /\ ToldInv /\ WorkInv /\ LateInv

LEMMA GithubKeepsAll ==
  ASSUME TypeOK, LeaseInv, SentAndTold, GithubStep
  PROVE  SentAndTold'
<1> USE DEF SentAndTold
<1>0. UNCHANGED <<clock, lease, receipt, late, phase, began, step, known>>
  BY DEF GithubStep, Accept, Reject, Appear, Complete, ticks
<1>1. GithubInv'
  BY GithubStepKeepsGithub
<1>2. SentInv'
  <2> SUFFICES ASSUME NEW t \in Tasks, NEW s \in Nat PROVE Sent(t, s)' <= MaxAttempts[t]
    BY DEF SentInv
  <2>1. Sent(t, s)' <= Sent(t, s) /\ Sent(t, s) <= MaxAttempts[t]
    BY GithubKeeps DEF Kept, SentInv
  <2>2. Sent(t, s) \in Nat /\ MaxAttempts[t] \in Nat
    BY PartsAreFinite, DelayIsNat
  <2>3. Sent(t, s)' \in Nat
    BY <1>1, PartsAreFiniteAfter
  <2> QED BY <2>1, <2>2, <2>3
<1>3. ToldInv'
  <2> SUFFICES ASSUME NEW t \in Tasks PROVE (receipt[t].at <= clock /\ Tells(t, receipt[t]))'
    BY DEF ToldInv
  <2>1. PICK r : r = receipt[t]
    OBVIOUS
  <2>2. r.at <= clock /\ Tells(t, r)
    BY <2>1 DEF ToldInv
  <2>3. Tells(t, r)'
    BY <2>2, GithubKeeps, TellsKept
  <2> QED BY <1>0, <2>1, <2>2, <2>3
<1>4. WorkInv'
  <2> SUFFICES ASSUME NEW i \in Invocations, Working(i)', NEW t \in Tasks PROVE Ready(i, t)'
    BY DEF WorkInv
  <2>1. Ready(i, t) /\ Running(i) /\ began[i] <= clock
    BY <1>0 DEF WorkInv, LeaseInv, Working, Running
  <2>2. PICK s : s = MySlot(i, t)
    OBVIOUS
  <2>3. PICK at : at = began[i]
    OBVIOUS
  <2>4. MySlot(i, t)' = s /\ began'[i] = at /\ Stamp(i, t, "sending")' = Stamp(i, t, "sending")
    BY <1>0, <2>2, <2>3 DEF MySlot, Stamp
  <2>5. s \in Nat
    BY <2>2, SlotIsNat DEF MySlot, TypeOK
  <2>6. Kept(t, s, at)
    BY GithubKeeps
  <2>7. Clear(t, s, at) => Clear(t, s, at)'
    BY <2>6 DEF Kept
  <2>8. Sole(t, s, at, i) => Sole(t, s, at, i)'
    BY <2>1, <2>3, <2>6 DEF Kept
  <2>9. Sent(t, s) < MaxAttempts[t] => Sent(t, s)' < MaxAttempts[t]
    <3>1. Sent(t, s)' <= Sent(t, s) /\ Sent(t, s) \in Nat /\ MaxAttempts[t] \in Nat
      BY <2>6, PartsAreFinite, DelayIsNat DEF Kept
    <3>2. Sent(t, s)' \in Nat
      BY <1>1, PartsAreFiniteAfter
    <3> QED BY <3>1, <3>2
  <2>10. MayPost(i, t) => MayPost(i, t)'
    BY <2>2, <2>3, <2>4, <2>7, <2>9 DEF MayPost
  <2>11. Sending(i, t) => Sending(i, t)'
    BY <1>0, <2>4 DEF Sending
  <2>12. step'[i][t] = step[i][t] /\ known'[i][t] = known[i][t] /\ receipt'[t] = receipt[t]
    BY <1>0
  <2> QED BY <2>1, <2>2, <2>3, <2>4, <2>7, <2>8, <2>10, <2>11, <2>12 DEF Ready
<1>5. LateInv'
  <2> SUFFICES ASSUME NEW q \in Puts', lease'.owner = q.by
               PROVE  (/\ q.receipt.at <= clock
                       /\ Working(q.by) => step[q.by][q.task] = "done"
                       /\ Tells(q.task, q.receipt))'
    BY DEF LateInv
  <2>1. q \in Puts /\ lease.owner = q.by
    BY <1>0 DEF Puts
  <2>2. q.task \in Tasks
    BY <2>1, RequestFields DEF Puts, TypeOK
  <2>3. /\ q.receipt.at <= clock /\ Tells(q.task, q.receipt)
        /\ Working(q.by) => step[q.by][q.task] = "done"
    BY <2>1 DEF LateInv
  <2>4. Tells(q.task, q.receipt)'
    BY <2>2, <2>3, GithubKeeps, TellsKept
  <2> QED BY <1>0, <2>3, <2>4 DEF Working
<1> QED BY <1>1, <1>2, <1>3, <1>4, <1>5


---------------------------------------------------------------------------
(* The steps of a worker.  A step for one task leaves the others alone.    *)
LEMMA OtherTasks ==
  ASSUME TypeOK, NEW i \in Invocations, NEW t \in Tasks, TaskStep(i, t),
         NEW u \in Tasks, u # t
  PROVE  /\ receipt'[u] = receipt[u] /\ began' = began
         /\ step'[i][u] = step[i][u] /\ known'[i][u] = known[i][u]
         /\ \A s : PostsOf(u, s)' = PostsOf(u, s) /\ RunsOf(u, s)' = RunsOf(u, s)
<1>1. receipt'[u] = receipt[u] /\ began' = began
  BY DEF TypeOK, TaskStep, Get, List, BeforePost, Post, Answer, AfterPost, TaskFails, WriteUnanswered
<1>2. \E next : Goto(i, t, next)
  BY DEF TaskStep, Get, List, BeforePost, Post, Answer, AfterPost, TaskFails, WriteUnanswered
<1>3. step'[i][u] = step[i][u]
  BY <1>2 DEF TypeOK, Goto
<1>4. known' = known \/ known' = [known EXCEPT ![i][t] = receipt[t]]
  BY DEF TaskStep, Get, List, BeforePost, Post, Answer, AfterPost, TaskFails, WriteUnanswered
<1>5. known'[i][u] = known[i][u]
  BY <1>4 DEF TypeOK
<1>6. runs' = runs /\ \A p \in posts' : p \in posts \/ p.task = t
  BY DEF TaskStep, Get, List, BeforePost, Post, Answer, AfterPost, TaskFails, WriteUnanswered, github
<1>7. posts \subseteq posts'
  BY DEF TaskStep, Get, List, BeforePost, Post, Answer, AfterPost, TaskFails, WriteUnanswered, github
<1>8. \A s : PostsOf(u, s)' = PostsOf(u, s) /\ RunsOf(u, s)' = RunsOf(u, s)
  BY <1>6, <1>7 DEF PostsOf, RunsOf
<1> QED BY <1>1, <1>3, <1>5, <1>8

LEMMA OtherTasksStayReady ==
  ASSUME TypeOK, NEW i \in Invocations, NEW t \in Tasks, TaskStep(i, t),
         NEW u \in Tasks, u # t, Ready(i, u)
  PROVE  Ready(i, u)'
<1>1. /\ receipt'[u] = receipt[u] /\ began' = began
      /\ step'[i][u] = step[i][u] /\ known'[i][u] = known[i][u]
      /\ \A s : PostsOf(u, s)' = PostsOf(u, s) /\ RunsOf(u, s)' = RunsOf(u, s)
  BY OtherTasks
<1>2. PICK s : s = MySlot(i, u)
  OBVIOUS
<1>3. PICK at : at = began[i]
  OBVIOUS
<1>4. MySlot(i, u)' = s /\ began'[i] = at /\ Stamp(i, u, "sending")' = Stamp(i, u, "sending")
  BY <1>1, <1>2, <1>3 DEF MySlot, Stamp
<1>5. Clear(u, s, at)' = Clear(u, s, at)
  BY <1>1 DEF Clear
<1>6. Sole(u, s, at, i)' = Sole(u, s, at, i)
  BY <1>1 DEF Sole
<1>7. Sent(u, s)' = Sent(u, s)
  BY <1>1 DEF Sent
<1>8. MayPost(i, u) => MayPost(i, u)'
  BY <1>2, <1>3, <1>4, <1>5, <1>7 DEF MayPost
<1>9. Sending(i, u) => Sending(i, u)'
  BY <1>1, <1>4 DEF Sending
<1> QED BY <1>1, <1>2, <1>3, <1>4, <1>5, <1>6, <1>8, <1>9 DEF Ready

LEMMA OtherReceiptsStayTrue ==
  ASSUME TypeOK, NEW i \in Invocations, NEW t \in Tasks, TaskStep(i, t),
         NEW u \in Tasks, u # t, NEW r
  PROVE  Tells(u, r)' <=> Tells(u, r)
<1>1. \A s : PostsOf(u, s)' = PostsOf(u, s) /\ RunsOf(u, s)' = RunsOf(u, s)
  BY OtherTasks
<1> QED BY <1>1 DEF Tells, Clear, Sole

(* Nobody else works, and what the worker left behind it has left alone.   *)
LEMMA TaskStepIsAlone ==
  ASSUME TypeOK, LeaseInv, LateInv, NEW i \in Invocations, NEW t \in Tasks, TaskStep(i, t)
  PROVE  /\ Working(i) /\ step[i][t] # "done" /\ lease.owner = i
         /\ began[i] \in Nat /\ began[i] <= clock /\ clock \in Nat
         /\ UNCHANGED <<lease, clock, phase, began, runs>>
         /\ \A j \in Invocations : Working(j)' => j = i
         /\ \A q \in Puts : q.by = i => q.task # t
<1>1. Working(i) /\ step[i][t] # "done"
  BY DEF TaskStep, Get, List, BeforePost, Post, Answer, AfterPost, TaskFails, WriteUnanswered, At
<1>2. lease.owner = i /\ began[i] <= clock
  BY <1>1 DEF LeaseInv, Working, Running
<1>3. UNCHANGED <<lease, clock, phase, began, runs>>
  BY DEF TaskStep, Get, List, BeforePost, Post, Answer, AfterPost, TaskFails, WriteUnanswered, github
<1>4. \A j \in Invocations : Working(j)' => j = i
  BY <1>2, <1>3 DEF LeaseInv, Working
<1>5. \A q \in Puts : q.by = i => q.task # t
  BY <1>1, <1>2 DEF LateInv
<1> QED BY <1>1, <1>2, <1>3, <1>4, <1>5 DEF TypeOK

(* The list of runs permits a dispatch only when all that was sent for the *)
(* slot has failed before, and there is room for another attempt.          *)
LEMMA ClearLeavesRoom ==
  ASSUME TypeOK, GithubInv, NEW i \in Invocations, NEW t \in Tasks,
         MayDispatch(i, t), Clear(t, MySlot(i, t), began[i])
  PROVE  MayPost(i, t)
<1> DEFINE s == MySlot(i, t)
           listed == InSlot(t, s)
<1>1. began[i] \in Nat /\ s \in Nat
  BY SlotIsNat DEF MySlot, TypeOK
<1>2. RunsOf(t, s) \subseteq listed
  <2> SUFFICES ASSUME NEW r \in RunsOf(t, s) PROVE r \in listed
    OBVIOUS
  <2>1. r \in runs /\ r.task = t /\ r.slot = s
    BY DEF RunsOf
  <2>2. r.visible /\ r.created + RetryDelay[t] <= began[i]
    BY DEF Clear, Seen
  <2>3. r.created \in Nat /\ RetryDelay[t] \in Nat
    BY <2>1, RunFields, DelayIsNat
  <2>4. began[i] < SlotEnd(t, s) /\ SlotEnd(t, s) \in Nat
    BY <1>1, TimeInSlot, SlotBoundsAreNat DEF MySlot
  <2>5. r.created < SlotEnd(t, s)
    BY <1>1, <2>2, <2>3, <2>4
  <2>6. SlotStart(t, s) <= r.created
    BY <2>1 DEF GithubInv
  <2> QED BY <2>1, <2>2, <2>5, <2>6 DEF InSlot, Listed
<1>3. IsFiniteSet(listed)
  <2>1. listed \subseteq runs
    BY DEF InSlot, Listed
  <2> QED BY <2>1, FS_Subset DEF GithubInv
<1>4. Cardinality(RunsOf(t, s)) <= Cardinality(listed) /\ Cardinality(listed) \in Nat
  BY <1>2, <1>3, FS_Subset, FS_CardinalityType
<1>5. Cardinality(listed) < MaxAttempts[t]
  BY DEF MayDispatch
<1>6. Cardinality(PostsOf(t, s)) = 0
  BY FS_EmptySet DEF Clear
<1>7. Sent(t, s) < MaxAttempts[t]
  BY <1>4, <1>5, <1>6, PartsAreFinite, DelayIsNat DEF Sent
<1> QED BY <1>7 DEF MayPost


(* The run that lets a tick go on after an uncertain dispatch is the run   *)
(* of that very dispatch.                                                  *)
LEMMA ReconciledIsClear ==
  ASSUME TypeOK, GithubInv, NEW i \in Invocations, NEW t \in Tasks, MayDispatch(i, t),
         NEW at \in Nat, NEW w \in Invocations,
         SlotStart(t, MySlot(i, t)) <= at, at <= began[i],
         Sole(t, MySlot(i, t), at, w),
         NEW r \in Listed(t), r.status # "active", at <= r.created,
         r.created < SlotEnd(t, MySlot(i, t))
  PROVE  Clear(t, MySlot(i, t), began[i])
<1> DEFINE s == MySlot(i, t)
<1>1. s \in Nat /\ began[i] \in Nat
  BY SlotIsNat DEF MySlot, TypeOK
<1>2. SlotStart(t, s) \in Nat /\ SlotEnd(t, s) \in Nat
  BY <1>1, SlotBoundsAreNat
<1>3. /\ r \in runs /\ r.task = t /\ r.visible /\ r.created \in Nat /\ r.slot \in Nat
      /\ r.status \in {"active", "success", "failure"}
  BY RunFields DEF Listed
<1>4. SlotStart(t, s) <= r.created
  BY <1>2, <1>3
<1>5. r \in InSlot(t, s)
  BY <1>4 DEF InSlot
<1>6. MaxAttempts[t] # 1
  <2>1. IsFiniteSet(InSlot(t, s))
    <3>1. InSlot(t, s) \subseteq runs
      BY DEF InSlot, Listed
    <3> QED BY <3>1, FS_Subset DEF GithubInv
  <2>2. Cardinality(InSlot(t, s)) \in Nat /\ Cardinality(InSlot(t, s)) # 0
    BY <1>5, <2>1, FS_CardinalityType, FS_EmptySet
  <2>3. Cardinality(InSlot(t, s)) < MaxAttempts[t]
    BY DEF MayDispatch
  <2> QED BY <2>2, <2>3
<1>7. RetryDelay[t] \in Nat /\ RetryDelay[t] > 0
  BY <1>6, DispatchAssumption
<1>8. r.slot = s
  <2>1. SlotStart(t, r.slot) <= r.created /\ r.created < SlotEnd(t, r.slot)
    BY <1>3, <1>6 DEF GithubInv
  <2> QED BY <1>1, <1>3, <1>4, <2>1, SlotOfTime
<1>9. r \in RunsOf(t, s) /\ ~ Seen(t, r, at)
  <2>1. ~ (r.created + RetryDelay[t] <= at)
    BY <1>3, <1>7
  <2> QED BY <1>3, <1>8, <2>1 DEF RunsOf, Seen
<1>10. PostsOf(t, s) = {} /\ \A other \in RunsOf(t, s) : other = r \/ Seen(t, other, at)
  BY <1>9 DEF Sole
<1>11. Seen(t, r, began[i])
  <2>1. r.status # "success" /\ began[i] - r.created >= RetryDelay[t]
    BY <1>5 DEF MayDispatch
  <2> QED BY <1>1, <1>3, <1>7, <2>1 DEF Seen
<1>12. \A other \in RunsOf(t, s) : Seen(t, other, at) => Seen(t, other, began[i])
  <2> SUFFICES ASSUME NEW other \in RunsOf(t, s), Seen(t, other, at)
               PROVE  Seen(t, other, began[i])
    OBVIOUS
  <2>1. other.created \in Nat
    BY RunFields DEF RunsOf
  <2> QED BY <1>1, <1>7, <2>1 DEF Seen
<1> QED BY <1>10, <1>11, <1>12 DEF Clear

LEMMA ListIsClear ==
  ASSUME TypeOK, ReceiptInv, GithubInv, ToldInv,
         NEW i \in Invocations, Working(i), NEW t \in Tasks,
         known[i][t] = receipt[t], MayDispatch(i, t)
  PROVE  Clear(t, MySlot(i, t), began[i])
<1> DEFINE s == MySlot(i, t)
<1>1. s \in Nat /\ began[i] \in Nat
  BY SlotIsNat DEF MySlot, TypeOK
<1>2. receipt[t].slot \in Nat \cup {-1} /\ receipt[t].at \in Nat /\ receipt[t].at <= began[i]
  BY ReceiptFields DEF ReceiptInv
<1>3. CASE receipt[t].slot < s
  <2>1. PostsOf(t, s) = {}
    <3> SUFFICES ASSUME NEW p \in posts, p.task = t, p.slot = s PROVE FALSE
      BY DEF PostsOf
    <3>1. p.slot <= receipt[t].slot
      BY DEF GithubInv
    <3> QED BY <1>1, <1>2, <1>3, <3>1
  <2>2. RunsOf(t, s) = {}
    <3> SUFFICES ASSUME NEW r \in runs, r.task = t, r.slot = s PROVE FALSE
      BY DEF RunsOf
    <3>1. r.slot <= receipt[t].slot
      BY DEF GithubInv
    <3> QED BY <1>1, <1>2, <1>3, <3>1
  <2> QED BY <2>1, <2>2 DEF Clear
<1>4. CASE receipt[t].slot >= s
  <2>1. receipt[t] # NoReceipt
    BY <1>1, <1>4 DEF NoReceipt
  <2>2. receipt[t] \in Receipts /\ receipt[t].slot = Slot(t, receipt[t].at)
    BY <2>1 DEF TypeOK, ReceiptInv, Stamped
  <2>3. receipt[t].slot <= s
    BY <1>1, <1>2, <2>2, LaterSlot DEF MySlot
  <2>4. receipt[t].slot = s
    BY <1>1, <1>2, <1>4, <2>3
  <2>5. SlotStart(t, s) <= receipt[t].at
    BY <1>2, <2>2, <2>4, TimeInSlot
  <2>6. CASE receipt[t].state = "rejected"
    <3>1. Clear(t, s, receipt[t].at)
      BY <2>4, <2>6 DEF ToldInv, Tells
    <3> QED BY <1>1, <1>2, <3>1, ClearLater
  <2>7. CASE receipt[t].state # "rejected"
    <3>1. PICK w \in Invocations : Sole(t, s, receipt[t].at, w)
      BY <2>4, <2>7 DEF ToldInv, Tells
    <3>2. receipt[t].state \in {"sending", "accepted"}
      BY <2>2, <2>7 DEF Receipts
    <3>3. PICK r \in Listed(t) : /\ r.status # "active" /\ receipt[t].at <= r.created
                                 /\ r.created < SlotEnd(t, s)
      BY <2>4, <3>2 DEF MayDispatch, reconcileOnly
    <3> QED BY <1>2, <2>5, <3>1, <3>3, ReconciledIsClear
  <2> QED BY <2>6, <2>7
<1> QED BY <1>1, <1>2, <1>3, <1>4


(* What is left to show of a step for one task.                            *)
LEMMA OneTaskSuffices ==
  ASSUME TypeOK, LeaseInv, SentAndTold,
         NEW i \in Invocations, NEW t \in Tasks, TaskStep(i, t),
         GithubInv', \A s \in Nat : Sent(t, s)' <= MaxAttempts[t],
         receipt'[t].at <= clock, Tells(t, receipt[t])', Ready(i, t)',
         \A q \in Puts' \ Puts :
           /\ q.by = i /\ q.task = t /\ q.receipt.at <= clock
           /\ step'[i][t] = "done" /\ Tells(t, q.receipt)'
  PROVE  SentAndTold'
<1>0. /\ Working(i) /\ lease.owner = i
      /\ UNCHANGED <<lease, clock, phase, began>>
      /\ \A j \in Invocations : Working(j)' => j = i
      /\ \A q \in Puts : q.by = i => q.task # t
  BY TaskStepIsAlone DEF SentAndTold
<1>1. SentInv'
  <2> SUFFICES ASSUME NEW u \in Tasks, u # t, NEW s \in Nat PROVE Sent(u, s)' <= MaxAttempts[u]
    BY DEF SentInv
  <2>1. Sent(u, s)' = Sent(u, s)
    BY OtherTasks DEF Sent
  <2> QED BY <2>1 DEF SentAndTold, SentInv
<1>2. ToldInv'
  <2> SUFFICES ASSUME NEW u \in Tasks PROVE (receipt[u].at <= clock /\ Tells(u, receipt[u]))'
    BY DEF ToldInv
  <2>1. CASE u = t
    BY <1>0, <2>1
  <2>2. CASE u # t
    <3>1. PICK r : r = receipt[u]
      OBVIOUS
    <3>2. receipt'[u] = r
      BY <2>2, <3>1, OtherTasks
    <3>3. r.at <= clock /\ Tells(u, r)
      BY <3>1 DEF SentAndTold, ToldInv
    <3>4. Tells(u, r)'
      BY <2>2, <3>3, OtherReceiptsStayTrue
    <3> QED BY <1>0, <3>2, <3>3, <3>4
  <2> QED BY <2>1, <2>2
<1>3. WorkInv'
  <2> SUFFICES ASSUME NEW u \in Tasks, u # t PROVE Ready(i, u)'
    BY <1>0 DEF WorkInv
  <2>1. Ready(i, u)
    BY <1>0 DEF SentAndTold, WorkInv
  <2> QED BY <2>1, OtherTasksStayReady
<1>4. LateInv'
  <2> SUFFICES ASSUME NEW q \in Puts', lease'.owner = q.by
               PROVE  (/\ q.receipt.at <= clock
                       /\ Working(q.by) => step[q.by][q.task] = "done"
                       /\ Tells(q.task, q.receipt))'
    BY DEF LateInv
  <2>1. CASE q \notin Puts
    <3>1. /\ q.by = i /\ q.task = t /\ q.receipt.at <= clock
          /\ step'[i][t] = "done" /\ Tells(t, q.receipt)'
      BY <2>1
    <3> QED BY <1>0, <3>1
  <2>2. CASE q \in Puts
    <3>1. q.by = i /\ q.task # t /\ q.task \in Tasks
      BY <1>0, <2>2, RequestFields DEF Puts, TypeOK
    <3>2. q.receipt.at <= clock /\ step[i][q.task] = "done" /\ Tells(q.task, q.receipt)
      BY <1>0, <2>2, <3>1 DEF SentAndTold, LateInv
    <3>3. step'[i][q.task] = "done" /\ Tells(q.task, q.receipt)'
      BY <3>1, <3>2, OtherTasks, OtherReceiptsStayTrue
    <3> QED BY <1>0, <3>1, <3>2, <3>3
  <2> QED BY <2>1, <2>2
<1> QED BY <1>1, <1>2, <1>3, <1>4 DEF SentAndTold

(* Steps that only move on within the function.                            *)
LEMMA QuietStep ==
  ASSUME TypeOK, LeaseInv, SentAndTold,
         NEW i \in Invocations, NEW t \in Tasks, TaskStep(i, t),
         UNCHANGED <<receipt, late, posts>>, Ready(i, t)'
  PROVE  SentAndTold'
<1>0. UNCHANGED <<clock, runs>>
  BY TaskStepIsAlone DEF SentAndTold
<1>1. \A u, s : PostsOf(u, s)' = PostsOf(u, s) /\ RunsOf(u, s)' = RunsOf(u, s)
  BY <1>0 DEF PostsOf, RunsOf
<1>2. GithubInv'
  BY <1>0 DEF GithubInv, SentAndTold
<1>3. \A s \in Nat : Sent(t, s)' <= MaxAttempts[t]
  BY <1>1 DEF Sent, SentInv, SentAndTold
<1>4. PICK r : r = receipt[t]
  OBVIOUS
<1>5. r.at <= clock /\ Tells(t, r)
  BY <1>4 DEF SentAndTold, ToldInv
<1>6. Tells(t, r)'
  BY <1>1, <1>5 DEF Tells, Clear, Sole
<1>7. receipt'[t] = r
  BY <1>4
<1>8. Puts' = Puts
  BY DEF Puts
<1> QED BY <1>0, <1>2, <1>3, <1>5, <1>6, <1>7, <1>8, OneTaskSuffices

LEMMA GetKeepsAll ==
  ASSUME TypeOK, LeaseInv, SentAndTold, NEW i \in Invocations, NEW t \in Tasks, Get(i, t)
  PROVE  SentAndTold'
<1>1. /\ known' = [known EXCEPT ![i][t] = receipt[t]]
      /\ \E next \in {"done", "list"} : step' = [step EXCEPT ![i][t] = next]
      /\ UNCHANGED <<receipt, late, posts>>
  BY DEF Get, Goto, github
<1>2. known'[i][t] = receipt[t] /\ step'[i][t] \in {"done", "list"}
  BY <1>1 DEF TypeOK
<1>3. Ready(i, t)'
  BY <1>1, <1>2 DEF Ready
<1> QED BY <1>1, <1>3, QuietStep DEF TaskStep

LEMMA ListKeepsAll ==
  ASSUME TypeOK, LeaseInv, ReceiptInv, SentAndTold,
         NEW i \in Invocations, NEW t \in Tasks, List(i, t)
  PROVE  SentAndTold'
<1>1. /\ Working(i) /\ step[i][t] = "list"
      /\ step' = [step EXCEPT ![i][t] = IF MayDispatch(i, t) THEN "put" ELSE "done"]
      /\ UNCHANGED <<began, known, receipt, late, posts, runs>>
  BY DEF List, At, Goto, github
<1>2. step'[i][t] = IF MayDispatch(i, t) THEN "put" ELSE "done"
  BY <1>1 DEF TypeOK
<1>3. known[i][t] = receipt[t]
  BY <1>1 DEF SentAndTold, WorkInv, Ready
<1>4. MayDispatch(i, t) => MayPost(i, t)
  BY <1>1, <1>3, ListIsClear, ClearLeavesRoom DEF SentAndTold
<1>5. MayPost(i, t)' <=> MayPost(i, t)
  BY <1>1 DEF MayPost, Clear, Sent, PostsOf, RunsOf, MySlot
<1>6. Ready(i, t)'
  BY <1>2, <1>4, <1>5 DEF Ready
<1> QED BY <1>1, <1>6, QuietStep DEF TaskStep

LEMMA FailKeepsAll ==
  ASSUME TypeOK, LeaseInv, SentAndTold, NEW i \in Invocations, NEW t \in Tasks, TaskFails(i, t)
  PROVE  SentAndTold'
<1>1. step' = [step EXCEPT ![i][t] = "done"] /\ UNCHANGED <<receipt, late, posts>>
  BY DEF TaskFails, Goto, github
<1>2. step'[i][t] = "done"
  BY <1>1 DEF TypeOK
<1>3. Ready(i, t)'
  BY <1>2 DEF Ready
<1> QED BY <1>1, <1>3, QuietStep DEF TaskStep

LEMMA AnswerKeepsAll ==
  ASSUME TypeOK, LeaseInv, SentAndTold, NEW i \in Invocations, NEW t \in Tasks, Answer(i, t)
  PROVE  SentAndTold'
<1>1. PICK answer \in {"accepted", "rejected", "sending"} :
        AnswerFits(i, t, answer) /\ step' = [step EXCEPT ![i][t] = answer]
  BY DEF Answer, Goto
<1>2. /\ Working(i) /\ step[i][t] = "answer"
      /\ UNCHANGED <<began, receipt, late, posts, runs>>
  BY DEF Answer, At, github
<1>3. step'[i][t] = answer
  BY <1>1 DEF TypeOK
<1>4. Sending(i, t) /\ Sole(t, MySlot(i, t), began[i], i)
  BY <1>2 DEF SentAndTold, WorkInv, Ready
<1>5. answer = "rejected" => Clear(t, MySlot(i, t), began[i])
  <2> SUFFICES ASSUME MyRuns(i, t) = {}, MyPosts(i, t) = {}
               PROVE  Clear(t, MySlot(i, t), began[i])
    BY <1>1 DEF AnswerFits
  <2>1. PostsOf(t, MySlot(i, t)) = {}
    BY <1>4 DEF Sole, MyPosts, PostsOf
  <2>2. \A r \in RunsOf(t, MySlot(i, t)) : Seen(t, r, began[i])
    BY <1>4 DEF Sole, MyRuns, RunsOf
  <2> QED BY <2>1, <2>2 DEF Clear
<1>6. PICK s : s = MySlot(i, t)
  OBVIOUS
<1>7. PICK at : at = began[i]
  OBVIOUS
<1>8. MySlot(i, t)' = s /\ began'[i] = at /\ PostsOf(t, s)' = PostsOf(t, s) /\ RunsOf(t, s)' = RunsOf(t, s)
  BY <1>2, <1>6, <1>7 DEF MySlot, PostsOf, RunsOf
<1>9. Sending(i, t)'
  BY <1>2, <1>4 DEF Sending, Stamp, MySlot
<1>10. Sole(t, s, at, i)' /\ (answer = "rejected" => Clear(t, s, at)')
  BY <1>4, <1>5, <1>6, <1>7, <1>8 DEF Sole, Clear
<1>11. Ready(i, t)'
  BY <1>3, <1>8, <1>9, <1>10 DEF Ready
<1> QED BY <1>2, <1>11, QuietStep DEF TaskStep


(* The writes of a worker.                                                 *)
LEMMA SameGithub ==
  ASSUME UNCHANGED <<posts, runs>>
  PROVE  \A t, s : /\ PostsOf(t, s)' = PostsOf(t, s) /\ RunsOf(t, s)' = RunsOf(t, s)
                   /\ Sent(t, s)' = Sent(t, s)
                   /\ \A at : Clear(t, s, at)' = Clear(t, s, at)
<1>1. \A t, s : PostsOf(t, s)' = PostsOf(t, s) /\ RunsOf(t, s)' = RunsOf(t, s)
  BY DEF PostsOf, RunsOf
<1> QED BY <1>1 DEF Sent, Clear

LEMMA SameTells ==
  ASSUME UNCHANGED <<posts, runs>>, NEW t, NEW r, Tells(t, r)
  PROVE  Tells(t, r)'
BY SameGithub DEF Tells, Clear, Sole

LEMMA LaterReceiptKeepsGithub ==
  ASSUME TypeOK, GithubInv, NEW t \in Tasks, NEW r \in Receipts,
         receipt' = [receipt EXCEPT ![t] = r], receipt[t].slot <= r.slot,
         UNCHANGED <<posts, runs, clock>>
  PROVE  GithubInv'
<1>1. \A u \in Tasks : receipt[u].slot <= receipt'[u].slot
  BY ReceiptFields DEF TypeOK
<1>2. \A u \in Tasks : receipt[u].slot \in Int /\ receipt'[u].slot \in Int
  BY ReceiptFields DEF TypeOK, Receipts
<1>3. \A p \in posts : p.slot <= receipt'[p.task].slot
  BY <1>1, <1>2, PostFields DEF GithubInv
<1>4. \A x \in runs : x.slot <= receipt'[x.task].slot
  BY <1>1, <1>2, RunFields DEF GithubInv
<1> QED BY <1>3, <1>4 DEF GithubInv

(* What a worker writes at each of its steps is right.                     *)
LEMMA WriteTells ==
  ASSUME TypeOK, SentAndTold, NEW i \in Invocations, NEW t \in Tasks, Working(i),
         step[i][t] \in {"put", "accepted", "rejected", "sending"},
         NEW state, state = IF step[i][t] = "put" THEN "sending" ELSE step[i][t]
  PROVE  Tells(t, Stamp(i, t, state))
<1>1. Ready(i, t)
  BY DEF SentAndTold, WorkInv
<1>2. PICK r : r = Stamp(i, t, state)
  OBVIOUS
<1>3. r.slot = MySlot(i, t) /\ r.at = began[i] /\ r.state = state
  BY <1>2 DEF Stamp
<1>4. CASE step[i][t] = "put"
  <2>1. Clear(t, r.slot, r.at)
    BY <1>1, <1>3, <1>4 DEF Ready, MayPost
  <2> QED BY <1>2, <2>1, ClearIsSole DEF Tells
<1>5. CASE step[i][t] = "rejected"
  BY <1>1, <1>2, <1>3, <1>5 DEF Ready, Tells
<1>6. CASE step[i][t] \in {"accepted", "sending"}
  BY <1>1, <1>2, <1>3, <1>6 DEF Ready, Tells
<1> QED BY <1>4, <1>5, <1>6

LEMMA BeforePostKeepsAll ==
  ASSUME TypeOK, LeaseInv, ReceiptInv, SentAndTold,
         NEW i \in Invocations, NEW t \in Tasks, BeforePost(i, t)
  PROVE  SentAndTold'
<1>1. PICK r : r = Stamp(i, t, "sending")
  OBVIOUS
<1>2. /\ Working(i) /\ step[i][t] = "put"
      /\ receipt' = [receipt EXCEPT ![t] = r] /\ step' = [step EXCEPT ![i][t] = "post"]
      /\ UNCHANGED <<clock, late, began, posts, runs>>
  BY <1>1 DEF BeforePost, At, Goto, github
<1>3. r \in Receipts /\ r.at = began[i] /\ receipt[t].slot <= r.slot
  BY <1>1, <1>2, OwnStamp, StampedLater, ReceiptFields DEF Receipts
<1>4. TaskStep(i, t)
  BY DEF TaskStep
<1>5. GithubInv'
  BY <1>2, <1>3, LaterReceiptKeepsGithub DEF SentAndTold
<1>6. \A s \in Nat : Sent(t, s)' <= MaxAttempts[t]
  BY <1>2, SameGithub DEF SentAndTold, SentInv
<1>7. receipt'[t] = r /\ step'[i][t] = "post"
  BY <1>2 DEF TypeOK
<1>8. receipt'[t].at <= clock
  BY <1>3, <1>4, <1>7, TaskStepIsAlone DEF SentAndTold
<1>9. Tells(t, r)'
  BY <1>1, <1>2, WriteTells, SameTells
<1>10. MayPost(i, t)
  BY <1>2 DEF SentAndTold, WorkInv, Ready
<1>11. MayPost(i, t)'
  BY <1>2, <1>10, SameGithub DEF MayPost, MySlot
<1>12. Sending(i, t)'
  BY <1>1, <1>2, <1>7 DEF Sending, Stamp, MySlot
<1>13. Ready(i, t)'
  BY <1>7, <1>11, <1>12 DEF Ready
<1>14. Puts' = Puts
  BY <1>2 DEF Puts
<1>15. Tells(t, receipt[t])'
  BY <1>7, <1>9
<1> QED BY <1>4, <1>5, <1>6, <1>8, <1>13, <1>14, <1>15, OneTaskSuffices

LEMMA AfterPostKeepsAll ==
  ASSUME TypeOK, LeaseInv, ReceiptInv, SentAndTold,
         NEW i \in Invocations, NEW t \in Tasks, AfterPost(i, t)
  PROVE  SentAndTold'
<1>1. PICK r : r = Stamp(i, t, step[i][t])
  OBVIOUS
<1>2. /\ Working(i) /\ step[i][t] \in {"accepted", "rejected", "sending"}
      /\ receipt' = [receipt EXCEPT ![t] = r] /\ step' = [step EXCEPT ![i][t] = "done"]
      /\ UNCHANGED <<clock, late, began, posts, runs>>
  BY <1>1 DEF AfterPost, Goto, github
<1>3. r \in Receipts /\ r.at = began[i] /\ receipt[t].slot <= r.slot
  BY <1>1, <1>2, OwnStamp, StampedLater, ReceiptFields DEF Receipts
<1>4. TaskStep(i, t)
  BY DEF TaskStep
<1>5. GithubInv'
  BY <1>2, <1>3, LaterReceiptKeepsGithub DEF SentAndTold
<1>6. \A s \in Nat : Sent(t, s)' <= MaxAttempts[t]
  BY <1>2, SameGithub DEF SentAndTold, SentInv
<1>7. receipt'[t] = r /\ step'[i][t] = "done"
  BY <1>2 DEF TypeOK
<1>8. receipt'[t].at <= clock
  BY <1>3, <1>4, <1>7, TaskStepIsAlone DEF SentAndTold
<1>9. Tells(t, r)'
  BY <1>1, <1>2, WriteTells, SameTells
<1>10. Ready(i, t)'
  BY <1>7 DEF Ready
<1>11. Puts' = Puts
  BY <1>2 DEF Puts
<1>12. Tells(t, receipt[t])'
  BY <1>7, <1>9
<1> QED BY <1>4, <1>5, <1>6, <1>8, <1>10, <1>11, <1>12, OneTaskSuffices

LEMMA UnansweredKeepsAll ==
  ASSUME TypeOK, LeaseInv, SentAndTold,
         NEW i \in Invocations, NEW t \in Tasks, WriteUnanswered(i, t)
  PROVE  SentAndTold'
<1>1. PICK state : state = IF step[i][t] = "put" THEN "sending" ELSE step[i][t]
  OBVIOUS
<1>2. /\ Working(i) /\ step[i][t] \in {"put", "accepted", "rejected", "sending"}
      /\ late' = late \cup {PutRequest(i, t, state)} /\ step' = [step EXCEPT ![i][t] = "done"]
      /\ UNCHANGED <<clock, receipt, began, posts, runs>>
  BY <1>1 DEF WriteUnanswered, Goto, github
<1>3. PICK r : r = Stamp(i, t, state)
  OBVIOUS
<1>4. TaskStep(i, t)
  BY DEF TaskStep
<1>5. r.at <= clock
  BY <1>3, <1>4, TaskStepIsAlone DEF Stamp, SentAndTold
<1>6. Tells(t, r)'
  BY <1>1, <1>2, <1>3, WriteTells, SameTells
<1>7. step'[i][t] = "done"
  BY <1>2 DEF TypeOK
<1>8. \A q \in Puts' \ Puts :
        /\ q.by = i /\ q.task = t /\ q.receipt.at <= clock
        /\ step'[i][t] = "done" /\ Tells(t, q.receipt)'
  <2> SUFFICES ASSUME NEW q \in Puts' \ Puts
               PROVE  q.by = i /\ q.task = t /\ q.receipt = r
    BY <1>5, <1>6, <1>7
  <2>1. q = PutRequest(i, t, state)
    BY <1>2 DEF Puts
  <2> QED BY <1>3, <2>1 DEF PutRequest
<1>9. Ready(i, t)'
  BY <1>7 DEF Ready
<1>10. GithubInv'
  BY <1>2 DEF GithubInv, SentAndTold
<1>11. \A s \in Nat : Sent(t, s)' <= MaxAttempts[t]
  BY <1>2, SameGithub DEF SentAndTold, SentInv
<1>12. PICK o : o = receipt[t]
  OBVIOUS
<1>13. o.at <= clock /\ Tells(t, o)'
  BY <1>2, <1>12, SameTells DEF SentAndTold, ToldInv
<1>14. receipt'[t] = o
  BY <1>2, <1>12
<1>15. receipt'[t].at <= clock /\ Tells(t, receipt[t])'
  BY <1>13, <1>14
<1> QED BY <1>4, <1>8, <1>9, <1>10, <1>11, <1>15, OneTaskSuffices

(* The dispatch itself.                                                    *)
LEMMA PostKeepsAll ==
  ASSUME TypeOK, LeaseInv, SentAndTold,
         NEW i \in Invocations, NEW t \in Tasks, Post(i, t)
  PROVE  SentAndTold'
<1>1. PICK s : s = MySlot(i, t)
  OBVIOUS
<1>2. PICK at : at = began[i]
  OBVIOUS
<1>3. PICK new : new = [by |-> i, task |-> t, slot |-> s]
  OBVIOUS
<1>4. /\ Working(i) /\ step[i][t] = "post"
      /\ posts' = posts \cup {new} /\ step' = [step EXCEPT ![i][t] = "answer"]
      /\ UNCHANGED <<clock, receipt, late, began, runs>>
  BY <1>1, <1>3 DEF Post, At, Goto
<1>5. TaskStep(i, t)
  BY DEF TaskStep
<1>6. at \in Nat /\ at <= clock /\ clock \in Nat /\ s \in Nat /\ s = Slot(t, at)
  BY <1>1, <1>2, <1>5, TaskStepIsAlone, SlotIsNat DEF MySlot, SentAndTold
<1>7. Clear(t, s, at) /\ Sent(t, s) < MaxAttempts[t] /\ Sending(i, t)
  BY <1>1, <1>2, <1>4 DEF SentAndTold, WorkInv, Ready, MayPost
<1>8. receipt[t].slot = s /\ receipt[t].at = at /\ receipt[t].state = "sending"
  BY <1>1, <1>2, <1>7 DEF Sending, Stamp
<1>9. PostsOf(t, s)' = {new} /\ PostsOf(t, s) = {}
  <2>1. PostsOf(t, s) = {}
    BY <1>7 DEF Clear
  <2> QED BY <1>3, <1>4, <2>1 DEF PostsOf
<1>10. \A u : RunsOf(t, u)' = RunsOf(t, u) /\ (u # s => PostsOf(t, u)' = PostsOf(t, u))
  BY <1>3, <1>4 DEF PostsOf, RunsOf
<1>11. Sole(t, s, at, i)'
  BY <1>3, <1>7, <1>9, <1>10 DEF Sole, Clear
<1>12. GithubInv'
  <2>1. IsFiniteSet(posts')
    BY <1>4, FS_AddElement DEF SentAndTold, GithubInv
  <2>2. SlotStart(t, s) <= clock
    BY <1>6, TimeInSlot, SlotBoundsAreNat
  <2>3. s <= receipt[t].slot
    BY <1>6, <1>8
  <2> QED BY <1>3, <1>4, <2>1, <2>2, <2>3 DEF SentAndTold, GithubInv
<1>13. \A u \in Nat : Sent(t, u)' <= MaxAttempts[t]
  <2> SUFFICES ASSUME NEW u \in Nat PROVE Sent(t, u)' <= MaxAttempts[t]
    OBVIOUS
  <2>1. CASE u # s
    BY <1>10, <2>1 DEF Sent, SentAndTold, SentInv
  <2>2. CASE u = s
    <3>1. Cardinality(PostsOf(t, s)') = 1 /\ Cardinality(PostsOf(t, s)) = 0
      BY <1>9, FS_EmptySet, FS_Singleton
    <3>2. Cardinality(RunsOf(t, s)) \in Nat
      BY PartsAreFinite DEF SentAndTold
    <3>3. Cardinality(RunsOf(t, s)') = Cardinality(RunsOf(t, s))
      BY <1>10
    <3> QED BY <1>7, <2>2, <3>1, <3>2, <3>3, DelayIsNat DEF Sent
  <2> QED BY <2>1, <2>2
<1>14. step'[i][t] = "answer" /\ MySlot(i, t)' = s /\ began'[i] = at
  BY <1>1, <1>2, <1>4 DEF TypeOK, MySlot
<1>15. Sending(i, t)'
  BY <1>4, <1>7 DEF Sending, Stamp, MySlot
<1>16. Ready(i, t)'
  BY <1>11, <1>14, <1>15 DEF Ready
<1>17. receipt'[t].at <= clock /\ Tells(t, receipt[t])'
  BY <1>4, <1>6, <1>8, <1>11 DEF Tells
<1>18. Puts' = Puts
  BY <1>4 DEF Puts
<1> QED BY <1>5, <1>12, <1>13, <1>16, <1>17, <1>18, OneTaskSuffices

LEMMA TaskStepKeepsAll ==
  ASSUME TypeOK, LeaseInv, ReceiptInv, SentAndTold,
         NEW i \in Invocations, NEW t \in Tasks, TaskStep(i, t)
  PROVE  SentAndTold'
BY GetKeepsAll, ListKeepsAll, BeforePostKeepsAll, PostKeepsAll, AnswerKeepsAll,
   AfterPostKeepsAll, FailKeepsAll, UnansweredKeepsAll DEF TaskStep


---------------------------------------------------------------------------
(* The other steps send nothing.                                           *)
LEMMA NothingSent ==
  ASSUME TypeOK, SentAndTold,
         UNCHANGED <<clock, receipt, posts, runs>>,
         \A j \in Invocations :
           Working(j)' =>
             \/ /\ Working(j) /\ step'[j] = step[j]
                /\ known'[j] = known[j] /\ began'[j] = began[j]
             \/ \A t \in Tasks : step'[j][t] \in {"get", "done"},
         \A q \in Puts' :
           /\ q \in Puts
           /\ lease'.owner = q.by =>
                /\ lease.owner = q.by
                /\ Working(q.by)' => Working(q.by) /\ step'[q.by] = step[q.by]
  PROVE  SentAndTold'
<1>1. GithubInv'
  BY DEF GithubInv, SentAndTold
<1>2. SentInv'
  BY SameGithub DEF SentInv, SentAndTold
<1>3. ToldInv'
  BY SameTells DEF ToldInv, SentAndTold
<1>4. WorkInv'
  <2> SUFFICES ASSUME NEW j \in Invocations, Working(j)', NEW t \in Tasks PROVE Ready(j, t)'
    BY DEF WorkInv
  <2>1. CASE step'[j][t] \in {"get", "done"}
    BY <2>1 DEF Ready
  <2>2. CASE Working(j) /\ step'[j] = step[j] /\ known'[j] = known[j] /\ began'[j] = began[j]
    <3>1. Ready(j, t)
      BY <2>2 DEF SentAndTold, WorkInv
    <3>2. PICK s : s = MySlot(j, t)
      OBVIOUS
    <3>3. PICK at : at = began[j]
      OBVIOUS
    <3>4. MySlot(j, t)' = s /\ began'[j] = at
      BY <2>2, <3>2, <3>3 DEF MySlot
    <3>5. PostsOf(t, s)' = PostsOf(t, s) /\ RunsOf(t, s)' = RunsOf(t, s)
      BY SameGithub
    <3>6. MayPost(j, t) => MayPost(j, t)'
      BY <3>2, <3>3, <3>4, <3>5 DEF MayPost, Clear, Sent
    <3>7. Sending(j, t) => Sending(j, t)'
      BY <3>2, <3>3, <3>4 DEF Sending, Stamp
    <3>8. Sole(t, s, at, j) => Sole(t, s, at, j)'
      BY <3>5 DEF Sole
    <3>9. Clear(t, s, at) => Clear(t, s, at)'
      BY <3>5 DEF Clear
    <3> QED BY <2>2, <3>1, <3>2, <3>3, <3>4, <3>6, <3>7, <3>8, <3>9 DEF Ready
  <2> QED BY <2>1, <2>2
<1>5. LateInv'
  <2> SUFFICES ASSUME NEW q \in Puts', lease'.owner = q.by
               PROVE  (/\ q.receipt.at <= clock
                       /\ Working(q.by) => step[q.by][q.task] = "done"
                       /\ Tells(q.task, q.receipt))'
    BY DEF LateInv
  <2>1. /\ q.receipt.at <= clock /\ Tells(q.task, q.receipt)
        /\ Working(q.by) => step[q.by][q.task] = "done"
    BY DEF LateInv, SentAndTold
  <2>2. Tells(q.task, q.receipt)'
    BY <2>1, SameTells
  <2> QED BY <2>1, <2>2
<1> QED BY <1>1, <1>2, <1>3, <1>4, <1>5 DEF SentAndTold

LEMMA EndSendsNothing ==
  ASSUME TypeOK, SentAndTold, NEW i \in Invocations, End(i),
         UNCHANGED <<clock, receipt, posts, runs>>,
         lease'.owner = lease.owner \/ lease'.owner = NoOne,
         \A q \in late' : q \in late \/ q.op # "put"
  PROVE  SentAndTold'
<1>1. phase'[i] = "ended"
  BY DEF End, TypeOK
<1>2. \A j \in Invocations :
        j # i => /\ phase'[j] = phase[j] /\ began'[j] = began[j]
                 /\ step'[j] = step[j] /\ known'[j] = known[j]
  BY DEF End, TypeOK
<1>3. \A j \in Invocations :
        Working(j)' => /\ Working(j) /\ step'[j] = step[j]
                       /\ known'[j] = known[j] /\ began'[j] = began[j]
  BY <1>1, <1>2 DEF Working
<1>4. \A q \in Puts' : q \in Puts /\ q.by \in Invocations
  BY RequestFields DEF Puts, TypeOK
<1>5. \A q \in Puts' :
        lease'.owner = q.by =>
          /\ lease.owner = q.by
          /\ Working(q.by)' => Working(q.by) /\ step'[q.by] = step[q.by]
  BY <1>3, <1>4, TimesAssumption
<1> QED BY <1>3, <1>4, <1>5, NothingSent

LEMMA InvocationSendsNothing ==
  ASSUME TypeOK, LeaseInv, ReceiptInv, SentAndTold, NEW i \in Invocations,
         Start(i) \/ Claim(i) \/ ClaimFails(i) \/ Release(i) \/ ReleaseUnanswered(i) \/ Kill(i)
  PROVE  SentAndTold'
<1> DEFINE tick == TickOf(began[i])
<1>1. CASE Start(i)
  <2>1. /\ phase[i] = "new" /\ phase'[i] = "claiming"
        /\ UNCHANGED <<clock, lease, receipt, late, step, known, posts, runs>>
    BY <1>1 DEF Start, TypeOK, github
  <2>2. \A j \in Invocations : j # i => phase'[j] = phase[j] /\ began'[j] = began[j]
    BY <1>1 DEF Start, TypeOK
  <2>3. \A j \in Invocations : Working(j)' => Working(j) /\ began'[j] = began[j]
    BY <2>1, <2>2 DEF Working
  <2>4. Puts' = Puts /\ \A q \in Puts : q.by \in Invocations
    BY <2>1, RequestFields DEF Puts, TypeOK
  <2> QED BY <2>1, <2>3, <2>4, NothingSent
<1>2. CASE Claim(i) /\ Claimable(lease, i, tick, clock)
  <2>1. /\ phase[i] = "claiming" /\ lease' = Claimed(lease, i, tick, clock)
        /\ phase' = [phase EXCEPT ![i] = "working"]
        /\ step' = [step EXCEPT ![i] = FirstSteps(i)]
        /\ UNCHANGED <<began, known, clock, receipt, late, posts, runs>>
    BY <1>2 DEF Claim, github
  <2>2. lease'.owner = i
    BY <2>1 DEF Claimed, Holds
  <2>3. \A q \in Puts' : q \in Puts /\ q.by # i
    BY <2>1 DEF Puts, ReceiptInv
  <2>4. \A t \in Tasks : step'[i][t] \in {"get", "done"}
    BY <2>1 DEF FirstSteps, TypeOK
  <2>5. \A j \in Invocations : j # i => phase'[j] = phase[j] /\ step'[j] = step[j]
    BY <2>1 DEF TypeOK
  <2>6. \A j \in Invocations :
          Working(j)' =>
            \/ /\ Working(j) /\ step'[j] = step[j]
               /\ known'[j] = known[j] /\ began'[j] = began[j]
            \/ \A t \in Tasks : step'[j][t] \in {"get", "done"}
    BY <2>1, <2>4, <2>5 DEF Working
  <2> QED BY <2>1, <2>2, <2>3, <2>6, NothingSent
<1>3. CASE Claim(i) /\ ~ Claimable(lease, i, tick, clock)
  <2>1. End(i) /\ UNCHANGED <<clock, lease, receipt, late, posts, runs>>
    BY <1>3 DEF Claim, github
  <2> QED BY <2>1, EndSendsNothing
<1>4. CASE ClaimFails(i)
  <2>1. /\ End(i) /\ UNCHANGED <<clock, lease, receipt, posts, runs>>
        /\ late' = late \cup {[by |-> i, op |-> "claim", tick |-> tick]}
    BY <1>4 DEF ClaimFails, github
  <2>2. \A q \in late' : q \in late \/ q.op # "put"
    BY <2>1
  <2> QED BY <2>1, <2>2, EndSendsNothing
<1>5. CASE Release(i)
  <2>1. /\ End(i) /\ UNCHANGED <<clock, receipt, late, posts, runs>>
        /\ lease' = lease \/ lease' = Released(lease)
    BY <1>5 DEF Release, github
  <2>2. Released(lease).owner = NoOne
    BY DEF Released, TypeOK, Leases
  <2> QED BY <2>1, <2>2, EndSendsNothing
<1>6. CASE ReleaseUnanswered(i)
  <2>1. /\ End(i) /\ UNCHANGED <<clock, lease, receipt, posts, runs>>
        /\ late' = late \cup {[by |-> i, op |-> "release"]}
    BY <1>6 DEF ReleaseUnanswered, github
  <2>2. \A q \in late' : q \in late \/ q.op # "put"
    BY <2>1
  <2> QED BY <2>1, <2>2, EndSendsNothing
<1>7. CASE Kill(i)
  <2>1. End(i) /\ UNCHANGED <<clock, lease, receipt, late, posts, runs>>
    BY <1>7 DEF Kill, github
  <2> QED BY <2>1, EndSendsNothing
<1> QED BY <1>1, <1>2, <1>3, <1>4, <1>5, <1>6, <1>7

(* A late write is right when it is applied.                               *)
LEMMA LatePutKeepsAll ==
  ASSUME TypeOK, LeaseInv, ReceiptInv, SentAndTold,
         NEW q \in late, ApplyLate(q), q.op = "put"
  PROVE  SentAndTold'
<1>1. PICK t \in Tasks : t = q.task
  BY LatePut
<1>2. PICK r \in Receipts : r = q.receipt
  BY LatePut
<1>3. /\ q \in Puts /\ lease.owner = q.by /\ late' \subseteq late
      /\ receipt' = [receipt EXCEPT ![t] = r]
      /\ Stamped(t, r) /\ receipt[t].at <= r.at
      /\ UNCHANGED <<clock, lease, phase, began, step, known, posts, runs>>
  BY <1>1, <1>2, LatePut DEF ApplyLate, ticks, github
<1>4. /\ r.at <= clock /\ Tells(t, r)
      /\ Working(q.by) => step[q.by][t] = "done"
  BY <1>1, <1>2, <1>3 DEF SentAndTold, LateInv
<1>5. receipt'[t] = r /\ \A u \in Tasks : u # t => receipt'[u] = receipt[u]
  BY <1>3 DEF TypeOK
<1>6. GithubInv'
  <2>1. receipt[t].slot <= r.slot
    BY <1>3, StampedLater, ReceiptFields DEF Receipts
  <2> QED BY <1>3, <2>1, LaterReceiptKeepsGithub DEF SentAndTold
<1>7. SentInv'
  BY <1>3, SameGithub DEF SentInv, SentAndTold
<1>8. ToldInv'
  <2> SUFFICES ASSUME NEW u \in Tasks PROVE (receipt[u].at <= clock /\ Tells(u, receipt[u]))'
    BY DEF ToldInv
  <2>1. PICK o : o = receipt'[u]
    OBVIOUS
  <2>2. o.at <= clock /\ Tells(u, o)
    BY <1>4, <1>5, <2>1 DEF ToldInv, SentAndTold
  <2>3. Tells(u, o)'
    BY <1>3, <2>2, SameTells
  <2> QED BY <1>3, <2>1, <2>2, <2>3
<1>9. WorkInv'
  <2> SUFFICES ASSUME NEW j \in Invocations, Working(j)', NEW u \in Tasks PROVE Ready(j, u)'
    BY DEF WorkInv
  <2>1. Working(j) /\ j = q.by
    BY <1>3 DEF Working, LeaseInv
  <2>2. CASE u = t
    BY <1>3, <1>4, <2>1, <2>2 DEF Ready
  <2>3. CASE u # t
    <3>1. Ready(j, u)
      BY <2>1 DEF SentAndTold, WorkInv
    <3>2. PICK s : s = MySlot(j, u)
      OBVIOUS
    <3>3. PICK at : at = began[j]
      OBVIOUS
    <3>4. MySlot(j, u)' = s /\ began'[j] = at /\ receipt'[u] = receipt[u]
      BY <1>3, <1>5, <2>3, <3>2, <3>3 DEF MySlot
    <3>5. PostsOf(u, s)' = PostsOf(u, s) /\ RunsOf(u, s)' = RunsOf(u, s)
      BY <1>3, SameGithub
    <3>6. MayPost(j, u) => MayPost(j, u)'
      BY <3>2, <3>3, <3>4, <3>5 DEF MayPost, Clear, Sent
    <3>7. Sending(j, u) => Sending(j, u)'
      BY <3>2, <3>3, <3>4 DEF Sending, Stamp
    <3>8. Sole(u, s, at, j) => Sole(u, s, at, j)'
      BY <3>5 DEF Sole
    <3>9. Clear(u, s, at) => Clear(u, s, at)'
      BY <3>5 DEF Clear
    <3> QED BY <1>3, <3>1, <3>2, <3>3, <3>4, <3>6, <3>7, <3>8, <3>9 DEF Ready
  <2> QED BY <2>2, <2>3
<1>10. LateInv'
  <2> SUFFICES ASSUME NEW o \in Puts', lease'.owner = o.by
               PROVE  (/\ o.receipt.at <= clock
                       /\ Working(o.by) => step[o.by][o.task] = "done"
                       /\ Tells(o.task, o.receipt))'
    BY DEF LateInv
  <2>1. o \in Puts /\ lease.owner = o.by
    BY <1>3 DEF Puts
  <2>2. /\ o.receipt.at <= clock /\ Tells(o.task, o.receipt)
        /\ Working(o.by) => step[o.by][o.task] = "done"
    BY <2>1 DEF LateInv, SentAndTold
  <2>3. Tells(o.task, o.receipt)'
    BY <1>3, <2>2, SameTells
  <2> QED BY <1>3, <2>2, <2>3 DEF Working
<1> QED BY <1>6, <1>7, <1>8, <1>9, <1>10 DEF SentAndTold

LEMMA LateKeepsAll ==
  ASSUME TypeOK, LeaseInv, ReceiptInv, SentAndTold, NEW q \in late, ApplyLate(q)
  PROVE  SentAndTold'
<1>0. q \in Requests /\ q.by \in Invocations /\ q.op \in {"claim", "release", "put"}
  BY RequestFields DEF TypeOK
<1>1. /\ UNCHANGED <<clock, phase, began, step, known, posts, runs>>
      /\ Puts' \subseteq Puts
  BY DEF ApplyLate, ticks, github, Puts
<1>2. ASSUME UNCHANGED receipt,
             \A o \in Puts : lease'.owner = o.by => lease.owner = o.by
      PROVE  SentAndTold'
  BY <1>1, <1>2, NothingSent DEF Working
<1>3. CASE q.op = "claim"
  <2>1. lease' = Claimed(lease, q.by, q.tick, clock) /\ UNCHANGED receipt
    BY <1>3 DEF ApplyLate
  <2>2. lease' = lease \/ lease'.owner = q.by
    BY <2>1 DEF Claimed
  <2>3. \A o \in Puts : o.by # q.by
    BY <1>3 DEF ReceiptInv
  <2> QED BY <1>2, <2>1, <2>2, <2>3
<1>4. CASE q.op = "release"
  <2>1. lease' = Released(lease) /\ UNCHANGED receipt
    BY <1>4 DEF ApplyLate
  <2>2. lease'.owner = NoOne
    BY <2>1 DEF Released, TypeOK, Leases
  <2>3. \A o \in Puts : o.by \in Invocations
    BY RequestFields DEF Puts, TypeOK
  <2> QED BY <1>2, <2>1, <2>2, <2>3, TimesAssumption
<1> QED BY <1>0, <1>3, <1>4, LatePutKeepsAll

LEMMA PassKeepsAll ==
  ASSUME TypeOK, SentAndTold, Pass
  PROVE  SentAndTold'
<1>1. /\ clock' = clock + 1 /\ clock \in Nat
      /\ UNCHANGED <<lease, receipt, late, phase, began, step, known, posts, runs>>
  BY DEF Pass, ticks, github, TypeOK
<1>2. GithubInv'
  <2>1. \A p \in posts : SlotStart(p.task, p.slot) <= clock'
    <3> SUFFICES ASSUME NEW p \in posts PROVE SlotStart(p.task, p.slot) <= clock'
      OBVIOUS
    <3>1. SlotStart(p.task, p.slot) \in Nat
      BY PostFields, SlotBoundsAreNat
    <3>2. SlotStart(p.task, p.slot) <= clock
      BY DEF SentAndTold, GithubInv
    <3> QED BY <1>1, <3>1, <3>2
  <2> QED BY <1>1, <2>1 DEF SentAndTold, GithubInv
<1>3. SentInv'
  BY <1>1, SameGithub DEF SentInv, SentAndTold
<1>4. ToldInv'
  <2> SUFFICES ASSUME NEW t \in Tasks PROVE (receipt[t].at <= clock /\ Tells(t, receipt[t]))'
    BY DEF ToldInv
  <2>1. PICK r : r = receipt[t]
    OBVIOUS
  <2>2. r.at \in Nat /\ r.at <= clock /\ Tells(t, r)
    BY <2>1, ReceiptFields DEF SentAndTold, ToldInv
  <2>3. Tells(t, r)'
    BY <1>1, <2>2, SameTells
  <2> QED BY <1>1, <2>1, <2>2, <2>3
<1>5. WorkInv'
  <2>1. \A i \in Invocations, t \in Tasks : Ready(i, t)' <=> Ready(i, t)
    BY <1>1 DEF Ready, MayPost, Sending, Clear, Sole, Sent, PostsOf, RunsOf, MySlot, Stamp
  <2> QED BY <1>1, <2>1 DEF SentAndTold, WorkInv, Working
<1>6. LateInv'
  <2> SUFFICES ASSUME NEW q \in Puts', lease'.owner = q.by
               PROVE  (/\ q.receipt.at <= clock
                       /\ Working(q.by) => step[q.by][q.task] = "done"
                       /\ Tells(q.task, q.receipt))'
    BY DEF LateInv
  <2>1. q \in Puts /\ lease.owner = q.by
    BY <1>1 DEF Puts
  <2>2. /\ q.receipt.at <= clock /\ Tells(q.task, q.receipt)
        /\ Working(q.by) => step[q.by][q.task] = "done"
    BY <2>1 DEF LateInv, SentAndTold
  <2>3. q.receipt.at \in Nat
    BY <2>1, RequestFields DEF Puts, TypeOK, Receipts
  <2>4. Tells(q.task, q.receipt)'
    BY <1>1, <2>2, SameTells
  <2> QED BY <1>1, <2>2, <2>3, <2>4 DEF Working
<1> QED BY <1>2, <1>3, <1>4, <1>5, <1>6 DEF SentAndTold


DispatchInv == TypeOK /\ LeaseInv /\ ReceiptInv /\ SentAndTold

LEMMA InitDispatch == Init => DispatchInv
<1> SUFFICES ASSUME Init PROVE SentAndTold
  BY InitLease, InitOrder DEF DispatchInv
<1>1. posts = {} /\ runs = {} /\ late = {} /\ clock = 0
  BY DEF Init
<1>2. \A t, s : PostsOf(t, s) = {} /\ RunsOf(t, s) = {}
  BY <1>1 DEF PostsOf, RunsOf
<1>3. GithubInv
  BY <1>1, FS_EmptySet DEF GithubInv
<1>4. SentInv
  <2> SUFFICES ASSUME NEW t \in Tasks, NEW s \in Nat PROVE Sent(t, s) <= MaxAttempts[t]
    BY DEF SentInv
  <2>1. Sent(t, s) = 0
    BY <1>2, FS_EmptySet DEF Sent
  <2> QED BY <2>1, DelayIsNat
<1>5. ToldInv
  BY <1>1, <1>2 DEF Init, ToldInv, Tells, NoReceipt, Clear
<1>6. WorkInv
  BY DEF Init, WorkInv, Working
<1>7. LateInv
  BY <1>1 DEF LateInv, Puts
<1> QED BY <1>3, <1>4, <1>5, <1>6, <1>7 DEF SentAndTold

LEMMA NextKeepsDispatch == DispatchInv /\ [Next]_vars => DispatchInv'
<1> SUFFICES ASSUME DispatchInv, [Next]_vars PROVE SentAndTold'
  BY NextKeepsTypes, NextKeepsLease, NextKeepsOrder DEF DispatchInv
<1> USE DEF DispatchInv
<1>1. CASE UNCHANGED vars
  <2>1. /\ UNCHANGED <<clock, lease, receipt, late, phase, began, step, known, posts, runs>>
        /\ Puts' = Puts
    BY <1>1 DEF vars, Puts
  <2> QED BY <2>1, NothingSent DEF Working
<1>2. CASE Step
  <2>1. ASSUME GithubStep PROVE SentAndTold'
    BY <2>1, GithubKeepsAll
  <2> QED
    BY <1>2, <2>1, TaskStepKeepsAll, InvocationSendsNothing, LateKeepsAll, PassKeepsAll
    DEF Step, GithubStep
<1> QED BY <1>1, <1>2 DEF Next

(* What GitHub may still start or is running, the receipt of its task says *)
(* may exist, and a slot starts no more runs than its task may: however    *)
(* late GitHub accepts, lists or ends them, whatever writes are lost or    *)
(* applied late, wherever a function is killed (durable-dispatch.ts).      *)
THEOREM DispatchesStayCounted == Spec => []DispatchesAreCounted
<1>1. DispatchInv => DispatchesAreCounted
  <2> SUFFICES ASSUME DispatchInv, NEW t \in Tasks, NEW s \in 0 .. Slot(t, clock)
               PROVE  /\ Unsettled(t, s) =>
                           \/ receipt[t].slot > s
                           \/ receipt[t].slot = s /\ receipt[t].state \in {"sending", "accepted"}
                      /\ Sent(t, s) <= MaxAttempts[t]
    BY DEF DispatchesAreCounted, ReceiptCoversDispatch, AttemptsBounded, Sent
  <2> USE DEF DispatchInv, SentAndTold
  <2>1. s \in Nat
    BY SlotIsNat DEF TypeOK
  <2>2. Sent(t, s) <= MaxAttempts[t]
    BY <2>1 DEF SentInv
  <2>3. ASSUME Unsettled(t, s)
        PROVE  \/ receipt[t].slot > s
               \/ receipt[t].slot = s /\ receipt[t].state \in {"sending", "accepted"}
    <3>1. s <= receipt[t].slot
      BY <2>3 DEF Unsettled, PostsOf, RunsOf, GithubInv
    <3>2. CASE receipt[t].slot # s
      BY <2>1, <3>1, <3>2, ReceiptFields
    <3>3. CASE receipt[t].slot = s
      <4>1. ~ Clear(t, s, receipt[t].at)
        BY <2>3 DEF Unsettled, Clear, Seen
      <4>2. receipt[t].state # "rejected"
        BY <3>3, <4>1 DEF ToldInv, Tells
      <4>3. receipt[t] # NoReceipt
        BY <4>2 DEF NoReceipt
      <4>4. receipt[t].state \in {"sending", "accepted"}
        BY <4>2, <4>3 DEF TypeOK, Receipts
      <4> QED BY <3>3, <4>4
    <3> QED BY <3>2, <3>3
  <2> QED BY <2>2, <2>3
<1> QED BY <1>1, InitDispatch, NextKeepsDispatch, PTL DEF Spec

LEMMA PostFollowsFailure == DispatchInv /\ [Next]_vars => RetryFollowsFailure
<1> SUFFICES ASSUME DispatchInv, [Next]_vars, NEW new \in posts' \ posts
             PROVE  /\ ~ Unsettled(new.task, new.slot)
                    /\ \A r \in RunsOf(new.task, new.slot) :
                         r.status = "failure" /\ clock - r.created >= RetryDelay[new.task]
  BY DEF RetryFollowsFailure
<1> USE DEF DispatchInv, SentAndTold
<1>1. PICK i \in Invocations, t \in Tasks : Post(i, t)
  <2>1. Step
    BY DEF vars, Next
  <2>2. ASSUME NEW i \in Invocations, NEW t \in Tasks, TaskStep(i, t), ~ Post(i, t) PROVE FALSE
    BY <2>2 DEF TaskStep, Get, List, BeforePost, Answer, AfterPost, TaskFails, WriteUnanswered, github
  <2>3. ASSUME NEW i \in Invocations,
               Start(i) \/ Claim(i) \/ ClaimFails(i) \/ Release(i) \/ ReleaseUnanswered(i) \/ Kill(i)
        PROVE  FALSE
    BY <2>3 DEF Start, Claim, ClaimFails, Release, ReleaseUnanswered, Kill, github
  <2>4. ASSUME GithubStep PROVE FALSE
    BY <2>4 DEF GithubStep, Accept, Reject, Appear, Complete
  <2>5. ASSUME NEW q \in late, ApplyLate(q) PROVE FALSE
    BY <2>5 DEF ApplyLate, github
  <2>6. ~ Pass
    BY DEF Pass, github
  <2> QED BY <2>1, <2>2, <2>3, <2>4, <2>5, <2>6 DEF Step, GithubStep
<1>2. /\ Working(i) /\ step[i][t] = "post"
      /\ new.task = t /\ new.slot = MySlot(i, t)
  BY <1>1 DEF Post, At
<1>3. Clear(t, MySlot(i, t), began[i])
  BY <1>2 DEF WorkInv, Ready, MayPost
<1>4. began[i] \in Nat /\ began[i] <= clock /\ clock \in Nat
  BY <1>2 DEF TypeOK, LeaseInv, Working, Running
<1>5. \A r \in RunsOf(t, MySlot(i, t)) :
        r.status = "failure" /\ clock - r.created >= RetryDelay[t]
  <2> SUFFICES ASSUME NEW r \in RunsOf(t, MySlot(i, t))
               PROVE  r.status = "failure" /\ clock - r.created >= RetryDelay[t]
    OBVIOUS
  <2>1. r.status = "failure" /\ r.created + RetryDelay[t] <= began[i]
    BY <1>3 DEF Clear, Seen
  <2>2. r.created \in Nat /\ RetryDelay[t] \in Nat
    BY RunFields, DelayIsNat DEF RunsOf
  <2> QED BY <1>4, <2>1, <2>2
<1>6. ~ Unsettled(t, MySlot(i, t))
  BY <1>3, <1>5 DEF Unsettled, Clear
<1> QED BY <1>2, <1>5, <1>6

(* A dispatch is repeated only after everything sent before it for the     *)
(* slot was rejected or has failed, and after the delay, although the      *)
(* answers of GitHub are lost or wrong and its list is behind              *)
(* (durable-dispatch.ts, dispatch.ts).                                     *)
THEOREM RetriesAlwaysFollowFailures == Spec => RetriesFollowFailures
<1>1. DispatchInv /\ [Next]_vars => [RetryFollowsFailure]_vars
  BY PostFollowsFailure
<1> QED BY <1>1, InitDispatch, NextKeepsDispatch, PTL DEF Spec, RetriesFollowFailures

=============================================================================
