--------------------------- MODULE SchedulerState ---------------------------
(***************************************************************************)
(* The private state of the maintenance scheduler: one control row with    *)
(* the lease of the running tick, and the latest delivery receipt of each  *)
(* task.  Every access is one call of the SQL function                     *)
(* maintenance_scheduler_rpc, which locks the control row, reads the       *)
(* server's clock and decides.  The backend is "tencent" throughout; the   *)
(* migration from the former backend is not modelled.                      *)
(***************************************************************************)
EXTENDS Integers

CONSTANTS
  Invocations,   \* runs of the cloud function, each with an owner of its own
  NoOne,         \* the lease has no owner
  Tasks,         \* the task registry
  Period,        \* [Tasks -> time between two slots of the task]
  Catchup,       \* [Tasks -> how long after its start a slot is due]
  Minute,        \* the timer's period, and the grain of a tick
  LeaseLength    \* 90 seconds

ASSUME TimesAssumption ==
  /\ NoOne \notin Invocations
  /\ Period \in [Tasks -> Nat \ {0}]
  /\ Catchup \in [Tasks -> Nat]
  /\ \A t \in Tasks : Catchup[t] <= Period[t]
  /\ Minute \in Nat \ {0}
  /\ LeaseLength \in Nat \ {0}

TickOf(now) == now \div Minute

(* A lease that was released, or never claimed, has ended at time 0. *)
NoLease == [owner |-> NoOne, leaseUntil |-> 0, lastTick |-> -1]
Leases == [owner : Invocations \cup {NoOne}, leaseUntil : Nat, lastTick : Nat \cup {-1}]

(* The latest receipt of a task says which slot it is for. *)
Receipts == [slot : Nat, state : {"sending", "accepted", "rejected"}, at : Nat]
NoReceipt == [slot |-> -1, state |-> "rejected", at |-> 0]

Slot(t, now) == now \div Period[t]
SlotStart(t, s) == s * Period[t]
SlotEnd(t, s) == (s + 1) * Period[t]
Due(t, now) == now - SlotStart(t, Slot(t, now)) < Catchup[t]

---------------------------------------------------------------------------
(* Whether i holds the lease at the server's time. *)
Holds(lease, i, now) == lease.owner = i /\ lease.leaseUntil > now

Fresh(tick, now) ==
  /\ tick * Minute >= now - 2 * Minute
  /\ 2 * tick * Minute <= 2 * now + Minute

(* The three refusals of a claim, and the idempotent repetition. *)
Claimable(lease, i, tick, now) ==
  /\ Fresh(tick, now)
  /\ \/ Holds(lease, i, now)
     \/ /\ lease.leaseUntil <= now
        /\ lease.lastTick < tick

Claimed(lease, i, tick, now) ==
  IF Holds(lease, i, now)
  THEN lease
  ELSE [owner |-> i, leaseUntil |-> now + LeaseLength, lastTick |-> tick]

(* Mutant of MayWrite: any owner while somebody holds the lease. *)
AnyoneMayWrite(lease, i, now) == lease.leaseUntil > now

(* Every other operation is refused unless the owner still holds the lease. *)
MayWrite(lease, i, now) == Holds(lease, i, now)

Released(lease) == [lease EXCEPT !.owner = NoOne, !.leaseUntil = 0]
=============================================================================
