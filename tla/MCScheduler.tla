---------------------------- MODULE MCScheduler ----------------------------
(* Small instances of MaintenanceScheduler for TLC, one for each kind of   *)
(* task: a daily one with two attempts, and a frequent one with a single   *)
(* attempt.  Tasks share nothing but the lease and are checked one at a    *)
(* time.  The unit of time is half a minute: the daily slot outlasts the   *)
(* instance, the second frequent slot begins at its last moment.           *)
EXTENDS MaintenanceScheduler, TLC

CONSTANTS i1, i2, i3, daily, frequent

ThreeTicks == {i1, i2, i3}
BothKinds == {daily, frequent}

Attempts == daily :> 2 @@ frequent :> 1
Delays == daily :> 2 @@ frequent :> 0
Slots == daily :> 5 @@ frequent :> 4

OneKindInit == Init /\ \E kind \in Tasks : registry = {kind}
OneKindSpec == OneKindInit /\ [][Next]_vars

Symmetry == Permutations(Invocations)
=============================================================================
