----------------------------- MODULE MCMonitor -----------------------------
(* The small instance of TaskMonitor for TLC. *)
EXTENDS TaskMonitor, TLC
=============================================================================
