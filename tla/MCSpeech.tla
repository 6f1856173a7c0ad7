------------------------------ MODULE MCSpeech ------------------------------
(* Small instances of SpeechDelivery for TLC. *)
EXTENDS SpeechDelivery, TLC

CONSTANTS r1, r2, i1, i2

TwoRequests == {r1, r2}
OneInstance == {i1}
TwoInstances == {i1, i2}
Listening == {"autoStream", "auto"}

Symmetry == Permutations(Requests) \cup Permutations(Instances)
=============================================================================
