----------------------------- MODULE MCLibrary -----------------------------
(* A small instance of SpeechLibrary for TLC: two segments, one of them in *)
(* both chapters, and an outbox for one of them at a time.                 *)
EXTENDS SpeechLibrary, TLC

CONSTANTS s1, s2, c1, c2

TwoSegments == {s1, s2}
TwoChapters == {c1, c2}
Shared == (c1 :> {s1, s2}) @@ (c2 :> {s2})
=============================================================================
