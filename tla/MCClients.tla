----------------------------- MODULE MCClients -----------------------------
(* Small instances of AuthSession and of OfflineBooks for TLC, side by     *)
(* side: they share nothing, and a behaviour is one of either.  The books  *)
(* know of the account only what the storage of the session says.          *)
EXTENDS AuthSession, OfflineBooks, TLC

CONSTANTS u1, u2, t1, t2, o1, o2

TwoUsers == {u1, u2}
TwoTabs == {t1, t2}
TwoObjects == {o1, o2}

VARIABLE inBooks

OneInit ==
  /\ inBooks \in BOOLEAN
  /\ Init /\ BooksInit
  /\ IF inBooks THEN ~native /\ stored = None ELSE account = NoOne

OneNext ==
  IF inBooks THEN BooksNext /\ UNCHANGED <<inBooks, vars>>
  ELSE Next /\ UNCHANGED <<inBooks, bookVars>>

OneSpec == OneInit /\ [][OneNext]_<<inBooks, vars, bookVars>>

Alike == Permutations(TwoUsers) \cup Permutations(TwoTabs) \cup Permutations(TwoObjects)
=============================================================================
