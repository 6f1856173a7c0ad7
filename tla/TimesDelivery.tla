---------------------------- MODULE TimesDelivery ----------------------------
(***************************************************************************)
(* What the publishing pipeline promises its readers: Process results      *)
(* reach the Delivery indexes one whole transaction after the other.  A    *)
(* transaction is recorded before any index shows it; every index shows    *)
(* all of it before it is committed; it is forgotten only once committed;  *)
(* and none is recorded before the one in front of it is forgotten.        *)
(***************************************************************************)
CONSTANTS
    Articles,      \* what the indexes list
    Indexes,       \* the indexes readers follow, in any order
    Transactions,  \* generations; .memory is the view of the articles to be shown
    None           \* no transaction

VARIABLES
    committed,     \* the transaction the process memory is at, or None
    staged,        \* the transaction under way, or None
    shown          \* shown[k][a]: the version of a that index k lists

Init ==
    /\ committed \in Transactions \cup {None}
    /\ staged = None
    /\ \A k, l \in Indexes : shown[k] = shown[l]

Stage ==
    /\ staged = None
    /\ staged' \in Transactions
    /\ UNCHANGED <<committed, shown>>

\* An index moves towards the staged transaction, for some of the articles.
Show ==
    /\ staged # None
    /\ \E k \in Indexes, moved \in SUBSET Articles :
          shown' = [shown EXCEPT ![k] =
                       [a \in Articles |-> IF a \in moved THEN staged.memory[a] ELSE @[a]]]
    /\ UNCHANGED <<committed, staged>>

Commit ==
    /\ staged # None
    /\ \A k \in Indexes : shown[k] = staged.memory
    /\ committed' = staged
    /\ UNCHANGED <<staged, shown>>

Forget ==
    /\ staged # None
    /\ committed = staged
    /\ staged' = None
    /\ UNCHANGED <<committed, shown>>

Next == Stage \/ Show \/ Commit \/ Forget

Spec == Init /\ [][Next]_<<committed, staged, shown>>

=============================================================================
