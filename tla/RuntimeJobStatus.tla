-------------------------- MODULE RuntimeJobStatus --------------------------
(***************************************************************************)
(* The status object of a Runtime job (times/jobs/{id}/status.json) and    *)
(* the two pure functions that advance it.  Articles are the (sourceId,    *)
(* articleId) keys; the code keeps only counts of the completed and        *)
(* excluded ones, the model keeps the articles so that properties can name *)
(* them.  Of the number of attempts it keeps whether there was one: the    *)
(* number itself only spaces the retries.  Failure reasons and timestamps  *)
(* are left out: the order of updatedAt is kept by the system module.      *)
(***************************************************************************)
EXTENDS Naturals

CONSTANTS
    Articles,      \* (sourceId, articleId) keys that captures may report
    NoGeneration,  \* "no staged Process generation"
    NoStatus       \* "no status object in the bucket"

States == {"ready", "partial", "done"}

\* What a run makes of one article: "silent" is not reported at all, "refused" is written
\* to Canonical and then not listed, because the source no longer accepts its URL.
Outcomes == {"silent", "unchanged", "written", "refused", "excluded", "removed", "retry"}

Completing == {"written", "refused", "unchanged"}

InitialStatus(articles) ==
    [state |-> "ready", tried |-> FALSE, pending |-> articles,
     completed |-> {}, excluded |-> {}, staged |-> NoGeneration]

\* Mutant: a processing failure is also counted as excluded.
RetryIsExcluded(st, outcome) ==
    LET Having(kinds) == {a \in st.pending : outcome[a] \in kinds}
        pending       == Having({"retry", "silent"})
    IN  [st EXCEPT !.state = IF pending = {} THEN "done" ELSE "partial", !.tried = TRUE,
                   !.pending = pending, !.staged = NoGeneration,
                   !.completed = @ \cup Having(Completing),
                   !.excluded = @ \cup Having({"excluded", "removed", "retry"})]

\* Mutant: a processing failure is counted as completed.
RetryIsCompleted(st, outcome) ==
    LET Having(kinds) == {a \in st.pending : outcome[a] \in kinds}
    IN  [st EXCEPT !.state = "done", !.tried = TRUE, !.pending = {}, !.staged = NoGeneration,
                   !.completed = @ \cup Having(Completing \cup {"retry", "silent"}),
                   !.excluded = @ \cup Having({"excluded", "removed"})]

\* Mutant: stagedProcess stays in the status that is marked.
StagedKept(st, outcome) ==
    LET Having(kinds) == {a \in st.pending : outcome[a] \in kinds}
        pending       == Having({"retry", "silent"})
    IN  [st EXCEPT !.state = IF pending = {} THEN "done" ELSE "partial", !.tried = TRUE,
                   !.pending = pending,
                   !.completed = @ \cup Having(Completing),
                   !.excluded = @ \cup Having({"excluded", "removed"})]

\* processOutcome: what process-result.json lists as retryable, excluded and completed.
\* An article it does not list stays pending, as a retryable one does.
StatusAfterSuccessfulDelivery(st, outcome) ==
    LET Having(kinds) == {a \in st.pending : outcome[a] \in kinds}
        pending       == Having({"retry", "silent"})
    IN  [state     |-> IF pending = {} THEN "done" ELSE "partial",
         tried     |-> TRUE,
         pending   |-> pending,
         completed |-> st.completed \cup Having(Completing),
         excluded  |-> st.excluded \cup Having({"excluded", "removed"}),
         staged    |-> NoGeneration]

\* Mutant: a done job is deferred like any other.
DoneIsDeferred(st) ==
    [st EXCEPT !.state    = IF st.staged # NoGeneration THEN "ready" ELSE "partial",
               !.tried    = TRUE]

StatusAfterRuntimeFailure(st) ==
    IF st.state = "done" THEN st
    ELSE [st EXCEPT !.state    = IF st.staged # NoGeneration THEN "ready" ELSE "partial",
                    !.tried    = TRUE]

\* What parseRuntimeJobStatus accepts: the counts add up, a done job owes nothing.
WellFormedStatus(st) ==
    /\ st.pending \cap st.completed = {}
    /\ st.pending \cap st.excluded = {}
    /\ st.completed \cap st.excluded = {}
    /\ st.state = "done" => st.pending = {}

=============================================================================
