---------------------------- MODULE RuntimeQueue ----------------------------
(***************************************************************************)
(* Selection of the next Process batch from the status objects, the        *)
(* pending markers and the recent-upload window (queue.ts).                *)
(***************************************************************************)
EXTENDS ProcessGeneration

CONSTANT LegacyQueue   \* jobs of the retired pending-jobs.json, read only

\* The statuses a selection reads: marked, of the legacy queue, or uploaded in the
\* last hour.  hidden is the set of jobs whose status is older than that.
ActiveJobs(status, marker, hidden) ==
    {j \in Jobs : /\ status[j] # NoStatus
                  /\ status[j].state # "done"
                  /\ j \in marker \cup LegacyQueue \/ j \notin hidden}

StagedJobs(status, jobs) == {j \in jobs : status[j].staged # NoGeneration}

\* Due partial jobs by updatedAt come before ready jobs by createdAt.
SelectedBefore(status, updatedBefore, j, k) ==
    \/ status[j].state = "partial" /\ status[k].state = "ready"
    \/ status[j].state = "partial" /\ status[k].state = "partial" /\ <<j, k>> \in updatedBefore
    \/ status[j].state = "ready" /\ status[k].state = "ready" /\ j < k

\* [...duePartial, ...ready].slice(0, maxJobs)
IsFifoBatch(batch, status, updatedBefore, eligible) ==
    /\ Members(batch) \subseteq eligible
    /\ \A i, k \in DOMAIN batch :
          i < k => SelectedBefore(status, updatedBefore, batch[i], batch[k])
    /\ \A j \in eligible \ Members(batch) :
          /\ DOMAIN batch = 1 .. MaxBatch
          /\ \A i \in DOMAIN batch : SelectedBefore(status, updatedBefore, batch[i], j)

\* Mutant: a staged job has no precedence.
StagedNotFirst(batch, status, updatedBefore, active, due) ==
    IsFifoBatch(batch, status, updatedBefore,
                {j \in active : status[j].state = "partial" => j \in due})

\* selectRuntimeJobs without an exact job: a staged job is selected alone; more than
\* one staged job is an error and selects nothing.  due are the partial jobs whose
\* backoff has elapsed.
IsSelection(batch, status, updatedBefore, active, due) ==
    LET staged == StagedJobs(status, active)
    IN  IF staged # {}
        THEN \E j \in staged : staged = {j} /\ batch = [i \in 1 .. 1 |-> j]
        ELSE IsFifoBatch(batch, status, updatedBefore,
                         {j \in active : status[j].state = "partial" => j \in due})

\* An exact job cannot bypass another staged job.
MaySelectExactly(j, status, active) ==
    /\ status[j] # NoStatus
    /\ status[j].state # "done"
    /\ StagedJobs(status, active \cup {j}) \subseteq {j}

=============================================================================
