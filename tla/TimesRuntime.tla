---------------------------- MODULE TimesRuntime ----------------------------
(***************************************************************************)
(* The Times publishing pipeline around its Runtime bucket: Capture runs   *)
(* publish Raw jobs, one writer at a time (a Process run or the retention  *)
(* cleanup) turns them into immutable generations, publishes those to the  *)
(* B2 Delivery indexes in commit order, moves the Process memory pointer   *)
(* and settles the job statuses.  Every upload and delete is a step, so    *)
(* that a run can be killed, or fail, between any two of them.             *)
(***************************************************************************)
EXTENDS RuntimeCleanup

CONSTANTS
    SeededMemory,  \* TRUE: the bootstrap generation has already been committed
    Events         \* which faults, commands and cleanups this environment has

ASSUME EnvironmentAssumption ==
    /\ SeededMemory \in BOOLEAN
    /\ SeededMemory => 1 \in Archives
    /\ Events \subseteq {"kill",      \* a runner is lost, cancelled or timed out
                         "fail",      \* a step of a workflow fails
                         "window",    \* an hour passes without a Process run
                         "retention", \* the daily cleanup finds something to delete
                         "outage",    \* the retention passes without a Process run
                         "operator",  \* exact runs, republishing, discard-staged-process
                         "quieten"}   \* from some moment on none of these happens

VARIABLES
    \* The Runtime bucket.
    raw,            \* raw[j]: the rows of times/jobs/{j}/raw.tar, or NoRaw
    status,         \* status[j]: times/jobs/{j}/status.json, or NoStatus
    marker,         \* jobs with a times/pending/{j}.json
    hidden,         \* jobs whose status was uploaded more than an hour ago
    updatedBefore,  \* order of updatedAt among the partial jobs
    archives,       \* Process generation archives
    pointer,        \* process-memory.json: the committed generation
    \* The B2 Delivery bucket.
    bodies,         \* immutable article objects <<article, version>>
    index,          \* index[k][a]: the version of a that the indexes of step k list
    \* The actors.
    known,          \* articles the committed Capture memory has a page of
    capture,        \* the Capture run: its step and its job
    run,            \* the holder of the times-delivery-writer lock
    command,        \* a discard-staged-process between its read and its write
    quiet           \* the events have stopped

bucketVars  == <<raw, status, marker, hidden, updatedBefore, archives, pointer>>
b2Vars      == <<bodies, index>>
captureVars == <<known, capture>>
vars == <<bucketVars, b2Vars, captureVars, run, command, quiet>>

Rows == [captured : SUBSET Articles, unchanged : SUBSET Articles]

StatusRecords ==
    [state : States, tried : BOOLEAN, pending : SUBSET Articles,
     completed : SUBSET Articles, excluded : SUBSET Articles,
     staged : Generations \cup {NoGeneration}]

ASSUME AbsenceAssumption == NoRaw \notin Rows /\ NoStatus \notin StatusRecords

\* Publication steps: 1 article bodies, 2 source dates, 3 timeline days, 4 timeline index.
IndexSteps == 2 .. 4
TimelineDays == 3

Seed == [object |-> 1, base |-> NoBase, depth |-> 0, memory |-> [a \in Articles |-> 0]]

IdleCapture(job) == [pc |-> "idle", job |-> job, captured |-> {}]
IdleRun ==
    [pc |-> "idle", batch |-> <<>>, generation |-> NoGeneration, step |-> 0, left |-> {},
     bootstrap |-> FALSE, raws |-> {}, doomed |-> {}]
NoCommand == [job |-> 0, status |-> NoStatus]

Init ==
    /\ raw = [j \in Jobs |-> NoRaw]
    /\ status = [j \in Jobs |-> NoStatus]
    /\ marker = {}
    /\ hidden = {}
    /\ updatedBefore = {}
    /\ archives = IF SeededMemory THEN {1} ELSE {}
    /\ pointer = IF SeededMemory THEN Seed ELSE NoGeneration
    /\ bodies = {}
    /\ index = [k \in IndexSteps |-> [a \in Articles |-> 0]]
    /\ known = {}
    /\ capture = IdleCapture(0)
    /\ run = IdleRun
    /\ command = NoCommand
    /\ quiet = FALSE

May(event) == event \in Events /\ ~quiet

\* Uploading a status object: it is recent again, and its updatedAt is the newest.
UploadStatus(j, st) ==
    /\ status' = [status EXCEPT ![j] = st]
    /\ hidden' = hidden \ {j}
    /\ LET others == {p \in updatedBefore : p[1] # j /\ p[2] # j}
           partial == {k \in Jobs \ {j} : status[k] # NoStatus /\ status[k].state = "partial"}
       IN  updatedBefore' =
             IF st.state = "partial" THEN others \cup {<<k, j>> : k \in partial} ELSE others

KeepStatus == UNCHANGED <<status, hidden, updatedBefore>>

-----------------------------------------------------------------------------
(* Capture: one run at a time, concurrent with the writer.                 *)

\* publishRuntimeJob uploads Raw under a fresh job id.  A discovered article the Capture
\* memory already has a page of is listed as unchanged, unless it is due for refresh.
PublishRaw ==
    /\ capture.pc = "idle"
    /\ capture.job < JobCount
    /\ \E captured, unchanged \in SUBSET Articles :
          /\ captured \cap unchanged = {}
          /\ captured \cup unchanged # {}
          /\ unchanged \subseteq known
          /\ raw' = [raw EXCEPT ![capture.job + 1] =
                        [captured |-> captured, unchanged |-> unchanged]]
          /\ capture' = [pc |-> "status", job |-> capture.job + 1, captured |-> captured]
    /\ UNCHANGED <<status, marker, hidden, updatedBefore, archives, pointer,
                   b2Vars, known, run, command, quiet>>

\* The status object is uploaded after Raw: it is the completion marker.
PublishStatus ==
    /\ capture.pc = "status"
    /\ LET rows == raw[capture.job]
       IN  UploadStatus(capture.job, InitialStatus(rows.captured \cup rows.unchanged))
    /\ capture' = [capture EXCEPT !.pc = "marker"]
    /\ UNCHANGED <<raw, marker, archives, pointer, b2Vars, known, run, command, quiet>>

Enqueue ==
    /\ capture.pc = "marker"
    /\ marker' = marker \cup {capture.job}
    /\ capture' = [capture EXCEPT !.pc = "memory"]
    /\ UNCHANGED <<raw, status, hidden, updatedBefore, archives, pointer,
                   b2Vars, known, run, command, quiet>>

\* Capture memory is saved after the job; the step may fail without failing the run.
SaveCaptureMemory ==
    /\ capture.pc = "memory"
    /\ known' \in {known, known \cup capture.captured}
    /\ capture' = IdleCapture(capture.job)
    /\ UNCHANGED <<bucketVars, b2Vars, run, command, quiet>>

CaptureStops ==
    /\ capture.pc # "idle"
    /\ May("kill")
    /\ capture' = IdleCapture(capture.job)
    /\ UNCHANGED <<bucketVars, b2Vars, known, run, command, quiet>>

\* publish-job again under the id of the last job: accepted only while the published job
\* is in its exact initial state, and then it only writes the marker.
PublishAgain ==
    /\ May("operator")
    /\ capture.pc = "idle"
    /\ capture.job \in Jobs
    /\ status[capture.job] # NoStatus
    /\ status[capture.job].state = "ready"
    /\ ~ status[capture.job].tried
    /\ status[capture.job].staged = NoGeneration
    /\ raw[capture.job] # NoRaw
    /\ capture' = [capture EXCEPT !.pc = "marker", !.captured = raw[capture.job].captured]
    /\ UNCHANGED <<bucketVars, b2Vars, known, run, command, quiet>>

CaptureNext ==
    PublishRaw \/ PublishStatus \/ Enqueue \/ SaveCaptureMemory \/ CaptureStops \/ PublishAgain

-----------------------------------------------------------------------------
(* Process, one workflow run: select, restore, build, stage, publish,      *)
(* promote, mark; or fail and defer.                                       *)

Active == ActiveJobs(status, marker, hidden)
Partial == {j \in Jobs : status[j] # NoStatus /\ status[j].state = "partial"}

StartProcess(batch, bootstrap) ==
    run' = [IdleRun EXCEPT !.pc = "restore", !.batch = batch, !.bootstrap = bootstrap]

\* select-jobs: the marker of every active job is repaired before any is selected.
Select(due) ==
    /\ run.pc = "idle"
    /\ \E batch \in Batches \ {<<>>} :
          /\ IsSelection(batch, status, updatedBefore, Active, due)
          /\ StartProcess(batch, FALSE)
    /\ marker' = marker \cup Active
    /\ UNCHANGED <<raw, status, hidden, updatedBefore, archives, pointer,
                   b2Vars, captureVars, command, quiet>>

\* A selection that fails (a marker upload, several staged jobs) defers the job of the
\* Capture run that triggered the workflow, whatever state that job is in.
SelectFails ==
    /\ run.pc = "idle"
    /\ May("fail") \/ \E j, k \in StagedJobs(status, Active) : j # k
    /\ \E repaired \in SUBSET Active : marker' = marker \cup repaired
    /\ \E trigger \in Jobs :
          /\ status[trigger] # NoStatus
          /\ trigger = capture.job => capture.pc = "idle"
          /\ run' = [IdleRun EXCEPT !.pc = "defer", !.batch = <<trigger>>]
    /\ UNCHANGED <<raw, status, hidden, updatedBefore, archives, pointer,
                   b2Vars, captureVars, command, quiet>>

\* A manual run of one job; bootstrap allows it to start without Process memory.
SelectExactly(j) ==
    /\ run.pc = "idle"
    /\ May("operator")
    /\ MaySelectExactly(j, status, Active)
    /\ \E bootstrap \in BOOLEAN : StartProcess(<<j>>, bootstrap)
    /\ marker' = marker \cup Active
    /\ UNCHANGED <<raw, status, hidden, updatedBefore, archives, pointer,
                   b2Vars, captureVars, command, quiet>>

AnchorStatus == status[Anchor(run.batch)]

\* Mutant: a replay assumes that the article bodies are on B2 already.
ReplayWithoutBodies ==
    /\ run.pc = "restore"
    /\ AnchorStatus.staged # NoGeneration
    /\ GenerationObjects(AnchorStatus.staged) \subseteq archives
    /\ run' = [run EXCEPT !.pc = "publish", !.step = 2,
                          !.generation = AnchorStatus.staged,
                          !.batch = AnchorStatus.staged.batch]
    /\ UNCHANGED <<bucketVars, b2Vars, captureVars, command, quiet>>

\* restore-process of a staged anchor: the generation is replayed, for its own jobs.
Replay ==
    /\ run.pc = "restore"
    /\ AnchorStatus.staged # NoGeneration
    /\ GenerationObjects(AnchorStatus.staged) \subseteq archives
    /\ run' = [run EXCEPT !.pc = "publish", !.step = 1,
                          !.generation = AnchorStatus.staged,
                          !.batch = AnchorStatus.staged.batch]
    /\ UNCHANGED <<bucketVars, b2Vars, captureVars, command, quiet>>

\* Otherwise the committed generation and the Raw of every job of the batch are restored.
CanRestore ==
    /\ pointer = NoGeneration => run.bootstrap
    /\ ObjectsOf(pointer) \subseteq archives
    /\ \A j \in Members(run.batch) : raw[j] # NoRaw

Restore ==
    /\ run.pc = "restore"
    /\ AnchorStatus.staged = NoGeneration
    /\ CanRestore
    /\ run' = [run EXCEPT !.pc = "build"]
    /\ UNCHANGED <<bucketVars, b2Vars, captureVars, command, quiet>>

\* A run that cannot restore fails before it changes anything.
RestoreFails ==
    /\ run.pc = "restore"
    /\ IF AnchorStatus.staged # NoGeneration
       THEN ~ (GenerationObjects(AnchorStatus.staged) \subseteq archives)
       ELSE ~ CanRestore
    /\ run' = [run EXCEPT !.pc = "defer"]
    /\ UNCHANGED <<bucketVars, b2Vars, captureVars, command, quiet>>

\* The rows of the batch: an article is processed if some job of the batch still owes it,
\* and its row is taken from the last job of the batch that lists it.
Owed == UNION {status[j].pending : j \in Members(run.batch)}

Listed(j) == raw[j].captured \cup raw[j].unchanged

RowOf(a) ==
    CHOOSE i \in DOMAIN run.batch :
        /\ a \in Listed(run.batch[i])
        /\ \A k \in DOMAIN run.batch : a \in Listed(run.batch[k]) => k <= i

Memory == IF pointer = NoGeneration THEN [a \in Articles |-> 0] ELSE pointer.memory

\* An article Canonical retains may be rewritten, or removed, by a policy of its source that
\* a deployment brought (migrateRetainedCanonicalAssets), or refused by its URL policy.
PolicyOutcomes(a) == IF Memory[a] \in {0, Withdrawn} THEN {} ELSE {"written", "removed", "refused"}

\* The row of an owed article that this run parses, rather than finding it unchanged.
Parsed(a) == a \in Owed /\ a \notin raw[run.batch[RowOf(a)]].unchanged

\* What a run may make of an article.
OutcomesOf(a) ==
    IF a \notin Owed THEN {"silent"} \cup PolicyOutcomes(a)
    ELSE IF ~ Parsed(a) THEN {"unchanged"} \cup PolicyOutcomes(a)
    ELSE {"written", "refused", "excluded", "removed"} \cup (IF quiet THEN {} ELSE {"retry"})

\* A body the run wrote: from the job whose row it parsed, or anew by the run itself.
VersionOf(a, outcome) ==
    CASE outcome = "written" /\ Parsed(a)   -> run.batch[RowOf(a)]
      [] outcome = "written" /\ ~ Parsed(a) -> Anchor(run.batch)
      [] OTHER -> 0

FreshArchives ==
    Archives \ (ReferencedArchives(status, pointer)
                  \cup IF command = NoCommand THEN {} ELSE ObjectsOf(command.status.staged))

\* What the run has made, before mergeArticles, and what the timeline would list of it.
Made(outcome) ==
    [outcome |-> outcome, version |-> [a \in Articles |-> VersionOf(a, outcome[a])],
     superseded |-> {}]

ListedWith(result) == {a \in Articles : Apply(result, index[TimelineDays])[a] \in Jobs}

Planned(result, base, object) ==
    [object |-> object, base |-> base, depth |-> DepthOver(pointer, base),
     memory |-> Apply(result, Memory), batch |-> run.batch, result |-> result]

\* Build Canonical and Delivery, then plan the generation to stage: a delta on the committed
\* base or a full archive, under a name that nothing refers to yet (the lowest one).
Build ==
    /\ run.pc = "build"
    /\ \E outcome \in [Articles -> Outcomes], superseded \in SUBSET Articles,
          base \in BaseFor(pointer), object \in FreshArchives :
          /\ \A a \in Articles : outcome[a] \in OutcomesOf(a)
          /\ Collapses(superseded, ListedWith(Made(outcome)))
          /\ \A other \in FreshArchives : object <= other
          /\ LET result == [Made(outcome) EXCEPT !.superseded = superseded]
             IN  run' = [run EXCEPT !.pc = "upload",
                                    !.generation = Planned(result, base, object)]
    /\ UNCHANGED <<bucketVars, b2Vars, captureVars, command, quiet>>

\* stage-process uploads the archive first and names it in the anchor's status second.
UploadGeneration ==
    /\ run.pc = "upload"
    /\ archives' = archives \cup {run.generation.object}
    /\ run' = [run EXCEPT !.pc = "record"]
    /\ UNCHANGED <<raw, status, marker, hidden, updatedBefore, pointer,
                   b2Vars, captureVars, command, quiet>>

\* Mutant: the pointer is moved before B2 is published.
PromotedUnpublished ==
    /\ run.pc = "record"
    /\ UploadStatus(Anchor(run.batch), [AnchorStatus EXCEPT !.staged = run.generation])
    /\ run' = [run EXCEPT !.pc = "promote"]
    /\ UNCHANGED <<raw, marker, archives, pointer, b2Vars, captureVars, command, quiet>>

RecordStaged ==
    /\ run.pc = "record"
    /\ UploadStatus(Anchor(run.batch), [AnchorStatus EXCEPT !.staged = run.generation])
    /\ run' = [run EXCEPT !.pc = "publish", !.step = 1]
    /\ UNCHANGED <<raw, marker, archives, pointer, b2Vars, captureVars, command, quiet>>

\* The Delivery indexes are rebuilt from the timeline days B2 has and from the result.
Target == Apply(run.generation.result, index[TimelineDays])

WrittenBodies ==
    {<<a, run.generation.result.version[a]>> :
        a \in {b \in Articles : run.generation.result.outcome[b] = "written"}}

\* Mutant: the timeline index first, the source indexes last.
IndexesReversed ==
    /\ run.pc = "publish"
    /\ IF run.step = 1
       THEN bodies' = bodies \cup WrittenBodies /\ UNCHANGED index
       ELSE index' = [index EXCEPT ![6 - run.step] = Target] /\ UNCHANGED bodies
    /\ run' = IF run.step = 4 THEN [run EXCEPT !.pc = "promote", !.step = 0]
              ELSE [run EXCEPT !.step = run.step + 1]
    /\ UNCHANGED <<bucketVars, captureVars, command, quiet>>

\* One rclone command of the commit order: bodies, source dates, timeline days, index.
Publish ==
    /\ run.pc = "publish"
    /\ IF run.step = 1
       THEN bodies' = bodies \cup WrittenBodies /\ UNCHANGED index
       ELSE index' = [index EXCEPT ![run.step] = Target] /\ UNCHANGED bodies
    /\ run' = IF run.step = 4 THEN [run EXCEPT !.pc = "promote", !.step = 0]
              ELSE [run EXCEPT !.step = run.step + 1]
    /\ UNCHANGED <<bucketVars, captureVars, command, quiet>>

\* A copy that fails may have uploaded some of the bodies, or the days of some publications.
PublishFails ==
    /\ run.pc = "publish"
    /\ May("fail")
    /\ \E copied \in SUBSET Articles :
          IF run.step = 1
          THEN /\ bodies' = bodies \cup {body \in WrittenBodies : body[1] \in copied}
               /\ UNCHANGED index
          ELSE /\ \A a \in copied : Aliases(a) \subseteq copied
               /\ index' = [index EXCEPT ![run.step] =
                     [a \in Articles |-> IF a \in copied THEN Target[a] ELSE @[a]]]
               /\ UNCHANGED bodies
    /\ run' = [run EXCEPT !.pc = "defer"]
    /\ UNCHANGED <<bucketVars, captureVars, command, quiet>>

\* promote-process: the pointer moves to the generation the status names, then the archives
\* only the previous pointer needed are deleted.
Promote ==
    /\ run.pc = "promote"
    /\ AnchorStatus.staged # NoGeneration
    /\ pointer' = PointerTo(AnchorStatus.staged)
    /\ run' = [run EXCEPT !.pc = "retire", !.doomed = Obsolete(pointer, AnchorStatus.staged)]
    /\ UNCHANGED <<raw, status, marker, hidden, updatedBefore, archives,
                   b2Vars, captureVars, command, quiet>>

PromoteFails ==
    /\ run.pc = "promote"
    /\ AnchorStatus.staged = NoGeneration
    /\ run' = [run EXCEPT !.pc = "defer"]
    /\ UNCHANGED <<bucketVars, b2Vars, captureVars, command, quiet>>

Retire ==
    /\ run.pc = "retire"
    /\ archives' = archives \ run.doomed
    /\ run' = [run EXCEPT !.pc = "mark", !.doomed = {}, !.left = Members(run.batch)]
    /\ UNCHANGED <<raw, status, marker, hidden, updatedBefore, pointer,
                   b2Vars, captureVars, command, quiet>>

\* mark-jobs: the statuses in batch order, the anchor's last.
NextToMark ==
    LET others == {i \in DOMAIN run.batch \ {1} : run.batch[i] \in run.left}
    IN  IF others = {} THEN Anchor(run.batch)
        ELSE run.batch[CHOOSE i \in others : \A k \in others : i <= k]

\* A job that is done already, in an interrupted run, is left alone.
MarkStatus ==
    /\ run.pc = "mark"
    /\ LET j == NextToMark
       IN  /\ status[j] # NoStatus
           /\ IF status[j].state = "done" THEN KeepStatus
              ELSE UploadStatus(j, StatusAfterSuccessfulDelivery(
                                       status[j], run.generation.result.outcome))
           /\ run' = [run EXCEPT !.pc = "unmark", !.step = j, !.left = run.left \ {j}]
    /\ UNCHANGED <<raw, marker, archives, pointer, b2Vars, captureVars, command, quiet>>

MarkFails ==
    /\ run.pc = "mark"
    /\ status[NextToMark] = NoStatus
    /\ run' = [run EXCEPT !.pc = "defer"]
    /\ UNCHANGED <<bucketVars, b2Vars, captureVars, command, quiet>>

\* updateRuntimeQueueAfterDelivery: a done job loses its marker, any other has one.
MarkerAfter(j) == IF status[j].state = "done" THEN marker \ {j} ELSE marker \cup {j}

MarkMarker ==
    /\ run.pc = "unmark"
    /\ marker' = MarkerAfter(run.step)
    /\ run' = IF run.left = {} THEN IdleRun ELSE [run EXCEPT !.pc = "mark", !.step = 0]
    /\ UNCHANGED <<raw, status, hidden, updatedBefore, archives, pointer,
                   b2Vars, captureVars, command, quiet>>

\* Any step can fail; deleting several objects can stop half way.
StepFails ==
    /\ run.pc \in {"restore", "build", "upload", "record", "promote", "retire", "mark", "unmark"}
    /\ May("fail")
    /\ \E deleted \in SUBSET run.doomed : archives' = archives \ deleted
    /\ run' = [run EXCEPT !.pc = "defer"]
    /\ UNCHANGED <<raw, status, marker, hidden, updatedBefore, pointer,
                   b2Vars, captureVars, command, quiet>>

\* defer-job of the anchor, the last step of a failed run.
Defer ==
    /\ run.pc = "defer"
    /\ IF AnchorStatus = NoStatus
       THEN KeepStatus /\ run' = IdleRun
       ELSE /\ UploadStatus(Anchor(run.batch), StatusAfterRuntimeFailure(AnchorStatus))
            /\ run' = [IdleRun EXCEPT !.pc = "deferMarker", !.batch = <<Anchor(run.batch)>>]
    /\ UNCHANGED <<raw, marker, archives, pointer, b2Vars, captureVars, command, quiet>>

DeferMarker ==
    /\ run.pc = "deferMarker"
    /\ marker' = MarkerAfter(Anchor(run.batch))
    /\ run' = IdleRun
    /\ UNCHANGED <<raw, status, hidden, updatedBefore, archives, pointer,
                   b2Vars, captureVars, command, quiet>>

\* A lost, cancelled or timed out runner does not reach its defer step; a defer step that
\* fails ends the run as well.
RunStops ==
    /\ run.pc # "idle"
    /\ May("kill") \/ (May("fail") /\ run.pc \in {"defer", "deferMarker"})
    /\ run' = IdleRun
    /\ UNCHANGED <<bucketVars, b2Vars, captureVars, command, quiet>>

ProcessStep ==
    \/ Replay \/ Restore \/ RestoreFails \/ Build \/ UploadGeneration \/ RecordStaged
    \/ Publish \/ Promote \/ PromoteFails \/ Retire
    \/ MarkStatus \/ MarkFails \/ MarkMarker \/ Defer \/ DeferMarker

ProcessNext ==
    \/ \E due \in SUBSET Partial : Select(due)
    \/ SelectFails
    \/ \E j \in Jobs : SelectExactly(j)
    \/ ProcessStep \/ PublishFails \/ StepFails \/ RunStops

-----------------------------------------------------------------------------
(* The retention cleanup, under the same lock.                             *)

\* The jobs a cleanup may find past their retention.  As long as no outage outlasts it,
\* unfinished jobs and the jobs of a staged batch are never that old.
MayExpire(j) ==
    /\ status[j] # NoStatus
    /\ j = capture.job => capture.pc = "idle"
    /\ j # command.job
    /\ \/ May("outage")
       \/ /\ status[j].state = "done"
          /\ \A k \in StagedJobs(status, {i \in Jobs : status[i] # NoStatus}) :
                j \notin Members(status[k].staged.batch)

PlanCleanup ==
    /\ run.pc = "idle"
    /\ May("retention")
    /\ \E expired \in SUBSET {j \in Jobs : MayExpire(j)},
          orphans \in SUBSET OrphanArchives(archives, status, pointer),
          raws    \in SUBSET {j \in OrphanRaws(raw, status) :
                                j = capture.job => capture.pc # "status"} :
          /\ expired \cup orphans \cup raws # {}
          /\ run' = [IdleRun EXCEPT !.pc = "cleanPayload", !.left = expired, !.raws = raws,
                        !.doomed = orphans \cup ExpiredArchives(expired, status, pointer)]
    /\ UNCHANGED <<bucketVars, b2Vars, captureVars, command, quiet>>

DeletePayload(raws, markers, objects) ==
    /\ raw' = [j \in Jobs |-> IF j \in raws THEN NoRaw ELSE raw[j]]
    /\ marker' = marker \ markers
    /\ archives' = archives \ objects
    /\ UNCHANGED <<status, hidden, updatedBefore, pointer, b2Vars, captureVars, command, quiet>>

DeleteStatus(jobs) ==
    /\ status' = [j \in Jobs |-> IF j \in jobs THEN NoStatus ELSE status[j]]
    /\ hidden' = hidden \ jobs
    /\ updatedBefore' = {p \in updatedBefore : p[1] \notin jobs /\ p[2] \notin jobs}
    /\ UNCHANGED <<raw, marker, archives, pointer, b2Vars, captureVars, command, quiet>>

\* Payloads and markers are deleted before the statuses; neither batch is transactional.
CleanPayload ==
    /\ run.pc = "cleanPayload"
    /\ DeletePayload(run.left \cup run.raws, run.left, run.doomed)
    /\ run' = IF run.left = {} THEN IdleRun ELSE [run EXCEPT !.pc = "cleanStatus"]

CleanPayloadFails ==
    /\ run.pc = "cleanPayload"
    /\ May("fail")
    /\ \E raws \in SUBSET (run.left \cup run.raws), markers \in SUBSET run.left,
          objects \in SUBSET run.doomed : DeletePayload(raws, markers, objects)
    /\ run' = IdleRun

CleanStatus ==
    /\ run.pc = "cleanStatus"
    /\ DeleteStatus(run.left)
    /\ run' = IdleRun

CleanStatusFails ==
    /\ run.pc = "cleanStatus"
    /\ May("fail")
    /\ \E jobs \in SUBSET run.left : DeleteStatus(jobs)
    /\ run' = IdleRun

CleanupStep == CleanPayload \/ CleanStatus
CleanupNext == PlanCleanup \/ CleanupStep \/ CleanPayloadFails \/ CleanStatusFails

-----------------------------------------------------------------------------
(* The operator and the passing of time.                                   *)

\* discard-staged-process reads the status and checks the pointer without the lock...
BeginDiscard(j) ==
    /\ May("operator")
    /\ command = NoCommand
    /\ status[j] # NoStatus
    /\ status[j].staged # NoGeneration
    /\ pointer # NoGeneration => pointer.object # status[j].staged.object
    /\ command' = [job |-> j, status |-> status[j]]
    /\ UNCHANGED <<bucketVars, b2Vars, captureVars, run, quiet>>

\* ... and uploads the status it read, without the generation and with its old updatedAt.
EndDiscard ==
    /\ command # NoCommand
    /\ LET j      == command.job
           others == {k \in Partial : k # j}
       IN  /\ status' = [status EXCEPT ![j] = [command.status EXCEPT !.staged = NoGeneration]]
           /\ hidden' = hidden \ {j}
           /\ updatedBefore' =
                IF command.status.state # "partial" THEN {p \in updatedBefore : j \notin {p[1], p[2]}}
                ELSE IF j \in Partial THEN updatedBefore
                ELSE updatedBefore \cup {<<j, k>> : k \in others}
    /\ command' = NoCommand
    /\ UNCHANGED <<raw, marker, archives, pointer, b2Vars, captureVars, run, quiet>>

\* An hour passes between two runs: a status without a marker is no longer listed as recent.
WindowPasses(j) ==
    /\ May("window")
    /\ run.pc = "idle"
    /\ j = capture.job => capture.pc = "idle"
    /\ status[j] # NoStatus
    /\ status[j].state # "done"
    /\ j \notin marker \cup LegacyQueue \cup hidden
    /\ hidden' = hidden \cup {j}
    /\ UNCHANGED <<raw, status, marker, updatedBefore, archives, pointer,
                   b2Vars, captureVars, run, command, quiet>>

Quieten ==
    /\ May("quieten")
    /\ quiet' = TRUE
    /\ UNCHANGED <<bucketVars, b2Vars, captureVars, run, command>>

EnvironmentNext ==
    \/ \E j \in Jobs : BeginDiscard(j)
    \/ EndDiscard
    \/ \E j \in Jobs : WindowPasses(j)
    \/ Quieten

-----------------------------------------------------------------------------

Next == CaptureNext \/ ProcessNext \/ CleanupNext \/ EnvironmentNext

Spec == Init /\ [][Next]_vars

\* GitHub runs the steps of an admitted workflow; Captures every few minutes and the
\* continuation wake Process up again, so a job whose backoff (at most six hours) has
\* elapsed is due in all later selections until one takes it.
Fairness ==
    /\ WF_vars(PublishStatus \/ Enqueue \/ SaveCaptureMemory)
    /\ WF_vars(ProcessStep)
    /\ WF_vars(CleanupStep)
    /\ \A j \in Jobs : SF_vars(\E due \in SUBSET Partial : j \in due /\ Select(due))
    /\ WF_vars(\E due \in SUBSET Partial : Select(due))

FairSpec == Spec /\ Fairness

-----------------------------------------------------------------------------
(* Properties.                                                             *)

Statuses == {j \in Jobs : status[j] # NoStatus}
Unfinished == {j \in Statuses : status[j].state # "done"}
Staged == StagedJobs(status, Statuses)

RunRecords ==
    [pc : {"idle", "restore", "build", "upload", "record", "publish", "promote", "retire",
           "mark", "unmark", "defer", "deferMarker", "cleanPayload", "cleanStatus"},
     batch : Batches, generation : Generations \cup {NoGeneration}, step : Nat,
     left : SUBSET Jobs, bootstrap : BOOLEAN, raws : SUBSET Jobs, doomed : SUBSET Archives]

\* The variables have the shapes the bucket objects have.
TypeOK ==
    /\ raw \in [Jobs -> Rows \cup {NoRaw}]
    /\ status \in [Jobs -> StatusRecords \cup {NoStatus}]
    /\ marker \subseteq Jobs
    /\ hidden \subseteq Jobs
    /\ updatedBefore \subseteq Jobs \X Jobs
    /\ archives \subseteq Archives
    /\ pointer \in Pointers \cup {NoGeneration}
    /\ bodies \subseteq Articles \X Versions
    /\ index \in [IndexSteps -> [Articles -> Versions]]
    /\ known \subseteq Articles
    /\ capture \in [pc : {"idle", "status", "marker", "memory"}, job : 0 .. JobCount,
                    captured : SUBSET Articles]
    /\ run \in RunRecords
    /\ command \in [job : 0 .. JobCount, status : StatusRecords \cup {NoStatus}]
    /\ quiet \in BOOLEAN

\* An unfinished status never outlives or precedes its Raw: a Process run that selects the
\* job can restore it (jobs.ts publishRuntimeJob, the cleanup's two phases).
UnfinishedHasRaw == \A j \in Unfinished : raw[j] # NoRaw

\* The committed Process memory can always be restored: promote and cleanup keep the
\* archive of the pointer and the base it is a delta of, wherever they are interrupted.
PointerRestorable == ObjectsOf(pointer) \subseteq archives

\* A staged generation can always be replayed.
StagedRestorable == \A j \in Staged : GenerationObjects(status[j].staged) \subseteq archives

\* Whatever a later run needs to go on with a job is kept: its Raw until it is settled, and
\* the archives of its staged generation until they are promoted (cleanup.ts and
\* the retirements of process-generation.ts, interrupted anywhere).
NeededIsKept == UnfinishedHasRaw /\ StagedRestorable

\* Later jobs do not advance the committed pointer past a staged generation.
PointerNeverPassesStaged ==
    [][pointer' # pointer => \A j \in Staged : pointer' = PointerTo(status[j].staged)]_vars

\* Every body an index lists, at the version it lists, is on B2 already.
ListedBodiesExist ==
    \A k \in IndexSteps, a \in Articles :
        index[k][a] \in Jobs => <<a, index[k][a]>> \in bodies

\* The articles of one publication, which are listed as one.
Stories == {Aliases(a) : a \in Articles}

\* B2 shows the committed memory, or is part of the way from it to the staged generation,
\* each index only as far as the ones before it in the commit order, and never between the
\* two for the aliases of one publication.
DeliveryBetweenCommits ==
    IF Staged = {}
    THEN \A k \in IndexSteps : index[k] = Memory
    ELSE \A j \in Staged, story \in Stories : \E cut \in 1 .. 4 :
            \A k \in IndexSteps, a \in story :
                index[k][a] = IF k <= cut THEN status[j].staged.memory[a] ELSE Memory[a]

\* A view accounts for article a: it lists a, or a result took a off, or an alias that a was
\* merged with is listed, or was taken off, instead.
AccountsFor(view, a) ==
    /\ view[a] # 0
    /\ view[a] = Superseded => \E b \in Aliases(a) : view[b] \in Jobs \cup {Withdrawn}

\* An article that a job captured and counts as completed has been delivered: every index
\* lists it or the alias it was merged with, unless a result withdrew them.
CompletedIsDelivered ==
    \A j \in Statuses : raw[j] # NoRaw =>
        \A a \in status[j].completed \cap raw[j].captured, k \in IndexSteps :
            AccountsFor(index[k], a)

\* Every article of a job is pending, completed or excluded, in exactly one of them, and a
\* done job has none left to retry.
ArticlesAccountedFor ==
    \A j \in Statuses :
        /\ WellFormedStatus(status[j])
        /\ raw[j] # NoRaw =>
              status[j].pending \cup status[j].completed \cup status[j].excluded = Listed(j)

\* A step that keeps a status moves nothing back to its pending articles.
SettlesOnly ==
    \A j \in Jobs : (status[j] # NoStatus /\ status'[j] # NoStatus) =>
        /\ status'[j].pending \subseteq status[j].pending
        /\ status[j].state = "done" => status'[j].state = "done"

\* What a job has settled stays settled, through replays and repeated failures.
SettledStaysSettled == [][SettlesOnly]_vars

\* Without an operator's bootstrap, a pipeline that has no Process memory publishes
\* nothing: it cannot mistake a lost pointer for an empty history.
FailsClosed ==
    ~ SeededMemory /\ "operator" \notin Events =>
        pointer = NoGeneration /\ archives = {} /\ bodies = {}

\* Once the faults stop, every job that is in the queue is eventually settled.
QueueDrains ==
    \A j \in Jobs : (quiet /\ j \in Active) ~> (j \notin Unfinished)

\* The pipeline delivers Process results one whole transaction after the other, whatever
\* is interrupted: it implements TimesDelivery with the staged status as the transaction
\* under way and process-memory.json as the committed one.
Delivery == INSTANCE TimesDelivery WITH
    Indexes      <- IndexSteps,
    Transactions <- Pointers,
    None         <- NoGeneration,
    committed    <- pointer,
    staged       <- IF Staged = {} THEN NoGeneration
                    ELSE PointerTo(status[CHOOSE j \in Staged : TRUE].staged),
    shown        <- index

ImplementsDelivery == Delivery!Spec

=============================================================================
