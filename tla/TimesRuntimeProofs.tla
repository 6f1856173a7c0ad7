------------------------- MODULE TimesRuntimeProofs -------------------------
(***************************************************************************)
(* Theorems about TimesRuntime: the types of its objects and of what a run *)
(* holds, what the bucket keeps (the committed memory, the listed bodies,  *)
(* the closed cold start) and the bookkeeping of the statuses, for every   *)
(* number of jobs, articles and archives and every set of events.          *)
(***************************************************************************)
EXTENDS TimesRuntime, FiniteSetTheorems, WellFoundedInduction, TLAPS

\* Batches are functions on 1..n; a batch that is not empty has an anchor.
LEMMA BatchMembers ==
    ASSUME NEW batch \in Batches
    PROVE  /\ Members(batch) \subseteq Jobs
           /\ batch # <<>> => /\ 1 \in DOMAIN batch
                              /\ Anchor(batch) \in Jobs
                              /\ Anchor(batch) \in Members(batch)
<1>1. PICK n \in 0 .. MaxBatch : batch \in [1 .. n -> Jobs]
  BY DEF Batches
<1>2. Members(batch) \subseteq Jobs
  BY <1>1 DEF Members
<1>3. ASSUME batch # <<>> PROVE n # 0
  <2>1. SUFFICES ASSUME n = 0 PROVE FALSE
    OBVIOUS
  <2>2. batch \in [{} -> Jobs]
    BY <1>1, <2>1
  <2>3. batch = <<>>
    BY <2>2
  <2> QED BY <1>3, <2>3
<1>4. ASSUME batch # <<>> PROVE 1 \in 1 .. n
  BY <1>3, <1>4 DEF Jobs
<1> QED BY <1>1, <1>2, <1>4 DEF Anchor, Members

LEMMA EmptyBatch == <<>> \in Batches
<1>1. <<>> \in [1 .. 0 -> Jobs]
  OBVIOUS
<1>2. 0 \in 0 .. MaxBatch
  BY GenerationAssumption
<1> QED BY <1>1, <1>2 DEF Batches

LEMMA SingletonBatch ==
    ASSUME NEW job \in Jobs
    PROVE  /\ <<job>> \in Batches
           /\ <<job>> # <<>>
           /\ Anchor(<<job>>) = job
           /\ Members(<<job>>) = {job}
<1>1. <<job>> \in [1 .. 1 -> Jobs]
  OBVIOUS
<1>2. 1 \in 0 .. MaxBatch
  BY GenerationAssumption
<1>3. <<job>> \in Batches
  BY <1>1, <1>2 DEF Batches
<1>4. <<job>> # <<>>
  OBVIOUS
<1>5. Anchor(<<job>>) = job /\ Members(<<job>>) = {job}
  BY <1>1 DEF Anchor, Members
<1> QED BY <1>3, <1>4, <1>5

-----------------------------------------------------------------------------
(* The inductive type invariant.                                           *)

\* A staged generation belongs to the job that stages it, and a job owes only articles
\* that its Raw lists.
OwnStatus(j, st) ==
    /\ st.staged # NoGeneration => st.staged.batch # <<>> /\ Anchor(st.staged.batch) = j
    /\ raw[j] # NoRaw => st.pending \subseteq Listed(j)

StatusInv == \A j \in Jobs : status[j] # NoStatus => OwnStatus(j, status[j])

CaptureInv ==
    /\ capture.pc # "idle" => capture.job \in Jobs
    /\ capture.pc = "status" => raw[capture.job] # NoRaw /\ status[capture.job] = NoStatus
    /\ \A j \in Jobs : j > capture.job => raw[j] = NoRaw /\ status[j] = NoStatus

\* Jobs a cleanup or a discard works on have been published in full.
Published(j) == j <= capture.job /\ (capture.pc = "status" => j # capture.job)

CommandInv ==
    command # NoCommand =>
        /\ command.job \in Jobs
        /\ command.status # NoStatus
        /\ OwnStatus(command.job, command.status)
        /\ Published(command.job)

GenerationSteps == {"upload", "record", "publish", "promote", "retire", "mark", "unmark"}
WorkflowSteps   == {"restore", "build", "defer", "deferMarker"} \cup GenerationSteps

RunInv ==
    /\ run.pc \in WorkflowSteps => run.batch # <<>> /\ AnchorStatus # NoStatus
    /\ run.pc \in {"restore", "build"} => \A j \in Members(run.batch) : status[j] # NoStatus
    /\ run.pc = "build" => \A j \in Members(run.batch) : raw[j] # NoRaw
    /\ run.pc \in GenerationSteps =>
          run.generation # NoGeneration /\ run.generation.batch = run.batch
    /\ run.pc = "publish" => run.step \in 1 .. 4
    /\ run.pc = "unmark" => run.step \in Jobs
    /\ run.pc = "cleanPayload" => \A j \in run.left \cup run.raws : Published(j)

TypeInv == TypeOK /\ StatusInv /\ CaptureInv /\ CommandInv /\ RunInv

LEMMA IdleRunTyped == IdleRun \in RunRecords
BY EmptyBatch DEF IdleRun, RunRecords

LEMMA InitTypeInv == Init => TypeInv
<1> SUFFICES ASSUME Init PROVE TypeInv
  OBVIOUS
<1> USE DEF Init
<1>1. TypeOK
  <2>1. pointer \in Pointers \cup {NoGeneration}
    <3>1. CASE SeededMemory
      <4>1. 1 \in Archives
        BY <3>1, EnvironmentAssumption
      <4>2. [a \in Articles |-> 0] \in [Articles -> Versions]
        BY GenerationAssumption DEF Versions, Superseded
      <4> QED BY <3>1, <4>1, <4>2, GenerationAssumption DEF Seed, Pointers, NoBase
    <3>2. CASE ~ SeededMemory
      BY <3>2
    <3> QED BY <3>1, <3>2
  <2>2. archives \subseteq Archives
    BY EnvironmentAssumption
  <2>3. index \in [IndexSteps -> [Articles -> Versions]]
    BY GenerationAssumption DEF IndexSteps, Versions, Superseded
  <2>4. capture \in [pc : {"idle", "status", "marker", "memory"}, job : 0 .. JobCount,
                     captured : SUBSET Articles]
    BY GenerationAssumption DEF IdleCapture
  <2>5. command \in [job : 0 .. JobCount, status : StatusRecords \cup {NoStatus}]
    BY GenerationAssumption DEF NoCommand
  <2> QED BY <2>1, <2>2, <2>3, <2>4, <2>5, IdleRunTyped DEF TypeOK
<1>2. StatusInv
  BY DEF StatusInv
<1>3. CaptureInv
  BY DEF CaptureInv, IdleCapture
<1>4. CommandInv
  BY DEF CommandInv
<1>5. RunInv
  BY DEF RunInv, IdleRun, WorkflowSteps, GenerationSteps
<1> QED BY <1>1, <1>2, <1>3, <1>4, <1>5 DEF TypeInv

\* An upload keeps the shape of the status variables and changes one status.
LEMMA UploadTypes ==
    ASSUME TypeOK, NEW j \in Jobs, NEW st \in StatusRecords, UploadStatus(j, st)
    PROVE  /\ status' \in [Jobs -> StatusRecords \cup {NoStatus}]
           /\ hidden' \subseteq Jobs
           /\ updatedBefore' \subseteq Jobs \X Jobs
           /\ status'[j] = st
           /\ \A k \in Jobs \ {j} : status'[k] = status[k]
           /\ status'[j] # NoStatus
BY AbsenceAssumption DEF TypeOK, UploadStatus

LEMMA InitialStatusTyped ==
    ASSUME NEW articles \in SUBSET Articles
    PROVE  /\ InitialStatus(articles) \in StatusRecords
           /\ InitialStatus(articles).staged = NoGeneration
           /\ InitialStatus(articles).pending = articles
BY DEF InitialStatus, StatusRecords, States

LEMMA PublishRawStep ==
    ASSUME TypeInv, PublishRaw
    PROVE  TypeInv'
<1> USE DEF PublishRaw, bucketVars, b2Vars, captureVars
<1>0. PICK captured \in SUBSET Articles, unchanged \in SUBSET Articles :
        /\ raw' = [raw EXCEPT ![capture.job + 1] =
                      [captured |-> captured, unchanged |-> unchanged]]
        /\ capture' = [pc |-> "status", job |-> capture.job + 1, captured |-> captured]
  OBVIOUS
<1> DEFINE new == capture.job + 1
<1>1. /\ new \in Jobs
      /\ capture.pc = "idle"
      /\ capture.job < new
      /\ new \in 0 .. JobCount
      /\ capture'.pc = "status" /\ capture'.job = new
  BY <1>0, GenerationAssumption DEF TypeInv, TypeOK, Jobs
<1>2. /\ raw[new] = NoRaw /\ status[new] = NoStatus
      /\ raw'[new] # NoRaw
      /\ \A k \in Jobs \ {new} : raw'[k] = raw[k]
  BY <1>0, <1>1, AbsenceAssumption DEF TypeInv, TypeOK, CaptureInv, Rows
<1>3. TypeOK'
  BY <1>0, <1>1 DEF TypeInv, TypeOK, Rows
<1>4. StatusInv'
  BY <1>1, <1>2 DEF TypeInv, StatusInv, OwnStatus, Listed
<1>5. CaptureInv'
  BY <1>1, <1>2 DEF TypeInv, TypeOK, CaptureInv, Jobs
<1>6. CommandInv'
  <2>1. command # NoCommand => command.job \in Jobs \ {new} /\ command.job <= capture.job
    BY <1>1 DEF TypeInv, TypeOK, CommandInv, Published, Jobs
  <2> QED BY <1>1, <1>2, <2>1 DEF TypeInv, TypeOK, CommandInv, Published, OwnStatus, Listed, Jobs
<1>7. RunInv'
  <2>1. run.pc = "build" => \A j \in Members(run.batch) : raw'[j] # NoRaw
    BY <1>2, BatchMembers DEF TypeInv, TypeOK, RunInv, RunRecords
  <2>2. run.pc = "cleanPayload" => \A j \in run.left \cup run.raws : Published(j)'
    BY <1>1 DEF TypeInv, TypeOK, RunInv, RunRecords, Published, Jobs
  <2> QED BY <2>1, <2>2 DEF TypeInv, RunInv, AnchorStatus, Members
<1> QED BY <1>3, <1>4, <1>5, <1>6, <1>7 DEF TypeInv

LEMMA PublishStatusStep ==
    ASSUME TypeInv, PublishStatus
    PROVE  TypeInv'
<1> USE DEF PublishStatus, b2Vars
<1> DEFINE job == capture.job
           st  == InitialStatus(raw[job].captured \cup raw[job].unchanged)
<1>1. /\ job \in Jobs /\ raw[job] \in Rows /\ status[job] = NoStatus
      /\ capture.pc = "status"
      /\ capture'.pc = "marker" /\ capture'.job = job
  BY DEF TypeInv, TypeOK, CaptureInv
<1>2. /\ st \in StatusRecords /\ st.staged = NoGeneration /\ st.pending = Listed(job)
  BY <1>1, InitialStatusTyped DEF Rows, Listed
<1>3. UploadStatus(job, st)
  OBVIOUS
<1> HIDE DEF st
<1>4. /\ status' \in [Jobs -> StatusRecords \cup {NoStatus}]
      /\ hidden' \subseteq Jobs
      /\ updatedBefore' \subseteq Jobs \X Jobs
      /\ status'[job] = st
      /\ \A k \in Jobs \ {job} : status'[k] = status[k]
      /\ status'[job] # NoStatus
  BY <1>1, <1>2, <1>3, UploadTypes DEF TypeInv
<1>5. TypeOK'
  BY <1>1, <1>4 DEF TypeInv, TypeOK
<1>6. StatusInv'
  BY <1>2, <1>4 DEF TypeInv, StatusInv, OwnStatus, Listed
<1>7. CaptureInv'
  BY <1>1, <1>4 DEF TypeInv, TypeOK, CaptureInv, Jobs
<1>8. CommandInv'
  BY <1>1 DEF TypeInv, CommandInv, Published, OwnStatus, Listed
<1>9. RunInv'
  <2>1. \A k \in Jobs : status[k] # NoStatus => status'[k] # NoStatus
    BY <1>1, <1>4
  <2>2. run.pc \in WorkflowSteps => Anchor(run.batch) \in Jobs
    BY BatchMembers DEF TypeInv, TypeOK, RunInv, RunRecords
  <2>3. run.pc \in WorkflowSteps => AnchorStatus' # NoStatus
    BY <2>1, <2>2 DEF TypeInv, RunInv, AnchorStatus
  <2>4. run.pc \in {"restore", "build"} => \A j \in Members(run.batch) : status'[j] # NoStatus
    BY <2>1, BatchMembers DEF TypeInv, TypeOK, RunInv, RunRecords
  <2> QED BY <1>1, <2>3, <2>4 DEF TypeInv, RunInv, Members, Published
<1> QED BY <1>5, <1>6, <1>7, <1>8, <1>9 DEF TypeInv

\* Steps that leave the jobs, the run and the command as they are.
LEMMA OtherVariablesStep ==
    ASSUME TypeInv, TypeOK',
           UNCHANGED <<raw, status, run, command>>,
           capture'.job = capture.job,
           capture'.pc = "status" => capture.pc = "status",
           capture'.pc # "idle" => capture.job \in Jobs
    PROVE  TypeInv'
<1>1. StatusInv'
  BY DEF TypeInv, StatusInv, OwnStatus, Listed
<1>2. CaptureInv'
  BY DEF TypeInv, CaptureInv
<1>3. CommandInv'
  BY DEF TypeInv, CommandInv, Published, OwnStatus, Listed
<1>4. RunInv'
  BY DEF TypeInv, RunInv, AnchorStatus, Published
<1> QED BY <1>1, <1>2, <1>3, <1>4 DEF TypeInv

LEMMA OtherCaptureSteps ==
    ASSUME TypeInv, Enqueue \/ SaveCaptureMemory \/ CaptureStops \/ PublishAgain
    PROVE  TypeInv'
<1> USE DEF bucketVars, b2Vars
<1>1. CASE Enqueue
  <2>1. TypeOK' /\ capture' = [capture EXCEPT !.pc = "memory"]
    BY <1>1 DEF Enqueue, TypeInv, TypeOK, CaptureInv
  <2> QED BY <1>1, <2>1, OtherVariablesStep DEF Enqueue, TypeInv, TypeOK, CaptureInv
<1>2. CASE SaveCaptureMemory
  <2>1. TypeOK' /\ capture' = IdleCapture(capture.job)
    BY <1>2 DEF SaveCaptureMemory, IdleCapture, TypeInv, TypeOK
  <2> QED BY <1>2, <2>1, OtherVariablesStep DEF SaveCaptureMemory, IdleCapture
<1>3. CASE CaptureStops
  <2>1. TypeOK' /\ capture' = IdleCapture(capture.job)
    BY <1>3 DEF CaptureStops, IdleCapture, TypeInv, TypeOK
  <2> QED BY <1>3, <2>1, OtherVariablesStep DEF CaptureStops, IdleCapture
<1>4. CASE PublishAgain
  <2>1. raw[capture.job].captured \in SUBSET Articles
    BY <1>4 DEF PublishAgain, TypeInv, TypeOK, Rows
  <2>2. TypeOK' /\ capture'.pc = "marker" /\ capture'.job = capture.job
    BY <1>4, <2>1 DEF PublishAgain, TypeInv, TypeOK
  <2> QED BY <1>4, <2>2, OtherVariablesStep DEF PublishAgain
<1> QED BY <1>1, <1>2, <1>3, <1>4

\* Steps that keep the jobs, the capture and the command.
LEMMA RunStep ==
    ASSUME TypeInv, TypeOK', UNCHANGED <<raw, status, capture, command>>, RunInv'
    PROVE  TypeInv'
<1>1. StatusInv'
  BY DEF TypeInv, StatusInv, OwnStatus, Listed
<1>2. CaptureInv'
  BY DEF TypeInv, CaptureInv
<1>3. CommandInv'
  BY DEF TypeInv, CommandInv, Published, OwnStatus, Listed
<1> QED BY <1>1, <1>2, <1>3 DEF TypeInv

\* Steps of the run that change nothing else.
LEMMA QuietRunStep ==
    ASSUME TypeInv, run' \in RunRecords, RunInv',
           UNCHANGED <<bucketVars, b2Vars, captureVars, command, quiet>>
    PROVE  TypeInv'
<1> USE DEF bucketVars, b2Vars, captureVars
<1>1. TypeOK'
  BY DEF TypeInv, TypeOK
<1> QED BY <1>1, RunStep

LEMMA IdleRunInv ==
    ASSUME run' = IdleRun
    PROVE  RunInv' /\ run' \in RunRecords
BY IdleRunTyped DEF RunInv, IdleRun, WorkflowSteps, GenerationSteps

\* Uploading the status of a job that has one.
LEMMA StatusStep ==
    ASSUME TypeInv, NEW j \in Jobs, NEW st \in StatusRecords, UploadStatus(j, st),
           status[j] # NoStatus, OwnStatus(j, st), run' \in RunRecords,
           UNCHANGED <<raw, marker, archives, pointer, b2Vars, captureVars, command, quiet>>,
           RunInv'
    PROVE  TypeInv'
<1> USE DEF b2Vars, captureVars
<1>1. /\ status' \in [Jobs -> StatusRecords \cup {NoStatus}]
      /\ hidden' \subseteq Jobs
      /\ updatedBefore' \subseteq Jobs \X Jobs
      /\ status'[j] = st
      /\ \A k \in Jobs \ {j} : status'[k] = status[k]
      /\ status'[j] # NoStatus
  BY UploadTypes DEF TypeInv
<1>2. TypeOK'
  BY <1>1 DEF TypeInv, TypeOK
<1>3. StatusInv'
  BY <1>1 DEF TypeInv, StatusInv, OwnStatus, Listed
<1>4. CaptureInv'
  BY <1>1 DEF TypeInv, TypeOK, CaptureInv
<1>5. CommandInv'
  BY DEF TypeInv, CommandInv, Published, OwnStatus, Listed
<1> QED BY <1>2, <1>3, <1>4, <1>5 DEF TypeInv

\* What a step of a workflow knows of the anchor of its batch.
LEMMA WorkflowAnchor ==
    ASSUME TypeInv, run.pc \in WorkflowSteps
    PROVE  /\ run.batch \in Batches /\ run.batch # <<>>
           /\ Members(run.batch) \subseteq Jobs
           /\ Anchor(run.batch) \in Jobs
           /\ Anchor(run.batch) \in Members(run.batch)
           /\ AnchorStatus = status[Anchor(run.batch)]
           /\ AnchorStatus \in StatusRecords
           /\ AnchorStatus # NoStatus
           /\ OwnStatus(Anchor(run.batch), AnchorStatus)
BY BatchMembers DEF TypeInv, TypeOK, RunInv, RunRecords, StatusInv, AnchorStatus

LEMMA ActiveJobsHaveStatus == \A j \in Active : j \in Jobs /\ status[j] # NoStatus
BY DEF Active, ActiveJobs

\* A selection takes active jobs only.
LEMMA SelectedAreActive ==
    ASSUME TypeInv, NEW batch \in Batches, NEW due,
           IsSelection(batch, status, updatedBefore, Active, due)
    PROVE  Members(batch) \subseteq Active
<1>1. CASE StagedJobs(status, Active) # {}
  <2>1. PICK j \in StagedJobs(status, Active) : batch = [i \in 1 .. 1 |-> j]
    BY <1>1 DEF IsSelection
  <2>2. Members(batch) = {j}
    BY <2>1 DEF Members
  <2> QED BY <2>2 DEF StagedJobs
<1>2. CASE StagedJobs(status, Active) = {}
  BY <1>2 DEF IsSelection, IsFifoBatch
<1> QED BY <1>1, <1>2

LEMMA StartProcessInv ==
    ASSUME TypeInv, NEW batch \in Batches, batch # <<>>,
           \A j \in Members(batch) : status[j] # NoStatus,
           NEW bootstrap \in BOOLEAN, StartProcess(batch, bootstrap),
           UNCHANGED status
    PROVE  run' \in RunRecords /\ RunInv'
<1>1. /\ run'.pc = "restore" /\ run'.batch = batch
      /\ run' \in RunRecords
  BY IdleRunTyped DEF StartProcess, RunRecords, IdleRun
<1>2. RunInv'
  BY <1>1, BatchMembers DEF RunInv, AnchorStatus, GenerationSteps
<1> QED BY <1>1, <1>2

LEMMA SelectionSteps ==
    ASSUME TypeInv,
           \/ \E due \in SUBSET Partial : Select(due)
           \/ SelectFails
           \/ \E j \in Jobs : SelectExactly(j)
    PROVE  TypeInv'
<1> USE DEF b2Vars, captureVars
<1>0. Active \subseteq Jobs
  BY ActiveJobsHaveStatus
<1>1. ASSUME NEW due \in SUBSET Partial, Select(due) PROVE TypeInv'
  <2>1. PICK batch \in Batches \ {<<>>} :
            /\ IsSelection(batch, status, updatedBefore, Active, due)
            /\ StartProcess(batch, FALSE)
    BY <1>1 DEF Select
  <2>2. \A j \in Members(batch) : status[j] # NoStatus
    BY <2>1, SelectedAreActive, ActiveJobsHaveStatus
  <2>3. run' \in RunRecords /\ RunInv'
    BY <1>1, <2>1, <2>2, StartProcessInv DEF Select
  <2>4. TypeOK'
    BY <1>0, <1>1, <2>3 DEF Select, TypeInv, TypeOK
  <2> QED BY <1>1, <2>3, <2>4, RunStep DEF Select
<1>2. CASE SelectFails
  <2>1. PICK trigger \in Jobs :
            /\ status[trigger] # NoStatus
            /\ run' = [IdleRun EXCEPT !.pc = "defer", !.batch = <<trigger>>]
    BY <1>2 DEF SelectFails
  <2>2. /\ run'.pc = "defer" /\ run'.batch = <<trigger>>
        /\ run' \in RunRecords
    BY <2>1, IdleRunTyped, SingletonBatch DEF RunRecords, IdleRun
  <2>3. RunInv'
    BY <1>2, <2>1, <2>2, SingletonBatch DEF SelectFails, RunInv, AnchorStatus, GenerationSteps
  <2>4. TypeOK'
    BY <1>0, <1>2, <2>2 DEF SelectFails, TypeInv, TypeOK
  <2> QED BY <1>2, <2>3, <2>4, RunStep DEF SelectFails
<1>3. ASSUME NEW j \in Jobs, SelectExactly(j) PROVE TypeInv'
  <2>1. PICK bootstrap \in BOOLEAN : StartProcess(<<j>>, bootstrap)
    BY <1>3 DEF SelectExactly
  <2>2. status[j] # NoStatus
    BY <1>3 DEF SelectExactly, MaySelectExactly
  <2>3. run' \in RunRecords /\ RunInv'
    BY <1>3, <2>1, <2>2, SingletonBatch, StartProcessInv DEF SelectExactly
  <2>4. TypeOK'
    BY <1>0, <1>3, <2>3 DEF SelectExactly, TypeInv, TypeOK
  <2> QED BY <1>3, <2>3, <2>4, RunStep DEF SelectExactly
<1> QED BY <1>1, <1>2, <1>3

-----------------------------------------------------------------------------
(* Positions of a batch: the first and the last of a set of positions.     *)

\* A set of positions has a greatest one: the strict subset order is well founded on
\* finite sets, and the least tail {k \in S : i <= k} is that of the greatest i.
LEMMA GreatestPosition ==
    ASSUME NEW n \in Nat, NEW S \in SUBSET (1 .. n), S # {}
    PROVE  \E i \in S : \A k \in S : k <= i
<1> DEFINE Tail(i) == {k \in S : i <= k}
           T == {Tail(i) : i \in S}
           R == StrictSubsetOrdering(1 .. n)
<1>1. IsFiniteSet(1 .. n)
  BY FS_Interval
<1>2. IsWellFoundedOn(R, SUBSET (1 .. n))
  BY <1>1, FS_StrictSubsetOrderingWellFounded, FS_FiniteSubsetsOfFinite
<1>3. T \subseteq SUBSET (1 .. n) /\ T # {}
  OBVIOUS
<1> HIDE DEF T, R
<1>4. PICK t \in T : \A u \in T : ~ (<<u, t>> \in R)
  BY <1>2, <1>3, WFMin
<1>5. PICK i \in S : \A u \in T : ~ (<<u, Tail(i)>> \in R)
  BY <1>4 DEF T
<1>6. ASSUME NEW k \in S PROVE k <= i
  <2>1. SUFFICES ASSUME ~ (k <= i) PROVE FALSE
    OBVIOUS
  <2>2. i \in Int /\ k \in Int /\ i < k
    <3>1. i \in 1 .. n /\ k \in 1 .. n
      OBVIOUS
    <3> QED BY <2>1, <3>1
  <2>3. ASSUME NEW m \in Tail(k) PROVE m \in Tail(i)
    <3>1. m \in S /\ m \in 1 .. n /\ k <= m
      OBVIOUS
    <3>2. i <= m
      BY <2>2, <3>1
    <3> QED BY <3>1, <3>2
  <2>4. i \in Tail(i) /\ i \notin Tail(k)
    BY <2>2
  <2>5. <<Tail(k), Tail(i)>> \in R
    <3>1. Tail(k) \in SUBSET (1 .. n) /\ Tail(i) \in SUBSET (1 .. n) /\ Tail(k) # Tail(i)
      BY <2>4
    <3> HIDE DEF Tail
    <3> QED BY <2>3, <3>1 DEF StrictSubsetOrdering, R
  <2>6. Tail(k) \in T
    BY DEF T
  <2> QED BY <1>5, <2>5, <2>6
<1> QED BY <1>6

LEMMA LeastPosition ==
    ASSUME NEW n \in Nat, NEW S \in SUBSET (1 .. n), S # {}
    PROVE  \E i \in S : \A k \in S : i <= k
<1> DEFINE D == {n + 1 - k : k \in S}
<1>1. D \in SUBSET (1 .. n) /\ D # {}
  <2>1. \A k \in S : k \in 1 .. n /\ n + 1 - k \in 1 .. n
    OBVIOUS
  <2> QED BY <2>1
<1> HIDE DEF D
<1>2. PICK d \in D : \A e \in D : e <= d
  BY <1>1, GreatestPosition
<1>3. PICK i \in S : d = n + 1 - i
  BY DEF D
<1>4. ASSUME NEW k \in S PROVE i <= k
  <2>1. n + 1 - k \in D
    BY DEF D
  <2>2. n + 1 - k <= n + 1 - i
    BY <1>2, <1>3, <2>1
  <2>3. i \in Int /\ k \in Int /\ n \in Int
    OBVIOUS
  <2> QED BY <2>2, <2>3
<1> QED BY <1>4

\* Every row of the batch that Process builds comes from a job of the batch.
LEMMA RowOfOwed ==
    ASSUME TypeInv, run.pc = "build", NEW a \in Owed
    PROVE  RowOf(a) \in DOMAIN run.batch /\ run.batch[RowOf(a)] \in Jobs
<1>1. PICK n \in 0 .. MaxBatch : run.batch \in [1 .. n -> Jobs]
  BY DEF TypeInv, TypeOK, RunRecords, Batches
<1>2. n \in Nat
  BY <1>1, GenerationAssumption
<1> DEFINE S == {i \in DOMAIN run.batch : a \in Listed(run.batch[i])}
<1>3. S \in SUBSET (1 .. n)
  BY <1>1
<1>4. PICK j \in Members(run.batch) : a \in status[j].pending
  BY DEF Owed
<1>5. j \in Jobs /\ status[j] # NoStatus /\ raw[j] # NoRaw
  BY <1>4, BatchMembers DEF TypeInv, TypeOK, RunRecords, RunInv
<1>6. a \in Listed(j)
  BY <1>4, <1>5 DEF TypeInv, StatusInv, OwnStatus
<1>7. S # {}
  BY <1>4, <1>6 DEF Members
<1> HIDE DEF S
<1>8. PICK i \in S : \A k \in S : k <= i
  BY <1>2, <1>3, <1>7, GreatestPosition
<1>9. /\ i \in DOMAIN run.batch
      /\ a \in Listed(run.batch[i])
      /\ \A k \in DOMAIN run.batch : a \in Listed(run.batch[k]) => k <= i
  BY <1>8 DEF S
<1>10. RowOf(a) \in DOMAIN run.batch
  BY <1>9 DEF RowOf
<1> QED BY <1>1, <1>10

LEMMA NextToMarkIsMember ==
    ASSUME TypeInv, run.pc \in {"mark"}
    PROVE  NextToMark \in Jobs /\ NextToMark \in Members(run.batch)
<1>1. PICK n \in 0 .. MaxBatch : run.batch \in [1 .. n -> Jobs]
  BY DEF TypeInv, TypeOK, RunRecords, Batches
<1>2. n \in Nat
  BY <1>1, GenerationAssumption
<1> DEFINE others == {i \in DOMAIN run.batch \ {1} : run.batch[i] \in run.left}
<1>3. others \in SUBSET (1 .. n)
  BY <1>1
<1>4. CASE others = {}
  BY <1>4, WorkflowAnchor DEF NextToMark, WorkflowSteps, GenerationSteps
<1>5. CASE others # {}
  <2> DEFINE first == CHOOSE i \in others : \A k \in others : i <= k
  <2>1. first \in others
    <3> HIDE DEF others
    <3> QED BY <1>2, <1>3, <1>5, LeastPosition
  <2>2. NextToMark = run.batch[first]
    BY <1>5 DEF NextToMark
  <2> HIDE DEF first
  <2>3. first \in 1 .. n
    BY <1>3, <2>1
  <2> QED BY <1>1, <2>2, <2>3 DEF Members
<1> QED BY <1>4, <1>5

LEMMA ReplayStep ==
    ASSUME TypeInv, Replay
    PROVE  TypeInv'
<1> USE DEF Replay
<1> DEFINE gen == AnchorStatus.staged
<1>1. run.pc \in WorkflowSteps
  BY DEF WorkflowSteps
<1>2. /\ gen \in Generations /\ gen # NoGeneration
      /\ gen.batch \in Batches /\ gen.batch # <<>>
      /\ Anchor(gen.batch) = Anchor(run.batch)
  BY <1>1, WorkflowAnchor DEF OwnStatus, StatusRecords, Generations
<1> HIDE DEF gen
<1>3. /\ run' = [run EXCEPT !.pc = "publish", !.step = 1, !.generation = gen, !.batch = gen.batch]
      /\ run \in RunRecords
  BY DEF gen, TypeInv, TypeOK
<1>4. /\ run'.pc = "publish" /\ run'.step = 1
      /\ run'.generation = gen /\ run'.batch = gen.batch
      /\ run' \in RunRecords
  <2> DEFINE begun == [run EXCEPT !.pc = "publish", !.step = 1]
  <2>1. begun \in RunRecords /\ begun.pc = "publish" /\ begun.step = 1
    BY <1>3 DEF RunRecords
  <2>2. run' = [begun EXCEPT !.generation = gen, !.batch = gen.batch]
    BY <1>3
  <2> HIDE DEF begun
  <2> QED BY <1>2, <2>1, <2>2 DEF RunRecords
<1>5. AnchorStatus' # NoStatus
  BY <1>1, <1>2, <1>4, WorkflowAnchor DEF AnchorStatus, bucketVars
<1>6. RunInv'
  BY <1>2, <1>4, <1>5 DEF RunInv
<1> QED BY <1>4, <1>6, QuietRunStep

LEMMA RestoreSteps ==
    ASSUME TypeInv, Restore \/ RestoreFails \/ PromoteFails \/ MarkFails
    PROVE  TypeInv'
<1> USE DEF Restore, RestoreFails, PromoteFails, MarkFails
<1>0. run \in RunRecords
  BY DEF TypeInv, TypeOK
<1>1. CASE Restore
  <2>1. /\ run'.pc = "build" /\ run'.batch = run.batch
        /\ run' \in RunRecords
    BY <1>0, <1>1 DEF RunRecords
  <2>2. RunInv'
    BY <1>1, <2>1
      DEF TypeInv, RunInv, AnchorStatus, CanRestore, bucketVars, WorkflowSteps, GenerationSteps
  <2> QED BY <1>1, <2>1, <2>2, QuietRunStep
<1>2. CASE RestoreFails \/ PromoteFails \/ MarkFails
  <2>1. /\ run'.pc = "defer" /\ run'.batch = run.batch
        /\ run' \in RunRecords
        /\ run.pc \in WorkflowSteps
    BY <1>0, <1>2 DEF RunRecords, WorkflowSteps, GenerationSteps
  <2>2. RunInv'
    BY <1>2, <2>1 DEF TypeInv, RunInv, AnchorStatus, bucketVars, GenerationSteps
  <2> QED BY <1>2, <2>1, <2>2, QuietRunStep
<1> QED BY <1>1, <1>2

LEMMA ApplyTyped ==
    ASSUME NEW result \in Results, NEW view \in [Articles -> Versions]
    PROVE  Apply(result, view) \in [Articles -> Versions]
<1>1. Withdrawn \in Versions /\ Superseded \in Versions
  BY GenerationAssumption DEF Versions, Withdrawn, Superseded
<1>2. ASSUME NEW a \in Articles
      PROVE  /\ result.version[a] \in Versions /\ view[a] \in Versions
  BY DEF Results
<1> QED BY <1>1, <1>2 DEF Apply

LEMMA MemoryTyped ==
    ASSUME TypeInv
    PROVE  Memory \in [Articles -> Versions]
<1>1. [a \in Articles |-> 0] \in [Articles -> Versions]
  BY GenerationAssumption DEF Versions, Superseded
<1> QED BY <1>1 DEF Memory, TypeInv, TypeOK, Pointers

\* What the plan of a delta or of a full archive may name as its base.
LEMMA PlanTyped ==
    ASSUME TypeInv, NEW base \in BaseFor(pointer)
    PROVE  /\ base \in Archives \cup {NoBase}
           /\ base \in ObjectsOf(pointer) \cup {NoBase}
           /\ DepthOver(pointer, base) \in 0 .. MaxDelta
<1>1. CASE pointer = NoGeneration
  BY <1>1, GenerationAssumption DEF BaseFor, DepthOver
<1>2. CASE pointer # NoGeneration
  <2>1. /\ pointer.object \in Archives /\ pointer.base \in Archives \cup {NoBase}
        /\ pointer.depth \in 0 .. MaxDelta
    BY <1>2 DEF TypeInv, TypeOK, Pointers
  <2>2. base \in {NoBase, pointer.object, pointer.base}
    BY <1>2 DEF BaseFor, DeltaBase
  <2>3. DeltaDepth(pointer) \in Nat /\ (base # NoBase => DeltaDepth(pointer) <= MaxDelta)
    BY <1>2, <2>1, GenerationAssumption DEF BaseFor, DeltaDepth
  <2>4. DepthOver(pointer, base) \in 0 .. MaxDelta
    BY <2>3, GenerationAssumption DEF DepthOver
  <2> QED BY <1>2, <2>1, <2>2, <2>4 DEF ObjectsOf, GenerationObjects
<1> QED BY <1>1, <1>2

\* What a run makes of the articles has the shape of a result, whatever is superseded.
LEMMA MadeTyped ==
    ASSUME TypeInv, run.pc = "build", NEW outcome \in [Articles -> Outcomes],
           NEW superseded \in SUBSET Articles
    PROVE  [Made(outcome) EXCEPT !.superseded = superseded] \in Results
<1>1. ASSUME NEW a \in Articles PROVE VersionOf(a, outcome[a]) \in Versions
  <2>1. CASE outcome[a] = "written" /\ Parsed(a)
    <3>1. run.batch[RowOf(a)] \in Jobs
      BY <2>1, RowOfOwed DEF Parsed
    <3> QED BY <2>1, <3>1, GenerationAssumption DEF VersionOf, Jobs, Versions, Superseded
  <2>2. CASE outcome[a] = "written" /\ ~ Parsed(a)
    <3>1. Anchor(run.batch) \in Jobs
      BY WorkflowAnchor DEF WorkflowSteps, GenerationSteps
    <3> QED BY <2>2, <3>1, GenerationAssumption DEF VersionOf, Jobs, Versions, Superseded
  <2>3. CASE outcome[a] # "written"
    BY <2>3, GenerationAssumption DEF VersionOf, Versions, Superseded
  <2> QED BY <2>1, <2>2, <2>3
<1> QED BY <1>1 DEF Made, Results

LEMMA BuildStep ==
    ASSUME TypeInv, Build
    PROVE  TypeInv'
<1> USE DEF Build
<1>1. PICK outcome \in [Articles -> Outcomes], superseded \in SUBSET Articles,
           base \in BaseFor(pointer), object \in FreshArchives :
          run' = [run EXCEPT !.pc = "upload", !.generation =
                    Planned([Made(outcome) EXCEPT !.superseded = superseded], base, object)]
  OBVIOUS
<1> DEFINE result == [Made(outcome) EXCEPT !.superseded = superseded]
           gen    == Planned(result, base, object)
<1>2. result \in Results
  BY MadeTyped
<1>3. Apply(result, Memory) \in [Articles -> Versions]
  BY <1>2, ApplyTyped, MemoryTyped
<1>4. run \in RunRecords /\ run.batch \in Batches
  BY DEF TypeInv, TypeOK, RunRecords
<1>5. object \in Archives
  BY DEF FreshArchives
<1>6. run' = [run EXCEPT !.pc = "upload", !.generation = gen]
  BY <1>1
<1> HIDE DEF result
<1>7. gen \in Generations /\ gen # NoGeneration /\ gen.batch = run.batch
  <2>1. gen \in Generations
    BY <1>2, <1>3, <1>4, <1>5, PlanTyped DEF Generations, Planned
  <2> QED BY <2>1, NoGenerationAssumption DEF Planned
<1> HIDE DEF gen
<1>8. /\ run'.pc = "upload" /\ run'.batch = run.batch /\ run'.generation = gen
      /\ run' \in RunRecords
  BY <1>4, <1>6, <1>7 DEF RunRecords
<1>9. RunInv'
  BY <1>7, <1>8 DEF TypeInv, RunInv, AnchorStatus, bucketVars, WorkflowSteps, GenerationSteps
<1> QED BY <1>8, <1>9, QuietRunStep

\* The generation a step of a run works on is the one of its batch.
LEMMA RunGeneration ==
    ASSUME TypeInv, run.pc \in GenerationSteps
    PROVE  /\ run.generation \in Generations /\ run.generation # NoGeneration
           /\ run.generation.object \in Archives
           /\ run.generation.batch = run.batch
           /\ run.generation.result \in Results
           /\ run.pc \in WorkflowSteps
<1>1. run.generation \in Generations \cup {NoGeneration}
  BY DEF TypeInv, TypeOK, RunRecords
<1>2. run.generation # NoGeneration /\ run.generation.batch = run.batch
  BY DEF TypeInv, RunInv
<1> QED BY <1>1, <1>2 DEF Generations, WorkflowSteps

LEMMA UploadGenerationStep ==
    ASSUME TypeInv, UploadGeneration
    PROVE  TypeInv'
<1> USE DEF UploadGeneration, b2Vars, captureVars
<1>0. run \in RunRecords
  BY DEF TypeInv, TypeOK
<1>1. /\ run'.pc = "record" /\ run'.batch = run.batch /\ run'.generation = run.generation
      /\ run' \in RunRecords
  BY <1>0 DEF RunRecords
<1>2. TypeOK'
  BY <1>1, RunGeneration DEF TypeInv, TypeOK, GenerationSteps
<1>3. RunInv'
  BY <1>1 DEF TypeInv, RunInv, AnchorStatus, WorkflowSteps, GenerationSteps
<1> QED BY <1>2, <1>3, RunStep

LEMMA RecordStagedStep ==
    ASSUME TypeInv, RecordStaged
    PROVE  TypeInv'
<1> USE DEF RecordStaged
<1> DEFINE j  == Anchor(run.batch)
           st == [AnchorStatus EXCEPT !.staged = run.generation]
<1>0. run \in RunRecords
  BY DEF TypeInv, TypeOK
<1>1. /\ run.pc \in WorkflowSteps
      /\ run.generation \in Generations /\ run.generation # NoGeneration
      /\ run.generation.batch = run.batch
  BY RunGeneration DEF GenerationSteps, WorkflowSteps
<1>2. /\ j \in Jobs /\ AnchorStatus \in StatusRecords /\ status[j] # NoStatus
      /\ AnchorStatus = status[j] /\ run.batch # <<>>
      /\ OwnStatus(j, AnchorStatus)
  BY <1>1, WorkflowAnchor
<1>3. st \in StatusRecords
  BY <1>1, <1>2 DEF StatusRecords
<1>4. OwnStatus(j, st)
  <2>1. st.staged = run.generation /\ st.pending = AnchorStatus.pending
    BY <1>2 DEF StatusRecords
  <2> QED BY <1>1, <1>2, <2>1 DEF OwnStatus
<1>5. /\ run'.pc = "publish" /\ run'.step = 1 /\ run'.batch = run.batch
      /\ run'.generation = run.generation /\ run' \in RunRecords
  BY <1>0 DEF RunRecords
<1>6. UploadStatus(j, st)
  OBVIOUS
<1> HIDE DEF st
<1>7. RunInv'
  <2>1. AnchorStatus' # NoStatus
    BY <1>2, <1>3, <1>5, <1>6, UploadTypes DEF AnchorStatus, TypeInv
  <2> QED BY <1>1, <1>2, <1>5, <2>1 DEF RunInv
<1> HIDE DEF j
<1> QED BY <1>2, <1>3, <1>4, <1>5, <1>6, <1>7, StatusStep

LEMMA TargetTyped ==
    ASSUME TypeInv, run.pc = "publish"
    PROVE  /\ Target \in [Articles -> Versions]
           /\ WrittenBodies \subseteq Articles \X Versions
           /\ index \in [IndexSteps -> [Articles -> Versions]]
           /\ run.step \in 1 .. 4
<1>1. run.generation.result \in Results
  BY RunGeneration DEF GenerationSteps
<1>2. index \in [IndexSteps -> [Articles -> Versions]] /\ TimelineDays \in IndexSteps
  BY DEF TypeInv, TypeOK, IndexSteps, TimelineDays
<1>3. Target \in [Articles -> Versions]
  BY <1>1, <1>2, ApplyTyped DEF Target
<1>4. WrittenBodies \subseteq Articles \X Versions
  BY <1>1 DEF WrittenBodies, Results
<1> QED BY <1>2, <1>3, <1>4 DEF TypeInv, RunInv

LEMMA PublishSteps ==
    ASSUME TypeInv, Publish \/ PublishFails
    PROVE  TypeInv'
<1> USE DEF bucketVars, captureVars
<1>0. run \in RunRecords /\ run.pc = "publish"
  BY DEF TypeInv, TypeOK, Publish, PublishFails
<1>1. CASE Publish
  <2>1. /\ bodies' \subseteq Articles \X Versions
        /\ index' \in [IndexSteps -> [Articles -> Versions]]
    BY <1>0, <1>1, TargetTyped DEF Publish, TypeInv, TypeOK
  <2>2. /\ run'.batch = run.batch /\ run'.generation = run.generation
        /\ \/ run'.pc = "promote"
           \/ run'.pc = "publish" /\ run'.step \in 1 .. 4
        /\ run' \in RunRecords
    <3>1. CASE run.step = 4
      BY <1>0, <1>1, <3>1 DEF Publish, RunRecords
    <3>2. CASE run.step # 4
      <4>1. run.step + 1 \in 1 .. 4
        BY <1>0, <3>2, TargetTyped
      <4> QED BY <1>0, <1>1, <3>2, <4>1 DEF Publish, RunRecords
    <3> QED BY <3>1, <3>2
  <2>3. RunInv'
    BY <1>0, <1>1, <2>2 DEF Publish, TypeInv, RunInv, AnchorStatus, WorkflowSteps, GenerationSteps
  <2>4. TypeOK'
    BY <1>1, <2>1, <2>2 DEF Publish, TypeInv, TypeOK
  <2> QED BY <1>1, <2>3, <2>4, RunStep DEF Publish
<1>2. CASE PublishFails
  <2>1. /\ bodies' \subseteq Articles \X Versions
        /\ index' \in [IndexSteps -> [Articles -> Versions]]
    <3>1. PICK copied \in SUBSET Articles :
            IF run.step = 1
            THEN /\ bodies' = bodies \cup {body \in WrittenBodies : body[1] \in copied}
                 /\ UNCHANGED index
            ELSE /\ \A a \in copied : Aliases(a) \subseteq copied
                 /\ index' = [index EXCEPT ![run.step] =
                       [a \in Articles |-> IF a \in copied THEN Target[a] ELSE @[a]]]
                 /\ UNCHANGED bodies
      BY <1>2 DEF PublishFails
    <3>2. CASE run.step = 1
      BY <1>0, <3>1, <3>2, TargetTyped DEF TypeInv, TypeOK
    <3>3. CASE run.step # 1
      <4>1. run.step \in IndexSteps
        BY <1>0, <3>3, TargetTyped DEF IndexSteps
      <4>2. ASSUME NEW a \in Articles
            PROVE  Target[a] \in Versions /\ index[run.step][a] \in Versions
        BY <1>0, <4>1, TargetTyped
      <4>3. [a \in Articles |-> IF a \in copied THEN Target[a] ELSE index[run.step][a]]
              \in [Articles -> Versions]
        BY <4>2
      <4> QED BY <1>0, <3>1, <3>3, <4>1, <4>3, TargetTyped DEF TypeInv, TypeOK
    <3> QED BY <3>2, <3>3
  <2>2. /\ run'.batch = run.batch /\ run'.pc = "defer"
        /\ run' \in RunRecords
    BY <1>0, <1>2 DEF PublishFails, RunRecords
  <2>3. RunInv'
    BY <1>0, <1>2, <2>2 DEF PublishFails, TypeInv, RunInv, AnchorStatus, WorkflowSteps, GenerationSteps
  <2>4. TypeOK'
    BY <1>2, <2>1, <2>2 DEF PublishFails, TypeInv, TypeOK
  <2> QED BY <1>2, <2>3, <2>4, RunStep DEF PublishFails
<1> QED BY <1>1, <1>2

LEMMA PromoteStep ==
    ASSUME TypeInv, Promote
    PROVE  TypeInv'
<1> USE DEF Promote, b2Vars, captureVars
<1> DEFINE gen == AnchorStatus.staged
<1>0. run \in RunRecords
  BY DEF TypeInv, TypeOK
<1>1. /\ gen \in Generations /\ AnchorStatus = status[Anchor(run.batch)]
  BY WorkflowAnchor DEF WorkflowSteps, GenerationSteps, StatusRecords
<1>2. PointerTo(gen) \in Pointers
  BY <1>1 DEF PointerTo, Generations, Pointers
<1>3. Obsolete(pointer, gen) \subseteq Archives
  BY DEF Obsolete, ObjectsOf, GenerationObjects, TypeInv, TypeOK, Pointers, NoBase
<1>4. /\ run'.pc = "retire" /\ run'.batch = run.batch /\ run'.generation = run.generation
      /\ run' \in RunRecords
  BY <1>0, <1>3 DEF RunRecords
<1>5. RunInv'
  BY <1>4 DEF TypeInv, RunInv, AnchorStatus, WorkflowSteps, GenerationSteps
<1>6. TypeOK'
  BY <1>2, <1>4 DEF TypeInv, TypeOK
<1> QED BY <1>5, <1>6, RunStep

LEMMA RetireStep ==
    ASSUME TypeInv, Retire
    PROVE  TypeInv'
<1> USE DEF Retire, b2Vars, captureVars
<1>0. run \in RunRecords
  BY DEF TypeInv, TypeOK
<1>1. Members(run.batch) \subseteq Jobs
  BY WorkflowAnchor DEF WorkflowSteps, GenerationSteps
<1>2. /\ run'.pc = "mark" /\ run'.batch = run.batch /\ run'.generation = run.generation
      /\ run' \in RunRecords
  BY <1>0, <1>1 DEF RunRecords
<1>3. RunInv'
  BY <1>2 DEF TypeInv, RunInv, AnchorStatus, WorkflowSteps, GenerationSteps
<1>4. TypeOK'
  BY <1>2 DEF TypeInv, TypeOK
<1> QED BY <1>3, <1>4, RunStep

LEMMA DeliveredStatusTyped ==
    ASSUME NEW st \in StatusRecords, NEW outcome \in [Articles -> Outcomes]
    PROVE  /\ StatusAfterSuccessfulDelivery(st, outcome) \in StatusRecords
           /\ StatusAfterSuccessfulDelivery(st, outcome).staged = NoGeneration
           /\ StatusAfterSuccessfulDelivery(st, outcome).pending \subseteq st.pending
<1>1. \A S \in SUBSET Outcomes : {a \in st.pending : outcome[a] \in S} \subseteq st.pending
  OBVIOUS
<1> QED BY <1>1 DEF StatusAfterSuccessfulDelivery, StatusRecords, States

LEMMA DeferredStatusTyped ==
    ASSUME NEW st \in StatusRecords
    PROVE  /\ StatusAfterRuntimeFailure(st) \in StatusRecords
           /\ StatusAfterRuntimeFailure(st).staged = st.staged
           /\ StatusAfterRuntimeFailure(st).pending = st.pending
BY DEF StatusAfterRuntimeFailure, StatusRecords, States

LEMMA MarkStatusStep ==
    ASSUME TypeInv, MarkStatus
    PROVE  TypeInv'
<1> USE DEF MarkStatus
<1> DEFINE j  == NextToMark
           st == StatusAfterSuccessfulDelivery(status[j], run.generation.result.outcome)
<1>0. run \in RunRecords
  BY DEF TypeInv, TypeOK
<1>1. j \in Jobs
  BY NextToMarkIsMember
<1>2. status[j] # NoStatus /\ status[j] \in StatusRecords
  BY <1>1 DEF TypeInv, TypeOK
<1>3. run.generation.result.outcome \in [Articles -> Outcomes]
  BY RunGeneration DEF GenerationSteps, Results
<1>4. st \in StatusRecords /\ OwnStatus(j, st)
  <2>1. OwnStatus(j, status[j])
    BY <1>1, <1>2 DEF TypeInv, StatusInv
  <2> HIDE DEF j
  <2> QED BY <1>2, <1>3, <2>1, DeliveredStatusTyped DEF OwnStatus
<1>5. run' = [run EXCEPT !.pc = "unmark", !.step = j, !.left = run.left \ {j}]
  OBVIOUS
<1>6. /\ KeepStatus \/ UploadStatus(j, st)
      /\ UNCHANGED <<raw, marker, archives, pointer, b2Vars, captureVars, command, quiet>>
      /\ run.pc = "mark"
  OBVIOUS
<1> HIDE DEF j, st
<1>7. /\ run'.pc = "unmark" /\ run'.batch = run.batch /\ run'.generation = run.generation
      /\ run'.step = j /\ run' \in RunRecords
  <2> DEFINE begun == [run EXCEPT !.pc = "unmark", !.step = j]
  <2>1. j \in Nat
    BY <1>1 DEF Jobs
  <2>2. /\ begun \in RunRecords /\ begun.pc = "unmark" /\ begun.step = j
        /\ begun.batch = run.batch /\ begun.generation = run.generation
    BY <1>0, <2>1 DEF RunRecords
  <2>3. run' = [begun EXCEPT !.left = run.left \ {j}]
    BY <1>5
  <2>4. run.left \ {j} \in SUBSET Jobs
    BY <1>0 DEF RunRecords
  <2> HIDE DEF begun
  <2> QED BY <2>2, <2>3, <2>4 DEF RunRecords
<1>8. RunInv'
  <2>1. \A k \in Jobs : status[k] # NoStatus => status'[k] # NoStatus
    BY <1>1, <1>4, <1>6, UploadTypes DEF KeepStatus, TypeInv
  <2>2. AnchorStatus' # NoStatus
    BY <1>6, <1>7, <2>1, WorkflowAnchor DEF AnchorStatus, WorkflowSteps, GenerationSteps
  <2> QED BY <1>1, <1>6, <1>7, <2>2 DEF TypeInv, RunInv, WorkflowSteps, GenerationSteps
<1>9. CASE UploadStatus(j, st)
  BY <1>1, <1>2, <1>4, <1>6, <1>7, <1>8, <1>9, StatusStep
<1>10. CASE KeepStatus
  BY <1>6, <1>7, <1>8, <1>10, QuietRunStep DEF KeepStatus, bucketVars
<1> QED BY <1>6, <1>9, <1>10

LEMMA MarkerSteps ==
    ASSUME TypeInv, MarkMarker \/ DeferMarker
    PROVE  TypeInv'
<1> USE DEF b2Vars, captureVars
<1>0. run \in RunRecords
  BY DEF TypeInv, TypeOK
<1>1. CASE MarkMarker
  <2>1. MarkerAfter(run.step) \subseteq Jobs
    BY <1>1 DEF MarkMarker, MarkerAfter, TypeInv, TypeOK, RunInv
  <2>2. run' \in RunRecords /\ RunInv'
    <3>1. CASE run.left = {}
      BY <1>1, <3>1, IdleRunInv DEF MarkMarker
    <3>2. CASE run.left # {}
      <4>1. /\ run'.pc = "mark" /\ run'.batch = run.batch /\ run'.generation = run.generation
            /\ run' \in RunRecords
        BY <1>0, <1>1, <3>2 DEF MarkMarker, RunRecords
      <4> QED BY <1>1, <4>1
            DEF MarkMarker, TypeInv, RunInv, AnchorStatus, WorkflowSteps, GenerationSteps
    <3> QED BY <3>1, <3>2
  <2>3. TypeOK'
    BY <1>1, <2>1, <2>2 DEF MarkMarker, TypeInv, TypeOK
  <2> QED BY <1>1, <2>2, <2>3, RunStep DEF MarkMarker
<1>2. CASE DeferMarker
  <2>1. MarkerAfter(Anchor(run.batch)) \subseteq Jobs
    BY <1>2, WorkflowAnchor DEF DeferMarker, MarkerAfter, TypeInv, TypeOK, WorkflowSteps
  <2>2. run' \in RunRecords /\ RunInv'
    BY <1>2, IdleRunInv DEF DeferMarker
  <2>3. TypeOK'
    BY <1>2, <2>1, <2>2 DEF DeferMarker, TypeInv, TypeOK
  <2> QED BY <1>2, <2>2, <2>3, RunStep DEF DeferMarker
<1> QED BY <1>1, <1>2

LEMMA StepFailsStep ==
    ASSUME TypeInv, StepFails
    PROVE  TypeInv'
<1> USE DEF StepFails, b2Vars, captureVars
<1>0. run \in RunRecords
  BY DEF TypeInv, TypeOK
<1>1. /\ run'.pc = "defer" /\ run'.batch = run.batch /\ run' \in RunRecords
      /\ run.pc \in WorkflowSteps
  BY <1>0 DEF RunRecords, WorkflowSteps, GenerationSteps
<1>2. RunInv'
  BY <1>1 DEF TypeInv, RunInv, AnchorStatus, GenerationSteps
<1>3. TypeOK'
  BY <1>1 DEF TypeInv, TypeOK
<1> QED BY <1>2, <1>3, RunStep

LEMMA DeferStep ==
    ASSUME TypeInv, Defer
    PROVE  TypeInv'
<1> USE DEF Defer
<1> DEFINE j  == Anchor(run.batch)
           st == StatusAfterRuntimeFailure(AnchorStatus)
<1>1. /\ j \in Jobs /\ AnchorStatus \in StatusRecords /\ AnchorStatus # NoStatus
      /\ AnchorStatus = status[j]
      /\ OwnStatus(j, AnchorStatus)
  BY WorkflowAnchor DEF WorkflowSteps
<1>2. st \in StatusRecords /\ OwnStatus(j, st)
  <2> HIDE DEF j
  <2> QED BY <1>1, DeferredStatusTyped DEF OwnStatus
<1>3. /\ UploadStatus(j, st)
      /\ run' = [IdleRun EXCEPT !.pc = "deferMarker", !.batch = <<j>>]
  BY <1>1
<1> HIDE DEF j, st
<1>4. /\ run'.pc = "deferMarker" /\ run'.batch = <<j>>
      /\ run' \in RunRecords
  BY <1>1, <1>3, IdleRunTyped, SingletonBatch DEF RunRecords, IdleRun
<1>5. RunInv'
  <2>1. run'.batch # <<>> /\ Anchor(run'.batch) = j
    BY <1>1, <1>4, SingletonBatch
  <2>2. AnchorStatus' # NoStatus
    BY <1>1, <1>2, <1>3, <2>1, UploadTypes DEF AnchorStatus, TypeInv
  <2> QED BY <1>4, <2>1, <2>2 DEF RunInv, GenerationSteps
<1> QED BY <1>1, <1>2, <1>3, <1>4, <1>5, StatusStep

-----------------------------------------------------------------------------
(* The cleanup, the operator and the environment.                          *)

\* Deleting payloads: only the Raw archives of published jobs may go.
LEMMA DeletePayloadTyped ==
    ASSUME TypeInv, NEW raws \in SUBSET Jobs, NEW markers, NEW objects,
           \A j \in raws : Published(j),
           DeletePayload(raws, markers, objects),
           run' = IdleRun \/ (run' \in RunRecords /\ run'.pc = "cleanStatus")
    PROVE  TypeInv'
<1> USE DEF DeletePayload, b2Vars, captureVars
<1>1. run' \in RunRecords /\ RunInv'
  BY IdleRunInv DEF RunInv, WorkflowSteps, GenerationSteps
<1>2. TypeOK'
  BY <1>1 DEF TypeInv, TypeOK
<1>3. \A j \in Jobs : raw'[j] = raw[j] \/ raw'[j] = NoRaw
  OBVIOUS
<1>5. StatusInv'
  BY <1>3 DEF TypeInv, StatusInv, OwnStatus, Listed
<1>6. CaptureInv'
  <2>1. capture.pc = "status" => raw'[capture.job] = raw[capture.job]
    BY DEF TypeInv, CaptureInv, Published
  <2> QED BY <1>3, <2>1 DEF TypeInv, CaptureInv
<1>7. CommandInv'
  BY <1>3 DEF TypeInv, CommandInv, Published, OwnStatus, Listed
<1> QED BY <1>1, <1>2, <1>5, <1>6, <1>7 DEF TypeInv

LEMMA DeleteStatusTyped ==
    ASSUME TypeInv, NEW jobs \in SUBSET Jobs, DeleteStatus(jobs), run' = IdleRun
    PROVE  TypeInv'
<1> USE DEF DeleteStatus, b2Vars, captureVars
<1>1. run' \in RunRecords /\ RunInv'
  BY IdleRunInv
<1>2. TypeOK'
  BY <1>1 DEF TypeInv, TypeOK
<1>3. \A j \in Jobs : status'[j] = status[j] \/ status'[j] = NoStatus
  OBVIOUS
<1>4. StatusInv'
  BY <1>3 DEF TypeInv, StatusInv, OwnStatus, Listed
<1>5. CaptureInv'
  BY <1>3 DEF TypeInv, CaptureInv
<1>6. CommandInv'
  BY DEF TypeInv, CommandInv, Published, OwnStatus, Listed
<1> QED BY <1>1, <1>2, <1>4, <1>5, <1>6 DEF TypeInv

LEMMA PlanCleanupStep ==
    ASSUME TypeInv, PlanCleanup
    PROVE  TypeInv'
<1> USE DEF PlanCleanup
<1>0. PICK expired \in SUBSET {j \in Jobs : MayExpire(j)},
           orphans \in SUBSET OrphanArchives(archives, status, pointer),
           raws    \in SUBSET {j \in OrphanRaws(raw, status) :
                                  j = capture.job => capture.pc # "status"} :
        run' = [IdleRun EXCEPT !.pc = "cleanPayload", !.left = expired, !.raws = raws,
                   !.doomed = orphans \cup ExpiredArchives(expired, status, pointer)]
  OBVIOUS
<1>1. ASSUME NEW j \in Jobs, status[j] # NoStatus \/ raw[j] # NoRaw
      PROVE  j <= capture.job
  BY <1>1 DEF TypeInv, TypeOK, CaptureInv, Jobs
<1>2. ASSUME NEW j \in expired PROVE Published(j)
  BY <1>1 DEF MayExpire, Published
<1>3. ASSUME NEW j \in raws PROVE j \in Jobs /\ Published(j)
  BY <1>1 DEF OrphanRaws, Published
<1> DEFINE doomed == orphans \cup ExpiredArchives(expired, status, pointer)
<1>4. doomed \subseteq Archives
  <2>1. orphans \subseteq Archives
    BY DEF OrphanArchives, TypeInv, TypeOK
  <2>2. \A j \in StagedJobs(status, expired) : status[j].staged.object \in Archives
    BY DEF StagedJobs, MayExpire, TypeInv, TypeOK, StatusRecords, Generations
  <2> QED BY <2>1, <2>2 DEF ExpiredArchives
<1>5. run' = [IdleRun EXCEPT !.pc = "cleanPayload", !.left = expired, !.raws = raws,
                 !.doomed = doomed]
  BY <1>0
<1>6. expired \in SUBSET Jobs /\ raws \in SUBSET Jobs
  BY <1>3
<1> HIDE DEF doomed
<1>7. run' = [pc |-> "cleanPayload", batch |-> <<>>, generation |-> NoGeneration, step |-> 0,
              left |-> expired, bootstrap |-> FALSE, raws |-> raws, doomed |-> doomed]
  BY <1>5 DEF IdleRun
<1>8. run' \in RunRecords
  BY <1>4, <1>6, <1>7, EmptyBatch DEF RunRecords
<1>9. RunInv'
  <2>1. /\ run'.pc = "cleanPayload" /\ run'.left = expired /\ run'.raws = raws
        /\ UNCHANGED capture
    BY <1>7 DEF captureVars
  <2>2. \A j \in expired \cup raws : Published(j)'
    BY <1>2, <1>3, <2>1 DEF Published
  <2> QED BY <2>1, <2>2 DEF RunInv, WorkflowSteps, GenerationSteps
<1> QED BY <1>8, <1>9, QuietRunStep

LEMMA CleanupSteps ==
    ASSUME TypeInv,
           CleanPayload \/ CleanPayloadFails \/ CleanStatus \/ CleanStatusFails
    PROVE  TypeInv'
<1>0. run \in RunRecords
  BY DEF TypeInv, TypeOK
<1>1. CASE CleanPayload
  <2>1. run' = IdleRun \/ (run' \in RunRecords /\ run'.pc = "cleanStatus")
    BY <1>0, <1>1 DEF CleanPayload, RunRecords
  <2>2. /\ run.left \cup run.raws \in SUBSET Jobs
        /\ \A j \in run.left \cup run.raws : Published(j)
    BY <1>0, <1>1 DEF CleanPayload, RunRecords, TypeInv, RunInv
  <2> QED BY <1>1, <2>1, <2>2, DeletePayloadTyped DEF CleanPayload
<1>2. CASE CleanPayloadFails
  <2>1. PICK raws \in SUBSET (run.left \cup run.raws), markers \in SUBSET run.left,
             objects \in SUBSET run.doomed : DeletePayload(raws, markers, objects)
    BY <1>2 DEF CleanPayloadFails
  <2>2. raws \in SUBSET Jobs /\ \A j \in raws : Published(j)
    BY <1>0, <1>2 DEF CleanPayloadFails, RunRecords, TypeInv, RunInv
  <2>3. run' = IdleRun
    BY <1>2 DEF CleanPayloadFails
  <2> QED BY <2>1, <2>2, <2>3, DeletePayloadTyped
<1>3. CASE CleanStatus
  <2>1. run.left \in SUBSET Jobs
    BY <1>0 DEF RunRecords
  <2> QED BY <1>3, <2>1, DeleteStatusTyped DEF CleanStatus
<1>4. CASE CleanStatusFails
  <2>1. PICK jobs \in SUBSET run.left : DeleteStatus(jobs)
    BY <1>4 DEF CleanStatusFails
  <2>2. jobs \in SUBSET Jobs
    BY <1>0 DEF RunRecords
  <2> QED BY <1>4, <2>1, <2>2, DeleteStatusTyped DEF CleanStatusFails
<1> QED BY <1>1, <1>2, <1>3, <1>4

LEMMA BeginDiscardStep ==
    ASSUME TypeInv, NEW j \in Jobs, BeginDiscard(j)
    PROVE  TypeInv'
<1> USE DEF BeginDiscard, bucketVars, b2Vars, captureVars
<1>1. status[j] \in StatusRecords /\ status[j] # NoStatus /\ j \in 0 .. JobCount
  BY DEF TypeInv, TypeOK, Jobs
<1>2. command'.job = j /\ command'.status = status[j]
  OBVIOUS
<1>3. TypeOK'
  BY <1>1 DEF TypeInv, TypeOK
<1>4. CommandInv'
  <2>1. OwnStatus(j, status[j])
    BY <1>1 DEF TypeInv, StatusInv
  <2>2. Published(j)
    BY <1>1 DEF TypeInv, TypeOK, CaptureInv, Published, Jobs
  <2> QED BY <1>1, <1>2, <2>1, <2>2 DEF CommandInv, Published, OwnStatus, Listed
<1>5. StatusInv' /\ CaptureInv' /\ RunInv'
  BY DEF TypeInv, StatusInv, OwnStatus, Listed, CaptureInv, RunInv, AnchorStatus, Published
<1> QED BY <1>3, <1>4, <1>5 DEF TypeInv

LEMMA EndDiscardStep ==
    ASSUME TypeInv, EndDiscard
    PROVE  TypeInv'
<1> USE DEF EndDiscard, b2Vars, captureVars
<1> DEFINE j  == command.job
           st == [command.status EXCEPT !.staged = NoGeneration]
<1>1. /\ j \in Jobs /\ command.status \in StatusRecords
      /\ OwnStatus(j, command.status) /\ Published(j)
  BY DEF TypeInv, TypeOK, CommandInv
<1>2. st \in StatusRecords /\ OwnStatus(j, st)
  <2> HIDE DEF j
  <2> QED BY <1>1 DEF StatusRecords, OwnStatus
<1>3. /\ status' = [status EXCEPT ![j] = st]
      /\ hidden' \subseteq Jobs
      /\ updatedBefore' \subseteq Jobs \X Jobs
  BY <1>1 DEF TypeInv, TypeOK, Partial
<1> HIDE DEF j, st
<1>4. /\ status'[j] = st /\ st # NoStatus
      /\ \A k \in Jobs \ {j} : status'[k] = status[k]
      /\ status' \in [Jobs -> StatusRecords \cup {NoStatus}]
  <2>1. st \in StatusRecords /\ st # NoStatus
    BY <1>2, AbsenceAssumption
  <2>2. status \in [Jobs -> StatusRecords \cup {NoStatus}]
    BY DEF TypeInv, TypeOK
  <2> QED BY ONLY <1>1, <1>3, <2>1, <2>2
<1>5. NoCommand \in [job : 0 .. JobCount, status : StatusRecords \cup {NoStatus}]
  BY GenerationAssumption DEF NoCommand
<1>6. TypeOK'
  BY <1>3, <1>4, <1>5 DEF TypeInv, TypeOK
<1>7. StatusInv'
  BY <1>1, <1>2, <1>4 DEF TypeInv, StatusInv, OwnStatus, Listed
<1>8. CaptureInv'
  BY <1>1, <1>4 DEF TypeInv, TypeOK, CaptureInv, Published, Jobs
<1>9. CommandInv'
  BY DEF CommandInv
<1>10. RunInv'
  <2>1. \A k \in Jobs : status[k] # NoStatus => status'[k] # NoStatus
    BY <1>4
  <2>2. run.pc \in WorkflowSteps => AnchorStatus' # NoStatus
    BY <2>1, WorkflowAnchor DEF AnchorStatus
  <2>3. run.pc \in {"restore", "build"} => \A k \in Members(run.batch) : status'[k] # NoStatus
    BY <2>1, WorkflowAnchor DEF TypeInv, RunInv, WorkflowSteps
  <2> QED BY <2>2, <2>3 DEF TypeInv, RunInv, Published, Members
<1> QED BY <1>6, <1>7, <1>8, <1>9, <1>10 DEF TypeInv

LEMMA EnvironmentSteps ==
    ASSUME TypeInv, RunStops \/ (\E j \in Jobs : WindowPasses(j)) \/ Quieten
    PROVE  TypeInv'
<1>1. CASE RunStops
  BY <1>1, IdleRunInv, QuietRunStep DEF RunStops
<1>2. CASE (\E j \in Jobs : WindowPasses(j)) \/ Quieten
  <2>1. /\ hidden' \subseteq Jobs /\ quiet' \in BOOLEAN
        /\ UNCHANGED <<raw, status, marker, updatedBefore, archives, pointer,
                       b2Vars, captureVars, run, command>>
    BY <1>2 DEF WindowPasses, Quieten, bucketVars, TypeInv, TypeOK
  <2>2. TypeOK'
    BY <2>1 DEF TypeInv, TypeOK, b2Vars, captureVars
  <2>3. RunInv'
    BY <2>1 DEF TypeInv, RunInv, AnchorStatus, Published, captureVars
  <2> QED BY <2>1, <2>2, <2>3, RunStep DEF captureVars
<1> QED BY <1>1, <1>2

LEMMA NextTypeInv == TypeInv /\ [Next]_vars => TypeInv'
<1> SUFFICES ASSUME TypeInv, [Next]_vars PROVE TypeInv'
  OBVIOUS
<1>1. CASE CaptureNext
  BY <1>1, PublishRawStep, PublishStatusStep, OtherCaptureSteps DEF CaptureNext
<1>2. CASE ProcessNext
  <2>1. CASE \/ \E due \in SUBSET Partial : Select(due)
             \/ SelectFails
             \/ \E j \in Jobs : SelectExactly(j)
    BY <2>1, SelectionSteps
  <2>2. CASE ProcessStep
    BY <2>2, ReplayStep, RestoreSteps, BuildStep, UploadGenerationStep, RecordStagedStep,
       PublishSteps, PromoteStep, RetireStep, MarkStatusStep, MarkerSteps, DeferStep
       DEF ProcessStep
  <2>3. CASE PublishFails \/ StepFails \/ RunStops
    BY <2>3, PublishSteps, StepFailsStep, EnvironmentSteps
  <2> QED BY <1>2, <2>1, <2>2, <2>3 DEF ProcessNext
<1>3. CASE CleanupNext
  BY <1>3, PlanCleanupStep, CleanupSteps DEF CleanupNext, CleanupStep
<1>4. CASE EnvironmentNext
  BY <1>4, BeginDiscardStep, EndDiscardStep, EnvironmentSteps DEF EnvironmentNext
<1>5. CASE UNCHANGED vars
  <2>1. UNCHANGED <<bucketVars, b2Vars, captureVars, run, command, quiet>>
    BY <1>5 DEF vars
  <2>2. run' \in RunRecords /\ RunInv'
    BY <2>1 DEF TypeInv, TypeOK, RunInv, AnchorStatus, Published, bucketVars, captureVars
  <2> QED BY <2>1, <2>2, QuietRunStep
<1> QED BY <1>1, <1>2, <1>3, <1>4, <1>5 DEF Next

LEMMA TypeInvAlways == Spec => []TypeInv
BY InitTypeInv, NextTypeInv, PTL DEF Spec

\* The bucket objects, the Delivery indexes and the actors keep their shapes, whatever is
\* interrupted and whatever the operator does.
THEOREM TypeCorrect == Spec => []TypeOK
<1>1. TypeInv => TypeOK
  BY DEF TypeInv
<1> QED BY <1>1, TypeInvAlways, PTL

-----------------------------------------------------------------------------
(* The bookkeeping of the job statuses: no article of a job is lost or     *)
(* counted twice, and what is settled stays settled.                       *)

\* A status accounts for every article of its job exactly once.
Accounted(j, st) ==
    /\ WellFormedStatus(st)
    /\ raw[j] # NoRaw => st.pending \cup st.completed \cup st.excluded = Listed(j)

\* A discard between its read and its write holds a status that it will upload again.
AccountInv ==
    /\ \A j \in Jobs : status[j] # NoStatus => Accounted(j, status[j])
    /\ command # NoCommand => Accounted(command.job, command.status)

LEMMA InitialStatusAccounts ==
    ASSUME NEW j \in Jobs
    PROVE  Accounted(j, InitialStatus(Listed(j)))
BY DEF Accounted, WellFormedStatus, InitialStatus

\* A delivery moves each pending article to at most one other place.
LEMMA DeliveredStatusAccounts ==
    ASSUME NEW j \in Jobs, NEW st \in StatusRecords, Accounted(j, st),
           NEW outcome \in [Articles -> Outcomes]
    PROVE  Accounted(j, StatusAfterSuccessfulDelivery(st, outcome))
<1> DEFINE Having(kinds) == {a \in st.pending : outcome[a] \in kinds}
           next == StatusAfterSuccessfulDelivery(st, outcome)
<1>1. /\ next.pending = Having({"retry", "silent"})
      /\ next.completed = st.completed \cup Having(Completing)
      /\ next.excluded = st.excluded \cup Having({"excluded", "removed"})
      /\ next.state = "done" => next.pending = {}
  BY DEF StatusAfterSuccessfulDelivery
<1>2. \A a \in st.pending : outcome[a] \in Outcomes
  BY DEF StatusRecords
<1>3. st.pending = Having({"retry", "silent"}) \cup Having(Completing)
                     \cup Having({"excluded", "removed"})
  BY <1>2 DEF Outcomes, Completing
<1> HIDE DEF next
<1>4. WellFormedStatus(next)
  BY <1>1 DEF Accounted, WellFormedStatus, Completing
<1>5. next.pending \cup next.completed \cup next.excluded
        = st.pending \cup st.completed \cup st.excluded
  <2> HIDE DEF Having
  <2> QED BY <1>1, <1>3
<1>6. Accounted(j, next)
  BY <1>4, <1>5 DEF Accounted
<1> QED BY <1>6 DEF next

LEMMA DeferredStatusAccounts ==
    ASSUME NEW j \in Jobs, NEW st \in StatusRecords, Accounted(j, st)
    PROVE  Accounted(j, StatusAfterRuntimeFailure(st))
BY DEF Accounted, WellFormedStatus, StatusAfterRuntimeFailure, StatusRecords

LEMMA StagedStatusAccounts ==
    ASSUME NEW j \in Jobs, NEW st \in StatusRecords, Accounted(j, st), NEW gen
    PROVE  Accounted(j, [st EXCEPT !.staged = gen])
BY DEF Accounted, WellFormedStatus, StatusRecords

LEMMA AccountsUploaded ==
    ASSUME TypeInv, AccountInv, NEW j \in Jobs, NEW st \in StatusRecords,
           UploadStatus(j, st), Accounted(j, st), UNCHANGED <<raw, command>>
    PROVE  AccountInv'
<1>1. status'[j] = st /\ \A k \in Jobs \ {j} : status'[k] = status[k]
  BY UploadTypes DEF TypeInv
<1> QED BY <1>1 DEF AccountInv, Accounted, Listed

\* Payloads and statuses that a cleanup deletes leave the others' accounts alone.
LEMMA AccountsKept ==
    ASSUME TypeInv, AccountInv, UNCHANGED command,
           \A j \in Jobs : raw'[j] \in {raw[j], NoRaw} /\ status'[j] \in {status[j], NoStatus}
    PROVE  AccountInv'
<1>1. command # NoCommand => command.job \in Jobs
  BY DEF TypeInv, CommandInv
<1> QED BY <1>1 DEF AccountInv, Accounted, Listed

LEMMA AccountsPublished ==
    ASSUME TypeInv, AccountInv, PublishRaw
    PROVE  AccountInv'
<1> DEFINE new == capture.job + 1
<1>1. new \in Jobs /\ capture.job < new /\ status[new] = NoStatus /\ capture.pc = "idle"
  BY GenerationAssumption DEF PublishRaw, TypeInv, TypeOK, CaptureInv, Jobs
<1>2. \A k \in Jobs \ {new} : raw'[k] = raw[k]
  BY DEF PublishRaw, TypeInv, TypeOK
<1>3. command # NoCommand => command.job \in Jobs \ {new}
  BY <1>1 DEF TypeInv, TypeOK, CommandInv, Published, Jobs
<1> QED BY <1>1, <1>2, <1>3 DEF PublishRaw, AccountInv, Accounted, Listed

LEMMA NextAccountInv == TypeInv /\ AccountInv /\ [Next]_vars => AccountInv'
<1> SUFFICES ASSUME TypeInv, AccountInv, [Next]_vars PROVE AccountInv'
  OBVIOUS
<1> USE DEF bucketVars, b2Vars, captureVars
<1>1. CASE PublishRaw
  BY <1>1, AccountsPublished
<1>2. CASE PublishStatus
  <2>1. capture.job \in Jobs /\ raw[capture.job] \in Rows
    BY <1>2 DEF PublishStatus, TypeInv, TypeOK, CaptureInv
  <2>2. InitialStatus(Listed(capture.job)) \in StatusRecords
    BY <2>1, InitialStatusTyped DEF Rows, Listed
  <2>3. UploadStatus(capture.job, InitialStatus(Listed(capture.job)))
    BY <1>2 DEF PublishStatus, Listed
  <2> QED BY <1>2, <2>1, <2>2, <2>3, InitialStatusAccounts, AccountsUploaded DEF PublishStatus
<1>3. CASE RecordStaged
  <2> DEFINE j  == Anchor(run.batch)
             st == [AnchorStatus EXCEPT !.staged = run.generation]
  <2>1. /\ j \in Jobs /\ AnchorStatus \in StatusRecords /\ AnchorStatus # NoStatus
        /\ AnchorStatus = status[j] /\ run.generation \in Generations
    BY <1>3, WorkflowAnchor, RunGeneration DEF RecordStaged, WorkflowSteps, GenerationSteps
  <2>2. st \in StatusRecords
    BY <2>1 DEF StatusRecords
  <2>3. Accounted(j, st)
    <3> HIDE DEF j
    <3> QED BY <2>1, StagedStatusAccounts DEF AccountInv
  <2>4. UploadStatus(j, st)
    BY <1>3 DEF RecordStaged
  <2> HIDE DEF j, st
  <2> QED BY <1>3, <2>1, <2>2, <2>3, <2>4, AccountsUploaded DEF RecordStaged
<1>4. CASE MarkStatus
  <2> DEFINE j  == NextToMark
             st == StatusAfterSuccessfulDelivery(status[j], run.generation.result.outcome)
  <2>1. j \in Jobs
    BY <1>4, NextToMarkIsMember DEF MarkStatus
  <2>2. /\ status[j] # NoStatus /\ status[j] \in StatusRecords
        /\ run.generation.result.outcome \in [Articles -> Outcomes]
    BY <1>4, <2>1, RunGeneration DEF MarkStatus, TypeInv, TypeOK, GenerationSteps, Results
  <2>3. st \in StatusRecords /\ Accounted(j, st)
    <3> HIDE DEF j
    <3> QED BY <2>1, <2>2, DeliveredStatusTyped, DeliveredStatusAccounts DEF AccountInv
  <2>4. UploadStatus(j, st) \/ UNCHANGED status
    BY <1>4 DEF MarkStatus, KeepStatus
  <2>5. UNCHANGED <<raw, command>>
    BY <1>4 DEF MarkStatus
  <2> HIDE DEF j, st
  <2>6. CASE UploadStatus(j, st)
    BY <2>1, <2>3, <2>5, <2>6, AccountsUploaded
  <2>7. CASE UNCHANGED status
    BY <2>5, <2>7, AccountsKept
  <2> QED BY <2>4, <2>6, <2>7
<1>5. CASE Defer
  <2> DEFINE j  == Anchor(run.batch)
             st == StatusAfterRuntimeFailure(AnchorStatus)
  <2>1. /\ j \in Jobs /\ AnchorStatus \in StatusRecords /\ AnchorStatus # NoStatus
        /\ AnchorStatus = status[j]
    BY <1>5, WorkflowAnchor DEF Defer, WorkflowSteps
  <2>2. st \in StatusRecords /\ Accounted(j, st)
    <3> HIDE DEF j
    <3> QED BY <2>1, DeferredStatusTyped, DeferredStatusAccounts DEF AccountInv
  <2>3. UploadStatus(j, st)
    BY <1>5, <2>1 DEF Defer
  <2> HIDE DEF j, st
  <2> QED BY <1>5, <2>1, <2>2, <2>3, AccountsUploaded DEF Defer
<1>6. CASE \E j \in Jobs : BeginDiscard(j)
  BY <1>6 DEF BeginDiscard, AccountInv, Accounted, Listed
<1>7. CASE EndDiscard
  <2> DEFINE j  == command.job
             st == [command.status EXCEPT !.staged = NoGeneration]
  <2>1. j \in Jobs /\ command.status \in StatusRecords /\ Accounted(j, command.status)
    BY <1>7 DEF EndDiscard, TypeInv, TypeOK, CommandInv, AccountInv
  <2>2. Accounted(j, st)
    <3> HIDE DEF j
    <3> QED BY <2>1, StagedStatusAccounts
  <2>3. status' = [status EXCEPT ![j] = st] /\ raw' = raw /\ command' = NoCommand
    BY <1>7 DEF EndDiscard
  <2> HIDE DEF j, st
  <2>4. \A k \in Jobs : status'[k] = IF k = j THEN st ELSE status[k]
    BY <2>1, <2>3 DEF TypeInv, TypeOK
  <2> QED BY <2>2, <2>3, <2>4 DEF AccountInv, Accounted, Listed
<1>8. CASE Enqueue \/ SaveCaptureMemory \/ CaptureStops \/ PublishAgain
  BY <1>8, AccountsKept DEF Enqueue, SaveCaptureMemory, CaptureStops, PublishAgain
<1>9. CASE \/ \E due \in SUBSET Partial : Select(due)
           \/ SelectFails \/ (\E j \in Jobs : SelectExactly(j)) \/ Replay
           \/ Restore \/ RestoreFails \/ Build \/ UploadGeneration \/ Publish \/ PublishFails
  BY <1>9, AccountsKept
    DEF Select, SelectFails, SelectExactly, Replay, Restore, RestoreFails, Build,
        UploadGeneration, Publish, PublishFails
<1>10. CASE \/ Promote \/ PromoteFails \/ Retire \/ MarkFails \/ MarkMarker \/ DeferMarker
            \/ StepFails \/ RunStops
  BY <1>10, AccountsKept
    DEF Promote, PromoteFails, Retire, MarkFails, MarkMarker, DeferMarker, StepFails, RunStops
<1>11. CASE CleanupNext
  <2>1. CASE PlanCleanup
    BY <2>1, AccountsKept DEF PlanCleanup
  <2>2. CASE CleanPayload \/ CleanPayloadFails
    BY <2>2, AccountsKept DEF CleanPayload, CleanPayloadFails, DeletePayload
  <2>3. CASE CleanStatus \/ CleanStatusFails
    BY <2>3, AccountsKept DEF CleanStatus, CleanStatusFails, DeleteStatus
  <2> QED BY <1>11, <2>1, <2>2, <2>3 DEF CleanupNext, CleanupStep
<1>12. CASE (\E j \in Jobs : WindowPasses(j)) \/ Quieten \/ UNCHANGED vars
  BY <1>12, AccountsKept DEF WindowPasses, Quieten, vars
<1> QED BY <1>1, <1>2, <1>3, <1>4, <1>5, <1>6, <1>7, <1>8, <1>9, <1>10, <1>11, <1>12
        DEF Next, CaptureNext, ProcessNext, ProcessStep, EnvironmentNext

LEMMA AccountInvAlways == Spec => []AccountInv
<1>1. Init => AccountInv
  BY DEF Init, AccountInv
<1> QED BY <1>1, NextAccountInv, TypeInvAlways, PTL DEF Spec

\* Every article of a job is pending, completed or excluded and in one of them only, through
\* every delivery, deferral, replay and discard, and a done job has nothing left to retry.
THEOREM EveryArticleAccountedFor == Spec => []ArticlesAccountedFor
<1>1. AccountInv => ArticlesAccountedFor
  BY DEF AccountInv, ArticlesAccountedFor, Accounted, Statuses
<1> QED BY <1>1, AccountInvAlways, PTL

-----------------------------------------------------------------------------
(* Settled articles.  A discard uploads the status that it read before, so *)
(* this holds as long as there is no operator.                             *)

NoDiscard == command = NoCommand

LEMMA NextNoDiscard ==
    ASSUME "operator" \notin Events, NoDiscard, [Next]_vars
    PROVE  NoDiscard'
<1> USE DEF NoDiscard
<1>1. CASE CaptureNext
  BY <1>1 DEF CaptureNext, PublishRaw, PublishStatus, Enqueue, SaveCaptureMemory,
              CaptureStops, PublishAgain
<1>2. CASE ProcessNext
  BY <1>2 DEF ProcessNext, ProcessStep, Select, SelectFails, SelectExactly, Replay, Restore,
              RestoreFails, Build, UploadGeneration, RecordStaged, Publish, PublishFails,
              Promote, PromoteFails, Retire, MarkStatus, MarkFails, MarkMarker, Defer,
              DeferMarker, StepFails, RunStops
<1>3. CASE CleanupNext
  BY <1>3 DEF CleanupNext, CleanupStep, PlanCleanup, CleanPayload, CleanPayloadFails,
              CleanStatus, CleanStatusFails, DeletePayload, DeleteStatus
<1>4. CASE EnvironmentNext
  BY <1>4 DEF EnvironmentNext, BeginDiscard, EndDiscard, WindowPasses, Quieten, May
<1>5. CASE UNCHANGED vars
  BY <1>5 DEF vars
<1> QED BY <1>1, <1>2, <1>3, <1>4, <1>5 DEF Next

\* Steps that change no status, or delete some.
LEMMA SettlesKept ==
    ASSUME \A j \in Jobs : status'[j] \in {status[j], NoStatus}
    PROVE  SettlesOnly
BY DEF SettlesOnly

\* Uploading one status that takes nothing back.
LEMMA SettlesUploaded ==
    ASSUME TypeInv, NEW j \in Jobs, NEW st \in StatusRecords, UploadStatus(j, st),
           status[j] # NoStatus => /\ st.pending \subseteq status[j].pending
                                   /\ status[j].state = "done" => st.state = "done"
    PROVE  SettlesOnly
<1>1. status'[j] = st /\ \A k \in Jobs \ {j} : status'[k] = status[k]
  BY UploadTypes DEF TypeInv
<1> QED BY <1>1 DEF SettlesOnly

LEMMA NextSettles ==
    ASSUME TypeInv, NoDiscard, "operator" \notin Events, Next
    PROVE  SettlesOnly
<1> USE DEF bucketVars, b2Vars, captureVars
<1>1. CASE PublishStatus
  <2>1. /\ capture.job \in Jobs /\ raw[capture.job] \in Rows
        /\ status[capture.job] = NoStatus
    BY <1>1 DEF PublishStatus, TypeInv, TypeOK, CaptureInv
  <2>2. InitialStatus(Listed(capture.job)) \in StatusRecords
    BY <2>1, InitialStatusTyped DEF Rows, Listed
  <2>3. UploadStatus(capture.job, InitialStatus(Listed(capture.job)))
    BY <1>1 DEF PublishStatus, Listed
  <2> QED BY <2>1, <2>2, <2>3, SettlesUploaded
<1>2. CASE RecordStaged
  <2> DEFINE j  == Anchor(run.batch)
             st == [AnchorStatus EXCEPT !.staged = run.generation]
  <2>1. /\ j \in Jobs /\ AnchorStatus \in StatusRecords
        /\ AnchorStatus = status[j] /\ run.generation \in Generations
    BY <1>2, WorkflowAnchor, RunGeneration DEF RecordStaged, WorkflowSteps, GenerationSteps
  <2>2. /\ st \in StatusRecords
        /\ st.pending = AnchorStatus.pending /\ st.state = AnchorStatus.state
    BY <2>1 DEF StatusRecords
  <2>3. UploadStatus(j, st)
    BY <1>2 DEF RecordStaged
  <2> HIDE DEF j, st
  <2> QED BY <2>1, <2>2, <2>3, SettlesUploaded
<1>3. CASE MarkStatus
  <2> DEFINE j  == NextToMark
             st == StatusAfterSuccessfulDelivery(status[j], run.generation.result.outcome)
  <2>1. j \in Jobs
    BY <1>3, NextToMarkIsMember DEF MarkStatus
  <2>2. /\ status[j] # NoStatus /\ status[j] \in StatusRecords
        /\ run.generation.result.outcome \in [Articles -> Outcomes]
    BY <1>3, <2>1, RunGeneration DEF MarkStatus, TypeInv, TypeOK, GenerationSteps, Results
  <2>3. st \in StatusRecords /\ st.pending \subseteq status[j].pending
    <3> HIDE DEF j
    <3> QED BY <2>1, <2>2, DeliveredStatusTyped
  <2>4. \/ UploadStatus(j, st) /\ status[j].state # "done"
        \/ UNCHANGED status
    BY <1>3 DEF MarkStatus, KeepStatus
  <2> HIDE DEF j, st
  <2>5. CASE UploadStatus(j, st) /\ status[j].state # "done"
    BY <2>1, <2>3, <2>5, SettlesUploaded
  <2>6. CASE UNCHANGED status
    BY <2>6, SettlesKept
  <2> QED BY <2>4, <2>5, <2>6
<1>4. CASE Defer
  <2> DEFINE j  == Anchor(run.batch)
             st == StatusAfterRuntimeFailure(AnchorStatus)
  <2>1. /\ j \in Jobs /\ AnchorStatus \in StatusRecords /\ AnchorStatus # NoStatus
        /\ AnchorStatus = status[j]
    BY <1>4, WorkflowAnchor DEF Defer, WorkflowSteps
  <2>2. /\ st \in StatusRecords /\ st.pending = AnchorStatus.pending
        /\ AnchorStatus.state = "done" => st.state = "done"
    <3> HIDE DEF j
    <3> QED BY <2>1, DeferredStatusTyped DEF StatusAfterRuntimeFailure
  <2>3. UploadStatus(j, st)
    BY <1>4, <2>1 DEF Defer
  <2> HIDE DEF j, st
  <2> QED BY <2>1, <2>2, <2>3, SettlesUploaded
<1>5. CASE PublishRaw \/ Enqueue \/ SaveCaptureMemory \/ CaptureStops \/ PublishAgain
  BY <1>5, SettlesKept DEF PublishRaw, Enqueue, SaveCaptureMemory, CaptureStops, PublishAgain
<1>6. CASE \/ \E due \in SUBSET Partial : Select(due)
           \/ SelectFails \/ (\E j \in Jobs : SelectExactly(j)) \/ Replay
           \/ Restore \/ RestoreFails \/ Build \/ UploadGeneration \/ Publish \/ PublishFails
  BY <1>6, SettlesKept
    DEF Select, SelectFails, SelectExactly, Replay, Restore, RestoreFails, Build,
        UploadGeneration, Publish, PublishFails
<1>7. CASE \/ Promote \/ PromoteFails \/ Retire \/ MarkFails \/ MarkMarker \/ DeferMarker
           \/ StepFails \/ RunStops
  BY <1>7, SettlesKept
    DEF Promote, PromoteFails, Retire, MarkFails, MarkMarker, DeferMarker, StepFails, RunStops
<1>8. CASE CleanupNext
  <2>1. CASE PlanCleanup
    BY <2>1, SettlesKept DEF PlanCleanup
  <2>2. CASE CleanPayload \/ CleanPayloadFails
    BY <2>2, SettlesKept DEF CleanPayload, CleanPayloadFails, DeletePayload
  <2>3. CASE CleanStatus \/ CleanStatusFails
    BY <2>3, SettlesKept DEF CleanStatus, CleanStatusFails, DeleteStatus
  <2> QED BY <1>8, <2>1, <2>2, <2>3 DEF CleanupNext, CleanupStep
<1>9. CASE EnvironmentNext
  BY <1>9, SettlesKept
    DEF EnvironmentNext, BeginDiscard, EndDiscard, WindowPasses, Quieten, May, NoDiscard
<1> QED BY <1>1, <1>2, <1>3, <1>4, <1>5, <1>6, <1>7, <1>8, <1>9
        DEF Next, CaptureNext, ProcessNext, ProcessStep

\* Without an operator, an article that a job has settled is never owed again and a done
\* job is never reopened: a replay or a late deferral leaves a done status alone.
THEOREM SettledForGood ==
    ASSUME "operator" \notin Events
    PROVE  Spec => SettledStaysSettled
<1>1. Init => NoDiscard
  BY DEF Init, NoDiscard
<1>2. NoDiscard /\ [Next]_vars => NoDiscard'
  BY NextNoDiscard
<1>3. TypeInv /\ NoDiscard /\ [Next]_vars => [SettlesOnly]_vars
  BY NextSettles
<1> QED BY <1>1, <1>2, <1>3, TypeInvAlways, PTL DEF Spec, SettledStaysSettled

-----------------------------------------------------------------------------
(***************************************************************************)
(* What the bucket must keep is kept: the committed Process memory can     *)
(* always be restored, every body a Delivery index lists is on B2, and a   *)
(* pipeline without a Process memory publishes nothing.                    *)
(***************************************************************************)
-----------------------------------------------------------------------------
(* The committed generation.                                               *)

\* Nothing that is about to be deleted belongs to the pointer, and the generation of the
\* run is in the bucket from its upload to its promotion.  A discard can only take the
\* generation out of the status, never put another one there.
RestoreInv ==
    /\ PointerRestorable
    /\ run.doomed \cap ObjectsOf(pointer) = {}
    /\ run.pc = "upload" => run.generation.base \in archives \cup {NoBase}
    /\ run.pc \in {"record", "publish", "promote"} =>
          GenerationObjects(run.generation) \subseteq archives
    /\ run.pc \in {"publish", "promote"} =>
          AnchorStatus.staged \in {run.generation, NoGeneration}

LEMMA InitRestoreInv == Init => RestoreInv
<1> SUFFICES ASSUME Init PROVE RestoreInv
  OBVIOUS
<1>1. ObjectsOf(pointer) \subseteq archives
  <2>1. CASE SeededMemory
    <3>1. pointer = Seed /\ archives = {1} /\ pointer.object = 1 /\ pointer.base = NoBase
      BY <2>1 DEF Init, Seed
    <3> QED BY <3>1 DEF ObjectsOf, GenerationObjects
  <2>2. CASE ~ SeededMemory
    BY <2>2 DEF Init, ObjectsOf
  <2> QED BY <2>1, <2>2
<1> QED BY <1>1 DEF Init, IdleRun, RestoreInv, PointerRestorable

\* Steps of the captures, of an operator and of time: the run and the bucket's archives
\* stay, and the status of the anchor keeps its generation or loses it.
LEMMA RestoreKept ==
    ASSUME RestoreInv, UNCHANGED <<archives, pointer, run>>,
           run.pc \in {"publish", "promote"} =>
              AnchorStatus'.staged \in {AnchorStatus.staged, NoGeneration}
    PROVE  RestoreInv'
BY DEF RestoreInv, PointerRestorable

\* Steps of a run that is not, or not any more, on its way to a promotion.
LEMMA RestoreLeft ==
    ASSUME RestoreInv, UNCHANGED <<archives, pointer>>,
           run'.pc \notin {"upload", "record", "publish", "promote"},
           run'.doomed = {} \/ run'.doomed = run.doomed
    PROVE  RestoreInv'
BY DEF RestoreInv, PointerRestorable

\* Deletions take nothing but doomed archives.
LEMMA RestoreDeletes ==
    ASSUME RestoreInv, NEW deleted \in SUBSET run.doomed,
           archives' = archives \ deleted, UNCHANGED pointer,
           run'.pc \notin {"upload", "record", "publish", "promote"},
           run'.doomed = {} \/ run'.doomed = run.doomed
    PROVE  RestoreInv'
BY DEF RestoreInv, PointerRestorable

LEMMA RestoreOutside ==
    ASSUME TypeInv, RestoreInv, CaptureNext \/ EnvironmentNext
    PROVE  RestoreInv'
<1> USE DEF bucketVars, b2Vars, captureVars
<1>1. CASE PublishStatus
  <2> DEFINE st == InitialStatus(raw[capture.job].captured \cup raw[capture.job].unchanged)
  <2>1. capture.job \in Jobs /\ status[capture.job] = NoStatus /\ raw[capture.job] \in Rows
    BY <1>1 DEF PublishStatus, TypeInv, TypeOK, CaptureInv
  <2>2. st \in StatusRecords
    BY <2>1, InitialStatusTyped DEF Rows
  <2>3. UploadStatus(capture.job, st)
    BY <1>1 DEF PublishStatus
  <2> HIDE DEF st
  <2>4. \A k \in Jobs \ {capture.job} : status'[k] = status[k]
    BY <2>1, <2>2, <2>3, UploadTypes DEF TypeInv
  <2>5. run.pc \in {"publish", "promote"} => AnchorStatus' = AnchorStatus
    BY <1>1, <2>1, <2>4, WorkflowAnchor
      DEF PublishStatus, AnchorStatus, WorkflowSteps, GenerationSteps
  <2> QED BY <1>1, <2>5, RestoreKept DEF PublishStatus
<1>2. CASE PublishRaw \/ Enqueue \/ SaveCaptureMemory \/ CaptureStops \/ PublishAgain
  BY <1>2, RestoreKept
    DEF PublishRaw, Enqueue, SaveCaptureMemory, CaptureStops, PublishAgain, AnchorStatus
<1>3. CASE EndDiscard
  <2>1. command.job \in Jobs /\ command.status \in StatusRecords
    BY <1>3 DEF EndDiscard, TypeInv, TypeOK, CommandInv
  <2>2. \A k \in Jobs : status'[k] = status[k] \/ status'[k].staged = NoGeneration
    BY <1>3, <2>1 DEF EndDiscard, TypeInv, TypeOK, StatusRecords
  <2>3. run.pc \in {"publish", "promote"} =>
          AnchorStatus'.staged \in {AnchorStatus.staged, NoGeneration}
    BY <1>3, <2>2, WorkflowAnchor DEF EndDiscard, AnchorStatus, WorkflowSteps, GenerationSteps
  <2> QED BY <1>3, <2>3, RestoreKept DEF EndDiscard
<1>4. CASE (\E j \in Jobs : BeginDiscard(j) \/ WindowPasses(j)) \/ Quieten
  BY <1>4, RestoreKept DEF BeginDiscard, WindowPasses, Quieten, AnchorStatus
<1> QED BY <1>1, <1>2, <1>3, <1>4 DEF CaptureNext, EnvironmentNext

LEMMA RestoreBuild ==
    ASSUME TypeInv, RestoreInv, Build
    PROVE  RestoreInv'
<1>1. PICK base \in BaseFor(pointer), object \in FreshArchives :
        \E result : run' = [run EXCEPT !.pc = "upload",
                                       !.generation = Planned(result, base, object)]
  BY DEF Build
<1>2. run'.pc = "upload" /\ run'.generation.base = base /\ run'.doomed = run.doomed
  BY <1>1 DEF TypeInv, TypeOK, RunRecords, Planned
<1>3. base \in archives \cup {NoBase}
  BY PlanTyped DEF RestoreInv, PointerRestorable
<1> QED BY <1>2, <1>3 DEF Build, bucketVars, RestoreInv, PointerRestorable

LEMMA RestorePublication ==
    ASSUME TypeInv, RestoreInv,
           Replay \/ UploadGeneration \/ RecordStaged \/ Publish \/ Promote
    PROVE  RestoreInv'
<1> USE DEF bucketVars
<1>0. run \in RunRecords
  BY DEF TypeInv, TypeOK
<1>1. CASE Replay
  <2>1. /\ run'.pc = "publish" /\ run'.generation = AnchorStatus.staged
        /\ run'.batch = AnchorStatus.staged.batch /\ run'.doomed = run.doomed
    BY <1>0, <1>1 DEF Replay, RunRecords
  <2>2. Anchor(AnchorStatus.staged.batch) = Anchor(run.batch)
    BY <1>1, WorkflowAnchor DEF Replay, WorkflowSteps, OwnStatus
  <2>3. AnchorStatus'.staged = run'.generation
    BY <1>1, <2>1, <2>2 DEF Replay, AnchorStatus
  <2> QED BY <1>1, <2>1, <2>3 DEF Replay, RestoreInv, PointerRestorable
<1>2. CASE UploadGeneration
  <2>1. run'.pc = "record" /\ run'.generation = run.generation /\ run'.doomed = run.doomed
    BY <1>0, <1>2 DEF UploadGeneration, RunRecords
  <2> QED BY <1>2, <2>1
        DEF UploadGeneration, RestoreInv, PointerRestorable, GenerationObjects
<1>3. CASE RecordStaged
  <2> DEFINE j  == Anchor(run.batch)
             st == [AnchorStatus EXCEPT !.staged = run.generation]
  <2>1. /\ run'.pc = "publish" /\ run'.generation = run.generation
        /\ run'.batch = run.batch /\ run'.doomed = run.doomed
    BY <1>0, <1>3 DEF RecordStaged, RunRecords
  <2>2. j \in Jobs /\ AnchorStatus \in StatusRecords /\ run.generation \in Generations
    BY <1>3, WorkflowAnchor, RunGeneration DEF RecordStaged, WorkflowSteps, GenerationSteps
  <2>3. st \in StatusRecords /\ st.staged = run.generation
    BY <2>2 DEF StatusRecords
  <2>4. UploadStatus(j, st)
    BY <1>3 DEF RecordStaged
  <2> HIDE DEF st
  <2>5. AnchorStatus'.staged = run.generation
    BY <2>1, <2>2, <2>3, <2>4, UploadTypes DEF AnchorStatus, TypeInv
  <2> QED BY <1>3, <2>1, <2>5 DEF RecordStaged, RestoreInv, PointerRestorable
<1>4. CASE Publish
  <2>1. /\ run'.generation = run.generation /\ run'.batch = run.batch
        /\ run'.doomed = run.doomed /\ run'.pc \in {"publish", "promote"}
    BY <1>0, <1>4 DEF Publish, RunRecords
  <2> QED BY <1>4, <2>1 DEF Publish, RestoreInv, PointerRestorable, AnchorStatus
<1>5. CASE Promote
  <2> DEFINE gen == AnchorStatus.staged
  <2>1. gen = run.generation /\ gen \in Generations
    BY <1>5, RunGeneration DEF Promote, RestoreInv, GenerationSteps
  <2> HIDE DEF gen
  <2>2. /\ run'.pc = "retire" /\ run'.doomed = Obsolete(pointer, gen)
        /\ pointer' = PointerTo(gen) /\ archives' = archives
    BY <1>0, <1>5 DEF Promote, RunRecords, gen
  <2>3. PointerTo(gen) \in Pointers
    BY <2>1 DEF PointerTo, Generations, Pointers
  <2>4. ObjectsOf(pointer') = GenerationObjects(gen)
    BY <2>2, <2>3, NoGenerationAssumption DEF ObjectsOf, GenerationObjects, PointerTo
  <2>5. GenerationObjects(gen) \subseteq archives
    BY <1>5, <2>1 DEF Promote, RestoreInv
  <2> QED BY <2>2, <2>4, <2>5 DEF RestoreInv, PointerRestorable, Obsolete
<1> QED BY <1>1, <1>2, <1>3, <1>4, <1>5

\* Where the steps that end, or may end, a run leave it.
LEMMA AfterMarkMarker ==
    ASSUME TypeInv, MarkMarker
    PROVE  run' = IdleRun \/ (run'.pc = "mark" /\ run'.doomed = run.doomed)
<1>1. CASE run.left = {}
  BY <1>1 DEF MarkMarker
<1>2. CASE run.left # {}
  <2>1. run \in RunRecords /\ run' = [run EXCEPT !.pc = "mark", !.step = 0]
    BY <1>2 DEF MarkMarker, TypeInv, TypeOK
  <2> QED BY <2>1 DEF RunRecords
<1> QED BY <1>1, <1>2

LEMMA AfterDefer ==
    ASSUME Defer
    PROVE  run'.pc \in {"idle", "deferMarker"} /\ run'.doomed = {}
<1>1. CASE AnchorStatus = NoStatus
  BY <1>1 DEF Defer, IdleRun
<1>2. CASE AnchorStatus # NoStatus
  BY <1>2 DEF Defer, IdleRun
<1> QED BY <1>1, <1>2

LEMMA AfterCleanPayload ==
    ASSUME TypeInv, CleanPayload
    PROVE  /\ run'.pc \in {"idle", "cleanStatus"}
           /\ run'.doomed = {} \/ run'.doomed = run.doomed
<1>1. CASE run.left = {}
  BY <1>1 DEF CleanPayload, IdleRun
<1>2. CASE run.left # {}
  <2>1. run \in RunRecords /\ run' = [run EXCEPT !.pc = "cleanStatus"]
    BY <1>2 DEF CleanPayload, TypeInv, TypeOK
  <2> QED BY <2>1 DEF RunRecords
<1> QED BY <1>1, <1>2

LEMMA RestoreRun ==
    ASSUME TypeInv, RestoreInv,
           \/ \E due \in SUBSET Partial : Select(due)
           \/ SelectFails \/ (\E j \in Jobs : SelectExactly(j))
           \/ Restore \/ RestoreFails \/ PublishFails \/ PromoteFails \/ Retire
           \/ MarkStatus \/ MarkFails \/ MarkMarker \/ Defer \/ DeferMarker
           \/ StepFails \/ RunStops
    PROVE  RestoreInv'
<1> USE DEF bucketVars
<1>0. run \in RunRecords
  BY DEF TypeInv, TypeOK
<1>1. CASE \/ \E due \in SUBSET Partial : Select(due)
           \/ SelectFails \/ (\E j \in Jobs : SelectExactly(j))
  <2>1. run'.pc \in {"restore", "defer"} /\ run'.doomed = {}
    BY <1>1 DEF Select, SelectFails, SelectExactly, StartProcess, IdleRun
  <2> QED BY <1>1, <2>1, RestoreLeft DEF Select, SelectFails, SelectExactly
<1>2. CASE Restore \/ RestoreFails \/ PublishFails \/ PromoteFails \/ MarkFails \/ MarkStatus
  <2>1. /\ run'.pc \in {"build", "defer", "unmark"}
        /\ run'.doomed = run.doomed
    BY <1>0, <1>2
      DEF Restore, RestoreFails, PublishFails, PromoteFails, MarkFails, MarkStatus, RunRecords
  <2> QED BY <1>2, <2>1, RestoreLeft
        DEF Restore, RestoreFails, PublishFails, PromoteFails, MarkFails, MarkStatus
<1>3. CASE MarkMarker \/ Defer \/ DeferMarker \/ RunStops
  <2>1. /\ run'.pc \in {"idle", "mark", "deferMarker"}
        /\ run'.doomed = {} \/ run'.doomed = run.doomed
    <3>1. CASE MarkMarker
      BY <3>1, AfterMarkMarker DEF IdleRun
    <3>2. CASE Defer
      BY <3>2, AfterDefer
    <3>3. CASE DeferMarker \/ RunStops
      BY <3>3 DEF DeferMarker, RunStops, IdleRun
    <3> QED BY <1>3, <3>1, <3>2, <3>3
  <2> QED BY <1>3, <2>1, RestoreLeft DEF MarkMarker, Defer, DeferMarker, RunStops
<1>4. CASE Retire
  <2>1. run'.pc = "mark" /\ run'.doomed = {}
    BY <1>0, <1>4 DEF Retire, RunRecords
  <2> QED BY <1>4, <2>1, RestoreDeletes DEF Retire
<1>5. CASE StepFails
  <2>1. run'.pc = "defer" /\ run'.doomed = run.doomed
    BY <1>0, <1>5 DEF StepFails, RunRecords
  <2> QED BY <1>5, <2>1, RestoreDeletes DEF StepFails
<1> QED BY <1>1, <1>2, <1>3, <1>4, <1>5

LEMMA RestoreCleanup ==
    ASSUME TypeInv, RestoreInv, CleanupNext
    PROVE  RestoreInv'
<1> USE DEF bucketVars
<1>0. run \in RunRecords
  BY DEF TypeInv, TypeOK
<1>1. CASE PlanCleanup
  <2>1. PICK expired \in SUBSET {j \in Jobs : MayExpire(j)},
             orphans \in SUBSET OrphanArchives(archives, status, pointer) :
          /\ run'.pc = "cleanPayload"
          /\ run'.doomed = orphans \cup ExpiredArchives(expired, status, pointer)
    BY <1>1 DEF PlanCleanup, IdleRun
  <2>2. run'.doomed \cap ObjectsOf(pointer) = {}
    BY <2>1 DEF OrphanArchives, ReferencedArchives, ExpiredArchives
  <2> QED BY <1>1, <2>1, <2>2 DEF PlanCleanup, RestoreInv, PointerRestorable
<1>2. CASE CleanPayload
  <2>1. /\ run'.pc \in {"idle", "cleanStatus"}
        /\ run'.doomed = {} \/ run'.doomed = run.doomed
    BY <1>2, AfterCleanPayload
  <2> QED BY <1>2, <2>1, RestoreDeletes DEF CleanPayload, DeletePayload
<1>3. CASE CleanPayloadFails
  <2>1. run'.pc = "idle" /\ run'.doomed = {}
    BY <1>3 DEF CleanPayloadFails, IdleRun
  <2> QED BY <1>3, <2>1, RestoreDeletes DEF CleanPayloadFails, DeletePayload
<1>4. CASE CleanStatus \/ CleanStatusFails
  <2>1. run'.pc = "idle" /\ run'.doomed = {}
    BY <1>4 DEF CleanStatus, CleanStatusFails, IdleRun
  <2> QED BY <1>4, <2>1, RestoreLeft DEF CleanStatus, CleanStatusFails, DeleteStatus
<1> QED BY <1>1, <1>2, <1>3, <1>4 DEF CleanupNext, CleanupStep

LEMMA NextRestoreInv == TypeInv /\ RestoreInv /\ [Next]_vars => RestoreInv'
<1> SUFFICES ASSUME TypeInv, RestoreInv, [Next]_vars PROVE RestoreInv'
  OBVIOUS
<1>1. CASE CaptureNext \/ EnvironmentNext
  BY <1>1, RestoreOutside
<1>2. CASE ProcessNext
  BY <1>2, RestoreBuild, RestorePublication, RestoreRun DEF ProcessNext, ProcessStep
<1>3. CASE CleanupNext
  BY <1>3, RestoreCleanup
<1>4. CASE UNCHANGED vars
  BY <1>4, RestoreKept DEF vars, bucketVars, AnchorStatus
<1> QED BY <1>1, <1>2, <1>3, <1>4 DEF Next

\* The committed Process memory can be restored in every reachable state: promote-process
\* and the retention cleanup never delete the archive process-memory.json names or the base
\* it is a delta of, whatever is interrupted, discarded or expired.
THEOREM PointerIsRestorable == Spec => []PointerRestorable
<1>1. RestoreInv => PointerRestorable
  BY DEF RestoreInv
<1> QED BY <1>1, InitRestoreInv, NextRestoreInv, TypeInvAlways, PTL DEF Spec

-----------------------------------------------------------------------------
(* The Delivery indexes.                                                   *)

\* From the second publication step on, the bodies of the generation are on B2.
BodiesInv ==
    /\ ListedBodiesExist
    /\ run.pc = "publish" /\ run.step # 1 => WrittenBodies \subseteq bodies

\* Steps that do not publish: they start no publication but at its first step.
LEMMA BodiesKept ==
    ASSUME BodiesInv, UNCHANGED <<bodies, index>>,
           run'.pc = "publish" /\ run'.step # 1 => UNCHANGED run
    PROVE  BodiesInv'
BY DEF BodiesInv, ListedBodiesExist, WrittenBodies

\* Listing what the generation of a publication step lists, for some of the articles.
LEMMA TargetHasBodies ==
    ASSUME TypeInv, BodiesInv, run.pc = "publish", run.step # 1,
           NEW a \in Articles, Target[a] \in Jobs
    PROVE  <<a, Target[a]>> \in bodies
<1> DEFINE result == run.generation.result
<1>1. CASE a \in result.superseded
  <2>1. Target[a] = Superseded
    BY <1>1 DEF Target, Apply
  <2> QED BY <2>1, GenerationAssumption DEF Superseded, Jobs
<1>2. CASE a \notin result.superseded /\ result.outcome[a] = "written"
  <2>1. Target[a] = result.version[a]
    BY <1>2 DEF Target, Apply
  <2> QED BY <1>2, <2>1 DEF BodiesInv, WrittenBodies
<1>3. CASE a \notin result.superseded /\ result.outcome[a] \in {"removed", "refused"}
  <2>1. Target[a] = Withdrawn
    BY <1>3 DEF Target, Apply
  <2> QED BY <2>1, GenerationAssumption DEF Withdrawn, Jobs
<1>4. CASE a \notin result.superseded /\ result.outcome[a] \notin {"written", "removed", "refused"}
  <2>1. Target[a] = index[TimelineDays][a]
    BY <1>4 DEF Target, Apply
  <2> QED BY <2>1 DEF BodiesInv, ListedBodiesExist, IndexSteps, TimelineDays
<1> QED BY <1>1, <1>2, <1>3, <1>4

LEMMA BodiesPublished ==
    ASSUME TypeInv, BodiesInv, Publish \/ PublishFails
    PROVE  BodiesInv'
<1>0. run \in RunRecords /\ run.pc = "publish"
  BY DEF TypeInv, TypeOK, Publish, PublishFails
<1>1. PICK copied \in SUBSET Articles :
        IF run.step = 1
        THEN /\ bodies \subseteq bodies' /\ UNCHANGED index
             /\ Publish => bodies' = bodies \cup WrittenBodies
        ELSE /\ UNCHANGED bodies
             /\ index' = [index EXCEPT ![run.step] =
                   [a \in Articles |-> IF a \in copied THEN Target[a] ELSE index[run.step][a]]]
  <2>1. CASE Publish
    <3>1. Target = [a \in Articles |-> IF a \in Articles THEN Target[a] ELSE index[run.step][a]]
      BY <1>0, TargetTyped
    <3> QED BY <2>1, <3>1 DEF Publish
  <2>2. CASE PublishFails
    BY <2>2 DEF PublishFails, Publish
  <2> QED BY <2>1, <2>2
<1>2. ListedBodiesExist'
  <2>1. CASE run.step = 1
    BY <1>1, <2>1 DEF BodiesInv, ListedBodiesExist
  <2>2. CASE run.step # 1
    <3>1. run.step \in IndexSteps /\ index \in [IndexSteps -> [Articles -> Versions]]
      BY <1>0, <2>2, TargetTyped DEF IndexSteps
    <3>2. ASSUME NEW k \in IndexSteps, NEW a \in Articles
          PROVE  index'[k][a] \in {index[k][a]} \cup {Target[a]}
      BY <1>1, <2>2, <3>1
    <3> QED BY <1>0, <1>1, <2>2, <3>2, TargetHasBodies DEF BodiesInv, ListedBodiesExist
  <2> QED BY <2>1, <2>2
<1>3. run'.pc = "publish" /\ run'.step # 1 => WrittenBodies' \subseteq bodies'
  <2>1. CASE PublishFails
    BY <1>0, <2>1 DEF PublishFails, RunRecords
  <2>2. CASE Publish
    <3>1. run'.generation = run.generation
      BY <1>0, <2>2 DEF Publish, RunRecords
    <3>2. WrittenBodies' = WrittenBodies
      BY <3>1 DEF WrittenBodies
    <3> QED BY <1>0, <1>1, <2>2, <3>2 DEF BodiesInv
  <2> QED BY <2>1, <2>2
<1> QED BY <1>2, <1>3 DEF BodiesInv

LEMMA NextBodiesInv == TypeInv /\ BodiesInv /\ [Next]_vars => BodiesInv'
<1> SUFFICES ASSUME TypeInv, BodiesInv, [Next]_vars PROVE BodiesInv'
  OBVIOUS
<1> USE DEF bucketVars, b2Vars, captureVars
<1>0. run \in RunRecords
  BY DEF TypeInv, TypeOK
<1>1. CASE CaptureNext \/ EnvironmentNext \/ UNCHANGED vars
  BY <1>1, BodiesKept
    DEF CaptureNext, PublishRaw, PublishStatus, Enqueue, SaveCaptureMemory, CaptureStops,
        PublishAgain, EnvironmentNext, BeginDiscard, EndDiscard, WindowPasses, Quieten, vars
<1>2. CASE ProcessNext
  <2>1. CASE \/ \E due \in SUBSET Partial : Select(due)
             \/ SelectFails \/ (\E j \in Jobs : SelectExactly(j))
    <3>1. run'.pc # "publish"
      BY <2>1 DEF Select, SelectFails, SelectExactly, StartProcess, IdleRun
    <3> QED BY <2>1, <3>1, BodiesKept DEF Select, SelectFails, SelectExactly
  <2>2. CASE Replay \/ RecordStaged
    <3>1. run'.step = 1
      BY <1>0, <2>2 DEF Replay, RecordStaged, RunRecords
    <3> QED BY <2>2, <3>1, BodiesKept DEF Replay, RecordStaged
  <2>3. CASE Publish \/ PublishFails
    BY <2>3, BodiesPublished
  <2>4. CASE Build \/ Restore \/ RestoreFails \/ UploadGeneration \/ Promote \/ PromoteFails
    <3>1. run'.pc # "publish"
      BY <1>0, <2>4
        DEF Build, Restore, RestoreFails, UploadGeneration, Promote, PromoteFails, RunRecords
    <3> QED BY <2>4, <3>1, BodiesKept
          DEF Build, Restore, RestoreFails, UploadGeneration, Promote, PromoteFails
  <2>5. CASE Retire \/ MarkStatus \/ MarkFails \/ MarkMarker \/ Defer \/ DeferMarker
    <3>1. run'.pc # "publish"
      <4>1. CASE MarkMarker
        BY <4>1, AfterMarkMarker DEF IdleRun
      <4>2. CASE Defer
        BY <4>2, AfterDefer
      <4>3. CASE DeferMarker
        BY <4>3 DEF DeferMarker, IdleRun
      <4>4. CASE Retire \/ MarkFails
        BY <1>0, <4>4 DEF Retire, MarkFails, RunRecords
      <4>5. CASE MarkStatus
        <5>1. run' = [run EXCEPT !.pc = "unmark", !.step = NextToMark,
                                 !.left = run.left \ {NextToMark}]
          BY <4>5 DEF MarkStatus
        <5> QED BY <1>0, <5>1 DEF RunRecords
      <4> QED BY <2>5, <4>1, <4>2, <4>3, <4>4, <4>5
    <3> QED BY <2>5, <3>1, BodiesKept
          DEF Retire, MarkStatus, MarkFails, MarkMarker, Defer, DeferMarker
  <2>6. CASE StepFails \/ RunStops
    <3>1. run'.pc # "publish"
      BY <1>0, <2>6 DEF StepFails, RunStops, RunRecords, IdleRun
    <3> QED BY <2>6, <3>1, BodiesKept DEF StepFails, RunStops
  <2> QED BY <1>2, <2>1, <2>2, <2>3, <2>4, <2>5, <2>6 DEF ProcessNext, ProcessStep
<1>3. CASE CleanupNext
  <2>1. run'.pc # "publish"
    <3>1. CASE CleanPayload
      BY <3>1, AfterCleanPayload
    <3>2. CASE CleanPayloadFails \/ CleanStatus \/ CleanStatusFails
      BY <3>2 DEF CleanPayloadFails, CleanStatus, CleanStatusFails, IdleRun
    <3>3. CASE PlanCleanup
      BY <3>3 DEF PlanCleanup, IdleRun
    <3> QED BY <1>3, <3>1, <3>2, <3>3 DEF CleanupNext, CleanupStep
  <2> QED BY <1>3, <2>1, BodiesKept
        DEF CleanupNext, CleanupStep, PlanCleanup, CleanPayload, CleanPayloadFails,
            CleanStatus, CleanStatusFails, DeletePayload, DeleteStatus
<1> QED BY <1>1, <1>2, <1>3 DEF Next

\* No Delivery index ever lists an article at a version whose body is not on B2: the bodies
\* are copied before the first index, in every publication, replay and retry.
THEOREM ListedBodiesAreThere == Spec => []ListedBodiesExist
<1>1. Init => BodiesInv
  BY DEF Init, IdleRun, BodiesInv, ListedBodiesExist, Jobs
<1>2. BodiesInv => ListedBodiesExist
  BY DEF BodiesInv
<1> QED BY <1>1, <1>2, NextBodiesInv, TypeInvAlways, PTL DEF Spec

-----------------------------------------------------------------------------
(* A pipeline without a Process memory.                                    *)

\* Without an operator, nothing is ever staged and no run gets past its restore step.
ClosedInv ==
    /\ pointer = NoGeneration /\ archives = {} /\ bodies = {}
    /\ run.pc \in {"idle", "restore", "defer", "deferMarker", "cleanPayload", "cleanStatus"}
    /\ run.bootstrap = FALSE
    /\ command = NoCommand
    /\ \A j \in Jobs : status[j] # NoStatus => status[j].staged = NoGeneration

LEMMA ClosedKept ==
    ASSUME ClosedInv, UNCHANGED <<pointer, bodies, command>>, archives' \subseteq archives,
           \/ UNCHANGED run
           \/ /\ run'.pc \in {"idle", "restore", "defer", "deferMarker", "cleanPayload", "cleanStatus"}
              /\ run'.bootstrap = FALSE,
           \A j \in Jobs : status'[j] # NoStatus /\ status'[j] # status[j] =>
                              status'[j].staged = NoGeneration
    PROVE  ClosedInv'
BY DEF ClosedInv

LEMMA ClosedUpload ==
    ASSUME TypeInv, NEW j \in Jobs, NEW st \in StatusRecords, UploadStatus(j, st),
           st.staged = NoGeneration
    PROVE  \A k \in Jobs : status'[k] # NoStatus /\ status'[k] # status[k] =>
                              status'[k].staged = NoGeneration
BY UploadTypes DEF TypeInv

LEMMA NextClosedInv ==
    ASSUME TypeInv, ClosedInv, "operator" \notin Events, [Next]_vars
    PROVE  ClosedInv'
<1> USE DEF bucketVars, b2Vars, captureVars
<1>0. run \in RunRecords
  BY DEF TypeInv, TypeOK
<1>1. CASE PublishStatus
  <2> DEFINE st == InitialStatus(raw[capture.job].captured \cup raw[capture.job].unchanged)
  <2>1. capture.job \in Jobs /\ raw[capture.job] \in Rows
    BY <1>1 DEF PublishStatus, TypeInv, TypeOK, CaptureInv
  <2>2. st \in StatusRecords /\ st.staged = NoGeneration
    BY <2>1, InitialStatusTyped DEF Rows
  <2>3. UploadStatus(capture.job, st)
    BY <1>1 DEF PublishStatus
  <2> HIDE DEF st
  <2> QED BY <1>1, <2>1, <2>2, <2>3, ClosedUpload, ClosedKept DEF PublishStatus
<1>2. CASE PublishRaw \/ Enqueue \/ SaveCaptureMemory \/ CaptureStops \/ PublishAgain
  BY <1>2, ClosedKept DEF PublishRaw, Enqueue, SaveCaptureMemory, CaptureStops, PublishAgain
<1>3. CASE EnvironmentNext
  BY <1>3, ClosedKept
    DEF EnvironmentNext, BeginDiscard, EndDiscard, WindowPasses, Quieten, May, ClosedInv
<1>4. CASE \E due \in SUBSET Partial : Select(due)
  <2>1. run'.pc = "restore" /\ run'.bootstrap = FALSE
    BY <1>4 DEF Select, StartProcess, IdleRun
  <2> QED BY <1>4, <2>1, ClosedKept DEF Select
<1>5. CASE SelectFails
  <2>1. run'.pc = "defer" /\ run'.bootstrap = FALSE
    BY <1>5 DEF SelectFails, IdleRun
  <2> QED BY <1>5, <2>1, ClosedKept DEF SelectFails
<1>6. CASE \E j \in Jobs : SelectExactly(j)
  BY <1>6 DEF SelectExactly, May
<1>7. CASE RestoreFails
  <2>1. run'.pc = "defer" /\ run'.bootstrap = run.bootstrap
    BY <1>0, <1>7 DEF RestoreFails, RunRecords
  <2> QED BY <1>7, <2>1, ClosedKept DEF RestoreFails, ClosedInv
<1>8. CASE Replay \/ Restore
  <2>1. AnchorStatus.staged = NoGeneration
    BY <1>8, WorkflowAnchor DEF Replay, Restore, WorkflowSteps, ClosedInv
  <2>2. ~ CanRestore
    BY DEF CanRestore, ClosedInv
  <2> QED BY <1>8, <2>1, <2>2 DEF Replay, Restore
<1>9. CASE \/ Build \/ UploadGeneration \/ RecordStaged \/ Publish \/ PublishFails \/ Promote
           \/ PromoteFails \/ Retire \/ MarkStatus \/ MarkFails \/ MarkMarker
  BY <1>9 DEF Build, UploadGeneration, RecordStaged, Publish, PublishFails, Promote,
              PromoteFails, Retire, MarkStatus, MarkFails, MarkMarker, ClosedInv
<1>10. CASE Defer
  <2> DEFINE j  == Anchor(run.batch)
             st == StatusAfterRuntimeFailure(AnchorStatus)
  <2>1. /\ j \in Jobs /\ AnchorStatus \in StatusRecords /\ AnchorStatus # NoStatus
        /\ AnchorStatus = status[j]
    BY <1>10, WorkflowAnchor DEF Defer, WorkflowSteps
  <2>2. st \in StatusRecords /\ st.staged = NoGeneration
    <3> HIDE DEF j
    <3> QED BY <2>1, DeferredStatusTyped DEF ClosedInv
  <2>3. UploadStatus(j, st) /\ run'.pc = "deferMarker" /\ run'.bootstrap = FALSE
    BY <1>10, <2>1 DEF Defer, IdleRun
  <2> HIDE DEF j, st
  <2> QED BY <1>10, <2>1, <2>2, <2>3, ClosedUpload, ClosedKept DEF Defer
<1>11. CASE StepFails
  <2>1. run'.pc = "defer" /\ run'.bootstrap = run.bootstrap
    BY <1>0, <1>11 DEF StepFails, RunRecords
  <2> QED BY <1>11, <2>1, ClosedKept DEF StepFails, ClosedInv
<1>12. CASE DeferMarker \/ RunStops
  <2>1. run'.pc = "idle" /\ run'.bootstrap = FALSE
    BY <1>12 DEF DeferMarker, RunStops, IdleRun
  <2> QED BY <1>12, <2>1, ClosedKept DEF DeferMarker, RunStops
<1>13. CASE PlanCleanup
  <2>1. run'.pc = "cleanPayload" /\ run'.bootstrap = FALSE
    BY <1>13 DEF PlanCleanup, IdleRun
  <2> QED BY <1>13, <2>1, ClosedKept DEF PlanCleanup
<1>14. CASE CleanPayload \/ CleanPayloadFails
  <2>1. /\ run'.pc \in {"idle", "cleanStatus"} /\ run'.bootstrap = FALSE
        /\ UNCHANGED <<status, pointer, bodies, command>> /\ archives' \subseteq archives
    <3>1. CASE CleanPayloadFails
      BY <3>1 DEF CleanPayloadFails, DeletePayload, IdleRun
    <3>2. CASE CleanPayload /\ run.left = {}
      BY <3>2 DEF CleanPayload, DeletePayload, IdleRun
    <3>3. CASE CleanPayload /\ run.left # {}
      <4>1. run' = [run EXCEPT !.pc = "cleanStatus"] /\ run.bootstrap = FALSE
        BY <3>3 DEF CleanPayload, ClosedInv
      <4>2. run'.pc = "cleanStatus" /\ run'.bootstrap = FALSE
        BY <1>0, <4>1 DEF RunRecords
      <4> QED BY <3>3, <4>2 DEF CleanPayload, DeletePayload
    <3> QED BY <1>14, <3>1, <3>2, <3>3
  <2> QED BY <2>1, ClosedKept
<1>15. CASE CleanStatus \/ CleanStatusFails
  <2>1. run'.pc = "idle" /\ run'.bootstrap = FALSE
    BY <1>15 DEF CleanStatus, CleanStatusFails, IdleRun
  <2> QED BY <1>15, <2>1, ClosedKept DEF CleanStatus, CleanStatusFails, DeleteStatus
<1>16. CASE UNCHANGED vars
  BY <1>16, ClosedKept DEF vars
<1> QED BY <1>1, <1>2, <1>3, <1>4, <1>5, <1>6, <1>7, <1>8, <1>9, <1>10, <1>11, <1>12, <1>13,
           <1>14, <1>15, <1>16
        DEF Next, CaptureNext, ProcessNext, ProcessStep, CleanupNext, CleanupStep

\* A pipeline that has lost its Process memory, or never had one, fails closed: without an
\* operator's bootstrap it stages, commits and publishes nothing.
THEOREM ColdStartIsRefused == Spec => []FailsClosed
<1>1. ASSUME ~ SeededMemory, "operator" \notin Events PROVE Spec => []ClosedInv
  <2>1. Init => ClosedInv
    BY <1>1 DEF Init, IdleRun, ClosedInv
  <2>2. TypeInv /\ ClosedInv /\ [Next]_vars => ClosedInv'
    BY <1>1, NextClosedInv
  <2> QED BY <2>1, <2>2, TypeInvAlways, PTL DEF Spec
<1>2. ClosedInv => FailsClosed
  BY DEF ClosedInv, FailsClosed
<1>3. SeededMemory \/ "operator" \in Events => FailsClosed
  BY DEF FailsClosed
<1>4. CASE ~ SeededMemory /\ "operator" \notin Events
  BY <1>1, <1>2, <1>4, PTL
<1>5. CASE SeededMemory \/ "operator" \in Events
  BY <1>3, <1>5, PTL
<1> QED BY <1>4, <1>5

=============================================================================
