----------------------- MODULE TimesTransactionProofs -----------------------
(***************************************************************************)
(* One transaction after the other.  As long as no operator discards a     *)
(* generation or bypasses the queue, and no outage outlasts the retention, *)
(* at most one generation is staged at a time, it is the committed memory  *)
(* plus its own result, and the next run is its replay.  From that follow  *)
(* the refinement of TimesDelivery, and that what the replay needs is      *)
(* kept.                                                                   *)
(***************************************************************************)
EXTENDS TimesRuntimeProofs

-----------------------------------------------------------------------------
(* What the steps that upload a status do to it.                           *)

LEMMA PublishedStatus ==
    ASSUME TypeInv, PublishStatus
    PROVE  \E j \in Jobs :
              /\ j = capture.job /\ raw[j] # NoRaw /\ status[j] = NoStatus
              /\ status'[j] = InitialStatus(Listed(j))
              /\ status'[j] # NoStatus
              /\ \A k \in Jobs \ {j} : status'[k] = status[k]
<1>1. capture.job \in Jobs /\ status[capture.job] = NoStatus /\ raw[capture.job] \in Rows
  BY DEF PublishStatus, TypeInv, TypeOK, CaptureInv
<1>2. InitialStatus(Listed(capture.job)) \in StatusRecords
  BY <1>1, InitialStatusTyped DEF Rows, Listed
<1>3. UploadStatus(capture.job, InitialStatus(Listed(capture.job)))
  BY DEF PublishStatus, Listed
<1>4. raw[capture.job] # NoRaw
  BY <1>1, AbsenceAssumption
<1> QED BY <1>1, <1>2, <1>3, <1>4, UploadTypes DEF TypeInv

LEMMA RecordedStatus ==
    ASSUME TypeInv, RecordStaged
    PROVE  LET j == Anchor(run.batch)
           IN  /\ j \in Jobs /\ status[j] # NoStatus /\ status'[j] # NoStatus
               /\ status[j] \in StatusRecords
               /\ status'[j] = [status[j] EXCEPT !.staged = run.generation]
               /\ status'[j].staged = run.generation
               /\ status'[j].state = status[j].state
               /\ \A k \in Jobs \ {j} : status'[k] = status[k]
               /\ run.generation \in Generations /\ run.generation # NoGeneration
               /\ run'.pc = "publish" /\ run'.step = 1
               /\ run'.generation = run.generation
               /\ run'.batch = run.batch /\ run'.doomed = run.doomed
<1> DEFINE j  == Anchor(run.batch)
           st == [AnchorStatus EXCEPT !.staged = run.generation]
<1>1. /\ j \in Jobs /\ AnchorStatus \in StatusRecords /\ AnchorStatus # NoStatus
      /\ AnchorStatus = status[j]
      /\ run.generation \in Generations /\ run.generation # NoGeneration
  BY WorkflowAnchor, RunGeneration DEF RecordStaged, WorkflowSteps, GenerationSteps
<1>2. st \in StatusRecords /\ st.staged = run.generation /\ st.state = AnchorStatus.state
  BY <1>1 DEF StatusRecords
<1>3. UploadStatus(j, st)
  BY DEF RecordStaged
<1>4. /\ run'.pc = "publish" /\ run'.step = 1 /\ run'.generation = run.generation
      /\ run'.batch = run.batch /\ run'.doomed = run.doomed
  BY DEF RecordStaged, TypeInv, TypeOK, RunRecords
<1>5. st = [status[j] EXCEPT !.staged = run.generation]
  BY <1>1
<1> HIDE DEF st
<1>6. status'[j] = st /\ status'[j] # NoStatus /\ \A k \in Jobs \ {j} : status'[k] = status[k]
  BY <1>1, <1>2, <1>3, UploadTypes DEF TypeInv
<1> QED BY <1>1, <1>2, <1>4, <1>5, <1>6

LEMMA MarkedStatus ==
    ASSUME TypeInv, MarkStatus
    PROVE  \E j \in Jobs :
              /\ j = NextToMark
              /\ status[j] \in StatusRecords /\ status[j] # NoStatus
              /\ \/ UNCHANGED status
                 \/ /\ status[j].state # "done"
                    /\ status'[j] = StatusAfterSuccessfulDelivery(
                                        status[j], run.generation.result.outcome)
                    /\ status'[j].staged = NoGeneration
              /\ \A k \in Jobs \ {j} : status'[k] = status[k]
              /\ run'.pc = "unmark" /\ run'.step = j
              /\ run'.generation = run.generation /\ run'.batch = run.batch
              /\ run'.doomed = run.doomed /\ run'.left \subseteq run.left
<1> DEFINE j  == NextToMark
           st == StatusAfterSuccessfulDelivery(status[j], run.generation.result.outcome)
<1>1. j \in Jobs
  BY NextToMarkIsMember DEF MarkStatus
<1>2. /\ status[j] # NoStatus /\ status[j] \in StatusRecords
      /\ run.generation.result.outcome \in [Articles -> Outcomes]
  BY <1>1, RunGeneration DEF MarkStatus, TypeInv, TypeOK, GenerationSteps, Results
<1>3. run' = [run EXCEPT !.pc = "unmark", !.step = j, !.left = run.left \ {j}]
  BY DEF MarkStatus
<1>4. \/ UploadStatus(j, st) /\ status[j].state # "done"
      \/ UNCHANGED status
  BY DEF MarkStatus, KeepStatus
<1>9. j = NextToMark
  OBVIOUS
<1> HIDE DEF j
<1>5. st \in StatusRecords /\ st.staged = NoGeneration
  BY <1>1, <1>2, DeliveredStatusTyped
<1>6. /\ run'.pc = "unmark" /\ run'.step = j
      /\ run'.generation = run.generation /\ run'.batch = run.batch
      /\ run'.doomed = run.doomed /\ run'.left \subseteq run.left
  BY <1>3 DEF TypeInv, TypeOK, RunRecords
<1> HIDE DEF st
<1>7. CASE UploadStatus(j, st) /\ status[j].state # "done"
  <2>1. status'[j] = st /\ \A k \in Jobs \ {j} : status'[k] = status[k]
    BY <1>1, <1>5, <1>7, UploadTypes DEF TypeInv
  <2> QED BY <1>1, <1>2, <1>5, <1>6, <1>7, <1>9, <2>1 DEF st
<1>8. CASE UNCHANGED status
  BY <1>1, <1>2, <1>6, <1>8, <1>9
<1> QED BY <1>4, <1>7, <1>8

LEMMA DeferredStatus ==
    ASSUME TypeInv, Defer
    PROVE  \E j \in Jobs :
              /\ status[j] \in StatusRecords /\ status[j] # NoStatus
              /\ status'[j] = StatusAfterRuntimeFailure(status[j])
              /\ status'[j] # NoStatus
              /\ status'[j].staged = status[j].staged
              /\ \A k \in Jobs \ {j} : status'[k] = status[k]
<1> DEFINE j  == Anchor(run.batch)
           st == StatusAfterRuntimeFailure(status[j])
<1>1. /\ j \in Jobs /\ AnchorStatus \in StatusRecords /\ AnchorStatus # NoStatus
      /\ AnchorStatus = status[j]
  BY WorkflowAnchor DEF Defer, WorkflowSteps
<1>2. st \in StatusRecords /\ st.staged = status[j].staged
  <2> HIDE DEF j
  <2> QED BY <1>1, DeferredStatusTyped
<1>3. UploadStatus(j, st)
  BY <1>1 DEF Defer
<1> HIDE DEF j
<1>4. status'[j] = st /\ status'[j] # NoStatus /\ \A k \in Jobs \ {j} : status'[k] = status[k]
  <2> HIDE DEF st
  <2> QED BY <1>1, <1>2, <1>3, UploadTypes DEF TypeInv
<1> QED BY <1>1, <1>2, <1>4

-----------------------------------------------------------------------------
(* At most one transaction is under way.                                   *)

\* What holds of the staged statuses, whoever works on them: there is one at most, its job
\* is not settled and is queued, and its generation is the committed memory plus its result,
\* before and after its promotion.
StagedInv ==
    /\ NoDiscard
    /\ \A j, k \in Staged : j = k
    /\ \A j \in Staged :
          /\ status[j].state # "done"
          /\ j \in marker
          /\ status[j].staged.memory = Apply(status[j].staged.result, Memory)

Planning == {"restore", "build", "upload", "record"}

\* What the run knows of them at each of its steps.
ProgressInv ==
    /\ run.pc = "restore" => Staged \subseteq {Anchor(run.batch)}
    /\ run.pc \in {"build", "upload", "record"} => Staged = {}
    /\ run.pc \in Planning => AnchorStatus.state # "done" /\ Anchor(run.batch) \in marker
    /\ run.pc \in {"upload", "record"} =>
          run.generation.memory = Apply(run.generation.result, Memory)
    /\ run.pc \in {"publish", "promote"} => AnchorStatus.staged = run.generation
    /\ run.pc \in {"retire", "mark", "unmark"} =>
          /\ pointer = PointerTo(run.generation)
          /\ \A j \in Staged : pointer = PointerTo(status[j].staged)
    /\ run.pc \in {"cleanPayload", "cleanStatus"} => run.left \cap Staged = {}

TransactionInv == StagedInv /\ ProgressInv

\* "operator" and "outage" are the events these results do without.
Undisturbed == "operator" \notin Events /\ "outage" \notin Events

LEMMA StagedMembers ==
    /\ Staged \subseteq Jobs
    /\ \A j \in Jobs : j \in Staged <=> status[j] # NoStatus /\ status[j].staged # NoGeneration
BY DEF Staged, StagedJobs, Statuses

LEMMA StagedMembersNext ==
    /\ Staged' \subseteq Jobs
    /\ \A j \in Jobs :
          j \in Staged' <=> status'[j] # NoStatus /\ status'[j].staged # NoGeneration
BY DEF Staged, StagedJobs, Statuses

\* Steps that stage and commit nothing.
StagesNothing ==
    /\ UNCHANGED <<pointer, command>>
    /\ \A j \in Staged' : /\ j \in Staged
                          /\ status'[j].staged = status[j].staged
                          /\ status'[j].state # "done"
                          /\ j \in marker'

LEMMA StagedInvKept ==
    ASSUME StagedInv, StagesNothing
    PROVE  StagedInv'
BY DEF StagedInv, StagesNothing, NoDiscard, Memory

\* Steps that keep the statuses there are, or upload some without a generation.
LEMMA StagesNothingIf ==
    ASSUME StagedInv, UNCHANGED <<pointer, command>>,
           \A j \in Jobs : \/ status'[j] \in {status[j], NoStatus}
                           \/ status'[j].staged = NoGeneration,
           Staged \subseteq marker'
    PROVE  StagesNothing /\ Staged' \subseteq Staged
BY StagedMembers, StagedMembersNext DEF StagedInv, StagesNothing

\* The run waits while somebody else works.
LEMMA ProgressInvKept ==
    ASSUME TypeInv, ProgressInv, StagesNothing, UNCHANGED run, marker \subseteq marker',
           \A j \in Jobs : status[j] # NoStatus => status'[j] = status[j]
    PROVE  ProgressInv'
<1>1. run.pc \in WorkflowSteps => AnchorStatus' = AnchorStatus
  BY WorkflowAnchor DEF AnchorStatus
<1>2. Staged' \subseteq Staged /\ pointer' = pointer /\ Memory' = Memory
  BY DEF StagesNothing, Memory
<1>3. \A j \in Staged' : status'[j].staged = status[j].staged
  BY DEF StagesNothing
<1>4. run' = run
  OBVIOUS
<1> QED BY <1>1, <1>2, <1>3, <1>4 DEF ProgressInv, Planning, WorkflowSteps, GenerationSteps

\* Nothing is asked of a run that has ended or failed.
LEMMA ProgressEnds ==
    ASSUME run'.pc \in {"idle", "defer", "deferMarker"}
    PROVE  ProgressInv'
BY DEF ProgressInv, Planning

LEMMA TransactionOutside ==
    ASSUME TypeInv, TransactionInv, Undisturbed,
           CaptureNext \/ EnvironmentNext \/ UNCHANGED vars
    PROVE  TransactionInv' /\ StagesNothing
<1> USE DEF bucketVars, b2Vars, captureVars
<1>1. /\ UNCHANGED <<pointer, command, run>> /\ marker \subseteq marker'
      /\ \A j \in Jobs : \/ status'[j] = status[j]
                         \/ status[j] = NoStatus /\ status'[j].staged = NoGeneration
  <2>1. CASE PublishStatus
    <3>1. UNCHANGED <<pointer, command, run, marker>>
      BY <2>1 DEF PublishStatus
    <3>2. PICK j \in Jobs : /\ status[j] = NoStatus /\ status'[j] = InitialStatus(Listed(j))
                            /\ \A k \in Jobs \ {j} : status'[k] = status[k]
      BY <2>1, PublishedStatus
    <3>3. status'[j].staged = NoGeneration
      BY <3>2 DEF InitialStatus
    <3> QED BY <3>1, <3>2, <3>3
  <2>2. CASE PublishRaw \/ Enqueue \/ SaveCaptureMemory \/ CaptureStops \/ PublishAgain
    BY <2>2 DEF PublishRaw, Enqueue, SaveCaptureMemory, CaptureStops, PublishAgain
  <2>3. CASE EnvironmentNext
    BY <2>3 DEF EnvironmentNext, BeginDiscard, EndDiscard, WindowPasses, Quieten, May,
                Undisturbed, TransactionInv, StagedInv, NoDiscard
  <2>4. CASE UNCHANGED vars
    BY <2>4 DEF vars
  <2> QED BY <2>1, <2>2, <2>3, <2>4 DEF CaptureNext
<1>2. Staged \subseteq marker'
  BY <1>1 DEF TransactionInv, StagedInv
<1>3. StagesNothing
  BY <1>1, <1>2, StagesNothingIf DEF TransactionInv
<1>4. StagedInv'
  BY <1>3, StagedInvKept DEF TransactionInv
<1>5. ProgressInv'
  BY <1>1, <1>3, ProgressInvKept DEF TransactionInv
<1> QED BY <1>3, <1>4, <1>5 DEF TransactionInv

\* Steps of the run that upload no status and move no pointer.
LEMMA StagesNothingInRun ==
    ASSUME StagedInv, UNCHANGED <<status, pointer, command>>,
           marker \subseteq marker' \/ (\E j \in Jobs : marker' = MarkerAfter(j))
    PROVE  StagesNothing /\ Staged' = Staged
<1>1. Staged \subseteq marker'
  BY DEF StagedInv, MarkerAfter
<1>2. Staged' = Staged
  BY StagedMembers, StagedMembersNext
<1> QED BY <1>1, <1>2, StagesNothingIf

LEMMA TransactionSelects ==
    ASSUME TypeInv, TransactionInv, Undisturbed,
           \/ \E due \in SUBSET Partial : Select(due)
           \/ SelectFails
           \/ \E j \in Jobs : SelectExactly(j)
    PROVE  TransactionInv' /\ StagesNothing
<1>1. ASSUME NEW due \in SUBSET Partial, Select(due)
      PROVE  TransactionInv' /\ StagesNothing
  <2>1. PICK batch \in Batches \ {<<>>} :
            /\ IsSelection(batch, status, updatedBefore, Active, due)
            /\ StartProcess(batch, FALSE)
    BY <1>1 DEF Select
  <2>2. StagesNothing /\ Staged' = Staged
    BY <1>1, StagesNothingInRun DEF Select, TransactionInv
  <2>3. run'.pc = "restore" /\ run'.batch = batch
    BY <2>1 DEF StartProcess, IdleRun
  <2>4. Anchor(batch) \in Active /\ Anchor(batch) \in Jobs
    BY <2>1, BatchMembers, SelectedAreActive
  <2>5. Staged \subseteq {Anchor(batch)}
    <3>1. Staged \subseteq StagedJobs(status, Active)
      BY DEF TransactionInv, StagedInv, Staged, StagedJobs, Statuses, Active, ActiveJobs
    <3>2. CASE StagedJobs(status, Active) = {}
      BY <3>1, <3>2
    <3>3. CASE StagedJobs(status, Active) # {}
      <4>1. PICK j \in StagedJobs(status, Active) :
                StagedJobs(status, Active) = {j} /\ batch = [i \in 1 .. 1 |-> j]
        BY <2>1, <3>3 DEF IsSelection
      <4>2. Anchor(batch) = j
        BY <4>1 DEF Anchor
      <4> QED BY <3>1, <4>1, <4>2
    <3> QED BY <3>2, <3>3
  <2>6. AnchorStatus'.state # "done" /\ Anchor(run'.batch) \in marker'
    BY <1>1, <2>3, <2>4 DEF Select, AnchorStatus, Active, ActiveJobs
  <2>7. ProgressInv'
    BY <2>2, <2>3, <2>5, <2>6 DEF ProgressInv, Planning
  <2> QED BY <2>2, <2>7, StagedInvKept DEF TransactionInv
<1>2. CASE SelectFails
  <2>1. StagesNothing
    BY <1>2, StagesNothingInRun DEF SelectFails, TransactionInv
  <2>2. run'.pc = "defer"
    BY <1>2 DEF SelectFails, IdleRun
  <2> QED BY <2>1, <2>2, StagedInvKept, ProgressEnds DEF TransactionInv
<1>3. CASE \E j \in Jobs : SelectExactly(j)
  BY <1>3 DEF SelectExactly, May, Undisturbed
<1> QED BY <1>1, <1>2, <1>3

LEMMA TransactionRestores ==
    ASSUME TypeInv, TransactionInv, Replay \/ Restore \/ UploadGeneration
    PROVE  TransactionInv' /\ StagesNothing
<1> USE DEF bucketVars
<1>0. run \in RunRecords
  BY DEF TypeInv, TypeOK
<1>1. StagesNothing /\ Staged' = Staged /\ Memory' = Memory /\ marker' = marker
  BY StagesNothingInRun DEF Replay, Restore, UploadGeneration, TransactionInv, Memory
<1>2. CASE Replay
  <2>1. /\ run'.pc = "publish" /\ run'.generation = AnchorStatus.staged
        /\ run'.batch = AnchorStatus.staged.batch
    BY <1>0, <1>2 DEF Replay, RunRecords
  <2>2. Anchor(AnchorStatus.staged.batch) = Anchor(run.batch)
    BY <1>2, WorkflowAnchor DEF Replay, WorkflowSteps, OwnStatus
  <2>3. AnchorStatus'.staged = run'.generation
    BY <1>2, <2>1, <2>2 DEF Replay, AnchorStatus
  <2>4. ProgressInv'
    BY <2>1, <2>3 DEF ProgressInv, Planning
  <2> QED BY <1>1, <2>4, StagedInvKept DEF TransactionInv
<1>3. CASE Restore
  <2>1. run'.pc = "build" /\ run'.batch = run.batch /\ UNCHANGED status
    BY <1>0, <1>3 DEF Restore, RunRecords
  <2>2. Staged = {}
    BY <1>3, StagedMembers DEF Restore, TransactionInv, ProgressInv, AnchorStatus
  <2>3. AnchorStatus' = AnchorStatus
    BY <2>1 DEF AnchorStatus
  <2>4. ProgressInv'
    BY <1>1, <1>3, <2>1, <2>2, <2>3 DEF Restore, ProgressInv, TransactionInv, Planning
  <2> QED BY <1>1, <2>4, StagedInvKept DEF TransactionInv
<1>4. CASE UploadGeneration
  <2>1. /\ run'.pc = "record" /\ run'.batch = run.batch /\ run'.generation = run.generation
        /\ UNCHANGED status
    BY <1>0, <1>4 DEF UploadGeneration, RunRecords
  <2>2. AnchorStatus' = AnchorStatus
    BY <2>1 DEF AnchorStatus
  <2>3. ProgressInv'
    BY <1>1, <1>4, <2>1, <2>2 DEF UploadGeneration, ProgressInv, TransactionInv, Planning
  <2> QED BY <1>1, <2>3, StagedInvKept DEF TransactionInv
<1> QED BY <1>2, <1>3, <1>4

LEMMA TransactionBuilds ==
    ASSUME TypeInv, TransactionInv, Build
    PROVE  TransactionInv' /\ StagesNothing
<1> USE DEF bucketVars
<1>1. StagesNothing /\ Staged' = Staged /\ Memory' = Memory /\ marker' = marker
  BY StagesNothingInRun DEF Build, TransactionInv, Memory
<1>2. PICK base \in BaseFor(pointer), object \in FreshArchives :
        \E result : run' = [run EXCEPT !.pc = "upload",
                                       !.generation = Planned(result, base, object)]
  BY DEF Build
<1>3. /\ run'.pc = "upload" /\ run'.batch = run.batch
      /\ run'.generation.memory = Apply(run'.generation.result, Memory)
  BY <1>2 DEF TypeInv, TypeOK, RunRecords, Planned
<1>4. AnchorStatus' = AnchorStatus
  BY <1>3 DEF Build, AnchorStatus
<1>5. ProgressInv'
  BY <1>1, <1>3, <1>4 DEF Build, TransactionInv, ProgressInv, Planning
<1> QED BY <1>1, <1>5, StagedInvKept DEF TransactionInv


\* Applying a result a second time changes nothing.
LEMMA ApplyTwice ==
    ASSUME NEW result, NEW view
    PROVE  Apply(result, Apply(result, view)) = Apply(result, view)
<1> DEFINE once  == Apply(result, view)
           twice == Apply(result, Apply(result, view))
<1>1. ASSUME NEW a \in Articles PROVE twice[a] = once[a]
  <2>1. CASE a \in result.superseded
    BY <2>1 DEF Apply
  <2>2. CASE a \notin result.superseded /\ result.outcome[a] = "written"
    BY <2>2 DEF Apply
  <2>3. CASE a \notin result.superseded /\ result.outcome[a] \in {"removed", "refused"}
    BY <2>3 DEF Apply
  <2>4. CASE a \notin result.superseded /\ result.outcome[a] \notin {"written", "removed", "refused"}
    BY <2>4 DEF Apply
  <2> QED BY <2>1, <2>2, <2>3, <2>4
<1>2. /\ once = [a \in Articles |-> once[a]]
      /\ twice = [a \in Articles |-> twice[a]]
  BY DEF Apply
<1> HIDE DEF once, twice
<1>3. once = twice
  BY <1>1, <1>2
<1> QED BY <1>3 DEF once, twice

LEMMA PointerToMemory ==
    ASSUME NEW gen \in Generations
    PROVE  /\ PointerTo(gen) \in Pointers
           /\ PointerTo(gen) # NoGeneration
           /\ PointerTo(gen).memory = gen.memory
<1>1. PointerTo(gen) \in Pointers
  BY DEF PointerTo, Generations, Pointers
<1> QED BY <1>1, NoGenerationAssumption DEF PointerTo

\* The committed memory moves from the one before the staged generation to its own.
LEMMA TransactionCommits ==
    ASSUME TypeInv, TransactionInv, Promote
    PROVE  /\ TransactionInv'
           /\ Staged' = Staged
           /\ UNCHANGED <<status, command>>
           /\ AnchorStatus.staged = run.generation
           /\ Anchor(run.batch) \in Staged
           /\ pointer' = PointerTo(run.generation)
           /\ Memory' = run.generation.memory
<1> DEFINE j   == Anchor(run.batch)
           gen == run.generation
<1>1. /\ run.pc = "promote" /\ AnchorStatus.staged = gen /\ AnchorStatus.staged # NoGeneration
      /\ UNCHANGED <<status, command, marker>>
  BY DEF Promote, TransactionInv, ProgressInv
<1>2. /\ j \in Jobs /\ AnchorStatus = status[j] /\ AnchorStatus # NoStatus
      /\ gen \in Generations
  BY <1>1, WorkflowAnchor, RunGeneration DEF WorkflowSteps, GenerationSteps
<1>3. j \in Staged /\ Staged = {j} /\ Staged' = Staged
  BY <1>1, <1>2, StagedMembers, StagedMembersNext DEF TransactionInv, StagedInv
<1>4. /\ run'.pc = "retire" /\ run'.batch = run.batch /\ run'.generation = gen
      /\ pointer' = PointerTo(gen)
  BY <1>1 DEF Promote, TypeInv, TypeOK, RunRecords
<1>5. Memory' = gen.memory
  BY <1>2, <1>4, PointerToMemory DEF Memory
<1>6. status[j].staged = gen /\ gen.memory = Apply(gen.result, Memory)
  BY <1>1, <1>2, <1>3 DEF TransactionInv, StagedInv
<1> HIDE DEF j, gen
<1>7. gen.memory = Apply(gen.result, Memory')
  BY <1>5, <1>6, ApplyTwice
<1>8. StagedInv'
  BY <1>1, <1>3, <1>6, <1>7 DEF TransactionInv, StagedInv, NoDiscard
<1>9. ProgressInv'
  BY <1>1, <1>3, <1>4, <1>6 DEF ProgressInv, Planning
<1> QED BY <1>1, <1>3, <1>4, <1>5, <1>8, <1>9 DEF TransactionInv, j, gen

LEMMA TransactionStages ==
    ASSUME TypeInv, TransactionInv, RecordStaged
    PROVE  /\ TransactionInv'
           /\ Staged = {} /\ Staged' = {Anchor(run.batch)}
           /\ status'[Anchor(run.batch)].staged = run.generation
           /\ UNCHANGED <<pointer, command>>
<1> DEFINE j   == Anchor(run.batch)
           gen == run.generation
<1>1. /\ run.pc = "record" /\ UNCHANGED <<pointer, command, marker>>
      /\ Staged = {} /\ AnchorStatus.state # "done" /\ j \in marker
      /\ gen.memory = Apply(gen.result, Memory)
  BY DEF RecordStaged, TransactionInv, ProgressInv, Planning
<1>2. /\ j \in Jobs /\ status'[j] # NoStatus
      /\ status'[j].staged = gen /\ status'[j].state = AnchorStatus.state
      /\ \A k \in Jobs \ {j} : status'[k] = status[k]
      /\ gen # NoGeneration
      /\ run'.pc = "publish" /\ run'.generation = gen /\ run'.batch = run.batch
  BY RecordedStatus DEF AnchorStatus
<1>3. Staged' = {j}
  BY <1>1, <1>2, StagedMembers, StagedMembersNext
<1>4. Memory' = Memory /\ AnchorStatus' = status'[j]
  BY <1>1, <1>2 DEF Memory, AnchorStatus
<1> HIDE DEF j, gen
<1>5. StagedInv'
  BY <1>1, <1>2, <1>3, <1>4 DEF TransactionInv, StagedInv, NoDiscard
<1>6. ProgressInv'
  BY <1>2, <1>4 DEF ProgressInv, Planning, gen
<1> QED BY <1>1, <1>2, <1>3, <1>5, <1>6 DEF TransactionInv, j, gen

LEMMA TransactionPublishes ==
    ASSUME TypeInv, TransactionInv, Publish
    PROVE  TransactionInv' /\ StagesNothing /\ Staged' = Staged
<1> USE DEF bucketVars
<1>1. StagesNothing /\ Staged' = Staged /\ UNCHANGED status
  BY StagesNothingInRun DEF Publish, TransactionInv
<1>2. /\ run'.pc \in {"publish", "promote"} /\ run'.generation = run.generation
      /\ run'.batch = run.batch
  BY DEF Publish, TypeInv, TypeOK, RunRecords
<1>3. AnchorStatus' = AnchorStatus
  BY <1>1, <1>2 DEF AnchorStatus
<1>4. ProgressInv'
  BY <1>2, <1>3 DEF Publish, TransactionInv, ProgressInv, Planning
<1> QED BY <1>1, <1>4, StagedInvKept DEF TransactionInv

LEMMA TransactionSettles ==
    ASSUME TypeInv, TransactionInv, Retire \/ MarkStatus \/ MarkMarker
    PROVE  /\ TransactionInv' /\ StagesNothing
           /\ Staged' \subseteq Staged
           /\ \A j \in Staged : pointer = PointerTo(status[j].staged)
<1>0. run \in RunRecords /\ run.pc \in {"retire", "mark", "unmark"}
  BY DEF TypeInv, TypeOK, Retire, MarkStatus, MarkMarker
<1>1. /\ pointer = PointerTo(run.generation)
      /\ \A j \in Staged : pointer = PointerTo(status[j].staged)
  BY <1>0 DEF TransactionInv, ProgressInv
<1>2. StagesNothing /\ Staged' \subseteq Staged
  <2>1. CASE Retire
    BY <2>1, StagesNothingInRun DEF Retire, TransactionInv
  <2>2. CASE MarkMarker
    <3>1. run.step \in Jobs
      BY <2>2 DEF MarkMarker, TypeInv, RunInv
    <3> QED BY <2>2, <3>1, StagesNothingInRun DEF MarkMarker, TransactionInv
  <2>3. CASE MarkStatus
    <3>1. UNCHANGED <<pointer, command, marker>>
      BY <2>3 DEF MarkStatus
    <3>2. \A j \in Jobs : status'[j] = status[j] \/ status'[j].staged = NoGeneration
      BY <2>3, MarkedStatus
    <3> QED BY <3>1, <3>2, StagesNothingIf DEF TransactionInv, StagedInv
  <2> QED BY <2>1, <2>2, <2>3
<1>3. \/ run'.pc \in {"mark", "unmark"} /\ run'.generation = run.generation
      \/ run'.pc = "idle"
  <2>1. CASE Retire
    BY <1>0, <2>1 DEF Retire, RunRecords
  <2>2. CASE MarkMarker
    <3>1. CASE run.left = {}
      BY <2>2, <3>1 DEF MarkMarker, IdleRun
    <3>2. CASE run.left # {}
      <4>1. run' = [run EXCEPT !.pc = "mark", !.step = 0]
        BY <2>2, <3>2 DEF MarkMarker
      <4> QED BY <1>0, <4>1 DEF RunRecords
    <3> QED BY <3>1, <3>2
  <2>3. CASE MarkStatus
    BY <2>3, MarkedStatus
  <2> QED BY <2>1, <2>2, <2>3
<1>4. \A j \in Staged' : j \in Staged /\ status'[j].staged = status[j].staged
  BY <1>2 DEF StagesNothing
<1>5. pointer' = pointer
  BY <1>2 DEF StagesNothing
<1>6. ProgressInv'
  BY <1>1, <1>3, <1>4, <1>5 DEF ProgressInv, Planning
<1> QED BY <1>1, <1>2, <1>6, StagedInvKept DEF TransactionInv


LEMMA TransactionEnds ==
    ASSUME TypeInv, TransactionInv,
           \/ RestoreFails \/ PublishFails \/ PromoteFails \/ MarkFails
           \/ Defer \/ DeferMarker \/ StepFails \/ RunStops
    PROVE  TransactionInv' /\ StagesNothing
<1> USE DEF bucketVars
<1>0. run \in RunRecords
  BY DEF TypeInv, TypeOK
<1>1. CASE Defer
  <2>1. UNCHANGED <<pointer, command, marker>> /\ run'.pc \in {"idle", "deferMarker"}
    BY <1>1, AfterDefer DEF Defer
  <2>2. PICK j \in Jobs :
            /\ status[j] \in StatusRecords /\ status[j] # NoStatus
            /\ status'[j] = StatusAfterRuntimeFailure(status[j])
            /\ status'[j].staged = status[j].staged
            /\ \A k \in Jobs \ {j} : status'[k] = status[k]
    BY <1>1, DeferredStatus
  <2>3. j \in Staged => status'[j].state # "done"
    <3>1. SUFFICES ASSUME j \in Staged PROVE status'[j].state # "done"
      OBVIOUS
    <3>2. status[j].state # "done" /\ status[j].staged # NoGeneration
      BY <3>1, StagedMembers DEF TransactionInv, StagedInv
    <3>3. status'[j].state = "ready"
      BY <2>2, <3>2 DEF StatusAfterRuntimeFailure, StatusRecords
    <3> QED BY <3>3
  <2>4. StagesNothing
    BY <2>1, <2>2, <2>3, StagedMembers, StagedMembersNext
      DEF StagesNothing, TransactionInv, StagedInv
  <2> QED BY <2>1, <2>4, StagedInvKept, ProgressEnds DEF TransactionInv
<1>2. CASE DeferMarker
  <2>1. Anchor(run.batch) \in Jobs
    BY <1>2, WorkflowAnchor DEF DeferMarker, WorkflowSteps
  <2>2. StagesNothing
    BY <1>2, <2>1, StagesNothingInRun DEF DeferMarker, TransactionInv
  <2>3. run'.pc = "idle"
    BY <1>2 DEF DeferMarker, IdleRun
  <2> QED BY <2>2, <2>3, StagedInvKept, ProgressEnds DEF TransactionInv
<1>3. CASE RestoreFails \/ PublishFails \/ PromoteFails \/ MarkFails \/ StepFails \/ RunStops
  <2>1. StagesNothing
    BY <1>3, StagesNothingInRun
      DEF RestoreFails, PublishFails, PromoteFails, MarkFails, StepFails, RunStops, TransactionInv
  <2>2. run'.pc \in {"idle", "defer"}
    BY <1>0, <1>3
      DEF RestoreFails, PublishFails, PromoteFails, MarkFails, StepFails, RunStops, IdleRun,
          RunRecords
  <2> QED BY <2>1, <2>2, StagedInvKept, ProgressEnds DEF TransactionInv
<1> QED BY <1>1, <1>2, <1>3

\* The cleanup finds settled jobs only, and a staged job is not settled.
LEMMA TransactionCleans ==
    ASSUME TypeInv, TransactionInv, Undisturbed, CleanupNext
    PROVE  TransactionInv' /\ StagesNothing
<1> USE DEF bucketVars
<1>0. run \in RunRecords
  BY DEF TypeInv, TypeOK
<1>1. CASE PlanCleanup
  <2>1. StagesNothing /\ Staged' = Staged
    BY <1>1, StagesNothingInRun DEF PlanCleanup, TransactionInv
  <2>2. run'.pc = "cleanPayload" /\ run'.left \subseteq {j \in Jobs : MayExpire(j)}
    BY <1>1 DEF PlanCleanup, IdleRun
  <2>3. run'.left \cap Staged' = {}
    BY <2>1, <2>2 DEF MayExpire, May, Undisturbed, TransactionInv, StagedInv
  <2>4. ProgressInv'
    BY <2>2, <2>3 DEF ProgressInv, Planning
  <2> QED BY <2>1, <2>4, StagedInvKept DEF TransactionInv
<1>2. CASE CleanPayload \/ CleanPayloadFails
  <2>1. /\ UNCHANGED <<status, pointer, command>>
        /\ marker \ run.left \subseteq marker'
        /\ run.left \cap Staged = {}
    BY <1>2 DEF CleanPayload, CleanPayloadFails, DeletePayload, TransactionInv, ProgressInv
  <2>2. Staged \subseteq marker'
    BY <2>1 DEF TransactionInv, StagedInv
  <2>3. StagesNothing /\ Staged' \subseteq Staged
    BY <2>1, <2>2, StagesNothingIf DEF TransactionInv
  <2>4. run'.pc = "idle" \/ (run'.pc = "cleanStatus" /\ run'.left = run.left)
    <3>1. CASE CleanPayload /\ run.left # {}
      <4>1. run' = [run EXCEPT !.pc = "cleanStatus"]
        BY <3>1 DEF CleanPayload
      <4> QED BY <1>0, <4>1 DEF RunRecords
    <3>2. CASE (CleanPayload /\ run.left = {}) \/ CleanPayloadFails
      BY <3>2 DEF CleanPayload, CleanPayloadFails, IdleRun
    <3> QED BY <1>2, <3>1, <3>2
  <2>5. ProgressInv'
    BY <2>1, <2>3, <2>4 DEF ProgressInv, Planning
  <2> QED BY <2>3, <2>5, StagedInvKept DEF TransactionInv
<1>3. CASE CleanStatus \/ CleanStatusFails
  <2>1. /\ UNCHANGED <<pointer, command, marker>>
        /\ \A j \in Jobs : status'[j] \in {status[j], NoStatus}
        /\ run'.pc = "idle"
    BY <1>3 DEF CleanStatus, CleanStatusFails, DeleteStatus, IdleRun
  <2>2. StagesNothing
    BY <2>1, StagesNothingIf DEF TransactionInv, StagedInv
  <2> QED BY <2>1, <2>2, StagedInvKept, ProgressEnds DEF TransactionInv
<1> QED BY <1>1, <1>2, <1>3 DEF CleanupNext, CleanupStep

\* Only RecordStaged stages a generation and only Promote commits one.
LEMMA NextTransactionInv ==
    ASSUME TypeInv, TransactionInv, Undisturbed, [Next]_vars
    PROVE  /\ TransactionInv'
           /\ StagesNothing \/ RecordStaged \/ Promote
BY TransactionOutside, TransactionSelects, TransactionRestores, TransactionBuilds,
   TransactionStages, TransactionPublishes, TransactionCommits, TransactionSettles,
   TransactionEnds, TransactionCleans
   DEF Next, ProcessNext, ProcessStep

LEMMA InitTransactionInv == Init => TransactionInv
BY DEF Init, IdleRun, TransactionInv, StagedInv, ProgressInv, NoDiscard, Planning, Staged,
       StagedJobs, Statuses

LEMMA TransactionInvAlways ==
    ASSUME Undisturbed
    PROVE  Spec => [](TypeInv /\ TransactionInv)
<1>1. TypeInv /\ TransactionInv /\ [Next]_vars => TransactionInv'
  BY NextTransactionInv
<1> QED BY <1>1, InitTransactionInv, TypeInvAlways, PTL DEF Spec

\* process-memory.json only ever moves to the one generation that is staged: no later job,
\* retry, failure or cleanup commits past a transaction whose replay is owed.
THEOREM PointerWaitsForStaged ==
    ASSUME "operator" \notin Events, "outage" \notin Events
    PROVE  Spec => PointerNeverPassesStaged
<1>1. Undisturbed
  BY DEF Undisturbed
<1>2. ASSUME TypeInv, TransactionInv, [Next]_vars
      PROVE  pointer' # pointer => \A j \in Staged : pointer' = PointerTo(status[j].staged)
  <2>1. CASE StagesNothing
    BY <2>1 DEF StagesNothing
  <2>2. CASE RecordStaged
    BY <2>2 DEF RecordStaged
  <2>3. CASE Promote
    <3>1. /\ Anchor(run.batch) \in Staged /\ AnchorStatus.staged = run.generation
          /\ pointer' = PointerTo(run.generation)
      BY <1>2, <2>3, TransactionCommits
    <3> QED BY <1>2, <3>1 DEF TransactionInv, StagedInv, AnchorStatus
  <2> QED BY <1>1, <1>2, <2>1, <2>2, <2>3, NextTransactionInv
<1>3. TypeInv /\ TransactionInv /\ [Next]_vars =>
        [pointer' # pointer => \A j \in Staged : pointer' = PointerTo(status[j].staged)]_vars
  BY <1>2
<1> QED BY <1>1, <1>3, TransactionInvAlways, PTL DEF Spec, PointerNeverPassesStaged


-----------------------------------------------------------------------------
(* The Delivery indexes between two commits.                               *)

\* A staged generation is forgotten by the runs that settle its jobs, and by nothing else.
LEMMA NextForgets ==
    ASSUME TypeInv, TransactionInv, Undisturbed, [Next]_vars
    PROVE  \/ Staged \subseteq Staged'
           \/ Retire \/ MarkStatus \/ MarkMarker
<1> USE DEF bucketVars, b2Vars, captureVars
<1>1. ASSUME \A j \in Staged : status'[j] # NoStatus /\ status'[j].staged = status[j].staged
      PROVE  Staged \subseteq Staged'
  BY <1>1, StagedMembers, StagedMembersNext
<1>2. CASE CaptureNext
  <2>1. CASE PublishStatus
    BY <1>1, <2>1, PublishedStatus, StagedMembers
  <2>2. CASE PublishRaw \/ Enqueue \/ SaveCaptureMemory \/ CaptureStops \/ PublishAgain
    BY <1>1, <2>2, StagedMembers
      DEF PublishRaw, Enqueue, SaveCaptureMemory, CaptureStops, PublishAgain
  <2> QED BY <1>2, <2>1, <2>2 DEF CaptureNext
<1>3. CASE EnvironmentNext \/ UNCHANGED vars
  BY <1>1, <1>3, StagedMembers
    DEF EnvironmentNext, BeginDiscard, EndDiscard, WindowPasses, Quieten, May, Undisturbed,
        TransactionInv, StagedInv, NoDiscard, vars
<1>4. CASE ProcessNext
  <2>1. CASE RecordStaged
    BY <2>1, TransactionStages
  <2>2. CASE Defer
    BY <1>1, <2>2, DeferredStatus, AbsenceAssumption, StagedMembers, DeferredStatusTyped
  <2>3. CASE \/ \E due \in SUBSET Partial : Select(due)
             \/ SelectFails \/ (\E j \in Jobs : SelectExactly(j)) \/ Replay
             \/ Restore \/ RestoreFails \/ Build \/ UploadGeneration \/ Publish \/ PublishFails
    BY <1>1, <2>3, StagedMembers
      DEF Select, SelectFails, SelectExactly, Replay, Restore, RestoreFails, Build,
          UploadGeneration, Publish, PublishFails
  <2>4. CASE Promote \/ PromoteFails \/ MarkFails \/ DeferMarker \/ StepFails \/ RunStops
    BY <1>1, <2>4, StagedMembers
      DEF Promote, PromoteFails, MarkFails, DeferMarker, StepFails, RunStops
  <2> QED BY <1>4, <2>1, <2>2, <2>3, <2>4 DEF ProcessNext, ProcessStep
<1>5. CASE CleanupNext
  <2>1. CASE PlanCleanup \/ CleanPayload \/ CleanPayloadFails
    BY <1>1, <2>1, StagedMembers
      DEF PlanCleanup, CleanPayload, CleanPayloadFails, DeletePayload
  <2>2. CASE CleanStatus \/ CleanStatusFails
    <3>1. run.left \cap Staged = {}
      BY <2>2 DEF CleanStatus, CleanStatusFails, TransactionInv, ProgressInv
    <3>2. \A j \in Jobs \ run.left : status'[j] = status[j]
      BY <2>2 DEF CleanStatus, CleanStatusFails, DeleteStatus
    <3> QED BY <1>1, <3>1, <3>2, StagedMembers
  <2> QED BY <1>5, <2>1, <2>2 DEF CleanupNext, CleanupStep
<1> QED BY <1>2, <1>3, <1>4, <1>5 DEF Next

\* How a step can leave the run inside a publication.
LEMMA NextPublication ==
    ASSUME TypeInv, [Next]_vars
    PROVE  \/ Publish \/ PublishFails
           \/ /\ UNCHANGED index
              /\ \/ UNCHANGED run
                 \/ run'.pc = "publish" /\ run'.step = 1
                 \/ run'.pc \notin {"publish", "promote"}
<1> USE DEF bucketVars, b2Vars, captureVars
<1>0. run \in RunRecords
  BY DEF TypeInv, TypeOK
<1>1. CASE CaptureNext \/ EnvironmentNext \/ UNCHANGED vars
  BY <1>1
    DEF CaptureNext, PublishRaw, PublishStatus, Enqueue, SaveCaptureMemory, CaptureStops,
        PublishAgain, EnvironmentNext, BeginDiscard, EndDiscard, WindowPasses, Quieten, vars
<1>2. CASE ProcessNext
  <2>1. CASE \/ \E due \in SUBSET Partial : Select(due)
             \/ SelectFails \/ (\E j \in Jobs : SelectExactly(j))
    BY <2>1 DEF Select, SelectFails, SelectExactly, StartProcess, IdleRun
  <2>2. CASE Replay
    BY <1>0, <2>2 DEF Replay, RunRecords
  <2>3. CASE RecordStaged
    BY <2>3, RecordedStatus DEF RecordStaged
  <2>4. CASE Build \/ Restore \/ RestoreFails \/ UploadGeneration \/ Promote \/ PromoteFails
    BY <1>0, <2>4
      DEF Build, Restore, RestoreFails, UploadGeneration, Promote, PromoteFails, RunRecords
  <2>5. CASE MarkMarker
    BY <2>5, AfterMarkMarker DEF MarkMarker, IdleRun
  <2>6. CASE Defer
    BY <2>6, AfterDefer DEF Defer
  <2>7. CASE Retire \/ MarkFails \/ DeferMarker
    <3>1. run'.pc \in {"mark", "defer", "idle"}
      <4>1. CASE Retire \/ MarkFails
        BY <1>0, <4>1 DEF Retire, MarkFails, RunRecords
      <4>2. CASE DeferMarker
        BY <4>2 DEF DeferMarker, IdleRun
      <4> QED BY <2>7, <4>1, <4>2
    <3> QED BY <2>7, <3>1 DEF Retire, MarkFails, DeferMarker
  <2>8. CASE MarkStatus
    BY <2>8, MarkedStatus DEF MarkStatus
  <2>9. CASE StepFails \/ RunStops
    BY <1>0, <2>9 DEF StepFails, RunStops, RunRecords, IdleRun
  <2> QED BY <1>2, <2>1, <2>2, <2>3, <2>4, <2>5, <2>6, <2>7, <2>8, <2>9
          DEF ProcessNext, ProcessStep
<1>3. CASE CleanupNext
  <2>1. CASE CleanPayload
    BY <2>1, AfterCleanPayload DEF CleanPayload, DeletePayload
  <2>2. CASE CleanPayloadFails \/ CleanStatus \/ CleanStatusFails
    BY <2>2 DEF CleanPayloadFails, CleanStatus, CleanStatusFails, DeletePayload, DeleteStatus,
                IdleRun
  <2>3. CASE PlanCleanup
    BY <2>3 DEF PlanCleanup, IdleRun
  <2> QED BY <1>3, <2>1, <2>2, <2>3 DEF CleanupNext, CleanupStep
<1> QED BY <1>1, <1>2, <1>3 DEF Next

\* Between the commits, and in a publication everything before its step has been shown.
IndexInv ==
    /\ DeliveryBetweenCommits
    /\ run.pc = "publish" =>
          \A k \in IndexSteps : k < run.step => index[k] = run.generation.memory
    /\ run.pc = "promote" => \A k \in IndexSteps : index[k] = run.generation.memory

LEMMA StoriesOfArticles ==
    ASSUME NEW a \in Articles
    PROVE  Aliases(a) \in Stories /\ a \in Aliases(a) /\ Aliases(a) \subseteq Articles
BY DEF Aliases, Stories

\* What a publication step lists is the staged memory, whatever was listed before.
LEMMA TargetIsStaged ==
    ASSUME TypeInv, TransactionInv, IndexInv, run.pc = "publish"
    PROVE  /\ Staged = {Anchor(run.batch)}
           /\ status[Anchor(run.batch)].staged = run.generation
           /\ run.generation \in Generations
           /\ Target = run.generation.memory
<1> DEFINE j   == Anchor(run.batch)
           gen == run.generation
<1>1. /\ j \in Jobs /\ status[j] # NoStatus /\ status[j].staged = gen
      /\ gen \in Generations /\ gen # NoGeneration
  BY WorkflowAnchor, RunGeneration DEF WorkflowSteps, GenerationSteps, AnchorStatus,
                                       TransactionInv, ProgressInv
<1>2. Staged = {j}
  BY <1>1, StagedMembers DEF TransactionInv, StagedInv
<1>3. gen.memory = Apply(gen.result, Memory)
  BY <1>1, <1>2 DEF TransactionInv, StagedInv
<1>4. \A a \in Articles : index[TimelineDays][a] \in {gen.memory[a], Memory[a]}
  <2>1. TimelineDays \in IndexSteps
    BY DEF TimelineDays, IndexSteps
  <2>2. ASSUME NEW a \in Articles
        PROVE  \E cut \in 1 .. 4 : \A k \in IndexSteps :
                  index[k][a] = IF k <= cut THEN gen.memory[a] ELSE Memory[a]
    <3> HIDE DEF j, gen
    <3> QED BY <1>1, <1>2, StoriesOfArticles DEF IndexInv, DeliveryBetweenCommits
  <2> QED BY <2>1, <2>2
<1>5. Target \in [Articles -> Versions] /\ gen.memory \in [Articles -> Versions]
  BY <1>1, TargetTyped DEF Generations
<1>6. ASSUME NEW a \in Articles PROVE Target[a] = gen.memory[a]
  <2>1. CASE a \in gen.result.superseded
    BY <1>3, <2>1 DEF Target, Apply
  <2>2. CASE a \notin gen.result.superseded /\ gen.result.outcome[a] = "written"
    BY <1>3, <2>2 DEF Target, Apply
  <2>3. CASE a \notin gen.result.superseded /\ gen.result.outcome[a] \in {"removed", "refused"}
    BY <1>3, <2>3 DEF Target, Apply
  <2>4. CASE /\ a \notin gen.result.superseded
             /\ gen.result.outcome[a] \notin {"written", "removed", "refused"}
    <3>1. Target[a] = index[TimelineDays][a]
      BY <2>4 DEF Target, Apply
    <3>2. gen.memory[a] = Memory[a]
      BY <1>3, <2>4 DEF Apply
    <3> QED BY <1>4, <3>1, <3>2
  <2> QED BY <2>1, <2>2, <2>3, <2>4
<1>7. Target = gen.memory
  BY <1>5, <1>6
<1> QED BY <1>1, <1>2, <1>7


\* Steps outside of the publications.
LEMMA IndexKept ==
    ASSUME IndexInv, StagesNothing, Staged' = Staged, UNCHANGED index,
           \/ UNCHANGED run
           \/ run'.pc = "publish" /\ run'.step = 1
           \/ run'.pc \notin {"publish", "promote"}
    PROVE  IndexInv'
<1>1. DeliveryBetweenCommits'
  <2>1. Memory' = Memory /\ \A j \in Staged : status'[j].staged = status[j].staged
    BY DEF StagesNothing, Memory
  <2> QED BY <2>1 DEF IndexInv, DeliveryBetweenCommits
<1>2. run'.pc = "publish" =>
        \A k \in IndexSteps : k < run'.step => index'[k] = run'.generation.memory
  <2>1. CASE run'.step = 1
    BY <2>1 DEF IndexSteps
  <2>2. CASE UNCHANGED run
    BY <2>2 DEF IndexInv
  <2> QED BY <2>1, <2>2
<1> QED BY <1>1, <1>2 DEF IndexInv

LEMMA IndexPublished ==
    ASSUME TypeInv, TransactionInv, IndexInv, Publish \/ PublishFails
    PROVE  /\ IndexInv'
           /\ \/ UNCHANGED index
              \/ \E k \in IndexSteps, moved \in SUBSET Articles :
                    index' = [index EXCEPT ![k] =
                       [a \in Articles |-> IF a \in moved THEN run.generation.memory[a]
                                           ELSE index[k][a]]]
<1> USE DEF bucketVars
<1> DEFINE j   == Anchor(run.batch)
           gen == run.generation
<1>0. /\ run \in RunRecords /\ run.pc = "publish" /\ run.step \in 1 .. 4
      /\ index \in [IndexSteps -> [Articles -> Versions]]
  BY TargetTyped DEF TypeInv, TypeOK, Publish, PublishFails
<1>1. /\ Staged = {j} /\ status[j].staged = gen /\ gen \in Generations
      /\ Target = gen.memory /\ gen.memory \in [Articles -> Versions]
  BY <1>0, TargetIsStaged DEF Generations
<1>2. /\ UNCHANGED <<status, pointer>>
      /\ Memory' = Memory /\ Staged' = Staged
  BY StagedMembers, StagedMembersNext DEF Publish, PublishFails, Memory
<1>3. \A story \in Stories : \E cut \in 1 .. 4 : \A k \in IndexSteps, a \in story :
         index[k][a] = IF k <= cut THEN gen.memory[a] ELSE Memory[a]
  <2> HIDE DEF j, gen
  <2> QED BY <1>1 DEF IndexInv, DeliveryBetweenCommits
<1>4. \A k \in IndexSteps : k < run.step => index[k] = gen.memory
  BY <1>0 DEF IndexInv
<1>5. /\ run'.pc = "defer" \/ (run'.generation = gen /\ run'.batch = run.batch)
      /\ Publish => \/ run.step = 4 /\ run'.pc = "promote" /\ run'.generation = gen
                    \/ /\ run.step # 4 /\ run'.pc = "publish"
                       /\ run'.step = run.step + 1 /\ run'.generation = gen
      /\ PublishFails => run'.pc = "defer"
  BY <1>0 DEF Publish, PublishFails, RunRecords
<1>6. CASE run.step = 1
  <2>1. UNCHANGED index
    BY <1>6 DEF Publish, PublishFails
  <2>2. DeliveryBetweenCommits'
    BY <1>2, <2>1 DEF IndexInv, DeliveryBetweenCommits
  <2>3. \A k \in IndexSteps : k < 2 => FALSE
    BY DEF IndexSteps
  <2> QED BY <1>5, <1>6, <2>1, <2>2, <2>3 DEF IndexInv
<1>7. CASE run.step # 1
  <2>1. run.step \in IndexSteps
    BY <1>0, <1>7 DEF IndexSteps
  <2>2. PICK moved \in SUBSET Articles :
          /\ index' = [index EXCEPT ![run.step] =
                [a \in Articles |-> IF a \in moved THEN gen.memory[a] ELSE index[run.step][a]]]
          /\ Publish => moved = Articles
          /\ \A a \in moved : Aliases(a) \subseteq moved
    <3>1. CASE Publish
      <4>1. index' = [index EXCEPT ![run.step] = gen.memory]
        BY <1>1, <1>7, <3>1 DEF Publish
      <4>2. gen.memory =
              [a \in Articles |-> IF a \in Articles THEN gen.memory[a] ELSE index[run.step][a]]
        BY <1>1
      <4> HIDE DEF gen
      <4>3. index' = [index EXCEPT ![run.step] =
               [a \in Articles |-> IF a \in Articles THEN gen.memory[a] ELSE index[run.step][a]]]
        BY <4>1, <4>2
      <4> QED BY <4>3, StoriesOfArticles
    <3>2. CASE PublishFails
      <4>1. ~ Publish
        BY <1>0, <3>2 DEF Publish, PublishFails, RunRecords
      <4> QED BY <1>1, <1>7, <3>2, <4>1 DEF PublishFails
    <3> QED BY <3>1, <3>2
  <2> HIDE DEF j, gen
  <2>3. /\ \A k \in IndexSteps \ {run.step} : index'[k] = index[k]
        /\ \A a \in Articles :
              index'[run.step][a] = IF a \in moved THEN gen.memory[a] ELSE index[run.step][a]
    BY <1>0, <2>1, <2>2
  <2>4. \A story \in Stories : \E cut \in 1 .. 4 : \A k \in IndexSteps, a \in story :
           index'[k][a] = IF k <= cut THEN gen.memory[a] ELSE Memory[a]
    <3> SUFFICES ASSUME NEW b \in Articles
                 PROVE  \E cut \in 1 .. 4 : \A k \in IndexSteps, a \in Aliases(b) :
                           index'[k][a] = IF k <= cut THEN gen.memory[a] ELSE Memory[a]
      BY DEF Stories
    <3>1. PICK cut \in 1 .. 4 : \A k \in IndexSteps, a \in Aliases(b) :
             index[k][a] = IF k <= cut THEN gen.memory[a] ELSE Memory[a]
      BY <1>3, StoriesOfArticles
    <3>2. \A k \in IndexSteps, a \in Aliases(b) : k < run.step => index[k][a] = gen.memory[a]
      BY <1>4
    <3>3. \A k \in IndexSteps \ {run.step}, a \in Aliases(b) : index'[k][a] = index[k][a]
      BY <2>3
    <3>4. CASE Aliases(b) \cap moved = {}
      <4>1. \A a \in Aliases(b) : index'[run.step][a] = index[run.step][a]
        BY <2>3, <3>4, StoriesOfArticles
      <4> QED BY <3>1, <3>3, <4>1
    <3>5. CASE Aliases(b) \cap moved # {}
      <4>1. PICK c \in Aliases(b) : c \in moved
        BY <3>5
      <4>2. Aliases(b) \subseteq moved
        BY <2>2, <4>1 DEF Aliases
      <4>3. \A a \in Aliases(b) : index'[run.step][a] = gen.memory[a]
        BY <2>3, <4>2, StoriesOfArticles
      <4>4. CASE cut < run.step
        <5>1. run.step \in 1 .. 4
          BY <2>1 DEF IndexSteps
        <5>2. \A k \in IndexSteps, a \in Aliases(b) :
                 index'[k][a] = IF k <= run.step THEN gen.memory[a] ELSE Memory[a]
          BY <2>1, <3>1, <3>2, <3>3, <4>3, <4>4 DEF IndexSteps
        <5> QED BY <5>1, <5>2
      <4>5. CASE run.step <= cut
        <5>1. \A k \in IndexSteps, a \in Aliases(b) :
                 index'[k][a] = IF k <= cut THEN gen.memory[a] ELSE Memory[a]
          BY <2>1, <3>1, <3>3, <4>3, <4>5
        <5> QED BY <5>1
      <4> QED BY <2>1, <4>4, <4>5 DEF IndexSteps
    <3> QED BY <3>4, <3>5
  <2>5. DeliveryBetweenCommits'
    BY <1>1, <1>2, <2>4 DEF DeliveryBetweenCommits
  <2>6. Publish => index'[run.step] = gen.memory
    BY <1>0, <1>1, <2>1, <2>2
  <2>7. Publish => \A k \in IndexSteps : k <= run.step => index'[k] = gen.memory
    BY <1>0, <1>4, <2>3, <2>6 DEF IndexSteps
  <2>8. IndexInv'
    <3>1. CASE PublishFails
      BY <1>5, <2>5, <3>1 DEF IndexInv
    <3>2. CASE Publish
      <4>1. run'.pc = "publish" => \A k \in IndexSteps : k < run'.step => k <= run.step
        BY <1>0, <1>5, <3>2 DEF IndexSteps
      <4>2. run'.pc = "promote" => \A k \in IndexSteps : k <= run.step
        BY <1>0, <1>5, <3>2 DEF IndexSteps
      <4> QED BY <1>5, <2>5, <2>7, <3>2, <4>1, <4>2 DEF IndexInv
    <3> QED BY <3>1, <3>2
  <2> QED BY <2>1, <2>2, <2>8 DEF gen
<1> QED BY <1>0, <1>6, <1>7


\* Forgetting the staged generation once the pointer is there: nothing is left to show.
LEMMA IndexSettles ==
    ASSUME TypeInv, TransactionInv, IndexInv, Retire \/ MarkStatus \/ MarkMarker,
           UNCHANGED index, run'.pc \notin {"publish", "promote"}
    PROVE  IndexInv'
<1>1. /\ StagesNothing /\ Staged' \subseteq Staged
      /\ \A j \in Staged : pointer = PointerTo(status[j].staged)
  BY TransactionSettles
<1>2. CASE Staged' = Staged
  BY <1>1, <1>2, IndexKept
<1>3. CASE Staged' # Staged
  <2>1. PICK j \in Staged : j \notin Staged'
    BY <1>1, <1>3
  <2>2. Staged = {j} /\ Staged' = {}
    BY <1>1, <2>1 DEF TransactionInv, StagedInv
  <2>3. j \in Jobs /\ status[j].staged \in Generations
    BY <2>1, StagedMembers DEF TypeInv, TypeOK, StatusRecords
  <2>4. Memory = status[j].staged.memory /\ Memory' = Memory
    BY <1>1, <2>1, <2>3, PointerToMemory DEF Memory, StagesNothing
  <2>5. \A k \in IndexSteps, a \in Articles : index[k][a] = Memory[a]
    BY <2>2, <2>4, StoriesOfArticles DEF IndexInv, DeliveryBetweenCommits
  <2>6. Memory \in [Articles -> Versions] /\ index \in [IndexSteps -> [Articles -> Versions]]
    BY MemoryTyped DEF TypeInv, TypeOK
  <2>7. \A k \in IndexSteps : index[k] = Memory
    BY <2>5, <2>6
  <2>8. DeliveryBetweenCommits'
    BY <2>2, <2>4, <2>7 DEF DeliveryBetweenCommits
  <2> QED BY <2>8 DEF IndexInv
<1> QED BY <1>2, <1>3

LEMMA NextIndexInv ==
    ASSUME TypeInv, TransactionInv, Undisturbed, IndexInv, [Next]_vars
    PROVE  IndexInv'
<1>1. CASE Publish \/ PublishFails
  BY <1>1, IndexPublished
<1>2. CASE RecordStaged
  <2> DEFINE j   == Anchor(run.batch)
             gen == run.generation
  <2>1. /\ Staged = {} /\ Staged' = {j} /\ status'[j].staged = gen
        /\ Memory' = Memory /\ UNCHANGED index
        /\ run'.pc = "publish" /\ run'.step = 1
    BY <1>2, TransactionStages, RecordedStatus DEF RecordStaged, Memory, b2Vars
  <2> HIDE DEF j, gen
  <2>2. \A k \in IndexSteps : index'[k] = Memory' /\ ~ (k <= 1)
    BY <2>1 DEF IndexInv, DeliveryBetweenCommits, IndexSteps
  <2>3. \A a \in Articles, k \in IndexSteps :
           index'[k][a] = IF k <= 1 THEN gen.memory[a] ELSE Memory'[a]
    BY <2>2
  <2>4. DeliveryBetweenCommits'
    BY <2>1, <2>3 DEF DeliveryBetweenCommits, Stories, Aliases
  <2> QED BY <2>1, <2>4 DEF IndexInv, IndexSteps
<1>3. CASE Promote
  <2> DEFINE j   == Anchor(run.batch)
             gen == run.generation
  <2>1. /\ j \in Staged /\ Staged' = Staged /\ UNCHANGED status
        /\ status[j].staged = gen /\ Memory' = gen.memory
    BY <1>3, TransactionCommits DEF AnchorStatus
  <2>2. UNCHANGED index /\ \A k \in IndexSteps : index'[k] = gen.memory
    BY <1>3 DEF Promote, b2Vars, IndexInv
  <2>3. run'.pc = "retire"
    BY <1>3 DEF Promote, TypeInv, TypeOK, RunRecords
  <2> HIDE DEF j, gen
  <2>4. \A i \in Staged' : i = j
    BY <2>1 DEF TransactionInv, StagedInv
  <2>5. \A a \in Articles, k \in IndexSteps :
           index'[k][a] = IF k <= 1 THEN gen.memory[a] ELSE Memory'[a]
    BY <2>1, <2>2
  <2>6. \A i \in Staged' : status'[i].staged.memory = gen.memory
    BY <2>1, <2>4
  <2>7. DeliveryBetweenCommits'
    BY <2>1, <2>5, <2>6 DEF DeliveryBetweenCommits, Stories, Aliases
  <2> QED BY <2>3, <2>7 DEF IndexInv
<1>4. CASE Retire \/ MarkStatus \/ MarkMarker
  <2>1. UNCHANGED index
    BY <1>4 DEF Retire, MarkStatus, MarkMarker, b2Vars
  <2>2. run'.pc \notin {"publish", "promote"}
    <3>1. CASE Retire
      BY <3>1 DEF Retire, TypeInv, TypeOK, RunRecords
    <3>2. CASE MarkStatus
      BY <3>2, MarkedStatus
    <3>3. CASE MarkMarker
      BY <3>3, AfterMarkMarker DEF IdleRun
    <3> QED BY <1>4, <3>1, <3>2, <3>3
  <2> QED BY <1>4, <2>1, <2>2, IndexSettles
<1>5. CASE ~ (Publish \/ PublishFails \/ RecordStaged \/ Promote
                \/ Retire \/ MarkStatus \/ MarkMarker)
  <2>1. StagesNothing
    BY <1>5, NextTransactionInv
  <2>2. Staged' = Staged
    BY <1>5, <2>1, NextForgets DEF StagesNothing
  <2> QED BY <1>5, <2>1, <2>2, NextPublication, IndexKept
<1> QED BY <1>1, <1>2, <1>3, <1>4, <1>5

LEMMA InitIndexInv == Init => IndexInv
<1> SUFFICES ASSUME Init PROVE IndexInv
  OBVIOUS
<1>1. Staged = {}
  BY DEF Init, Staged, StagedJobs, Statuses
<1>2. Memory = [a \in Articles |-> 0]
  <2>1. CASE SeededMemory
    <3>1. pointer = Seed
      BY <2>1 DEF Init
    <3>2. Seed \in Pointers
      BY <2>1, InitTypeInv, NoGenerationAssumption, EnvironmentAssumption, GenerationAssumption
        DEF Seed, Pointers, NoBase, Versions, Superseded
    <3> QED BY <3>1, <3>2, NoGenerationAssumption DEF Memory, Seed
  <2>2. CASE ~ SeededMemory
    BY <2>2 DEF Init, Memory
  <2> QED BY <2>1, <2>2
<1>3. \A k \in IndexSteps : index[k] = Memory
  BY <1>2 DEF Init
<1> QED BY <1>1, <1>3 DEF Init, IdleRun, IndexInv, DeliveryBetweenCommits

LEMMA IndexInvAlways ==
    ASSUME Undisturbed
    PROVE  Spec => [](TypeInv /\ TransactionInv /\ IndexInv)
<1>1. TypeInv /\ TransactionInv /\ IndexInv /\ [Next]_vars => IndexInv'
  BY NextIndexInv
<1> QED BY <1>1, InitIndexInv, TransactionInvAlways, PTL DEF Spec

\* In every reachable state, the middle of a publication, its failure and its replay
\* included, B2 shows the committed memory, or is part of the way from it to the one staged
\* generation, each index only as far as the ones before it in the commit order.
THEOREM DeliveryStaysBetweenCommits ==
    ASSUME "operator" \notin Events, "outage" \notin Events
    PROVE  Spec => []DeliveryBetweenCommits
<1>1. Undisturbed
  BY DEF Undisturbed
<1>2. IndexInv => DeliveryBetweenCommits
  BY DEF IndexInv
<1> QED BY <1>1, <1>2, IndexInvAlways, PTL


-----------------------------------------------------------------------------
(* The pipeline implements TimesDelivery.                                  *)

\* The transaction under way, as the refinement mapping names it.
UnderWay ==
    IF Staged = {} THEN NoGeneration
    ELSE PointerTo(status[CHOOSE j \in Staged : TRUE].staged)

LEMMA UnderWayIsStaged ==
    ASSUME TypeInv, StagedInv, NEW j \in Staged
    PROVE  /\ UnderWay = PointerTo(status[j].staged)
           /\ UnderWay \in Pointers /\ UnderWay # NoGeneration
           /\ UnderWay.memory = status[j].staged.memory
<1>1. (CHOOSE k \in Staged : TRUE) = j
  BY DEF StagedInv
<1>2. status[j].staged \in Generations
  BY StagedMembers DEF TypeInv, TypeOK, StatusRecords
<1> QED BY <1>1, <1>2, PointerToMemory DEF UnderWay

LEMMA UnderWayNext ==
    ASSUME StagedInv', NEW j \in Staged'
    PROVE  UnderWay' = PointerTo(status'[j].staged)
<1>1. (CHOOSE k \in Staged' : TRUE) = j
  BY DEF StagedInv
<1> QED BY <1>1 DEF UnderWay

\* Steps that stage nothing and forget nothing keep the transaction under way.
LEMMA UnderWayKept ==
    ASSUME StagedInv, StagedInv', Staged' = Staged,
           \A j \in Staged : status'[j].staged = status[j].staged
    PROVE  UnderWay' = UnderWay
<1>1. CASE Staged = {}
  BY <1>1 DEF UnderWay
<1>2. CASE Staged # {}
  <2>1. PICK j \in Staged : TRUE
    BY <1>2
  <2>2. UnderWay' = PointerTo(status'[j].staged)
    BY <2>1, UnderWayNext
  <2>3. (CHOOSE k \in Staged : TRUE) = j
    BY <2>1 DEF StagedInv
  <2>4. UnderWay = PointerTo(status[j].staged)
    BY <1>2, <2>3 DEF UnderWay
  <2> QED BY <2>1, <2>2, <2>4
<1> QED BY <1>1, <1>2

\* The steps of the abstract specification, in the terms of this one.
LEMMA NextDelivers ==
    ASSUME TypeInv, TransactionInv, Undisturbed, IndexInv, [Next]_vars
    PROVE  \/ UNCHANGED <<pointer, UnderWay, index>>
           \/ /\ UnderWay = NoGeneration /\ UnderWay' \in Pointers
              /\ UNCHANGED <<pointer, index>>
           \/ /\ UnderWay # NoGeneration
              /\ \E k \in IndexSteps, moved \in SUBSET Articles :
                    index' = [index EXCEPT ![k] =
                       [a \in Articles |-> IF a \in moved THEN UnderWay.memory[a]
                                           ELSE index[k][a]]]
              /\ UNCHANGED <<pointer, UnderWay>>
           \/ /\ UnderWay # NoGeneration
              /\ \A k \in IndexSteps : index[k] = UnderWay.memory
              /\ pointer' = UnderWay
              /\ UNCHANGED <<UnderWay, index>>
           \/ /\ UnderWay # NoGeneration
              /\ pointer = UnderWay
              /\ UnderWay' = NoGeneration
              /\ UNCHANGED <<pointer, index>>
<1>0. StagedInv /\ TransactionInv' /\ StagedInv'
  BY NextTransactionInv DEF TransactionInv
<1>1. CASE Publish \/ PublishFails
  <2> DEFINE j == Anchor(run.batch)
  <2>1. /\ Staged = {j} /\ status[j].staged = run.generation
        /\ run.generation \in Generations
    BY <1>1, TargetIsStaged DEF Publish, PublishFails
  <2>2. UNCHANGED <<status, pointer>> /\ Staged' = Staged
    BY <1>1, StagedMembers, StagedMembersNext DEF Publish, PublishFails, bucketVars
  <2>3. UnderWay' = UnderWay
    BY <1>0, <2>2, UnderWayKept
  <2>4. UnderWay # NoGeneration /\ UnderWay.memory = run.generation.memory
    <3> HIDE DEF j
    <3> QED BY <1>0, <2>1, UnderWayIsStaged
  <2>5. \/ UNCHANGED index
        \/ \E k \in IndexSteps, moved \in SUBSET Articles :
              index' = [index EXCEPT ![k] =
                 [a \in Articles |-> IF a \in moved THEN run.generation.memory[a]
                                     ELSE index[k][a]]]
    BY <1>1, IndexPublished
  <2> QED BY <2>2, <2>3, <2>4, <2>5
<1>2. CASE RecordStaged
  <2> DEFINE j == Anchor(run.batch)
  <2>1. /\ Staged = {} /\ Staged' = {j} /\ status'[j].staged = run.generation
        /\ UNCHANGED <<pointer, index>> /\ run.generation \in Generations
    BY <1>2, TransactionStages, RecordedStatus DEF RecordStaged, b2Vars
  <2>2. UnderWay = NoGeneration
    BY <2>1 DEF UnderWay
  <2>3. UnderWay' = PointerTo(run.generation)
    <3> HIDE DEF j
    <3> QED BY <1>0, <2>1, UnderWayNext
  <2> QED BY <2>1, <2>2, <2>3, PointerToMemory
<1>3. CASE Promote
  <2> DEFINE j == Anchor(run.batch)
  <2>1. /\ j \in Staged /\ Staged' = Staged /\ UNCHANGED <<status, index>>
        /\ status[j].staged = run.generation /\ pointer' = PointerTo(run.generation)
    BY <1>3, TransactionCommits DEF Promote, AnchorStatus, b2Vars
  <2>2. \A k \in IndexSteps : index[k] = run.generation.memory
    BY <1>3 DEF Promote, IndexInv
  <2>3. UnderWay' = UnderWay
    BY <1>0, <2>1, UnderWayKept
  <2>4. /\ UnderWay = PointerTo(run.generation) /\ UnderWay # NoGeneration
        /\ UnderWay.memory = run.generation.memory
    <3> HIDE DEF j
    <3> QED BY <1>0, <2>1, UnderWayIsStaged
  <2> QED BY <2>1, <2>2, <2>3, <2>4
<1>4. CASE ~ (Publish \/ PublishFails \/ RecordStaged \/ Promote)
  <2>1. StagesNothing /\ UNCHANGED index
    BY <1>4, NextTransactionInv, NextPublication
  <2>2. pointer' = pointer
    BY <2>1 DEF StagesNothing
  <2>3. CASE Staged' = Staged
    <3>1. UnderWay' = UnderWay
      BY <1>0, <2>1, <2>3, UnderWayKept DEF StagesNothing
    <3> QED BY <2>1, <2>2, <3>1
  <2>4. CASE Staged' # Staged
    <3>1. /\ Retire \/ MarkStatus \/ MarkMarker
          /\ \A j \in Staged : pointer = PointerTo(status[j].staged)
      BY <2>1, <2>4, NextForgets, TransactionSettles DEF StagesNothing
    <3>2. PICK j \in Staged : j \notin Staged'
      BY <2>1, <2>4 DEF StagesNothing
    <3>3. Staged' = {}
      BY <1>0, <2>1, <3>2 DEF StagedInv, StagesNothing
    <3>4. UnderWay' = NoGeneration
      BY <3>3 DEF UnderWay
    <3>5. UnderWay # NoGeneration /\ pointer = UnderWay
      BY <1>0, <3>1, <3>2, UnderWayIsStaged
    <3> QED BY <2>1, <2>2, <3>4, <3>5
  <2> QED BY <2>3, <2>4
<1> QED BY <1>1, <1>2, <1>3, <1>4

\* The publishing pipeline implements TimesDelivery: readers get Process results one whole
\* transaction after the other, in every interleaving of captures, crashes, failures,
\* replays and cleanups.
THEOREM DeliveryIsImplemented ==
    ASSUME "operator" \notin Events, "outage" \notin Events
    PROVE  Spec => ImplementsDelivery
<1>1. Undisturbed
  BY DEF Undisturbed
<1>2. Init => Delivery!Init
  <2> SUFFICES ASSUME Init PROVE Delivery!Init
    OBVIOUS
  <2>1. pointer \in Pointers \cup {NoGeneration}
    BY InitTypeInv DEF TypeInv, TypeOK
  <2>2. Staged = {}
    BY DEF Init, Staged, StagedJobs, Statuses
  <2>3. \A k, l \in IndexSteps : index[k] = index[l]
    BY DEF Init
  <2> QED BY <2>1, <2>2, <2>3 DEF Delivery!Init
<1>3. TypeInv /\ TransactionInv /\ IndexInv /\ [Next]_vars =>
        [Delivery!Next]_<<pointer, UnderWay, index>>
  <2> SUFFICES ASSUME TypeInv, TransactionInv, IndexInv, [Next]_vars
               PROVE  Delivery!Next \/ UNCHANGED <<pointer, UnderWay, index>>
    OBVIOUS
  <2>1. Delivery!Stage <=> /\ UnderWay = NoGeneration /\ UnderWay' \in Pointers
                           /\ UNCHANGED <<pointer, index>>
    BY DEF Delivery!Stage, UnderWay
  <2>2. Delivery!Show <=>
           /\ UnderWay # NoGeneration
           /\ \E k \in IndexSteps, moved \in SUBSET Articles :
                 index' = [index EXCEPT ![k] =
                    [a \in Articles |-> IF a \in moved THEN UnderWay.memory[a]
                                        ELSE index[k][a]]]
           /\ UNCHANGED <<pointer, UnderWay>>
    BY DEF Delivery!Show, UnderWay
  <2>3. Delivery!Commit <=>
           /\ UnderWay # NoGeneration
           /\ \A k \in IndexSteps : index[k] = UnderWay.memory
           /\ pointer' = UnderWay
           /\ UNCHANGED <<UnderWay, index>>
    BY DEF Delivery!Commit, UnderWay
  <2>4. Delivery!Forget <=>
           /\ UnderWay # NoGeneration
           /\ pointer = UnderWay
           /\ UnderWay' = NoGeneration
           /\ UNCHANGED <<pointer, index>>
    BY DEF Delivery!Forget, UnderWay
  <2> QED BY <1>1, <2>1, <2>2, <2>3, <2>4, NextDelivers DEF Delivery!Next
<1> QED BY <1>1, <1>2, <1>3, IndexInvAlways, PTL DEF Spec, ImplementsDelivery, Delivery!Spec, UnderWay


-----------------------------------------------------------------------------
(* What the next run needs.                                                *)

\* Nothing a run is about to delete belongs to the staged generation, and a cleanup only
\* works on jobs that are settled, or never got a status.
NeededInv ==
    /\ NeededIsKept
    /\ run.pc \in Planning => run.doomed = {}
    /\ \A j \in Staged : run.doomed \cap GenerationObjects(status[j].staged) = {}
    /\ run.pc \in {"cleanPayload", "cleanStatus"} =>
          \A j \in run.left : status[j] # NoStatus /\ status[j].state = "done"
    /\ run.pc = "cleanPayload" => \A j \in run.raws : status[j] = NoStatus

\* Raws: an unfinished status comes from a Raw, or from one that was unfinished before.
RawsKept ==
    \A j \in Jobs :
        status'[j] # NoStatus /\ status'[j].state # "done" =>
            \/ /\ status[j] # NoStatus /\ status[j].state # "done"
               /\ raw'[j] = raw[j]
            \/ raw'[j] # NoRaw

LEMMA RawsAreKept ==
    ASSUME UnfinishedHasRaw, RawsKept
    PROVE  UnfinishedHasRaw'
BY DEF UnfinishedHasRaw, RawsKept, Unfinished, Statuses

\* Steps other than the uploads of a status and the deletions of a cleanup.
LEMMA RawsKeptIf ==
    ASSUME UNCHANGED raw,
           \A j \in Jobs : \/ status'[j] \in {status[j], NoStatus}
                           \/ status[j] # NoStatus /\ status[j].state # "done"
                           \/ raw[j] # NoRaw
    PROVE  RawsKept
BY DEF RawsKept

LEMMA NextRawsKept ==
    ASSUME TypeInv, TransactionInv, NeededInv, Undisturbed, [Next]_vars
    PROVE  RawsKept
<1> USE DEF bucketVars, b2Vars, captureVars
<1>1. CASE CaptureNext
  <2>1. CASE PublishStatus
    <3>1. UNCHANGED raw
      BY <2>1 DEF PublishStatus
    <3> QED BY <2>1, <3>1, PublishedStatus, RawsKeptIf
  <2>2. CASE PublishRaw
    <3>1. PICK rows \in Rows : raw' = [raw EXCEPT ![capture.job + 1] = rows]
      BY <2>2 DEF PublishRaw, Rows
    <3>2. \A j \in Jobs : raw'[j] = raw[j] \/ raw'[j] # NoRaw
      BY <3>1, AbsenceAssumption DEF TypeInv, TypeOK
    <3>3. UNCHANGED status
      BY <2>2 DEF PublishRaw
    <3> QED BY <3>2, <3>3 DEF RawsKept
  <2>3. CASE Enqueue \/ SaveCaptureMemory \/ CaptureStops \/ PublishAgain
    BY <2>3, RawsKeptIf DEF Enqueue, SaveCaptureMemory, CaptureStops, PublishAgain
  <2> QED BY <1>1, <2>1, <2>2, <2>3 DEF CaptureNext
<1>2. CASE EnvironmentNext \/ UNCHANGED vars
  BY <1>2, RawsKeptIf
    DEF EnvironmentNext, BeginDiscard, EndDiscard, WindowPasses, Quieten, May, Undisturbed,
        TransactionInv, StagedInv, NoDiscard, vars
<1>3. CASE ProcessNext
  <2>1. CASE RecordStaged
    <3>1. AnchorStatus.state # "done"
      BY <2>1 DEF RecordStaged, TransactionInv, ProgressInv, Planning
    <3>2. UNCHANGED raw
      BY <2>1 DEF RecordStaged
    <3> QED BY <2>1, <3>1, <3>2, RecordedStatus, RawsKeptIf DEF AnchorStatus
  <2>2. CASE MarkStatus
    <3>1. UNCHANGED raw
      BY <2>2 DEF MarkStatus
    <3> QED BY <2>2, <3>1, MarkedStatus, RawsKeptIf
  <2>3. CASE Defer
    <3>1. UNCHANGED raw
      BY <2>3 DEF Defer
    <3>2. PICK j \in Jobs : /\ status[j] # NoStatus
                            /\ status'[j] = StatusAfterRuntimeFailure(status[j])
                            /\ \A k \in Jobs \ {j} : status'[k] = status[k]
      BY <2>3, DeferredStatus
    <3>3. status[j].state = "done" => status'[j] = status[j]
      BY <3>2 DEF StatusAfterRuntimeFailure
    <3> QED BY <3>1, <3>2, <3>3, RawsKeptIf
  <2>4. CASE \/ \E due \in SUBSET Partial : Select(due)
             \/ SelectFails \/ (\E j \in Jobs : SelectExactly(j)) \/ Replay
             \/ Restore \/ RestoreFails \/ Build \/ UploadGeneration \/ Publish \/ PublishFails
    BY <2>4, RawsKeptIf
      DEF Select, SelectFails, SelectExactly, Replay, Restore, RestoreFails, Build,
          UploadGeneration, Publish, PublishFails
  <2>5. CASE \/ Promote \/ PromoteFails \/ Retire \/ MarkFails \/ MarkMarker \/ DeferMarker
             \/ StepFails \/ RunStops
    BY <2>5, RawsKeptIf
      DEF Promote, PromoteFails, Retire, MarkFails, MarkMarker, DeferMarker, StepFails, RunStops
  <2> QED BY <1>3, <2>1, <2>2, <2>3, <2>4, <2>5 DEF ProcessNext, ProcessStep
<1>4. CASE CleanupNext
  <2>1. CASE PlanCleanup \/ CleanStatus \/ CleanStatusFails
    BY <2>1, RawsKeptIf DEF PlanCleanup, CleanStatus, CleanStatusFails, DeleteStatus
  <2>2. CASE CleanPayload \/ CleanPayloadFails
    <3>1. \A j \in run.left \cup run.raws : status[j] # NoStatus => status[j].state = "done"
      BY <2>2 DEF CleanPayload, CleanPayloadFails, NeededInv
    <3>2. /\ UNCHANGED status
          /\ \A j \in Jobs \ (run.left \cup run.raws) : raw'[j] = raw[j]
      <4>1. CASE CleanPayload
        BY <4>1 DEF CleanPayload, DeletePayload
      <4>2. CASE CleanPayloadFails
        BY <4>2 DEF CleanPayloadFails, DeletePayload
      <4> QED BY <2>2, <4>1, <4>2
    <3> QED BY <3>1, <3>2 DEF RawsKept
  <2> QED BY <1>4, <2>1, <2>2 DEF CleanupNext, CleanupStep
<1> QED BY <1>1, <1>2, <1>3, <1>4 DEF Next


\* Only doomed archives are deleted.
LEMMA NextArchives ==
    ASSUME TypeInv, [Next]_vars
    PROVE  archives \ run.doomed \subseteq archives'
<1> USE DEF bucketVars, b2Vars, captureVars
<1>1. CASE CaptureNext \/ EnvironmentNext \/ UNCHANGED vars
  BY <1>1
    DEF CaptureNext, PublishRaw, PublishStatus, Enqueue, SaveCaptureMemory, CaptureStops,
        PublishAgain, EnvironmentNext, BeginDiscard, EndDiscard, WindowPasses, Quieten, vars
<1>2. CASE ProcessNext
  <2>1. CASE \/ \E due \in SUBSET Partial : Select(due)
             \/ SelectFails \/ (\E j \in Jobs : SelectExactly(j)) \/ Replay
             \/ Restore \/ RestoreFails \/ Build \/ UploadGeneration \/ RecordStaged
             \/ Publish \/ PublishFails
    BY <2>1
      DEF Select, SelectFails, SelectExactly, Replay, Restore, RestoreFails, Build,
          UploadGeneration, RecordStaged, Publish, PublishFails
  <2>2. CASE \/ Promote \/ PromoteFails \/ Retire \/ MarkStatus \/ MarkFails \/ MarkMarker
             \/ Defer \/ DeferMarker \/ StepFails \/ RunStops
    BY <2>2
      DEF Promote, PromoteFails, Retire, MarkStatus, MarkFails, MarkMarker, Defer, DeferMarker,
          StepFails, RunStops
  <2> QED BY <1>2, <2>1, <2>2 DEF ProcessNext, ProcessStep
<1>3. CASE CleanupNext
  BY <1>3 DEF CleanupNext, CleanupStep, PlanCleanup, CleanPayload, CleanPayloadFails,
              CleanStatus, CleanStatusFails, DeletePayload, DeleteStatus
<1> QED BY <1>1, <1>2, <1>3 DEF Next

\* Only a promotion and the plan of a cleanup doom archives, and only before its first
\* upload may a run have none to delete.
LEMMA NextDoomed ==
    ASSUME TypeInv, NeededInv, [Next]_vars
    PROVE  /\ Promote \/ PlanCleanup \/ run'.doomed \in {run.doomed, {}}
           /\ run'.pc \in Planning => run'.doomed = {}
           /\ Promote => run'.doomed = Obsolete(pointer, AnchorStatus.staged)
<1> USE DEF bucketVars, b2Vars, captureVars
<1>0. run \in RunRecords
  BY DEF TypeInv, TypeOK
<1>1. CASE CaptureNext \/ EnvironmentNext \/ UNCHANGED vars
  <2>1. UNCHANGED run
    BY <1>1
      DEF CaptureNext, PublishRaw, PublishStatus, Enqueue, SaveCaptureMemory, CaptureStops,
          PublishAgain, EnvironmentNext, BeginDiscard, EndDiscard, WindowPasses, Quieten, vars
  <2>2. ~ Promote
    BY <1>0, <2>1 DEF Promote, RunRecords
  <2> QED BY <2>1, <2>2 DEF NeededInv
<1>2. CASE ProcessNext /\ ~ Promote
  <2>1. CASE \/ \E due \in SUBSET Partial : Select(due)
             \/ SelectFails \/ (\E j \in Jobs : SelectExactly(j))
    <3>1. run'.doomed = {}
      BY <2>1 DEF Select, SelectFails, SelectExactly, StartProcess, IdleRun
    <3> QED BY <1>2, <3>1
  <2>2. CASE Restore \/ Build \/ UploadGeneration
    <3>1. run'.doomed = run.doomed /\ run.pc \in Planning
      BY <1>0, <2>2 DEF Restore, Build, UploadGeneration, RunRecords, Planning
    <3> QED BY <1>2, <3>1 DEF NeededInv
  <2>3. CASE Replay \/ RestoreFails \/ RecordStaged \/ Publish \/ PublishFails
    <3>1. run'.doomed = run.doomed /\ run'.pc \in {"publish", "promote", "defer"}
      <4>1. CASE Replay \/ RestoreFails \/ Publish
        BY <1>0, <4>1 DEF Replay, RestoreFails, Publish, RunRecords
      <4>2. CASE RecordStaged \/ PublishFails
        BY <1>0, <4>2, RecordedStatus DEF PublishFails, RunRecords
      <4> QED BY <2>3, <4>1, <4>2
    <3> QED BY <1>2, <3>1 DEF Planning
  <2>4. CASE PromoteFails \/ Retire \/ MarkFails \/ MarkStatus
    <3>1. run'.doomed \in {run.doomed, {}} /\ run'.pc \in {"mark", "unmark", "defer"}
      <4>1. CASE PromoteFails \/ MarkFails
        BY <1>0, <4>1 DEF PromoteFails, MarkFails, RunRecords
      <4>2. CASE Retire
        BY <1>0, <4>2 DEF Retire, RunRecords
      <4>3. CASE MarkStatus
        BY <4>3, MarkedStatus
      <4> QED BY <2>4, <4>1, <4>2, <4>3
    <3> QED BY <1>2, <3>1 DEF Planning
  <2>5. CASE MarkMarker \/ Defer
    <3>1. run'.doomed \in {run.doomed, {}} /\ run'.pc \in {"idle", "mark", "deferMarker"}
      BY <2>5, AfterMarkMarker, AfterDefer DEF IdleRun
    <3> QED BY <1>2, <3>1 DEF Planning
  <2>6. CASE DeferMarker \/ RunStops
    BY <1>2, <2>6 DEF DeferMarker, RunStops, IdleRun
  <2>7. CASE StepFails
    <3>1. run'.doomed = run.doomed /\ run'.pc = "defer"
      BY <1>0, <2>7 DEF StepFails, RunRecords
    <3> QED BY <1>2, <3>1 DEF Planning
  <2> QED BY <1>2, <2>1, <2>2, <2>3, <2>4, <2>5, <2>6, <2>7 DEF ProcessNext, ProcessStep
<1>3. CASE Promote
  BY <1>0, <1>3 DEF Promote, RunRecords, Planning
<1>4. CASE CleanupNext
  <2>1. CASE PlanCleanup
    BY <2>1 DEF PlanCleanup, IdleRun, Planning, Promote
  <2>2. CASE CleanPayload
    <3>1. run'.pc \in {"idle", "cleanStatus"} /\ run'.doomed \in {run.doomed, {}}
      BY <2>2, AfterCleanPayload
    <3>2. run.pc = "cleanPayload"
      BY <2>2 DEF CleanPayload
    <3> QED BY <3>1, <3>2, AfterCleanPayload, <2>2 DEF Planning, Promote, IdleRun, CleanPayload
  <2>3. CASE CleanPayloadFails \/ CleanStatus \/ CleanStatusFails
    BY <2>3 DEF CleanPayloadFails, CleanStatus, CleanStatusFails, IdleRun, Promote
  <2> QED BY <1>4, <2>1, <2>2, <2>3 DEF CleanupNext, CleanupStep
<1> QED BY <1>1, <1>2, <1>3, <1>4 DEF Next


Cleaning == {"cleanPayload", "cleanStatus"}

LEMMA ProcessDoesNotClean ==
    ASSUME TypeInv, ProcessNext
    PROVE  run'.pc \notin Cleaning
<1>0. run \in RunRecords
  BY DEF TypeInv, TypeOK
<1>1. CASE \/ \E due \in SUBSET Partial : Select(due)
           \/ SelectFails \/ (\E j \in Jobs : SelectExactly(j))
  BY <1>1 DEF Select, SelectFails, SelectExactly, StartProcess, IdleRun, Cleaning
<1>2. CASE Replay \/ Restore \/ RestoreFails \/ Build \/ UploadGeneration \/ Publish
  BY <1>0, <1>2
    DEF Replay, Restore, RestoreFails, Build, UploadGeneration, Publish, RunRecords, Cleaning
<1>3. CASE RecordStaged \/ MarkStatus \/ MarkMarker \/ Defer
  BY <1>3, RecordedStatus, MarkedStatus, AfterMarkMarker, AfterDefer DEF Cleaning, IdleRun
<1>4. CASE PublishFails \/ Promote \/ PromoteFails \/ Retire \/ MarkFails \/ StepFails
  BY <1>0, <1>4
    DEF PublishFails, Promote, PromoteFails, Retire, MarkFails, StepFails, RunRecords, Cleaning
<1>5. CASE DeferMarker \/ RunStops
  BY <1>5 DEF DeferMarker, RunStops, IdleRun, Cleaning
<1> QED BY <1>1, <1>2, <1>3, <1>4, <1>5 DEF ProcessNext, ProcessStep

\* What a cleanup has planned to delete stays deletable while the captures go on.
LEMMA NextCleaning ==
    ASSUME TypeInv, TransactionInv, NeededInv, Undisturbed, [Next]_vars
    PROVE  /\ run'.pc \in Cleaning =>
                \A j \in run'.left : status'[j] # NoStatus /\ status'[j].state = "done"
           /\ run'.pc = "cleanPayload" => \A j \in run'.raws : status'[j] = NoStatus
<1> USE DEF bucketVars, b2Vars, captureVars
<1>0. run \in RunRecords
  BY DEF TypeInv, TypeOK
<1>1. CASE PublishStatus
  <2>1. PICK j \in Jobs :
            /\ j = capture.job /\ status[j] = NoStatus
            /\ \A k \in Jobs \ {j} : status'[k] = status[k]
    BY <1>1, PublishedStatus
  <2>2. run' = run /\ capture.pc = "status"
    BY <1>1 DEF PublishStatus
  <2>3. run.pc \in Cleaning => j \notin run.left
    BY <2>1 DEF NeededInv, Cleaning
  <2>4. run.pc = "cleanPayload" => j \notin run.raws
    BY <2>1, <2>2 DEF TypeInv, RunInv, Published
  <2>5. run.left \subseteq Jobs /\ run.raws \subseteq Jobs
    BY <1>0 DEF RunRecords
  <2> QED BY <2>1, <2>2, <2>3, <2>4, <2>5 DEF NeededInv, Cleaning
<1>2. CASE \/ PublishRaw \/ Enqueue \/ SaveCaptureMemory \/ CaptureStops \/ PublishAgain
           \/ EnvironmentNext \/ UNCHANGED vars
  <2>1. UNCHANGED <<run, status>>
    BY <1>2
      DEF PublishRaw, Enqueue, SaveCaptureMemory, CaptureStops, PublishAgain,
          EnvironmentNext, BeginDiscard, EndDiscard, WindowPasses, Quieten, May, Undisturbed,
          TransactionInv, StagedInv, NoDiscard, vars
  <2> QED BY <2>1 DEF NeededInv, Cleaning
<1>3. CASE ProcessNext
  BY <1>3, ProcessDoesNotClean DEF Cleaning
<1>4. CASE PlanCleanup
  <2>1. PICK expired \in SUBSET {j \in Jobs : MayExpire(j)},
             raws \in SUBSET OrphanRaws(raw, status) :
                run'.left = expired /\ run'.raws = raws
    BY <1>4 DEF PlanCleanup, IdleRun
  <2>2. UNCHANGED status
    BY <1>4 DEF PlanCleanup
  <2>3. \A j \in expired : status[j] # NoStatus /\ status[j].state = "done"
    BY <2>1 DEF MayExpire, May, Undisturbed
  <2> QED BY <2>1, <2>2, <2>3 DEF OrphanRaws
<1>5. CASE CleanPayload
  <2>1. UNCHANGED status /\ run.pc = "cleanPayload"
    BY <1>5 DEF CleanPayload, DeletePayload
  <2>2. run' = IdleRun \/ run' = [run EXCEPT !.pc = "cleanStatus"]
    BY <1>5 DEF CleanPayload
  <2>3. run'.pc = "idle" \/ (run'.pc = "cleanStatus" /\ run'.left = run.left)
    BY <1>0, <2>2 DEF RunRecords, IdleRun
  <2> QED BY <2>1, <2>3 DEF NeededInv, Cleaning
<1>6. CASE CleanPayloadFails \/ CleanStatus \/ CleanStatusFails
  BY <1>6 DEF CleanPayloadFails, CleanStatus, CleanStatusFails, IdleRun, Cleaning
<1> QED BY <1>1, <1>2, <1>3, <1>4, <1>5, <1>6 DEF Next, CaptureNext, CleanupNext, CleanupStep

LEMMA NextNeededInv ==
    ASSUME TypeInv, RestoreInv, TransactionInv, Undisturbed, NeededInv, [Next]_vars
    PROVE  NeededInv'
<1>1. UnfinishedHasRaw'
  BY NextRawsKept, RawsAreKept DEF NeededInv, NeededIsKept
<1>2. \A j \in Staged' : /\ GenerationObjects(status'[j].staged) \subseteq archives'
                         /\ run'.doomed \cap GenerationObjects(status'[j].staged) = {}
  <2>1. CASE RecordStaged
    <3> DEFINE j == Anchor(run.batch)
    <3>1. Staged' = {j} /\ status'[j].staged = run.generation
      BY <2>1, TransactionStages
    <3>2. GenerationObjects(run.generation) \subseteq archives'
      BY <2>1 DEF RecordStaged, RestoreInv
    <3>3. run'.doomed = {}
      BY <2>1, RecordedStatus DEF RecordStaged, NeededInv, Planning
    <3> HIDE DEF j
    <3> QED BY <3>1, <3>2, <3>3
  <2>2. CASE Promote
    <3> DEFINE j == Anchor(run.batch)
    <3>1. /\ j \in Staged /\ Staged' = Staged /\ UNCHANGED <<status, archives>>
          /\ status[j].staged = AnchorStatus.staged
      BY <2>2, TransactionCommits DEF Promote, AnchorStatus
    <3>2. Staged' = {j}
      BY <3>1 DEF TransactionInv, StagedInv
    <3>3. run'.doomed \cap GenerationObjects(AnchorStatus.staged) = {}
      BY <2>2, NextDoomed DEF Obsolete
    <3> HIDE DEF j
    <3> QED BY <3>1, <3>2, <3>3 DEF NeededInv, NeededIsKept, StagedRestorable
  <2>3. CASE PlanCleanup
    <3>1. UNCHANGED <<status, archives>> /\ Staged' = Staged
      BY <2>3, StagedMembers, StagedMembersNext DEF PlanCleanup, bucketVars
    <3>2. PICK expired \in SUBSET {j \in Jobs : MayExpire(j)},
               orphans \in SUBSET OrphanArchives(archives, status, pointer) :
              run'.doomed = orphans \cup ExpiredArchives(expired, status, pointer)
      BY <2>3 DEF PlanCleanup, IdleRun
    <3>3. StagedJobs(status, expired) = {}
      <4>1. \A j \in expired : j \in Jobs /\ status[j] # NoStatus /\ status[j].state = "done"
        BY DEF MayExpire, May, Undisturbed
      <4> QED BY <4>1, StagedMembers DEF StagedJobs, TransactionInv, StagedInv
    <3>4. ExpiredArchives(expired, status, pointer) = {}
      BY <3>3 DEF ExpiredArchives
    <3>5. \A j \in Staged : GenerationObjects(status[j].staged) \cap orphans = {}
      BY StagedMembers DEF OrphanArchives, ReferencedArchives, ObjectsOf
    <3> QED BY <3>1, <3>2, <3>4, <3>5 DEF NeededInv, NeededIsKept, StagedRestorable
  <2>4. CASE ~ (RecordStaged \/ Promote \/ PlanCleanup)
    <3>1. StagesNothing
      BY <2>4, NextTransactionInv
    <3>2. run'.doomed \in {run.doomed, {}}
      BY <2>4, NextDoomed
    <3>3. archives \ run.doomed \subseteq archives'
      BY NextArchives
    <3> QED BY <3>1, <3>2, <3>3
          DEF StagesNothing, NeededInv, NeededIsKept, StagedRestorable
  <2> QED BY <2>1, <2>2, <2>3, <2>4
<1>3. StagedRestorable'
  BY <1>2 DEF StagedRestorable
<1> QED BY <1>1, <1>2, <1>3, NextDoomed, NextCleaning DEF NeededInv, NeededIsKept, Cleaning

LEMMA InitNeededInv == Init => NeededInv
BY DEF Init, IdleRun, NeededInv, NeededIsKept, UnfinishedHasRaw, StagedRestorable, Unfinished,
       Staged, StagedJobs, Statuses, Planning

LEMMA NeededInvAlways ==
    ASSUME Undisturbed
    PROVE  Spec => [](TypeInv /\ RestoreInv /\ TransactionInv /\ NeededInv)
<1>1. TypeInv /\ RestoreInv /\ TransactionInv /\ NeededInv /\ [Next]_vars => NeededInv'
  BY NextNeededInv
<1> QED BY <1>1, InitNeededInv, InitRestoreInv, NextRestoreInv, TransactionInvAlways, PTL
        DEF Spec

\* Whatever is interrupted, a job that is not settled keeps its Raw, and a staged generation
\* keeps the archives that its replay restores: the retirements of promote-process and the
\* retention cleanup never take what a later run still needs.
THEOREM NeededStaysKept ==
    ASSUME "operator" \notin Events, "outage" \notin Events
    PROVE  Spec => []NeededIsKept
<1>1. Undisturbed
  BY DEF Undisturbed
<1>2. NeededInv => NeededIsKept
  BY DEF NeededInv
<1> QED BY <1>1, <1>2, NeededInvAlways, PTL


-----------------------------------------------------------------------------
(* What a job counts as completed.  In a batch the unchanged row of a later *)
(* job can stand for an article an earlier one captured: a run that meets   *)
(* none parses every captured article it owes.                              *)

Unshadowed ==
    run.pc = "build" =>
        \A j \in Members(run.batch) : \A a \in Owed \cap raw[j].captured : Parsed(a)

\* A view in which whatever is superseded is superseded by something.
Merged(view) ==
    \A a \in Articles : view[a] = Superseded =>
        \E b \in Aliases(a) : view[b] \in Jobs \cup {Withdrawn}

\* A generation knows of whatever it wrote, calls unchanged only what none of its jobs
\* captured, and supersedes an article only by an alias.
Sound(gen) ==
    /\ Merged(gen.memory)
    /\ \A a \in Articles : gen.result.outcome[a] \in {"written", "refused"} => gen.memory[a] # 0
    /\ \A j \in Members(gen.batch) :
          /\ j <= capture.job
          /\ raw[j] # NoRaw =>
                \A a \in raw[j].captured : gen.result.outcome[a] # "unchanged"

DisjointRows == \A j \in Jobs : raw[j] # NoRaw => raw[j].captured \cap raw[j].unchanged = {}

\* The completed captures of a status are in the committed memory.
Remembered(j, st) == raw[j] # NoRaw => \A a \in st.completed \cap raw[j].captured : Memory[a] # 0

CompletedInv ==
    /\ DisjointRows
    /\ Merged(Memory)
    /\ \A j \in Statuses : Remembered(j, status[j])
    /\ \A j \in Staged : Sound(status[j].staged)
    /\ run.pc \in GenerationSteps => Sound(run.generation)

\* How a step changes the generation of the run.
LEMMA NextGeneration ==
    ASSUME TypeInv, [Next]_vars
    PROVE  \/ Build \/ Replay
           \/ run'.pc \notin GenerationSteps
           \/ /\ run.pc \in GenerationSteps
              /\ run'.generation = run.generation
              /\ run'.batch = run.batch
<1> USE DEF bucketVars, b2Vars, captureVars, GenerationSteps
<1>0. run \in RunRecords
  BY DEF TypeInv, TypeOK
<1>1. CASE CaptureNext \/ EnvironmentNext \/ UNCHANGED vars
  BY <1>1
    DEF CaptureNext, PublishRaw, PublishStatus, Enqueue, SaveCaptureMemory, CaptureStops,
        PublishAgain, EnvironmentNext, BeginDiscard, EndDiscard, WindowPasses, Quieten, vars
<1>2. CASE ProcessNext
  <2>1. CASE \/ \E due \in SUBSET Partial : Select(due)
             \/ SelectFails \/ (\E j \in Jobs : SelectExactly(j))
    BY <2>1 DEF Select, SelectFails, SelectExactly, StartProcess, IdleRun
  <2>2. CASE UploadGeneration \/ Publish \/ Promote \/ Retire
    <3>1. run'.generation = run.generation /\ run'.batch = run.batch
      BY <1>0, <2>2 DEF UploadGeneration, Publish, Promote, Retire, RunRecords
    <3>2. run.pc \in {"upload", "publish", "promote", "retire"}
      BY <2>2 DEF UploadGeneration, Publish, Promote, Retire
    <3> QED BY <3>1, <3>2
  <2>3. CASE RecordStaged
    <3>1. run.pc = "record"
      BY <2>3 DEF RecordStaged
    <3> QED BY <2>3, <3>1, RecordedStatus
  <2>4. CASE MarkStatus
    <3>1. run.pc = "mark"
      BY <2>4 DEF MarkStatus
    <3> QED BY <2>4, <3>1, MarkedStatus
  <2>5. CASE MarkMarker
    <3>1. CASE run.left = {}
      BY <2>5, <3>1 DEF MarkMarker, IdleRun
    <3>2. CASE run.left # {}
      <4>1. run' = [run EXCEPT !.pc = "mark", !.step = 0] /\ run.pc = "unmark"
        BY <2>5, <3>2 DEF MarkMarker
      <4> QED BY <1>0, <4>1 DEF RunRecords
    <3> QED BY <3>1, <3>2
  <2>6. CASE Defer
    BY <2>6, AfterDefer
  <2>7. CASE Restore \/ RestoreFails \/ PublishFails \/ PromoteFails \/ MarkFails \/ StepFails
    <3>1. run'.pc \in {"build", "defer"}
      BY <1>0, <2>7
        DEF Restore, RestoreFails, PublishFails, PromoteFails, MarkFails, StepFails, RunRecords
    <3> QED BY <3>1
  <2>8. CASE DeferMarker \/ RunStops
    BY <2>8 DEF DeferMarker, RunStops, IdleRun
  <2> QED BY <1>2, <2>1, <2>2, <2>3, <2>4, <2>5, <2>6, <2>7, <2>8 DEF ProcessNext, ProcessStep
<1>3. CASE CleanupNext
  <2>1. CASE CleanPayload
    BY <2>1, AfterCleanPayload
  <2>2. CASE CleanPayloadFails \/ CleanStatus \/ CleanStatusFails
    BY <2>2 DEF CleanPayloadFails, CleanStatus, CleanStatusFails, IdleRun
  <2>3. CASE PlanCleanup
    <3>1. run'.pc = "cleanPayload"
      BY <2>3 DEF PlanCleanup, IdleRun
    <3> QED BY <3>1
  <2> QED BY <1>3, <2>1, <2>2, <2>3 DEF CleanupNext, CleanupStep
<1> QED BY <1>1, <1>2, <1>3 DEF Next

LEMMA BatchOfOne ==
    ASSUME TypeInv, MaxBatch = 1, run.pc \in WorkflowSteps
    PROVE  DOMAIN run.batch = {1}
<1>1. PICK n \in 0 .. 1 : run.batch \in [1 .. n -> Jobs]
  BY DEF TypeInv, TypeOK, RunRecords, Batches
<1>2. n = 1
  <2>1. SUFFICES ASSUME n = 0 PROVE FALSE
    BY <1>1
  <2>2. run.batch = <<>>
    BY <1>1, <2>1
  <2> QED BY <2>2, WorkflowAnchor
<1> QED BY <1>1, <1>2

\* In a run of one job no other row can stand for what the job captured.
LEMMA AloneUnshadowed ==
    ASSUME TypeInv, DisjointRows, MaxBatch = 1
    PROVE  Unshadowed
<1> SUFFICES ASSUME run.pc = "build", NEW j \in Members(run.batch),
                    NEW a \in Owed \cap raw[j].captured
             PROVE  a \notin raw[run.batch[RowOf(a)]].unchanged
  BY DEF Unshadowed, Parsed
<1>1. DOMAIN run.batch = {1}
  BY BatchOfOne DEF WorkflowSteps
<1>2. run.batch[RowOf(a)] = j
  BY <1>1, RowOfOwed DEF Members
<1>3. raw[j] # NoRaw /\ j \in Jobs
  BY WorkflowAnchor DEF TypeInv, RunInv, WorkflowSteps
<1> QED BY <1>2, <1>3 DEF DisjointRows

\* Merging aliases leaves one of every publication listed: nothing is superseded by nothing.
LEMMA PlansMerged ==
    ASSUME NEW made \in Results, made.superseded = {}, NEW view \in [Articles -> Versions],
           Merged(view),
           \A a \in Articles : made.outcome[a] = "written" => made.version[a] \in Jobs,
           NEW superseded \in SUBSET Articles,
           Collapses(superseded, {a \in Articles : Apply(made, view)[a] \in Jobs})
    PROVE  Merged(Apply([made EXCEPT !.superseded = superseded], view))
<1> DEFINE before == Apply(made, view)
           after  == Apply([made EXCEPT !.superseded = superseded], view)
           listed == {a \in Articles : before[a] \in Jobs}
<1>1. ASSUME NEW a \in Articles
      PROVE  /\ made.outcome[a] = "written" => before[a] = made.version[a]
             /\ made.outcome[a] \in {"removed", "refused"} => before[a] = Withdrawn
             /\ made.outcome[a] \notin {"written", "removed", "refused"} => before[a] = view[a]
  BY <1>1 DEF Apply
<1>2. [made EXCEPT !.superseded = superseded].outcome = made.outcome
      /\ [made EXCEPT !.superseded = superseded].version = made.version
      /\ [made EXCEPT !.superseded = superseded].superseded = superseded
  BY DEF Results
<1>3. ASSUME NEW a \in Articles
      PROVE  after[a] = IF a \in superseded THEN Superseded ELSE before[a]
  <2> DEFINE merged == [made EXCEPT !.superseded = superseded]
  <2>1. merged.outcome = made.outcome /\ merged.version = made.version
        /\ merged.superseded = superseded
    BY <1>2
  <2> HIDE DEF merged
  <2>2. Apply(merged, view)[a] = IF a \in superseded THEN Superseded ELSE Apply(made, view)[a]
    BY <2>1 DEF Apply
  <2> QED BY <2>2 DEF merged
<1> HIDE DEF before, after
<1>4. ASSUME NEW a \in listed
      PROVE  \E b \in Aliases(a) : after[b] \in Jobs
  <2>1. PICK kept \in Aliases(a) : Aliases(a) \cap (listed \ superseded) = {kept}
    BY DEF Collapses, before
  <2>2. kept \in listed /\ kept \notin superseded
    BY <2>1
  <2> QED BY <1>3, <2>1, <2>2
<1>5. Withdrawn \notin Jobs /\ Superseded \notin Jobs /\ Superseded # Withdrawn
  BY GenerationAssumption DEF Jobs, Withdrawn, Superseded
<1>6. ASSUME NEW a \in Articles, after[a] = Superseded
      PROVE  \E b \in Aliases(a) : after[b] \in Jobs \cup {Withdrawn}
  <2>1. CASE a \in superseded
    BY <1>4, <2>1 DEF Collapses, before
  <2>2. CASE a \notin superseded
    <3>1. before[a] = Superseded
      BY <1>3, <1>6, <2>2
    <3>2. view[a] = Superseded
      BY <1>1, <1>5, <3>1
    <3>3. PICK b \in Aliases(a) : view[b] \in Jobs \cup {Withdrawn}
      BY <3>2 DEF Merged
    <3>4. b \in Articles /\ Aliases(b) = Aliases(a)
      BY <3>3 DEF Aliases
    <3>5. CASE b \in listed
      BY <1>4, <3>4, <3>5
    <3>6. CASE b \notin listed
      <4>1. before[b] \notin Jobs
        BY <3>4, <3>6
      <4>2. before[b] = Withdrawn
        BY <1>1, <3>3, <3>4, <4>1
      <4>3. b \notin superseded
        BY <3>6 DEF Collapses, before
      <4> QED BY <1>3, <3>3, <3>4, <4>2, <4>3
    <3> QED BY <3>5, <3>6
  <2> QED BY <2>1, <2>2
<1> QED BY <1>6 DEF Merged, after

\* A run that meets no shadowed row builds a sound generation.
LEMMA BuildsSound ==
    ASSUME TypeInv, TransactionInv, IndexInv, CompletedInv, Unshadowed, Build
    PROVE  Sound(run.generation)'
<1>1. PICK outcome \in [Articles -> Outcomes], superseded \in SUBSET Articles,
           base \in BaseFor(pointer), object \in FreshArchives :
          /\ \A a \in Articles : outcome[a] \in OutcomesOf(a)
          /\ Collapses(superseded, ListedWith(Made(outcome)))
          /\ run' = [run EXCEPT !.pc = "upload", !.generation =
                    Planned([Made(outcome) EXCEPT !.superseded = superseded], base, object)]
  BY DEF Build
<1> DEFINE result == [Made(outcome) EXCEPT !.superseded = superseded]
<1>2. /\ run.pc = "build" /\ run.pc \in WorkflowSteps
      /\ UNCHANGED <<raw, capture>>
  BY DEF Build, WorkflowSteps, bucketVars, captureVars
<1>3. /\ run'.generation.memory = Apply(result, Memory)
      /\ run'.generation.result = result /\ run'.generation.batch = run.batch
  BY <1>1 DEF Planned, TypeInv, TypeOK, RunRecords
<1>4. /\ Made(outcome) \in Results /\ Made(outcome).superseded = {}
      /\ result.outcome = outcome
      /\ result.version = [a \in Articles |-> VersionOf(a, outcome[a])]
      /\ Made(outcome).outcome = outcome /\ Made(outcome).version = result.version
  <2>1. [Made(outcome) EXCEPT !.superseded = {}] \in Results
    BY <1>2, MadeTyped
  <2>2. [Made(outcome) EXCEPT !.superseded = {}] = Made(outcome)
    <3> DEFINE version == [a \in Articles |-> VersionOf(a, outcome[a])]
    <3> HIDE DEF version
    <3>1. Made(outcome) = [outcome |-> outcome, version |-> version, superseded |-> {}]
      BY DEF Made, version
    <3> QED BY <3>1
  <2> QED BY <2>1, <2>2 DEF Made
<1> HIDE DEF result
<1>5. \A a \in Articles : outcome[a] = "written" => result.version[a] \in Jobs
  <2> SUFFICES ASSUME NEW a \in Articles, outcome[a] = "written"
               PROVE  VersionOf(a, outcome[a]) \in Jobs
    BY <1>4
  <2>1. CASE Parsed(a)
    BY <1>2, <2>1, RowOfOwed DEF VersionOf, Parsed
  <2>2. CASE ~ Parsed(a)
    BY <1>2, <2>2, WorkflowAnchor DEF VersionOf
  <2> QED BY <2>1, <2>2
<1>6. Merged(Apply(result, Memory))
  <2>1. Staged = {} /\ TimelineDays \in IndexSteps
    BY <1>2 DEF TransactionInv, ProgressInv, TimelineDays, IndexSteps
  <2>2. index[TimelineDays] = Memory
    BY <2>1 DEF IndexInv, DeliveryBetweenCommits
  <2>3. Collapses(superseded, {a \in Articles : Apply(Made(outcome), Memory)[a] \in Jobs})
    BY <1>1, <2>2 DEF ListedWith
  <2> QED BY <1>4, <1>5, <2>3, PlansMerged, MemoryTyped DEF CompletedInv, result
<1>7. ASSUME NEW j \in Members(run.batch)
      PROVE  /\ j <= capture.job
             /\ raw[j] # NoRaw => \A a \in raw[j].captured : outcome[a] # "unchanged"
  <2>1. j \in Jobs /\ raw[j] # NoRaw
    BY <1>2, WorkflowAnchor DEF TypeInv, RunInv
  <2>2. j <= capture.job
    BY <2>1 DEF TypeInv, CaptureInv, TypeOK, Jobs
  <2>3. ASSUME NEW a \in raw[j].captured PROVE outcome[a] # "unchanged"
    <3>1. a \in Articles
      BY <2>1 DEF TypeInv, TypeOK, Rows
    <3>2. outcome[a] \in OutcomesOf(a)
      BY <1>1, <3>1
    <3>3. CASE a \notin Owed
      BY <3>2, <3>3 DEF OutcomesOf, PolicyOutcomes
    <3>4. CASE a \in Owed
      <4>1. Parsed(a)
        BY <1>2, <3>4 DEF Unshadowed
      <4> QED BY <3>2, <3>4, <4>1 DEF OutcomesOf
    <3> QED BY <3>3, <3>4
  <2> QED BY <2>2, <2>3
<1>8. \A a \in Articles : outcome[a] \in {"written", "refused"} => Apply(result, Memory)[a] # 0
  <2>1. 0 \notin Jobs /\ Withdrawn # 0 /\ Superseded # 0
    BY GenerationAssumption DEF Jobs, Withdrawn, Superseded
  <2> QED BY <1>4, <1>5, <2>1 DEF Apply
<1> QED BY <1>2, <1>3, <1>4, <1>6, <1>7, <1>8 DEF Sound

\* What a step may do to what the jobs remember: their Raws come or go with jobs that have
\* no status, and completed articles come only with the delivery that is being marked.
RemembersOnly ==
    \A j \in Jobs :
        /\ raw'[j] \in {raw[j], NoRaw} \/ (status[j] = NoStatus /\ status'[j] = NoStatus)
        /\ \/ status'[j] = NoStatus
           \/ status'[j].completed = {}
           \/ status[j] # NoStatus /\ status'[j].completed = status[j].completed

LEMMA RemembersOnlyIf ==
    ASSUME UNCHANGED raw, \A j \in Jobs : status'[j] \in {status[j], NoStatus}
    PROVE  RemembersOnly
BY DEF RemembersOnly

LEMMA NextRemembers ==
    ASSUME TypeInv, TransactionInv, Undisturbed, [Next]_vars
    PROVE  RemembersOnly \/ MarkStatus
<1> USE DEF bucketVars, b2Vars, captureVars
<1>1. CASE CaptureNext
  <2>1. CASE PublishStatus
    <3>1. PICK j \in Jobs : /\ status'[j] = InitialStatus(Listed(j))
                            /\ \A k \in Jobs \ {j} : status'[k] = status[k]
      BY <2>1, PublishedStatus
    <3>2. status'[j].completed = {} /\ UNCHANGED raw
      BY <2>1, <3>1 DEF InitialStatus, PublishStatus
    <3> QED BY <3>1, <3>2 DEF RemembersOnly
  <2>2. CASE PublishRaw
    <3>1. PICK rows \in Rows : raw' = [raw EXCEPT ![capture.job + 1] = rows]
      BY <2>2 DEF PublishRaw, Rows
    <3>2. \A j \in Jobs : raw'[j] = raw[j] \/ (j > capture.job)
      BY <3>1 DEF TypeInv, TypeOK, Jobs
    <3>3. UNCHANGED status
      BY <2>2 DEF PublishRaw
    <3> QED BY <3>2, <3>3 DEF RemembersOnly, TypeInv, CaptureInv
  <2>3. CASE Enqueue \/ SaveCaptureMemory \/ CaptureStops \/ PublishAgain
    BY <2>3, RemembersOnlyIf DEF Enqueue, SaveCaptureMemory, CaptureStops, PublishAgain
  <2> QED BY <1>1, <2>1, <2>2, <2>3 DEF CaptureNext
<1>2. CASE EnvironmentNext \/ UNCHANGED vars
  BY <1>2, RemembersOnlyIf
    DEF EnvironmentNext, BeginDiscard, EndDiscard, WindowPasses, Quieten, May, Undisturbed,
        TransactionInv, StagedInv, NoDiscard, vars
<1>3. CASE ProcessNext /\ ~ MarkStatus
  <2>1. CASE RecordStaged
    <3> DEFINE j == Anchor(run.batch)
    <3>1. /\ status[j] # NoStatus /\ status[j] \in StatusRecords
          /\ status'[j] = [status[j] EXCEPT !.staged = run.generation]
          /\ \A k \in Jobs \ {j} : status'[k] = status[k]
      BY <2>1, RecordedStatus
    <3> HIDE DEF j
    <3>2. status'[j].completed = status[j].completed
      BY <3>1 DEF StatusRecords
    <3>3. UNCHANGED raw
      BY <2>1 DEF RecordStaged
    <3> QED BY <3>1, <3>2, <3>3 DEF RemembersOnly
  <2>2. CASE Defer
    <3>1. UNCHANGED raw
      BY <2>2 DEF Defer
    <3>2. PICK j \in Jobs : /\ status[j] # NoStatus /\ status[j] \in StatusRecords
                            /\ status'[j] = StatusAfterRuntimeFailure(status[j])
                            /\ \A k \in Jobs \ {j} : status'[k] = status[k]
      BY <2>2, DeferredStatus
    <3>3. status'[j].completed = status[j].completed
      BY <3>2 DEF StatusAfterRuntimeFailure, StatusRecords
    <3> QED BY <3>1, <3>2, <3>3 DEF RemembersOnly
  <2>3. CASE \/ \E due \in SUBSET Partial : Select(due)
             \/ SelectFails \/ (\E j \in Jobs : SelectExactly(j)) \/ Replay
             \/ Restore \/ RestoreFails \/ Build \/ UploadGeneration \/ Publish \/ PublishFails
    BY <2>3, RemembersOnlyIf
      DEF Select, SelectFails, SelectExactly, Replay, Restore, RestoreFails, Build,
          UploadGeneration, Publish, PublishFails
  <2>4. CASE \/ Promote \/ PromoteFails \/ Retire \/ MarkFails \/ MarkMarker \/ DeferMarker
             \/ StepFails \/ RunStops
    BY <2>4, RemembersOnlyIf
      DEF Promote, PromoteFails, Retire, MarkFails, MarkMarker, DeferMarker, StepFails, RunStops
  <2> QED BY <1>3, <2>1, <2>2, <2>3, <2>4 DEF ProcessNext, ProcessStep
<1>4. CASE CleanupNext
  <2>1. CASE PlanCleanup \/ CleanStatus \/ CleanStatusFails
    BY <2>1, RemembersOnlyIf DEF PlanCleanup, CleanStatus, CleanStatusFails, DeleteStatus
  <2>2. CASE CleanPayload \/ CleanPayloadFails
    <3>1. UNCHANGED status /\ \A j \in Jobs : raw'[j] \in {raw[j], NoRaw}
      <4>1. CASE CleanPayload
        BY <4>1 DEF CleanPayload, DeletePayload
      <4>2. CASE CleanPayloadFails
        BY <4>2 DEF CleanPayloadFails, DeletePayload
      <4> QED BY <2>2, <4>1, <4>2
    <3> QED BY <3>1 DEF RemembersOnly
  <2> QED BY <1>4, <2>1, <2>2 DEF CleanupNext, CleanupStep
<1> QED BY <1>1, <1>2, <1>3, <1>4 DEF Next

\* Other steps than the publication of a Raw only delete them.
LEMMA RawOnlyLeaves ==
    ASSUME TypeInv, [Next]_vars, ~ PublishRaw
    PROVE  \A j \in Jobs : raw'[j] \in {raw[j], NoRaw}
<1> USE DEF bucketVars, b2Vars, captureVars
<1>1. CASE CaptureNext \/ EnvironmentNext \/ UNCHANGED vars
  BY <1>1
    DEF CaptureNext, PublishStatus, Enqueue, SaveCaptureMemory, CaptureStops,
        PublishAgain, EnvironmentNext, BeginDiscard, EndDiscard, WindowPasses, Quieten, vars
<1>2. CASE ProcessNext
  BY <1>2
    DEF ProcessNext, ProcessStep, Select, SelectFails, SelectExactly, Replay, Restore,
        RestoreFails, Build, UploadGeneration, RecordStaged, Publish, PublishFails, Promote,
        PromoteFails, Retire, MarkStatus, MarkFails, MarkMarker, Defer, DeferMarker,
        StepFails, RunStops
<1>3. CASE PlanCleanup \/ CleanStatus \/ CleanStatusFails
  BY <1>3 DEF PlanCleanup, CleanStatus, CleanStatusFails, DeleteStatus
<1>4. CASE CleanPayload
  BY <1>4 DEF CleanPayload, DeletePayload
<1>5. CASE CleanPayloadFails
  BY <1>5 DEF CleanPayloadFails, DeletePayload
<1> QED BY <1>1, <1>2, <1>3, <1>4, <1>5 DEF Next, CleanupNext, CleanupStep

LEMMA NextDisjointRows ==
    ASSUME TypeInv, DisjointRows, [Next]_vars
    PROVE  DisjointRows'
<1>1. CASE PublishRaw
  <2>1. PICK captured \in SUBSET Articles, unchanged \in SUBSET Articles :
          /\ captured \cap unchanged = {}
          /\ raw' = [raw EXCEPT ![capture.job + 1] =
                        [captured |-> captured, unchanged |-> unchanged]]
    BY <1>1 DEF PublishRaw
  <2>2. \A j \in Jobs :
            \/ raw'[j] = raw[j]
            \/ raw'[j] = [captured |-> captured, unchanged |-> unchanged]
    BY <2>1 DEF TypeInv, TypeOK
  <2> QED BY <2>1, <2>2 DEF DisjointRows
<1>2. CASE ~ PublishRaw
  BY <1>2, RawOnlyLeaves DEF DisjointRows
<1> QED BY <1>1, <1>2


\* What a sound generation does to the memory it is built on.
LEMMA SoundKeeps ==
    ASSUME NEW gen, Sound(gen), gen.memory = Apply(gen.result, Memory), NEW a \in Articles
    PROVE  Memory[a] # 0 => gen.memory[a] # 0
<1>1. Withdrawn # 0 /\ Superseded # 0
  BY GenerationAssumption DEF Withdrawn, Superseded
<1>2. CASE a \in gen.result.superseded
  BY <1>1, <1>2 DEF Apply
<1>3. CASE a \notin gen.result.superseded /\ gen.result.outcome[a] = "written"
  BY <1>3 DEF Sound
<1>4. CASE a \notin gen.result.superseded /\ gen.result.outcome[a] \in {"removed", "refused"}
  BY <1>1, <1>4 DEF Apply
<1>5. CASE a \notin gen.result.superseded /\ gen.result.outcome[a] \notin {"written", "removed", "refused"}
  BY <1>5 DEF Apply
<1> QED BY <1>2, <1>3, <1>4, <1>5

\* No commit takes an article out of the memory: one that is withdrawn stays known as such.
LEMMA NextMemory ==
    ASSUME TypeInv, TransactionInv, CompletedInv, Undisturbed, [Next]_vars
    PROVE  /\ \A a \in Articles : Memory[a] # 0 => Memory'[a] # 0
           /\ Merged(Memory)'
<1>1. CASE pointer' = pointer
  BY <1>1 DEF Memory, CompletedInv, Merged
<1>2. CASE pointer' # pointer
  <2> DEFINE j   == Anchor(run.batch)
             gen == run.generation
  <2>1. Promote
    BY <1>2, NextTransactionInv DEF StagesNothing, RecordStaged
  <2>2. j \in Staged /\ status[j].staged = gen /\ Memory' = gen.memory
    BY <2>1, TransactionCommits DEF AnchorStatus
  <2> HIDE DEF j, gen
  <2>3. gen.memory = Apply(gen.result, Memory) /\ Sound(gen)
    BY <2>2 DEF TransactionInv, StagedInv, CompletedInv
  <2>4. Merged(Memory')
    BY <2>2, <2>3 DEF Sound
  <2> QED BY <2>2, <2>3, <2>4, SoundKeeps DEF Merged
<1> QED BY <1>1, <1>2

\* Raw is written for new jobs only.
LEMMA NextRaw ==
    ASSUME TypeInv, [Next]_vars
    PROVE  /\ capture.job <= capture'.job /\ capture.job \in Nat /\ capture'.job \in Nat
           /\ \A j \in Jobs : j <= capture.job => raw'[j] \in {raw[j], NoRaw}
<1> USE DEF bucketVars, b2Vars, captureVars
<1>0. capture.job \in Nat /\ capture'.job \in Nat
  BY NextTypeInv, GenerationAssumption DEF TypeInv, TypeOK
<1>1. CASE PublishRaw
  <2>1. PICK rows \in Rows : raw' = [raw EXCEPT ![capture.job + 1] = rows]
    BY <1>1 DEF PublishRaw, Rows
  <2>2. \A j \in Jobs : raw'[j] = raw[j] \/ j = capture.job + 1
    BY <2>1 DEF TypeInv, TypeOK
  <2>3. capture'.job = capture.job + 1
    BY <1>1 DEF PublishRaw
  <2> QED BY <1>0, <2>2, <2>3 DEF Jobs
<1>2. CASE ~ PublishRaw
  <2>1. \A j \in Jobs : raw'[j] \in {raw[j], NoRaw}
    BY <1>2, RawOnlyLeaves
  <2>2. capture'.job = capture.job
    <3>1. CASE CaptureNext
      <4>1. capture \in [pc : {"idle", "status", "marker", "memory"}, job : 0 .. JobCount,
                         captured : SUBSET Articles]
        BY DEF TypeInv, TypeOK
      <4> HIDE DEF bucketVars, b2Vars, captureVars
      <4>2. \/ capture' = IdleCapture(capture.job)
            \/ \E pc \in {"idle", "marker", "memory"} : capture' = [capture EXCEPT !.pc = pc]
            \/ \E articles : capture' = [capture EXCEPT !.pc = "marker", !.captured = articles]
        BY <1>2, <3>1 DEF CaptureNext, PublishStatus, Enqueue, SaveCaptureMemory, CaptureStops,
                          PublishAgain
      <4>3. CASE capture' = IdleCapture(capture.job)
        BY <4>3 DEF IdleCapture
      <4>4. CASE \E pc \in {"idle", "marker", "memory"} : capture' = [capture EXCEPT !.pc = pc]
        BY <4>1, <4>4
      <4>5. CASE \E articles :
                    capture' = [capture EXCEPT !.pc = "marker", !.captured = articles]
        BY <4>1, <4>5
      <4> QED BY <4>2, <4>3, <4>4, <4>5
    <3>2. CASE ~ CaptureNext
      <4>1. UNCHANGED capture
        <5>1. CASE EnvironmentNext \/ UNCHANGED vars
          BY <5>1 DEF EnvironmentNext, BeginDiscard, EndDiscard, WindowPasses, Quieten, vars
        <5>2. CASE ProcessNext
          BY <5>2
            DEF ProcessNext, ProcessStep, Select, SelectFails, SelectExactly, Replay, Restore,
                RestoreFails, Build, UploadGeneration, RecordStaged, Publish, PublishFails,
                Promote, PromoteFails, Retire, MarkStatus, MarkFails, MarkMarker, Defer,
                DeferMarker, StepFails, RunStops
        <5>3. CASE CleanupNext
          BY <5>3 DEF CleanupNext, CleanupStep, PlanCleanup, CleanPayload, CleanPayloadFails,
                      CleanStatus, CleanStatusFails, DeletePayload, DeleteStatus
        <5> QED BY <3>2, <5>1, <5>2, <5>3 DEF Next
      <4> QED BY <4>1
    <3> QED BY <3>1, <3>2
  <2> QED BY <1>0, <2>1, <2>2
<1> QED BY <1>1, <1>2

\* A generation stays sound while the Raws of its jobs can only go.
LEMMA SoundStays ==
    ASSUME TypeInv, [Next]_vars, NEW gen \in Generations, Sound(gen)
    PROVE  Sound(gen)'
<1> USE DEF Sound
<1>1. ASSUME NEW j \in Members(gen.batch)
      PROVE  /\ j <= capture'.job
             /\ raw'[j] # NoRaw =>
                   \A a \in raw'[j].captured : gen.result.outcome[a] # "unchanged"
  <2>1. j \in Jobs /\ j <= capture.job /\ j \in Nat
    BY BatchMembers DEF Generations, Jobs
  <2>2. raw'[j] \in {raw[j], NoRaw}
    BY <2>1, NextRaw
  <2>3. j <= capture'.job
    BY <2>1, NextRaw
  <2> QED BY <2>2, <2>3
<1>2. /\ Merged(gen.memory)
      /\ \A a \in Articles :
            gen.result.outcome[a] \in {"written", "refused"} => gen.memory[a] # 0
  OBVIOUS
<1> QED BY <1>1, <1>2 DEF Merged

\* A job of a run completes what its generation wrote, and the generation is committed.
LEMMA MarkRemembers ==
    ASSUME TypeInv, TransactionInv, CompletedInv, MarkStatus
    PROVE  /\ \A j \in Statuses' : Remembered(j, status[j])'
           /\ UNCHANGED raw
<1> DEFINE gen == run.generation
<1>1. UNCHANGED <<raw, pointer>> /\ run.pc = "mark"
  BY DEF MarkStatus
<1>2. PICK j \in Jobs :
        /\ j = NextToMark
        /\ status[j] \in StatusRecords /\ status[j] # NoStatus
        /\ \/ UNCHANGED status
           \/ status'[j] = StatusAfterSuccessfulDelivery(status[j], gen.result.outcome)
        /\ \A k \in Jobs \ {j} : status'[k] = status[k]
  BY MarkedStatus
<1>3. gen \in Generations /\ j \in Members(gen.batch)
  BY <1>1, <1>2, NextToMarkIsMember, RunGeneration DEF GenerationSteps
<1>4. Sound(gen)
  BY <1>1 DEF CompletedInv, GenerationSteps
<1>5. Memory = gen.memory /\ Memory' = Memory
  <2>1. pointer = PointerTo(gen)
    BY <1>1 DEF TransactionInv, ProgressInv
  <2> QED BY <1>1, <1>3, <2>1, PointerToMemory DEF Memory
<1>6. Statuses' \subseteq Jobs /\ \A k \in Statuses' \ {j} : Remembered(k, status[k])'
  BY <1>1, <1>2, <1>5 DEF Statuses, Remembered, CompletedInv
<1>7. \A a \in Articles : gen.result.outcome[a] \in {"written", "refused"} => Memory[a] # 0
  BY <1>4, <1>5 DEF Sound
<1> HIDE DEF gen
<1>8. Remembered(j, status[j])'
  <2>1. CASE UNCHANGED status
    BY <1>1, <1>2, <1>5, <2>1 DEF Statuses, Remembered, CompletedInv
  <2>2. CASE status'[j] = StatusAfterSuccessfulDelivery(status[j], gen.result.outcome)
    <3>1. \A a \in status'[j].completed :
             \/ a \in status[j].completed
             \/ gen.result.outcome[a] \in {"written", "refused", "unchanged"}
      BY <2>2 DEF StatusAfterSuccessfulDelivery, Completing
    <3>2. raw[j] # NoRaw => raw[j].captured \subseteq Articles
      BY <1>2 DEF TypeInv, TypeOK, Rows
    <3>3. Remembered(j, status[j])
      BY <1>2 DEF CompletedInv, Statuses
    <3>4. raw[j] # NoRaw => \A a \in raw[j].captured : gen.result.outcome[a] # "unchanged"
      BY <1>3, <1>4 DEF Sound
    <3>5. ASSUME raw[j] # NoRaw, NEW a \in status'[j].completed \cap raw[j].captured
          PROVE  Memory[a] # 0
      BY <1>7, <3>1, <3>2, <3>3, <3>4, <3>5 DEF Remembered
    <3> QED BY <1>1, <1>5, <3>5 DEF Remembered
  <2> QED BY <1>2, <2>1, <2>2
<1> QED BY <1>1, <1>6, <1>8

LEMMA NextCompletedInv ==
    ASSUME TypeInv, TransactionInv, IndexInv, CompletedInv, Unshadowed, Undisturbed, [Next]_vars
    PROVE  CompletedInv'
<1>1. DisjointRows'
  BY NextDisjointRows DEF CompletedInv
<1>2. Merged(Memory)' /\ \A a \in Articles : Memory[a] # 0 => Memory'[a] # 0
  BY NextMemory
<1>3. \A j \in Statuses' : Remembered(j, status[j])'
  <2>1. CASE MarkStatus
    BY <2>1, MarkRemembers
  <2>2. CASE RemembersOnly
    <3> SUFFICES ASSUME NEW j \in Jobs, status'[j] # NoStatus, raw'[j] # NoRaw,
                        NEW a \in status'[j].completed \cap raw'[j].captured
                 PROVE  Memory'[a] # 0
      BY DEF Statuses, Remembered
    <3>1. raw'[j] = raw[j]
      BY <2>2 DEF RemembersOnly
    <3>2. status[j] # NoStatus /\ a \in status[j].completed
      BY <2>2 DEF RemembersOnly
    <3>3. a \in Articles
      BY <3>1 DEF TypeInv, TypeOK, Rows
    <3>4. Memory[a] # 0
      BY <3>1, <3>2 DEF CompletedInv, Statuses, Remembered
    <3> QED BY <1>2, <3>3, <3>4
  <2> QED BY <2>1, <2>2, NextRemembers
<1>4. \A j \in Staged' : Sound(status[j].staged)'
  <2>1. CASE RecordStaged
    <3>1. \A j \in Staged' : status'[j].staged = run.generation
      BY <2>1, TransactionStages DEF RecordStaged
    <3>2. Sound(run.generation) /\ run.generation \in Generations
      BY <2>1, RunGeneration DEF RecordStaged, CompletedInv, GenerationSteps
    <3>3. ASSUME NEW gen, gen = run.generation PROVE Sound(gen)'
      BY <3>2, <3>3, SoundStays
    <3> QED BY <3>1, <3>3 DEF Sound
  <2>2. ASSUME Staged' \subseteq Staged,
               \A j \in Staged' : status'[j].staged = status[j].staged
        PROVE  \A j \in Staged' : Sound(status[j].staged)'
    <3> SUFFICES ASSUME NEW j \in Staged' PROVE Sound(status[j].staged)'
      OBVIOUS
    <3>1. j \in Staged /\ Sound(status[j].staged)
      BY <2>2 DEF CompletedInv
    <3>2. status[j].staged \in Generations
      BY <3>1, StagedMembers DEF TypeInv, TypeOK, StatusRecords
    <3>3. ASSUME NEW gen, gen = status[j].staged PROVE Sound(gen)'
      BY <3>1, <3>2, <3>3, SoundStays
    <3> QED BY <2>2, <3>3 DEF Sound
  <2>3. CASE Promote
    BY <2>2, <2>3, TransactionCommits DEF Promote
  <2>4. CASE StagesNothing
    BY <2>2, <2>4 DEF StagesNothing
  <2> QED BY <2>1, <2>3, <2>4, NextTransactionInv
<1>5. run'.pc \in GenerationSteps => Sound(run.generation)'
  <2>1. CASE Build
    BY <2>1, BuildsSound
  <2>2. CASE Replay
    <3>1. run'.generation = AnchorStatus.staged
      BY <2>2 DEF Replay, TypeInv, TypeOK, RunRecords
    <3>2. Anchor(run.batch) \in Staged /\ AnchorStatus = status[Anchor(run.batch)]
      BY <2>2, WorkflowAnchor, StagedMembers DEF Replay, WorkflowSteps, AnchorStatus
    <3>3. AnchorStatus.staged \in Generations /\ Sound(AnchorStatus.staged)
      BY <3>2, StagedMembers DEF CompletedInv, TypeInv, TypeOK, StatusRecords
    <3>4. ASSUME NEW gen, gen = AnchorStatus.staged PROVE Sound(gen)'
      BY <3>3, <3>4, SoundStays
    <3> QED BY <3>1, <3>4 DEF Sound
  <2>3. CASE run.pc \in GenerationSteps /\ run'.generation = run.generation
    <3>1. Sound(run.generation) /\ run.generation \in Generations
      BY <2>3, RunGeneration DEF CompletedInv
    <3>2. ASSUME NEW gen, gen = run.generation PROVE Sound(gen)'
      BY <3>1, <3>2, SoundStays
    <3> QED BY <2>3, <3>2 DEF Sound
  <2> QED BY <2>1, <2>2, <2>3, NextGeneration
<1> QED BY <1>1, <1>2, <1>3, <1>4, <1>5 DEF CompletedInv

LEMMA InitCompletedInv == Init => CompletedInv
<1> SUFFICES ASSUME Init PROVE CompletedInv
  OBVIOUS
<1>1. Memory = [a \in Articles |-> 0]
  BY DEF Init, Memory, Seed
<1>2. Merged(Memory)
  BY <1>1, GenerationAssumption DEF Merged, Superseded
<1> QED BY <1>2 DEF Init, IdleRun, CompletedInv, DisjointRows, Staged, StagedJobs, Statuses,
                    GenerationSteps

LEMMA CompletedInvAlways ==
    ASSUME Undisturbed
    PROVE  Spec /\ []Unshadowed => [](TypeInv /\ TransactionInv /\ IndexInv /\ CompletedInv)
<1>1. TypeInv /\ TransactionInv /\ IndexInv /\ CompletedInv /\ Unshadowed /\ [Next]_vars
        => CompletedInv'
  BY NextCompletedInv
<1> QED BY <1>1, InitCompletedInv, IndexInvAlways, PTL DEF Spec

\* A view that is a cut of the memory, or of a generation over it, accounts for whatever the
\* memory knows of.
LEMMA CutsAccount ==
    ASSUME TypeInv, TransactionInv, IndexInv, CompletedInv,
           NEW a \in Articles, Memory[a] # 0, NEW k \in IndexSteps
    PROVE  AccountsFor(index[k], a)
<1>1. ASSUME NEW view, Merged(view), view[a] # 0,
             \A b \in Aliases(a) : index[k][b] = view[b]
      PROVE  AccountsFor(index[k], a)
  <2>1. a \in Aliases(a)
    BY DEF Aliases
  <2> QED BY <1>1, <2>1 DEF AccountsFor, Merged
<1>2. CASE Staged = {}
  BY <1>1, <1>2 DEF IndexInv, DeliveryBetweenCommits, CompletedInv
<1>3. CASE Staged # {}
  <2>1. PICK i \in Staged : TRUE
    BY <1>3
  <2> DEFINE gen == status[i].staged
  <2>2. gen.memory = Apply(gen.result, Memory) /\ Sound(gen)
    BY <2>1 DEF TransactionInv, StagedInv, CompletedInv
  <2>3. Aliases(a) \in Stories
    BY DEF Stories
  <2>4. PICK cut \in 1 .. 4 : \A l \in IndexSteps, b \in Aliases(a) :
            index[l][b] = IF l <= cut THEN gen.memory[b] ELSE Memory[b]
    BY <1>3, <2>1, <2>3 DEF IndexInv, DeliveryBetweenCommits
  <2> HIDE DEF gen
  <2>5. gen.memory[a] # 0 /\ Merged(gen.memory)
    BY <2>2, SoundKeeps DEF Sound
  <2>6. CASE k <= cut
    BY <1>1, <2>4, <2>5, <2>6
  <2>7. CASE ~ (k <= cut)
    BY <1>1, <2>4, <2>7 DEF CompletedInv
  <2> QED BY <2>6, <2>7
<1> QED BY <1>2, <1>3

LEMMA CompletedAccounted ==
    ASSUME TypeInv, TransactionInv, IndexInv, CompletedInv
    PROVE  CompletedIsDelivered
<1> SUFFICES ASSUME NEW j \in Statuses, raw[j] # NoRaw,
                    NEW a \in status[j].completed \cap raw[j].captured, NEW k \in IndexSteps
             PROVE  AccountsFor(index[k], a)
  BY DEF CompletedIsDelivered
<1>1. Memory[a] # 0 /\ a \in Articles
  BY DEF CompletedInv, Remembered, Statuses, TypeInv, TypeOK, Rows
<1> QED BY <1>1, CutsAccount

\* As long as no run meets a shadowed row, in batches of whatever size, an article that a job
\* captured and counts as completed is accounted for by every index, also while the next
\* publication is half way: the index lists it, or the alias it was merged with, unless a
\* result withdrew them.
THEOREM CompletedStaysDelivered ==
    ASSUME "operator" \notin Events, "outage" \notin Events
    PROVE  Spec /\ []Unshadowed => []CompletedIsDelivered
<1>1. Undisturbed
  BY DEF Undisturbed
<1> QED BY <1>1, CompletedAccounted, CompletedInvAlways, PTL

\* Runs of one job meet none: then the property holds as it stands.
THEOREM AloneCompletedDelivered ==
    ASSUME "operator" \notin Events, "outage" \notin Events, MaxBatch = 1
    PROVE  Spec => []CompletedIsDelivered
<1>1. Init => DisjointRows
  BY InitCompletedInv DEF CompletedInv
<1>2. TypeInv /\ DisjointRows /\ [Next]_vars => DisjointRows'
  BY NextDisjointRows
<1>3. TypeInv /\ DisjointRows => Unshadowed
  BY AloneUnshadowed
<1>4. Spec => []TypeInv
  BY TypeInvAlways
<1>5. Spec => []Unshadowed
  BY <1>1, <1>2, <1>3, <1>4, PTL DEF Spec
<1> QED BY <1>5, CompletedStaysDelivered, PTL

=============================================================================
