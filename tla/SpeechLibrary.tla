--------------------------- MODULE SpeechLibrary ---------------------------
(***************************************************************************)
(* The manual job that gives a library its read-aloud audio.  A run makes  *)
(* the missing segments, stages them in a local outbox, uploads them and   *)
(* publishes every chapter whose segments are all confirmed.  A run may be *)
(* killed, be stopped by a file or by a fatal error, and is started again  *)
(* by hand; the outbox, the bucket and the checkpoint survive.  One run at *)
(* a time holds the port lock.  Meanwhile the online service may make the  *)
(* same segment for a listener.                                            *)
(*                                                                         *)
(* One voice; a segment stands for a key of the plan.  Worker and rate     *)
(* limits are left out: any number of segments is in progress, as far as   *)
(* the outbox has room.                                                    *)
(***************************************************************************)
EXTENDS Integers, FiniteSets

CONSTANTS
  Segments,     \* audio keys of the plan
  Chapters,     \* chapters of the plan
  Needs,        \* [Chapters -> the segments of the chapter]
  Room,         \* audio the outbox may hold, in reservations (20 GiB)
  MaxRuns,      \* bound of the model: runs started
  MaxFaults,    \* bound of the model: kills, stops, failures of a call
  None

Online == 0
Makers == 0..MaxRuns     \* who made an MP3: the online service, or a run

ASSUME LibraryAssumption ==
  /\ Needs \in [Chapters -> (SUBSET Segments) \ {{}}]
  /\ IsFiniteSet(Segments)
  /\ Room \in Nat
  /\ MaxRuns \in Nat
  /\ MaxFaults \in Nat
  /\ None \notin Makers
  /\ \A c \in Chapters : None \notin [Needs[c] -> Makers]

VARIABLES
  outbox,       \* [Segments -> the row of the local database]
  descriptor,   \* [Segments -> whose MP3 the descriptor in the bucket names]
  objects,      \* MP3s in the bucket, as <<segment, maker>>
  manifests,    \* chapter manifests in the bucket, as <<chapter, MP3s>>
  index,        \* [Chapters -> the MP3s of the manifest its index names]
  checkpoint,   \* chapters of the local checkpoint
  runs,         \* runs started so far
  up,           \* whether a run is in progress
  stopped,      \* why its stop signal is set, or "no"
  pass,         \* its first or second pass over the plan
  step,         \* [Segments -> the next step for the segment]
  found,        \* [Segments -> the MP3 the segment was delivered with]
  remaining,    \* [Chapters -> segments not delivered yet]
  publication,  \* [Chapters -> the next step of its publication]
  reserved,     \* reservations in the outbox
  online,       \* [Segments -> the online service, making the segment]
  faults        \* faults so far

durable == <<outbox, descriptor, objects, manifests, index, checkpoint>>
run == <<runs, up, pass>>
work == <<step, found, remaining, publication, reserved>>
vars == <<outbox, descriptor, objects, manifests, index, checkpoint, runs, up, stopped, pass,
          step, found, remaining, publication, reserved, online, faults>>

Rows == [state : {"absent", "pending", "uploaded"}, audio : Makers \cup {None}]
NoRow == [state |-> "absent", audio |-> None]
Producing == {"todo", "lookup", "gate", "reserved", "synth", "made"}
Uploading == {"get", "put", "describe", "verify", "confirm"}
Steps == Producing \cup Uploading \cup {"skip", "queued", "delivered", "failed", "dropped"}
Publishing == {"manifest", "index", "report", "commit"}
Publications == Publishing \cup {"none", "ready", "done", "dropped"}

Stopped == stopped # "no"
Fatal == IF stopped = "file" THEN "file" ELSE "error"
Pending == {s \in Segments : outbox[s].state = "pending"}
Consumers(s) == {c \in Chapters \ checkpoint : s \in Needs[c]}
Wanted == UNION {Needs[c] : c \in Chapters \ checkpoint}

Init ==
  /\ outbox = [s \in Segments |-> NoRow]
  /\ descriptor = [s \in Segments |-> None]
  /\ objects = {}
  /\ manifests = {}
  /\ index = [c \in Chapters |-> None]
  /\ checkpoint = {}
  /\ runs = 0
  /\ up = FALSE
  /\ stopped = "no"
  /\ pass = 1
  /\ step = [s \in Segments |-> "skip"]
  /\ found = [s \in Segments |-> None]
  /\ remaining = [c \in Chapters |-> 0]
  /\ publication = [c \in Chapters |-> "none"]
  /\ reserved = 0
  /\ online = [s \in Segments |-> "idle"]
  /\ faults = 0

---------------------------------------------------------------------------
(* Mutant of Start: what is already staged is left to nobody. *)
StartLeavingStaged ==
  /\ ~up /\ runs < MaxRuns
  /\ up' = TRUE
  /\ runs' = runs + 1
  /\ stopped' = "no"
  /\ pass' = 1
  /\ step' = [s \in Segments |-> IF s \in Wanted \ Pending THEN "todo" ELSE "skip"]
  /\ found' = [s \in Segments |-> None]
  /\ remaining' = [c \in Chapters |-> IF c \in checkpoint THEN 0 ELSE Cardinality(Needs[c])]
  /\ publication' = [c \in Chapters |-> "none"]
  /\ reserved' = 0
  /\ UNCHANGED <<durable, online, faults>>

(* A run: what is already staged goes to the uploaders, the other segments *)
(* of unfinished chapters to the workers.                                  *)
Start ==
  /\ ~up /\ runs < MaxRuns
  /\ up' = TRUE
  /\ runs' = runs + 1
  /\ stopped' = "no"
  /\ pass' = 1
  /\ step' = [s \in Segments |-> IF s \notin Wanted THEN "skip"
                                 ELSE IF s \in Pending THEN "queued" ELSE "todo"]
  /\ found' = [s \in Segments |-> None]
  /\ remaining' = [c \in Chapters |-> IF c \in checkpoint THEN 0 ELSE Cardinality(Needs[c])]
  /\ publication' = [c \in Chapters |-> "none"]
  /\ reserved' = 0
  /\ UNCHANGED <<durable, online, faults>>

Move(s, next) == step' = [step EXCEPT ![s] = next]

(* The MP3 of a segment goes to every chapter that needs it; a chapter     *)
(* that has all of them is ready to be published.                          *)
Deliver(s, audio) ==
  /\ Move(s, "delivered")
  /\ found' = [found EXCEPT ![s] = audio]
  /\ remaining' = [c \in Chapters |-> remaining[c] - (IF c \in Consumers(s) THEN 1 ELSE 0)]
  /\ publication' = [c \in Chapters |->
       IF c \in Consumers(s) /\ remaining[c] = 1 THEN "ready" ELSE publication[c]]

(* The local outbox knows the segment from an earlier run, or not. *)
LookupOutbox(s) ==
  /\ up /\ step[s] = "todo"
  /\ \/ /\ outbox[s].state = "uploaded"
        /\ Deliver(s, outbox[s].audio)
     \/ /\ outbox[s].state = "pending"
        /\ Move(s, "queued")
        /\ UNCHANGED <<found, remaining, publication>>
     \/ /\ outbox[s].state = "absent"
        /\ Move(s, IF Stopped THEN "dropped" ELSE "lookup")
        /\ UNCHANGED <<found, remaining, publication>>
  /\ UNCHANGED <<durable, run, stopped, reserved, online, faults>>

(* Mutant of LookupBucket: no descriptor is taken for one. *)
LookupBucketBlind(s) ==
  /\ up /\ step[s] = "lookup"
  /\ Deliver(s, descriptor[s])
  /\ UNCHANGED <<durable, run, stopped, reserved, online, faults>>

(* The bucket; a failure is retried until the run is stopped. *)
LookupBucket(s) ==
  /\ up /\ step[s] = "lookup"
  /\ \/ /\ descriptor[s] # None
        /\ Deliver(s, descriptor[s])
     \/ /\ descriptor[s] = None
        /\ Move(s, "gate")
        /\ UNCHANGED <<found, remaining, publication>>
     \/ /\ Stopped
        /\ Move(s, "dropped")
        /\ UNCHANGED <<found, remaining, publication>>
  /\ UNCHANGED <<durable, run, stopped, reserved, online, faults>>

(* Mutant of Reserve: the reservations of the others are not counted. *)
ReserveAlone(s) ==
  /\ up /\ step[s] = "gate"
  /\ ~Stopped
  /\ Cardinality(Pending) + 1 < Room
  /\ reserved' = reserved + 1
  /\ Move(s, "reserved")
  /\ UNCHANGED <<durable, run, stopped, found, remaining, publication, online, faults>>

(* A segment is made only when the outbox has room for it as well. *)
Reserve(s) ==
  /\ up /\ step[s] = "gate"
  /\ \/ /\ ~Stopped
        /\ Cardinality(Pending) + reserved + 1 < Room
        /\ reserved' = reserved + 1
        /\ Move(s, "reserved")
     \/ /\ Stopped
        /\ Move(s, "dropped")
        /\ UNCHANGED reserved
  /\ UNCHANGED <<durable, run, stopped, found, remaining, publication, online, faults>>

(* The worker's permit and the rate limiter let the request pass. *)
Send(s) ==
  /\ up /\ step[s] = "reserved"
  /\ \/ /\ ~Stopped
        /\ Move(s, "synth")
        /\ UNCHANGED reserved
     \/ /\ Stopped
        /\ Move(s, "dropped")
        /\ reserved' = reserved - 1
  /\ UNCHANGED <<durable, run, stopped, found, remaining, publication, online, faults>>

(* The vendor answers; a failure may be fatal for the run. *)
Synthesize(s) ==
  /\ up /\ step[s] = "synth"
  /\ \/ /\ Move(s, "made")
        /\ UNCHANGED <<stopped, reserved, faults>>
     \/ /\ faults < MaxFaults
        /\ faults' = faults + 1
        /\ Move(s, "failed")
        /\ reserved' = reserved - 1
        /\ stopped' \in {stopped, Fatal}
  /\ UNCHANGED <<durable, run, found, remaining, publication, online>>

(* The MP3 becomes durable in one transaction, also after a stop. *)
Stage(s) ==
  /\ up /\ step[s] = "made"
  /\ \/ /\ outbox[s].state = "absent"
        /\ outbox' = [outbox EXCEPT ![s] = [state |-> "pending", audio |-> runs]]
        /\ Move(s, "queued")
        /\ UNCHANGED <<stopped, faults>>
     \/ /\ outbox[s].state = "absent" => faults < MaxFaults
        /\ faults' = faults + (IF outbox[s].state = "absent" THEN 1 ELSE 0)
        /\ Move(s, "dropped")
        /\ stopped' = Fatal
        /\ UNCHANGED outbox
  /\ reserved' = reserved - 1
  /\ UNCHANGED <<descriptor, objects, manifests, index, checkpoint, run, found, remaining,
                 publication, online>>

---------------------------------------------------------------------------
(* Uploaders *)

Take(s) ==
  /\ up /\ step[s] = "queued" /\ ~Stopped
  /\ Move(s, "get")
  /\ UNCHANGED <<durable, run, stopped, found, remaining, publication, reserved, online, faults>>

(* One attempt: look, put the MP3, put its descriptor, read it again.  An  *)
(* MP3 that is already there is used as it is.                             *)
Upload(s) ==
  /\ up
  /\ \/ /\ step[s] = "get"
        /\ Move(s, IF descriptor[s] # None THEN "confirm" ELSE "put")
        /\ found' = [found EXCEPT ![s] = descriptor[s]]
        /\ UNCHANGED <<descriptor, objects>>
     \/ /\ step[s] = "put"
        /\ objects' = objects \cup {<<s, outbox[s].audio>>}
        /\ Move(s, "describe")
        /\ UNCHANGED <<descriptor, found>>
     \/ /\ step[s] = "describe"
        /\ descriptor' = [descriptor EXCEPT ![s] = outbox[s].audio]
        /\ Move(s, "verify")
        /\ UNCHANGED <<objects, found>>
     \/ /\ step[s] = "verify"
        /\ Move(s, IF descriptor[s] = outbox[s].audio THEN "confirm"
                   ELSE IF Stopped THEN "dropped" ELSE "get")
        /\ found' = [found EXCEPT ![s] = IF descriptor[s] = outbox[s].audio THEN descriptor[s] ELSE None]
        /\ UNCHANGED <<descriptor, objects>>
  /\ UNCHANGED <<outbox, manifests, index, checkpoint, run, stopped, remaining, publication,
                 reserved, online, faults>>

(* Mutant of UploadFails: a failed attempt is taken for a success. *)
UploadFailsForgiven(s) ==
  /\ up /\ step[s] \in Uploading \ {"confirm"}
  /\ faults < MaxFaults
  /\ faults' = faults + 1
  /\ Move(s, "confirm")
  /\ found' = [found EXCEPT ![s] = outbox[s].audio]
  /\ UNCHANGED <<durable, run, stopped, remaining, publication, reserved, online>>

(* An attempt fails after any of its calls; the next one starts afresh,    *)
(* unless the run is stopped: then the MP3 stays in the outbox.            *)
UploadFails(s) ==
  /\ up /\ step[s] \in Uploading \ {"confirm"}
  /\ \/ /\ faults < MaxFaults
        /\ faults' = faults + 1
     \/ /\ step[s] = "get" /\ Stopped
        /\ UNCHANGED faults
  /\ Move(s, IF Stopped THEN "dropped" ELSE "get")
  /\ UNCHANGED <<durable, run, stopped, found, remaining, publication, reserved, online>>

(* The outbox keeps the receipt and drops the MP3; the segment is there. *)
Confirm(s) ==
  /\ up /\ step[s] = "confirm"
  /\ \/ /\ outbox' = [outbox EXCEPT ![s] = [state |-> "uploaded", audio |-> found[s]]]
        /\ Deliver(s, found[s])
        /\ UNCHANGED <<stopped, faults>>
     \/ /\ faults < MaxFaults
        /\ faults' = faults + 1
        /\ Move(s, "dropped")
        /\ stopped' = Fatal
        /\ UNCHANGED <<outbox, found, remaining, publication>>
  /\ UNCHANGED <<descriptor, objects, manifests, index, checkpoint, run, reserved, online>>

---------------------------------------------------------------------------
(* Publishers *)

Advance(c, next) == publication' = [publication EXCEPT ![c] = next]
Contents(c) == [s \in Needs[c] |-> found[s]]

(* Mutant of Publish: the index is switched before the manifest is there. *)
PublishIndexFirst(c) ==
  /\ up
  /\ \/ /\ publication[c] = "ready" /\ ~Stopped
        /\ Advance(c, "index")
        /\ UNCHANGED <<manifests, index, checkpoint>>
     \/ /\ publication[c] = "index"
        /\ index' = [index EXCEPT ![c] = Contents(c)]
        /\ Advance(c, "manifest")
        /\ UNCHANGED <<manifests, checkpoint>>
     \/ /\ publication[c] = "manifest"
        /\ manifests' = manifests \cup {<<c, Contents(c)>>}
        /\ Advance(c, "commit")
        /\ UNCHANGED <<index, checkpoint>>
     \/ /\ publication[c] = "commit"
        /\ checkpoint' = checkpoint \cup {c}
        /\ Advance(c, "done")
        /\ UNCHANGED <<manifests, index>>
  /\ UNCHANGED <<outbox, descriptor, objects, run, stopped, step, found, remaining, reserved, online, faults>>

(* The manifest, then the index, then the local report and checkpoint. *)
Publish(c) ==
  /\ up
  /\ \/ /\ publication[c] = "ready" /\ ~Stopped
        /\ Advance(c, "manifest")
        /\ UNCHANGED <<manifests, index, checkpoint>>
     \/ /\ publication[c] = "manifest"
        /\ manifests' = manifests \cup {<<c, Contents(c)>>}
        /\ Advance(c, "index")
        /\ UNCHANGED <<index, checkpoint>>
     \/ /\ publication[c] = "index"
        /\ index' = [index EXCEPT ![c] = Contents(c)]
        /\ Advance(c, "report")
        /\ UNCHANGED <<manifests, checkpoint>>
     \/ /\ publication[c] = "report"
        /\ Advance(c, "commit")
        /\ UNCHANGED <<manifests, index, checkpoint>>
     \/ /\ publication[c] = "commit"
        /\ checkpoint' = checkpoint \cup {c}
        /\ Advance(c, "done")
        /\ UNCHANGED <<manifests, index>>
  /\ UNCHANGED <<outbox, descriptor, objects, run, stopped, step, found, remaining, reserved, online, faults>>

(* A stop ends the retries of a remote write; a local write that fails     *)
(* stops the run.                                                          *)
PublishFails(c) ==
  /\ up
  /\ \/ /\ publication[c] \in {"manifest", "index"} /\ Stopped
        /\ UNCHANGED <<stopped, faults>>
     \/ /\ publication[c] \in {"report", "commit"}
        /\ faults < MaxFaults
        /\ faults' = faults + 1
        /\ stopped' = Fatal
  /\ Advance(c, "dropped")
  /\ UNCHANGED <<durable, run, step, found, remaining, reserved, online>>

---------------------------------------------------------------------------
WorkersDone == \A s \in Segments : step[s] \notin Producing
Failed == {s \in Segments : step[s] = "failed"}

(* Failed segments are tried once more. *)
SecondPass ==
  /\ up /\ WorkersDone /\ ~Stopped /\ pass = 1 /\ Failed # {}
  /\ pass' = 2
  /\ step' = [s \in Segments |-> IF s \in Failed THEN "todo" ELSE step[s]]
  /\ UNCHANGED <<durable, runs, up, stopped, found, remaining, publication, reserved, online, faults>>

(* The run ends when its workers, uploaders and publishers have; a stop    *)
(* leaves the queues as they are.                                          *)
Finish ==
  /\ up /\ WorkersDone
  /\ Stopped \/ pass = 2 \/ Failed = {}
  /\ \A s \in Segments : step[s] \notin Uploading /\ (step[s] = "queued" => Stopped)
  /\ \A c \in Chapters : publication[c] \notin Publishing /\ (publication[c] = "ready" => Stopped)
  /\ up' = FALSE
  /\ UNCHANGED <<durable, runs, stopped, pass, work, online, faults>>

(* The operator creates the STOP file. *)
Stop ==
  /\ up /\ ~Stopped /\ faults < MaxFaults
  /\ faults' = faults + 1
  /\ stopped' = "file"
  /\ UNCHANGED <<durable, run, work, online>>

(* The process dies. *)
Crash ==
  /\ up /\ faults < MaxFaults
  /\ faults' = faults + 1
  /\ up' = FALSE
  /\ stopped' = "no"
  /\ step' = [s \in Segments |-> "skip"]
  /\ publication' = [c \in Chapters |-> "none"]
  /\ reserved' = 0
  /\ UNCHANGED <<durable, runs, pass, found, remaining, online>>

(* The online service misses the segment, makes it and stores it. *)
OnlineStep(s) ==
  /\ \/ /\ online[s] = "idle" /\ descriptor[s] = None
        /\ online' = [online EXCEPT ![s] = "made"]
        /\ UNCHANGED <<descriptor, objects>>
     \/ /\ online[s] = "made"
        /\ online' = [online EXCEPT ![s] = "put"]
        /\ objects' = objects \cup {<<s, Online>>}
        /\ UNCHANGED descriptor
     \/ /\ online[s] = "put"
        /\ online' = [online EXCEPT ![s] = "done"]
        /\ descriptor' = [descriptor EXCEPT ![s] = Online]
        /\ UNCHANGED objects
  /\ UNCHANGED <<outbox, manifests, index, checkpoint, run, stopped, work, faults>>

SegmentStep(s) ==
  \/ LookupOutbox(s) \/ LookupBucket(s) \/ Reserve(s) \/ Send(s) \/ Synthesize(s) \/ Stage(s)
  \/ Take(s) \/ Upload(s) \/ Confirm(s)

Next ==
  \/ Start \/ SecondPass \/ Finish \/ Stop \/ Crash
  \/ \E s \in Segments : SegmentStep(s) \/ UploadFails(s) \/ OnlineStep(s)
  \/ \E c \in Chapters : Publish(c) \/ PublishFails(c)

Spec == Init /\ [][Next]_vars

(* A run goes on with whatever it can do, and its operator starts it again *)
(* after it ended; faults cease.                                           *)
Fairness ==
  /\ WF_vars(Start) /\ WF_vars(SecondPass) /\ WF_vars(Finish)
  /\ \A s \in Segments : WF_vars(SegmentStep(s)) /\ WF_vars(UploadFails(s) /\ Stopped)
  /\ \A c \in Chapters : WF_vars(Publish(c) \/ PublishFails(c))

FairSpec == Spec /\ Fairness

---------------------------------------------------------------------------
(* The variables have the values that the code gives them. *)
TypeOK ==
  /\ outbox \in [Segments -> Rows]
  /\ descriptor \in [Segments -> Makers \cup {None}]
  /\ objects \subseteq Segments \X Makers
  /\ \A m \in manifests : m[1] \in Chapters /\ m[2] \in [Needs[m[1]] -> Makers]
  /\ DOMAIN index = Chapters
  /\ \A c \in Chapters : index[c] \in [Needs[c] -> Makers] \cup {None}
  /\ checkpoint \subseteq Chapters
  /\ runs \in 0..MaxRuns
  /\ up \in BOOLEAN
  /\ stopped \in {"no", "file", "error"}
  /\ pass \in {1, 2}
  /\ step \in [Segments -> Steps]
  /\ found \in [Segments -> Makers \cup {None}]
  /\ remaining \in [Chapters -> Int]
  /\ publication \in [Chapters -> Publications]
  /\ reserved \in Int
  /\ online \in [Segments -> {"idle", "made", "put", "done"}]
  /\ faults \in 0..MaxFaults

ChaptersArePlayable ==
  /\ \A c \in Chapters : index[c] # None => <<c, index[c]>> \in manifests
  /\ \A m \in manifests : \A s \in Needs[m[1]] : <<s, m[2][s]>> \in objects

CheckpointIsPublished ==
  \A c \in checkpoint :
    /\ index[c] # None
    /\ \A s \in Needs[c] : outbox[s].state # "pending" /\ descriptor[s] # None

(* What readers of the bucket find is complete: the index of a chapter     *)
(* names a manifest that is there, and a manifest has an MP3 in the bucket *)
(* for every segment, although the online service may put a descriptor of  *)
(* its own at any moment (library_pool.py: the upload is verified).  A     *)
(* chapter is in the checkpoint, and so never looked at again, only when   *)
(* it is published and none of its MP3s waits in the outbox.               *)
PublishedIsPlayable == ChaptersArePlayable /\ CheckpointIsPublished

RemainingIsExact ==
  up => \A c \in Chapters \ checkpoint :
          remaining[c] = Cardinality({s \in Needs[c] : step[s] # "delivered"})

OutboxBounded ==
  /\ Room > 0 => Cardinality(Pending) + reserved < Room
  /\ up => reserved = Cardinality({s \in Segments : step[s] \in {"reserved", "synth", "made"}})

(* The counters of a run agree with its segments.  A segment is delivered  *)
(* once per run: what a chapter waits for is exactly what was not          *)
(* delivered, also when segments are shared, resumed from the outbox or    *)
(* tried a second time.  Staged MP3s and reservations together stay below  *)
(* the size of the outbox, and every reservation belongs to a segment in   *)
(* the making.                                                             *)
CountersAreExact == RemainingIsExact /\ OutboxBounded

(* An MP3 that was staged is in the outbox or can be found in the bucket,  *)
(* for ever after.                                                         *)
Kept(s) == outbox[s].state = "pending" \/ descriptor[s] # None
NothingIsLost == [][\A s \in Segments : Kept(s) => Kept(s)']_vars

(* When faults cease and the job is started again, all is published. *)
LibraryGetsPublished == <>[](checkpoint = Chapters)
=============================================================================
