------------------------ MODULE SpeechLibraryProofs ------------------------
(***************************************************************************)
(* Theorems about SpeechLibrary, for every plan, every size of the outbox, *)
(* and any number of runs and faults.                                      *)
(***************************************************************************)
EXTENDS SpeechLibrary, FiniteSetTheorems, TLAPS

(* What is known of a segment, of what holds it and of the run's step for  *)
(* it: an MP3 that a descriptor, a receipt or a delivery names is in the   *)
(* bucket; what is made anew belongs to no finished chapter.               *)
BucketOK(s) ==
  /\ descriptor[s] # None => <<s, descriptor[s]>> \in objects
  /\ online[s] \in {"put", "done"} => <<s, Online>> \in objects
  /\ outbox[s].state = "pending" => outbox[s].audio \in Makers
  /\ outbox[s].state = "uploaded" =>
       outbox[s].audio \in Makers /\ <<s, outbox[s].audio>> \in objects /\ descriptor[s] # None

StepOK(s) ==
  /\ step[s] \in {"lookup", "gate", "reserved", "synth", "made"} => outbox[s].state = "absent"
  /\ step[s] \in {"gate", "reserved", "synth", "made"} => \A c \in checkpoint : s \notin Needs[c]
  /\ step[s] \in Uploading \cup {"queued"} => outbox[s].state = "pending"
  /\ step[s] \in {"describe", "verify"} => <<s, outbox[s].audio>> \in objects
  /\ step[s] \in {"confirm", "delivered"} =>
       found[s] \in Makers /\ <<s, found[s]>> \in objects /\ descriptor[s] # None
  /\ step[s] = "delivered" => outbox[s].state # "pending"

SegmentOK(s) == BucketOK(s) /\ (up => StepOK(s))

(* A chapter is published when all of it was delivered, in this order. *)
ChapterOK(c) ==
  /\ publication[c] \in Publishing \cup {"ready", "done"} => \A s \in Needs[c] : step[s] = "delivered"
  /\ publication[c] \in {"index", "report", "commit"} => <<c, Contents(c)>> \in manifests
  /\ publication[c] \in {"report", "commit"} => index[c] # None

Inductive ==
  /\ TypeOK
  /\ \A s \in Segments : SegmentOK(s)
  /\ up => \A c \in Chapters : ChapterOK(c)
  /\ PublishedIsPlayable
  /\ CountersAreExact
  /\ reserved \in Nat
---------------------------------------------------------------------------
LEMMA PlanFacts ==
  /\ \A c \in Chapters : Needs[c] \subseteq Segments
  /\ \A c \in Chapters : IsFiniteSet(Needs[c])
  /\ None \notin Makers
  /\ Online \in Makers
<1>1. \A c \in Chapters : Needs[c] \subseteq Segments
  BY LibraryAssumption
<1>2. \A c \in Chapters : IsFiniteSet(Needs[c])
  BY <1>1, LibraryAssumption, FS_Subset
<1> QED BY <1>1, <1>2, LibraryAssumption DEF Makers, Online

(* A delivered chapter has a manifest to show. *)
LEMMA ContentsAreMade ==
  ASSUME Inductive, up, NEW c \in Chapters, publication[c] \in Publishing \cup {"ready", "done"}
  PROVE  /\ Contents(c) \in [Needs[c] -> Makers]
         /\ \A s \in Needs[c] : /\ step[s] = "delivered" /\ found[s] \in Makers
                                /\ <<s, found[s]>> \in objects /\ descriptor[s] # None
                                /\ outbox[s].state # "pending"
<1>1. \A s \in Needs[c] : step[s] = "delivered"
  BY DEF Inductive, ChapterOK
<1>2. \A s \in Needs[c] : s \in Segments
  BY PlanFacts
<1>3. \A s \in Needs[c] : /\ found[s] \in Makers /\ <<s, found[s]>> \in objects
                          /\ descriptor[s] # None /\ outbox[s].state # "pending"
  BY <1>1, <1>2 DEF Inductive, SegmentOK, StepOK
<1> QED BY <1>1, <1>3 DEF Contents

---------------------------------------------------------------------------
(* Types *)

LEMMA DeliverKeepsTypes ==
  ASSUME TypeOK, NEW s \in Segments, NEW audio \in Makers \cup {None}, Deliver(s, audio)
  PROVE  /\ step' \in [Segments -> Steps]
         /\ found' \in [Segments -> Makers \cup {None}]
         /\ remaining' \in [Chapters -> Int]
         /\ publication' \in [Chapters -> Publications]
<1>1. step' \in [Segments -> Steps]
  BY DEF TypeOK, Deliver, Move, Steps
<1>2. found' \in [Segments -> Makers \cup {None}]
  BY DEF TypeOK, Deliver
<1>3. remaining' \in [Chapters -> Int]
  BY DEF TypeOK, Deliver
<1>4. publication' \in [Chapters -> Publications]
  BY DEF TypeOK, Deliver, Publications
<1> QED BY <1>1, <1>2, <1>3, <1>4

LEMMA TypesKept ==
  ASSUME Inductive, [Next]_vars
  PROVE  TypeOK'
<1> USE LibraryAssumption
<1>0. TypeOK
  BY DEF Inductive
<1>1. CASE Start
  <2>1. remaining' \in [Chapters -> Int]
    <3>1. \A c \in Chapters : Cardinality(Needs[c]) \in Int
      BY FS_CardinalityType, PlanFacts
    <3> QED BY <1>1, <3>1 DEF Start
  <2>2. runs' \in 0..MaxRuns /\ up' \in BOOLEAN /\ stopped' = "no" /\ pass' = 1 /\ reserved' \in Int
    BY <1>0, <1>1 DEF TypeOK, Start
  <2>3. step' \in [Segments -> Steps]
    BY <1>1 DEF Start, Steps, Producing
  <2>4. found' \in [Segments -> Makers \cup {None}] /\ publication' \in [Chapters -> Publications]
    BY <1>1 DEF Start, Publications
  <2> QED BY <1>0, <1>1, <2>1, <2>2, <2>3, <2>4 DEF TypeOK, Start, durable
<1>2. CASE SecondPass
  <2>1. step' \in [Segments -> Steps]
    BY <1>0, <1>2 DEF TypeOK, SecondPass, Steps, Producing
  <2> QED BY <1>0, <1>2, <2>1 DEF TypeOK, SecondPass, durable
<1>3. CASE Finish
  BY <1>0, <1>3 DEF TypeOK, Finish, durable, work
<1>4. CASE Stop
  BY <1>0, <1>4 DEF TypeOK, Stop, durable, run, work
<1>5. CASE Crash
  <2>1. step' \in [Segments -> Steps] /\ publication' \in [Chapters -> Publications]
    BY <1>5 DEF Crash, Steps, Publications
  <2>2. faults \in 0..MaxFaults /\ faults < MaxFaults /\ faults' = faults + 1
    BY <1>0, <1>5 DEF TypeOK, Crash
  <2>3. faults' \in 0..MaxFaults
    BY <2>2
  <2>4. reserved' \in Int /\ stopped' = "no"
    BY <1>5 DEF Crash
  <2>6. up' \in BOOLEAN
    BY <1>5 DEF Crash
  <2>5. UNCHANGED <<durable, runs, pass, found, remaining, online>>
    BY <1>5 DEF Crash
  <2> QED BY <1>0, <2>1, <2>3, <2>4, <2>5, <2>6 DEF TypeOK, durable
<1>6. ASSUME NEW s \in Segments, SegmentStep(s)
      PROVE  TypeOK'
  <2>0. outbox[s].audio \in Makers \cup {None} /\ descriptor[s] \in Makers \cup {None}
        /\ found[s] \in Makers \cup {None}
    BY <1>0 DEF TypeOK, Rows
  <2>1. CASE LookupOutbox(s)
    <3>1. CASE outbox[s].state = "uploaded" /\ Deliver(s, outbox[s].audio)
      BY <1>0, <2>0, <2>1, <3>1, DeliverKeepsTypes DEF TypeOK, LookupOutbox, durable, run
    <3>2. CASE ~(outbox[s].state = "uploaded" /\ Deliver(s, outbox[s].audio))
      BY <1>0, <2>1, <3>2 DEF TypeOK, LookupOutbox, Move, durable, run, Steps, Producing
    <3> QED BY <3>1, <3>2
  <2>2. CASE LookupBucket(s)
    <3>1. CASE Deliver(s, descriptor[s])
      BY <1>0, <2>0, <2>2, <3>1, DeliverKeepsTypes DEF TypeOK, LookupBucket, durable, run
    <3>2. CASE ~Deliver(s, descriptor[s])
      BY <1>0, <2>2, <3>2 DEF TypeOK, LookupBucket, Move, durable, run, Steps, Producing
    <3> QED BY <3>1, <3>2
  <2>3. CASE Reserve(s)
    BY <1>0, <2>3 DEF TypeOK, Reserve, Move, durable, run, Steps, Producing
  <2>4. CASE Send(s)
    BY <1>0, <2>4 DEF TypeOK, Send, Move, durable, run, Steps, Producing
  <2>5. CASE Synthesize(s)
    BY <1>0, <2>5 DEF TypeOK, Synthesize, Move, durable, run, Steps, Producing, Fatal
  <2>6. CASE Stage(s)
    <3>1. [state |-> "pending", audio |-> runs] \in Rows
      BY <1>0 DEF TypeOK, Rows, Makers
    <3> QED BY <1>0, <2>6, <3>1 DEF TypeOK, Stage, Move, run, Steps, Fatal
  <2>7. CASE Take(s)
    BY <1>0, <2>7 DEF TypeOK, Take, Move, durable, run, Steps, Uploading
  <2>8. CASE Upload(s)
    <3>1. objects' \subseteq Segments \X Makers
      <4>1. step[s] = "put" => outbox[s].audio \in Makers
        BY <2>8 DEF Upload, Inductive, SegmentOK, StepOK, BucketOK, Uploading
      <4> QED BY <1>0, <2>8, <4>1 DEF TypeOK, Upload
    <3> QED BY <1>0, <2>0, <2>8, <3>1 DEF TypeOK, Upload, Move, run, Steps, Uploading
  <2>9. CASE Confirm(s)
    <3>1. [state |-> "uploaded", audio |-> found[s]] \in Rows
      BY <2>0 DEF Rows
    <3>2. CASE Deliver(s, found[s])
      BY <1>0, <2>0, <2>9, <3>1, <3>2, DeliverKeepsTypes DEF TypeOK, Confirm, run, Move, Steps, Fatal
    <3>3. CASE ~Deliver(s, found[s])
      BY <1>0, <2>9, <3>3 DEF TypeOK, Confirm, run, Move, Steps, Fatal
    <3> QED BY <3>2, <3>3
  <2> QED BY <1>6, <2>1, <2>2, <2>3, <2>4, <2>5, <2>6, <2>7, <2>8, <2>9 DEF SegmentStep
<1>7. ASSUME NEW s \in Segments, UploadFails(s)
      PROVE  TypeOK'
  BY <1>0, <1>7 DEF TypeOK, UploadFails, Move, durable, run, Steps, Uploading
<1>8. ASSUME NEW s \in Segments, OnlineStep(s)
      PROVE  TypeOK'
  BY <1>0, <1>8, PlanFacts DEF TypeOK, OnlineStep, run, work
<1>9. ASSUME NEW c \in Chapters, Publish(c)
      PROVE  TypeOK'
  <2>1. publication[c] \in {"manifest", "index"} => Contents(c) \in [Needs[c] -> Makers]
    BY <1>9, ContentsAreMade DEF Publish, Publishing
  <2>2. publication' \in [Chapters -> Publications]
    BY <1>0, <1>9 DEF TypeOK, Publish, Advance, Publications, Publishing
  <2>3. \A m \in manifests' : m[1] \in Chapters /\ m[2] \in [Needs[m[1]] -> Makers]
    BY <1>0, <1>9, <2>1 DEF TypeOK, Publish
  <2>4. \A k \in Chapters : index'[k] \in [Needs[k] -> Makers] \cup {None}
    <3>1. CASE publication[c] = "index" /\ index' = [index EXCEPT ![c] = Contents(c)]
      <4> TAKE k \in Chapters
      <4>1. index'[k] = index[k] \/ (k = c /\ index'[k] = Contents(c)) \/ index'[k] = index[k]
        BY <3>1
      <4> QED BY <1>0, <2>1, <3>1, <4>1 DEF TypeOK
    <3>2. CASE index' = index
      BY <1>0, <3>2 DEF TypeOK
    <3> QED BY <1>9, <3>1, <3>2 DEF Publish
  <2>5. DOMAIN index' = Chapters
    BY <1>0, <1>9 DEF TypeOK, Publish
  <2> QED BY <1>0, <1>9, <2>2, <2>3, <2>4, <2>5 DEF TypeOK, Publish, run
<1>10. ASSUME NEW c \in Chapters, PublishFails(c)
       PROVE  TypeOK'
  BY <1>0, <1>10 DEF TypeOK, PublishFails, Advance, Publications, durable, run, Fatal
<1>11. CASE UNCHANGED vars
  BY <1>0, <1>11 DEF TypeOK, vars
<1> QED BY <1>1, <1>2, <1>3, <1>4, <1>5, <1>6, <1>7, <1>8, <1>9, <1>10, <1>11 DEF Next

---------------------------------------------------------------------------
(* Segments *)

(* A step for another segment that keeps what this one rests on. *)
LEMMA OtherSegments ==
  ASSUME Inductive, NEW t \in Segments,
         step'[t] = step[t], found'[t] = found[t], outbox'[t] = outbox[t],
         descriptor'[t] = descriptor[t], online'[t] = online[t],
         objects \subseteq objects', up' => up, checkpoint' = checkpoint
  PROVE  SegmentOK(t)'
<1>1. SegmentOK(t)
  BY DEF Inductive
<1>2. BucketOK(t)'
  BY <1>1 DEF SegmentOK, BucketOK
<1>3. up' => StepOK(t)'
  BY <1>1 DEF SegmentOK, StepOK
<1> QED BY <1>2, <1>3 DEF SegmentOK

(* A chapter that is finished has a descriptor for each of its segments. *)
LEMMA UndescribedIsOpen ==
  ASSUME Inductive, NEW s \in Segments, descriptor[s] = None
  PROVE  \A c \in checkpoint : s \notin Needs[c]
BY DEF Inductive, PublishedIsPlayable, CheckpointIsPublished

LEMMA OwnStepKeepsSegment ==
  ASSUME Inductive, NEW s \in Segments, SegmentStep(s) \/ UploadFails(s)
  PROVE  SegmentOK(s)'
<1> USE PlanFacts
<1>1. TypeOK /\ BucketOK(s) /\ up /\ StepOK(s)
  BY DEF Inductive, SegmentOK, SegmentStep, LookupOutbox, LookupBucket, Reserve, Send, Synthesize,
         Stage, Take, Upload, UploadFails, Confirm
<1>2. /\ descriptor[s] # None => descriptor[s] \in Makers
      /\ runs \in Makers
      /\ step \in [Segments -> Steps] /\ found \in [Segments -> Makers \cup {None}]
      /\ outbox \in [Segments -> Rows] /\ descriptor \in [Segments -> Makers \cup {None}]
  BY <1>1 DEF TypeOK, Makers
<1>3. CASE LookupOutbox(s)
  <2>1. UNCHANGED <<outbox, descriptor, objects, checkpoint, online>>
    BY <1>3 DEF LookupOutbox, durable
  <2>2. BucketOK(s)'
    BY <1>1, <2>1 DEF BucketOK
  <2>3. StepOK(s)'
    <3>1. CASE outbox[s].state = "uploaded" /\ Deliver(s, outbox[s].audio)
      <4>1. step'[s] = "delivered" /\ found'[s] = outbox[s].audio
        BY <1>2, <3>1 DEF Deliver, Move
      <4> QED BY <1>1, <2>1, <3>1, <4>1 DEF StepOK, BucketOK, Uploading
    <3>2. CASE outbox[s].state = "pending" /\ Move(s, "queued")
      BY <1>1, <1>2, <2>1, <3>2 DEF StepOK, Move, Uploading
    <3>3. CASE outbox[s].state = "absent" /\ Move(s, IF Stopped THEN "dropped" ELSE "lookup")
      BY <1>1, <1>2, <2>1, <3>3 DEF StepOK, Move, Uploading
    <3> QED BY <1>3, <3>1, <3>2, <3>3 DEF LookupOutbox
  <2> QED BY <2>2, <2>3 DEF SegmentOK
<1>4. CASE LookupBucket(s)
  <2>1. UNCHANGED <<outbox, descriptor, objects, checkpoint, online>> /\ outbox[s].state = "absent"
    BY <1>1, <1>4 DEF LookupBucket, StepOK, durable
  <2>2. BucketOK(s)'
    BY <1>1, <2>1 DEF BucketOK
  <2>3. StepOK(s)'
    <3>1. CASE descriptor[s] # None /\ Deliver(s, descriptor[s])
      <4>1. step'[s] = "delivered" /\ found'[s] = descriptor[s]
        BY <1>2, <3>1 DEF Deliver, Move
      <4> QED BY <1>1, <1>2, <2>1, <3>1, <4>1 DEF StepOK, BucketOK, Uploading
    <3>2. CASE descriptor[s] = None /\ Move(s, "gate")
      BY <1>1, <1>2, <2>1, <3>2, UndescribedIsOpen DEF StepOK, Move, Uploading
    <3>3. CASE Move(s, "dropped")
      BY <1>1, <1>2, <2>1, <3>3 DEF StepOK, Move, Uploading
    <3> QED BY <1>4, <3>1, <3>2, <3>3 DEF LookupBucket
  <2> QED BY <2>2, <2>3 DEF SegmentOK
<1>5. CASE Reserve(s) \/ Send(s) \/ Synthesize(s)
  <2>1. UNCHANGED <<outbox, descriptor, objects, checkpoint, online>> /\ outbox[s].state = "absent"
        /\ \A c \in checkpoint : s \notin Needs[c]
    BY <1>1, <1>5 DEF Reserve, Send, Synthesize, StepOK, durable
  <2>2. step'[s] \in {"reserved", "synth", "made", "failed", "dropped"}
    BY <1>2, <1>5 DEF Reserve, Send, Synthesize, Move
  <2>3. BucketOK(s)'
    BY <1>1, <2>1 DEF BucketOK
  <2>4. StepOK(s)'
    BY <2>1, <2>2 DEF StepOK, Uploading
  <2> QED BY <2>3, <2>4 DEF SegmentOK
<1>6. CASE Stage(s)
  <2>1. UNCHANGED <<descriptor, objects, checkpoint, online>>
    BY <1>6 DEF Stage
  <2>2. CASE outbox' = [outbox EXCEPT ![s] = [state |-> "pending", audio |-> runs]] /\ Move(s, "queued")
    <3>1. outbox'[s].state = "pending" /\ outbox'[s].audio = runs /\ step'[s] = "queued"
      BY <1>2, <2>2 DEF Move
    <3>2. BucketOK(s)'
      BY <1>1, <1>2, <2>1, <3>1 DEF BucketOK
    <3>3. StepOK(s)'
      BY <3>1 DEF StepOK, Uploading
    <3> QED BY <3>2, <3>3 DEF SegmentOK
  <2>3. CASE outbox' = outbox /\ Move(s, "dropped")
    <3>1. step'[s] = "dropped"
      BY <1>2, <2>3 DEF Move
    <3>2. BucketOK(s)' /\ StepOK(s)'
      BY <1>1, <2>1, <2>3, <3>1 DEF BucketOK, StepOK, Uploading
    <3> QED BY <3>2 DEF SegmentOK
  <2> QED BY <1>6, <2>2, <2>3 DEF Stage
<1>7. CASE Take(s) \/ UploadFails(s)
  <2>1. UNCHANGED <<outbox, descriptor, objects, checkpoint, online>> /\ outbox[s].state = "pending"
    BY <1>1, <1>7 DEF Take, UploadFails, StepOK, durable
  <2>2. step'[s] \in {"get", "dropped"}
    BY <1>2, <1>7 DEF Take, UploadFails, Move
  <2>3. BucketOK(s)' /\ StepOK(s)'
    BY <1>1, <2>1, <2>2 DEF BucketOK, StepOK, Uploading
  <2> QED BY <2>3 DEF SegmentOK
<1>8. CASE Upload(s)
  <2>1. UNCHANGED <<outbox, checkpoint, online>> /\ outbox[s].state = "pending" /\ outbox[s].audio \in Makers
    BY <1>1, <1>8 DEF Upload, StepOK, BucketOK, Uploading
  <2>2. CASE step[s] = "get"
    <3>1. /\ UNCHANGED <<descriptor, objects>>
          /\ found'[s] = descriptor[s]
          /\ step'[s] = IF descriptor[s] # None THEN "confirm" ELSE "put"
      BY <1>2, <1>8, <2>2 DEF Upload, Move
    <3>2. BucketOK(s)'
      BY <1>1, <2>1, <3>1 DEF BucketOK
    <3>3. StepOK(s)'
      BY <1>1, <1>2, <2>1, <3>1 DEF BucketOK, StepOK, Uploading
    <3> QED BY <3>2, <3>3 DEF SegmentOK
  <2>3. CASE step[s] = "put"
    <3>1. /\ UNCHANGED descriptor
          /\ objects' = objects \cup {<<s, outbox[s].audio>>}
          /\ step'[s] = "describe"
      BY <1>2, <1>8, <2>3 DEF Upload, Move
    <3>2. BucketOK(s)'
      BY <1>1, <2>1, <3>1 DEF BucketOK
    <3>3. StepOK(s)'
      BY <1>1, <2>1, <3>1 DEF StepOK, Uploading
    <3> QED BY <3>2, <3>3 DEF SegmentOK
  <2>4. CASE step[s] = "describe"
    <3>1. /\ UNCHANGED objects
          /\ descriptor'[s] = outbox[s].audio
          /\ step'[s] = "verify"
          /\ <<s, outbox[s].audio>> \in objects
      BY <1>1, <1>2, <1>8, <2>4 DEF Upload, Move, StepOK
    <3>2. BucketOK(s)'
      BY <1>1, <2>1, <3>1 DEF BucketOK
    <3>3. StepOK(s)'
      BY <1>1, <2>1, <3>1 DEF StepOK, Uploading
    <3> QED BY <3>2, <3>3 DEF SegmentOK
  <2>5. CASE step[s] = "verify"
    <3>1. /\ UNCHANGED <<descriptor, objects>>
          /\ step'[s] \in {"confirm", "dropped", "get"}
          /\ step'[s] = "confirm" => descriptor[s] = outbox[s].audio /\ found'[s] = descriptor[s]
      BY <1>2, <1>8, <2>5 DEF Upload, Move
    <3>2. BucketOK(s)'
      BY <1>1, <2>1, <3>1 DEF BucketOK
    <3>3. StepOK(s)'
      BY <1>1, <1>2, <2>1, <2>5, <3>1 DEF StepOK, BucketOK, Uploading
    <3> QED BY <3>2, <3>3 DEF SegmentOK
  <2> QED BY <1>8, <2>2, <2>3, <2>4, <2>5 DEF Upload
<1>9. CASE Confirm(s)
  <2>1. /\ UNCHANGED <<descriptor, objects, checkpoint, online>>
        /\ found[s] \in Makers /\ <<s, found[s]>> \in objects /\ descriptor[s] # None
    BY <1>1, <1>9 DEF Confirm, StepOK
  <2>2. CASE Deliver(s, found[s]) /\ outbox' = [outbox EXCEPT ![s] = [state |-> "uploaded", audio |-> found[s]]]
    <3>1. /\ step'[s] = "delivered" /\ found'[s] = found[s]
          /\ outbox'[s].state = "uploaded" /\ outbox'[s].audio = found[s]
      BY <1>2, <2>2 DEF Deliver, Move
    <3>2. BucketOK(s)'
      BY <1>1, <2>1, <3>1 DEF BucketOK
    <3>3. StepOK(s)'
      BY <2>1, <3>1 DEF StepOK, Uploading
    <3> QED BY <3>2, <3>3 DEF SegmentOK
  <2>3. CASE outbox' = outbox /\ Move(s, "dropped")
    <3>1. step'[s] = "dropped"
      BY <1>2, <2>3 DEF Move
    <3>2. BucketOK(s)' /\ StepOK(s)'
      BY <1>1, <2>1, <2>3, <3>1 DEF BucketOK, StepOK, Uploading
    <3> QED BY <3>2 DEF SegmentOK
  <2> QED BY <1>9, <2>2, <2>3 DEF Confirm
<1> QED BY <1>3, <1>4, <1>5, <1>6, <1>7, <1>8, <1>9 DEF SegmentStep

LEMMA OthersUntouched ==
  ASSUME TypeOK, NEW s \in Segments, NEW t \in Segments, t # s,
         SegmentStep(s) \/ UploadFails(s) \/ OnlineStep(s)
  PROVE  /\ step'[t] = step[t] /\ found'[t] = found[t] /\ outbox'[t] = outbox[t]
         /\ descriptor'[t] = descriptor[t] /\ online'[t] = online[t]
         /\ objects \subseteq objects' /\ up' = up /\ checkpoint' = checkpoint
<1>1. CASE LookupOutbox(s) \/ LookupBucket(s)
  BY <1>1 DEF TypeOK, LookupOutbox, LookupBucket, Deliver, Move, durable, run
<1>2. CASE Reserve(s) \/ Send(s) \/ Synthesize(s) \/ Take(s) \/ UploadFails(s)
  BY <1>2 DEF TypeOK, Reserve, Send, Synthesize, Take, UploadFails, Move, durable, run
<1>3. CASE Stage(s)
  BY <1>3 DEF TypeOK, Stage, Move, run
<1>4. CASE Upload(s)
  BY <1>4 DEF TypeOK, Upload, Move, run
<1>5. CASE Confirm(s)
  BY <1>5 DEF TypeOK, Confirm, Deliver, Move, run
<1>6. CASE OnlineStep(s)
  BY <1>6 DEF TypeOK, OnlineStep, run, work
<1> QED BY <1>1, <1>2, <1>3, <1>4, <1>5, <1>6 DEF SegmentStep

LEMMA OnlineKeepsSegment ==
  ASSUME Inductive, NEW s \in Segments, OnlineStep(s)
  PROVE  SegmentOK(s)'
<1> USE PlanFacts
<1>1. /\ SegmentOK(s)
      /\ UNCHANGED <<outbox, step, found, checkpoint, up>>
      /\ online \in [Segments -> {"idle", "made", "put", "done"}]
      /\ descriptor \in [Segments -> Makers \cup {None}]
  BY DEF Inductive, TypeOK, OnlineStep, work, run
<1>2. /\ descriptor'[s] \in {descriptor[s], Online}
      /\ objects \subseteq objects'
      /\ descriptor'[s] = descriptor[s] \/ <<s, Online>> \in objects
      /\ online'[s] \in {"put", "done"} => <<s, Online>> \in objects'
  BY <1>1 DEF OnlineStep, SegmentOK, BucketOK
<1>3. BucketOK(s)'
  BY <1>1, <1>2 DEF SegmentOK, BucketOK
<1>4. up' => StepOK(s)'
  BY <1>1, <1>2 DEF SegmentOK, StepOK
<1> QED BY <1>3, <1>4 DEF SegmentOK

LEMMA SegmentsKept ==
  ASSUME Inductive, [Next]_vars
  PROVE  \A s \in Segments : SegmentOK(s)'
<1> SUFFICES ASSUME NEW t \in Segments PROVE SegmentOK(t)'
  OBVIOUS
<1>0. TypeOK /\ SegmentOK(t) /\ up \in BOOLEAN
  BY DEF Inductive, TypeOK
<1>1. CASE Start
  <2>1. UNCHANGED <<outbox, descriptor, objects, online, checkpoint>>
    BY <1>1 DEF Start, durable
  <2>2. step'[t] = IF t \notin Wanted THEN "skip"
                   ELSE IF outbox[t].state = "pending" THEN "queued" ELSE "todo"
    BY <1>1 DEF Start, Pending
  <2>3. BucketOK(t)' /\ StepOK(t)'
    BY <1>0, <2>1, <2>2 DEF SegmentOK, BucketOK, StepOK, Uploading
  <2> QED BY <2>3 DEF SegmentOK
<1>2. CASE SecondPass
  <2>1. UNCHANGED <<outbox, descriptor, objects, online, checkpoint, found, up>> /\ up
    BY <1>2 DEF SecondPass, durable
  <2>2. step'[t] \in {step[t], "todo"}
    BY <1>2 DEF SecondPass
  <2>3. BucketOK(t)' /\ StepOK(t)'
    BY <1>0, <2>1, <2>2 DEF SegmentOK, BucketOK, StepOK, Uploading
  <2> QED BY <2>3 DEF SegmentOK
<1>3. CASE Finish \/ Crash
  <2>1. UNCHANGED <<outbox, descriptor, objects, online>> /\ up' = FALSE
    BY <1>3 DEF Finish, Crash, durable
  <2> QED BY <1>0, <2>1 DEF SegmentOK, BucketOK
<1>4. CASE Stop \/ UNCHANGED vars
  <2>1. UNCHANGED <<outbox, descriptor, objects, online, checkpoint, step, found, up>>
    BY <1>4 DEF Stop, durable, run, work, vars
  <2> QED BY <1>0, <2>1 DEF SegmentOK, BucketOK, StepOK
<1>5. ASSUME NEW s \in Segments, SegmentStep(s) \/ UploadFails(s) \/ OnlineStep(s)
      PROVE  SegmentOK(t)'
  <2>1. CASE t = s
    BY <1>5, <2>1, OwnStepKeepsSegment, OnlineKeepsSegment
  <2>2. CASE t # s
    BY <1>0, <1>5, <2>2, OthersUntouched, OtherSegments
  <2> QED BY <2>1, <2>2
<1>6. ASSUME NEW c \in Chapters, Publish(c) \/ PublishFails(c)
      PROVE  SegmentOK(t)'
  <2>1. UNCHANGED <<outbox, descriptor, objects, online, step, found, up>> /\ up
    BY <1>6 DEF Publish, PublishFails, durable, run
  <2>2. BucketOK(t)'
    BY <1>0, <2>1 DEF SegmentOK, BucketOK
  <2>3. step[t] \in {"gate", "reserved", "synth", "made"} => \A d \in checkpoint' : t \notin Needs[d]
    <3>1. checkpoint' = checkpoint \/ (publication[c] = "commit" /\ checkpoint' = checkpoint \cup {c})
      BY <1>6 DEF Publish, PublishFails, durable
    <3>2. publication[c] = "commit" => \A s \in Needs[c] : step[s] = "delivered"
      BY <2>1, ContentsAreMade DEF Publishing
    <3> QED BY <1>0, <2>1, <3>1, <3>2 DEF SegmentOK, StepOK
  <2>4. StepOK(t)'
    BY <1>0, <2>1, <2>3 DEF SegmentOK, StepOK
  <2> QED BY <2>2, <2>4 DEF SegmentOK
<1> QED BY <1>1, <1>2, <1>3, <1>4, <1>5, <1>6 DEF Next

---------------------------------------------------------------------------
(* What a step does to deliveries *)

Delivery(s) ==
  /\ step[s] \notin {"delivered"}
  /\ \E audio \in Makers \cup {None} : Deliver(s, audio)
  /\ UNCHANGED <<up, checkpoint>>

(* A step of a segment either delivers it, or leaves all deliveries alone. *)
LEMMA DeliveredOrNot ==
  ASSUME Inductive, NEW s \in Segments, SegmentStep(s) \/ UploadFails(s)
  PROVE  \/ Delivery(s)
         \/ /\ UNCHANGED <<remaining, publication, up, checkpoint>>
            /\ \A t \in Segments : (step'[t] = "delivered") <=> (step[t] = "delivered")
            /\ \A t \in Segments : step[t] = "delivered" => found'[t] = found[t]
<1>0. TypeOK /\ outbox[s].audio \in Makers \cup {None} /\ found[s] \in Makers \cup {None}
      /\ descriptor[s] \in Makers \cup {None} /\ step \in [Segments -> Steps]
      /\ found \in [Segments -> Makers \cup {None}]
  BY DEF Inductive, TypeOK, Rows
<1>1. CASE LookupOutbox(s)
  BY <1>0, <1>1 DEF Delivery, LookupOutbox, Move, durable, run
<1>2. CASE LookupBucket(s)
  BY <1>0, <1>2 DEF Delivery, LookupBucket, Move, durable, run
<1>3. CASE Reserve(s) \/ Send(s) \/ Synthesize(s) \/ Take(s) \/ UploadFails(s)
  BY <1>0, <1>3 DEF Reserve, Send, Synthesize, Take, UploadFails, Move, durable, run, Uploading
<1>4. CASE Stage(s)
  BY <1>0, <1>4 DEF Stage, Move, run
<1>5. CASE Upload(s)
  BY <1>0, <1>5 DEF Upload, Move, run
<1>6. CASE Confirm(s)
  BY <1>0, <1>6 DEF Delivery, Confirm, Move, run
<1> QED BY <1>1, <1>2, <1>3, <1>4, <1>5, <1>6 DEF SegmentStep

Missing(c) == {s \in Needs[c] : step[s] # "delivered"}

LEMMA MissingIsFinite ==
  ASSUME NEW c \in Chapters
  PROVE  IsFiniteSet(Missing(c)) /\ Cardinality(Missing(c)) \in Nat
BY PlanFacts, FS_Subset, FS_CardinalityType DEF Missing

(* After a delivery one segment less is missing where it was awaited. *)
LEMMA DeliveryCounts ==
  ASSUME Inductive, NEW s \in Segments, Delivery(s), up
  PROVE  /\ \A c \in Chapters \ checkpoint' : remaining'[c] = Cardinality(Missing(c)')
         /\ \A c \in Chapters : publication'[c] # publication[c] =>
              publication'[c] = "ready" /\ \A t \in Needs[c] : step'[t] = "delivered"
         /\ \A t \in Segments : step[t] = "delivered" => step'[t] = "delivered" /\ found'[t] = found[t]
<1>1. PICK audio \in Makers \cup {None} : Deliver(s, audio)
  BY DEF Delivery
<1>2. TypeOK /\ step \in [Segments -> Steps] /\ found \in [Segments -> Makers \cup {None}]
      /\ publication \in [Chapters -> Publications] /\ remaining \in [Chapters -> Int]
  BY DEF Inductive, TypeOK
<1>3. /\ step' = [step EXCEPT ![s] = "delivered"]
      /\ found' = [found EXCEPT ![s] = audio]
      /\ checkpoint' = checkpoint /\ step[s] # "delivered"
  BY <1>1 DEF Deliver, Move, Delivery
<1>4. \A c \in Chapters : Missing(c)' = Missing(c) \ {s}
  BY <1>2, <1>3, PlanFacts DEF Missing
<1>5. \A c \in Chapters \ checkpoint : remaining[c] = Cardinality(Missing(c))
  BY DEF Inductive, CountersAreExact, RemainingIsExact, Missing
<1>6. ASSUME NEW c \in Chapters \ checkpoint'
      PROVE  remaining'[c] = Cardinality(Missing(c)')
  <2>1. CASE s \in Needs[c]
    <3>1. s \in Missing(c)
      BY <1>3, <2>1 DEF Missing
    <3>2. Cardinality(Missing(c) \ {s}) = Cardinality(Missing(c)) - 1
      BY <3>1, MissingIsFinite, FS_RemoveElement
    <3>3. remaining'[c] = remaining[c] - 1
      BY <1>1, <1>3, <2>1 DEF Deliver, Consumers
    <3> QED BY <1>3, <1>4, <1>5, <3>2, <3>3
  <2>2. CASE s \notin Needs[c]
    <3>1. Missing(c)' = Missing(c)
      BY <1>4, <2>2 DEF Missing
    <3>2. remaining'[c] = remaining[c]
      BY <1>1, <1>2, <2>2 DEF Deliver, Consumers
    <3> QED BY <1>3, <1>5, <3>1, <3>2
  <2> QED BY <2>1, <2>2
<1>7. ASSUME NEW c \in Chapters, publication'[c] # publication[c]
      PROVE  publication'[c] = "ready" /\ \A t \in Needs[c] : step'[t] = "delivered"
  <2>1. c \in Consumers(s) /\ remaining[c] = 1 /\ publication'[c] = "ready"
    BY <1>1, <1>7 DEF Deliver
  <2>2. Cardinality(Missing(c)) = 1 /\ s \in Missing(c)
    BY <1>3, <1>5, <2>1 DEF Consumers, Missing
  <2>3. Cardinality(Missing(c) \ {s}) = 0
    <3>1. Cardinality(Missing(c) \ {s}) = Cardinality(Missing(c)) - 1
      BY <2>2, MissingIsFinite, FS_RemoveElement
    <3> QED BY <2>2, <3>1
  <2>4. Missing(c)' = {}
    <3>1. IsFiniteSet(Missing(c) \ {s})
      BY <2>2, MissingIsFinite, FS_RemoveElement
    <3> QED BY <1>4, <2>3, <3>1, FS_EmptySet
  <2> QED BY <2>1, <2>4 DEF Missing
<1> QED BY <1>2, <1>3, <1>6, <1>7

---------------------------------------------------------------------------
(* Chapters *)

(* What is published keeps its segments, its manifest and its index. *)
LEMMA OtherChapters ==
  ASSUME Inductive, up, NEW c \in Chapters, publication'[c] = publication[c],
         index'[c] = index[c] \/ index'[c] # None, manifests \subseteq manifests',
         \A t \in Segments : step[t] = "delivered" => step'[t] = "delivered" /\ found'[t] = found[t]
  PROVE  ChapterOK(c)'
<1>1. ChapterOK(c) /\ Needs[c] \subseteq Segments
  BY PlanFacts DEF Inductive
<1>2. publication[c] \in Publishing \cup {"ready", "done"} =>
        \A s \in Needs[c] : step'[s] = "delivered" /\ found'[s] = found[s]
  BY <1>1 DEF ChapterOK
<1>3. publication[c] \in {"index", "report", "commit"} => Contents(c)' = Contents(c)
  BY <1>2 DEF Contents, Publishing
<1> QED BY <1>1, <1>2, <1>3 DEF ChapterOK

LEMMA PublishKeepsChapter ==
  ASSUME Inductive, NEW c \in Chapters, Publish(c)
  PROVE  ChapterOK(c)'
<1>1. /\ TypeOK /\ up /\ ChapterOK(c) /\ publication[c] \in Publishing \cup {"ready"}
      /\ UNCHANGED <<step, found>> /\ publication \in [Chapters -> Publications]
  BY DEF Inductive, TypeOK, Publish, Publishing
<1>2. Contents(c)' = Contents(c) /\ Contents(c) \in [Needs[c] -> Makers]
  BY <1>1, ContentsAreMade DEF Contents
<1>3. Contents(c) # None
  BY <1>2, LibraryAssumption
<1>4. \A s \in Needs[c] : step'[s] = "delivered"
  BY <1>1 DEF ChapterOK
<1>5. CASE publication[c] = "ready"
  <2>1. publication'[c] = "manifest"
    BY <1>1, <1>5 DEF Publish, Advance
  <2> QED BY <1>4, <2>1 DEF ChapterOK
<1>6. CASE publication[c] = "manifest"
  <2>1. publication'[c] = "index" /\ <<c, Contents(c)>> \in manifests'
    BY <1>1, <1>6 DEF Publish, Advance
  <2> QED BY <1>2, <1>4, <2>1 DEF ChapterOK
<1>7. CASE publication[c] = "index"
  <2>1. /\ publication'[c] = "report" /\ manifests' = manifests
        /\ index' = [index EXCEPT ![c] = Contents(c)]
    BY <1>1, <1>7 DEF Publish, Advance
  <2>2. index'[c] # None
    BY <1>1, <1>3, <2>1 DEF TypeOK
  <2> QED BY <1>1, <1>2, <1>4, <1>7, <2>1, <2>2 DEF ChapterOK
<1>8. CASE publication[c] = "report" \/ publication[c] = "commit"
  <2>1. publication'[c] \in {"commit", "done"} /\ manifests' = manifests /\ index' = index
    BY <1>1, <1>8 DEF Publish, Advance
  <2> QED BY <1>1, <1>2, <1>4, <1>8, <2>1 DEF ChapterOK
<1> QED BY <1>1, <1>5, <1>6, <1>7, <1>8 DEF Publishing

LEMMA ChaptersKept ==
  ASSUME Inductive, [Next]_vars
  PROVE  up' => \A c \in Chapters : ChapterOK(c)'
<1> SUFFICES ASSUME up', NEW c \in Chapters PROVE ChapterOK(c)'
  OBVIOUS
<1>0. TypeOK /\ (up => ChapterOK(c))
  BY DEF Inductive
<1>1. CASE Start
  BY <1>1 DEF Start, ChapterOK, Publishing
<1>2. CASE SecondPass \/ Stop \/ UNCHANGED vars
  <2>1. up /\ UNCHANGED <<publication, index, manifests, found>>
    BY <1>2 DEF SecondPass, Stop, vars, durable, run, work
  <2>2. \A t \in Segments : step[t] = "delivered" => step'[t] = "delivered"
    BY <1>2 DEF SecondPass, Stop, vars, work, Failed
  <2> QED BY <2>1, <2>2, OtherChapters
<1>3. CASE Finish \/ Crash
  BY <1>3 DEF Finish, Crash
<1>4. ASSUME NEW s \in Segments, SegmentStep(s) \/ UploadFails(s)
      PROVE  ChapterOK(c)'
  <2>0. UNCHANGED <<index, manifests>> /\ up
    BY <1>4 DEF SegmentStep, LookupOutbox, LookupBucket, Reserve, Send, Synthesize, Stage, Take,
           Upload, UploadFails, Confirm, durable
  <2>1. CASE Delivery(s)
    <3>1. CASE publication'[c] = publication[c]
      BY <2>0, <2>1, <3>1, DeliveryCounts, OtherChapters
    <3>2. CASE publication'[c] # publication[c]
      BY <2>0, <2>1, <3>2, DeliveryCounts DEF ChapterOK
    <3> QED BY <3>1, <3>2
  <2>2. CASE ~Delivery(s)
    <3>1. UNCHANGED publication
          /\ \A t \in Segments : step[t] = "delivered" => step'[t] = "delivered" /\ found'[t] = found[t]
      BY <1>4, <2>2, DeliveredOrNot
    <3> QED BY <2>0, <3>1, OtherChapters
  <2> QED BY <2>1, <2>2
<1>5. ASSUME NEW s \in Segments, OnlineStep(s)
      PROVE  ChapterOK(c)'
  <2>1. up /\ UNCHANGED <<publication, index, manifests, step, found>>
    BY <1>5 DEF OnlineStep, run, work
  <2> QED BY <2>1, OtherChapters
<1>6. ASSUME NEW d \in Chapters, Publish(d)
      PROVE  ChapterOK(c)'
  <2>1. CASE d = c
    BY <1>6, <2>1, PublishKeepsChapter
  <2>2. CASE d # c
    <3>1. up /\ UNCHANGED <<step, found>> /\ manifests \subseteq manifests' /\ publication'[c] = publication[c]
          /\ index'[c] = index[c]
      BY <1>0, <1>6, <2>2 DEF TypeOK, Publish, Advance
    <3> QED BY <3>1, OtherChapters
  <2> QED BY <2>1, <2>2
<1>7. ASSUME NEW d \in Chapters, PublishFails(d)
      PROVE  ChapterOK(c)'
  <2>0. up /\ UNCHANGED <<step, found, index, manifests>>
        /\ publication' = [publication EXCEPT ![d] = "dropped"]
    BY <1>7 DEF PublishFails, Advance, durable
  <2>1. CASE d = c
    BY <1>0, <2>0, <2>1 DEF TypeOK, ChapterOK, Publishing
  <2>2. CASE d # c
    <3>1. publication'[c] = publication[c]
      BY <1>0, <2>0, <2>2 DEF TypeOK
    <3> QED BY <2>0, <3>1, OtherChapters
  <2> QED BY <2>1, <2>2
<1> QED BY <1>1, <1>2, <1>3, <1>4, <1>5, <1>6, <1>7 DEF Next

---------------------------------------------------------------------------
(* The bucket and the checkpoint *)

(* Receipts and descriptors are never taken back, and an MP3 is staged     *)
(* only while no finished chapter needs it.                                *)
LEMMA BucketGrows ==
  ASSUME Inductive, [Next]_vars
  PROVE  /\ objects \subseteq objects'
         /\ \A s \in Segments : descriptor[s] # None => descriptor'[s] # None
         /\ \A s \in Segments : outbox'[s].state = "pending" =>
              outbox[s].state = "pending" \/ \A c \in checkpoint : s \notin Needs[c]
         /\ \A s \in Segments : outbox[s].state = "pending" =>
              outbox'[s].state = "pending" \/ descriptor[s] # None
<1> USE PlanFacts
<1>0. TypeOK /\ (\A s \in Segments : SegmentOK(s))
      /\ outbox \in [Segments -> Rows] /\ descriptor \in [Segments -> Makers \cup {None}]
  BY DEF Inductive, TypeOK
<1>1. CASE UNCHANGED <<outbox, descriptor, objects>>
  BY <1>1
<1>2. ASSUME NEW s \in Segments, Stage(s)
      PROVE  UNCHANGED <<objects, descriptor>> /\ \A t \in Segments :
               /\ outbox'[t].state = "pending" =>
                    outbox[t].state = "pending" \/ \A c \in checkpoint : t \notin Needs[c]
               /\ outbox[t].state = "pending" => outbox'[t].state = "pending"
  <2>1. \A c \in checkpoint : s \notin Needs[c]
    BY <1>0, <1>2 DEF Stage, SegmentOK, StepOK
  <2> QED BY <1>0, <1>2, <2>1 DEF Stage
<1>3. ASSUME NEW s \in Segments, Upload(s)
      PROVE  UNCHANGED outbox /\ objects \subseteq objects'
             /\ \A t \in Segments : descriptor[t] # None => descriptor'[t] # None
  <2>1. step[s] = "describe" => outbox[s].audio # None
    BY <1>0, <1>3 DEF Upload, SegmentOK, StepOK, BucketOK, Uploading
  <2> QED BY <1>0, <1>3, <2>1 DEF Upload
<1>4. ASSUME NEW s \in Segments, Confirm(s)
      PROVE  UNCHANGED <<objects, descriptor>> /\ \A t \in Segments :
               /\ outbox'[t].state = "pending" => outbox[t].state = "pending"
               /\ outbox[t].state = "pending" => outbox'[t].state = "pending" \/ descriptor[t] # None
  <2>1. descriptor[s] # None
    BY <1>0, <1>4 DEF Confirm, SegmentOK, StepOK
  <2> QED BY <1>0, <1>4, <2>1 DEF Confirm
<1>5. ASSUME NEW s \in Segments, OnlineStep(s)
      PROVE  UNCHANGED outbox /\ objects \subseteq objects'
             /\ \A t \in Segments : descriptor[t] # None => descriptor'[t] # None
  BY <1>0, <1>5 DEF OnlineStep
<1>6. ASSUME ~UNCHANGED <<outbox, descriptor, objects>>
      PROVE  \E s \in Segments : Stage(s) \/ Upload(s) \/ Confirm(s) \/ OnlineStep(s)
  BY <1>6 DEF Next, vars, Start, SecondPass, Finish, Stop, Crash, SegmentStep, LookupOutbox,
         LookupBucket, Reserve, Send, Synthesize, Take, UploadFails, Publish, PublishFails, durable
<1> QED BY <1>1, <1>2, <1>3, <1>4, <1>5, <1>6

(* Only a publisher touches manifests, indexes and the checkpoint. *)
LEMMA OnlyPublishers ==
  ASSUME [Next]_vars
  PROVE  UNCHANGED <<manifests, index, checkpoint>> \/ \E c \in Chapters : Publish(c)
BY DEF Next, vars, Start, SecondPass, Finish, Stop, Crash, SegmentStep, LookupOutbox, LookupBucket,
       Reserve, Send, Synthesize, Stage, Take, Upload, UploadFails, Confirm, OnlineStep,
       PublishFails, durable

LEMMA PlayableKept ==
  ASSUME Inductive, [Next]_vars
  PROVE  PublishedIsPlayable'
<1>0. TypeOK /\ ChaptersArePlayable /\ CheckpointIsPublished /\ checkpoint \subseteq Chapters
  BY DEF Inductive, PublishedIsPlayable, TypeOK
<1>1. CASE UNCHANGED <<manifests, index, checkpoint>>
  <2>1. ChaptersArePlayable'
    <3>1. \A m \in manifests' : \A s \in Needs[m[1]] : <<s, m[2][s]>> \in objects'
      BY <1>0, <1>1, BucketGrows DEF ChaptersArePlayable
    <3> QED BY <1>0, <1>1, <3>1 DEF ChaptersArePlayable
  <2>2. CheckpointIsPublished'
    <3> SUFFICES ASSUME NEW c \in checkpoint
                 PROVE  /\ index[c] # None
                        /\ \A s \in Needs[c] : outbox'[s].state # "pending" /\ descriptor'[s] # None
      BY <1>1 DEF CheckpointIsPublished
    <3>1. index[c] # None /\ \A s \in Needs[c] : outbox[s].state # "pending" /\ descriptor[s] # None
      BY <1>0 DEF CheckpointIsPublished
    <3>2. \A s \in Needs[c] : s \in Segments
      BY <1>0, PlanFacts
    <3> QED BY <3>1, <3>2, BucketGrows
  <2> QED BY <2>1, <2>2 DEF PublishedIsPlayable
<1>2. ASSUME NEW c \in Chapters, Publish(c)
      PROVE  PublishedIsPlayable'
  <2>1. /\ up /\ ChapterOK(c) /\ UNCHANGED <<outbox, descriptor, objects>>
        /\ DOMAIN index = Chapters
    BY <1>0, <1>2 DEF Inductive, Publish, TypeOK
  <2>2. publication[c] \in Publishing =>
          /\ Contents(c) \in [Needs[c] -> Makers]
          /\ \A s \in Needs[c] : /\ found[s] \in Makers /\ <<s, found[s]>> \in objects
                                 /\ descriptor[s] # None /\ outbox[s].state # "pending"
    BY <2>1, ContentsAreMade
  <2>3. CASE publication[c] = "manifest"
    <3>1. manifests' = manifests \cup {<<c, Contents(c)>>} /\ UNCHANGED <<index, checkpoint>>
      BY <1>2, <2>3 DEF Publish
    <3>2. \A s \in Needs[c] : <<s, Contents(c)[s]>> \in objects
      BY <2>2, <2>3 DEF Contents, Publishing
    <3>3. \A m \in manifests' : \A s \in Needs[m[1]] : <<s, m[2][s]>> \in objects'
      <4> SUFFICES ASSUME NEW m \in manifests', NEW s \in Needs[m[1]] PROVE <<s, m[2][s]>> \in objects
        BY <2>1
      <4>1. CASE m \in manifests
        BY <1>0, <4>1 DEF ChaptersArePlayable
      <4>2. CASE m = <<c, Contents(c)>>
        <5>1. m[1] = c /\ m[2] = Contents(c)
          BY <4>2
        <5> QED BY <3>2, <5>1
      <4> QED BY <3>1, <4>1, <4>2
    <3>4. ChaptersArePlayable'
      BY <1>0, <3>1, <3>3 DEF ChaptersArePlayable
    <3>5. CheckpointIsPublished'
      BY <1>0, <2>1, <3>1 DEF CheckpointIsPublished
    <3> QED BY <3>4, <3>5 DEF PublishedIsPlayable
  <2>4. CASE publication[c] = "index"
    <3>1. index' = [index EXCEPT ![c] = Contents(c)] /\ UNCHANGED <<manifests, checkpoint>>
      BY <1>2, <2>4 DEF Publish
    <3>2. <<c, Contents(c)>> \in manifests
      BY <2>1, <2>4 DEF ChapterOK
    <3>3. Contents(c) # None
      BY <2>2, <2>4, LibraryAssumption DEF Publishing
    <3>4. \A d \in Chapters : index'[d] = IF d = c THEN Contents(c) ELSE index[d]
      BY <2>1, <3>1
    <3>5. ChaptersArePlayable'
      BY <1>0, <2>1, <3>1, <3>2, <3>4 DEF ChaptersArePlayable
    <3>6. CheckpointIsPublished'
      BY <1>0, <2>1, <3>1, <3>3, <3>4 DEF CheckpointIsPublished
    <3> QED BY <3>5, <3>6 DEF PublishedIsPlayable
  <2>5. CASE publication[c] = "commit"
    <3>1. checkpoint' = checkpoint \cup {c} /\ UNCHANGED <<manifests, index>>
      BY <1>2, <2>5 DEF Publish
    <3>2. index[c] # None
      BY <2>1, <2>5 DEF ChapterOK
    <3>3. CheckpointIsPublished'
      BY <1>0, <2>1, <2>2, <2>5, <3>1, <3>2 DEF CheckpointIsPublished, Publishing
    <3>4. ChaptersArePlayable'
      BY <1>0, <2>1, <3>1 DEF ChaptersArePlayable
    <3> QED BY <3>3, <3>4 DEF PublishedIsPlayable
  <2>6. CASE publication[c] \in {"ready", "report"}
    <3>1. UNCHANGED <<manifests, index, checkpoint>>
      BY <1>2, <2>6 DEF Publish
    <3> QED BY <1>1, <3>1
  <2> QED BY <1>2, <2>3, <2>4, <2>5, <2>6 DEF Publish
<1> QED BY <1>1, <1>2, OnlyPublishers

---------------------------------------------------------------------------
(* Counters *)

Making == {s \in Segments : step[s] \in {"reserved", "synth", "made"}}

LEMMA FiniteSegments ==
  \A S : S \subseteq Segments => IsFiniteSet(S) /\ Cardinality(S) \in Nat
BY LibraryAssumption, FS_Subset, FS_CardinalityType

LEMMA RemainingKept ==
  ASSUME Inductive, [Next]_vars
  PROVE  RemainingIsExact'
<1> SUFFICES ASSUME up', NEW c \in Chapters \ checkpoint'
             PROVE  remaining'[c] = Cardinality(Missing(c)')
  BY DEF RemainingIsExact, Missing
<1>0. TypeOK /\ Needs[c] \subseteq Segments
  BY PlanFacts DEF Inductive
<1>1. up /\ c \notin checkpoint => remaining[c] = Cardinality(Missing(c))
  BY DEF Inductive, CountersAreExact, RemainingIsExact, Missing
<1>2. CASE Start
  <2>1. Missing(c)' = Needs[c]
    BY <1>0, <1>2 DEF Missing, Start
  <2> QED BY <1>2, <2>1 DEF Start, durable
<1>3. CASE up /\ checkpoint \subseteq checkpoint' /\ UNCHANGED remaining
           /\ \A t \in Segments : (step'[t] = "delivered") <=> (step[t] = "delivered")
  <2>1. Missing(c)' = Missing(c)
    BY <1>0, <1>3 DEF Missing
  <2> QED BY <1>1, <1>3, <2>1
<1>4. CASE SecondPass \/ Stop \/ UNCHANGED vars
  BY <1>0, <1>3, <1>4 DEF SecondPass, Stop, Failed, durable, run, work, vars
<1>5. CASE Finish \/ Crash
  BY <1>5 DEF Finish, Crash
<1>6. ASSUME NEW s \in Segments, SegmentStep(s) \/ UploadFails(s)
      PROVE  remaining'[c] = Cardinality(Missing(c)')
  <2>0. up
    BY <1>6 DEF SegmentStep, LookupOutbox, LookupBucket, Reserve, Send, Synthesize, Stage, Take,
           Upload, UploadFails, Confirm
  <2>1. CASE Delivery(s)
    BY <2>0, <2>1, DeliveryCounts
  <2>2. CASE ~Delivery(s)
    BY <1>3, <1>6, <2>0, <2>2, DeliveredOrNot
  <2> QED BY <2>1, <2>2
<1>7. ASSUME NEW s \in Segments, OnlineStep(s)
      PROVE  remaining'[c] = Cardinality(Missing(c)')
  BY <1>3, <1>7 DEF OnlineStep, run, work
<1>8. ASSUME NEW d \in Chapters, Publish(d) \/ PublishFails(d)
      PROVE  remaining'[c] = Cardinality(Missing(c)')
  BY <1>3, <1>8 DEF Publish, PublishFails, durable
<1> QED BY <1>2, <1>4, <1>5, <1>6, <1>7, <1>8 DEF Next

(* A step of a segment moves one MP3 between the making, the outbox and    *)
(* the bucket, and its reservation with it.                                *)
LEMMA OutboxKept ==
  ASSUME Inductive, [Next]_vars
  PROVE  OutboxBounded' /\ reserved' \in Nat
<1> USE LibraryAssumption
<1>0. /\ TypeOK /\ reserved \in Nat /\ up \in BOOLEAN
      /\ step \in [Segments -> Steps] /\ outbox \in [Segments -> Rows]
      /\ Room > 0 => Cardinality(Pending) + reserved < Room
      /\ up => reserved = Cardinality(Making)
      /\ IsFiniteSet(Pending) /\ Cardinality(Pending) \in Nat
      /\ IsFiniteSet(Making) /\ Cardinality(Making) \in Nat
  BY FiniteSegments DEF Inductive, TypeOK, CountersAreExact, OutboxBounded, Making, Pending
<1>1. ASSUME reserved' \in Nat, up' => reserved' = Cardinality(Making'),
             Room > 0 => Cardinality(Pending') + reserved' < Room
      PROVE  OutboxBounded' /\ reserved' \in Nat
  BY <1>1 DEF OutboxBounded, Making
<1>2. CASE Start
  <2>1. Making' = {}
    BY <1>2 DEF Start, Making
  <2>2. Pending' = Pending /\ reserved' = 0
    BY <1>2 DEF Start, durable, Pending
  <2>3. Cardinality(Making') = 0
    BY <2>1, FS_EmptySet
  <2> QED BY <1>0, <1>1, <2>2, <2>3
<1>3. CASE Finish \/ Crash
  <2>1. Pending' = Pending /\ reserved' \in {0, reserved} /\ ~up'
    BY <1>3 DEF Finish, Crash, durable, Pending, work
  <2> QED BY <1>0, <1>1, <2>1
<1>4. CASE UNCHANGED reserved /\ (up' => up) /\ Making' = Making /\ Pending' \subseteq Pending
  <2>1. Cardinality(Pending') <= Cardinality(Pending) /\ Cardinality(Pending') \in Nat
    BY <1>0, <1>4, FS_Subset, FS_CardinalityType
  <2> QED BY <1>0, <1>1, <1>4, <2>1
<1>5. CASE SecondPass \/ Stop \/ UNCHANGED vars
  <2>1. Pending' = Pending /\ UNCHANGED reserved /\ (up' => up)
    BY <1>5 DEF SecondPass, Stop, vars, durable, run, work, Pending
  <2>2. Making' = Making
    BY <1>5 DEF SecondPass, Stop, vars, work, Making, Failed
  <2> QED BY <1>4, <2>1, <2>2
<1>6. ASSUME NEW s \in Segments, LookupOutbox(s) \/ LookupBucket(s) \/ Take(s) \/ UploadFails(s)
                                 \/ OnlineStep(s) \/ Upload(s)
      PROVE  OutboxBounded' /\ reserved' \in Nat
  <2>1. Pending' = Pending /\ UNCHANGED reserved /\ (up' => up)
    BY <1>6 DEF LookupOutbox, LookupBucket, Take, UploadFails, OnlineStep, Upload, durable, run, work,
           Pending
  <2>2. Making' = Making
    <3>1. \A t \in Segments : t # s => step'[t] = step[t]
      BY <1>0, <1>6, OthersUntouched DEF SegmentStep
    <3>2. \/ step[s] \notin {"reserved", "synth", "made"} /\ step'[s] \notin {"reserved", "synth", "made"}
          \/ step'[s] = step[s]
      BY <1>0, <1>6 DEF LookupOutbox, LookupBucket, Take, UploadFails, OnlineStep, Upload, Move, Deliver,
             Uploading, work
    <3> QED BY <3>1, <3>2 DEF Making
  <2> QED BY <1>4, <2>1, <2>2
<1>7. ASSUME NEW s \in Segments, Confirm(s)
      PROVE  OutboxBounded' /\ reserved' \in Nat
  <2>1. Pending' \subseteq Pending
    BY <1>0, <1>7 DEF Confirm, Pending
  <2>2. Making' = Making /\ UNCHANGED reserved /\ (up' => up)
    <3>1. \A t \in Segments : t # s => step'[t] = step[t]
      BY <1>0, <1>7, OthersUntouched DEF SegmentStep
    <3>2. step[s] = "confirm" /\ step'[s] \in {"delivered", "dropped"}
      BY <1>0, <1>7 DEF Confirm, Move, Deliver
    <3> QED BY <1>7, <3>1, <3>2 DEF Making, Confirm, run
  <2> QED BY <1>4, <2>1, <2>2
<1>8. ASSUME NEW s \in Segments, Reserve(s)
      PROVE  OutboxBounded' /\ reserved' \in Nat
  <2>0. Pending' = Pending /\ up
    BY <1>8 DEF Reserve, durable, Pending
  <2>1. CASE Move(s, "reserved") /\ reserved' = reserved + 1 /\ Cardinality(Pending) + reserved + 1 < Room
    <3>1. Making' = Making \cup {s} /\ s \notin Making
      BY <1>0, <1>8, <2>1 DEF Reserve, Move, Making
    <3>2. Cardinality(Making') = Cardinality(Making) + 1
      BY <1>0, <3>1, FS_AddElement
    <3> QED BY <1>0, <1>1, <2>0, <2>1, <3>2
  <2>2. CASE Move(s, "dropped") /\ UNCHANGED reserved
    <3>1. Making' = Making
      BY <1>0, <1>8, <2>2 DEF Reserve, Move, Making
    <3> QED BY <1>4, <2>0, <2>2, <3>1
  <2> QED BY <1>8, <2>1, <2>2 DEF Reserve
<1>9. ASSUME NEW s \in Segments, Send(s) \/ Synthesize(s) \/ Stage(s)
      PROVE  OutboxBounded' /\ reserved' \in Nat
  <2>0. up /\ s \in Making /\ reserved = Cardinality(Making)
    BY <1>0, <1>9 DEF Send, Synthesize, Stage, Making
  <2>1. CASE UNCHANGED reserved
    <3>1. Pending' = Pending
      BY <1>0, <1>9, <2>1 DEF Send, Synthesize, Stage, durable, Pending
    <3>2. Making' = Making
      BY <1>0, <1>9, <2>1 DEF Send, Synthesize, Stage, Move, Making
    <3> QED BY <1>4, <2>0, <2>1, <3>1, <3>2
  <2>2. CASE reserved' = reserved - 1
    <3>1. step' = [step EXCEPT ![s] = step'[s]] /\ step'[s] \in {"failed", "dropped", "queued"}
      BY <1>0, <1>9, <2>2 DEF Send, Synthesize, Stage, Move
    <3>2. Making' = Making \ {s}
      BY <1>0, <3>1 DEF Making
    <3>3. Cardinality(Making') = Cardinality(Making) - 1
      BY <1>0, <2>0, <3>2, FS_RemoveElement
    <3>4. reserved' \in Nat /\ reserved' = Cardinality(Making')
      <4>1. Cardinality(Making') \in Nat
        BY <1>0, <3>2, FS_RemoveElement, FS_CardinalityType
      <4> QED BY <2>0, <2>2, <3>3, <4>1
    <3>5. Pending' \subseteq Pending \cup {s} /\ IsFiniteSet(Pending \cup {s})
          /\ Cardinality(Pending \cup {s}) <= Cardinality(Pending) + 1
          /\ Cardinality(Pending \cup {s}) \in Nat
      <4>1. outbox' = outbox \/ outbox' = [outbox EXCEPT ![s] = [state |-> "pending", audio |-> runs]]
        BY <1>9 DEF Send, Synthesize, Stage, durable
      <4>2. Pending' \subseteq Pending \cup {s}
        BY <1>0, <4>1 DEF Pending
      <4>3. IsFiniteSet(Pending \cup {s}) /\ Cardinality(Pending \cup {s}) \in Nat
        BY <1>0, FS_AddElement, FS_CardinalityType
      <4>4. Cardinality(Pending \cup {s}) <= Cardinality(Pending) + 1
        <5>1. Cardinality(Pending \cup {s}) = IF s \in Pending THEN Cardinality(Pending)
                                              ELSE Cardinality(Pending) + 1
          BY <1>0, FS_AddElement
        <5> QED BY <1>0, <5>1
      <4> QED BY <4>2, <4>3, <4>4
    <3>6. Cardinality(Pending') <= Cardinality(Pending) + 1 /\ Cardinality(Pending') \in Nat
      <4>1. Cardinality(Pending') <= Cardinality(Pending \cup {s}) /\ Cardinality(Pending') \in Nat
        BY <3>5, FS_Subset, FS_CardinalityType
      <4> QED BY <1>0, <3>5, <4>1
    <3> QED BY <1>0, <1>1, <2>2, <3>4, <3>6
  <2>3. reserved' = reserved \/ reserved' = reserved - 1
    BY <1>9 DEF Send, Synthesize, Stage
  <2> QED BY <2>1, <2>2, <2>3
<1>10. ASSUME NEW d \in Chapters, Publish(d) \/ PublishFails(d)
       PROVE  OutboxBounded' /\ reserved' \in Nat
  <2>1. Pending' = Pending /\ UNCHANGED <<reserved, step, up>>
    BY <1>10 DEF Publish, PublishFails, durable, run, Pending
  <2> QED BY <1>4, <2>1 DEF Making
<1> QED BY <1>2, <1>3, <1>5, <1>6, <1>7, <1>8, <1>9, <1>10 DEF Next, SegmentStep

---------------------------------------------------------------------------
(* Theorems *)

LEMMA InductiveInit == Init => Inductive
<1> SUFFICES ASSUME Init PROVE Inductive
  OBVIOUS
<1> USE LibraryAssumption
<1>1. TypeOK
  <2>1. outbox \in [Segments -> Rows] /\ step \in [Segments -> Steps]
        /\ publication \in [Chapters -> Publications]
    BY DEF Init, Rows, NoRow, Steps, Publications
  <2>2. runs \in 0..MaxRuns /\ faults \in 0..MaxFaults /\ reserved \in Int
    BY DEF Init
  <2>3. up \in BOOLEAN
    BY DEF Init
  <2>4. DOMAIN index = Chapters /\ \A c \in Chapters : index[c] \in [Needs[c] -> Makers] \cup {None}
    BY DEF Init
  <2>5. objects = {} /\ manifests = {} /\ checkpoint = {} /\ stopped = "no" /\ pass = 1
    BY DEF Init
  <2>6. /\ descriptor \in [Segments -> Makers \cup {None}] /\ found \in [Segments -> Makers \cup {None}]
        /\ remaining \in [Chapters -> Int] /\ online \in [Segments -> {"idle", "made", "put", "done"}]
    BY DEF Init
  <2> QED BY <2>1, <2>2, <2>3, <2>4, <2>5, <2>6 DEF TypeOK
<1>2. \A s \in Segments : SegmentOK(s)
  BY DEF Init, SegmentOK, BucketOK, NoRow
<1>3. PublishedIsPlayable
  BY DEF Init, PublishedIsPlayable, ChaptersArePlayable, CheckpointIsPublished
<1>4. CountersAreExact
  <2>1. Pending = {}
    BY DEF Init, Pending, NoRow
  <2>2. Cardinality(Pending) = 0
    BY <2>1, FS_EmptySet
  <2> QED BY <2>2 DEF Init, CountersAreExact, RemainingIsExact, OutboxBounded
<1> QED BY <1>1, <1>2, <1>3, <1>4 DEF Inductive, Init

LEMMA InductiveStep == Inductive /\ [Next]_vars => Inductive'
<1> SUFFICES ASSUME Inductive, [Next]_vars PROVE Inductive'
  OBVIOUS
<1>1. CountersAreExact' /\ reserved' \in Nat
  BY RemainingKept, OutboxKept DEF CountersAreExact
<1> QED BY <1>1, TypesKept, SegmentsKept, ChaptersKept, PlayableKept DEF Inductive

LEMMA AlwaysInductive == Spec => []Inductive
BY InductiveInit, InductiveStep, PTL DEF Spec

(* TypeOK holds in every run: each variable of the job and of what         *)
(* survives it keeps to the values the code gives it.                      *)
THEOREM LibraryTypes == Spec => []TypeOK
<1>1. Inductive => TypeOK
  BY DEF Inductive
<1> QED BY <1>1, AlwaysInductive, PTL

(* PublishedIsPlayable holds in every run: an index names a manifest that  *)
(* is there, all of whose MP3s are in the bucket, and a chapter is in the  *)
(* checkpoint only when it is published and nothing of it waits in the     *)
(* outbox.                                                                 *)
THEOREM LibraryIsPlayable == Spec => []PublishedIsPlayable
<1>1. Inductive => PublishedIsPlayable
  BY DEF Inductive
<1> QED BY <1>1, AlwaysInductive, PTL

(* CountersAreExact holds in every run: a chapter waits for exactly the    *)
(* segments that were not delivered, and the outbox never exceeds its      *)
(* room, counting what is in the making.                                   *)
THEOREM LibraryCountersAreExact == Spec => []CountersAreExact
<1>1. Inductive => CountersAreExact
  BY DEF Inductive
<1> QED BY <1>1, AlwaysInductive, PTL

(* NothingIsLost holds in every run: an MP3 that was staged once stays in  *)
(* the outbox until the bucket has a descriptor for it.                    *)
THEOREM LibraryLosesNothing == Spec => NothingIsLost
<1>1. Inductive /\ [Next]_vars => [\A s \in Segments : Kept(s) => Kept(s)']_vars
  BY BucketGrows DEF Kept
<1> QED BY <1>1, AlwaysInductive, PTL DEF Spec, NothingIsLost
=============================================================================
