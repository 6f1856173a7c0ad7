----------------------- MODULE SpeechDeliveryProofs -----------------------
(***************************************************************************)
(* Theorems about SpeechDelivery, for any requests, instances, slots,      *)
(* length of the streams and number of lost instances.                     *)
(***************************************************************************)
EXTENDS SpeechDelivery, FiniteSetTheorems, TLAPS

Complete(audio) == audio \in objects /\ audio.whole

(* What a thread writes is complete, and its object is there before its    *)
(* descriptor is; what a task returns is complete and in its voice.        *)
WriterOK(t) ==
  /\ writer[t] # "idle" => AudioOf(t).whole
  /\ writer[t] \in {"descriptor", "stored", "alias", "aliased"} => AudioOf(t) \in objects

OutcomeOK(t) ==
  /\ outcome[t] # "none" => phase[t] \in {"settled", "gone"}
  /\ outcome[t] = "audio" =>
       /\ result[t] \in Audio /\ Complete(result[t]) /\ result[t].by[2] = t[2]
       /\ Live(t) => Complete(AudioOf(t))
  /\ phase[t] = "recheck" => ~Live(t)

(* A task is in the dictionaries of its instance until its callback ran. *)
Tracked(t) == Running(t) \/ phase[t] = "settled"

TaskRegistered(t) ==
  Tracked(t) => /\ pending[Home(t)][t[2]] = t
                /\ streams[Home(t)][t[2]] = IF Live(t) THEN t ELSE None

EntryOK(i, v) ==
  /\ pending[i][v] # None => Home(pending[i][v]) = i /\ pending[i][v][2] = v
  /\ streams[i][v] # None => Live(streams[i][v]) /\ pending[i][v] = streams[i][v]

Early == {"idle", "lookup", "lookupVoice", "claim"}

(* A request knows which voice it tries, and has no task in it before it   *)
(* claims one.                                                             *)
VoiceOK(r) ==
  /\ ~Logical(r) => target[r] = IF kind[r] = "edge" THEN "edge" ELSE "mimo"
  /\ pc[r] \in Early => phase[<<r, target[r]>>] = "none"
  /\ target[r] = "mimo" => phase[<<r, "edge">>] = "none"
  /\ pc[r] \in {"lookup", "alias", "leaving"} => Logical(r)

FollowOK(r) ==
  /\ pc[r] \in {"join", "listen"} =>
       follows[r] \in Tasks /\ follows[r][2] = target[r] /\ Home(follows[r]) = at[r]
  /\ pc[r] = "listen" => Live(follows[r]) /\ Streaming(r)
  /\ pc[r] \in Early \cup {"join", "alias", "leaving"} => cursor[r] = 0
  /\ pc[r] \in {"alias", "leaving"} => answer[r] \in Audio /\ Complete(answer[r])

Inductive ==
  /\ TypeOK
  /\ DescriptorsAreComplete
  /\ \A t \in Tasks : WriterOK(t) /\ OutcomeOK(t) /\ TaskRegistered(t)
  /\ \A i \in Instances, v \in Voices : EntryOK(i, v)
  /\ \A r \in Requests : VoiceOK(r) /\ FollowOK(r)
  /\ AnswersAreWhole
  /\ SlotsConserved
---------------------------------------------------------------------------
LEMMA TaskFacts ==
  /\ \A t \in Tasks : t[1] \in Requests /\ t[2] \in Voices /\ t = <<t[1], t[2]>>
  /\ \A r \in Requests, v \in Voices : <<r, v>> \in Tasks
  /\ None \notin Tasks /\ None \notin Audio
BY DeliveryAssumption DEF Tasks

(* Requests and their places do not change, and objects are not removed. *)
LEMMA Fixed ==
  ASSUME [Next]_vars
  PROVE  kind' = kind /\ at' = at /\ objects \subseteq objects'
<1>1. ASSUME NEW r \in Requests, Arrive(r) \/ RequestStep(r) \/ Leave(r)
      PROVE  kind' = kind /\ at' = at /\ objects' = objects
  BY <1>1 DEF Arrive, RequestStep, Leave, Lookup, LookupVoice, Claim, Join, Listen, Alias, Fail, Serve,
         Follow, FallBack, bucket
<1>2. ASSUME NEW t \in Tasks, TaskStep(t) \/ Write(t) \/ StreamTimeout(t)
      PROVE  kind' = kind /\ at' = at /\ objects \subseteq objects'
  BY <1>2 DEF TaskStep, Produce, AwaitSlot, Recheck, StreamChunk, Synthesize, Written, Finish, Write,
         StreamTimeout, requests, bucket
<1>3. ASSUME NEW i \in Instances, Crash(i)
      PROVE  kind' = kind /\ at' = at /\ objects' = objects
  BY <1>3 DEF Crash, bucket
<1>4. CASE UNCHANGED vars
  BY <1>4 DEF vars, requests, bucket
<1> QED BY <1>1, <1>2, <1>3, <1>4 DEF Next

---------------------------------------------------------------------------
(* Types *)

RequestTypes ==
  /\ pc \in [Requests -> {"idle"} \cup Waiting \cup Ended]
  /\ target \in [Requests -> Voices]
  /\ follows \in [Requests -> Tasks \cup {None}]
  /\ cursor \in [Requests -> 0..Chunks]
  /\ answer \in [Requests -> Audio \cup {None}]

TaskTypes ==
  /\ phase \in [Tasks -> Phases]
  /\ chunks \in [Tasks -> 0..Chunks]
  /\ writer \in [Tasks -> {"idle", "object", "descriptor", "stored", "alias", "aliased", "failed"}]
  /\ outcome \in [Tasks -> Outcomes]
  /\ result \in [Tasks -> Audio \cup {None}]

MemoryTypes ==
  /\ pending \in [Instances -> [Voices -> Tasks \cup {None}]]
  /\ streams \in [Instances -> [Voices -> Tasks \cup {None}]]

BucketTypes ==
  /\ objects \subseteq Audio
  /\ stored \in [Keys -> Audio \cup {None}]

LEMMA SplitTypes ==
  TypeOK <=> /\ kind \in [Requests -> Kinds] /\ at \in [Requests -> Instances]
             /\ RequestTypes /\ TaskTypes /\ MemoryTypes /\ BucketTypes
             /\ free \in [Instances -> 0..Slots] /\ crashes \in 0..MaxCrashes
BY DEF TypeOK, RequestTypes, TaskTypes, MemoryTypes, BucketTypes

LEMMA AudioIsAudio ==
  ASSUME NEW t \in Tasks
  PROVE  AudioOf(t) \in Audio /\ AudioOf(t).by = t
         /\ AudioOf(t).whole = (~Live(t) \/ chunks[t] = Chunks)
BY DEF AudioOf, Audio, Live

LEMMA RequestTypesKept ==
  ASSUME TypeOK, [Next]_vars,
         \A r \in Requests : pc[r] = "join" => follows[r] \in Tasks /\ (outcome[follows[r]] = "audio"
                                                 => result[follows[r]] \in Audio),
         \A r \in Requests : pc[r] = "listen" => follows[r] \in Tasks
  PROVE  RequestTypes'
<1>0. RequestTypes /\ TaskTypes /\ MemoryTypes /\ BucketTypes /\ at \in [Requests -> Instances]
  BY SplitTypes
<1>1. ASSUME NEW r \in Requests, Arrive(r) \/ Leave(r) \/ Alias(r)
      PROVE  RequestTypes'
  BY <1>0, <1>1 DEF RequestTypes, Arrive, Leave, Alias, Goto, Waiting, Ended
<1>2. ASSUME NEW r \in Requests, Lookup(r)
      PROVE  RequestTypes'
  <2>1. stored["auto"] \in Audio \cup {None}
    BY <1>0 DEF BucketTypes, Keys
  <2> QED BY <1>0, <1>2, <2>1 DEF RequestTypes, Lookup, Fail, Goto, Waiting, Ended
<1>3. ASSUME NEW r \in Requests, LookupVoice(r)
      PROVE  RequestTypes'
  <2>1. stored[target[r]] \in Audio \cup {None}
    BY <1>0 DEF BucketTypes, Keys, RequestTypes
  <2> QED BY <1>0, <1>3, <2>1 DEF RequestTypes, LookupVoice, Fail, Serve, Goto, Waiting, Ended
<1>4. ASSUME NEW r \in Requests, Claim(r)
      PROVE  RequestTypes'
  <2>1. target[r] \in Voices /\ at[r] \in Instances /\ <<r, target[r]>> \in Tasks
    BY <1>0, TaskFacts DEF RequestTypes
  <2>2. /\ streams[at[r]][target[r]] \in Tasks \cup {None}
        /\ pending[at[r]][target[r]] \in Tasks \cup {None}
    BY <1>0, <2>1 DEF MemoryTypes
  <2>3. \/ Fail(r)
        \/ \E t \in Tasks \cup {None}, where \in {"join", "listen"} : Follow(r, t, where)
    BY <1>4, <2>1, <2>2 DEF Claim
  <2>4. CASE Fail(r)
    BY <1>0, <2>4 DEF RequestTypes, Fail, Goto, Waiting, Ended
  <2>5. ASSUME NEW t \in Tasks \cup {None}, NEW where \in {"join", "listen"}, Follow(r, t, where)
        PROVE  RequestTypes'
    BY <1>0, <2>5 DEF RequestTypes, Follow, Goto, Waiting, Ended
  <2> QED BY <2>3, <2>4, <2>5
<1>5. ASSUME NEW r \in Requests, Join(r)
      PROVE  RequestTypes'
  <2>1. outcome[follows[r]] = "audio" => result[follows[r]] \in Audio
    BY <1>5 DEF Join
  <2>2. CASE outcome[follows[r]] = "audio" /\ Serve(r, result[follows[r]])
    BY <1>0, <2>1, <2>2 DEF RequestTypes, Serve, Goto, Waiting, Ended
  <2>3. CASE /\ outcome[follows[r]] = "audio"
             /\ Goto(r, "answered")
             /\ answer' = [answer EXCEPT ![r] = result[follows[r]]]
             /\ UNCHANGED <<kind, at, target, follows, cursor>>
    BY <1>0, <2>1, <2>3 DEF RequestTypes, Goto, Waiting, Ended
  <2>4. CASE FallBack(r)
    BY <1>0, <2>4 DEF RequestTypes, FallBack, Goto, Voices, Waiting, Ended
  <2>5. CASE Fail(r)
    BY <1>0, <2>5 DEF RequestTypes, Fail, Goto, Waiting, Ended
  <2> QED BY <1>5, <2>2, <2>3, <2>4, <2>5 DEF Join
<1>6. ASSUME NEW r \in Requests, Listen(r)
      PROVE  RequestTypes'
  <2>1. follows[r] \in Tasks /\ chunks[follows[r]] \in 0..Chunks
    BY <1>0, <1>6 DEF Listen, TaskTypes
  <2>2. CASE /\ cursor[r] < chunks[follows[r]]
             /\ cursor' = [cursor EXCEPT ![r] = @ + 1]
             /\ UNCHANGED <<kind, at, pc, target, follows, answer>>
    <3>1. cursor[r] \in 0..Chunks /\ Chunks \in Nat
      BY <1>0, DeliveryAssumption DEF RequestTypes
    <3>2. cursor[r] + 1 \in 0..Chunks
      BY <2>1, <2>2, <3>1
    <3> QED BY <1>0, <2>2, <3>2 DEF RequestTypes
  <2>3. CASE /\ Goto(r, "answered")
             /\ answer' = [answer EXCEPT ![r] = AudioOf(follows[r])]
             /\ UNCHANGED <<kind, at, target, follows, cursor>>
    <3>1. AudioOf(follows[r]) \in Audio
      BY <2>1, AudioIsAudio
    <3> QED BY <1>0, <2>3, <3>1 DEF RequestTypes, Goto, Waiting, Ended
  <2>4. CASE FallBack(r)
    BY <1>0, <2>4 DEF RequestTypes, FallBack, Goto, Voices, Waiting, Ended
  <2>5. CASE Fail(r)
    BY <1>0, <2>5 DEF RequestTypes, Fail, Goto, Waiting, Ended
  <2> QED BY <1>6, <2>2, <2>3, <2>4, <2>5 DEF Listen
<1>7. ASSUME NEW t \in Tasks, TaskStep(t) \/ Write(t) \/ StreamTimeout(t)
      PROVE  RequestTypes'
  BY <1>0, <1>7 DEF RequestTypes, TaskStep, Produce, AwaitSlot, Recheck, StreamChunk, Synthesize, Written,
         Finish, Write, StreamTimeout, requests
<1>8. ASSUME NEW i \in Instances, Crash(i)
      PROVE  RequestTypes'
  <2>1. pc' \in [Requests -> {"idle"} \cup Waiting \cup Ended]
    BY <1>0, <1>8 DEF RequestTypes, Crash, Ended
  <2> QED BY <1>0, <1>8, <2>1 DEF RequestTypes, Crash
<1>9. CASE UNCHANGED vars
  BY <1>0, <1>9 DEF RequestTypes, vars, requests
<1> QED BY <1>1, <1>2, <1>3, <1>4, <1>5, <1>6, <1>7, <1>8, <1>9 DEF Next, RequestStep

LEMMA TaskTypesKept ==
  ASSUME TypeOK, [Next]_vars
  PROVE  TaskTypes'
<1>0. TaskTypes /\ RequestTypes /\ BucketTypes
  BY SplitTypes
<1>1. ASSUME NEW r \in Requests, Arrive(r) \/ Leave(r) \/ Alias(r) \/ Lookup(r) \/ LookupVoice(r) \/ Join(r)
                                 \/ Listen(r)
      PROVE  TaskTypes'
  BY <1>0, <1>1 DEF TaskTypes, Arrive, Leave, Alias, Lookup, LookupVoice, Join, Listen, tasks
<1>2. ASSUME NEW r \in Requests, Claim(r)
      PROVE  TaskTypes'
  <2>1. <<r, target[r]>> \in Tasks
    BY <1>0, TaskFacts DEF RequestTypes
  <2> QED BY <1>0, <1>2, <2>1 DEF TaskTypes, Claim, Phases
<1>3. ASSUME NEW t \in Tasks, AwaitSlot(t) \/ Recheck(t) \/ Synthesize(t) \/ Written(t) \/ StreamTimeout(t)
      PROVE  TaskTypes'
  <2>1. stored[t[2]] \in Audio \cup {None} /\ AudioOf(t) \in Audio
    BY <1>0, TaskFacts, AudioIsAudio DEF BucketTypes, Keys
  <2>2. AwaitSlot(t) => TaskTypes'
    BY <1>0 DEF TaskTypes, AwaitSlot, Settle, Move, Phases, Outcomes
  <2>3. Recheck(t) => TaskTypes'
    BY <1>0, <2>1 DEF TaskTypes, Recheck, Settle, Move, Phases, Outcomes
  <2>4. Synthesize(t) => TaskTypes'
    BY <1>0 DEF TaskTypes, Synthesize, Settle, Move, Phases, Outcomes
  <2>5. Written(t) => TaskTypes'
    BY <1>0, <2>1 DEF TaskTypes, Written, Settle, Move, Phases, Outcomes
  <2>6. StreamTimeout(t) => TaskTypes'
    BY <1>0 DEF TaskTypes, StreamTimeout, Settle, Move, Phases, Outcomes
  <2> QED BY <1>3, <2>2, <2>3, <2>4, <2>5, <2>6
<1>4. ASSUME NEW t \in Tasks, StreamChunk(t)
      PROVE  TaskTypes'
  <2>1. chunks[t] \in 0..Chunks /\ chunks[t] < Chunks /\ Chunks \in Nat
    BY <1>0, <1>4, DeliveryAssumption DEF TaskTypes, StreamChunk
  <2>2. chunks[t] + 1 \in 0..Chunks
    BY <2>1
  <2> QED BY <1>0, <1>4, <2>2 DEF TaskTypes, StreamChunk
<1>5. ASSUME NEW t \in Tasks, Write(t)
      PROVE  TaskTypes'
  BY <1>0, <1>5 DEF TaskTypes, Write
<1>6. ASSUME NEW t \in Tasks, Finish(t)
      PROVE  TaskTypes'
  BY <1>0, <1>6 DEF TaskTypes, Finish, Move, Phases
<1>7. ASSUME NEW i \in Instances, Crash(i)
      PROVE  TaskTypes'
  <2>1. phase' \in [Tasks -> Phases]
    BY <1>0, <1>7 DEF TaskTypes, Crash, Phases
  <2>2. writer' \in [Tasks -> {"idle", "object", "descriptor", "stored", "alias", "aliased", "failed"}]
    BY <1>0, <1>7 DEF TaskTypes, Crash
  <2> QED BY <1>0, <1>7, <2>1, <2>2 DEF TaskTypes, Crash
<1>8. CASE UNCHANGED vars
  BY <1>0, <1>8 DEF TaskTypes, vars, tasks
<1> QED BY <1>1, <1>2, <1>3, <1>4, <1>5, <1>6, <1>7, <1>8 DEF Next, RequestStep, TaskStep, Produce

---------------------------------------------------------------------------
(* Writers and the bucket *)

LEMMA SameAudio ==
  ASSUME NEW t \in Tasks, [Next]_vars, chunks'[t] = chunks[t]
  PROVE  AudioOf(t)' = AudioOf(t) /\ Live(t)' = Live(t) /\ (Complete(AudioOf(t)) => Complete(AudioOf(t))')
BY Fixed DEF AudioOf, Live, Streaming, Complete

LEMMA WriterFrame ==
  ASSUME NEW t \in Tasks, [Next]_vars, WriterOK(t), chunks'[t] = chunks[t], writer'[t] \in {writer[t], "idle"}
  PROVE  WriterOK(t)'
BY Fixed, SameAudio DEF WriterOK

LEMMA WritersKept ==
  ASSUME Inductive, [Next]_vars
  PROVE  \A t \in Tasks : WriterOK(t)'
<1> SUFFICES ASSUME NEW t \in Tasks PROVE WriterOK(t)'
  OBVIOUS
<1>0. TaskTypes /\ WriterOK(t) /\ AudioOf(t).whole = (~Live(t) \/ chunks[t] = Chunks)
  BY SplitTypes, AudioIsAudio DEF Inductive
<1>1. CASE UNCHANGED <<chunks, writer>>
  BY <1>0, <1>1, WriterFrame
<1>2. ASSUME NEW s \in Tasks, StreamChunk(s)
      PROVE  WriterOK(t)'
  <2>1. CASE t = s
    <3>1. Live(t) /\ chunks[t] < Chunks /\ chunks[t] \in 0..Chunks /\ writer' = writer
      BY <1>0, <1>2, <2>1 DEF StreamChunk, TaskTypes
    <3>2. writer[t] = "idle"
      <4>1. chunks[t] # Chunks
        BY <3>1, DeliveryAssumption
      <4> QED BY <1>0, <3>1, <4>1 DEF WriterOK
    <3> QED BY <3>1, <3>2 DEF WriterOK
  <2>2. CASE t # s
    BY <1>0, <1>2, <2>2, WriterFrame DEF StreamChunk, TaskTypes
  <2> QED BY <2>1, <2>2
<1>3. ASSUME NEW s \in Tasks, Synthesize(s) \/ Write(s) \/ Written(s)
      PROVE  WriterOK(t)'
  <2>0. chunks' = chunks
    BY <1>3 DEF Synthesize, Write, Written
  <2>1. CASE t # s
    <3>1. writer'[t] = writer[t]
      BY <1>0, <1>3, <2>1 DEF Synthesize, Write, Written, TaskTypes
    <3> QED BY <1>0, <2>0, <3>1, WriterFrame
  <2>2. CASE t = s /\ writer'[t] \in {writer[t], "idle"}
    BY <1>0, <2>0, <2>2, WriterFrame
  <2>3. CASE t = s /\ Synthesize(s) /\ writer' # writer
    <3>1. writer'[t] = "object" /\ (Live(t) => chunks[t] = Chunks)
      BY <1>0, <2>3 DEF Synthesize, TaskTypes
    <3> QED BY <1>0, <2>0, <3>1, SameAudio DEF WriterOK
  <2>4. CASE t = s /\ Write(s) /\ writer'[t] # writer[t]
    <3>1. /\ writer[t] \in {"object", "descriptor", "alias"}
          /\ writer'[t] \in {"descriptor", "stored", "aliased", "failed"}
          /\ writer[t] = "object" /\ writer'[t] = "descriptor" => AudioOf(t) \in objects'
          /\ writer[t] = "object" => writer'[t] \in {"descriptor", "failed"}
      BY <1>0, <2>4 DEF Write, TaskTypes
    <3>2. AudioOf(t).whole
      BY <1>0, <3>1 DEF WriterOK
    <3>3. writer'[t] = "failed" \/ AudioOf(t) \in objects'
      BY <1>0, <3>1, Fixed DEF WriterOK
    <3> QED BY <2>0, <3>1, <3>2, <3>3, SameAudio DEF WriterOK
  <2>5. CASE t = s /\ Written(s) /\ writer' # writer
    <3>1. writer[t] = "stored" /\ writer'[t] = "alias"
      BY <1>0, <2>5 DEF Written, TaskTypes
    <3> QED BY <1>0, <2>0, <3>1, Fixed, SameAudio DEF WriterOK
  <2> QED BY <1>3, <2>1, <2>2, <2>3, <2>4, <2>5
<1>4. ASSUME NEW i \in Instances, Crash(i)
      PROVE  WriterOK(t)'
  BY <1>0, <1>4, WriterFrame DEF Crash
<1>5. ASSUME NEW s \in Tasks, AwaitSlot(s) \/ Recheck(s) \/ Finish(s) \/ StreamTimeout(s)
      PROVE  UNCHANGED <<chunks, writer>>
  BY <1>5 DEF AwaitSlot, Recheck, Finish, StreamTimeout
<1>6. ASSUME NEW r \in Requests, Arrive(r) \/ RequestStep(r) \/ Leave(r)
      PROVE  UNCHANGED <<chunks, writer>>
  BY <1>6 DEF Arrive, RequestStep, Leave, Lookup, LookupVoice, Claim, Join, Listen, Alias, tasks
<1>7. CASE UNCHANGED vars
  BY <1>1, <1>7 DEF vars, tasks
<1> QED BY <1>1, <1>2, <1>3, <1>4, <1>5, <1>6, <1>7 DEF Next, TaskStep, Produce

(* Descriptors and objects come from writers and from aliases. *)
LEMMA OnlyWritersStore ==
  ASSUME [Next]_vars
  PROVE  \/ UNCHANGED bucket
         \/ \E t \in Tasks : Write(t)
         \/ \E r \in Requests : Alias(r)
BY DEF Next, RequestStep, TaskStep, Produce, Arrive, Leave, Lookup, LookupVoice, Claim, Join, Listen,
       AwaitSlot, Recheck, StreamChunk, Synthesize, Written, Finish, StreamTimeout, Crash, vars

LEMMA BucketKept ==
  ASSUME Inductive, [Next]_vars
  PROVE  BucketTypes' /\ DescriptorsAreComplete'
<1> USE TaskFacts
<1>0. BucketTypes /\ TaskTypes /\ DescriptorsAreComplete
  BY SplitTypes DEF Inductive
<1>1. CASE UNCHANGED bucket
  BY <1>0, <1>1 DEF BucketTypes, DescriptorsAreComplete, bucket
<1>2. ASSUME NEW t \in Tasks, Write(t)
      PROVE  BucketTypes' /\ DescriptorsAreComplete'
  <2>1. AudioOf(t) \in Audio /\ AudioOf(t).by = t /\ WriterOK(t)
    BY AudioIsAudio DEF Inductive
  <2>2. CASE UNCHANGED stored /\ (objects' = objects \/ objects' = objects \cup {AudioOf(t)})
    BY <1>0, <2>1, <2>2 DEF BucketTypes, DescriptorsAreComplete
  <2>3. ASSUME NEW k \in {t[2], "auto"}, writer[t] \in {"descriptor", "alias"},
               stored' = [stored EXCEPT ![k] = AudioOf(t)], objects' = objects
        PROVE  BucketTypes' /\ DescriptorsAreComplete'
    <3>1. AudioOf(t) \in objects /\ AudioOf(t).whole
      BY <2>1, <2>3 DEF WriterOK
    <3>2. BucketTypes'
      BY <1>0, <2>1, <2>3 DEF BucketTypes
    <3>3. \A x \in Keys : stored'[x] = IF x = k THEN AudioOf(t) ELSE stored[x]
      BY <1>0, <2>3 DEF BucketTypes, Keys
    <3>4. k \in Voices => AudioOf(t).by[2] = k
      BY <2>1, <2>3 DEF Voices
    <3> QED BY <1>0, <2>3, <3>1, <3>2, <3>3, <3>4 DEF DescriptorsAreComplete
  <2>4. \/ UNCHANGED stored /\ (objects' = objects \/ objects' = objects \cup {AudioOf(t)})
        \/ \E k \in {t[2], "auto"} : /\ writer[t] \in {"descriptor", "alias"}
                                     /\ stored' = [stored EXCEPT ![k] = AudioOf(t)]
                                     /\ objects' = objects
    BY <1>2 DEF Write, bucket
  <2> QED BY <2>2, <2>3, <2>4
<1>3. ASSUME NEW r \in Requests, Alias(r)
      PROVE  BucketTypes' /\ DescriptorsAreComplete'
  <2>1. answer[r] \in Audio /\ answer[r] \in objects /\ answer[r].whole
    BY <1>3 DEF Inductive, FollowOK, Complete, Alias
  <2>2. objects' = objects /\ (stored' = stored \/ stored' = [stored EXCEPT !["auto"] = answer[r]])
    BY <1>3 DEF Alias
  <2>3. BucketTypes'
    BY <1>0, <2>1, <2>2 DEF BucketTypes
  <2>4. \A x \in Keys : stored'[x] = stored[x] \/ (x = "auto" /\ stored'[x] = answer[r])
    BY <1>0, <2>2 DEF BucketTypes, Keys
  <2>5. "auto" \notin Voices
    BY DEF Voices
  <2> QED BY <1>0, <2>1, <2>2, <2>3, <2>4, <2>5 DEF DescriptorsAreComplete
<1> QED BY <1>1, <1>2, <1>3, OnlyWritersStore

---------------------------------------------------------------------------
(* How tasks end *)

LEMMA OutcomeFrame ==
  ASSUME NEW t \in Tasks, [Next]_vars, OutcomeOK(t), chunks'[t] = chunks[t] \/ outcome[t] = "none",
         outcome'[t] = outcome[t], result'[t] = result[t],
         phase'[t] = phase[t] \/ phase'[t] = "gone" \/ (outcome[t] = "none" /\ phase'[t] # "recheck")
  PROVE  OutcomeOK(t)'
<1>1. outcome[t] # "none" => phase'[t] \in {"settled", "gone"}
  BY DEF OutcomeOK
<1>2. outcome[t] = "audio" =>
        /\ result[t] \in Audio /\ Complete(result[t])' /\ result[t].by[2] = t[2]
        /\ Live(t)' => Complete(AudioOf(t))'
  BY Fixed, SameAudio DEF OutcomeOK, Complete
<1>3. phase'[t] = "recheck" => ~Live(t)'
  BY Fixed DEF OutcomeOK, Live, Streaming
<1> QED BY <1>1, <1>2, <1>3 DEF OutcomeOK

LEMMA SettleMakesOutcome ==
  ASSUME NEW t \in Tasks, [Next]_vars, TaskTypes, NEW how \in Outcomes, NEW audio, Settle(t, how, audio),
         chunks' = chunks,
         how = "audio" => /\ audio \in Audio /\ Complete(audio) /\ audio.by[2] = t[2]
                          /\ Live(t) => Complete(AudioOf(t))
  PROVE  OutcomeOK(t)'
<1>1. outcome'[t] = how /\ result'[t] = audio /\ phase'[t] = "settled"
  BY DEF Settle, Move, TaskTypes
<1> QED BY <1>1, Fixed, SameAudio DEF OutcomeOK, Complete

LEMMA OutcomesKept ==
  ASSUME Inductive, [Next]_vars
  PROVE  \A t \in Tasks : OutcomeOK(t)'
<1> SUFFICES ASSUME NEW t \in Tasks PROVE OutcomeOK(t)'
  OBVIOUS
<1> USE TaskFacts
<1>0. TypeOK /\ TaskTypes /\ BucketTypes /\ OutcomeOK(t) /\ WriterOK(t)
  BY SplitTypes DEF Inductive
<1>1. CASE UNCHANGED <<phase, chunks, outcome, result>>
  BY <1>0, <1>1, OutcomeFrame
<1>2. ASSUME NEW r \in Requests, Claim(r)
      PROVE  OutcomeOK(t)'
  <2>1. UNCHANGED <<chunks, outcome, result>>
    BY <1>2 DEF Claim
  <2>2. CASE phase' = phase
    BY <1>0, <2>1, <2>2, OutcomeFrame
  <2>3. CASE phase' = [phase EXCEPT ![<<r, target[r]>>] = "slot"]
    <3>1. phase[<<r, target[r]>>] = "none"
      BY <1>2 DEF Inductive, VoiceOK, Claim, Early
    <3>2. phase'[t] = phase[t] \/ (phase'[t] = "slot" /\ outcome[t] = "none")
      BY <1>0, <2>3, <3>1 DEF TaskTypes, OutcomeOK
    <3> QED BY <1>0, <2>1, <3>2, OutcomeFrame
  <2> QED BY <1>2, <2>2, <2>3 DEF Claim
<1>3. ASSUME NEW s \in Tasks, TaskStep(s) \/ StreamTimeout(s), t # s
      PROVE  OutcomeOK(t)'
  <2>1. chunks'[t] = chunks[t] /\ outcome'[t] = outcome[t] /\ result'[t] = result[t] /\ phase'[t] = phase[t]
    <3>1. ASSUME NEW how, NEW audio, Settle(s, how, audio), chunks' = chunks
          PROVE  chunks'[t] = chunks[t] /\ outcome'[t] = outcome[t] /\ result'[t] = result[t]
                 /\ phase'[t] = phase[t]
      BY <1>0, <1>3, <3>1 DEF Settle, Move, TaskTypes
    <3> QED BY <1>0, <1>3, <3>1 DEF TaskStep, Produce, AwaitSlot, Recheck, StreamChunk, Synthesize, Written,
              Finish, StreamTimeout, Move, TaskTypes
  <2> QED BY <1>0, <2>1, OutcomeFrame
<1>4. CASE AwaitSlot(t)
  <2>1. outcome[t] = "none" /\ UNCHANGED chunks
    BY <1>0, <1>4 DEF AwaitSlot, OutcomeOK
  <2>2. CASE Move(t, IF Live(t) THEN "synth" ELSE "recheck") /\ UNCHANGED <<outcome, result>>
    <3>1. phase'[t] = IF Live(t) THEN "synth" ELSE "recheck"
      BY <1>0, <2>2 DEF Move, TaskTypes
    <3> QED BY <2>1, <2>2, <3>1, Fixed DEF OutcomeOK, Live, Streaming
  <2>3. CASE Settle(t, "busy", None)
    BY <1>0, <2>1, <2>3, SettleMakesOutcome DEF Outcomes
  <2> QED BY <1>4, <2>2, <2>3 DEF AwaitSlot
<1>5. CASE Recheck(t)
  <2>1. outcome[t] = "none" /\ UNCHANGED chunks /\ ~Live(t)
    BY <1>0, <1>5 DEF Recheck, OutcomeOK
  <2>2. CASE Settle(t, "storage", None)
    BY <1>0, <2>1, <2>2, SettleMakesOutcome DEF Outcomes
  <2>3. CASE stored[t[2]] # None /\ Settle(t, "audio", stored[t[2]])
    <3>1. stored[t[2]] \in Audio /\ Complete(stored[t[2]]) /\ stored[t[2]].by[2] = t[2]
      BY <1>0, <2>3 DEF Inductive, DescriptorsAreComplete, Complete, BucketTypes, Keys
    <3> QED BY <1>0, <2>1, <2>3, <3>1, SettleMakesOutcome DEF Outcomes
  <2>4. CASE Move(t, "synth") /\ UNCHANGED <<outcome, result>>
    <3>1. phase'[t] = "synth"
      BY <1>0, <2>4 DEF Move, TaskTypes
    <3> QED BY <1>0, <2>1, <2>4, <3>1, OutcomeFrame
  <2> QED BY <1>5, <2>2, <2>3, <2>4 DEF Recheck
<1>6. CASE StreamChunk(t)
  <2>1. outcome[t] = "none" /\ UNCHANGED <<phase, outcome, result>>
    BY <1>0, <1>6 DEF StreamChunk, OutcomeOK
  <2> QED BY <1>0, <2>1, OutcomeFrame
<1>7. CASE Synthesize(t)
  <2>1. outcome[t] = "none" /\ UNCHANGED chunks
    BY <1>0, <1>7 DEF Synthesize, OutcomeOK
  <2>2. ASSUME NEW how \in {"vendor", "invalid"}, Settle(t, how, None)
        PROVE  OutcomeOK(t)'
    BY <1>0, <2>1, <2>2, SettleMakesOutcome DEF Outcomes
  <2>3. CASE Move(t, "store") /\ UNCHANGED <<outcome, result>>
    <3>1. phase'[t] = "store"
      BY <1>0, <2>3 DEF Move, TaskTypes
    <3> QED BY <1>0, <2>1, <2>3, <3>1, OutcomeFrame
  <2> QED BY <1>7, <2>2, <2>3 DEF Synthesize
<1>8. CASE Written(t)
  <2>1. outcome[t] = "none" /\ UNCHANGED chunks
    BY <1>0, <1>8 DEF Written, OutcomeOK
  <2>2. CASE Settle(t, "storage", None)
    BY <1>0, <2>1, <2>2, SettleMakesOutcome DEF Outcomes
  <2>3. CASE writer[t] \in {"stored", "aliased"} /\ Settle(t, "audio", AudioOf(t))
    <3>1. AudioOf(t) \in Audio /\ Complete(AudioOf(t)) /\ AudioOf(t).by[2] = t[2]
      BY <1>0, <2>3, AudioIsAudio DEF WriterOK, Complete
    <3> QED BY <1>0, <2>1, <2>3, <3>1, SettleMakesOutcome DEF Outcomes
  <2>4. CASE Move(t, "alias") /\ UNCHANGED <<outcome, result>>
    <3>1. phase'[t] = "alias"
      BY <1>0, <2>4 DEF Move, TaskTypes
    <3> QED BY <1>0, <2>1, <2>4, <3>1, OutcomeFrame
  <2> QED BY <1>8, <2>2, <2>3, <2>4 DEF Written
<1>9. CASE StreamTimeout(t)
  <2>1. UNCHANGED chunks /\ Settle(t, "late", None)
    BY <1>9 DEF StreamTimeout
  <2> QED BY <1>0, <2>1, SettleMakesOutcome DEF Outcomes
<1>10. CASE Finish(t)
  <2>1. phase'[t] = "gone" /\ UNCHANGED <<chunks, outcome, result>>
    BY <1>0, <1>10 DEF Finish, Move, TaskTypes
  <2> QED BY <1>0, <2>1, OutcomeFrame
<1>11. ASSUME NEW i \in Instances, Crash(i)
       PROVE  OutcomeOK(t)'
  <2>1. phase'[t] \in {phase[t], "gone"} /\ UNCHANGED <<chunks, outcome, result>>
    BY <1>11 DEF Crash
  <2> QED BY <1>0, <2>1, OutcomeFrame
<1>12. ASSUME NEW s \in Tasks, Write(s)
       PROVE  OutcomeOK(t)'
  BY <1>1, <1>12 DEF Write
<1>13. ASSUME NEW r \in Requests, Arrive(r) \/ Leave(r) \/ Lookup(r) \/ LookupVoice(r) \/ Join(r)
                                  \/ Listen(r) \/ Alias(r)
       PROVE  OutcomeOK(t)'
  BY <1>1, <1>13 DEF Arrive, Leave, Lookup, LookupVoice, Join, Listen, Alias, tasks
<1>14. CASE UNCHANGED vars
  BY <1>1, <1>14 DEF vars, tasks
<1> QED BY <1>2, <1>3, <1>4, <1>5, <1>6, <1>7, <1>8, <1>9, <1>10, <1>11, <1>12, <1>13, <1>14
        DEF Next, RequestStep, TaskStep, Produce

---------------------------------------------------------------------------
(* The dictionaries *)

Mine(r) == <<r, target[r]>>

(* A request registers its task, joins one, or is refused. *)
LEMMA ClaimCases ==
  ASSUME Inductive, NEW r \in Requests, Claim(r)
  PROVE  /\ Mine(r) \in Tasks /\ Home(Mine(r)) = at[r] /\ phase[Mine(r)] = "none"
         /\ at[r] \in Instances /\ target[r] \in Voices
         /\ \/ UNCHANGED <<phase, pending, streams>>
            \/ /\ pending[at[r]][target[r]] = None
               /\ streams[at[r]][target[r]] = None
               /\ phase' = [phase EXCEPT ![Mine(r)] = "slot"]
               /\ pending' = [pending EXCEPT ![at[r]][target[r]] = Mine(r)]
               /\ streams' = IF Live(Mine(r)) THEN [streams EXCEPT ![at[r]][target[r]] = Mine(r)]
                             ELSE streams
<1>1. Mine(r) \in Tasks /\ at[r] \in Instances /\ target[r] \in Voices /\ Home(Mine(r)) = at[r]
  BY SplitTypes, TaskFacts DEF Inductive, RequestTypes, Mine, Home
<1>2. phase[Mine(r)] = "none"
  BY DEF Inductive, VoiceOK, Claim, Early, Mine
<1>3. pending[at[r]][target[r]] = None => streams[at[r]][target[r]] = None
  BY <1>1 DEF Inductive, EntryOK
<1> QED BY <1>1, <1>2, <1>3 DEF Claim, Mine

LEMMA OnlyTheseRegister ==
  ASSUME [Next]_vars
  PROVE  \/ UNCHANGED <<pending, streams>>
         \/ \E r \in Requests : Claim(r)
         \/ \E t \in Tasks : Finish(t)
         \/ \E i \in Instances : Crash(i)
BY DEF Next, RequestStep, TaskStep, Produce, Arrive, Leave, Lookup, LookupVoice, Join, Listen, Alias,
       AwaitSlot, Recheck, StreamChunk, Synthesize, Written, Write, StreamTimeout, vars, memory

LEMMA MemoryKept ==
  ASSUME Inductive, [Next]_vars
  PROVE  MemoryTypes' /\ \A i \in Instances, v \in Voices : EntryOK(i, v)'
<1> USE TaskFacts
<1>0. /\ MemoryTypes /\ TaskTypes /\ at \in [Requests -> Instances]
      /\ \A i \in Instances, v \in Voices : EntryOK(i, v)
      /\ \A t \in Tasks : Home(t)' = Home(t) /\ Live(t)' = Live(t) /\ Home(t) \in Instances
  BY SplitTypes, Fixed DEF Inductive, Home, Live, Streaming
<1>1. CASE UNCHANGED <<pending, streams>>
  <2>1. MemoryTypes'
    BY <1>0, <1>1 DEF MemoryTypes
  <2>2. ASSUME NEW i \in Instances, NEW v \in Voices
        PROVE  EntryOK(i, v)'
    <3>1. pending[i][v] \in Tasks \cup {None} /\ streams[i][v] \in Tasks \cup {None}
      BY <1>0 DEF MemoryTypes
    <3> QED BY <1>0, <1>1, <3>1 DEF EntryOK
  <2> QED BY <2>1, <2>2
<1>2. ASSUME NEW i \in Instances, NEW v \in Voices, NEW t \in Tasks \cup {None}, NEW l \in BOOLEAN,
             pending' = [pending EXCEPT ![i][v] = t],
             streams' = IF l THEN [streams EXCEPT ![i][v] = t] ELSE streams,
             t # None => Home(t) = i /\ t[2] = v /\ l = Live(t),
             streams[i][v] = None \/ l
      PROVE  MemoryTypes' /\ \A j \in Instances, w \in Voices : EntryOK(j, w)'
  <2>1. MemoryTypes'
    BY <1>0, <1>2 DEF MemoryTypes
  <2>2. ASSUME NEW j \in Instances, NEW w \in Voices
        PROVE  EntryOK(j, w)'
    <3>0. /\ pending[j][w] \in Tasks \cup {None} /\ streams[j][w] \in Tasks \cup {None}
          /\ EntryOK(j, w)
      BY <1>0 DEF MemoryTypes
    <3>1. CASE j = i /\ w = v
      <4>1. pending'[i][v] = t /\ streams'[i][v] = IF l THEN t ELSE None
        BY <1>0, <1>2 DEF MemoryTypes
      <4> QED BY <1>0, <1>2, <3>1, <4>1 DEF EntryOK
    <3>2. CASE ~(j = i /\ w = v)
      <4>1. pending'[j][w] = pending[j][w] /\ streams'[j][w] = streams[j][w]
        BY <1>0, <1>2, <3>2 DEF MemoryTypes
      <4> QED BY <1>0, <3>0, <4>1 DEF EntryOK
    <3> QED BY <3>1, <3>2
  <2> QED BY <2>1, <2>2
<1>3. ASSUME NEW r \in Requests, Claim(r)
      PROVE  MemoryTypes' /\ \A i \in Instances, v \in Voices : EntryOK(i, v)'
  <2>1. Live(Mine(r)) \in BOOLEAN /\ Mine(r)[2] = target[r]
    BY DEF Live, Mine, Streaming
  <2>2. /\ Mine(r) \in Tasks /\ Home(Mine(r)) = at[r] /\ Mine(r) # None
        /\ at[r] \in Instances /\ target[r] \in Voices
    BY <1>3, ClaimCases
  <2>3. CASE UNCHANGED <<pending, streams>>
    BY <1>1, <2>3
  <2>4. CASE /\ streams[at[r]][target[r]] = None
             /\ pending' = [pending EXCEPT ![at[r]][target[r]] = Mine(r)]
             /\ streams' = IF Live(Mine(r)) THEN [streams EXCEPT ![at[r]][target[r]] = Mine(r)]
                           ELSE streams
    BY <1>2, <2>1, <2>2, <2>4
  <2> QED BY <1>3, <2>3, <2>4, ClaimCases
<1>4. ASSUME NEW t \in Tasks, Finish(t)
      PROVE  MemoryTypes' /\ \A i \in Instances, v \in Voices : EntryOK(i, v)'
  <2>1. /\ pending' = [pending EXCEPT ![Home(t)][t[2]] = None]
        /\ streams' = IF Live(t) THEN [streams EXCEPT ![Home(t)][t[2]] = None] ELSE streams
    BY <1>4 DEF Finish
  <2>2. streams[Home(t)][t[2]] = None \/ Live(t)
    BY <1>4 DEF Finish, Inductive, TaskRegistered, Tracked
  <2>3. Live(t) \in BOOLEAN
    BY DEF Live, Streaming
  <2> QED BY <1>0, <1>2, <2>1, <2>2, <2>3
<1>5. ASSUME NEW i \in Instances, Crash(i)
      PROVE  MemoryTypes' /\ \A j \in Instances, v \in Voices : EntryOK(j, v)'
  <2>1. /\ pending' = [pending EXCEPT ![i] = [v \in Voices |-> None]]
        /\ streams' = [streams EXCEPT ![i] = [v \in Voices |-> None]]
    BY <1>5 DEF Crash
  <2>2. MemoryTypes'
    BY <1>0, <2>1 DEF MemoryTypes
  <2>3. ASSUME NEW j \in Instances, NEW v \in Voices
        PROVE  EntryOK(j, v)'
    <3>0. /\ pending[j][v] \in Tasks \cup {None} /\ streams[j][v] \in Tasks \cup {None}
          /\ EntryOK(j, v)
      BY <1>0 DEF MemoryTypes
    <3>1. CASE j = i
      <4>1. pending'[j][v] = None /\ streams'[j][v] = None
        BY <1>0, <2>1, <3>1 DEF MemoryTypes
      <4> QED BY <4>1 DEF EntryOK
    <3>2. CASE j # i
      <4>1. pending'[j][v] = pending[j][v] /\ streams'[j][v] = streams[j][v]
        BY <1>0, <2>1, <3>2 DEF MemoryTypes
      <4> QED BY <1>0, <3>0, <4>1 DEF EntryOK
    <3> QED BY <3>1, <3>2
  <2> QED BY <2>2, <2>3
<1> QED BY <1>1, <1>3, <1>4, <1>5, OnlyTheseRegister

(* A task that works goes on, or is settled. *)
LEMMA TaskStepsStayTracked ==
  ASSUME TypeOK, NEW s \in Tasks, TaskStep(s) \/ StreamTimeout(s), ~Finish(s), NEW t \in Tasks, Tracked(t)'
  PROVE  Tracked(t) /\ UNCHANGED <<pending, streams>>
<1>0. TaskTypes
  BY SplitTypes
<1>1. UNCHANGED <<pending, streams>>
  BY DEF TaskStep, Produce, AwaitSlot, Recheck, StreamChunk, Synthesize, Written, StreamTimeout, memory
<1>2. Tracked(s)
  BY DEF TaskStep, Produce, AwaitSlot, Recheck, StreamChunk, Synthesize, Written, StreamTimeout,
         Tracked, Running, HoldsSlot
<1>3. t # s => phase'[t] = phase[t]
  BY <1>0 DEF TaskStep, Produce, AwaitSlot, Recheck, StreamChunk, Synthesize, Written, StreamTimeout,
         Settle, Move, TaskTypes
<1> QED BY <1>1, <1>2, <1>3 DEF Tracked, Running, HoldsSlot

LEMMA RegisteredKept ==
  ASSUME Inductive, [Next]_vars
  PROVE  \A t \in Tasks : TaskRegistered(t)'
<1> SUFFICES ASSUME NEW t \in Tasks, Tracked(t)'
             PROVE  /\ pending'[Home(t)][t[2]] = t
                    /\ streams'[Home(t)][t[2]] = IF Live(t) THEN t ELSE None
  BY Fixed DEF TaskRegistered, Home, Live, Streaming
<1> USE TaskFacts
<1>0. /\ TypeOK /\ TaskTypes /\ MemoryTypes /\ TaskRegistered(t)
      /\ Home(t) \in Instances /\ t[2] \in Voices
  BY SplitTypes DEF Inductive, Home
<1>1. ASSUME Tracked(t), UNCHANGED <<pending, streams>>
      PROVE  /\ pending'[Home(t)][t[2]] = t
             /\ streams'[Home(t)][t[2]] = IF Live(t) THEN t ELSE None
  BY <1>0, <1>1 DEF TaskRegistered
<1>2. CASE UNCHANGED <<phase, pending, streams>>
  BY <1>1, <1>2 DEF Tracked, Running, HoldsSlot
<1>3. ASSUME NEW r \in Requests, Claim(r)
      PROVE  /\ pending'[Home(t)][t[2]] = t
             /\ streams'[Home(t)][t[2]] = IF Live(t) THEN t ELSE None
  <2>1. CASE UNCHANGED <<phase, pending, streams>>
    BY <1>2, <2>1
  <2>2. CASE /\ pending[at[r]][target[r]] = None
             /\ streams[at[r]][target[r]] = None
             /\ phase' = [phase EXCEPT ![Mine(r)] = "slot"]
             /\ pending' = [pending EXCEPT ![at[r]][target[r]] = Mine(r)]
             /\ streams' = IF Live(Mine(r)) THEN [streams EXCEPT ![at[r]][target[r]] = Mine(r)]
                           ELSE streams
    <3>0. at[r] \in Instances /\ target[r] \in Voices /\ Mine(r) \in Tasks /\ Home(Mine(r)) = at[r]
          /\ Mine(r)[2] = target[r]
      BY <1>3, ClaimCases DEF Mine
    <3>1. CASE t = Mine(r)
      BY <1>0, <2>2, <3>0, <3>1 DEF MemoryTypes
    <3>2. CASE t # Mine(r)
      <4>1. Tracked(t)
        BY <1>0, <2>2, <3>0, <3>2 DEF Tracked, Running, HoldsSlot, TaskTypes
      <4>2. pending[Home(t)][t[2]] = t /\ streams[Home(t)][t[2]] = IF Live(t) THEN t ELSE None
        BY <1>0, <4>1 DEF TaskRegistered
      <4>3. ~(Home(t) = at[r] /\ t[2] = target[r])
        BY <2>2, <4>2
      <4> QED BY <1>0, <2>2, <3>0, <4>2, <4>3 DEF MemoryTypes
    <3> QED BY <3>1, <3>2
  <2> QED BY <1>3, <2>1, <2>2, ClaimCases
<1>4. ASSUME NEW s \in Tasks, Finish(s)
      PROVE  /\ pending'[Home(t)][t[2]] = t
             /\ streams'[Home(t)][t[2]] = IF Live(t) THEN t ELSE None
  <2>0. /\ phase' = [phase EXCEPT ![s] = "gone"]
        /\ pending' = [pending EXCEPT ![Home(s)][s[2]] = None]
        /\ streams' = IF Live(s) THEN [streams EXCEPT ![Home(s)][s[2]] = None] ELSE streams
        /\ pending[Home(s)][s[2]] = s
        /\ Home(s) \in Instances /\ s[2] \in Voices
    BY <1>4, SplitTypes DEF Finish, Move, Inductive, TaskRegistered, Tracked, Home
  <2>1. t # s
    BY <1>0, <2>0 DEF Tracked, Running, HoldsSlot, TaskTypes
  <2>2. Tracked(t)
    BY <1>0, <2>0, <2>1 DEF Tracked, Running, HoldsSlot, TaskTypes
  <2>3. pending[Home(t)][t[2]] = t /\ streams[Home(t)][t[2]] = IF Live(t) THEN t ELSE None
    BY <1>0, <2>2 DEF TaskRegistered
  <2>4. ~(Home(t) = Home(s) /\ t[2] = s[2])
    BY <2>0, <2>1, <2>3
  <2> QED BY <1>0, <2>0, <2>3, <2>4 DEF MemoryTypes
<1>5. ASSUME NEW s \in Tasks, TaskStep(s) \/ StreamTimeout(s), ~Finish(s)
      PROVE  /\ pending'[Home(t)][t[2]] = t
             /\ streams'[Home(t)][t[2]] = IF Live(t) THEN t ELSE None
  BY <1>0, <1>1, <1>5, TaskStepsStayTracked
<1>6. ASSUME NEW i \in Instances, Crash(i)
      PROVE  /\ pending'[Home(t)][t[2]] = t
             /\ streams'[Home(t)][t[2]] = IF Live(t) THEN t ELSE None
  <2>1. Home(t) # i /\ Tracked(t)
    BY <1>6 DEF Crash, Tracked, Running, HoldsSlot
  <2>2. pending[Home(t)][t[2]] = t /\ streams[Home(t)][t[2]] = IF Live(t) THEN t ELSE None
    BY <1>0, <2>1 DEF TaskRegistered
  <2>3. pending'[Home(t)] = pending[Home(t)] /\ streams'[Home(t)] = streams[Home(t)]
    BY <1>0, <1>6, <2>1 DEF Crash, MemoryTypes
  <2> QED BY <2>2, <2>3
<1>7. ASSUME NEW s \in Tasks, Write(s)
      PROVE  UNCHANGED <<phase, pending, streams>>
  BY <1>7 DEF Write, memory
<1>8. ASSUME NEW r \in Requests, Arrive(r) \/ Leave(r) \/ Lookup(r) \/ LookupVoice(r) \/ Join(r)
                                 \/ Listen(r) \/ Alias(r)
      PROVE  UNCHANGED <<phase, pending, streams>>
  BY <1>8 DEF Arrive, Leave, Lookup, LookupVoice, Join, Listen, Alias, tasks, memory
<1>9. CASE UNCHANGED vars
  BY <1>2, <1>9 DEF vars, tasks, memory
<1> QED BY <1>2, <1>3, <1>4, <1>5, <1>6, <1>7, <1>8, <1>9 DEF Next, RequestStep

---------------------------------------------------------------------------
(* Permits *)

Holders(i) == {t \in Tasks : Home(t) = i /\ HoldsSlot(t)}

LEMMA HoldersAreFinite ==
  \A S : S \subseteq Tasks => IsFiniteSet(S) /\ Cardinality(S) \in Nat
<1>1. IsFiniteSet(Voices)
  <2>1. IsFiniteSet({"mimo"})
    BY FS_Singleton
  <2>2. IsFiniteSet({"mimo"} \cup {"edge"})
    BY <2>1, FS_AddElement
  <2> QED BY <2>2 DEF Voices
<1>2. IsFiniteSet(Tasks)
  BY <1>1, DeliveryAssumption, FS_Product DEF Tasks
<1> QED BY <1>2, FS_Subset, FS_CardinalityType

LEMMA PermitFacts ==
  ASSUME Inductive
  PROVE  /\ Slots \in Nat /\ free \in [Instances -> 0..Slots] /\ TaskTypes
         /\ \A t \in Tasks : Home(t) \in Instances
         /\ \A i \in Instances : /\ IsFiniteSet(Holders(i)) /\ Cardinality(Holders(i)) \in Nat
                                 /\ free[i] + Cardinality(Holders(i)) = Slots
<1>1. TypeOK /\ SlotsConserved
  BY DEF Inductive
<1>2. \A t \in Tasks : Home(t) \in Instances
  BY <1>1, TaskFacts DEF TypeOK, Home
<1>3. \A i \in Instances : IsFiniteSet(Holders(i)) /\ Cardinality(Holders(i)) \in Nat
  BY HoldersAreFinite DEF Holders
<1> QED BY <1>1, <1>2, <1>3, SplitTypes, DeliveryAssumption DEF SlotsConserved, Holders

Permits ==
  /\ free \in [Instances -> 0..Slots]
  /\ \A i \in Instances : free[i] + Cardinality(Holders(i)) = Slots

LEMMA PermitsUntouched ==
  ASSUME Inductive, [Next]_vars, free' = free, \A t \in Tasks : HoldsSlot(t)' = HoldsSlot(t)
  PROVE  Permits'
<1>1. \A i \in Instances : Holders(i)' = Holders(i)
  BY Fixed DEF Holders, Home
<1> QED BY <1>1, PermitFacts DEF Permits

LEMMA PermitTaken ==
  ASSUME Inductive, [Next]_vars, NEW t \in Tasks, ~HoldsSlot(t), HoldsSlot(t)',
         \A s \in Tasks : s # t => HoldsSlot(s)' = HoldsSlot(s),
         free[Home(t)] > 0, free' = [free EXCEPT ![Home(t)] = @ - 1]
  PROVE  Permits'
<1>1. \A i \in Instances : Holders(i)' = IF i = Home(t) THEN Holders(i) \cup {t} ELSE Holders(i)
  BY Fixed DEF Holders, Home
<1>2. t \notin Holders(Home(t)) /\ Home(t) \in Instances
  BY PermitFacts DEF Holders
<1>3. Cardinality(Holders(Home(t)) \cup {t}) = Cardinality(Holders(Home(t))) + 1
  BY <1>2, PermitFacts, FS_AddElement
<1>4. free[Home(t)] - 1 \in 0..Slots
      /\ (free[Home(t)] - 1) + (Cardinality(Holders(Home(t))) + 1) = Slots
  BY <1>2, PermitFacts
<1>5. free' \in [Instances -> 0..Slots]
  BY <1>4, PermitFacts
<1>6. ASSUME NEW i \in Instances
      PROVE  free'[i] + Cardinality(Holders(i)') = Slots
  BY <1>1, <1>3, <1>4, PermitFacts
<1> QED BY <1>5, <1>6 DEF Permits

LEMMA PermitGiven ==
  ASSUME Inductive, [Next]_vars, NEW t \in Tasks, HoldsSlot(t), ~HoldsSlot(t)',
         \A s \in Tasks : s # t => HoldsSlot(s)' = HoldsSlot(s),
         free' = [free EXCEPT ![Home(t)] = @ + 1]
  PROVE  Permits'
<1>1. \A i \in Instances : Holders(i)' = IF i = Home(t) THEN Holders(i) \ {t} ELSE Holders(i)
  BY Fixed DEF Holders, Home
<1>2. t \in Holders(Home(t)) /\ Home(t) \in Instances
  BY PermitFacts DEF Holders
<1>3. /\ Cardinality(Holders(Home(t)) \ {t}) = Cardinality(Holders(Home(t))) - 1
      /\ Cardinality(Holders(Home(t)) \ {t}) \in Nat
  <2>1. IsFiniteSet(Holders(Home(t)) \ {t})
        /\ Cardinality(Holders(Home(t)) \ {t}) = Cardinality(Holders(Home(t))) - 1
    BY <1>2, PermitFacts, FS_RemoveElement
  <2> QED BY <2>1, FS_CardinalityType
<1>4. free[Home(t)] + 1 \in 0..Slots
      /\ (free[Home(t)] + 1) + (Cardinality(Holders(Home(t))) - 1) = Slots
  <2>1. Cardinality(Holders(Home(t))) - 1 \in Nat
    BY <1>3
  <2> QED BY <1>2, <2>1, PermitFacts
<1>5. free' \in [Instances -> 0..Slots]
  BY <1>4, PermitFacts
<1>6. ASSUME NEW i \in Instances
      PROVE  free'[i] + Cardinality(Holders(i)') = Slots
  BY <1>1, <1>3, <1>4, PermitFacts
<1> QED BY <1>5, <1>6 DEF Permits

LEMMA SettleGivesBack ==
  ASSUME Inductive, [Next]_vars, NEW t \in Tasks, NEW how, NEW audio, Settle(t, how, audio)
  PROVE  Permits'
<1>0. TaskTypes
  BY PermitFacts
<1>1. ~HoldsSlot(t)' /\ \A s \in Tasks : s # t => HoldsSlot(s)' = HoldsSlot(s)
  BY <1>0 DEF Settle, Move, HoldsSlot, TaskTypes
<1>2. CASE HoldsSlot(t)
  BY <1>1, <1>2, PermitGiven DEF Settle
<1>3. CASE ~HoldsSlot(t)
  <2>1. free' = free
    BY <1>3 DEF Settle
  <2>2. \A s \in Tasks : HoldsSlot(s)' = HoldsSlot(s)
    BY <1>1, <1>3 DEF HoldsSlot
  <2> QED BY <2>1, <2>2, PermitsUntouched
<1> QED BY <1>2, <1>3

LEMMA PermitsKept ==
  ASSUME Inductive, [Next]_vars
  PROVE  Permits'
<1>0. TaskTypes
  BY PermitFacts
<1>1. CASE UNCHANGED <<phase, free>>
  BY <1>1, PermitsUntouched DEF HoldsSlot
<1>2. ASSUME NEW r \in Requests, Claim(r)
      PROVE  Permits'
  <2>1. free' = free
    BY <1>2 DEF Claim
  <2>2. \A t \in Tasks : HoldsSlot(t)' = HoldsSlot(t)
    <3>1. Mine(r) \in Tasks /\ phase[Mine(r)] = "none"
          /\ (phase' = phase \/ phase' = [phase EXCEPT ![Mine(r)] = "slot"])
      BY <1>2, ClaimCases
    <3>2. CASE phase' = phase
      BY <3>2 DEF HoldsSlot
    <3>3. CASE phase' = [phase EXCEPT ![Mine(r)] = "slot"]
      <4>1. ASSUME NEW t \in Tasks
            PROVE  phase'[t] = phase[t] \/ (phase[t] = "none" /\ phase'[t] = "slot")
        BY <1>0, <3>1, <3>3 DEF TaskTypes
      <4> QED BY <4>1 DEF HoldsSlot
    <3> QED BY <3>1, <3>2, <3>3
  <2> QED BY <2>1, <2>2, PermitsUntouched
<1>3. ASSUME NEW t \in Tasks, NEW where \in Phases, Move(t, where), HoldsSlot(t), free' = free,
             where \in {"recheck", "synth", "store", "alias"}
      PROVE  Permits'
  <2>1. \A s \in Tasks : HoldsSlot(s)' = HoldsSlot(s)
    BY <1>0, <1>3 DEF HoldsSlot, Move, TaskTypes
  <2> QED BY <1>3, <2>1, PermitsUntouched
<1>4. ASSUME NEW t \in Tasks, AwaitSlot(t)
      PROVE  Permits'
  <2>1. CASE /\ free[Home(t)] > 0
             /\ free' = [free EXCEPT ![Home(t)] = @ - 1]
             /\ Move(t, IF Live(t) THEN "synth" ELSE "recheck")
    <3>1. ~HoldsSlot(t) /\ HoldsSlot(t)' /\ \A s \in Tasks : s # t => HoldsSlot(s)' = HoldsSlot(s)
      BY <1>0, <1>4, <2>1 DEF AwaitSlot, HoldsSlot, Move, TaskTypes
    <3> QED BY <2>1, <3>1, PermitTaken
  <2>2. CASE Settle(t, "busy", None)
    BY <2>2, SettleGivesBack
  <2> QED BY <1>4, <2>1, <2>2 DEF AwaitSlot
<1>5. ASSUME NEW t \in Tasks, Recheck(t) \/ Synthesize(t) \/ Written(t) \/ StreamTimeout(t)
      PROVE  Permits'
  <2>1. CASE \E how \in Outcomes, audio \in Audio \cup {None} : Settle(t, how, audio)
    BY <2>1, SettleGivesBack
  <2>2. CASE ~\E how \in Outcomes, audio \in Audio \cup {None} : Settle(t, how, audio)
    <3>0. AudioOf(t) \in Audio /\ stored[t[2]] \in Audio \cup {None}
      BY AudioIsAudio, SplitTypes, TaskFacts DEF Inductive, BucketTypes, Keys
    <3>1. Recheck(t) => HoldsSlot(t) /\ free' = free /\ Move(t, "synth")
      BY <2>2, <3>0 DEF Recheck, HoldsSlot, Outcomes
    <3>2. Synthesize(t) => HoldsSlot(t) /\ free' = free /\ Move(t, "store")
      BY <2>2 DEF Synthesize, HoldsSlot, Outcomes
    <3>3. Written(t) => HoldsSlot(t) /\ free' = free /\ Move(t, "alias")
      BY <2>2, <3>0 DEF Written, HoldsSlot, Outcomes
    <3>4. ~StreamTimeout(t)
      BY <2>2 DEF StreamTimeout, Outcomes
    <3> QED BY <1>3, <1>5, <3>1, <3>2, <3>3, <3>4 DEF Phases
  <2> QED BY <2>1, <2>2
<1>6. ASSUME NEW t \in Tasks, Finish(t)
      PROVE  Permits'
  <2>1. free' = free /\ \A s \in Tasks : HoldsSlot(s)' = HoldsSlot(s)
    BY <1>0, <1>6 DEF Finish, HoldsSlot, Move, TaskTypes
  <2> QED BY <2>1, PermitsUntouched
<1>7. ASSUME NEW i \in Instances, Crash(i)
      PROVE  Permits'
  <2>1. free' = [free EXCEPT ![i] = Slots]
    BY <1>7 DEF Crash
  <2>2. \A t \in Tasks : HoldsSlot(t)' = (HoldsSlot(t) /\ Home(t) # i)
    BY <1>7 DEF Crash, HoldsSlot
  <2>3. \A j \in Instances : Holders(j)' = IF j = i THEN {} ELSE Holders(j)
    BY <2>2, Fixed DEF Holders, Home
  <2>4. free' \in [Instances -> 0..Slots]
    <3>1. Slots \in 0..Slots
      BY PermitFacts
    <3> QED BY <2>1, <3>1, PermitFacts
  <2>5. ASSUME NEW j \in Instances
        PROVE  free'[j] + Cardinality(Holders(j)') = Slots
    BY <2>1, <2>3, PermitFacts, FS_EmptySet
  <2> QED BY <2>4, <2>5 DEF Permits
<1>8. ASSUME NEW t \in Tasks, StreamChunk(t) \/ Write(t)
      PROVE  UNCHANGED <<phase, free>>
  BY <1>8 DEF StreamChunk, Write, memory
<1>9. ASSUME NEW r \in Requests, Arrive(r) \/ Leave(r) \/ Lookup(r) \/ LookupVoice(r) \/ Join(r)
                                 \/ Listen(r) \/ Alias(r)
      PROVE  UNCHANGED <<phase, free>>
  BY <1>9 DEF Arrive, Leave, Lookup, LookupVoice, Join, Listen, Alias, tasks, memory
<1>10. CASE UNCHANGED vars
  BY <1>1, <1>10 DEF vars, tasks, memory
<1> QED BY <1>1, <1>2, <1>4, <1>5, <1>6, <1>7, <1>8, <1>9, <1>10 DEF Next, RequestStep, TaskStep, Produce

---------------------------------------------------------------------------
(* Requests *)

FellBackOK(r) ==
  Logical(r) /\ target[r] = "edge" =>
    /\ cursor[r] = 0
    /\ \E t \in Tasks : t[2] = "mimo" /\ Home(t) = at[r] /\ outcome[t] = "vendor"

AnswerOK(r) ==
  pc[r] = "answered" =>
    /\ Complete(answer[r])
    /\ kind[r] \in {"mimo", "mimoStream"} => answer[r].by[2] = "mimo"
    /\ kind[r] = "edge" => answer[r].by[2] = "edge"
    /\ cursor[r] > 0 => answer[r].by = follows[r] /\ cursor[r] = Chunks

RequestOK(r) == VoiceOK(r) /\ FollowOK(r) /\ FellBackOK(r) /\ AnswerOK(r)

LEMMA AnswersSplit ==
  AnswersAreWhole <=> \A r \in Requests : FellBackOK(r) /\ AnswerOK(r)
BY DEF AnswersAreWhole, FallbackOnlyAfterVendor, FellBackOK, AnswerOK, Complete

LEMMA OutcomesStay ==
  ASSUME Inductive, [Next]_vars, NEW t \in Tasks, outcome[t] # "none"
  PROVE  outcome'[t] = outcome[t]
<1>0. TaskTypes /\ phase[t] \in {"settled", "gone"}
  BY SplitTypes DEF Inductive, OutcomeOK
<1>1. ASSUME NEW s \in Tasks, TaskStep(s) \/ StreamTimeout(s)
      PROVE  outcome'[t] = outcome[t]
  <2>1. CASE s = t
    BY <1>0, <1>1, <2>1 DEF TaskStep, Produce, AwaitSlot, Recheck, StreamChunk, Synthesize, Written, Finish,
           StreamTimeout, Running, HoldsSlot
  <2>2. CASE s # t
    BY <1>0, <1>1, <2>2 DEF TaskStep, Produce, AwaitSlot, Recheck, StreamChunk, Synthesize, Written, Finish,
           StreamTimeout, Settle, TaskTypes
  <2> QED BY <2>1, <2>2
<1>2. ASSUME NEW s \in Tasks, Write(s)
      PROVE  outcome'[t] = outcome[t]
  BY <1>2 DEF Write
<1>3. ASSUME NEW r \in Requests, Arrive(r) \/ RequestStep(r) \/ Leave(r)
      PROVE  outcome'[t] = outcome[t]
  BY <1>3 DEF RequestStep, Arrive, Lookup, LookupVoice, Claim, Join, Listen, Alias, Leave, tasks
<1>4. ASSUME NEW i \in Instances, Crash(i)
      PROVE  outcome'[t] = outcome[t]
  BY <1>4 DEF Crash
<1>5. CASE UNCHANGED vars
  BY <1>5 DEF vars, tasks
<1> QED BY <1>1, <1>2, <1>3, <1>4, <1>5 DEF Next

(* Only its own request makes a task. *)
LEMMA TasksBegin ==
  ASSUME Inductive, [Next]_vars, NEW t \in Tasks, phase[t] = "none", phase'[t] # "none"
  PROVE  \E r \in Requests : Claim(r) /\ t = Mine(r)
<1>0. TaskTypes
  BY SplitTypes DEF Inductive
<1>1. ASSUME NEW s \in Tasks, TaskStep(s) \/ StreamTimeout(s)
      PROVE  phase'[t] = "none"
  <2>1. CASE s = t
    BY <1>1, <2>1 DEF TaskStep, Produce, AwaitSlot, Recheck, StreamChunk, Synthesize, Written, Finish,
           StreamTimeout, Running, HoldsSlot
  <2>2. CASE s # t
    BY <1>0, <1>1, <2>2 DEF TaskStep, Produce, AwaitSlot, Recheck, StreamChunk, Synthesize, Written, Finish,
           StreamTimeout, Settle, Move, TaskTypes
  <2> QED BY <2>1, <2>2
<1>2. ASSUME NEW s \in Tasks, Write(s)
      PROVE  phase'[t] = "none"
  BY <1>2 DEF Write
<1>3. ASSUME NEW r \in Requests, Arrive(r) \/ RequestStep(r) \/ Leave(r), ~Claim(r)
      PROVE  phase'[t] = "none"
  BY <1>3 DEF RequestStep, Arrive, Lookup, LookupVoice, Join, Listen, Alias, Leave, tasks
<1>4. ASSUME NEW r \in Requests, Claim(r)
      PROVE  t = Mine(r)
  <2>1. phase' = phase \/ phase' = [phase EXCEPT ![Mine(r)] = "slot"]
    BY <1>4, ClaimCases
  <2> QED BY <1>0, <2>1 DEF TaskTypes
<1>5. ASSUME NEW i \in Instances, Crash(i)
      PROVE  phase'[t] = "none"
  BY <1>5 DEF Crash
<1>6. CASE UNCHANGED vars
  BY <1>6 DEF vars, tasks
<1> QED BY <1>1, <1>2, <1>3, <1>4, <1>5, <1>6 DEF Next

LEMMA NamesStay ==
  ASSUME [Next]_vars
  PROVE  /\ \A r \in Requests : Logical(r)' = Logical(r) /\ Streaming(r)' = Streaming(r)
         /\ \A t : Live(t)' = Live(t) /\ Home(t)' = Home(t)
         /\ \A a : Complete(a) => Complete(a)'
BY Fixed DEF Logical, Streaming, Live, Home, Complete

(* A request that does not move, or only gives up, keeps its part. *)
LEMMA RequestFrame ==
  ASSUME Inductive, [Next]_vars, NEW r \in Requests, RequestOK(r), ~Claim(r) \/ UNCHANGED phase,
         pc'[r] \in {pc[r], "left", "failed"}, target'[r] = target[r], follows'[r] = follows[r],
         cursor'[r] = cursor[r], answer'[r] = answer[r]
  PROVE  RequestOK(r)'
<1> USE NamesStay, Fixed
<1>1. ASSUME NEW v \in Voices, phase[<<r, v>>] = "none"
      PROVE  phase'[<<r, v>>] = "none"
  <2>1. \A s \in Requests : <<r, v>> = Mine(s) => s = r
    BY DEF Mine
  <2> QED BY <1>1, <2>1, TasksBegin, TaskFacts
<1>2. target[r] \in Voices
  BY SplitTypes DEF Inductive, RequestTypes
<1>3. VoiceOK(r)'
  BY <1>1, <1>2 DEF RequestOK, VoiceOK, Early, Voices
<1>4. FollowOK(r)'
  BY DEF RequestOK, FollowOK, Early
<1>5. FellBackOK(r)'
  BY OutcomesStay DEF RequestOK, FellBackOK
<1>6. AnswerOK(r)'
  BY DEF RequestOK, AnswerOK
<1> QED BY <1>3, <1>4, <1>5, <1>6 DEF RequestOK

(* The tasks a request can find. *)
LEMMA RegisteredTask ==
  ASSUME Inductive, NEW i \in Instances, NEW v \in Voices
  PROVE  /\ pending[i][v] # None =>
              pending[i][v] \in Tasks /\ Home(pending[i][v]) = i /\ pending[i][v][2] = v
         /\ streams[i][v] # None =>
              streams[i][v] \in Tasks /\ Home(streams[i][v]) = i /\ streams[i][v][2] = v /\ Live(streams[i][v])
<1>1. MemoryTypes /\ EntryOK(i, v)
  BY SplitTypes DEF Inductive
<1> QED BY <1>1 DEF MemoryTypes, EntryOK

LEMMA RequestFacts ==
  ASSUME Inductive, NEW r \in Requests
  PROVE  /\ RequestOK(r) /\ RequestTypes /\ at[r] \in Instances /\ target[r] \in Voices
         /\ cursor[r] \in Nat /\ kind[r] \in AllKinds
<1>1. RequestTypes /\ at[r] \in Instances /\ kind[r] \in Kinds
  BY SplitTypes DEF Inductive
<1>2. cursor[r] \in 0..Chunks /\ Chunks \in Nat
  BY <1>1, DeliveryAssumption DEF RequestTypes
<1> QED BY <1>1, <1>2, AnswersSplit, DeliveryAssumption DEF Inductive, RequestOK, RequestTypes

(* Audio found for a request in its voice. *)
LEMMA ServedOK ==
  ASSUME Inductive, [Next]_vars, NEW r \in Requests, NEW audio \in Audio, Serve(r, audio), Complete(audio),
         audio.by[2] = target[r], cursor[r] = 0, UNCHANGED phase
  PROVE  RequestOK(r)'
<1> USE NamesStay, Fixed
<1>0. RequestOK(r) /\ RequestTypes /\ kind[r] \in AllKinds
  BY RequestFacts
<1>1. /\ pc'[r] = (IF Logical(r) THEN "alias" ELSE "answered") /\ answer'[r] = audio
      /\ UNCHANGED <<kind, at, target, follows, cursor>>
  BY <1>0 DEF Serve, Goto, RequestTypes
<1>2. VoiceOK(r)'
  BY <1>0, <1>1 DEF RequestOK, VoiceOK, Early
<1>3. FollowOK(r)'
  BY <1>0, <1>1 DEF RequestOK, FollowOK, Early
<1>4. FellBackOK(r)'
  BY <1>0, <1>1, OutcomesStay DEF RequestOK, FellBackOK
<1>5. AnswerOK(r)'
  <2>1. CASE Logical(r)
    BY <1>1, <2>1 DEF AnswerOK
  <2>2. CASE ~Logical(r)
    <3>1. target[r] = IF kind[r] = "edge" THEN "edge" ELSE "mimo"
      BY <1>0, <2>2 DEF RequestOK, VoiceOK
    <3> QED BY <1>0, <1>1, <2>2, <3>1 DEF AnswerOK
  <2> QED BY <2>1, <2>2
<1> QED BY <1>2, <1>3, <1>4, <1>5 DEF RequestOK

(* MiMo failed before any sound. *)
LEMMA FellBackKept ==
  ASSUME Inductive, [Next]_vars, NEW r \in Requests, pc[r] \in {"join", "listen"}, FallBack(r), Logical(r),
         target[r] = "mimo", cursor[r] = 0, outcome[follows[r]] = "vendor", UNCHANGED <<phase, outcome>>
  PROVE  RequestOK(r)'
<1> USE NamesStay, Fixed
<1>0. RequestOK(r) /\ RequestTypes
  BY RequestFacts
<1>1. pc'[r] = "lookupVoice" /\ target'[r] = "edge" /\ UNCHANGED <<kind, at, cursor, answer>>
  BY <1>0 DEF FallBack, Goto, RequestTypes
<1>2. VoiceOK(r)'
  BY <1>0, <1>1 DEF RequestOK, VoiceOK, Early
<1>3. FollowOK(r)'
  BY <1>1 DEF FollowOK, Early
<1>4. FellBackOK(r)'
  BY <1>0, <1>1 DEF RequestOK, FollowOK, FellBackOK
<1>5. AnswerOK(r)'
  BY <1>1 DEF AnswerOK
<1> QED BY <1>2, <1>3, <1>4, <1>5 DEF RequestOK

LEMMA ArriveKept ==
  ASSUME Inductive, [Next]_vars, NEW r \in Requests, Arrive(r)
  PROVE  RequestOK(r)'
<1> USE NamesStay, Fixed
<1>0. RequestOK(r) /\ RequestTypes
  BY RequestFacts
<1>1. /\ pc[r] = "idle" /\ pc'[r] = (IF Logical(r) THEN "lookup" ELSE "lookupVoice")
      /\ UNCHANGED <<kind, at, target, follows, cursor, answer, phase, outcome>>
  BY <1>0 DEF Arrive, Goto, RequestTypes, tasks
<1> QED BY <1>0, <1>1 DEF RequestOK, VoiceOK, FollowOK, FellBackOK, AnswerOK, Early

LEMMA LookupKept ==
  ASSUME Inductive, [Next]_vars, NEW r \in Requests, Lookup(r)
  PROVE  RequestOK(r)'
<1> USE NamesStay, Fixed
<1>0. RequestOK(r) /\ RequestTypes /\ kind[r] \in AllKinds
  BY RequestFacts
<1>1. pc[r] = "lookup" /\ UNCHANGED <<kind, at, phase, outcome>>
  BY DEF Lookup, Fail, tasks
<1>2. CASE Fail(r)
  BY <1>0, <1>1, <1>2, RequestFrame DEF Fail, Goto, RequestTypes
<1>3. CASE Goto(r, "lookupVoice") /\ UNCHANGED <<kind, at, target, follows, cursor, answer>>
  <2>1. pc'[r] = "lookupVoice"
    BY <1>0, <1>3 DEF Goto, RequestTypes
  <2> QED BY <1>0, <1>1, <1>3, <2>1 DEF RequestOK, VoiceOK, FollowOK, FellBackOK, AnswerOK, Early
<1>4. CASE /\ stored["auto"] # None
           /\ Goto(r, "answered")
           /\ answer' = [answer EXCEPT ![r] = stored["auto"]]
           /\ UNCHANGED <<kind, at, target, follows, cursor>>
  <2>1. pc'[r] = "answered" /\ answer'[r] = stored["auto"]
    BY <1>0, <1>4 DEF Goto, RequestTypes
  <2>2. Complete(stored["auto"])
    BY <1>4 DEF Inductive, DescriptorsAreComplete, Keys, Complete
  <2>3. Logical(r) /\ kind[r] \notin {"mimo", "mimoStream", "edge"} /\ cursor[r] = 0
    BY <1>0, <1>1 DEF RequestOK, VoiceOK, FollowOK, Early, Logical
  <2> QED BY <1>0, <1>1, <1>4, <2>1, <2>2, <2>3 DEF RequestOK, VoiceOK, FollowOK, FellBackOK, AnswerOK, Early
<1> QED BY <1>2, <1>3, <1>4 DEF Lookup

LEMMA LookupVoiceKept ==
  ASSUME Inductive, [Next]_vars, NEW r \in Requests, LookupVoice(r)
  PROVE  RequestOK(r)'
<1> USE NamesStay, Fixed
<1>0. RequestOK(r) /\ RequestTypes /\ target[r] \in Voices
  BY RequestFacts
<1>1. pc[r] = "lookupVoice" /\ UNCHANGED <<kind, at, phase, outcome>> /\ cursor[r] = 0
  BY <1>0 DEF LookupVoice, Fail, Serve, tasks, RequestOK, FollowOK, Early
<1>2. CASE Fail(r)
  BY <1>0, <1>1, <1>2, RequestFrame DEF Fail, Goto, RequestTypes
<1>3. CASE Goto(r, "claim") /\ UNCHANGED <<kind, at, target, follows, cursor, answer>>
  <2>1. pc'[r] = "claim"
    BY <1>0, <1>3 DEF Goto, RequestTypes
  <2> QED BY <1>0, <1>1, <1>3, <2>1 DEF RequestOK, VoiceOK, FollowOK, FellBackOK, AnswerOK, Early
<1>4. CASE stored[target[r]] # None /\ Serve(r, stored[target[r]])
  <2>1. /\ Complete(stored[target[r]]) /\ stored[target[r]].by[2] = target[r]
        /\ stored[target[r]] \in Audio
    BY <1>0, <1>4, SplitTypes DEF Inductive, DescriptorsAreComplete, Keys, Complete, BucketTypes
  <2> QED BY <1>1, <1>4, <2>1, ServedOK
<1> QED BY <1>2, <1>3, <1>4 DEF LookupVoice

LEMMA ClaimKept ==
  ASSUME Inductive, [Next]_vars, NEW r \in Requests, Claim(r)
  PROVE  RequestOK(r)'
<1> USE NamesStay, Fixed
<1>0. /\ RequestOK(r) /\ RequestTypes /\ target[r] \in Voices /\ at[r] \in Instances /\ TaskTypes
      /\ Mine(r) \in Tasks /\ Home(Mine(r)) = at[r] /\ Mine(r)[2] = target[r]
  BY RequestFacts, SplitTypes, ClaimCases DEF Mine, Inductive
<1>1. pc[r] = "claim" /\ UNCHANGED <<kind, at, outcome>> /\ cursor[r] = 0
  BY <1>0 DEF Claim, Fail, Follow, RequestOK, FollowOK, Early
<1>2. CASE Fail(r) /\ UNCHANGED phase
  BY <1>0, <1>1, <1>2, RequestFrame DEF Fail, Goto, RequestTypes
<1>3. ASSUME NEW t \in Tasks, NEW where \in {"join", "listen"}, Follow(r, t, where),
             t[2] = target[r], Home(t) = at[r], where = "listen" => Live(t) /\ Live(Mine(r))
      PROVE  RequestOK(r)'
  <2>1. /\ pc'[r] = where /\ follows'[r] = t
        /\ UNCHANGED <<kind, at, target, cursor, answer>>
    BY <1>0, <1>3 DEF Follow, Goto, RequestTypes
  <2>2. target[r] = "mimo" => phase'[<<r, "edge">>] = "none"
    <3>1. SUFFICES ASSUME target[r] = "mimo" PROVE phase'[<<r, "edge">>] = "none"
      OBVIOUS
    <3>2. phase[<<r, "edge">>] = "none" /\ <<r, "edge">> # Mine(r) /\ <<r, "edge">> \in Tasks
      BY <1>0, <3>1, TaskFacts DEF RequestOK, VoiceOK, Mine, Voices
    <3>3. \A s \in Requests : <<r, "edge">> = Mine(s) => s = r
      BY DEF Mine
    <3> QED BY <3>2, <3>3, TasksBegin
  <2>3. Live(Mine(r)) => Streaming(r)
    BY DEF Live, Mine
  <2>4. VoiceOK(r)'
    BY <1>0, <1>3, <2>1, <2>2 DEF RequestOK, VoiceOK, Early
  <2>5. FollowOK(r)'
    BY <1>0, <1>1, <1>3, <2>1, <2>3 DEF FollowOK, Early
  <2>6. FellBackOK(r)'
    BY <1>0, <1>1, <2>1 DEF RequestOK, FellBackOK
  <2> QED BY <1>3, <2>1, <2>4, <2>5, <2>6 DEF RequestOK, AnswerOK
<1>4. CASE /\ Live(Mine(r)) /\ streams[at[r]][target[r]] # None
           /\ Follow(r, streams[at[r]][target[r]], "listen")
  BY <1>0, <1>3, <1>4, RegisteredTask
<1>5. CASE pending[at[r]][target[r]] # None /\ Follow(r, pending[at[r]][target[r]], "join")
  BY <1>0, <1>3, <1>5, RegisteredTask
<1>6. CASE Follow(r, Mine(r), IF Live(Mine(r)) THEN "listen" ELSE "join")
  BY <1>0, <1>3, <1>6
<1> QED BY <1>2, <1>4, <1>5, <1>6 DEF Claim, Mine

LEMMA JoinKept ==
  ASSUME Inductive, [Next]_vars, NEW r \in Requests, Join(r)
  PROVE  RequestOK(r)'
<1> USE NamesStay, Fixed
<1>0. RequestOK(r) /\ RequestTypes /\ target[r] \in Voices /\ kind[r] \in AllKinds
  BY RequestFacts
<1>1. /\ pc[r] = "join" /\ UNCHANGED <<kind, at, phase, outcome>> /\ cursor[r] = 0
      /\ follows[r] \in Tasks /\ follows[r][2] = target[r]
  BY <1>0 DEF Join, Fail, Serve, FallBack, tasks, RequestOK, FollowOK
<1>2. outcome[follows[r]] = "audio" =>
        /\ result[follows[r]] \in Audio /\ Complete(result[follows[r]])
        /\ result[follows[r]].by[2] = target[r]
  BY <1>1 DEF Inductive, OutcomeOK
<1>3. CASE outcome[follows[r]] = "audio" /\ Serve(r, result[follows[r]])
  BY <1>1, <1>2, <1>3, ServedOK
<1>4. CASE /\ outcome[follows[r]] = "audio" /\ Streaming(r) /\ target[r] = "mimo"
           /\ Goto(r, "answered")
           /\ answer' = [answer EXCEPT ![r] = result[follows[r]]]
           /\ UNCHANGED <<kind, at, target, follows, cursor>>
  <2>1. pc'[r] = "answered" /\ answer'[r] = result[follows[r]] /\ kind[r] # "edge"
    BY <1>0, <1>4 DEF Goto, RequestTypes, Streaming
  <2> QED BY <1>0, <1>1, <1>2, <1>4, <2>1 DEF RequestOK, VoiceOK, FollowOK, FellBackOK, AnswerOK, Early
<1>5. CASE outcome[follows[r]] = "vendor" /\ Logical(r) /\ target[r] = "mimo" /\ FallBack(r)
  BY <1>1, <1>5, FellBackKept
<1>6. CASE Fail(r)
  BY <1>0, <1>1, <1>6, RequestFrame DEF Fail, Goto, RequestTypes
<1> QED BY <1>3, <1>4, <1>5, <1>6 DEF Join

LEMMA ListenKept ==
  ASSUME Inductive, [Next]_vars, NEW r \in Requests, Listen(r)
  PROVE  RequestOK(r)'
<1> USE NamesStay, Fixed
<1>0. RequestOK(r) /\ RequestTypes /\ target[r] \in Voices /\ kind[r] \in AllKinds
  BY RequestFacts
<1>1. /\ pc[r] = "listen" /\ UNCHANGED <<kind, at, phase, outcome>> /\ Streaming(r)
      /\ follows[r] \in Tasks /\ Live(follows[r]) /\ target[r] = "mimo"
  BY <1>0 DEF Listen, Fail, FallBack, tasks, RequestOK, FollowOK, Live
<1>2. CASE cursor' = [cursor EXCEPT ![r] = @ + 1] /\ UNCHANGED <<kind, at, pc, target, follows, answer>>
  BY <1>0, <1>1, <1>2 DEF RequestOK, VoiceOK, FollowOK, FellBackOK, AnswerOK, Early
<1>3. CASE /\ cursor[r] = chunks[follows[r]]
           /\ outcome[follows[r]] = "audio"
           /\ Goto(r, "answered")
           /\ answer' = [answer EXCEPT ![r] = AudioOf(follows[r])]
           /\ UNCHANGED <<kind, at, target, follows, cursor>>
  <2>1. pc'[r] = "answered" /\ answer'[r] = AudioOf(follows[r]) /\ kind[r] # "edge"
    BY <1>0, <1>1, <1>3 DEF Goto, RequestTypes, Streaming
  <2>2. Complete(AudioOf(follows[r])) /\ AudioOf(follows[r]).by = follows[r] /\ follows[r][2] = "mimo"
    BY <1>1, <1>3, AudioIsAudio DEF Inductive, OutcomeOK, Live
  <2>3. cursor[r] = Chunks
    BY <1>1, <1>3, <2>2, AudioIsAudio DEF Complete
  <2>4. AnswerOK(r)'
    BY <1>3, <2>1, <2>2, <2>3 DEF AnswerOK
  <2> QED BY <1>0, <1>1, <1>3, <2>1, <2>4 DEF RequestOK, VoiceOK, FollowOK, FellBackOK, Early
<1>4. CASE outcome[follows[r]] = "vendor" /\ Logical(r) /\ cursor[r] = 0 /\ FallBack(r)
  BY <1>1, <1>4, FellBackKept
<1>5. CASE Fail(r)
  BY <1>0, <1>1, <1>5, RequestFrame DEF Fail, Goto, RequestTypes
<1> QED BY <1>2, <1>3, <1>4, <1>5 DEF Listen

LEMMA AliasKept ==
  ASSUME Inductive, [Next]_vars, NEW r \in Requests, Alias(r)
  PROVE  RequestOK(r)'
<1> USE NamesStay, Fixed
<1>0. RequestOK(r) /\ RequestTypes /\ kind[r] \in AllKinds
  BY RequestFacts
<1>1. /\ pc[r] \in {"alias", "leaving"} /\ pc'[r] \in {"answered", "left", "failed"}
      /\ UNCHANGED <<kind, at, target, follows, cursor, answer, phase, outcome>>
  BY <1>0 DEF Alias, Goto, RequestTypes, tasks
<1>2. Logical(r) /\ cursor[r] = 0 /\ Complete(answer[r]) /\ kind[r] \notin {"mimo", "mimoStream", "edge"}
  BY <1>0, <1>1 DEF RequestOK, VoiceOK, FollowOK, Logical
<1> QED BY <1>0, <1>1, <1>2 DEF RequestOK, VoiceOK, FollowOK, FellBackOK, AnswerOK, Early

LEMMA LeaveKept ==
  ASSUME Inductive, [Next]_vars, NEW r \in Requests, Leave(r)
  PROVE  RequestOK(r)'
<1> USE NamesStay, Fixed
<1>0. RequestOK(r) /\ RequestTypes
  BY RequestFacts
<1>1. /\ pc'[r] = (IF pc[r] = "alias" THEN "leaving" ELSE "left")
      /\ UNCHANGED <<kind, at, target, follows, cursor, answer, phase, outcome>>
  BY <1>0 DEF Leave, Goto, RequestTypes, tasks
<1>2. CASE pc[r] = "alias"
  BY <1>0, <1>1, <1>2 DEF RequestOK, VoiceOK, FollowOK, FellBackOK, AnswerOK, Early
<1>3. CASE pc[r] # "alias"
  BY <1>0, <1>1, <1>3, RequestFrame
<1> QED BY <1>2, <1>3

(* A step of another request leaves a request where it is. *)
LEMMA OthersStay ==
  ASSUME TypeOK, NEW r \in Requests, NEW s \in Requests, s # r, Arrive(s) \/ RequestStep(s) \/ Leave(s)
  PROVE  pc'[r] = pc[r] /\ target'[r] = target[r] /\ follows'[r] = follows[r]
         /\ cursor'[r] = cursor[r] /\ answer'[r] = answer[r]
<1>0. RequestTypes
  BY SplitTypes
<1> QED BY <1>0 DEF RequestTypes, Arrive, RequestStep, Leave, Lookup, LookupVoice, Claim, Join, Listen, Alias,
          Fail, Serve, Follow, FallBack, Goto

LEMMA RequestsKept ==
  ASSUME Inductive, [Next]_vars
  PROVE  \A r \in Requests : RequestOK(r)'
<1> SUFFICES ASSUME NEW r \in Requests PROVE RequestOK(r)'
  OBVIOUS
<1>0. RequestOK(r) /\ RequestTypes /\ TypeOK
  BY RequestFacts DEF Inductive
<1>1. ASSUME NEW s \in Requests, Arrive(s) \/ RequestStep(s) \/ Leave(s)
      PROVE  RequestOK(r)'
  <2>1. CASE s = r
    BY <1>1, <2>1, ArriveKept, LookupKept, LookupVoiceKept, ClaimKept, JoinKept, ListenKept, AliasKept, LeaveKept
       DEF RequestStep
  <2>2. CASE s # r
    <3>1. pc'[r] = pc[r] /\ target'[r] = target[r] /\ follows'[r] = follows[r]
          /\ cursor'[r] = cursor[r] /\ answer'[r] = answer[r]
      BY <1>0, <1>1, <2>2, OthersStay
    <3>2. ~Claim(r) \/ UNCHANGED phase
      <4>1. SUFFICES ASSUME Claim(r) PROVE UNCHANGED phase
        OBVIOUS
      <4>2. pc'[r] # "claim"
        BY <1>0, <4>1 DEF Claim, Fail, Follow, Goto, RequestTypes
      <4> QED BY <3>1, <4>1, <4>2 DEF Claim
    <3> QED BY <1>0, <3>1, <3>2, RequestFrame
  <2> QED BY <2>1, <2>2
<1>2. ASSUME UNCHANGED requests
      PROVE  RequestOK(r)'
  <2>1. ~Claim(r)
    BY <1>0, <1>2 DEF Claim, Fail, Follow, Goto, RequestTypes, requests
  <2> QED BY <1>0, <1>2, <2>1, RequestFrame DEF requests
<1>3. ASSUME NEW t \in Tasks, TaskStep(t) \/ Write(t) \/ StreamTimeout(t)
      PROVE  UNCHANGED requests
  BY <1>3 DEF TaskStep, Produce, AwaitSlot, Recheck, StreamChunk, Synthesize, Written, Finish, Write, StreamTimeout
<1>4. ASSUME NEW i \in Instances, Crash(i)
      PROVE  RequestOK(r)'
  <2>1. pc'[r] \in {pc[r], "left"} /\ UNCHANGED <<target, follows, cursor, answer>>
    BY <1>4 DEF Crash
  <2>2. ~Claim(r)
    BY <1>0, <1>4, <2>1 DEF Claim, Fail, Follow, Goto, RequestTypes, Crash
  <2> QED BY <1>0, <2>1, <2>2, RequestFrame
<1>5. CASE UNCHANGED vars
  BY <1>2, <1>5 DEF vars
<1> QED BY <1>1, <1>2, <1>3, <1>4, <1>5 DEF Next

---------------------------------------------------------------------------
(* The invariant *)

LEMMA InductiveInit ==
  Init => Inductive
<1> SUFFICES ASSUME Init PROVE Inductive
  OBVIOUS
<1> USE TaskFacts, DeliveryAssumption
<1>1. TypeOK
  <2>1. 0 \in 0..Chunks /\ Slots \in 0..Slots /\ 0 \in 0..MaxCrashes
    OBVIOUS
  <2> QED BY <2>1 DEF Init, TypeOK, Waiting, Voices, Phases, Outcomes
<1>2. DescriptorsAreComplete
  BY DEF Init, DescriptorsAreComplete
<1>3. \A t \in Tasks : WriterOK(t) /\ OutcomeOK(t) /\ TaskRegistered(t)
  BY DEF Init, WriterOK, OutcomeOK, TaskRegistered, Tracked, Running, HoldsSlot
<1>4. \A i \in Instances, v \in Voices : EntryOK(i, v)
  BY DEF Init, EntryOK
<1>5. \A r \in Requests : VoiceOK(r) /\ FollowOK(r)
  <2>1. SUFFICES ASSUME NEW r \in Requests PROVE VoiceOK(r) /\ FollowOK(r)
    OBVIOUS
  <2>2. /\ pc[r] = "idle" /\ cursor[r] = 0 /\ target[r] = IF kind[r] = "edge" THEN "edge" ELSE "mimo"
        /\ \A v \in Voices : phase[<<r, v>>] = "none"
    BY DEF Init
  <2> QED BY <2>2 DEF VoiceOK, FollowOK, Early, Voices
<1>6. AnswersAreWhole
  <2>1. \A r \in Requests : FellBackOK(r) /\ AnswerOK(r)
    BY DEF Init, FellBackOK, AnswerOK, Logical
  <2> QED BY <2>1, AnswersSplit
<1>7. SlotsConserved
  <2>1. ASSUME NEW i \in Instances
        PROVE  free[i] + Cardinality({t \in Tasks : Home(t) = i /\ HoldsSlot(t)}) = Slots
    <3>1. {t \in Tasks : Home(t) = i /\ HoldsSlot(t)} = {}
      BY DEF Init, HoldsSlot
    <3>2. free[i] = Slots
      BY DEF Init
    <3> QED BY <3>1, <3>2, FS_EmptySet
  <2> QED BY <2>1 DEF SlotsConserved
<1> QED BY <1>1, <1>2, <1>3, <1>4, <1>5, <1>6, <1>7 DEF Inductive

LEMMA CrashesKept ==
  ASSUME TypeOK, [Next]_vars
  PROVE  crashes' \in 0..MaxCrashes
<1>0. crashes \in 0..MaxCrashes
  BY SplitTypes
<1>1. ASSUME NEW i \in Instances, Crash(i)
      PROVE  crashes' \in 0..MaxCrashes
  BY <1>0, <1>1, DeliveryAssumption DEF Crash
<1>2. CASE crashes' = crashes
  BY <1>0, <1>2
<1>3. crashes' = crashes \/ \E i \in Instances : Crash(i)
  BY DEF Next, RequestStep, TaskStep, Produce, Arrive, Lookup, LookupVoice, Claim, Join, Listen, Alias, Leave,
         AwaitSlot, Recheck, StreamChunk, Synthesize, Written, Finish, Write, StreamTimeout, vars
<1> QED BY <1>1, <1>2, <1>3

LEMMA InductiveStep ==
  Inductive /\ [Next]_vars => Inductive'
<1> SUFFICES ASSUME Inductive, [Next]_vars PROVE Inductive'
  OBVIOUS
<1>0. TypeOK /\ kind \in [Requests -> Kinds] /\ at \in [Requests -> Instances]
  BY SplitTypes DEF Inductive
<1>1. RequestTypes'
  <2>1. \A r \in Requests : pc[r] \in {"join", "listen"} => follows[r] \in Tasks
    BY DEF Inductive, FollowOK
  <2>2. \A t \in Tasks : outcome[t] = "audio" => result[t] \in Audio
    BY DEF Inductive, OutcomeOK
  <2> QED BY <1>0, <2>1, <2>2, RequestTypesKept
<1>2. TypeOK'
  <2>1. TaskTypes' /\ MemoryTypes' /\ BucketTypes' /\ Permits' /\ crashes' \in 0..MaxCrashes
    BY <1>0, TaskTypesKept, MemoryKept, BucketKept, PermitsKept, CrashesKept
  <2>2. kind' \in [Requests -> Kinds] /\ at' \in [Requests -> Instances]
    BY <1>0, Fixed
  <2> QED BY <1>1, <2>1, <2>2 DEF TypeOK, RequestTypes, TaskTypes, MemoryTypes, BucketTypes, Permits
<1>3. \A r \in Requests : VoiceOK(r)' /\ FollowOK(r)' /\ FellBackOK(r)' /\ AnswerOK(r)'
  BY RequestsKept DEF RequestOK
<1>4. AnswersAreWhole'
  BY <1>3 DEF AnswersAreWhole, FallbackOnlyAfterVendor, FellBackOK, AnswerOK, Complete
<1>5. SlotsConserved'
  BY PermitsKept DEF Permits, SlotsConserved, Holders
<1>6. DescriptorsAreComplete'
  BY BucketKept
<1>7. \A t \in Tasks : WriterOK(t)' /\ OutcomeOK(t)' /\ TaskRegistered(t)'
  BY WritersKept, OutcomesKept, RegisteredKept
<1>8. \A i \in Instances, v \in Voices : EntryOK(i, v)'
  BY MemoryKept
<1> QED BY <1>2, <1>3, <1>4, <1>5, <1>6, <1>7, <1>8 DEF Inductive

LEMMA AlwaysInductive ==
  Spec => []Inductive
BY InductiveInit, InductiveStep, PTL DEF Spec

(* The variables have the values that the code gives them. *)
THEOREM DeliveryTypes ==
  Spec => []TypeOK
<1>1. Inductive => TypeOK
  BY DEF Inductive
<1> QED BY <1>1, AlwaysInductive, PTL

(* Whatever requests race, and whenever a writer fails or is lost with its *)
(* instance, a descriptor points to a complete MP3 of its voice that is in *)
(* the bucket (storage.py publishes the descriptor last).                  *)
THEOREM DescriptorsStayComplete ==
  Spec => []DescriptorsAreComplete
<1>1. Inductive => DescriptorsAreComplete
  BY DEF Inductive
<1> QED BY <1>1, AlwaysInductive, PTL

(* Nobody is answered with part of a segment or with two voices, and Edge  *)
(* speaks for MiMo only where MiMo failed before any sound (streaming.py). *)
THEOREM AnswersStayWhole ==
  Spec => []AnswersAreWhole
<1>1. Inductive => AnswersAreWhole
  BY DEF Inductive
<1> QED BY <1>1, AlwaysInductive, PTL

(* A running task is registered and holds at most one permit, and no       *)
(* permit is lost, however tasks end (delivery.py, streaming.py).          *)
THEOREM TasksStayTracked ==
  Spec => []TasksAreTracked
<1>1. Inductive => TasksAreTracked
  <2>1. SUFFICES ASSUME Inductive PROVE TasksAreTracked
    OBVIOUS
  <2>2. SlotsConserved
    BY <2>1 DEF Inductive
  <2>3. \A t \in Tasks : Running(t) => /\ pending[Home(t)][t[2]] = t
                                       /\ streams[Home(t)][t[2]] = IF Live(t) THEN t ELSE None
    BY <2>1 DEF Inductive, TaskRegistered, Tracked
  <2>4. \A i \in Instances, v \in Voices : streams[i][v] # None => pending[i][v] = streams[i][v]
    BY <2>1 DEF Inductive, EntryOK
  <2> QED BY <2>2, <2>3, <2>4 DEF TasksAreTracked, RegisteredWhileRunning
<1> QED BY <1>1, AlwaysInductive, PTL
=============================================================================
