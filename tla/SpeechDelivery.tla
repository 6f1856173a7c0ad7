--------------------------- MODULE SpeechDelivery ---------------------------
(***************************************************************************)
(* Read-aloud audio of one text segment in one logical voice, served by    *)
(* function instances that share a bucket.  A request asks for the whole   *)
(* segment or listens while it is produced; it names a vendor, or lets the *)
(* service choose ("auto": MiMo first, Edge when MiMo fails).  Requests of *)
(* an instance share its tasks and its synthesis slots; the bucket holds   *)
(* immutable MP3 objects and the descriptors that point to them.           *)
(*                                                                         *)
(* The event loop runs a coroutine from one await to the next without      *)
(* interruption: an action is such a stretch.  A blocking call runs in a   *)
(* thread, which a cancelled coroutine leaves behind.  Vendors are         *)
(* configured, and audio is of book scope, which does not expire.          *)
(***************************************************************************)
EXTENDS Naturals, FiniteSets

CONSTANTS
  Requests,      \* requests for the segment
  Instances,     \* function instances, each with its event loop
  Kinds,         \* the kinds of request made in the model
  Slots,         \* synthesis slots of an instance (2)
  PendingLimit,  \* tasks an instance holds at most (32)
  Chunks,        \* pieces of MP3 a complete live stream consists of
  MaxCrashes,    \* bound of the model: instances lost
  None           \* no task, no audio

Voices == {"mimo", "edge"}
Keys == Voices \cup {"auto"}
AllKinds == {"auto", "mimo", "edge", "autoStream", "mimoStream"}
Tasks == Requests \X Voices
Audio == [by : Tasks, whole : BOOLEAN]

ASSUME DeliveryAssumption ==
  /\ IsFiniteSet(Requests)
  /\ Kinds \subseteq AllKinds
  /\ Slots \in Nat \ {0}
  /\ PendingLimit \in Nat \ {0}
  /\ Chunks \in Nat \ {0}
  /\ MaxCrashes \in Nat
  /\ None \notin Tasks \cup Audio

VARIABLES
  kind,      \* [Requests -> what is asked for]
  at,        \* [Requests -> the instance that serves the request]
  pc,        \* [Requests -> where its coroutine waits]
  target,    \* [Requests -> the vendor it is trying]
  follows,   \* [Requests -> the task it waits for]
  cursor,    \* [Requests -> chunks of that task it has sent on]
  answer,    \* [Requests -> the audio it is answered with]
  phase,     \* [Tasks -> where its coroutine waits]
  chunks,    \* [Tasks -> chunks of the live stream so far]
  writer,    \* [Tasks -> the thread that writes to the bucket for it]
  outcome,   \* [Tasks -> how it ended]
  result,    \* [Tasks -> the audio it returned]
  pending,   \* [Instances -> [Voices -> the task registered, or None]]
  streams,   \* [Instances -> [Voices -> its task, if it can be listened to]]
  free,      \* [Instances -> permits of the synthesis semaphore]
  objects,   \* MP3 objects of the bucket
  stored,    \* [Keys -> the audio its descriptor points to, or None]
  crashes    \* instances lost so far

requests == <<kind, at, pc, target, follows, cursor, answer>>
tasks == <<phase, chunks, writer, outcome, result>>
memory == <<pending, streams, free>>
bucket == <<objects, stored>>
vars == <<requests, tasks, memory, bucket, crashes>>

Logical(r) == kind[r] \in {"auto", "autoStream"}
Streaming(r) == kind[r] \in {"autoStream", "mimoStream"}
Waiting == {"lookup", "lookupVoice", "claim", "join", "listen", "alias"}
Ended == {"answered", "failed", "left", "leaving"}
Phases == {"none", "slot", "recheck", "synth", "store", "alias", "settled", "gone"}
Outcomes == {"none", "audio", "vendor", "busy", "storage", "invalid", "late"}

Home(t) == at[t[1]]
Live(t) == t[2] = "mimo" /\ Streaming(t[1])
AudioOf(t) == [by |-> t, whole |-> ~Live(t) \/ chunks[t] = Chunks]
HoldsSlot(t) == phase[t] \in {"recheck", "synth", "store", "alias"}
Running(t) == phase[t] = "slot" \/ HoldsSlot(t)

Init ==
  /\ kind \in [Requests -> Kinds]
  /\ at \in [Requests -> Instances]
  /\ pc = [r \in Requests |-> "idle"]
  /\ target = [r \in Requests |-> IF kind[r] = "edge" THEN "edge" ELSE "mimo"]
  /\ follows = [r \in Requests |-> None]
  /\ cursor = [r \in Requests |-> 0]
  /\ answer = [r \in Requests |-> None]
  /\ phase = [t \in Tasks |-> "none"]
  /\ chunks = [t \in Tasks |-> 0]
  /\ writer = [t \in Tasks |-> "idle"]
  /\ outcome = [t \in Tasks |-> "none"]
  /\ result = [t \in Tasks |-> None]
  /\ pending = [i \in Instances |-> [v \in Voices |-> None]]
  /\ streams = [i \in Instances |-> [v \in Voices |-> None]]
  /\ free = [i \in Instances |-> Slots]
  /\ objects = {}
  /\ stored = [k \in Keys |-> None]
  /\ crashes = 0

---------------------------------------------------------------------------
(* Requests *)

Goto(r, where) == pc' = [pc EXCEPT ![r] = where]

Arrive(r) ==
  /\ pc[r] = "idle"
  /\ Goto(r, IF Logical(r) THEN "lookup" ELSE "lookupVoice")
  /\ UNCHANGED <<kind, at, target, follows, cursor, answer, tasks, memory, bucket, crashes>>

Fail(r) ==
  /\ Goto(r, "failed")
  /\ UNCHANGED <<kind, at, target, follows, cursor, answer>>

(* Audio for the request: a logical voice gets a descriptor of its own. *)
Serve(r, audio) ==
  /\ Goto(r, IF Logical(r) THEN "alias" ELSE "answered")
  /\ answer' = [answer EXCEPT ![r] = audio]
  /\ UNCHANGED <<kind, at, target, follows, cursor>>

(* The descriptor of the logical voice.  Only a real 404 is a miss; any    *)
(* other failure of the bucket ends the request.                           *)
Lookup(r) ==
  /\ pc[r] = "lookup"
  /\ \/ Fail(r)
     \/ /\ stored["auto"] = None
        /\ Goto(r, "lookupVoice")
        /\ UNCHANGED <<kind, at, target, follows, cursor, answer>>
     \/ /\ stored["auto"] # None
        /\ Goto(r, "answered")
        /\ answer' = [answer EXCEPT ![r] = stored["auto"]]
        /\ UNCHANGED <<kind, at, target, follows, cursor>>
  /\ UNCHANGED <<tasks, memory, bucket, crashes>>

(* The descriptor of the vendor's voice; the coroutine resumes later. *)
LookupVoice(r) ==
  /\ pc[r] = "lookupVoice"
  /\ \/ Fail(r)
     \/ /\ stored[target[r]] = None
        /\ Goto(r, "claim")
        /\ UNCHANGED <<kind, at, target, follows, cursor, answer>>
     \/ /\ stored[target[r]] # None
        /\ Serve(r, stored[target[r]])
  /\ UNCHANGED <<tasks, memory, bucket, crashes>>

Follow(r, t, where) ==
  /\ Goto(r, where)
  /\ follows' = [follows EXCEPT ![r] = t]
  /\ UNCHANGED <<kind, at, target, cursor, answer>>

PendingCount(i) == Cardinality({v \in Voices : pending[i][v] # None})

(* Mutant of Claim: a listener looks for live streams only. *)
ClaimStreamsOnly(r) ==
  LET i == at[r]
      v == target[r]
      mine == <<r, v>>
      shared == IF Live(mine) THEN streams[i][v] ELSE pending[i][v]
  IN /\ pc[r] = "claim"
     /\ IF shared # None
        THEN /\ Follow(r, shared, IF Live(mine) THEN "listen" ELSE "join")
             /\ UNCHANGED <<phase, pending, streams>>
        ELSE /\ Follow(r, mine, IF Live(mine) THEN "listen" ELSE "join")
             /\ phase' = [phase EXCEPT ![mine] = "slot"]
             /\ pending' = [pending EXCEPT ![i][v] = mine]
             /\ streams' = IF Live(mine) THEN [streams EXCEPT ![i][v] = mine] ELSE streams
     /\ UNCHANGED <<chunks, writer, outcome, result, free, bucket, crashes>>

(* A miss: join the task of the vendor's voice, or register one.  A        *)
(* listener prefers a live stream; its fallback to Edge asks for the       *)
(* whole segment.                                                          *)
Claim(r) ==
  LET i == at[r]
      v == target[r]
      mine == <<r, v>>
  IN /\ pc[r] = "claim"
     /\ \/ /\ Live(mine)
           /\ streams[i][v] # None
           /\ Follow(r, streams[i][v], "listen")
           /\ UNCHANGED <<phase, pending, streams>>
        \/ /\ Live(mine) => streams[i][v] = None
           /\ pending[i][v] # None
           /\ Follow(r, pending[i][v], "join")
           /\ UNCHANGED <<phase, pending, streams>>
        \/ /\ pending[i][v] = None
           /\ Live(mine) => streams[i][v] = None
           /\ PendingCount(i) >= PendingLimit
           /\ Fail(r)
           /\ UNCHANGED <<phase, pending, streams>>
        \/ /\ pending[i][v] = None
           /\ Live(mine) => streams[i][v] = None
           /\ PendingCount(i) < PendingLimit
           /\ Follow(r, mine, IF Live(mine) THEN "listen" ELSE "join")
           /\ phase' = [phase EXCEPT ![mine] = "slot"]
           /\ pending' = [pending EXCEPT ![i][v] = mine]
           /\ streams' = IF Live(mine) THEN [streams EXCEPT ![i][v] = mine] ELSE streams
     /\ UNCHANGED <<chunks, writer, outcome, result, free, bucket, crashes>>

(* MiMo failed and no sound was sent yet: try Edge. *)
FallBack(r) ==
  /\ target' = [target EXCEPT ![r] = "edge"]
  /\ follows' = [follows EXCEPT ![r] = None]
  /\ Goto(r, "lookupVoice")
  /\ UNCHANGED <<kind, at, cursor, answer>>

(* The awaited task ended.  A listener that found a task which is no live  *)
(* stream passes its result on as it is: no fallback, no alias.            *)
Join(r) ==
  LET t == follows[r]
      borrowed == Streaming(r) /\ target[r] = "mimo"
  IN /\ pc[r] = "join"
     /\ outcome[t] # "none"
     /\ \/ /\ outcome[t] = "audio" /\ ~borrowed
           /\ Serve(r, result[t])
        \/ /\ outcome[t] = "audio" /\ borrowed
           /\ Goto(r, "answered")
           /\ answer' = [answer EXCEPT ![r] = result[t]]
           /\ UNCHANGED <<kind, at, target, follows, cursor>>
        \/ /\ outcome[t] = "vendor"
           /\ Logical(r) /\ target[r] = "mimo" /\ ~borrowed
           /\ FallBack(r)
        \/ /\ outcome[t] # "audio"
           /\ outcome[t] = "vendor" => ~Logical(r) \/ target[r] = "edge" \/ borrowed
           /\ Fail(r)
     /\ UNCHANGED <<tasks, memory, bucket, crashes>>


(* Mutant of Listen: falls back also after sound was sent. *)
ListenSplices(r) ==
  LET t == follows[r]
  IN /\ pc[r] = "listen"
     /\ \/ /\ cursor[r] < chunks[t]
           /\ cursor' = [cursor EXCEPT ![r] = @ + 1]
           /\ UNCHANGED <<kind, at, pc, target, follows, answer>>
        \/ /\ cursor[r] = chunks[t]
           /\ outcome[t] = "audio"
           /\ Goto(r, "answered")
           /\ answer' = [answer EXCEPT ![r] = AudioOf(t)]
           /\ UNCHANGED <<kind, at, target, follows, cursor>>
        \/ /\ cursor[r] = chunks[t]
           /\ outcome[t] = "vendor" /\ Logical(r)
           /\ FallBack(r)
        \/ /\ cursor[r] = chunks[t]
           /\ outcome[t] \notin {"none", "audio"}
           /\ outcome[t] = "vendor" => ~Logical(r)
           /\ Fail(r)
     /\ UNCHANGED <<tasks, memory, bucket, crashes>>

(* A listener sends the chunks it has not sent yet; after the last one it  *)
(* takes over how the stream ended, so that a truncated one is an error.   *)
Listen(r) ==
  LET t == follows[r]
  IN /\ pc[r] = "listen"
     /\ \/ /\ cursor[r] < chunks[t]
           /\ cursor' = [cursor EXCEPT ![r] = @ + 1]
           /\ UNCHANGED <<kind, at, pc, target, follows, answer>>
        \/ /\ cursor[r] = chunks[t]
           /\ outcome[t] = "audio"
           /\ Goto(r, "answered")
           /\ answer' = [answer EXCEPT ![r] = AudioOf(t)]
           /\ UNCHANGED <<kind, at, target, follows, cursor>>
        \/ /\ cursor[r] = chunks[t]
           /\ outcome[t] = "vendor" /\ Logical(r) /\ cursor[r] = 0
           /\ FallBack(r)
        \/ /\ cursor[r] = chunks[t]
           /\ outcome[t] \notin {"none", "audio"}
           /\ outcome[t] = "vendor" => ~Logical(r) \/ cursor[r] > 0
           /\ Fail(r)
     /\ UNCHANGED <<tasks, memory, bucket, crashes>>

(* The descriptor of the logical voice points to the audio that was found  *)
(* or made.  A failed call may have been applied.                          *)
Alias(r) ==
  /\ pc[r] \in {"alias", "leaving"}
  /\ \/ /\ stored' = [stored EXCEPT !["auto"] = answer[r]]
        /\ Goto(r, IF pc[r] = "alias" THEN "answered" ELSE "left")
        /\ UNCHANGED <<kind, at, target, follows, cursor, answer>>
     \/ /\ stored' \in {stored, [stored EXCEPT !["auto"] = answer[r]]}
        /\ Goto(r, IF pc[r] = "alias" THEN "failed" ELSE "left")
        /\ UNCHANGED <<kind, at, target, follows, cursor, answer>>
  /\ UNCHANGED <<tasks, memory, objects, crashes>>

(* The reader disconnects, or the router's 110 seconds are over.  The task *)
(* is shielded and goes on; so does the thread of an alias.                *)
Leave(r) ==
  /\ pc[r] \in Waiting
  /\ Goto(r, IF pc[r] = "alias" THEN "leaving" ELSE "left")
  /\ UNCHANGED <<kind, at, target, follows, cursor, answer, tasks, memory, bucket, crashes>>

---------------------------------------------------------------------------
(* Tasks *)

Move(t, where) == phase' = [phase EXCEPT ![t] = where]

(* Mutant of Settle: also a task that never got a slot gives one back. *)
SettleReleasesAlways(t, how, audio) ==
  /\ Move(t, "settled")
  /\ outcome' = [outcome EXCEPT ![t] = how]
  /\ result' = [result EXCEPT ![t] = audio]
  /\ free' = [free EXCEPT ![Home(t)] = @ + 1]

(* The coroutine ends, one way or another, and gives back its slot. *)
Settle(t, how, audio) ==
  /\ Move(t, "settled")
  /\ outcome' = [outcome EXCEPT ![t] = how]
  /\ result' = [result EXCEPT ![t] = audio]
  /\ free' = IF HoldsSlot(t) THEN [free EXCEPT ![Home(t)] = @ + 1] ELSE free

(* A slot within two seconds, or none. *)
AwaitSlot(t) ==
  /\ phase[t] = "slot"
  /\ \/ /\ free[Home(t)] > 0
        /\ free' = [free EXCEPT ![Home(t)] = @ - 1]
        /\ Move(t, IF Live(t) THEN "synth" ELSE "recheck")
        /\ UNCHANGED <<outcome, result>>
     \/ /\ free[Home(t)] = 0
        /\ Settle(t, "busy", None)
  /\ UNCHANGED <<requests, chunks, writer, pending, streams, bucket, crashes>>

(* A whole segment may have been stored while its task waited. *)
Recheck(t) ==
  /\ phase[t] = "recheck"
  /\ \/ Settle(t, "storage", None)
     \/ /\ stored[t[2]] # None
        /\ Settle(t, "audio", stored[t[2]])
     \/ /\ stored[t[2]] = None
        /\ Move(t, "synth")
        /\ UNCHANGED <<outcome, result, free>>
  /\ UNCHANGED <<requests, chunks, writer, pending, streams, bucket, crashes>>

(* A live stream hands every chunk to its listeners. *)
StreamChunk(t) ==
  /\ phase[t] = "synth" /\ Live(t)
  /\ chunks[t] < Chunks
  /\ chunks' = [chunks EXCEPT ![t] = @ + 1]
  /\ UNCHANGED <<requests, phase, writer, outcome, result, memory, bucket, crashes>>

(* The vendor is done, or fails; complete audio is validated and its       *)
(* upload begins.                                                          *)
Synthesize(t) ==
  /\ phase[t] = "synth"
  /\ \/ /\ Live(t) => chunks[t] < Chunks
        /\ Settle(t, "vendor", None)
        /\ UNCHANGED writer
     \/ /\ Live(t) => chunks[t] = Chunks
        /\ Settle(t, "invalid", None)
        /\ UNCHANGED writer
     \/ /\ Live(t) => chunks[t] = Chunks
        /\ Move(t, "store")
        /\ writer' = [writer EXCEPT ![t] = "object"]
        /\ UNCHANGED <<outcome, result, free>>
  /\ UNCHANGED <<requests, chunks, pending, streams, bucket, crashes>>

(* Mutant of Write: the descriptor is uploaded first. *)
WriteDescriptorFirst(t) ==
  /\ \/ /\ writer[t] = "object"
        /\ stored' = [stored EXCEPT ![t[2]] = AudioOf(t)]
        /\ writer' = [writer EXCEPT ![t] = "descriptor"]
        /\ UNCHANGED objects
     \/ /\ writer[t] = "descriptor"
        /\ objects' = objects \cup {AudioOf(t)}
        /\ writer' = [writer EXCEPT ![t] = "stored"]
        /\ UNCHANGED stored
     \/ /\ writer[t] \in {"object", "descriptor"}
        /\ writer' = [writer EXCEPT ![t] = "failed"]
        /\ UNCHANGED bucket
  /\ UNCHANGED <<requests, phase, chunks, outcome, result, memory, crashes>>

(* The thread of store.put, then that of the alias a logical stream makes. *)
(* A call that fails may have been applied.                                *)
Write(t) ==
  /\ \/ /\ writer[t] = "object"
        /\ objects' = objects \cup {AudioOf(t)}
        /\ writer' \in {[writer EXCEPT ![t] = w] : w \in {"descriptor", "failed"}}
        /\ UNCHANGED stored
     \/ /\ writer[t] = "descriptor"
        /\ stored' = [stored EXCEPT ![t[2]] = AudioOf(t)]
        /\ writer' \in {[writer EXCEPT ![t] = w] : w \in {"stored", "failed"}}
        /\ UNCHANGED objects
     \/ /\ writer[t] = "alias"
        /\ stored' = [stored EXCEPT !["auto"] = AudioOf(t)]
        /\ writer' \in {[writer EXCEPT ![t] = w] : w \in {"aliased", "failed"}}
        /\ UNCHANGED objects
     \/ /\ writer[t] \in {"object", "descriptor", "alias"}
        /\ writer' = [writer EXCEPT ![t] = "failed"]
        /\ UNCHANGED bucket
  /\ UNCHANGED <<requests, phase, chunks, outcome, result, memory, crashes>>

(* The coroutine sees its thread end. *)
Written(t) ==
  /\ \/ /\ phase[t] = "store" /\ writer[t] = "stored"
        /\ Live(t) /\ kind[t[1]] = "autoStream"
        /\ Move(t, "alias")
        /\ writer' = [writer EXCEPT ![t] = "alias"]
        /\ UNCHANGED <<outcome, result, free>>
     \/ /\ phase[t] = "store" /\ writer[t] = "stored"
        /\ ~(Live(t) /\ kind[t[1]] = "autoStream")
        /\ Settle(t, "audio", AudioOf(t))
        /\ UNCHANGED writer
     \/ /\ phase[t] = "alias" /\ writer[t] = "aliased"
        /\ Settle(t, "audio", AudioOf(t))
        /\ UNCHANGED writer
     \/ /\ phase[t] \in {"store", "alias"} /\ writer[t] = "failed"
        /\ Settle(t, "storage", None)
        /\ UNCHANGED writer
  /\ UNCHANGED <<requests, chunks, pending, streams, bucket, crashes>>

(* Mutant of StreamTimeout: listeners are not told. *)
StreamTimeoutSilent(t) ==
  /\ Live(t) /\ Running(t)
  /\ Move(t, "settled")
  /\ free' = IF HoldsSlot(t) THEN [free EXCEPT ![Home(t)] = @ + 1] ELSE free
  /\ UNCHANGED <<requests, chunks, writer, outcome, result, pending, streams, bucket, crashes>>

(* A live stream is cancelled after 105 seconds; its thread is not. *)
StreamTimeout(t) ==
  /\ Live(t) /\ Running(t)
  /\ Settle(t, "late", None)
  /\ UNCHANGED <<requests, chunks, writer, pending, streams, bucket, crashes>>

(* Mutant of Finish: a stream only leaves the dictionary of streams. *)
FinishHalf(t) ==
  /\ phase[t] = "settled"
  /\ Move(t, "gone")
  /\ pending' = IF Live(t) THEN pending ELSE [pending EXCEPT ![Home(t)][t[2]] = None]
  /\ streams' = IF Live(t) THEN [streams EXCEPT ![Home(t)][t[2]] = None] ELSE streams
  /\ UNCHANGED <<requests, chunks, writer, outcome, result, free, bucket, crashes>>

(* The callback of a finished task takes it out of the dictionaries. *)
Finish(t) ==
  /\ phase[t] = "settled"
  /\ Move(t, "gone")
  /\ pending' = [pending EXCEPT ![Home(t)][t[2]] = None]
  /\ streams' = IF Live(t) THEN [streams EXCEPT ![Home(t)][t[2]] = None] ELSE streams
  /\ UNCHANGED <<requests, chunks, writer, outcome, result, free, bucket, crashes>>

---------------------------------------------------------------------------
(* An instance is reclaimed with all it holds in memory. *)
Crash(i) ==
  /\ crashes < MaxCrashes
  /\ crashes' = crashes + 1
  /\ pc' = [r \in Requests |->
               IF at[r] = i /\ pc[r] \in Waiting \cup {"leaving"} THEN "left" ELSE pc[r]]
  /\ phase' = [t \in Tasks |-> IF Home(t) = i /\ phase[t] # "none" THEN "gone" ELSE phase[t]]
  /\ writer' = [t \in Tasks |-> IF Home(t) = i THEN "idle" ELSE writer[t]]
  /\ pending' = [pending EXCEPT ![i] = [v \in Voices |-> None]]
  /\ streams' = [streams EXCEPT ![i] = [v \in Voices |-> None]]
  /\ free' = [free EXCEPT ![i] = Slots]
  /\ UNCHANGED <<kind, at, target, follows, cursor, answer, chunks, outcome, result, bucket>>

RequestStep(r) == Lookup(r) \/ LookupVoice(r) \/ Claim(r) \/ Join(r) \/ Listen(r) \/ Alias(r)
Produce(t) == StreamChunk(t) \/ Synthesize(t)
TaskStep(t) == AwaitSlot(t) \/ Recheck(t) \/ Produce(t) \/ Written(t) \/ Finish(t)

Next ==
  \/ \E r \in Requests : Arrive(r) \/ RequestStep(r) \/ Leave(r)
  \/ \E t \in Tasks : TaskStep(t) \/ Write(t) \/ StreamTimeout(t)
  \/ \E i \in Instances : Crash(i)

Spec == Init /\ [][Next]_vars

(* The loop runs what is ready, and every call to a vendor or to the       *)
(* bucket has a time limit of its own.                                     *)
Fairness ==
  /\ \A r \in Requests : WF_vars(RequestStep(r))
  /\ \A t \in Tasks : WF_vars(TaskStep(t)) /\ WF_vars(Write(t))

FairSpec == Spec /\ Fairness

---------------------------------------------------------------------------
(* The variables have the values that the code gives them. *)
TypeOK ==
  /\ kind \in [Requests -> Kinds]
  /\ at \in [Requests -> Instances]
  /\ pc \in [Requests -> {"idle"} \cup Waiting \cup Ended]
  /\ target \in [Requests -> Voices]
  /\ follows \in [Requests -> Tasks \cup {None}]
  /\ cursor \in [Requests -> 0..Chunks]
  /\ answer \in [Requests -> Audio \cup {None}]
  /\ phase \in [Tasks -> Phases]
  /\ chunks \in [Tasks -> 0..Chunks]
  /\ writer \in [Tasks -> {"idle", "object", "descriptor", "stored", "alias", "aliased", "failed"}]
  /\ outcome \in [Tasks -> Outcomes]
  /\ result \in [Tasks -> Audio \cup {None}]
  /\ pending \in [Instances -> [Voices -> Tasks \cup {None}]]
  /\ streams \in [Instances -> [Voices -> Tasks \cup {None}]]
  /\ free \in [Instances -> 0..Slots]
  /\ objects \subseteq Audio
  /\ stored \in [Keys -> Audio \cup {None}]
  /\ crashes \in 0..MaxCrashes

(* A descriptor always references a complete MP3 that is in the bucket,    *)
(* spoken by the vendor of its key, however writers race, die or are cut   *)
(* off (storage.py: the descriptor is published last; README: a failed     *)
(* stream publishes nothing).                                              *)
DescriptorsAreComplete ==
  \A k \in Keys : stored[k] # None =>
    /\ stored[k] \in objects
    /\ stored[k].whole
    /\ k \in Voices => stored[k].by[2] = k

FallbackOnlyAfterVendor ==
  \A r \in Requests : Logical(r) /\ target[r] = "edge" =>
    /\ cursor[r] = 0
    /\ \E t \in Tasks : t[2] = "mimo" /\ Home(t) = at[r] /\ outcome[t] = "vendor"

(* What a request is answered with is a complete segment in one voice; a   *)
(* listener heard all of it, and only from the task it ends with, or       *)
(* nothing of any other (streaming.py: "never splice two voices in one     *)
(* segment", "never treat them as a complete segment").  An automatic      *)
(* request turns to Edge only after a MiMo task of its instance failed at  *)
(* the vendor, and before it sent any sound: failures of the bucket and a  *)
(* full queue are no reason (tools/speech/README.md).                      *)
AnswersAreWhole ==
  /\ FallbackOnlyAfterVendor
  /\ \A r \in Requests : pc[r] = "answered" =>
       /\ answer[r] \in objects /\ answer[r].whole
       /\ kind[r] \in {"mimo", "mimoStream"} => answer[r].by[2] = "mimo"
       /\ kind[r] = "edge" => answer[r].by[2] = "edge"
       /\ cursor[r] > 0 => /\ answer[r].by = follows[r]
                           /\ cursor[r] = Chunks

RegisteredWhileRunning ==
  /\ \A t \in Tasks : Running(t) =>
       /\ pending[Home(t)][t[2]] = t
       /\ streams[Home(t)][t[2]] = IF Live(t) THEN t ELSE None
  /\ \A i \in Instances, v \in Voices : streams[i][v] # None => pending[i][v] = streams[i][v]

SlotsConserved ==
  \A i \in Instances :
    free[i] + Cardinality({t \in Tasks : Home(t) = i /\ HoldsSlot(t)}) = Slots

(* The dictionaries of an instance, its permits and its running tasks      *)
(* agree: a task is registered for as long as it runs, so that a second    *)
(* request joins it, and can be listened to exactly when it is a live      *)
(* stream; whatever way tasks end, the permits are those that running      *)
(* tasks hold and those that are free.                                     *)
TasksAreTracked == RegisteredWhileRunning /\ SlotsConserved

(* Every request that arrived is answered or refused, also those that      *)
(* listen to a stream that is cut off.                                     *)
EveryRequestEnds == \A r \in Requests : pc[r] # "idle" ~> pc[r] \in Ended

(* Nothing stays registered and no slot stays taken once requests cease.   *)
InstancesComeToRest ==
  <>[](\A i \in Instances :
         /\ free[i] = Slots
         /\ \A v \in Voices : pending[i][v] = None /\ streams[i][v] = None)
=============================================================================
