-------------------------- MODULE ProcessGeneration --------------------------
(***************************************************************************)
(* Immutable Process generations: a full archive of the Canonical state,   *)
(* or a cumulative delta over one base archive.  A generation carries the  *)
(* jobs of its batch, the Canonical state it restores to and the Process   *)
(* result it replays.  The version of an article is the number of the job  *)
(* whose capture its body comes from, 0 for an article that is absent,     *)
(* Withdrawn for one that a result took off the indexes and Superseded for *)
(* one that is not listed because an alias of it is.  The code keeps no    *)
(* tombstones: these are absences the properties can tell from never       *)
(* listed.                                                                 *)
(***************************************************************************)
EXTENDS RuntimeJobStatus

CONSTANTS
    JobCount,   \* number of Capture jobs, numbered in createdAt order
    Archives,   \* names processed-{sha256}.tar.gz can have at one time: 1..n
    MaxBatch,   \* jobs merged into one Process run (max_jobs)
    MaxDelta,   \* MAX_PROCESS_DELTA_DEPTH
    Publication \* Publication[a]: the date and the publisher's identity of a

ASSUME GenerationAssumption ==
    /\ JobCount \in Nat \ {0}
    /\ Archives \subseteq Nat \ {0}
    /\ MaxBatch \in Nat \ {0}
    /\ MaxDelta \in Nat

Jobs       == 1 .. JobCount
Withdrawn  == JobCount + 1
Superseded == JobCount + 2
Versions   == 0 .. Superseded
Batches    == UNION {[1 .. n -> Jobs] : n \in 0 .. MaxBatch}

Anchor(batch)  == batch[1]
Members(batch) == {batch[i] : i \in DOMAIN batch}

NoBase == 0   \* the base of a full archive

\* sourceDeliveryIdentity: keys under which a source publishes one and the same article.
Aliases(a) == {b \in Articles : Publication[b] = Publication[a]}

Results ==
    [outcome : [Articles -> Outcomes], version : [Articles -> Versions],
     superseded : SUBSET Articles]

\* What a staged status holds, and what is read of it once process-memory.json names it.
Generations ==
    [object : Archives, base : Archives \cup {NoBase}, depth : 0 .. MaxDelta,
     memory : [Articles -> Versions], batch : Batches, result : Results]

Pointers ==
    [object : Archives, base : Archives \cup {NoBase}, depth : 0 .. MaxDelta,
     memory : [Articles -> Versions]]

PointerTo(gen) ==
    [object |-> gen.object, base |-> gen.base, depth |-> gen.depth, memory |-> gen.memory]

ASSUME NoGenerationAssumption == NoGeneration \notin Generations \cup Pointers

\* runtimeProcessGenerationObjects: the archives a restore needs.
GenerationObjects(gen) == {gen.object} \cup ({gen.base} \ {NoBase})

ObjectsOf(gen) == IF gen = NoGeneration THEN {} ELSE GenerationObjects(gen)

\* A delta is taken over the archive the committed generation is, or is itself based on.
DeltaBase(previous)  == IF previous.base = NoBase THEN previous.object ELSE previous.base
DeltaDepth(previous) == IF previous.base = NoBase THEN 1 ELSE previous.depth + 1

\* Mutant: the depth of the committed generation is compared, not that of the new one.
BaseOneTooDeep(previous) ==
    IF previous = NoGeneration THEN {NoBase}
    ELSE IF previous.depth > MaxDelta THEN {NoBase}
    ELSE {NoBase, DeltaBase(previous)}

\* deltaPlan: the bases of a new generation.  A delta whose bytes or files are over the
\* ratio or the restore budget is compacted to a full archive; sizes are data, so full is
\* allowed whenever a delta is.
BaseFor(previous) ==
    IF previous = NoGeneration THEN {NoBase}
    ELSE IF DeltaDepth(previous) > MaxDelta THEN {NoBase}
    ELSE {NoBase, DeltaBase(previous)}

DepthOver(previous, base) == IF base = NoBase THEN 0 ELSE DeltaDepth(previous)

\* What a Process result does to a view of the articles: the merged timeline day every
\* Delivery index is built from, and the view the generation commits.
Apply(result, view) ==
    [a \in Articles |->
        CASE a \in result.superseded -> Superseded
          [] a \notin result.superseded /\ result.outcome[a] = "written" -> result.version[a]
          [] a \notin result.superseded /\ result.outcome[a] \in {"removed", "refused"} -> Withdrawn
          [] OTHER -> view[a]]

\* mergeArticles: of a publication one listed article is kept and the others are superseded.
\* Which one (the newer revision, then the one listed before, then the order of the ids)
\* is data.
Collapses(superseded, listed) ==
    /\ superseded \subseteq listed
    /\ \A a \in listed : \E kept \in Aliases(a) : Aliases(a) \cap (listed \ superseded) = {kept}

\* Mutant: everything the previous pointer had is deleted.
NothingRetained(previous, next) == ObjectsOf(previous)

\* promoteRuntimeProcess: archives of the previous pointer the new one does not need.
Obsolete(previous, next) == ObjectsOf(previous) \ GenerationObjects(next)

=============================================================================
