--------------------------- MODULE RuntimeCleanup ---------------------------
(***************************************************************************)
(* The retention plan of the Runtime bucket (cleanup.ts and the cleanup    *)
(* action of runtime-cli.ts).  Ages are abstracted to the sets of jobs and *)
(* orphans that are past their retention.                                  *)
(***************************************************************************)
EXTENDS RuntimeQueue

CONSTANT NoRaw   \* "no Raw archive in the bucket"

\* Payload archives named by a status or by the committed pointer, bases included.
ReferencedArchives(status, pointer) ==
    ObjectsOf(pointer)
      \cup UNION {ObjectsOf(status[j].staged) : j \in {k \in Jobs : status[k] # NoStatus}}

OrphanArchives(archives, status, pointer) == archives \ ReferencedArchives(status, pointer)

OrphanRaws(raw, status) == {j \in Jobs : raw[j] # NoRaw /\ status[j] = NoStatus}

\* Mutant: the payloads of the committed generation are not protected.
PointerUnprotected(expired, status, pointer) ==
    {status[j].staged.object : j \in StagedJobs(status, expired)}

\* Staged archives of expired jobs, unless the committed generation still needs them.
ExpiredArchives(expired, status, pointer) ==
    {status[j].staged.object : j \in StagedJobs(status, expired)} \ ObjectsOf(pointer)

=============================================================================
