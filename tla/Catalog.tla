------------------------------- MODULE Catalog -------------------------------
(***************************************************************************)
(* Several jobs extend the expert catalog (the shard index) of one model:  *)
(*   materialize_deepseek_v4_expert_shards.py  converts more experts       *)
(*   reuse_deepseek_v4_expert_catalog.py       links another model's files *)
(* Both read the index, work, and write the index back in place; a lock    *)
(* file next to it keeps them apart. Dry runs take no lock.                *)
(*                                                                         *)
(* A target file is "absent", "partial", "whole", or "linked": then it is  *)
(* the source model's file, and writing one writes the other.              *)
(***************************************************************************)
EXTENDS Integers, FiniteSets

CONSTANTS
    Jobs,           \* names of the jobs
    JobKinds,       \* [tool, execute, overwrite, copy, links, ids]: what a job may be;
                    \* links: the file system can link between the two models
    SourceTensors,  \* experts the checkpoint has tensors of
    SourceModel,    \* experts of the other model's catalog
    MaxJobDeaths    \* bound: how many jobs die

ASSUME CatalogAssumption ==
    /\ JobKinds \subseteq [tool : {"materialize", "reuse"}, execute : BOOLEAN,
                           overwrite : BOOLEAN, copy : BOOLEAN, links : BOOLEAN,
                           ids : SUBSET Nat]
    /\ SourceTensors \subseteq Nat /\ SourceModel \subseteq Nat

VARIABLES
    ctJob,      \* each job: its kind, pc, catalog in memory, experts to do, exit
    ctLock,     \* whether the lock file exists
    ctFile,     \* the files of the target model
    ctSource,   \* the files of the source model: whole or partial
    ctIndex,    \* the target's shard index: whole or partial, and its experts
    ctReported, \* the experts jobs have reported as ready
    ctDryRelease  \* whether a dry run has removed the lock of another job

ctVars == <<ctJob, ctLock, ctFile, ctSource, ctIndex, ctReported, ctDryRelease>>

Experts == SourceTensors \cup SourceModel

CatalogInit ==
    /\ ctJob \in [Jobs -> {[kind |-> k, pc |-> "start", memory |-> {}, todo |-> {}, exit |-> "none"]
                             : k \in JobKinds}]
    /\ ctLock = FALSE
    /\ ctFile = [e \in Experts |-> "absent"]
    /\ ctSource = [e \in SourceModel |-> "whole"]
    /\ ctIndex = [state |-> "whole", experts |-> {}]
    /\ ctReported = {}
    /\ ctDryRelease = FALSE

Kind(j) == ctJob[j].kind
JobAt(j, pc) == ctJob[j].pc = pc
JobGoto(j, pc) == ctJob' = [ctJob EXCEPT ![j].pc = pc]
Holds(j) == Kind(j).execute /\ ~(ctJob[j].pc \in {"start", "end", "dead"})

AcquireAnyway(j) ==   \* mutant: the lock file is not created exclusively
    /\ JobAt(j, "start") /\ Kind(j).execute
    /\ ctLock' = TRUE
    /\ JobGoto(j, "read")
    /\ UNCHANGED <<ctFile, ctSource, ctIndex, ctReported, ctDryRelease>>

\* acquire_catalog_lock creates the file exclusively ...
acquire_catalog_lock(j) ==
    /\ JobAt(j, "start") /\ Kind(j).execute /\ ~ctLock
    /\ ctLock' = TRUE
    /\ JobGoto(j, "read")
    /\ UNCHANGED <<ctFile, ctSource, ctIndex, ctReported, ctDryRelease>>

\* ... and gives up, with exit code 4 and without a release, when its time is over.
LockTimeout(j) ==
    /\ JobAt(j, "start") /\ Kind(j).execute /\ ctLock
    /\ ctJob' = [ctJob EXCEPT ![j].pc = "end", ![j].exit = "catalog_lock_exists"]
    /\ UNCHANGED <<ctLock, ctFile, ctSource, ctIndex, ctReported, ctDryRelease>>

DryStart(j) ==
    /\ JobAt(j, "start") /\ ~Kind(j).execute
    /\ JobGoto(j, "read")
    /\ UNCHANGED <<ctLock, ctFile, ctSource, ctIndex, ctReported, ctDryRelease>>

\* The index is read, the experts to write or to link are chosen. An index that is
\* not whole does not parse, an expert without tensors blocks the job; both go
\* through the release, as does a dry run.
ReadCatalog(j) ==
    /\ JobAt(j, "read")
    /\ LET wanted == IF Kind(j).tool = "materialize" THEN Kind(j).ids ELSE SourceModel
           todo == IF Kind(j).overwrite THEN wanted ELSE wanted \ ctIndex.experts
           blocked == Kind(j).tool = "materialize" /\ ~(todo \subseteq SourceTensors)
           exit == IF ctIndex.state # "whole" THEN "error"
                   ELSE IF blocked THEN "blocked"
                   ELSE IF Kind(j).execute THEN "none" ELSE "dry_run_ready"
       IN  ctJob' = [ctJob EXCEPT ![j].pc = IF exit = "none" THEN "work" ELSE "release",
                                  ![j].exit = exit, ![j].memory = ctIndex.experts,
                                  ![j].todo = todo]
    /\ UNCHANGED <<ctLock, ctFile, ctSource, ctIndex, ctReported, ctDryRelease>>

Smallest(s) == CHOOSE x \in s : \A y \in s : x <= y
Next1(j) == Smallest(ctJob[j].todo)

\* The bytes of target file e become s; a linked file is the source's file.
SetBytes(e, s) ==
    IF ctFile[e] = "linked"
    THEN ctSource' = [ctSource EXCEPT ![e] = s] /\ UNCHANGED ctFile
    ELSE ctFile' = [ctFile EXCEPT ![e] = s] /\ UNCHANGED ctSource

DidExpert(j) ==
    ctJob' = [ctJob EXCEPT ![j].pc = "work", ![j].memory = @ \cup {Next1(j)},
                           ![j].todo = @ \ {Next1(j)}]

\* write_aligned_file opens the expert's file under its final name and fills it.
OpenMaterialized(j) ==
    /\ JobAt(j, "work") /\ ctJob[j].todo # {} /\ Kind(j).tool = "materialize"
    /\ SetBytes(Next1(j), "partial")
    /\ JobGoto(j, "fill")
    /\ UNCHANGED <<ctLock, ctIndex, ctReported, ctDryRelease>>

FillFile(j) ==
    /\ JobAt(j, "fill")
    /\ SetBytes(Next1(j), "whole")
    /\ DidExpert(j)
    /\ UNCHANGED <<ctLock, ctIndex, ctReported, ctDryRelease>>

\* reuse: a file that exists already is taken as it is ...
TakeExisting(j) ==
    /\ JobAt(j, "work") /\ ctJob[j].todo # {} /\ Kind(j).tool = "reuse"
    /\ ctFile[Next1(j)] # "absent"
    /\ DidExpert(j)
    /\ UNCHANGED <<ctLock, ctFile, ctSource, ctIndex, ctReported, ctDryRelease>>

\* ... otherwise it is linked, or copied if that fails and copying is allowed.
LinkFile(j) ==
    /\ JobAt(j, "work") /\ ctJob[j].todo # {} /\ Kind(j).tool = "reuse"
    /\ ctFile[Next1(j)] = "absent" /\ Kind(j).links
    /\ ctFile' = [ctFile EXCEPT ![Next1(j)] = "linked"]
    /\ DidExpert(j)
    /\ UNCHANGED <<ctLock, ctSource, ctIndex, ctReported, ctDryRelease>>

CannotLink(j) ==
    /\ JobAt(j, "work") /\ ctJob[j].todo # {} /\ Kind(j).tool = "reuse"
    /\ ctFile[Next1(j)] = "absent" /\ ~Kind(j).links
    /\ IF Kind(j).copy
       THEN /\ ctFile' = [ctFile EXCEPT ![Next1(j)] = "partial"]
            /\ JobGoto(j, "fill")
       ELSE /\ ctJob' = [ctJob EXCEPT ![j].pc = "release", ![j].exit = "error"]
            /\ UNCHANGED ctFile
    /\ UNCHANGED <<ctLock, ctSource, ctIndex, ctReported, ctDryRelease>>

\* write_json truncates the index and writes it again, from memory.
OpenCatalog(j) ==
    /\ JobAt(j, "work") /\ ctJob[j].todo = {}
    /\ ctIndex' = [state |-> "partial", experts |-> {}]
    /\ JobGoto(j, "index")
    /\ UNCHANGED <<ctLock, ctFile, ctSource, ctReported, ctDryRelease>>

WriteCatalog(j) ==
    /\ JobAt(j, "index")
    /\ ctIndex' = [state |-> "whole", experts |-> ctJob[j].memory]
    /\ ctReported' = ctReported \cup ctJob[j].memory
    /\ ctJob' = [ctJob EXCEPT ![j].pc = "release", ![j].exit = "ready"]
    /\ UNCHANGED <<ctLock, ctFile, ctSource, ctDryRelease>>

\* release_catalog_lock, in the finally clause: it removes the lock file whether or
\* not this job created it.
release_catalog_lock(j) ==
    /\ JobAt(j, "release")
    /\ ctLock' = FALSE
    /\ JobGoto(j, "end")
    /\ ctDryRelease' = (ctDryRelease \/ (ctLock /\ ~Kind(j).execute))
    /\ UNCHANGED <<ctFile, ctSource, ctIndex, ctReported>>

Dead == {j \in Jobs : JobAt(j, "dead")}

JobDies(j) ==
    /\ ctJob[j].pc \notin {"start", "end", "dead"} /\ Cardinality(Dead) < MaxJobDeaths
    /\ JobGoto(j, "dead")
    /\ UNCHANGED <<ctLock, ctFile, ctSource, ctIndex, ctReported, ctDryRelease>>

\* The operator removes the lock a dead job left, when no job that uses it runs.
RemoveStaleLock ==
    /\ ctLock /\ Dead # {} /\ ~\E j \in Jobs : Holds(j)
    /\ ctLock' = FALSE
    /\ UNCHANGED <<ctJob, ctFile, ctSource, ctIndex, ctReported, ctDryRelease>>

materialize(j) ==
    /\ Kind(j).tool = "materialize"
    /\ \/ acquire_catalog_lock(j) \/ LockTimeout(j) \/ DryStart(j) \/ ReadCatalog(j)
       \/ OpenMaterialized(j) \/ FillFile(j) \/ OpenCatalog(j) \/ WriteCatalog(j)
       \/ release_catalog_lock(j)

reuse(j) ==
    /\ Kind(j).tool = "reuse"
    /\ \/ acquire_catalog_lock(j) \/ LockTimeout(j) \/ DryStart(j) \/ ReadCatalog(j)
       \/ TakeExisting(j) \/ LinkFile(j) \/ CannotLink(j) \/ FillFile(j)
       \/ OpenCatalog(j) \/ WriteCatalog(j) \/ release_catalog_lock(j)

CatalogNext ==
    \/ \E j \in Jobs : materialize(j) \/ reuse(j) \/ JobDies(j)
    \/ RemoveStaleLock

CatalogSpec == CatalogInit /\ [][CatalogNext]_ctVars

---------------------------------------------------------------------------
(* Properties *)

FileBytes(e) == IF ctFile[e] = "linked" THEN ctSource[e] ELSE ctFile[e]

\* The lock makes the read-work-write of the jobs atomic: an expert that a job has
\* reported as ready is in the index for as long as the index is whole.
NoLostRecord == ctIndex.state = "whole" => ctReported \subseteq ctIndex.experts

Rewriting(e) == \E j \in Jobs : JobAt(j, "fill") /\ Next1(j) = e

\* What the lock does guarantee, as long as no dry run has removed it under another
\* job: no record is lost; and, when no job died, the file of every expert in the
\* index is whole, unless a job with --overwrite is writing it.
CatalogSound ==
    ~ctDryRelease =>
        /\ NoLostRecord
        /\ Dead = {} /\ ctIndex.state = "whole" =>
              \A e \in ctIndex.experts : FileBytes(e) = "whole" \/ Rewriting(e)
=============================================================================
