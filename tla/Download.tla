------------------------------ MODULE Download ------------------------------
(***************************************************************************)
(* Fetching a checkpoint and deciding that it may be converted:            *)
(*   download_hf_metadata_only.py         the small files, weights refused  *)
(*   download_hf_safetensor_shards.py     the weight files, resumable       *)
(*   check_deepseek_v4_flash_readiness.py, plan_deepseek_v4_flash_inventory *)
(*   estimate_deepseek_v4_safetensors_bytes and                             *)
(*   deepseek_v4_converter_dry_run        the gates before a conversion     *)
(* The file server may not know a file's size, may ignore a Range header,  *)
(* and may close a connection early; the process may die anywhere.         *)
(*                                                                         *)
(* A file on the disk is [len, good]: its units, and whether they are the  *)
(* leading units of the remote file. A length of NoFile says there is none.*)
(***************************************************************************)
EXTENDS Integers, Sequences, FiniteSets, SequencesExt, FiniteSetsExt, Functions

CONSTANTS
    Shards,           \* the weight files the index declares, sorted
    ShardUnits,       \* length of each
    Repositories,     \* [entries, roles, sized, ranges, disk]: what the server
                      \* lists, the tensor roles of the index, how it answers,
                      \* and the size of the local disk
    RequiredMetadata, \* required_metadata_paths of the contract
    MaxFileUnits, MaxTotalUnits,  \* --max-file-bytes, --max-total-bytes
    MinFree,          \* --min-free-after-gb
    ShardLimits,      \* the values of --limit considered; 0 means all
    MaxFaults         \* bound: early closes, failed requests and dead runs

ASSUME DownloadAssumption ==
    /\ Shards \in Seq(Range(Shards)) /\ IsInjective(Shards)
    /\ ShardUnits \in Nat \ {0} /\ MaxFaults \in Nat /\ ShardLimits \subseteq Nat
    /\ \A r \in Repositories : r.sized \in BOOLEAN /\ r.ranges \in BOOLEAN

VARIABLES
    dlRepo,     \* the repository, the disk and the server
    dlProc,     \* the shard downloader, and how many faults there were
    dlFile,     \* the weight files under their final names
    dlPart,     \* their .part files
    dlMeta,     \* the metadata files that are present
    dlReport    \* the last reports of the tools

dlDisk == <<dlFile, dlPart, dlMeta, dlReport>>
dlVars == <<dlRepo, dlProc, dlDisk>>

NoFile == [len |-> -1, good |-> TRUE]
NoSize == -1
Resting == [pc |-> "rest", todo |-> {}, selected |-> 0, done |-> 0, errors |-> 0,
            size |-> NoSize, got |-> 0, left |-> 0, aligned |-> TRUE, all |-> TRUE,
            faults |-> 0]
NoReports == [metadata |-> "none", shards |-> "none", inventory |-> "none",
              missing |-> {}, dryRun |-> "none"]

DownloadInit ==
    /\ dlRepo \in Repositories
    /\ dlProc = Resting
    /\ dlFile = [s \in Range(Shards) |-> NoFile]
    /\ dlPart = [s \in Range(Shards) |-> NoFile]
    /\ dlMeta = {}
    /\ dlReport = NoReports

DlAt(pc) == dlProc.pc = pc
Shard == Shards[Min(dlProc.todo)]
Bytes(f) == IF f.len > 0 THEN f.len ELSE 0
IsPresent(s) == dlFile[s].len > 0
IndexPresent == "model.safetensors.index.json" \in dlMeta

---------------------------------------------------------------------------
(* download_hf_metadata_only.py *)

\* The listed files that are metadata: weights and archives are refused whatever
\* the allowed patterns say, large files are skipped without an error.
metadata_selected ==
    {e \in dlRepo.entries : e.kind = "metadata" /\ e.size <= MaxFileUnits}

DownloadMetadata ==
    /\ DlAt("rest")
    /\ LET SizeOf(e, acc) == e.size + acc
       IN  FoldSet(SizeOf, 0, metadata_selected) <= MaxTotalUnits
    /\ \E got \in SUBSET metadata_selected :
              /\ got # metadata_selected => dlProc.faults < MaxFaults
              /\ dlProc' = [dlProc EXCEPT
                    !.faults = IF got = metadata_selected THEN @ ELSE @ + 1]
              /\ dlMeta' = dlMeta \cup {e.path : e \in got}
              /\ dlReport' = [dlReport EXCEPT !.metadata =
                    IF got # {} /\ got = metadata_selected THEN "ready" ELSE "blocked_errors"]
    /\ UNCHANGED <<dlRepo, dlFile, dlPart>>

---------------------------------------------------------------------------
(* download_hf_safetensor_shards.py *)

MissingUntouched ==   \* mutant: a file with a .part counts as present
    {i \in DOMAIN Shards : ~IsPresent(Shards[i]) /\ dlPart[Shards[i]] = NoFile}

\* By their positions in the list, as in all that follows.
Missing == {i \in DOMAIN Shards : ~IsPresent(Shards[i])}

Feasible ==
    LET Add(s, acc) == acc + Bytes(dlFile[s])
        AddParts(s, acc) == acc + Bytes(dlPart[s])
        present == FoldSeq(Add, 0, Shards)
        free == dlRepo.disk - present - FoldSeq(AddParts, 0, Shards)
        remaining == Max({0, Len(Shards) * ShardUnits - present})
    IN  free - remaining >= MinFree

\* main up to the loop: a dry run only says whether there is room.
StartDownload ==
    /\ DlAt("rest") /\ IndexPresent
    /\ \E execute \in BOOLEAN, limit \in ShardLimits :
          LET Before(i) == {k \in Missing : k < i}
              selected == {i \in Missing : limit > 0 => Cardinality(Before(i)) < limit}
          IN  IF ~Feasible
              THEN /\ dlReport' = [dlReport EXCEPT !.shards = "blocked_low_disk"]
                   /\ UNCHANGED dlProc
              ELSE IF ~execute
              THEN /\ dlReport' = [dlReport EXCEPT !.shards = "dry_run_ready"]
                   /\ UNCHANGED dlProc
              ELSE /\ dlReport' = [dlReport EXCEPT !.shards = "running"]
                   /\ dlProc' = [Resting EXCEPT !.pc = "probe", !.todo = selected,
                                                !.selected = Cardinality(selected), !.all = (limit = 0),
                                                !.faults = dlProc.faults]
    /\ UNCHANGED <<dlRepo, dlFile, dlPart, dlMeta>>

\* remote_size
ProbeSize ==
    /\ DlAt("probe") /\ dlProc.todo # {}
    /\ dlProc' = [dlProc EXCEPT !.pc = "open",
                                !.size = IF dlRepo.sized THEN ShardUnits ELSE NoSize]
    /\ UNCHANGED <<dlRepo, dlDisk>>

\* download_one opens the body behind what the .part file already holds. A server
\* that knows ranges refuses one that starts at the end of the file; a server that
\* does not sends the whole file, and it is appended all the same. (The test for a
\* file that is already complete cannot hold for a file selected as missing.)
OpenBody ==
    /\ DlAt("open")
    /\ LET start == Bytes(dlPart[Shard])
           ranged == dlRepo.ranges /\ start > 0
       IN  /\ ~(ranged /\ start >= ShardUnits)
           /\ dlProc' = [dlProc EXCEPT !.pc = "body", !.got = start,
                            !.left = IF ranged THEN ShardUnits - start ELSE ShardUnits,
                            !.aligned = ranged \/ start = 0]
           /\ dlPart' = [dlPart EXCEPT ![Shard] = IF start = 0 THEN [len |-> 0, good |-> TRUE] ELSE @]
    /\ UNCHANGED <<dlRepo, dlFile, dlMeta, dlReport>>

RangeRefused ==
    /\ DlAt("open") /\ dlRepo.ranges /\ Bytes(dlPart[Shard]) >= ShardUnits
    /\ dlProc' = [dlProc EXCEPT !.pc = "end", !.errors = 1]
    /\ UNCHANGED <<dlRepo, dlDisk>>

ReadChunk ==
    /\ DlAt("body") /\ dlProc.left > 0
    /\ dlProc' = [dlProc EXCEPT !.left = @ - 1, !.got = @ + 1]
    /\ dlPart' = [dlPart EXCEPT ![Shard] = [len |-> @.len + 1, good |-> @.good /\ dlProc.aligned]]
    /\ UNCHANGED <<dlRepo, dlFile, dlMeta, dlReport>>

EndBodyTrusting ==   \* mutant: the length is not compared
    /\ DlAt("body")
    /\ dlProc.left > 0 => dlProc.faults < MaxFaults
    /\ dlProc' = [dlProc EXCEPT !.pc = "replace",
                     !.faults = @ + (IF dlProc.left > 0 THEN 1 ELSE 0)]
    /\ UNCHANGED <<dlRepo, dlDisk>>

\* An empty read ends the body, at its end or because the connection closed. A
\* length that is known and not met is an error and leaves the .part file.
EndBody ==
    /\ DlAt("body")
    /\ dlProc.left > 0 => dlProc.faults < MaxFaults
    /\ LET faults == dlProc.faults + (IF dlProc.left > 0 THEN 1 ELSE 0)
           complete == dlProc.size = NoSize \/ dlProc.got = dlProc.size
       IN  dlProc' = IF complete THEN [dlProc EXCEPT !.pc = "replace", !.faults = faults]
                     ELSE [dlProc EXCEPT !.pc = "end", !.errors = 1, !.faults = faults]
    /\ UNCHANGED <<dlRepo, dlDisk>>

ReplacePart ==
    /\ DlAt("replace")
    /\ dlFile' = [dlFile EXCEPT ![Shard] = dlPart[Shard]]
    /\ dlPart' = [dlPart EXCEPT ![Shard] = NoFile]
    /\ dlProc' = [dlProc EXCEPT !.pc = "probe", !.todo = @ \ {Min(@)}, !.done = @ + 1]
    /\ UNCHANGED <<dlRepo, dlMeta, dlReport>>

download_one == OpenBody \/ RangeRefused \/ ReadChunk \/ EndBody \/ ReplacePart

\* The first error ends the loop. ("ready_limited" is "ready" in a report of a run
\* with --limit.)
FinishDownload ==
    /\ DlAt("end") \/ (DlAt("probe") /\ dlProc.todo = {})
    /\ dlReport' = [dlReport EXCEPT !.shards =
          IF dlProc.errors > 0 \/ dlProc.done # dlProc.selected THEN "partial_or_blocked"
          ELSE IF dlProc.all THEN "ready" ELSE "ready_limited"]
    /\ dlProc' = [Resting EXCEPT !.faults = dlProc.faults]
    /\ UNCHANGED <<dlRepo, dlFile, dlPart, dlMeta>>

\* A failed request, which the loop reports, or the end of the process.
DownloadFails ==
    /\ ~DlAt("rest") /\ dlProc.faults < MaxFaults
    /\ \/ /\ dlProc.pc \in {"probe", "open", "body"} /\ dlProc.todo # {}
          /\ dlProc' = [dlProc EXCEPT !.pc = "end", !.errors = 1, !.faults = @ + 1]
       \/ dlProc' = [Resting EXCEPT !.faults = dlProc.faults + 1]
    /\ UNCHANGED <<dlRepo, dlDisk>>

download_shards == StartDownload \/ ProbeSize \/ download_one \/ FinishDownload

---------------------------------------------------------------------------
(* The gates *)

\* collect_shards looks at the names that end in .safetensors, whatever they hold;
\* the first of them says how many there should be.
PresentNames == {s \in Range(Shards) : dlFile[s].len >= 0}

\* compute_status of the readiness check; the contract is whole.
compute_status ==
    IF ~(RequiredMetadata \subseteq dlMeta) THEN "blocked_missing_metadata"
    ELSE IF Cardinality(PresentNames) < Len(Shards) THEN "blocked_missing_safetensors"
    ELSE IF IndexPresent /\ ~(Range(Shards) \subseteq PresentNames)
    THEN "blocked_missing_declared_shards"
    ELSE "ready_for_converter_dry_run"

\* main of the inventory: without --metadata-only missing files block, then tensors
\* whose role is not known.
inventory_status(metadataOnly) ==
    IF ~IndexPresent THEN "blocked_missing_index"
    ELSE IF Range(Shards) \ PresentNames # {} /\ ~metadataOnly THEN "blocked_missing_safetensors"
    ELSE IF "unknown" \in dlRepo.roles THEN "blocked_unknown_tensor_roles"
    ELSE IF metadataOnly THEN "ready_for_metadata_converter_dry_run"
    ELSE "ready_for_converter_dry_run"

\* The byte estimate reads the header of every file, in its first unit, and compares
\* where the last tensor ends with the size of the file. It does not see the content.
estimate_status ==
    IF Range(Shards) \ PresentNames # {} THEN "blocked_missing_safetensors"
    ELSE IF \E s \in Range(Shards) : dlFile[s].len = 0 THEN "raises"
    ELSE IF \E s \in Range(Shards) : dlFile[s].len # ShardUnits THEN "blocked_header_mismatch"
    ELSE IF "unknown" \in dlRepo.roles THEN "blocked_unknown_tensor_roles"
    ELSE "ready"

PlanInventory ==
    /\ DlAt("rest")
    /\ \E metadataOnly \in BOOLEAN :
          dlReport' = [dlReport EXCEPT !.inventory = inventory_status(metadataOnly),
                                       !.missing = Range(Shards) \ PresentNames]
    /\ UNCHANGED <<dlRepo, dlProc, dlFile, dlPart, dlMeta>>

\* The roles the dry run adds up; a tensor of any other role is a mapping gap, which
\* overrides the answer about unknown roles.
MappedRoles ==
    {"expert", "shared_expert", "attention_q", "attention_kv", "attention_o", "compressor",
     "indexer", "router", "embed", "lm_head", "mtp", "norm", "attention_sink",
     "mhc_attention", "mhc_ffn", "mhc_head"}

\* The dry run reads the last inventory report, not the directory.
ConverterDryRun ==
    /\ DlAt("rest") /\ IndexPresent /\ "config.json" \in dlMeta
    /\ dlReport.inventory \notin {"none", "blocked_missing_index"}
    /\ dlReport' = [dlReport EXCEPT !.dryRun =
          IF ~(dlRepo.roles \subseteq MappedRoles) THEN "blocked_mapping_gap"
          ELSE IF dlReport.missing = {} THEN "ready_for_payload_converter_dry_run"
          ELSE "ready_for_metadata_converter_dry_run"]
    /\ UNCHANGED <<dlRepo, dlProc, dlFile, dlPart, dlMeta>>

DownloadNext ==
    \/ DownloadMetadata \/ download_shards \/ DownloadFails
    \/ PlanInventory \/ ConverterDryRun

\* The metadata tool and the downloader are started again until there is nothing
\* left to fetch, and a download that is left alone goes on.
DownloadSpec ==
    /\ DownloadInit /\ [][DownloadNext]_dlVars
    /\ WF_dlVars(ProbeSize \/ download_one \/ FinishDownload)
    /\ WF_dlVars(DownloadMetadata /\ dlMeta' # dlMeta)
    /\ WF_dlVars(StartDownload /\ dlProc'.pc # "rest")

---------------------------------------------------------------------------
(* Properties *)

Whole(s) == dlFile[s] = [len |-> ShardUnits, good |-> TRUE]

\* From a server that honours ranges: a weight file that has its final name is the
\* remote file, whatever runs were cut short before, if the server tells sizes too; and
\* if it does not, a file cut short is one the byte estimate blocks. (Without ranges two
\* bodies cut short can add up to the right length with the wrong content.)
InstalledIsWhole ==
    dlRepo.ranges =>
        /\ dlRepo.sized => \A s \in Range(Shards) : dlFile[s] = NoFile \/ Whole(s)
        /\ estimate_status = "ready" => \A s \in Range(Shards) : Whole(s)

\* The tools' verdicts chain: what one reports as ready the next one accepts. A
\* complete download that reports ready leaves nothing the readiness check misses,
\* and a dry run that lets the payload conversion start - from an inventory report
\* that may be old - starts it on files that are all there (not empty, if the server
\* tells sizes: an empty body of unknown size gets the final name too).
VerdictsChain ==
    /\ dlReport.shards = "ready"
          => compute_status \in {"ready_for_converter_dry_run", "blocked_missing_metadata"}
    /\ dlReport.dryRun = "ready_for_payload_converter_dry_run"
          => \A s \in Range(Shards) : IF dlRepo.sized THEN IsPresent(s) ELSE s \in PresentNames

\* What is downloaded is what the gates take it for.
DownloadSound == InstalledIsWhole /\ VerdictsChain

\* With room on the disk and a server that knows sizes and ranges, every weight file
\* is eventually whole, unless a run died with a .part file that is complete: the
\* next request starts at the end of the file and is refused, for ever.
DownloadCompletes ==
    (dlRepo.sized /\ dlRepo.ranges /\ dlRepo.disk >= 2 * Len(Shards) * ShardUnits + MinFree
        /\ "model.safetensors.index.json" \in {e.path : e \in metadata_selected})
    => <>(\/ \A s \in Range(Shards) : Whole(s)
          \/ \E s \in Range(Shards) : dlPart[s].len >= ShardUnits /\ DlAt("open"))
=============================================================================
