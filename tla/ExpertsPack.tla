----------------------------- MODULE ExpertsPack -----------------------------
(***************************************************************************)
(* build_experts_pack.py: the expert files are appended to one pack file,  *)
(* chunk by chunk; a chunk is flushed to the disk and one file of it is    *)
(* compared before the files of the chunk are deleted. An index of the     *)
(* pack is written last, and a run that finds one refuses to work. The     *)
(* machine may lose power between any two writes.                          *)
(*                                                                         *)
(* Experts are numbered in the order of the shard index; the pack is the   *)
(* sequence of the experts it holds.                                       *)
(***************************************************************************)
EXTENDS Integers, Sequences, FiniteSets, SequencesExt

CONSTANTS
    PackExperts,     \* number of experts
    ChunkExperts,    \* experts per chunk (--chunk-gib)
    KeepShards,      \* the values of --keep-shards considered
    MaxPackCrashes   \* bound: how often a run dies

ASSUME PackAssumption ==
    /\ PackExperts \in Nat /\ ChunkExperts \in Nat \ {0}
    /\ KeepShards \subseteq BOOLEAN
    /\ MaxPackCrashes \in Nat

VARIABLES
    pkKeep,     \* --keep-shards, the same for every run
    pkProc,     \* the process: pc, entries of the index so far, pending experts,
                \* exit status; how many runs died; whether the build was ever
                \* started over without --resume (bare)
    pkShards,   \* the expert files that exist
    pkPack,     \* the pack file, or NoPack
    pkSynced,   \* how many experts of it a power loss cannot take away
    pkIndex     \* the index: "absent", "partial", or the entries

pkDisk == <<pkShards, pkPack, pkSynced, pkIndex>>
pkVars == <<pkKeep, pkProc, pkDisk>>

NoPack == <<0>>
\* Between two runs.
Halted(status, died, bare) ==
    [pc |-> "halted", entries |-> <<>>, pending |-> <<>>, exit |-> status,
     died |-> died, bare |-> bare]

PackInit ==
    /\ pkKeep \in KeepShards
    /\ pkProc = Halted("none", 0, FALSE)
    /\ pkShards = 1 .. PackExperts
    /\ pkPack = NoPack
    /\ pkSynced = 0
    /\ pkIndex = <<"absent">>

PackAt(pc) == pkProc.pc = pc
PackGoto(pc) == pkProc' = [pkProc EXCEPT !.pc = pc]
PackExit(status) == pkProc' = Halted(status, pkProc.died, pkProc.bare)

\* The experts whose files are gone, up to the first file that still exists.
LeadingGone == {i \in 1 .. PackExperts : \A j \in 1 .. i : j \notin pkShards}

ResumeSkip == Cardinality(LeadingGone)

Numbers(n) == [i \in 1 .. n |-> i]

\* "index already exists - refusing to overwrite"
RefuseIndexed ==
    /\ PackAt("halted") /\ pkProc.exit # "done"
    /\ pkIndex # <<"absent">>
    /\ PackExit("refused")
    /\ UNCHANGED <<pkKeep, pkDisk>>

CanResume ==
    /\ PackAt("halted") /\ pkProc.exit # "done"
    /\ pkIndex = <<"absent">>
    /\ pkPack # NoPack

\* "pack smaller than verified prefix - aborting"
RefuseShort ==
    /\ CanResume
    /\ Len(pkPack) < ResumeSkip
    /\ PackExit("short")
    /\ UNCHANGED <<pkKeep, pkDisk>>

ResumeForgetful ==   \* mutant: the entries of the deleted files are not rebuilt
    /\ CanResume
    /\ Len(pkPack) >= ResumeSkip
    /\ pkProc' = [pkProc EXCEPT !.pc = "pack", !.exit = "none"]
    /\ UNCHANGED <<pkKeep, pkDisk>>

\* --resume: the entries of the deleted files are rebuilt and the rest of the
\* pack is cut off. With nothing deleted the pack is then opened as a new one.
ResumePack ==
    /\ CanResume
    /\ Len(pkPack) >= ResumeSkip
    /\ pkProc' = [pkProc EXCEPT !.pc = "pack", !.exit = "none",
                                !.entries = Numbers(ResumeSkip)]
    /\ pkPack' = SubSeq(pkPack, 1, ResumeSkip)
    /\ pkSynced' = IF ResumeSkip > pkSynced THEN pkSynced ELSE ResumeSkip
    /\ UNCHANGED <<pkKeep, pkShards, pkIndex>>

\* Without --resume, or without a pack to resume: the pack is truncated.
FreshPack ==
    /\ PackAt("halted") /\ pkProc.exit # "done"
    /\ pkIndex = <<"absent">>
    /\ pkProc' = [pkProc EXCEPT !.pc = "pack", !.exit = "none", !.bare = @ \/ pkPack # NoPack]
    /\ pkPack' = <<>>
    /\ pkSynced' = 0
    /\ UNCHANGED <<pkKeep, pkShards, pkIndex>>

NextExpert == Len(pkProc.entries) + 1
ChunkFull == Len(pkProc.pending) >= ChunkExperts

\* A file that does not exist ends the run; nothing of the pack is lost by it.
ShardMissing ==
    /\ PackAt("pack") /\ NextExpert \in (1 .. PackExperts) \ pkShards
    /\ ~ChunkFull
    /\ PackExit("missing")
    /\ UNCHANGED <<pkKeep, pkDisk>>

AppendShard ==
    /\ PackAt("pack") /\ NextExpert \in pkShards
    /\ ~ChunkFull
    /\ pkPack' = Append(pkPack, NextExpert)
    /\ pkProc' = [pkProc EXCEPT !.entries = Append(@, NextExpert),
                                !.pending = Append(@, NextExpert)]
    /\ UNCHANGED <<pkKeep, pkShards, pkSynced, pkIndex>>

VerifyOnly ==   \* mutant: the pack is not synced
    /\ PackAt("pack") /\ pkProc.pending # <<>>
    /\ ChunkFull \/ NextExpert > PackExperts
    /\ pkProc' = IF pkKeep THEN [pkProc EXCEPT !.pending = <<>>] ELSE [pkProc EXCEPT !.pc = "delete"]
    /\ UNCHANGED <<pkKeep, pkDisk>>

\* flush_chunk, when the chunk is full or no expert is left: the pack is synced
\* and one randomly chosen file is compared with its place in the pack ...
SyncAndVerify ==
    /\ PackAt("pack") /\ pkProc.pending # <<>>
    /\ ChunkFull \/ NextExpert > PackExperts
    /\ \E i \in Range(pkProc.pending) :
          IF pkPack[i] = i
          THEN pkProc' = IF pkKeep THEN [pkProc EXCEPT !.pending = <<>>]
                                       ELSE [pkProc EXCEPT !.pc = "delete"]
          ELSE PackExit("mismatch")
    /\ pkSynced' = Len(pkPack)
    /\ UNCHANGED <<pkKeep, pkShards, pkPack, pkIndex>>

\* ... and then the files are deleted, in order.
DeleteShard ==
    /\ PackAt("delete")
    /\ pkShards' = pkShards \ {Head(pkProc.pending)}
    /\ pkProc' = [pkProc EXCEPT !.pending = Tail(@),
                                !.pc = IF Tail(pkProc.pending) = <<>> THEN "pack" ELSE "delete"]
    /\ UNCHANGED <<pkKeep, pkPack, pkSynced, pkIndex>>

flush_chunk == SyncAndVerify \/ DeleteShard

\* The index is created under its final name and then filled.
OpenPackIndex ==
    /\ PackAt("pack") /\ NextExpert > PackExperts /\ pkProc.pending = <<>>
    /\ PackGoto("index")
    /\ pkIndex' = <<"partial">>
    /\ UNCHANGED <<pkKeep, pkShards, pkPack, pkSynced>>

WritePackIndex ==
    /\ PackAt("index")
    /\ PackExit("done")
    /\ pkIndex' = pkProc.entries
    /\ UNCHANGED <<pkKeep, pkShards, pkPack, pkSynced>>

\* Power loss: of the part of the pack that was not synced any prefix is left.
PackDies ==
    /\ ~PackAt("halted") /\ pkProc.died < MaxPackCrashes
    /\ pkProc' = Halted("died", pkProc.died + 1, pkProc.bare)
    /\ \E n \in pkSynced .. Len(pkPack) : pkPack' = SubSeq(pkPack, 1, n)
    /\ UNCHANGED <<pkKeep, pkShards, pkSynced, pkIndex>>

build_experts_pack ==
    \/ RefuseIndexed \/ RefuseShort \/ ResumePack \/ FreshPack
    \/ ShardMissing \/ AppendShard \/ flush_chunk
    \/ OpenPackIndex \/ WritePackIndex

PackNext == build_experts_pack \/ PackDies

\* The build is started again until it is done, and a run that is left alone goes on.
PackSpec == PackInit /\ [][PackNext]_pkVars /\ WF_pkVars(build_experts_pack)

---------------------------------------------------------------------------
(* Properties *)

\* Every expert's bytes exist somewhere a power loss cannot reach: in its own file,
\* or in the synced part of the pack at the place the engine will look. This is
\* what the order sync, verify, delete and the prefix rule of --resume are for; a
\* rerun without --resume truncates the only copy of the experts already deleted.
NoExpertLost ==
    ~pkProc.bare =>
        \A i \in 1 .. PackExperts :
            i \in pkShards \/ (i <= pkSynced /\ pkPack[i] = i)

\* An index that is whole describes the whole pack: the entry the engine reads
\* expert i with has i's bytes behind it, whatever runs died before it was written.
PackIndexExact ==
    pkIndex \notin {<<"absent">>, <<"partial">>} =>
        pkIndex = Numbers(PackExperts) /\ pkPack = pkIndex

\* No expert is lost on the way into the pack, and none is found in the wrong place.
PackSound == NoExpertLost /\ PackIndexExact

\* However runs die, repeating the build with --resume packs every expert and gets
\* as far as the index: no leftover of a dead run makes later runs give up before it.
PackReachesIndex == <>(pkProc.bare \/ pkIndex # <<"absent">>)
=============================================================================
