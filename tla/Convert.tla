------------------------------- MODULE Convert -------------------------------
(***************************************************************************)
(* The converters of a downloaded checkpoint: convert_safetensors.py       *)
(* writing one MODEL.bin ("single") or a core and one file per expert      *)
(* ("sharded"), and stream_convert_deepseek_v4.py ("raw"), which copies    *)
(* the tensors without requantising them. Every step is one durable write  *)
(* or one decision; the process may die between any two of them, and the   *)
(* same command is then run again over what is left on the disk.           *)
(*                                                                         *)
(* A block is [layer, expert, offset, disk, tensors]; the bytes are those  *)
(* of ConvertPlan!BlockLayout. A file that is being written is "partial".  *)
(***************************************************************************)
EXTENDS ConvertPlan

CONSTANTS
    ConvertCommands,   \* the command lines considered
    MinFreeAfter,      \* --min-free-after-gb
    MaxConvertRuns     \* bound: how often the command is started

\* Sizes are byte counts. The names of a checkpoint's tensors are distinct, their
\* numbers are not negative; parse_layer_range takes 0 <= START < END only. A layer count
\* of 0 is left out.
ASSUME ConvertAssumption ==
    /\ AlignBytes \in Nat \ {0}
    /\ {EngineHeaderBytes, ManifestHeaderBytes, LayerDescBytes, ExpertDescBytes,
        BlockHeaderBytes, RecordBytes, NameBytes} \subseteq Nat
    /\ \A c \in ConvertCommands :
          /\ c.tool \in {"single", "sharded", "raw"}
          /\ IsFiniteSet(c.source)
          /\ \A t \in c.source :
                /\ t.id \in Nat /\ t.data \in Nat /\ t.rank \in Nat
                /\ t.layer \in Nat \cup {NoId} /\ t.expert \in Nat \cup {NoId}
          /\ \A t, u \in c.source : t.id = u.id => t = u
          /\ c.layersArg \in (Nat \ {0}) \cup (IF c.tool = "raw" THEN {} ELSE {NoId})
          /\ c.expertsArg \in Nat \cup {NoId}
          /\ \/ c.range = NoRange
             \/ c.range \in Nat \X Nat /\ c.range[1] < c.range[2]

VARIABLES
    cvCmd,    \* the command line, the same for every run
    cvProc,   \* the running converter
    cvDisk    \* what survives it

cvVars == <<cvCmd, cvProc, cvDisk>>

---------------------------------------------------------------------------
(* What the command line selects *)

IsRaw(c) == c.tool = "raw"

Arch(c) == IF IsRaw(c) THEN <<c.layersArg, NoId>>
           ELSE infer_arch_config(c.source, c.layersArg, c.expertsArg)

Layers(c) == IF Arch(c) = <<>> THEN <<>> ELSE layers_for_range(Arch(c)[1], c.range)

Groups(c) == IF IsRaw(c)
             THEN group_items(c.source, Range(Layers(c)), c.pickExperts, c.globalPolicy)
             ELSE build_conversion_plan(c.source)

\* The separate block of global tensors, written by the raw converter only.
GlobalRefs(c) == IF IsRaw(c) THEN ByName(Groups(c).global) ELSE <<>>

DenseRefs(c, l) ==
    LET own == ByName({t \in Groups(c).dense : t.layer = l})
    IN  IF ~IsRaw(c) /\ l = 0 /\ c.packGlobal
        THEN ByName(Groups(c).global) \o own ELSE own

ExpertRefs(c, l, e) ==
    ByName({t \in Groups(c).experts : t.layer = l /\ t.expert = e})

\* The raw converter takes the ids that have tensors, the others all ids below
\* the number of experts per layer.
ExpertIds(c, l) ==
    Increasing(IF IsRaw(c) THEN {t.expert : t \in {u \in Groups(c).experts : u.layer = l}}
               ELSE 0 .. Arch(c)[2] - 1)

ExpertTotal(c) ==
    LET NumExperts(l) == Len(ExpertIds(c, l)) IN SumOver(NumExperts, Layers(c))

BlockBytes(refs) == align_up(BlockLayout(refs).bytes)

\* plan_payload: the disk space of all blocks, from the estimate of each.
Estimate(refs) == align_up(estimate_block_payload(refs))

LayerPayload(c, l) ==
    LET OfExpert(e) == Estimate(ExpertRefs(c, l, e))
    IN  Estimate(DenseRefs(c, l)) + SumOver(OfExpert, ExpertIds(c, l))

plan_payload(c) ==
    LET OfLayer(l) == LayerPayload(c, l)
    IN  SumOver(OfLayer, Layers(c))
            + (IF GlobalRefs(c) = <<>> THEN 0 ELSE Estimate(GlobalRefs(c)))

EmptyDense(c) == \E l \in Range(Layers(c)) : DenseRefs(c, l) = <<>>

\* preflight_disk and the two vetoes of main(): low disk, then empty layers.
PlanStatus(c) ==
    IF EmptyDense(c) THEN "blocked_empty_dense_layers"
    ELSE IF c.free - plan_payload(c) < MinFreeAfter THEN "blocked_low_disk"
    ELSE "dry_run_ready"

---------------------------------------------------------------------------
Idle == [pc |-> "idle", run |-> 0, li |-> 0, todo |-> <<>>, pos |-> 0,
         layers |-> <<>>, experts |-> <<>>, exit |-> "none"]

NoCore == [state |-> "absent", blocks |-> <<>>, size |-> 0, manifest |-> <<>>]

ConvertInit ==
    /\ cvCmd \in ConvertCommands
    /\ cvProc = Idle
    /\ cvDisk = [core |-> NoCore, files |-> [x \in {} |-> "whole"], debug |-> FALSE,
                 index |-> [state |-> "absent", experts |-> <<>>],
                 report |-> "none", progress |-> "none"]

At(pc) == cvProc.pc = pc

Goto(pc) == cvProc' = [cvProc EXCEPT !.pc = pc]

Exit(status) == cvProc' = [Idle EXCEPT !.run = cvProc.run, !.exit = status]

Layer == Layers(cvCmd)[cvProc.li]

NextBlockUnaligned(l, e, refs) ==   \* mutant: the block follows the last one directly
    [layer |-> l, expert |-> e, offset |-> cvProc.pos,
     disk |-> BlockBytes(refs), tensors |-> Range(refs)]

\* copy_aligned_block: the next block of the core starts at the next multiple
\* of the alignment and is padded to one.
NextBlock(l, e, refs) ==
    [layer |-> l, expert |-> e, offset |-> align_up(cvProc.pos),
     disk |-> BlockBytes(refs), tensors |-> Range(refs)]

BlockEnd(block) == block.offset + block.disk

WriteBlock(block) == cvDisk' = [cvDisk EXCEPT !.core.blocks = Append(@, block)]

LayerEntry(block, first, num) ==
    [layer |-> block.layer, offset |-> block.offset, disk |-> block.disk,
     first |-> first, num |-> num]

AnnouncePlan(status) ==   \* mutant: the old progress report stays
    cvDisk' = [cvDisk EXCEPT !.report = status]

\* The reports a raw conversion starts with.
Announce(status) ==
    cvDisk' = [cvDisk EXCEPT !.report = status, !.progress = "running"]

\* convert() and main(): decide what to do; the raw converter writes its plan
\* and, when nothing forbids the conversion, a fresh progress report.
StartConvert ==
    /\ At("idle") /\ cvProc.run < MaxConvertRuns
    /\ LET started == [Idle EXCEPT !.run = cvProc.run + 1, !.pc = "reserve"]
           refuse(s) == [Idle EXCEPT !.run = cvProc.run + 1, !.exit = s]
           status == PlanStatus(cvCmd)
       IN  IF Layers(cvCmd) = <<>>
           THEN cvProc' = refuse("error") /\ UNCHANGED cvDisk
           ELSE IF ~IsRaw(cvCmd)
           THEN cvProc' = started /\ UNCHANGED cvDisk
           ELSE IF status # "dry_run_ready"
           THEN /\ cvProc' = refuse("blocked")
                /\ cvDisk' = [cvDisk EXCEPT !.report = status]
           ELSE cvProc' = started /\ Announce(status)
    /\ UNCHANGED cvCmd

\* reserve_header_and_manifest: the old core is truncated, room is left for the
\* header and the manifest.
ReserveManifest ==
    /\ At("reserve")
    /\ LET reserved == Len(Layers(cvCmd)) + (IF GlobalRefs(cvCmd) = <<>> THEN 0 ELSE 1)
       IN  cvProc' = [cvProc EXCEPT
               !.pc = IF GlobalRefs(cvCmd) = <<>> THEN "dense" ELSE "global",
               !.li = 1,
               !.pos = align_up(EngineHeaderBytes)
                         + ManifestBytes(reserved, ExpertTotal(cvCmd))]
    /\ cvDisk' = [cvDisk EXCEPT !.core = [NoCore EXCEPT !.state = "partial"]]
    /\ UNCHANGED cvCmd

\* The raw converter's block of global tensors, with a layer entry of its own.
GlobalBlock ==
    /\ At("global")
    /\ LET block == NextBlock(NoId, NoId, GlobalRefs(cvCmd))
       IN  /\ WriteBlock(block)
           /\ cvProc' = [cvProc EXCEPT !.pc = "dense", !.pos = BlockEnd(block),
                                       !.layers = <<LayerEntry(block, 0, 0)>>]
    /\ UNCHANGED cvCmd

\* The dense block of a layer; a layer without one is an error.
DenseBlock ==
    /\ At("dense")
    /\ LET refs == DenseRefs(cvCmd, Layer)
           ids == ExpertIds(cvCmd, Layer)
           block == NextBlock(Layer, NoId, refs)
           entry == LayerEntry(block, Len(cvProc.experts), Len(ids))
       IN  IF refs = <<>>
           THEN Exit("error") /\ UNCHANGED cvDisk
           ELSE /\ WriteBlock(block)
                /\ cvProc' = [cvProc EXCEPT !.pc = "expert", !.pos = BlockEnd(block),
                                            !.todo = ids, !.layers = Append(@, entry)]
    /\ UNCHANGED cvCmd

\* Whether an expert's block may be written: the raw converter only meets ids
\* with tensors, the others refuse an id without, unless told otherwise.
MissingExpert ==
    /\ At("expert") /\ cvProc.todo # <<>> /\ ~IsRaw(cvCmd)
    /\ ExpertRefs(cvCmd, Layer, Head(cvProc.todo)) = <<>> /\ ~cvCmd.allowMissing
    /\ Exit("error")
    /\ UNCHANGED <<cvCmd, cvDisk>>

CanWriteExpert ==
    /\ At("expert") /\ cvProc.todo # <<>>
    /\ \/ IsRaw(cvCmd) \/ cvCmd.allowMissing
       \/ ExpertRefs(cvCmd, Layer, Head(cvProc.todo)) # <<>>

ExpertPlan(offset, disk) ==
    [layer |-> Layer, expert |-> Head(cvProc.todo), offset |-> offset, disk |-> disk]

\* An expert inside MODEL.bin.
ExpertInCore ==
    /\ CanWriteExpert
    /\ LET e == Head(cvProc.todo)
           block == NextBlock(Layer, e, ExpertRefs(cvCmd, Layer, e))
       IN  /\ WriteBlock(block)
           /\ cvProc' = [cvProc EXCEPT !.pos = BlockEnd(block), !.todo = Tail(@),
                            !.experts = Append(@, ExpertPlan(block.offset, block.disk))]
    /\ UNCHANGED cvCmd

\* write_aligned_file: an expert in a file of its own, opened under its final
\* name and filled ...
OpenExpertFile ==
    /\ CanWriteExpert
    /\ Goto("fill")
    /\ LET opened == <<Layer, Head(cvProc.todo)>>
       IN  cvDisk' = [cvDisk EXCEPT !.files =
               [f \in DOMAIN @ \cup {opened} |-> IF f = opened THEN "partial" ELSE @[f]]]
    /\ UNCHANGED cvCmd

\* ... and entered in the lists of the manifest and of the shard index.
FillExpertFile ==
    /\ At("fill")
    /\ LET refs == ExpertRefs(cvCmd, Layer, Head(cvProc.todo))
       IN  cvProc' = [cvProc EXCEPT !.pc = "expert", !.todo = Tail(@),
                         !.experts = Append(@, ExpertPlan(0, BlockBytes(refs)))]
    /\ cvDisk' = [cvDisk EXCEPT !.files[<<Layer, Head(cvProc.todo)>>] = "whole"]
    /\ UNCHANGED cvCmd

NextLayer ==
    /\ At("expert") /\ cvProc.todo = <<>>
    /\ cvProc' = IF cvProc.li < Len(Layers(cvCmd))
                 THEN [cvProc EXCEPT !.pc = "dense", !.li = @ + 1]
                 ELSE [cvProc EXCEPT !.pc = "header"]
    /\ UNCHANGED <<cvCmd, cvDisk>>

\* The header goes to the front of the finished file, the manifest after it.
WriteHeader ==
    /\ At("header")
    /\ Goto("manifest")
    /\ cvDisk' = [cvDisk EXCEPT !.core.state = "header", !.core.size = cvProc.pos]
    /\ UNCHANGED cvCmd

WriteManifest ==
    /\ At("manifest")
    /\ Goto("validate")
    /\ cvDisk' = [cvDisk EXCEPT !.core.state = "whole",
                                !.core.manifest = <<cvProc.layers, cvProc.experts>>]
    /\ UNCHANGED cvCmd

Aligned(n) == n % AlignBytes = 0

\* validate_output re-reads nothing but sizes: the multiples of the alignment.
validate_output ==
    /\ At("validate")
    /\ LET checked == cvProc.layers \o (IF cvCmd.tool = "single" THEN cvProc.experts ELSE <<>>)
       IN  IF /\ \A i \in DOMAIN checked : Aligned(checked[i].offset) /\ Aligned(checked[i].disk)
              /\ Aligned(cvDisk.core.size)
           THEN Goto(IF IsRaw(cvCmd) THEN "index" ELSE "debug")
           ELSE Exit("error")
    /\ UNCHANGED <<cvCmd, cvDisk>>

\* The summary of a MODEL.bin shows its first expert and fails (IndexError) if it has none.
write_debug_index ==
    /\ At("debug")
    /\ cvDisk' = [cvDisk EXCEPT !.debug = TRUE]
    /\ IF cvCmd.tool # "single" THEN Goto("index")
       ELSE Exit(IF cvProc.experts = <<>> THEN "error" ELSE "ok")
    /\ UNCHANGED cvCmd

\* write_sharded_index writes the file in place: it exists before it is whole.
OpenShardIndex ==
    /\ At("index")
    /\ Goto("fill_index")
    /\ cvDisk' = [cvDisk EXCEPT !.index = [state |-> "partial", experts |-> <<>>]]
    /\ UNCHANGED cvCmd

FillShardIndex ==
    /\ At("fill_index")
    /\ cvDisk' = [cvDisk EXCEPT !.index = [state |-> "whole", experts |-> cvProc.experts]]
    /\ IF IsRaw(cvCmd) THEN Goto("ready") ELSE Exit("ok")
    /\ UNCHANGED cvCmd

\* The raw converter reports "ready" last, in the progress file and the plan.
ReportReady ==
    /\ At("ready")
    /\ cvDisk' = [cvDisk EXCEPT !.progress = "ready", !.report = "ready"]
    /\ Exit("ok")
    /\ UNCHANGED cvCmd

\* The process dies, or a read of a source tensor ends early (EOFError).
ConvertDies ==
    /\ cvProc.pc # "idle"
    /\ Exit("died")
    /\ UNCHANGED <<cvCmd, cvDisk>>

\* The procedures, as the steps they are made of.
convert_single_model ==
    /\ cvCmd.tool = "single"
    /\ \/ ReserveManifest \/ DenseBlock \/ MissingExpert \/ ExpertInCore \/ NextLayer
       \/ WriteHeader \/ WriteManifest \/ validate_output \/ write_debug_index

convert_sharded_experts ==
    /\ cvCmd.tool = "sharded"
    /\ \/ ReserveManifest \/ DenseBlock \/ MissingExpert \/ OpenExpertFile
       \/ FillExpertFile \/ NextLayer \/ WriteHeader \/ WriteManifest
       \/ validate_output \/ write_debug_index \/ OpenShardIndex \/ FillShardIndex

execute_conversion ==
    /\ cvCmd.tool = "raw"
    /\ \/ ReserveManifest \/ GlobalBlock \/ DenseBlock \/ OpenExpertFile
       \/ FillExpertFile \/ NextLayer \/ WriteHeader \/ WriteManifest
       \/ validate_output \/ OpenShardIndex \/ FillShardIndex \/ ReportReady

ConvertNext ==
    \/ StartConvert \/ ConvertDies
    \/ convert_single_model \/ convert_sharded_experts \/ execute_conversion

ConvertSpec == ConvertInit /\ [][ConvertNext]_cvVars

---------------------------------------------------------------------------
(* What validate_deepseek_v4_raw_conversion.py says of a directory *)

\* parse_block: the tables and every tensor of an expert's block lie within its file.
parse_block(file) == file \in DOMAIN cvDisk.files /\ cvDisk.files[file] = "whole"

\* The sizes and checksums it compares exist for the blocks of the manifest and
\* the experts of the shard index; a core whose header was written and whose
\* manifest was not has no layers to look at.
ValidatorStatus ==
    IF cvDisk.core.state = "absent" \/ cvDisk.index.state # "whole" THEN "raises"
    ELSE IF /\ cvDisk.core.state \in {"header", "whole"}
            /\ \A i \in DOMAIN cvDisk.index.experts :
                  parse_block(<<cvDisk.index.experts[i].layer, cvDisk.index.experts[i].expert>>)
            /\ cvDisk.core.manifest # <<>> =>
                 \A i \in DOMAIN cvDisk.core.manifest[1] :
                    LET d == cvDisk.core.manifest[1][i]
                    IN  Aligned(d.offset) /\ Aligned(d.disk)
         THEN "ready" ELSE "blocked"

---------------------------------------------------------------------------
(* Properties *)

Blocks == cvDisk.core.blocks

ManifestEnd == align_up(EngineHeaderBytes)
    + ManifestBytes(Len(Layers(cvCmd)) + (IF GlobalRefs(cvCmd) = <<>> THEN 0 ELSE 1),
                    ExpertTotal(cvCmd))

\* Once the header is written, the blocks of the core lie behind the room that
\* was reserved for the manifest, on aligned offsets, without overlap or gap,
\* and end where the header says the file ends (copy_aligned_block,
\* reserve_header_and_manifest). The manifest that is written has exactly the
\* size that was reserved for it before any expert was counted.
CoreLayoutSound ==
    cvDisk.core.state \in {"header", "whole"} =>
        /\ \A i \in DOMAIN Blocks :
              /\ Aligned(Blocks[i].offset)
              /\ Blocks[i].offset >= ManifestEnd
              /\ i > 1 => Blocks[i].offset = BlockEnd(Blocks[i - 1])
        /\ Blocks # <<>> /\ cvDisk.core.size = BlockEnd(Last(Blocks))
        /\ cvDisk.core.state = "whole" =>
              ManifestEnd = align_up(EngineHeaderBytes)
                  + ManifestBytes(Len(cvDisk.core.manifest[1]), Len(cvDisk.core.manifest[2]))

\* The window [first, first + num) of a layer's manifest entry holds that layer's
\* experts and no others, and its offset leads to that layer's dense tensors:
\* the reader indexes the expert table with nothing but these two numbers.
ManifestWindowsExact ==
    cvDisk.core.state = "whole" =>
        LET layers == cvDisk.core.manifest[1]
            experts == cvDisk.core.manifest[2]
        IN  \A i \in DOMAIN layers :
              LET w == layers[i] IN
              /\ w.layer # NoId =>
                    {k \in DOMAIN experts : experts[k].layer = w.layer}
                        = w.first + 1 .. w.first + w.num
              /\ \E k \in DOMAIN Blocks :
                    /\ Blocks[k].offset = w.offset /\ Blocks[k].layer = w.layer
                    /\ Blocks[k].expert = NoId

Stored ==
    (UNION {Blocks[i].tensors : i \in DOMAIN Blocks})
        \cup (UNION {LET x == cvDisk.index.experts[i]
                     IN  Range(ExpertRefs(cvCmd, x.layer, x.expert))
                     : i \in DOMAIN cvDisk.index.experts})

\* A conversion that succeeds has stored every tensor of the layers it was asked
\* for, unless it was told how many experts to take or to accept missing ones:
\* a checkpoint with gaps in its expert numbers is refused, not truncated
\* (infer_arch_config and the check for missing tensors together).
NothingDropped ==
    cvProc.exit = "ok" =>
        {t \in cvCmd.source :
            /\ t.layer \in Range(Layers(cvCmd))
            /\ ~IsRaw(cvCmd) => cvCmd.expertsArg = NoId /\ ~cvCmd.allowMissing
            /\ IsRaw(cvCmd) => cvCmd.pickExperts = {} \/ t.expert \in cvCmd.pickExperts \cup {NoId}}
        \subseteq Stored

\* "ready" in the progress file, whatever runs died before and after it was
\* written: the core is whole, every expert of its manifest is listed in the
\* shard index and whole on the disk, and the validator agrees. A rerun takes the
\* word back before it touches the core.
ReadyIsWhole ==
    cvDisk.progress = "ready" =>
        /\ cvDisk.core.state = "whole"
        /\ cvDisk.index = [state |-> "whole", experts |-> cvDisk.core.manifest[2]]
        /\ ValidatorStatus = "ready"

\* The disk space the raw converter is allowed to start with is what its blocks
\* really take: the estimate of a block counts every part the writer emits.
EstimateExact ==
    IsRaw(cvCmd) /\ cvDisk.core.state = "whole" =>
        LET DiskOf(b) == b.disk
        IN  plan_payload(cvCmd) = SumOver(DiskOf, Blocks)
                                    + SumOver(DiskOf, cvDisk.core.manifest[2])

\* A core that is finished can be read with its header and manifest alone, and took
\* the room that was checked for.
CoreReadable == CoreLayoutSound /\ ManifestWindowsExact /\ EstimateExact
=============================================================================
