----------------------------- MODULE ConvertPlan -----------------------------
(***************************************************************************)
(* The decisions the checkpoint converters take before and while they      *)
(* write: which tensor belongs to which block, which layers and experts    *)
(* are converted, where the parts of a block lie, how many bytes the       *)
(* output will need (tools/convert_safetensors.py,                         *)
(* tools/stream_convert_deepseek_v4.py, tools/stream_convert_glm52.py).    *)
(*                                                                         *)
(* A tensor is a record: id (its rank in the order of the names), layer    *)
(* and expert (NoId when its name gives none), embed (its name is that of  *)
(* the embedding), data (bytes) and rank (number of dimensions).           *)
(***************************************************************************)
EXTENDS Integers, Sequences, FiniteSets, SequencesExt, FiniteSetsExt, Functions, Lists

CONSTANTS
    AlignBytes,           \* ALIGN_2MB
    EngineHeaderBytes,    \* ENGINE_HEADER_SIZE
    ManifestHeaderBytes,  \* MANIFEST_HEADER_SIZE
    LayerDescBytes,       \* LAYER_DESC_SIZE
    ExpertDescBytes,      \* EXPERT_DESC_SIZE
    BlockHeaderBytes,     \* BLOCK_HEADER_STRUCT.size
    RecordBytes,          \* TENSOR_RECORD_STRUCT.size
    NameBytes             \* length of a packed tensor name

NoId == -1
NoRange == <<>>

align_up(value) == ((value + AlignBytes - 1) \div AlignBytes) * AlignBytes

SumOver(f(_), s) == Total([i \in DOMAIN s |-> f(s[i])])

ByName(ts) == InOrder(ts, {p \in ts \X ts : p[1].id < p[2].id})

---------------------------------------------------------------------------
(* Grouping *)

\* A tensor without a layer is global whatever else its name says; an unknown
\* tensor of a layer goes to the dense block.
classify_tensor(t) ==
    IF t.layer = NoId THEN "global"
    ELSE IF t.expert # NoId THEN "expert" ELSE "dense"

\* build_conversion_plan: the three groups the block writers look up.
build_conversion_plan(ts) ==
    [global  |-> {t \in ts : classify_tensor(t) = "global"},
     dense   |-> {t \in ts : classify_tensor(t) = "dense"},
     experts |-> {t \in ts : classify_tensor(t) = "expert"}]

ExpertIdsOf(ts, l) ==
    {t.expert : t \in {u \in build_conversion_plan(ts).experts : u.layer = l}}

SmallestArch(ts, explicitLayers, explicitExperts) ==   \* mutant: the layer with fewest experts
    LET layers == {t.layer : t \in ts} \ {NoId}
        counts == {Cardinality(ExpertIdsOf(ts, l)) : l \in layers} \ {0}
    IN  IF layers = {} \/ counts = {} THEN <<>> ELSE <<Max(layers) + 1, Min(counts)>>

\* infer_arch_config: explicit counts win; otherwise the largest layer number
\* plus one and the largest number of experts any layer has.
\* NoId stands for an argument not given; <<>> for the ValueError.
infer_arch_config(ts, explicitLayers, explicitExperts) ==
    LET layers == {t.layer : t \in ts} \ {NoId}
        withExperts == {l \in layers : ExpertIdsOf(ts, l) # {}}
        counts == {Cardinality(ExpertIdsOf(ts, l)) : l \in withExperts}
        numLayers == IF explicitLayers # NoId THEN explicitLayers
                     ELSE IF layers = {} THEN NoId ELSE Max(layers) + 1
        perLayer == IF explicitExperts # NoId THEN explicitExperts
                    ELSE IF counts = {} THEN NoId ELSE Max(counts)
    IN  IF numLayers = NoId \/ perLayer = NoId THEN <<>>
        ELSE <<numLayers, perLayer>>

\* layers_for_range: a range is cut at the last layer; a range that starts
\* behind it is an error (<<>> here, as a range always selects a layer).
layers_for_range(numLayers, range) ==
    IF range = NoRange THEN [i \in 1 .. numLayers |-> i - 1]
    ELSE IF range[1] >= numLayers THEN <<>>
    ELSE LET end == IF range[2] < numLayers THEN range[2] ELSE numLayers
         IN  [i \in 1 .. end - range[1] |-> range[1] + i - 1]

\* load_expert_plan: the ids to materialise in each selected layer. "raw" maps
\* layer numbers to id sets; an entry of a layer that is not selected is
\* skipped before it is checked. The empty function stands for the ValueError.
load_expert_plan(raw, selected, perLayer) ==
    LET bad(l) == \/ l \notin DOMAIN raw
                  \/ raw[l] = {}
                  \/ \E e \in raw[l] : e < 0 \/ e >= perLayer
    IN  IF \E l \in selected : bad(l) THEN <<>>
        ELSE [l \in selected |-> raw[l]]

\* group_items of the raw converter: only tensors of selected layers (and
\* experts); global tensors as the policy says; expert tensors whose id does
\* not parse stay in the dense block.
group_items(ts, layers, selectedExperts, globalPolicy) ==
    [global  |-> {t \in ts : /\ t.layer = NoId
                             /\ \/ globalPolicy = "all"
                                \/ globalPolicy = "embed_only" /\ t.embed},
     dense   |-> {t \in ts : t.layer \in layers /\ t.expert = NoId},
     experts |-> {t \in ts : /\ t.layer \in layers /\ t.expert # NoId
                             /\ \/ selectedExperts = {}
                                \/ t.expert \in selectedExperts}]

---------------------------------------------------------------------------
(* The bytes of a block *)

ShapeBytes(t) == 4 + 8 * t.rank

\* write_block_payload / write_raw_block_payload: header, record table, names,
\* data of each tensor, and - appended while the records are filled in - one
\* shape blob per tensor. Offsets are those the records store.
BlockLayout(refs) ==
    LET n == Len(refs)
        names == BlockHeaderBytes + n * RecordBytes
        data == names + n * NameBytes
        DataBytes(t) == t.data
        before(i) == SubSeq(refs, 1, i - 1)
        shapes == data + SumOver(DataBytes, refs)
    IN  [table  |-> BlockHeaderBytes,
         names  |-> names,
         data   |-> [i \in 1 .. n |-> data + SumOver(DataBytes, before(i))],
         shapes |-> [i \in 1 .. n |-> shapes + SumOver(ShapeBytes, before(i))],
         bytes  |-> shapes + SumOver(ShapeBytes, refs)]

\* estimate_block_payload, which the raw converter plans the disk space with.
estimate_block_payload(refs) ==
    LET DataBytes(t) == t.data
    IN  BlockHeaderBytes + Len(refs) * RecordBytes + Len(refs) * NameBytes
            + SumOver(DataBytes, refs) + SumOver(ShapeBytes, refs)

\* manifest_size, reserved before the first block is written.
ManifestBytes(numLayers, numExperts) ==
    ManifestHeaderBytes + numLayers * LayerDescBytes + numExperts * ExpertDescBytes
=============================================================================
