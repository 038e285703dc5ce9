------------------------------- MODULE ModelOps -------------------------------
(***************************************************************************)
(* Tools that make a model out of others without touching the checkpoint:  *)
(*   merge_smoke_models.py           one core from the layers of several    *)
(*   retarget_expert_plan_model.py   a core for another expert catalog      *)
(*   build_deepseek_v4_tensor_index  where the rows of embed and head are   *)
(*   plan_glm52_expert_coverage.py   which experts to convert, from a log   *)
(*                                                                         *)
(* A core is [dir, layers, experts, shards]; a layer is [id, type, block,  *)
(* first, num] where block stands for the bytes of its dense block; an     *)
(* expert is [layer, expert, sum]. A path is <<dir, layer, expert>>, with  *)
(* Here for a path relative to the index that contains it.                 *)
(***************************************************************************)
EXTENDS ConvertPlan

CONSTANTS
    Cores,        \* name of a core -> the core
    CoreFiles,    \* the expert files that exist: path -> checksum
    OpCommands    \* the command lines considered; a merge has an index in "dir" and
                  \* --experts-out-dir in "out", a plan has a probe [rows, top, rank,
                  \* include, perLayer]: the log's rows of one layer, the options

Here == "."
NoDir == "none"   \* --experts-out-dir is not given

\* The places of a layer's experts in the expert table of its core.
Window(l) == l.first + 1 .. l.first + l.num

\* A core is readable: ids and windows are numbers, a layer's window holds experts of
\* that layer (it may leave the table), a file is named for its layer and expert, and
\* the directory has a name of its own.
CoresAssumption ==
    \A n \in DOMAIN Cores :
        LET core == Cores[n]
        IN  /\ core.dir # Here
            /\ core.layers \in Seq(Range(core.layers))
            /\ core.experts \in Seq(Range(core.experts))
            /\ core.shards \in Seq(Range(core.shards))
            /\ \A l \in Range(core.layers) :
                  /\ l.id \in Nat /\ l.first \in Nat /\ l.num \in Nat
                  /\ l.block \in Seq(Range(l.block))
                  /\ \A k \in Window(l) \cap DOMAIN core.experts : core.experts[k].layer = l.id
            /\ \A s \in Range(core.shards) :
                  s.expert \in Int /\ s.path = <<s.path[1], s.layer, s.expert>>

\* The cores a command names exist; a row of the log is a choice of the router, at
\* least one expert of those a layer has (parse_probe drops an empty one).
CommandsAssumption ==
    \A c \in OpCommands :
        /\ c.tool \in {"merge", "retarget", "plan"}
        /\ c.tool = "merge" =>
              /\ c.cores \in Seq(DOMAIN Cores) /\ c.globals \in Seq(DOMAIN Cores)
              /\ c.dir # Here /\ c.out # Here
        /\ c.tool = "retarget" => c.base \in DOMAIN Cores /\ c.catalog \in DOMAIN Cores
        /\ c.tool = "plan" =>
              LET p == c.probe
              IN  /\ p.perLayer \in Nat /\ p.top \in Int /\ p.rank \in Int
                  /\ IsFiniteSet(p.include)
                  /\ p.rows \in Seq(Seq(0 .. p.perLayer - 1) \ {<<>>})

ASSUME OpsAssumption == CoresAssumption /\ CommandsAssumption

VARIABLES
    moCmd,   \* the command line
    moPc,    \* "start", "copy", "index", "end" and how the tool ended
    moOut,   \* the core and the shard index it writes
    moTodo,  \* experts whose files are still to be copied: [core, expert]
    moFile   \* the expert files

moVars == <<moCmd, moPc, moOut, moTodo, moFile>>

GlobalAux == "global"
Compute == "compute"

NoOutput == [layers |-> <<>>, experts |-> <<>>, index |-> <<>>, dense |-> <<>>,
             plan |-> <<>>, tensors |-> "none"]

OpsInit ==
    /\ moCmd \in OpCommands
    /\ moPc = [at |-> "start", exit |-> "none"]
    /\ moOut = NoOutput
    /\ moTodo = <<>>
    /\ moFile = CoreFiles

OpsEnd(status) == moPc' = [at |-> "end", exit |-> status]

---------------------------------------------------------------------------
(* merge_smoke_models.py *)

Resolve(dir, path) == IF path[1] = Here THEN <<dir, path[2], path[3]>> ELSE path

ShardOf(core, x) ==
    Pick(core.shards, {i \in DOMAIN core.shards : /\ core.shards[i].layer = x.layer
                                                 /\ core.shards[i].expert = x.expert})

\* choose_single_layer(src, 0): the first block of layer 0, if there is one.
choose_single_layer(core) ==
    Pick(core.layers, {i \in DOMAIN core.layers : core.layers[i].id = 0})

\* Layer 0 is a global block unless it is asked for by number.
ComputeOf(name, wanted) ==
    LET layers == Cores[name].layers
        picked == Pick(layers, {i \in DOMAIN layers : IF wanted = {} THEN layers[i].id # 0
                                                     ELSE layers[i].id \in wanted})
    IN  [i \in DOMAIN picked |-> [core |-> name, layer |-> picked[i]]]

\* The sort is stable: blocks of one layer keep the order of the command line.
StableByLayer(s) ==
    LET order == InOrder(DOMAIN s,
                    {p \in (DOMAIN s) \X (DOMAIN s) :
                        \/ s[p[1]].layer.id < s[p[2]].layer.id
                        \/ s[p[1]].layer.id = s[p[2]].layer.id /\ p[1] < p[2]})
    IN  [k \in DOMAIN order |-> s[order[k]]]

\* <<>> stands for the ValueError.
choose_compute_layers(names, wanted) ==
    LET all == FlattenSeq([i \in DOMAIN names |-> ComputeOf(names[i], wanted)])
    IN  IF wanted \subseteq {all[i].layer.id : i \in DOMAIN all}
        THEN StableByLayer(all) ELSE <<>>

\* A slice: a window that leaves the list is cut at its end.
experts_for_layer(core, l) ==
    LET last == l.first + l.num
    IN  SubSeq(core.experts, l.first + 1,
               IF last < Len(core.experts) THEN last ELSE Len(core.experts))

\* The manifest's entries: each dense block is copied behind the previous one, and
\* the window of a layer begins where the experts of the layers before it end.
Entries(chosen, experts) ==
    LET before(i) == FlattenSeq(SubSeq(experts, 1, i - 1))
    IN  [layers |-> [i \in DOMAIN chosen |->
                        [id |-> chosen[i].layer.id, type |-> Compute,
                         block |-> chosen[i].layer.block, first |-> Len(before(i)),
                         num |-> Len(experts[i])]],
         experts |-> before(Len(chosen) + 1)]

GlobalEntry(l) ==
    [id |-> l.id, type |-> GlobalAux, block |-> l.block, first |-> 0, num |-> 0]

MergeCore ==
    /\ moPc.at = "start" /\ moCmd.tool = "merge"
    /\ LET chosen == choose_compute_layers(moCmd.cores, moCmd.wanted)
           experts == [i \in DOMAIN chosen |->
                          experts_for_layer(Cores[chosen[i].core], chosen[i].layer)]
           made == Entries(chosen, experts)
           globals == [i \in DOMAIN moCmd.globals |-> choose_single_layer(Cores[moCmd.globals[i]])]
           tagged == FlattenSeq([i \in DOMAIN chosen |->
                         [k \in DOMAIN experts[i] |->
                             [core |-> chosen[i].core, expert |-> experts[i][k]]]])
       IN  IF chosen = <<>> \/ <<>> \in Range(globals)
           THEN OpsEnd("error") /\ UNCHANGED <<moOut, moTodo>>
           ELSE /\ moPc' = [moPc EXCEPT !.at = IF moCmd.out = NoDir THEN "index" ELSE "copy"]
                /\ moOut' = [moOut EXCEPT
                      !.layers = [i \in DOMAIN globals |-> GlobalEntry(Head(globals[i]))]
                                     \o made.layers,
                      !.experts = made.experts]
                /\ moTodo' = tagged
    /\ UNCHANGED <<moCmd, moFile>>

\* resolve_expert_path: what the core's index says, else the usual place if there
\* is a file, else nothing.
resolve_expert_path(core, x) ==
    LET s == ShardOf(core, x)
        usual == <<core.dir, x.layer, x.expert>>
    IN  IF s # <<>> THEN Resolve(core.dir, Last(s).path)
        ELSE IF usual \in DOMAIN moFile THEN usual ELSE <<>>

\* copy_expert_shards, one file at a time, into a directory of the user's choice. A file
\* that is not there is passed over without a word.
CopyExpertShard ==
    /\ moPc.at = "copy" /\ moTodo # <<>>
    /\ LET x == Head(moTodo).expert
           from == resolve_expert_path(Cores[Head(moTodo).core], x)
           to == <<moCmd.out, x.layer, x.expert>>
       IN  moFile' = IF from \in DOMAIN moFile
                     THEN [p \in DOMAIN moFile \cup {to} |-> moFile[IF p = to THEN from ELSE p]]
                     ELSE moFile
    /\ moTodo' = Tail(moTodo)
    /\ UNCHANGED <<moCmd, moPc, moOut>>

AllCopied ==
    /\ moPc.at = "copy" /\ moTodo = <<>>
    /\ moPc' = [moPc EXCEPT !.at = "index"]
    /\ UNCHANGED <<moCmd, moOut, moTodo, moFile>>

SourceOf(x) ==
    LET chosen == choose_compute_layers(moCmd.cores, moCmd.wanted)
    IN  CHOOSE n \in {chosen[i].core : i \in DOMAIN chosen} : x \in Range(Cores[n].experts)

\* write_shard_index: with copies the path is the usual one next to the index, wherever
\* the copies are; without, that of the source's own index as it is, though it was
\* relative to another directory. It lists no dense blocks.
MergeIndex ==
    /\ moPc.at = "index"
    /\ LET PathOf(x) ==
             LET s == ShardOf(Cores[SourceOf(x)], x)
             IN  IF moCmd.out # NoDir \/ s = <<>> THEN <<Here, x.layer, x.expert>> ELSE Last(s).path
           xs == moOut.experts
       IN  moOut' = [moOut EXCEPT !.index = [i \in DOMAIN xs |->
                        [layer |-> xs[i].layer, expert |-> xs[i].expert,
                         path |-> PathOf(xs[i]), sum |-> xs[i].sum]]]
    /\ OpsEnd("ok")
    /\ UNCHANGED <<moCmd, moTodo, moFile>>

merge_smoke_models == MergeCore \/ CopyExpertShard \/ AllCopied \/ MergeIndex

---------------------------------------------------------------------------
(* retarget_expert_plan_model.py *)

\* selected_compute_layers never takes layer 0.
selected_compute_layers(core, wanted) ==
    LET picked == Pick(core.layers,
                    {i \in DOMAIN core.layers :
                        LET l == core.layers[i].id IN l # 0 /\ (wanted = {} \/ l \in wanted)})
    IN  IF wanted \subseteq {picked[i].id : i \in DOMAIN picked} THEN picked ELSE <<>>

load_shards_unrebased(core) ==   \* mutant: paths stay as they were
    {[layer |-> s.layer, expert |-> s.expert, path |-> Last(ShardOf(core, s)).path,
      sum |-> Last(ShardOf(core, s)).sum] : s \in Range(core.shards)}

\* load_expert_shards: later entries for an expert replace earlier ones, paths are
\* rebased from the old index to the directory of the new core.
load_expert_shards(core) ==
    LET Rebased(s) == LET p == Resolve(core.dir, s.path)
                      IN  IF p[1] = moCmd.dir THEN <<Here, p[2], p[3]>> ELSE p
    IN  {[layer |-> s.layer, expert |-> s.expert, path |-> Rebased(Last(ShardOf(core, s))),
          sum |-> Last(ShardOf(core, s)).sum] : s \in Range(core.shards)}

Retarget ==
    /\ moPc.at = "start" /\ moCmd.tool = "retarget"
    /\ LET base == Cores[moCmd.base]
           shards == load_expert_shards(Cores[moCmd.catalog])
           compute == selected_compute_layers(base, moCmd.wanted)
           globals == choose_single_layer(base)
           chosen == [i \in DOMAIN compute |-> [layer |-> compute[i]]]
           experts == [i \in DOMAIN compute |->
                          InOrder({s \in shards : s.layer = compute[i].id},
                                  {p \in shards \X shards : p[1].expert < p[2].expert})]
           made == Entries(chosen, experts)
       IN  IF \/ compute = <<>> \/ globals = <<>>
              \/ <<>> \in Range(experts)
           THEN OpsEnd("error") /\ UNCHANGED moOut
           ELSE /\ OpsEnd("ok")
                /\ LET layers == [i \in DOMAIN globals |-> GlobalEntry(globals[i])] \o made.layers
                   IN  moOut' = [NoOutput EXCEPT
                          !.layers = layers, !.dense = layers, !.index = made.experts,
                          !.experts = [i \in DOMAIN made.experts |->
                              [layer |-> made.experts[i].layer, expert |-> made.experts[i].expert,
                               sum |-> made.experts[i].sum]]]
    /\ UNCHANGED <<moCmd, moTodo, moFile>>

---------------------------------------------------------------------------
(* plan_glm52_expert_coverage.py *)

Hits(p, e) ==
    Cardinality({x \in (DOMAIN p.rows) \X (1 .. p.rank) :
                     x[2] \in DOMAIN p.rows[x[1]] /\ p.rows[x[1]][x[2]] = e})

\* choose_experts: the experts always included, then the most frequent of the first
\* "rank" of every row, ties by number, until there are "top" of them.
choose_experts(p) ==
    LET seen(r) == {r[k] : k \in DOMAIN r \cap 1 .. p.rank}
        ids == UNION {seen(p.rows[i]) : i \in DOMAIN p.rows}
        ranked == InOrder(ids \ p.include,
                     {x \in ids \X ids : \/ Hits(p, x[1]) > Hits(p, x[2])
                                         \/ Hits(p, x[1]) = Hits(p, x[2]) /\ x[1] < x[2]})
        room == Max({0, p.top - Cardinality(p.include)})
    IN  p.include \cup Range(SubSeq(ranked, 1, IF room < Len(ranked) THEN room ELSE Len(ranked)))

\* build_plan: the layers of the log, each with its experts. No row at all is an error.
PlanCoverage ==
    /\ moPc.at = "start" /\ moCmd.tool = "plan"
    /\ IF moCmd.probe.rows = <<>> \/ moCmd.probe.top <= 0 \/ moCmd.probe.rank <= 0
       THEN OpsEnd("error") /\ UNCHANGED moOut
       ELSE OpsEnd("ok") /\ moOut' = [moOut EXCEPT !.plan = [l \in {0} |-> choose_experts(moCmd.probe)]]
    /\ UNCHANGED <<moCmd, moTodo, moFile>>

---------------------------------------------------------------------------
(* build_deepseek_v4_tensor_index.py *)

\* The status for a shard index: both tensors must be in one of the dense blocks the
\* index lists, as bf16 and addressable by row; of two tensors of one name the last
\* counts. A block is a sequence of tensors [name, bf16, byRow].
tensor_index_status(dense) ==
    LET all == FlattenSeq([i \in DOMAIN dense |-> dense[i].block])
        named(n) == Pick(all, {i \in DOMAIN all : all[i].name = n})
    IN  IF \A n \in {"embed.weight", "head.weight"} :
              named(n) # <<>> /\ Last(named(n)).bf16 /\ Last(named(n)).byRow
        THEN "ready" ELSE "blocked"

BuildTensorIndex ==
    /\ moPc.exit = "ok" /\ moOut.tensors = "none" /\ moCmd.tool # "plan"
    /\ moOut' = [moOut EXCEPT !.tensors = tensor_index_status(moOut.dense)]
    /\ UNCHANGED <<moCmd, moPc, moTodo, moFile>>

OpsNext == merge_smoke_models \/ Retarget \/ PlanCoverage \/ BuildTensorIndex

OpsSpec == OpsInit /\ [][OpsNext]_moVars

---------------------------------------------------------------------------
(* Properties *)

\* The expert table of the new core is cut into the windows of its compute layers: a
\* window holds experts of its layer only, every expert lies in exactly one window,
\* and an entry leads to a dense block that was that layer's in its source.
WindowsExact ==
    LET layers == moOut.layers
        from == IF moCmd.tool = "merge" THEN Range(moCmd.cores) \cup Range(moCmd.globals)
                ELSE {moCmd.base}
    IN  /\ \A k \in DOMAIN moOut.experts :
              Cardinality({i \in DOMAIN layers : k \in Window(layers[i])}) = 1
        /\ \A i \in DOMAIN layers :
              /\ \A k \in Window(layers[i]) :
                    k \in DOMAIN moOut.experts /\ moOut.experts[k].layer = layers[i].id
              /\ \E n \in from : \E k \in DOMAIN Cores[n].layers :
                    /\ Cores[n].layers[k].id = layers[i].id
                    /\ Cores[n].layers[k].block = layers[i].block

\* What the sources promise: the files their indexes lead to exist and have the
\* checksums of the entries.
Kept(name, x) ==
    LET core == Cores[name]
        path == IF ShardOf(core, x) # <<>> THEN Resolve(core.dir, Last(ShardOf(core, x)).path)
                ELSE <<core.dir, x.layer, x.expert>>
    IN  path \in DOMAIN CoreFiles /\ CoreFiles[path] = x.sum

SourcesSound ==
    IF moCmd.tool = "merge"
    THEN LET xs == {y \in Range(moCmd.cores) \X Range(moOut.experts) :
                        y[2] \in Range(Cores[y[1]].experts)}
         IN  /\ \A y \in xs : Kept(y[1], y[2])
             /\ \A y, z \in xs : y[2].layer = z[2].layer /\ y[2].expert = z[2].expert
                                   => y[2] = z[2]
             /\ moCmd.out # NoDir \/ \A y \in xs : Cores[y[1]].dir = moCmd.dir
    ELSE \A x \in Range(Cores[moCmd.catalog].shards) : Kept(moCmd.catalog, x)

\* A plan the coverage tool writes is one the converter takes (load_expert_plan), as
\* long as the experts always included exist; and no expert that was left out was
\* chosen more often by the router than one that was taken for its hits.
PlanAccepted ==
    LET p == moCmd.probe
    IN  p.include \subseteq 0 .. p.perLayer - 1 =>
          /\ load_expert_plan(moOut.plan, {0}, p.perLayer) = moOut.plan
          /\ \A e \in moOut.plan[0] \ p.include, f \in (0 .. p.perLayer - 1) \ moOut.plan[0] :
                Hits(p, f) <= Hits(p, e)

RightFile(path, x) == path \in DOMAIN moFile /\ moFile[path] = x.sum

\* The copies of a merge are the experts, also after files were copied over each other.
CopiesRight ==
    moCmd.tool = "merge" /\ moCmd.out # NoDir =>
        \A x \in Range(moOut.experts) : RightFile(<<moCmd.out, x.layer, x.expert>>, x)

\* Every entry of the new index leads to the bytes of its expert.
IndexRight ==
    (moCmd.tool = "merge" => moCmd.out \in {NoDir, moCmd.dir}) =>
        \A i \in DOMAIN moOut.index :
            RightFile(Resolve(moCmd.dir, moOut.index[i].path), moOut.index[i])

\* A model that a tool has finished can be served: the manifest's windows are exact
\* and, if the sources are what their indexes say, the copied files and the entries of
\* the new index are right. A merge without copies keeps this only in the directory of
\* its sources, one with copies elsewhere than next to the index leaves an index that
\* does not lead to them, and two cores with different versions of one expert never do.
\* The core of a retargeted model is reported to have its two row tables only if a
\* block of the core has them.
MergedServable ==
    moPc.exit = "ok" =>
        IF moCmd.tool = "plan" THEN PlanAccepted
        ELSE /\ WindowsExact
             /\ SourcesSound => CopiesRight /\ IndexRight
             /\ moOut.tensors = "ready" =>
                  \A n \in {"embed.weight", "head.weight"} :
                    \E i \in DOMAIN moOut.layers : \E k \in DOMAIN moOut.layers[i].block :
                        moOut.layers[i].block[k].name = n
=============================================================================
