------------------------------- MODULE MCTools -------------------------------
(***************************************************************************)
(* The parts around the engine's core, one at a time: "tool" says which of *)
(* them runs; the others are parked in a state they have finished in.      *)
(***************************************************************************)
EXTENDS Convert, StreamConvert, ExpertsPack, Download, Catalog, Relay, ModelOps, ChatClients,
        ExpertCache

VARIABLE tool

Tools == {"convert", "stream", "pack", "download", "catalog", "relay", "ops", "clients", "cache"}

---------------------------------------------------------------------------
(* Convert: small checkpoints *)

Tensor(i, l, e) == [id |-> i, layer |-> l, expert |-> e, embed |-> i = 1,
                    data |-> (i % 3) + 1, rank |-> (i % 2) + 1]

Embed == Tensor(1, NoId, NoId)
Norm == Tensor(2, NoId, NoId)
Dense0 == Tensor(3, 0, NoId)
Dense1 == Tensor(4, 1, NoId)
E00 == Tensor(5, 0, 0)
E01 == Tensor(6, 0, 1)
E10 == Tensor(7, 1, 0)
E11 == Tensor(8, 1, 1)
E12 == Tensor(9, 1, 2)

Regular == {Embed, Norm, Dense0, Dense1, E00, E01, E10, E11}

Sources == {Regular,
            Regular \ {Dense1},        \* a layer without dense tensors
            Regular \ {E01},           \* an expert is missing
            Regular \cup {E12},         \* one layer has more experts
            (Regular \cup {E12}) \ {E11, E01},  \* a gap in the expert numbers
            {Embed, Dense0, Dense1}}   \* no experts at all

Base == [tool |-> "single", source |-> Regular, layersArg |-> NoId, expertsArg |-> NoId,
         range |-> NoRange, allowMissing |-> FALSE, packGlobal |-> FALSE,
         globalPolicy |-> "none", pickExperts |-> {}, free |-> 1000]

MCConvertCommands ==
    {[Base EXCEPT !.tool = t, !.source = s, !.range = r, !.packGlobal = g,
                  !.allowMissing = m, !.expertsArg = x] :
        t \in {"single", "sharded"}, s \in Sources, r \in {NoRange, <<1, 3>>},
        g \in BOOLEAN, m \in BOOLEAN, x \in {NoId, 0, 1}}
    \cup
    {[Base EXCEPT !.tool = "raw", !.layersArg = 2, !.source = s, !.range = r,
                  !.globalPolicy = g, !.pickExperts = e, !.free = f] :
        s \in Sources, r \in {NoRange, <<1, 3>>},
        g \in {"none", "embed_only", "all"}, e \in {{}, {1}}, f \in {150, 1000}}

---------------------------------------------------------------------------
(* StreamConvert: three experts; --skip-existing only where it can be relied on *)

MCPlan == <<"e1", "e2", "e3">>

MCStreamCommands ==
    {[expertsOnly |-> o, skip |-> k, worker |-> w, delete |-> d, keepLedger |-> l, sent |-> s] :
        o \in BOOLEAN, k \in BOOLEAN, w \in BOOLEAN, d \in BOOLEAN, l \in BOOLEAN,
        s \in {{}, {"e1", "e3"}}}

MCStreamReliable == {c \in MCStreamCommands : c.skip => c.expertsOnly}

---------------------------------------------------------------------------
(* Download: two weight files; servers that tell sizes or not, know ranges or not *)

MCShards == <<"s1", "s2">>

Listed(p, k, z) == [path |-> p, kind |-> k, size |-> z]

Listing == {Listed("model.safetensors.index.json", "metadata", 2),
            Listed("config.json", "metadata", 1), Listed("s1", "weight", 9)}

Repo(r, s, g, d) ==
    [entries |-> Listing, roles |-> r, sized |-> s, ranges |-> g, disk |-> d]

KnownRoles == {"expert", "norm"}

MCRepositories ==
    {Repo(KnownRoles, TRUE, TRUE, 20), Repo(KnownRoles, TRUE, FALSE, 20),
     Repo(KnownRoles, FALSE, TRUE, 20), Repo(KnownRoles, TRUE, TRUE, 5),
     Repo({"expert", "unknown"}, TRUE, TRUE, 20)}

---------------------------------------------------------------------------
(* Catalog: experts 1 and 2 have tensors, the other model has 2 and 3 *)

JobKind(t, x, o, c, l, i) ==
    [tool |-> t, execute |-> x, overwrite |-> o, copy |-> c, links |-> l, ids |-> i]

MCJobKinds ==
    {JobKind("materialize", x, o, FALSE, TRUE, i) :
        x \in BOOLEAN, o \in BOOLEAN, i \in {{1, 2}, {9}}}
    \cup {JobKind("reuse", x, FALSE, c, l, {}) : x \in BOOLEAN, c \in BOOLEAN, l \in BOOLEAN}

---------------------------------------------------------------------------
(* ModelOps: four cores, one with experts in another directory, one (d) whose expert
   file is missing, one (c) with another version of an expert of a *)

Row(n, b, r) == [name |-> n, bf16 |-> b, byRow |-> r]
GlobalBlk == <<Row("embed.weight", TRUE, TRUE), Row("head.weight", TRUE, TRUE)>>
Lay(i, t, b, f, n) == [id |-> i, type |-> t, block |-> b, first |-> f, num |-> n]
Ex(l, e, s) == [layer |-> l, expert |-> e, sum |-> s]
Sh(d, l, e, s) == [layer |-> l, expert |-> e, sum |-> s, path |-> <<d, l, e>>]
Blk(n) == <<Row(n, TRUE, FALSE)>>
MCCores ==
  "a" :> [dir |-> "a", layers |-> <<Lay(0, "global", GlobalBlk, 0, 0), Lay(1, "compute", Blk("a1"), 0, 2)>>,
          experts |-> <<Ex(1, 0, 10), Ex(1, 1, 11)>>, shards |-> <<Sh(".", 1, 0, 10), Sh(".", 1, 1, 11)>>]
  @@ "b" :> [dir |-> "b", layers |-> <<Lay(0, "global", Blk("embed.weight"), 0, 0), Lay(2, "compute", Blk("b2"), 1, 2), Lay(1, "compute", Blk("b1"), 0, 1)>>,
          experts |-> <<Ex(1, 2, 12), Ex(2, 0, 20), Ex(2, 1, 21)>>,
          shards |-> <<Sh(".", 1, 2, 12), Sh(".", 2, 0, 20), Sh("a", 2, 1, 21)>>]
  @@ "c" :> [dir |-> "c", layers |-> <<Lay(1, "compute", Blk("c1"), 0, 1)>>,
          experts |-> <<Ex(1, 0, 19)>>, shards |-> <<>>]
  @@ "d" :> [dir |-> "d", layers |-> <<Lay(3, "compute", Blk("d1"), 0, 1)>>,
          experts |-> <<Ex(3, 0, 30)>>, shards |-> <<>>]
MCCoreFiles == <<"a", 1, 0>> :> 10 @@ <<"a", 1, 1>> :> 11 @@ <<"a", 2, 1>> :> 21
   @@ <<"b", 1, 2>> :> 12 @@ <<"b", 2, 0>> :> 20 @@ <<"c", 1, 0>> :> 19
MCOpCommands ==
  {[tool |-> "merge", globals |-> g, cores |-> c, wanted |-> w, out |-> o, dir |-> d] :
     g \in {<<"a">>, <<"b", "a">>, <<"c">>}, c \in {<<"a">>, <<"b", "a">>, <<"a", "c">>, <<"a", "d">>},
     w \in {{}, {0, 1}, {1, 2}}, o \in {NoDir, "m", "n"}, d \in {"a", "m"}}
  \cup {[tool |-> "retarget", base |-> b, catalog |-> c, wanted |-> w, dir |-> d] :
     b \in {"a", "b", "c"}, c \in {"a", "b"}, w \in {{}, {1}, {0}}, d \in {"a", "m"}}
  \cup {[tool |-> "plan", probe |-> [rows |-> r, top |-> t, rank |-> k, include |-> i, perLayer |-> 3]] :
     r \in {<<>>, <<<<2, 1>>>>, <<<<2, 1>>, <<1, 0>>>>, <<<<0, 1>>, <<0, 2>>, <<2, 1>>>>},
     t \in 0 .. 2, k \in 1 .. 2, i \in {{}, {0}, {0, 3}}}

---------------------------------------------------------------------------
(* ChatClients *)

MCReplAnswers == {<<>>, <<"w">>, <<"w", "te", "sp">>, <<"w", "te", "sp", "v">>}

MCStopSequence == <<"s1", "s2">>

---------------------------------------------------------------------------
(* ExpertCache: two units are one expert; a batch of three with room for one, two
   batches with room for two, a budget of nothing, no server *)

Setup(m, r, b) == [max |-> m, local |-> {"x2"}, remote |-> r, batches |-> b]

MCCacheSetups ==
    {Setup(2, TRUE, <<<<"x1", "x2", "x3">>>>), Setup(4, TRUE, <<<<"x3", "x2">>, <<"x1">>>>),
     Setup(0, TRUE, <<<<"x2">>>>), Setup(6, FALSE, <<<<"x2", "x1">>>>)}

\* Both uploads are of x1: it is new, or replaced on Windows or while the cache is small.
CacheStart ==
    /\ \A p \in Puts : Put(p).expert = "x1"
    /\ esFile["x2"] # Absent /\ esFile["x3"] # Absent
    /\ (esFile["x1"] # Absent) = (esWindows \/ xcSetup.max = 2)
    /\ esWindows => xcSetup.max = 4

---------------------------------------------------------------------------
ParkConvert == cvCmd = Base /\ ConvertInit

ParkStream ==
    /\ scCmd = CHOOSE c \in StreamCommands : TRUE
    /\ scProc = Stopped("ok", 0)
    /\ scLedger = EmptyLedger
    /\ scFile = [x \in Wanted |-> "whole"]
    /\ scWorker = {}
    /\ scCore = "whole"
    /\ scIndex = [state |-> "whole", remote |-> FALSE]

ParkPack ==
    /\ pkKeep = TRUE
    /\ pkProc = Halted("done", 0, FALSE)
    /\ pkShards = 1 .. PackExperts
    /\ pkPack = Numbers(PackExperts)
    /\ pkSynced = PackExperts
    /\ pkIndex = Numbers(PackExperts)

ParkDownload ==
    /\ dlRepo = CHOOSE r \in Repositories : TRUE
    /\ dlProc = Resting
    /\ dlFile = [s \in Range(Shards) |-> [len |-> ShardUnits, good |-> TRUE]]
    /\ dlPart = [s \in Range(Shards) |-> NoFile]
    /\ dlMeta = {}
    /\ dlReport = NoReports

ParkCatalog ==
    /\ ctJob = [j \in Jobs |-> [kind |-> JobKind("reuse", FALSE, FALSE, FALSE, FALSE, {}),
                               pc |-> "start", memory |-> {}, todo |-> {}, exit |-> "none"]]
    /\ CatalogInit

ParkRelay ==
    /\ rlConn = <<>>
    /\ rlSock = [sock |-> None, busy |-> FALSE]
    /\ rlReq = [h \in Handlers |-> [method |-> "GET", expert |-> CHOOSE e \in ExpertFiles : TRUE,
                    pc |-> "done", attempt |-> 1, worker |-> None, unread |-> BodyUnits,
                    need |-> 0, gone |-> FALSE, answer |-> <<502>>]]
    /\ rlWorker = [conn |-> None, body |-> NoBody]
    /\ rlFile = [e \in ExpertFiles |-> <<>>]
    /\ rlDesync = FALSE

\* The handlers are alike: of two starts that differ by an exchange of theirs one is
\* enough. A store to a machine that has the file already changes nothing: stores start
\* without it. A HEAD takes the steps of a GET without its body: it is paired with a GET.
RelayStart ==
    LET Method(h) == CHOOSE i \in 1 .. 3 : <<"GET", "HEAD", "PUT">>[i] = rlReq[h].method
    IN  /\ Method(CHOOSE h \in Handlers : TRUE) = Min({Method(h) : h \in Handlers})
        /\ (\E h \in Handlers : rlReq[h].method = "HEAD") => \E h \in Handlers : rlReq[h].method = "GET"
        /\ (\E h \in Handlers : rlReq[h].method = "PUT") => \A e \in ExpertFiles : rlFile[e] = <<>>

ParkOps == moCmd = (CHOOSE c \in OpCommands : TRUE) /\ OpsInit

ParkClients ==
    /\ chClient = "shim"
    /\ chChat = [pc |-> "ask", limit |-> 3, history |-> <<>>, log |-> <<>>, question |-> "none",
                 tokens |-> <<>>, text |-> <<>>, mixed |-> FALSE]
    /\ ClientsInit

ParkCache ==
    /\ xcSetup = CHOOSE c \in CacheSetups : TRUE
    /\ xcReq = [NoRequest EXCEPT !.pc = "served"]
    /\ xcDir = [e \in StoredExperts |-> NotCached]
    /\ xcFaults = 0
    /\ esNode = <<Complete>>
    /\ esFile = [e \in StoredExperts |-> 1]
    /\ esPart = [e \in StoredExperts |-> Absent]
    /\ esPut = [p \in Puts |-> [expert |-> "x1", pc |-> "created", node |-> 1, written |-> FileUnits]]
    /\ esWindows = FALSE
    /\ esOverlap = FALSE

toolVars == <<tool, cvVars, scVars, pkVars, dlVars, ctVars, rlVars, moVars, chVars, cacheVars>>

ToolsInit ==
    /\ tool \in Tools
    /\ IF tool = "convert" THEN ConvertInit ELSE ParkConvert
    /\ IF tool = "stream" THEN StreamInit ELSE ParkStream
    /\ IF tool = "pack" THEN PackInit ELSE ParkPack
    /\ IF tool = "download" THEN DownloadInit ELSE ParkDownload
    /\ IF tool = "catalog" THEN CatalogInit ELSE ParkCatalog
    /\ IF tool = "relay" THEN RelayInit /\ RelayStart ELSE ParkRelay
    /\ IF tool = "ops" THEN OpsInit ELSE ParkOps
    /\ IF tool = "clients" THEN ClientsInit ELSE ParkClients
    /\ IF tool = "cache" THEN CacheInit /\ CacheStart ELSE ParkCache

ToolsNext ==
    /\ UNCHANGED tool
    /\ \/ /\ tool = "convert" /\ ConvertNext
          /\ UNCHANGED <<scVars, pkVars, dlVars, ctVars, rlVars, moVars, chVars, cacheVars>>
       \/ /\ tool = "stream" /\ StreamNext
          /\ UNCHANGED <<cvVars, pkVars, dlVars, ctVars, rlVars, moVars, chVars, cacheVars>>
       \/ /\ tool = "pack" /\ PackNext
          /\ UNCHANGED <<cvVars, scVars, dlVars, ctVars, rlVars, moVars, chVars, cacheVars>>
       \/ /\ tool = "download" /\ DownloadNext
          /\ UNCHANGED <<cvVars, scVars, pkVars, ctVars, rlVars, moVars, chVars, cacheVars>>
       \/ /\ tool = "catalog" /\ CatalogNext
          /\ UNCHANGED <<cvVars, scVars, pkVars, dlVars, rlVars, moVars, chVars, cacheVars>>
       \/ /\ tool = "relay" /\ RelayNext
          /\ UNCHANGED <<cvVars, scVars, pkVars, dlVars, ctVars, moVars, chVars, cacheVars>>
       \/ /\ tool = "ops" /\ OpsNext
          /\ UNCHANGED <<cvVars, scVars, pkVars, dlVars, ctVars, rlVars, chVars, cacheVars>>
       \/ /\ tool = "clients" /\ ClientsNext
          /\ UNCHANGED <<cvVars, scVars, pkVars, dlVars, ctVars, rlVars, moVars, cacheVars>>
       \/ /\ tool = "cache" /\ CacheNext
          /\ UNCHANGED <<cvVars, scVars, pkVars, dlVars, ctVars, rlVars, moVars, chVars>>

\* The fairness of each tool's own specification, where the tool is the one that runs.
ToolsSpec ==
    /\ ToolsInit /\ [][ToolsNext]_toolVars
    /\ WF_scVars(tool = "stream" /\ StreamWork)
    /\ WF_pkVars(tool = "pack" /\ build_experts_pack)
    /\ WF_dlVars(tool = "download" /\ (ProbeSize \/ download_one \/ FinishDownload))
    /\ WF_dlVars(tool = "download" /\ DownloadMetadata /\ dlMeta' # dlMeta)
    /\ WF_dlVars(tool = "download" /\ StartDownload /\ dlProc'.pc # "rest")
    /\ \A h \in Handlers : WF_rlVars(tool = "relay" /\ _proxy(h))
    /\ WF_rlVars(tool = "relay" /\ serve_forever)
    /\ WF_cacheVars(tool = "cache" /\ EngineWork)
=============================================================================
