------------------------------ MODULE LayerPass ------------------------------
(***************************************************************************)
(* The I/O of a forward pass (server/generation.rs): for every layer, its  *)
(* dense block and the experts its router selects are read through the     *)
(* scheduler and handed to compute, then their buffers are released.       *)
(*   token   run_model_for_one_token: one position; experts predicted from *)
(*           the layer's input are prefetched before the attention, the    *)
(*           next layer's dense block while the experts stream in          *)
(*   hinted  run_model_for_one_token of a request that names its experts,  *)
(*           or of a model without mHC: no prefetch, one wait for experts  *)
(*   batch   run_positions_batch: many positions; the union of their       *)
(*           experts in chunks                                             *)
(*   scan    the embedding and LM head of a model without a row index:     *)
(*           dense blocks only, until the one with the tensor              *)
(* A request runs many passes on one scheduler; reads that nobody waited   *)
(* for are still in flight when the next pass begins.                      *)
(*                                                                         *)
(* The expert RAM cache is not a variable: an expert found there is one    *)
(* that is not among the predicted or selected ones.                       *)
(***************************************************************************)
EXTENDS Integers, Sequences, FiniteSets

CONSTANTS
  Buffer, Expert, NoExpert, RingExperts,   \* as in IoScheduler
  Layers,        \* number of layers
  Active,        \* experts per position (active_experts)
  Auxiliary,     \* layers whose dense block turns out to hold no layer to compute
  DenseCached,   \* layers whose dense block fits the dense RAM cache
  Modes,         \* the kinds of pass that run
  ReadsFail,     \* whether ring reads may fail or come short
  LateReads      \* whether reads nobody waits for may outlive their pass

Layer == 1 .. Layers

ASSUME PassAssumption ==
  /\ Layers \in Nat \ {0}
  /\ Active \in Nat \ {0}
  /\ IsFiniteSet(Buffer) /\ IsFiniteSet(Expert) /\ Expert \subseteq Nat
  /\ NoExpert \notin Expert
  /\ RingExperts \in BOOLEAN
  /\ Auxiliary \subseteq Layer /\ DenseCached \subseteq Layer \ Auxiliary
  /\ Modes \subseteq {"token", "hinted", "batch", "scan"}
  /\ ReadsFail \in BOOLEAN /\ LateReads \in BOOLEAN

VARIABLES
  buf, pending, ring, cq, ready,   \* the scheduler
  cached,    \* the layers in the dense RAM cache
  mode,      \* the kind of the running pass
  layer,     \* the layer it works on
  pc,        \* where in the layer it is
  stage,     \* what the current submit and wait are for
  got,       \* blocks collected by the current wait
  parking,   \* blocks of other layers set aside by waits
  mine,      \* blocks the layer is computed from
  spec,      \* experts prefetched on a prediction
  need,      \* experts the router selected
  left       \* batch: selected experts of the chunks to come

io == <<buf, pending, ring, cq, ready>>
vars == <<io, cached, mode, layer, pc, stage, got, parking, mine, spec, need, left>>

IO == INSTANCE IoScheduler WITH held <- got \cup parking \cup mine

Init ==
  /\ buf = [b \in Buffer |-> "free"]
  /\ pending = <<>> /\ ring = {} /\ cq = {} /\ ready = {}
  /\ cached = {}
  /\ mode = "none" /\ layer = 0 /\ pc = "idle" /\ stage = "none"
  /\ got = {} /\ parking = {} /\ mine = {}
  /\ spec = {} /\ need = {} /\ left = {}

-----------------------------------------------------------------------------
OfLayer(S, l) == {x \in S : x.req.layer = l}
DenseOf(S) == {x \in S : x.req.kind = "dense"}
ExpertsIn(S, E) == {x \in S : x.req.kind = "expert" /\ x.req.expert \in E}

\* The reads of a set of experts: in the order of the routes, which is that of
\* their scores, or of their ids (batch).
Reads(E) ==
  {[i \in 1 .. Cardinality(E) |-> IO!ExpertOf(layer, order[i])] :
     order \in {o \in [1 .. Cardinality(E) -> E] :
                 \A i, j \in DOMAIN o :
                   i < j => IF mode = "batch" THEN o[i] < o[j] ELSE o[i] # o[j]}}

MissingAll == need   \* mutant: prefetched experts are read again

Missing == need \ spec

ChunkSizeNoSlack == Cardinality(Buffer)   \* mutant: every buffer counts

\* The batch path reads at most this many experts at a time.
ChunkSize == IF Cardinality(Buffer) > 3 THEN Cardinality(Buffer) - 2 ELSE 1

Chunk(E) == {e \in E : Cardinality({f \in E : f < e}) < ChunkSize}

ExpectedButOne ==   \* mutant: the last expert of a chunk is not waited for
  CASE stage = "dense" -> 1
    [] stage = "spec"  -> Cardinality(spec)
    [] stage = "hinted" -> Cardinality(need)
    [] stage = "rest"  -> Cardinality(Missing)
    [] stage = "chunk" -> Cardinality(Chunk(left)) - 1
    [] OTHER           -> 0

ExpectedOfRoutes ==   \* mutant: waits for all selected experts, cached or prefetched
  CASE stage = "dense" -> 1
    [] stage = "spec"  -> Cardinality(spec)
    [] stage = "hinted" -> Cardinality(need)
    [] stage = "rest"  -> Cardinality(need)
    [] stage = "chunk" -> Cardinality(Chunk(left))
    [] OTHER           -> 0

\* How many blocks of the layer the current wait is for.
Expected ==
  CASE stage = "dense" -> 1
    [] stage = "spec"  -> Cardinality(spec)
    [] stage = "hinted" -> Cardinality(need)
    [] stage = "rest"  -> Cardinality(Missing)
    [] stage = "chunk" -> Cardinality(Chunk(left))
    [] OTHER           -> 0

\* A wait begins with the blocks of its layer that an earlier one parked.
BeginWait ==
  /\ got' = OfLayer(parking, layer)
  /\ parking' = parking \ OfLayer(parking, layer)
  /\ pc' = "wait"

CacheDense == cached' = cached \cup ({layer} \cap DenseCached)

AfterDense ==
  IF mode # "scan" /\ layer \in Auxiliary THEN "skip"
  ELSE CASE mode = "token"  -> "predict"
         [] mode = "hinted" -> "hint"
         [] mode = "batch"  -> "union"
         [] mode = "scan"   -> "scanned"

\* Only a pass over one position keeps blocks of other layers for later.
Parks == mode \in {"token", "hinted"}

-----------------------------------------------------------------------------
(***************************************************************************)
(* The dense block of the layer.                                           *)
(***************************************************************************)
StartPass(m) ==
  /\ pc = "idle"
  /\ LateReads \/ ring = {}
  /\ mode' = m /\ layer' = 1 /\ pc' = "layer"
  /\ UNCHANGED <<io, cached, stage, got, parking, mine, spec, need, left>>

DenseFromCache ==
  /\ pc = "layer" /\ mode # "scan"
  /\ layer \in cached
  /\ pc' = AfterDense
  /\ UNCHANGED <<io, cached, mode, layer, stage, got, parking, mine, spec, need, left>>

DenseFromParking ==
  /\ pc = "layer" /\ Parks
  /\ layer \notin cached
  /\ \E x \in DenseOf(OfLayer(parking, layer)) :
       mine' = {x} /\ parking' = parking \ {x}
  /\ CacheDense
  /\ pc' = AfterDense
  /\ UNCHANGED <<io, mode, layer, stage, got, spec, need, left>>

DenseRead ==
  /\ pc = "layer"
  /\ layer \notin cached \/ mode = "scan"
  /\ Parks => DenseOf(OfLayer(parking, layer)) = {}
  /\ IO!Enqueue(<<IO!Dense(layer)>>)
  /\ stage' = "dense" /\ pc' = "submit"
  /\ UNCHANGED <<cached, mode, layer, got, parking, mine, spec, need, left>>

-----------------------------------------------------------------------------
(***************************************************************************)
(* Submitting and waiting.                                                 *)
(***************************************************************************)
\* The buffers are interchangeable: the least free one is taken.
Submit ==
  /\ pc = "submit"
  /\ \E b \in IO!Free :
       /\ \A c \in IO!Free : b <= c
       /\ IO!SubmitRing(b) \/ IO!LoadSync(b)
  /\ UNCHANGED <<cached, mode, layer, pc, stage, got, parking, mine, spec, need, left>>

NothingToRead == \/ stage = "rest" /\ Missing = {}
                 \/ stage = "hinted" /\ need = {}

\* The prefetch of predicted experts is waited for after the attention.
SubmitEnds ==
  /\ pc = "submit"
  /\ IO!Submitted
  /\ \/ stage = "spec" /\ pc' = "route" /\ UNCHANGED <<got, parking>>
     \/ NothingToRead /\ pc' = "compute" /\ UNCHANGED <<got, parking>>
     \/ stage # "spec" /\ ~NothingToRead /\ BeginWait
  /\ UNCHANGED <<io, cached, mode, layer, stage, mine, spec, need, left>>

\* One spin of the wait loop that finds something; any block of the layer counts.
Collect ==
  /\ pc = "wait"
  /\ Cardinality(got) < Expected
  /\ IO!Arrived # {}
  /\ got' = got \cup OfLayer(IO!Arrived, layer)
  /\ parking' = parking \cup (IO!Arrived \ OfLayer(IO!Arrived, layer))
  /\ IO!Drain
  /\ UNCHANGED <<cached, mode, layer, pc, stage, mine, spec, need, left>>

WaitOver == pc = "wait" /\ Cardinality(got) >= Expected

\* The other paths park nothing: blocks of other layers are released.
DenseArrives ==
  /\ WaitOver /\ stage = "dense"
  /\ DenseOf(got) # {}
  /\ mine' = got /\ got' = {}
  /\ IF mode = "scan" THEN UNCHANGED cached ELSE CacheDense
  /\ IF Parks
     THEN UNCHANGED <<io, parking>>
     ELSE IO!Release(parking) /\ parking' = {}
  /\ pc' = AfterDense
  /\ UNCHANGED <<mode, layer, stage, spec, need, left>>

-----------------------------------------------------------------------------
(***************************************************************************)
(* One position: prediction, attention, routing, the rest.                 *)
(***************************************************************************)
Choosable == {E \in SUBSET Expert : Cardinality(E) <= Active}

\* Prefetch only when the buffers suffice for all experts of a position.
Predict ==
  /\ pc = "predict"
  /\ \E E \in Choosable :
       /\ Cardinality(IO!Free) <= Active => E = {}
       /\ spec' = E
       /\ IF E = {} THEN pc' = "route" /\ UNCHANGED <<io, stage>>
          ELSE /\ \E reads \in Reads(E) : IO!Enqueue(reads)
               /\ stage' = "spec" /\ pc' = "submit"
  /\ UNCHANGED <<cached, mode, layer, got, parking, mine, need, left>>

RouteWithoutWaiting ==   \* mutant: a prediction that missed is not waited for
  /\ pc = "route"
  /\ need' \in Choosable
  /\ IF spec \cap need' = {} THEN pc' = "rest" /\ UNCHANGED <<got, parking>> ELSE BeginWait
  /\ UNCHANGED <<io, cached, mode, layer, stage, mine, spec, left>>

Route ==
  /\ pc = "route"
  /\ need' \in Choosable
  /\ IF spec = {} THEN pc' = "rest" /\ UNCHANGED <<got, parking>> ELSE BeginWait
  /\ UNCHANGED <<io, cached, mode, layer, stage, mine, spec, left>>

KeepHitsOnly ==   \* mutant: spurious blocks are dropped, not released
  /\ WaitOver /\ stage = "spec"
  /\ mine' = mine \cup ExpertsIn(got, need) /\ got' = {}
  /\ pc' = "rest"
  /\ UNCHANGED <<io, cached, mode, layer, stage, parking, spec, need, left>>

\* Prefetched experts that were not selected are released at once.
KeepHits ==
  /\ WaitOver /\ stage = "spec"
  /\ LET hits == ExpertsIn(got, need)
     IN  /\ mine' = mine \cup hits
         /\ IO!Release(got \ hits)
  /\ got' = {}
  /\ pc' = "rest"
  /\ UNCHANGED <<cached, mode, layer, stage, parking, spec, need, left>>

\* Whether the next layer's dense block is prefetched now.
Ahead ==
  /\ layer < Layers
  /\ Cardinality(IO!Free) >= 2
  /\ layer + 1 \notin cached
  /\ OfLayer(parking, layer + 1) = {}

Rest ==
  /\ pc = "rest"
  /\ \E reads \in Reads(Missing) :
       IO!Enqueue(reads \o IF Ahead THEN <<IO!Dense(layer + 1)>> ELSE <<>>)
  /\ stage' = "rest" /\ pc' = "submit"
  /\ UNCHANGED <<cached, mode, layer, got, parking, mine, spec, need, left>>

RestArrives ==
  /\ WaitOver /\ stage = "rest"
  /\ mine' = mine \cup got /\ got' = {}
  /\ pc' = "compute"
  /\ UNCHANGED <<io, cached, mode, layer, stage, parking, spec, need, left>>

-----------------------------------------------------------------------------
(***************************************************************************)
(* One position with experts that were not predicted.  Without prefetches  *)
(* nothing of another layer is in flight, so it does not show that this    *)
(* wait has a parking lot of its own.                                      *)
(***************************************************************************)
RouteHinted ==
  /\ pc = "hint"
  /\ \E E \in Choosable :
       /\ need' = E
       /\ \E reads \in Reads(E) : IO!Enqueue(reads)
  /\ stage' = "hinted" /\ pc' = "submit"
  /\ UNCHANGED <<cached, mode, layer, got, parking, mine, spec, left>>

HintedArrive ==
  /\ WaitOver /\ stage = "hinted"
  /\ mine' = mine \cup got /\ got' = {}
  /\ IO!Release(parking) /\ parking' = {}
  /\ pc' = "compute"
  /\ UNCHANGED <<cached, mode, layer, stage, spec, need, left>>

-----------------------------------------------------------------------------
(***************************************************************************)
(* Many positions: the union of their experts, chunk by chunk.             *)
(***************************************************************************)
Union ==
  /\ pc = "union"
  /\ need' \in SUBSET Expert
  /\ left' = need'
  /\ pc' = "chunk"
  /\ UNCHANGED <<io, cached, mode, layer, stage, got, parking, mine, spec>>

ReadChunk ==
  /\ pc = "chunk"
  /\ left # {}
  /\ \E reads \in Reads(Chunk(left)) : IO!Enqueue(reads)
  /\ stage' = "chunk" /\ pc' = "submit"
  /\ UNCHANGED <<cached, mode, layer, got, parking, mine, spec, need, left>>

\* The wait releases what it parked before the experts are accumulated.
ChunkArrives ==
  /\ WaitOver /\ stage = "chunk"
  /\ IO!Release(parking) /\ parking' = {}
  /\ pc' = "accumulate"
  /\ UNCHANGED <<cached, mode, layer, stage, got, mine, spec, need, left>>

AccumulateUnreleased ==   \* mutant: the blocks of a chunk stay occupied
  /\ pc = "accumulate"
  /\ got' = {}
  /\ left' = left \ Chunk(left)
  /\ pc' = "chunk"
  /\ UNCHANGED <<io, cached, mode, layer, stage, parking, mine, spec, need>>

Accumulate ==
  /\ pc = "accumulate"
  /\ IO!Release(got) /\ got' = {}
  /\ left' = left \ Chunk(left)
  /\ pc' = "chunk"
  /\ UNCHANGED <<cached, mode, layer, stage, parking, mine, spec, need>>

-----------------------------------------------------------------------------
(***************************************************************************)
(* Scanning dense blocks: the tensor is found in this one, or it is not.   *)
(***************************************************************************)
ScanNext ==
  /\ pc = "scanned"
  /\ layer < Layers
  /\ IO!Release(mine) /\ mine' = {}
  /\ layer' = layer + 1 /\ pc' = "layer" /\ stage' = "none"
  /\ UNCHANGED <<cached, mode, got, parking, spec, need, left>>

ScanEnds ==
  /\ pc = "scanned"
  /\ IO!Release(mine) /\ mine' = {}
  /\ layer' = 0 /\ pc' = "idle" /\ mode' = "none" /\ stage' = "none"
  /\ UNCHANGED <<cached, got, parking, spec, need, left>>

-----------------------------------------------------------------------------
(***************************************************************************)
(* The end of a layer, of a pass, of a request.                            *)
(***************************************************************************)
\* Phase 2 has run, or the layer is skipped; after the last layer the parked
\* blocks are released too.
Compute ==
  /\ pc \in {"compute", "skip"} \/ (pc = "chunk" /\ left = {})
  /\ mine' = {} /\ spec' = {} /\ need' = {}
  /\ stage' = "none"
  /\ IF layer < Layers
     THEN /\ IO!Release(mine) /\ UNCHANGED parking
          /\ layer' = layer + 1 /\ pc' = "layer" /\ UNCHANGED mode
     ELSE /\ IO!Release(mine \cup parking) /\ parking' = {}
          /\ layer' = 0 /\ pc' = "idle" /\ mode' = "none"
  /\ UNCHANGED <<cached, got, left>>

\* Every call of a pass may fail - a load, the budget of a wait, a wait for a
\* dense block that got another one, the compute: the request fails and its
\* scheduler goes with it.
RequestFails ==
  /\ pc # "idle"
  /\ IO!Reopen
  /\ got' = {} /\ parking' = {} /\ mine' = {}
  /\ spec' = {} /\ need' = {} /\ left' = {}
  /\ mode' = "none" /\ layer' = 0 /\ pc' = "idle" /\ stage' = "none"
  /\ UNCHANGED cached

\* The kernel.
Complete ==
  /\ \E t \in ring : \E whole \in {TRUE, ~ReadsFail} : IO!Complete(t, whole)
  /\ UNCHANGED <<cached, mode, layer, pc, stage, got, parking, mine, spec, need, left>>

Work ==
  \/ DenseFromCache \/ DenseFromParking \/ DenseRead
  \/ Submit \/ SubmitEnds \/ Collect \/ DenseArrives
  \/ Predict \/ Route \/ KeepHits \/ Rest \/ RestArrives
  \/ RouteHinted \/ HintedArrive
  \/ Union \/ ReadChunk \/ ChunkArrives \/ Accumulate
  \/ ScanNext \/ ScanEnds
  \/ Compute

Next == (\E m \in Modes : StartPass(m)) \/ Work \/ RequestFails \/ Complete

\* The thread of the pass keeps running and the kernel ends every read; that a
\* pass fails is never relied on.
Spec == Init /\ [][Next]_vars /\ WF_vars(Work) /\ WF_vars(Complete)

-----------------------------------------------------------------------------
TypeOK ==
  /\ IO!TypeOK
  /\ cached \subseteq DenseCached
  /\ mode \in Modes \cup {"none"}
  /\ layer \in 0 .. Layers
  /\ pc \in {"idle", "layer", "submit", "wait", "predict", "route", "rest",
             "hint", "skip", "compute", "union", "chunk", "accumulate", "scanned"}
  /\ stage \in {"none", "dense", "spec", "rest", "hinted", "chunk"}
  /\ spec \subseteq Expert /\ need \subseteq Expert /\ left \subseteq need

(***************************************************************************)
(* A pass uses the scheduler as it is meant to be used: it releases only   *)
(* what it has popped, and never drops a popped block without releasing    *)
(* its buffer - on any path through a layer, in either mode.               *)
(***************************************************************************)
UsesScheduler == IO!Spec

BuffersSound == IO!BuffersSound

(***************************************************************************)
(* "Hits are reused, misses are read as usual" (generation.rs): a layer    *)
(* goes through phase 2 with every selected expert, each exactly once,     *)
(* whatever else was in flight, parked or late.                            *)
(***************************************************************************)
ExpertsComplete ==
  /\ pc = "compute" =>
       \A e \in need : Cardinality(ExpertsIn(mine, {e})) = 1
  /\ pc = "accumulate" =>
       \A e \in Chunk(left) : Cardinality(ExpertsIn(got, {e})) = 1

(***************************************************************************)
(* "Anything left waits for buffers to free up (caller re-submits)"        *)
(* (scheduler.rs): a pass that waits for blocks can get them all, since    *)
(* nothing it waits for is still in the pending queue.                     *)
(***************************************************************************)
WaitCanEnd ==
  pc = "wait" =>
    Expected <= Cardinality(got) + Cardinality(OfLayer(ring, layer))
                  + Cardinality(OfLayer(cq \cup ready, layer))

(***************************************************************************)
(* Every pass ends, and does not need the 300 s wait budget for it: each   *)
(* wait gets its blocks from reads that are in flight.                     *)
(***************************************************************************)
PassEnds == pc # "idle" ~> pc = "idle"

(***************************************************************************)
(* A wait for the dense block of a layer ends with that block.             *)
(***************************************************************************)
DenseFound == WaitOver /\ stage = "dense" => DenseOf(got) # {}

(***************************************************************************)
(* Completions with an error or a short count are not decoded (completion  *)
(* pump of docs/local-inference-engine-spec.md): a layer is computed only  *)
(* from blocks that were read whole.                                       *)
(***************************************************************************)
UsedBlocksWhole ==
  /\ pc = "compute" => \A x \in mine : x.whole
  /\ pc \in {"predict", "hint", "union", "scanned"} => \A x \in DenseOf(mine) : x.whole
=============================================================================
