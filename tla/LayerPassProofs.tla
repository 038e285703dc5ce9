--------------------------- MODULE LayerPassProofs ---------------------------
(***************************************************************************)
(* A forward pass implements the client of IoScheduler, for any number of  *)
(* layers, buffers and experts, any routing and any order of completions;  *)
(* hence no pass leaks a buffer or uses one that is being refilled.        *)
(*                                                                         *)
(* Most steps only move blocks between the three places where a pass keeps *)
(* them.  What has to be known is that a place is empty when it is         *)
(* overwritten (Placed), and that no block is in two places (Apart), so    *)
(* that releasing one place does not release a block of another.           *)
(*                                                                         *)
(* The second half is about passes that predict nothing: the scheduler     *)
(* then holds exactly the reads of the running wait (Orderly), so that     *)
(* counting blocks of the layer is as good as knowing them.                *)
(***************************************************************************)
EXTENDS LayerPass, FiniteSetTheorems, TLAPS

Held == got \cup parking \cup mine

Proofs == INSTANCE IoSchedulerProofs WITH held <- Held

Typed ==
  /\ cached \subseteq DenseCached
  /\ mode \in Modes \cup {"none"}
  /\ layer \in 0 .. Layers
  /\ pc \in {"idle", "layer", "submit", "wait", "predict", "route", "rest",
             "hint", "skip", "compute", "union", "chunk", "accumulate", "scanned"}
  /\ stage \in {"none", "dense", "spec", "rest", "hinted", "chunk"}
  /\ spec \subseteq Expert /\ need \subseteq Expert /\ left \subseteq need
  /\ pc # "idle" => layer \in Layer /\ mode \in Modes

Placed ==
  /\ pc \notin {"wait", "accumulate"} => got = {}
  /\ pc \in {"idle", "layer"} => mine = {}
  /\ stage = "dense" /\ pc \in {"submit", "wait"} => mine = {}
  /\ pc = "route" /\ spec # {} => stage = "spec"
  /\ left # {} => \/ pc \in {"chunk", "accumulate"}
                  \/ stage = "chunk" /\ pc \in {"submit", "wait"}

Apart ==
  /\ got \cap parking = {}
  /\ got \cap mine = {}
  /\ parking \cap mine = {}

Local == Typed /\ Placed /\ Apart

IInv == Proofs!IInv /\ Local

(***************************************************************************)
(* The scheduler that the proofs are about is the one the pass runs on.    *)
(***************************************************************************)
LEMMA SameScheduler ==
  /\ IO!Init <=> Proofs!Init
  /\ IO!Next <=> Proofs!Next
  BY DEF IO!Init, Proofs!Init, IO!Next, Proofs!Next, IO!Enqueue, Proofs!Enqueue,
         IO!SubmitRing, Proofs!SubmitRing, IO!LoadSync, Proofs!LoadSync,
         IO!Complete, Proofs!Complete, IO!Drain, Proofs!Drain, IO!Release,
         Proofs!Release, IO!Reopen, Proofs!Reopen, IO!Arrived, Proofs!Arrived,
         IO!Request, Proofs!Request, IO!Without, Proofs!Without,
         IO!ThroughRing, Proofs!ThroughRing, Held

LEMMA SchedulerStep ==
  ASSUME Proofs!IInv, [IO!Next]_<<io, Held>>
  PROVE  Proofs!IInv'
  BY SameScheduler, Proofs!NextIInv DEF io, Proofs!ioVars, Held

-----------------------------------------------------------------------------
(***************************************************************************)
(* What a step of the scheduler needs of its arguments.                    *)
(***************************************************************************)
LEMMA ReadsType ==
  ASSUME layer \in Layer, NEW E \in SUBSET Expert, NEW reads \in Reads(E)
  PROVE  reads \in Seq(IO!Request)
  <1>1. Cardinality(E) \in Nat
    BY PassAssumption, FS_Subset, FS_CardinalityType
  <1>2. PICK order \in [1 .. Cardinality(E) -> E] :
          reads = [i \in 1 .. Cardinality(E) |-> IO!ExpertOf(layer, order[i])]
    BY DEF Reads
  <1>3. \A i \in 1 .. Cardinality(E) : IO!ExpertOf(layer, order[i]) \in IO!Request
    BY DEF IO!ExpertOf, IO!Request
  <1> QED
    BY <1>1, <1>2, <1>3

LEMMA EnqueueStep ==
  ASSUME pending \in Seq(IO!Request), NEW reads \in Seq(IO!Request),
         IO!Enqueue(reads), Held' = Held
  PROVE  IO!Next
  <1>1. pending' = pending \o reads
    BY DEF IO!Enqueue
  <1>2. pending' \in Seq(IO!Request)
    BY <1>1
  <1>3. SubSeq(pending', Len(pending) + 1, Len(pending')) = reads
    BY <1>1
  <1> QED
    BY <1>2, <1>3 DEF IO!Next, Held

LEMMA ReleaseStep ==
  ASSUME NEW blocks \in SUBSET Held, IO!Release(blocks), Held' = Held \ blocks
  PROVE  IO!Next
  BY DEF IO!Next, Held

LEMMA AfterDenseType ==
  ASSUME mode \in Modes
  PROVE  AfterDense \in {"skip", "predict", "hint", "union", "scanned"}
  BY PassAssumption DEF AfterDense

-----------------------------------------------------------------------------
(***************************************************************************)
(* The actions: each is a step of the scheduler and its client, or leaves  *)
(* both alone, and keeps the blocks in place.                              *)
(***************************************************************************)
LEMMA StartPassStep ==
  ASSUME IInv, NEW m \in Modes, StartPass(m)
  PROVE  UNCHANGED <<io, Held>> /\ Local'
  BY PassAssumption DEF IInv, Local, Typed, Placed, Apart, StartPass, Held, io, Layer

LEMMA DenseFromCacheStep ==
  ASSUME IInv, DenseFromCache
  PROVE  UNCHANGED <<io, Held>> /\ Local'
  BY AfterDenseType DEF IInv, Local, Typed, Placed, Apart, DenseFromCache, Held, io

LEMMA DenseFromParkingStep ==
  ASSUME IInv, DenseFromParking
  PROVE  UNCHANGED <<io, Held>> /\ Local'
  <1>1. PICK x \in parking : mine' = {x} /\ parking' = parking \ {x}
    BY DEF DenseFromParking, DenseOf, OfLayer
  <1>2. got = {} /\ got' = {} /\ mine = {}
    BY DEF DenseFromParking, IInv, Local, Placed
  <1>3. Held' = Held
    BY <1>1, <1>2 DEF Held
  <1> QED
    BY <1>1, <1>2, <1>3, AfterDenseType
       DEF IInv, Local, Typed, Placed, Apart, DenseFromParking, CacheDense, io

LEMMA DenseReadStep ==
  ASSUME IInv, DenseRead
  PROVE  IO!Next /\ Local'
  <1>1. Local'
    BY DEF IInv, Local, Typed, Placed, Apart, DenseRead
  <1>2. <<IO!Dense(layer)>> \in Seq(IO!Request)
    BY DEF IInv, Local, Typed, DenseRead, IO!Dense, IO!Request
  <1>3. Held' = Held
    BY DEF DenseRead, Held
  <1>4. pending \in Seq(IO!Request)
    BY DEF IInv, Proofs!IInv, Proofs!TypeOK, Proofs!Request, IO!Request
  <1> QED
    BY <1>1, <1>2, <1>3, <1>4, EnqueueStep DEF DenseRead

LEMMA SubmitStep ==
  ASSUME IInv, Submit
  PROVE  IO!Next /\ Local'
  <1>1. Local'
    BY DEF IInv, Local, Typed, Placed, Apart, Submit
  <1>2. PICK b \in Buffer : IO!SubmitRing(b) \/ IO!LoadSync(b)
    BY DEF Submit, IO!Free
  <1>3. Held' = Held
    BY DEF Submit, Held
  <1> QED
    BY <1>1, <1>2, <1>3 DEF IO!Next, Held

(***************************************************************************)
(* A wait begins with parked blocks: nothing is dropped, since what the    *)
(* last wait collected has left its place.                                 *)
(***************************************************************************)
LEMMA BeginWaitStep ==
  ASSUME got = {}, BeginWait, UNCHANGED mine, Apart
  PROVE  Held' = Held /\ Apart'
  BY DEF BeginWait, OfLayer, Held, Apart

LEMMA SubmitEndsStep ==
  ASSUME IInv, SubmitEnds
  PROVE  UNCHANGED <<io, Held>> /\ Local'
  <1>1. got = {} /\ pc = "submit"
    BY DEF SubmitEnds, IInv, Local, Placed
  <1>2. \/ BeginWait /\ UNCHANGED mine
        \/ UNCHANGED <<got, parking, mine>>
    BY DEF SubmitEnds
  <1>3. Held' = Held /\ Apart'
    BY <1>1, <1>2, BeginWaitStep DEF Held, Apart, IInv, Local
  <1>4. Typed'
    BY <1>1 DEF SubmitEnds, IInv, Local, Typed, BeginWait
  <1>5. Placed'
    BY <1>1 DEF SubmitEnds, IInv, Local, Placed, BeginWait, NothingToRead
  <1> QED
    BY <1>3, <1>4, <1>5 DEF SubmitEnds, Local, io

LEMMA CollectStep ==
  ASSUME IInv, Collect
  PROVE  IO!Next /\ Local'
  <1>1. Held' = Held \cup IO!Arrived
    BY DEF Collect, OfLayer, Held
  <1>2. IO!Next
    BY <1>1 DEF Collect, IO!Next, Held
  <1>3. IO!Arrived \cap Held = {}
    BY DEF IInv, Proofs!IInv, Proofs!BuffersSound, Proofs!OneOwner, IO!Arrived
  <1>4. Apart'
    BY <1>3 DEF Collect, OfLayer, Held, IInv, Local, Apart
  <1>5. Typed' /\ Placed'
    BY DEF Collect, IInv, Local, Typed, Placed
  <1> QED
    BY <1>2, <1>4, <1>5 DEF Local

LEMMA DenseArrivesStep ==
  ASSUME IInv, DenseArrives
  PROVE  [IO!Next]_<<io, Held>> /\ Local'
  <1>1. mine = {} /\ mine' = got /\ got' = {}
    BY DEF DenseArrives, WaitOver, IInv, Local, Placed
  <1>2. Apart' /\ Placed' /\ Typed'
    BY <1>1, AfterDenseType
       DEF DenseArrives, WaitOver, IInv, Local, Typed, Placed, Apart, CacheDense
  <1>3. CASE Parks
    <2>1. UNCHANGED <<io, Held>>
      BY <1>1, <1>3 DEF DenseArrives, Held, io
    <2> QED
      BY <1>2, <2>1 DEF Local
  <1>4. CASE ~Parks
    <2>1. IO!Release(parking) /\ parking' = {}
      BY <1>4 DEF DenseArrives
    <2>2. Held' = Held \ parking /\ parking \in SUBSET Held
      BY <1>1, <2>1 DEF Held, IInv, Local, Apart
    <2> QED
      BY <1>2, <2>1, <2>2, ReleaseStep DEF Local
  <1> QED
    BY <1>3, <1>4

-----------------------------------------------------------------------------
(***************************************************************************)
(* One position.                                                           *)
(***************************************************************************)
LEMMA EnqueueReadsStep ==
  ASSUME IInv, pc # "idle", NEW E \in SUBSET Expert, NEW reads \in Reads(E),
         IO!Enqueue(reads), UNCHANGED <<got, parking, mine>>
  PROVE  IO!Next
  <1>1. reads \in Seq(IO!Request)
    BY ReadsType DEF IInv, Local, Typed
  <1>2. pending \in Seq(IO!Request)
    BY DEF IInv, Proofs!IInv, Proofs!TypeOK, Proofs!Request, IO!Request
  <1>3. Held' = Held
    BY DEF Held
  <1> QED
    BY <1>1, <1>2, <1>3, EnqueueStep

LEMMA PredictStep ==
  ASSUME IInv, Predict
  PROVE  [IO!Next]_<<io, Held>> /\ Local'
  <1>1. PICK E \in SUBSET Expert :
          /\ spec' = E
          /\ IF E = {} THEN pc' = "route" /\ UNCHANGED <<io, stage>>
             ELSE /\ \E reads \in Reads(E) : IO!Enqueue(reads)
                  /\ stage' = "spec" /\ pc' = "submit"
    BY DEF Predict, Choosable
  <1>2. Local'
    BY <1>1 DEF Predict, IInv, Local, Typed, Placed, Apart
  <1>3. UNCHANGED <<got, parking, mine>> /\ pc = "predict"
    BY DEF Predict
  <1>4. CASE E = {}
    BY <1>1, <1>2, <1>3, <1>4 DEF Held
  <1>5. CASE E # {}
    BY <1>1, <1>2, <1>3, <1>5, EnqueueReadsStep
  <1> QED
    BY <1>4, <1>5

LEMMA RouteStep ==
  ASSUME IInv, Route
  PROVE  UNCHANGED <<io, Held>> /\ Local'
  <1>1. got = {} /\ pc = "route" /\ UNCHANGED <<io, mine>>
    BY DEF Route, IInv, Local, Placed
  <1>2. BeginWait \/ UNCHANGED <<got, parking, mine>>
    BY DEF Route
  <1>3. Held' = Held /\ Apart'
    BY <1>1, <1>2, BeginWaitStep DEF Held, Apart, IInv, Local
  <1>4. Typed'
    BY <1>1 DEF Route, Choosable, IInv, Local, Typed, Placed, BeginWait
  <1>5. Placed'
    BY <1>1 DEF Route, IInv, Local, Placed, BeginWait
  <1> QED
    BY <1>1, <1>3, <1>4, <1>5 DEF Local, io

LEMMA KeepHitsStep ==
  ASSUME IInv, KeepHits
  PROVE  IO!Next /\ Local'
  <1> DEFINE hits == ExpertsIn(got, need)
  <1>1. /\ mine' = mine \cup hits /\ got' = {} /\ parking' = parking
        /\ IO!Release(got \ hits)
        /\ hits \subseteq got
    BY DEF KeepHits, ExpertsIn
  <1>2. Held' = Held \ (got \ hits) /\ got \ hits \in SUBSET Held
    BY <1>1 DEF Held, IInv, Local, Apart
  <1>3. IO!Next
    BY <1>1, <1>2, ReleaseStep
  <1>4. Apart'
    BY <1>1 DEF IInv, Local, Apart
  <1>5. Typed' /\ Placed'
    BY DEF KeepHits, WaitOver, IInv, Local, Typed, Placed
  <1> QED
    BY <1>3, <1>4, <1>5 DEF Local

LEMMA RestStep ==
  ASSUME IInv, Rest
  PROVE  IO!Next /\ Local'
  <1>1. Local'
    BY DEF Rest, IInv, Local, Typed, Placed, Apart
  <1>2. layer \in Layer /\ Missing \in SUBSET Expert
    BY DEF Rest, IInv, Local, Typed, Missing
  <1> DEFINE ahead == IF Ahead THEN <<IO!Dense(layer + 1)>> ELSE <<>>
  <1>3. PICK reads \in Reads(Missing) : IO!Enqueue(reads \o ahead)
    BY DEF Rest
  <1>4. ahead \in Seq(IO!Request)
    <2>1. Ahead => layer + 1 \in Layer
      BY <1>2, PassAssumption DEF Ahead, Layer
    <2>2. Ahead => IO!Dense(layer + 1) \in IO!Request
      BY <2>1 DEF IO!Dense, IO!Request
    <2> QED
      BY <2>2
  <1>5. reads \in Seq(IO!Request)
    BY <1>2, ReadsType
  <1>6. reads \o ahead \in Seq(IO!Request)
    BY <1>4, <1>5
  <1>7. pending \in Seq(IO!Request)
    BY DEF IInv, Proofs!IInv, Proofs!TypeOK, Proofs!Request, IO!Request
  <1>8. Held' = Held
    BY DEF Rest, Held
  <1> QED
    BY <1>1, <1>3, <1>6, <1>7, <1>8, EnqueueStep

(***************************************************************************)
(* What a wait collected joins the blocks the layer is computed from.      *)
(***************************************************************************)
LEMMA RestArrivesStep ==
  ASSUME IInv, RestArrives
  PROVE  UNCHANGED <<io, Held>> /\ Local'
  <1>1. mine' = mine \cup got /\ got' = {} /\ parking' = parking
    BY DEF RestArrives
  <1>2. Held' = Held
    BY <1>1 DEF Held
  <1>3. Apart'
    BY <1>1 DEF IInv, Local, Apart
  <1>4. Typed' /\ Placed'
    BY DEF RestArrives, WaitOver, IInv, Local, Typed, Placed
  <1> QED
    BY <1>2, <1>3, <1>4 DEF RestArrives, Local, io

LEMMA RouteHintedStep ==
  ASSUME IInv, RouteHinted
  PROVE  IO!Next /\ Local'
  <1>1. PICK E \in SUBSET Expert : need' = E /\ \E reads \in Reads(E) : IO!Enqueue(reads)
    BY DEF RouteHinted, Choosable
  <1>2. Local'
    BY <1>1 DEF RouteHinted, IInv, Local, Typed, Placed, Apart
  <1>3. UNCHANGED <<got, parking, mine>> /\ pc = "hint"
    BY DEF RouteHinted
  <1> QED
    BY <1>1, <1>2, <1>3, EnqueueReadsStep

LEMMA HintedArriveStep ==
  ASSUME IInv, HintedArrive
  PROVE  IO!Next /\ Local'
  <1>1. /\ mine' = mine \cup got /\ got' = {} /\ parking' = {}
        /\ IO!Release(parking)
    BY DEF HintedArrive
  <1>2. Held' = Held \ parking /\ parking \in SUBSET Held
    BY <1>1 DEF Held, IInv, Local, Apart
  <1>3. Apart'
    BY <1>1 DEF Apart
  <1>4. Typed' /\ Placed'
    BY DEF HintedArrive, WaitOver, IInv, Local, Typed, Placed
  <1> QED
    BY <1>1, <1>2, <1>3, <1>4, ReleaseStep DEF Local

-----------------------------------------------------------------------------
(***************************************************************************)
(* Many positions, and scans.                                              *)
(***************************************************************************)
LEMMA UnionStep ==
  ASSUME IInv, Union
  PROVE  UNCHANGED <<io, Held>> /\ Local'
  BY DEF Union, IInv, Local, Typed, Placed, Apart, Held, io

LEMMA ReadChunkStep ==
  ASSUME IInv, ReadChunk
  PROVE  IO!Next /\ Local'
  <1>1. Chunk(left) \in SUBSET Expert /\ pc = "chunk"
    BY DEF ReadChunk, Chunk, IInv, Local, Typed
  <1>2. PICK reads \in Reads(Chunk(left)) : IO!Enqueue(reads)
    BY DEF ReadChunk
  <1>3. UNCHANGED <<got, parking, mine>>
    BY DEF ReadChunk
  <1>4. Local'
    BY DEF ReadChunk, IInv, Local, Typed, Placed, Apart
  <1> QED
    BY <1>1, <1>2, <1>3, <1>4, EnqueueReadsStep

LEMMA ChunkArrivesStep ==
  ASSUME IInv, ChunkArrives
  PROVE  IO!Next /\ Local'
  <1>1. IO!Release(parking) /\ parking' = {} /\ UNCHANGED <<got, mine>>
    BY DEF ChunkArrives
  <1>2. Held' = Held \ parking /\ parking \in SUBSET Held
    BY <1>1 DEF Held, IInv, Local, Apart
  <1>3. Local'
    BY <1>1 DEF ChunkArrives, WaitOver, IInv, Local, Typed, Placed, Apart
  <1> QED
    BY <1>1, <1>2, <1>3, ReleaseStep

LEMMA AccumulateStep ==
  ASSUME IInv, Accumulate
  PROVE  IO!Next /\ Local'
  <1>1. IO!Release(got) /\ got' = {} /\ UNCHANGED <<parking, mine>>
    BY DEF Accumulate
  <1>2. Held' = Held \ got /\ got \in SUBSET Held
    BY <1>1 DEF Held, IInv, Local, Apart
  <1>3. Local'
    BY <1>1 DEF Accumulate, IInv, Local, Typed, Placed, Apart
  <1> QED
    BY <1>1, <1>2, <1>3, ReleaseStep

LEMMA ScanStep ==
  ASSUME IInv, ScanNext \/ ScanEnds
  PROVE  IO!Next /\ Local'
  <1>1. IO!Release(mine) /\ mine' = {} /\ UNCHANGED <<got, parking>>
    BY DEF ScanNext, ScanEnds
  <1>2. Held' = Held \ mine /\ mine \in SUBSET Held
    BY <1>1 DEF Held, IInv, Local, Apart
  <1>3. IO!Next
    BY <1>1, <1>2, ReleaseStep
  <1>4. CASE ScanNext
    <2>1. layer' \in Layer
      BY <1>4, PassAssumption DEF ScanNext, IInv, Local, Typed, Layer
    <2>2. layer' \in 0 .. Layers
      BY <2>1, PassAssumption DEF Layer
    <2> QED
      BY <1>1, <1>3, <1>4, <2>1, <2>2 DEF ScanNext, IInv, Local, Typed, Placed, Apart
  <1>5. CASE ScanEnds
    BY <1>1, <1>3, <1>5, PassAssumption DEF ScanEnds, IInv, Local, Typed, Placed, Apart
  <1> QED
    BY <1>4, <1>5

-----------------------------------------------------------------------------
(***************************************************************************)
(* The end of a layer and of a request; the kernel.                        *)
(***************************************************************************)
LEMMA ComputeStep ==
  ASSUME IInv, Compute
  PROVE  IO!Next /\ Local'
  <1>1. got = {} /\ left = {} /\ got' = {} /\ left' = {} /\ mine' = {}
    BY DEF Compute, IInv, Local, Placed
  <1>2. CASE layer < Layers
    <2>1. IO!Release(mine) /\ parking' = parking
      BY <1>2 DEF Compute
    <2>2. Held' = Held \ mine /\ mine \in SUBSET Held
      BY <1>1, <2>1 DEF Held, IInv, Local, Apart
    <2>3. layer' \in Layer /\ layer' \in 0 .. Layers
      BY <1>2, PassAssumption DEF Compute, IInv, Local, Typed, Layer
    <2>4. Local'
      BY <1>1, <1>2, <2>1, <2>3 DEF Compute, IInv, Local, Typed, Placed, Apart
    <2> QED
      BY <2>1, <2>2, <2>4, ReleaseStep
  <1>3. CASE ~(layer < Layers)
    <2>1. IO!Release(mine \cup parking) /\ parking' = {}
      BY <1>3 DEF Compute
    <2>2. Held' = Held \ (mine \cup parking) /\ mine \cup parking \in SUBSET Held
      BY <1>1, <2>1 DEF Held
    <2>3. Local'
      BY <1>1, <1>3, <2>1, PassAssumption
         DEF Compute, IInv, Local, Typed, Placed, Apart
    <2> QED
      BY <2>1, <2>2, <2>3, ReleaseStep
  <1> QED
    BY <1>2, <1>3

LEMMA RequestFailsStep ==
  ASSUME IInv, RequestFails
  PROVE  IO!Next /\ Local'
  <1>1. IO!Reopen /\ Held' = {}
    BY DEF RequestFails, Held
  <1>2. IO!Next
    BY <1>1 DEF IO!Next, Held
  <1>3. Local'
    BY PassAssumption DEF RequestFails, IInv, Local, Typed, Placed, Apart
  <1> QED
    BY <1>2, <1>3

LEMMA CompleteStep ==
  ASSUME IInv, Complete
  PROVE  IO!Next /\ Local'
  <1>1. PICK t \in ring, whole \in BOOLEAN : IO!Complete(t, whole)
    BY PassAssumption DEF Complete
  <1>2. UNCHANGED Held
    BY DEF Complete, Held
  <1>3. IO!Next
    BY <1>1, <1>2 DEF IO!Next, Held
  <1>4. Local'
    BY DEF Complete, IInv, Local, Typed, Placed, Apart
  <1> QED
    BY <1>3, <1>4

-----------------------------------------------------------------------------
(***************************************************************************)
(* Every step of a pass is a step of the scheduler's protocol or a         *)
(* stutter of it, and keeps the pass in order.                             *)
(***************************************************************************)
LEMMA NextStep ==
  ASSUME IInv, [Next]_vars
  PROVE  [IO!Next]_<<io, Held>> /\ Local'
  <1>1. ASSUME NEW m \in Modes, StartPass(m)
        PROVE  [IO!Next]_<<io, Held>> /\ Local'
    BY <1>1, StartPassStep
  <1>2. CASE DenseFromCache \/ DenseFromParking \/ DenseRead
    BY <1>2, DenseFromCacheStep, DenseFromParkingStep, DenseReadStep
  <1>3. CASE Submit \/ SubmitEnds \/ Collect \/ DenseArrives
    BY <1>3, SubmitStep, SubmitEndsStep, CollectStep, DenseArrivesStep
  <1>4. CASE Predict \/ Route \/ KeepHits \/ Rest \/ RestArrives
    BY <1>4, PredictStep, RouteStep, KeepHitsStep, RestStep, RestArrivesStep
  <1>5. CASE RouteHinted \/ HintedArrive
    BY <1>5, RouteHintedStep, HintedArriveStep
  <1>6. CASE Union \/ ReadChunk \/ ChunkArrives \/ Accumulate
    BY <1>6, UnionStep, ReadChunkStep, ChunkArrivesStep, AccumulateStep
  <1>7. CASE ScanNext \/ ScanEnds \/ Compute
    BY <1>7, ScanStep, ComputeStep
  <1>8. CASE RequestFails \/ Complete
    BY <1>8, RequestFailsStep, CompleteStep
  <1>9. CASE UNCHANGED vars
    <2>1. UNCHANGED <<io, Held>>
      BY <1>9 DEF vars, Held
    <2>2. Local'
      BY <1>9 DEF vars, IInv, Local, Typed, Placed, Apart
    <2> QED
      BY <2>1, <2>2
  <1> QED
    BY <1>1, <1>2, <1>3, <1>4, <1>5, <1>6, <1>7, <1>8, <1>9 DEF Next, Work

LEMMA InitIInv == Init => IO!Init /\ IInv
  <1> SUFFICES ASSUME Init
               PROVE  IO!Init /\ IInv
    OBVIOUS
  <1>1. IO!Init
    BY DEF Init, IO!Init
  <1>2. Proofs!IInv
    BY <1>1, SameScheduler, Proofs!InitIInv
  <1>3. Local
    BY PassAssumption DEF Init, Local, Typed, Placed, Apart
  <1> QED
    BY <1>1, <1>2, <1>3 DEF IInv

(***************************************************************************)
(* The inductive invariant of a forward pass.                              *)
(***************************************************************************)
THEOREM Invariance == Spec => []IInv
  <1>1. IInv /\ [Next]_vars => IInv'
    BY NextStep, SchedulerStep DEF IInv
  <1> QED
    BY <1>1, InitIInv, PTL DEF Spec

(***************************************************************************)
(* A pass uses the scheduler as it is meant to be used: it releases only   *)
(* blocks it has popped, and forgets none without releasing it, in every   *)
(* mode and whatever the routing.                                          *)
(***************************************************************************)
THEOREM UsesSchedulerAlways == Spec => UsesScheduler
  <1>1. IInv /\ [Next]_vars => [IO!Next]_<<IO!ioVars, got \cup parking \cup mine>>
    BY NextStep DEF io, IO!ioVars, Held
  <1> QED
    BY <1>1, InitIInv, Invariance, PTL DEF Spec, UsesScheduler, IO!Spec

(***************************************************************************)
(* Hence no pass leaks a buffer, none is refilled under a block a layer is *)
(* computed from, and a popped block is readable exactly when its read was *)
(* whole.                                                                  *)
(***************************************************************************)
THEOREM BuffersAlwaysSound == Spec => []BuffersSound
  <1>1. IInv => BuffersSound
    BY DEF IInv, Proofs!IInv, BuffersSound, IO!BuffersSound, Proofs!BuffersSound,
           IO!OneOwner, Proofs!OneOwner, IO!BufferAccounted, Proofs!BufferAccounted,
           IO!ReadyWhenWhole, Proofs!ReadyWhenWhole, IO!Blocks, Proofs!Blocks, Held
  <1> QED
    BY <1>1, Invariance, PTL

(***************************************************************************)
(* The pass and its scheduler hold what they are meant to hold.            *)
(***************************************************************************)
THEOREM TypeCorrect == Spec => []TypeOK
  <1>1. IInv => TypeOK
    BY DEF IInv, Proofs!IInv, Local, Typed, TypeOK, IO!TypeOK, Proofs!TypeOK,
           IO!Request, Proofs!Request, IO!Ticket, Proofs!Ticket, IO!Block,
           Proofs!Block, Held
  <1> QED
    BY <1>1, Invariance, PTL

-----------------------------------------------------------------------------
(***************************************************************************)
(* Passes that predict nothing: batches, hinted tokens and scans, over one *)
(* buffer more than the experts of a position.                             *)
(***************************************************************************)
Unpredicted == "token" \notin Modes /\ Cardinality(Buffer) > Active

\* The reads that the running submit or wait is for.
ReadsOf(E) == {IO!ExpertOf(layer, e) : e \in E}

Asked ==
  CASE stage = "dense"  -> {IO!Dense(layer)}
    [] stage = "hinted" -> ReadsOf(need)
    [] stage = "chunk"  -> ReadsOf(Chunk(left))
    [] OTHER            -> {}

Queued == {pending[i] : i \in DOMAIN pending}
Answers == cq \cup ready \cup got
Reqs(S) == {x.req : x \in S}

\* Every read asked for, and no other, is in one place, once.
Distinct(s) == \A i, j \in DOMAIN s : s[i] = s[j] => i = j
OneEach(S) == \A x, y \in S : x.req = y.req => x = y

Exact ==
  /\ Distinct(pending) /\ OneEach(ring) /\ OneEach(Answers)
  /\ Queued \cap Reqs(ring) = {}
  /\ Queued \cap Reqs(Answers) = {}
  /\ Reqs(ring) \cap Reqs(Answers) = {}
  /\ Queued \cup Reqs(ring) \cup Reqs(Answers) = Asked

Quiet == pending = <<>> /\ ring = {} /\ cq = {} /\ ready = {}

\* S has the experts E, and no expert twice.
HasExperts(S, E) ==
  /\ \A e \in E : \E x \in S : x.req = IO!ExpertOf(layer, e)
  /\ \A x, y \in S : /\ x.req.kind = "expert" /\ y.req.kind = "expert"
                     /\ x.req.expert = y.req.expert
                     => x = y

DenseOnly == \A x, y \in mine : x.req.kind = "dense" /\ x = y

Orderly ==
  /\ parking = {} /\ spec = {}
  /\ pc \notin {"predict", "route", "rest"}
  /\ pc \in {"submit", "wait"} =>
       /\ stage \in {"dense", "hinted", "chunk"}
       /\ Exact /\ DenseOnly
       /\ stage = "hinted" => Cardinality(need) <= Active
  /\ pc = "wait" => pending = <<>>
  /\ pc \notin {"submit", "wait"} => Quiet
  /\ pc \notin {"submit", "wait", "compute"} => DenseOnly
  /\ pc = "compute" => HasExperts(mine, need)
  /\ pc = "accumulate" => HasExperts(got, Chunk(left))

-----------------------------------------------------------------------------
(***************************************************************************)
(* Counting.                                                               *)
(***************************************************************************)
\* A union has at most as many elements as its parts.
LEMMA UnionBound ==
  ASSUME NEW S, NEW T, IsFiniteSet(S), IsFiniteSet(T)
  PROVE  /\ IsFiniteSet(S \cup T)
         /\ Cardinality(S) \in Nat /\ Cardinality(T) \in Nat /\ Cardinality(S \cup T) \in Nat
         /\ Cardinality(S \cup T) <= Cardinality(S) + Cardinality(T)
         /\ S \cap T = {} => Cardinality(S \cup T) = Cardinality(S) + Cardinality(T)
<1>1. IsFiniteSet(S \cup T)
      /\ Cardinality(S \cup T) = Cardinality(S) + Cardinality(T) - Cardinality(S \cap T)
  BY FS_Union
<1>2. IsFiniteSet(S \cap T)
  BY FS_Intersection
<1>3. /\ Cardinality(S) \in Nat /\ Cardinality(T) \in Nat
      /\ Cardinality(S \cup T) \in Nat /\ Cardinality(S \cap T) \in Nat
  BY <1>1, <1>2, FS_CardinalityType
<1>4. S \cap T = {} => Cardinality(S \cap T) = 0
  BY FS_EmptySet
<1>5. QED
  BY <1>1, <1>3, <1>4

\* Blocks and tickets of different reads are as many as the reads.
LEMMA CountReqs ==
  ASSUME NEW S, OneEach(S), IsFiniteSet(Reqs(S))
  PROVE  IsFiniteSet(S) /\ Cardinality(S) = Cardinality(Reqs(S))
<1> DEFINE f == [x \in S |-> x.req]
<1>1. f \in Injection(S, Reqs(S)) /\ f \in Surjection(S, Reqs(S))
  BY DEF OneEach, Reqs, Injection, Surjection, IsInjective
<1>2. QED
  BY <1>1, FS_Injection

\* The buffers of blocks or tickets are at most as many as these.
Bufs(S) == {x.buf : x \in S}

\* A set of tickets or blocks occupies at most as many buffers.
LEMMA CountBufs ==
  ASSUME NEW S, IsFiniteSet(S)
  PROVE  IsFiniteSet(Bufs(S)) /\ Cardinality(Bufs(S)) <= Cardinality(S)
<1> DEFINE f == [x \in S |-> x.buf]
<1>1. f \in Surjection(S, Bufs(S))
  BY DEF Bufs, Surjection
<1>2. QED
  BY <1>1, FS_Surjection

\* There are as many reads as experts to read.
LEMMA CountReads ==
  ASSUME NEW E \in SUBSET Expert
  PROVE  /\ IsFiniteSet(E) /\ Cardinality(E) \in Nat
         /\ IsFiniteSet(ReadsOf(E)) /\ Cardinality(ReadsOf(E)) = Cardinality(E)
<1>1. IsFiniteSet(E) /\ Cardinality(E) \in Nat
  BY PassAssumption, FS_Subset, FS_CardinalityType
<1> DEFINE f == [e \in E |-> IO!ExpertOf(layer, e)]
<1>2. f \in Injection(E, ReadsOf(E)) /\ f \in Surjection(E, ReadsOf(E))
  BY DEF ReadsOf, Injection, Surjection, IsInjective, IO!ExpertOf
<1>3. IsFiniteSet(ReadsOf(E)) /\ Cardinality(ReadsOf(E)) <= Cardinality(E)
  BY <1>1, <1>2, FS_Surjection
<1>4. Cardinality(E) = Cardinality(ReadsOf(E))
  BY <1>2, <1>3, FS_Injection
<1>5. QED
  BY <1>1, <1>3, <1>4

\* A chunk is no larger than it may be.
LEMMA ChunkBound ==
  ASSUME NEW E \in SUBSET Expert
  PROVE  Chunk(E) \in SUBSET Expert /\ Cardinality(Chunk(E)) <= ChunkSize
<1> DEFINE below(e) == {f \in E : f < e}
           rank == [e \in Chunk(E) |-> Cardinality(below(e))]
<1>1. E \subseteq Nat /\ IsFiniteSet(E)
  BY PassAssumption, FS_Subset
<1>2. ASSUME NEW e \in E PROVE IsFiniteSet(below(e)) /\ Cardinality(below(e)) \in Nat
  BY <1>1, FS_Subset, FS_CardinalityType
<1>3. ASSUME NEW d \in E, NEW e \in E, d < e
      PROVE  Cardinality(below(d)) # Cardinality(below(e))
  <2>1. below(d) \in SUBSET below(e)
    <3>1. ASSUME NEW f \in E, f < d PROVE f < e
      <4>1. f \in Nat /\ d \in Nat /\ e \in Nat
        BY <1>1
      <4>2. QED
        BY <1>3, <3>1, <4>1
    <3>2. QED
      BY <3>1
  <2>2. d \in below(e) /\ d \notin below(d)
    BY <1>1, <1>3
  <2> HIDE DEF below
  <2>3. QED
    BY <1>2, <2>1, <2>2, FS_Subset
<1>4. ChunkSize \in Nat
  BY PassAssumption, FS_CardinalityType DEF ChunkSize
<1>5. Chunk(E) \subseteq E /\ \A e \in Chunk(E) : Cardinality(below(e)) < ChunkSize
  BY DEF Chunk
<1> HIDE DEF below
<1>6. rank \in [Chunk(E) -> 0 .. ChunkSize - 1]
  BY <1>2, <1>4, <1>5
<1>7. ASSUME NEW d \in Chunk(E), NEW e \in Chunk(E), rank[d] = rank[e] PROVE d = e
  <2>1. d \in E /\ e \in E /\ Cardinality(below(d)) = Cardinality(below(e))
    BY <1>5, <1>7
  <2>2. d \in Nat /\ e \in Nat
    BY <1>1, <2>1
  <2>3. d < e \/ e < d \/ d = e
    BY <2>2
  <2>4. QED
    BY <1>3, <2>1, <2>3
<1> HIDE DEF rank
<1>8. rank \in Injection(Chunk(E), 0 .. ChunkSize - 1)
  BY <1>6, <1>7 DEF Injection, IsInjective
<1>9. /\ IsFiniteSet(0 .. ChunkSize - 1)
      /\ Cardinality(0 .. ChunkSize - 1) = ChunkSize
  <2>1. 0 \in Int /\ ChunkSize - 1 \in Int
    BY <1>4
  <2>2. QED
    BY <1>4, <2>1, FS_Interval
<1>10. Cardinality(Chunk(E)) <= ChunkSize
  BY <1>8, <1>9, FS_Injection
<1>11. QED
  BY <1>5, <1>10

-----------------------------------------------------------------------------
(***************************************************************************)
(* Queues of requests.                                                     *)
(***************************************************************************)
ElementsOf(s) == {s[i] : i \in DOMAIN s}

\* Taking one request out of a queue of different ones.
LEMMA WithoutOne ==
  ASSUME NEW s \in Seq(IO!Request), Distinct(s), NEW k \in DOMAIN s
  PROVE  /\ Distinct(IO!Without(s, k))
         /\ ElementsOf(IO!Without(s, k)) = ElementsOf(s) \ {s[k]}
<1> DEFINE n == Len(s)
           u == IO!Without(s, k)
<1>1. n \in Nat /\ DOMAIN s = 1 .. n /\ k \in 1 .. n
  OBVIOUS
<1> DEFINE v == SubSeq(s, 1, k - 1)
           w == SubSeq(s, k + 1, n)
<1>2. /\ v \in Seq(IO!Request) /\ w \in Seq(IO!Request)
      /\ Len(v) = k - 1 /\ Len(w) = n - k
      /\ \A i \in 1 .. k - 1 : v[i] = s[i]
      /\ \A i \in 1 .. n - k : w[i] = s[k + i]
  BY <1>1, SMTT(30)
<1>3. /\ Len(u) = n - 1 /\ DOMAIN u = 1 .. n - 1
      /\ \A i \in 1 .. n - 1 : u[i] = IF i < k THEN s[i] ELSE s[i + 1]
  <2>1. u = v \o w
    BY DEF IO!Without
  <2> HIDE DEF u, v, w, n
  <2>2. /\ Len(u) = Len(v) + Len(w) /\ DOMAIN u = 1 .. Len(v) + Len(w)
        /\ \A i \in 1 .. Len(v) + Len(w) :
             u[i] = IF i <= Len(v) THEN v[i] ELSE w[i - Len(v)]
    <3>1. v \in Seq(IO!Request) /\ w \in Seq(IO!Request)
      BY <1>2
    <3>2. Len(v) \in Nat /\ Len(w) \in Nat
      BY <3>1
    <3>3. v \o w \in Seq(IO!Request) /\ Len(v \o w) = Len(v) + Len(w)
      BY <3>1
    <3>4. ASSUME NEW i \in 1 .. Len(v) + Len(w)
          PROVE (v \o w)[i] = IF i <= Len(v) THEN v[i] ELSE w[i - Len(v)]
      BY <3>1, <3>2
    <3>5. DOMAIN (v \o w) = 1 .. Len(v) + Len(w)
      BY <3>1, <3>2
    <3>6. QED
      BY <2>1, <3>3, <3>4, <3>5
  <2>3. Len(v) + Len(w) = n - 1
    BY <1>1, <1>2
  <2>4. ASSUME NEW i \in 1 .. n - 1 PROVE u[i] = IF i < k THEN s[i] ELSE s[i + 1]
    <3>1. CASE i < k
      <4>1. i <= Len(v) /\ i \in 1 .. k - 1
        BY <1>1, <1>2, <3>1
      <4>2. QED
        BY <1>2, <2>2, <2>3, <3>1, <4>1
    <3>2. CASE ~(i < k)
      <4>1. ~(i <= Len(v)) /\ i - Len(v) \in 1 .. n - k /\ k + (i - Len(v)) = i + 1
        BY <1>1, <1>2, <3>2
      <4>2. QED
        BY <1>2, <2>2, <2>3, <3>2, <4>1
    <3>3. QED
      BY <3>1, <3>2
  <2>5. QED
    BY <2>2, <2>3, <2>4
<1> HIDE DEF u, n
<1>4. Distinct(u)
  <2> SUFFICES ASSUME NEW i \in 1 .. n - 1, NEW j \in 1 .. n - 1, u[i] = u[j] PROVE i = j
    BY <1>3 DEF Distinct
  <2> DEFINE a == IF i < k THEN i ELSE i + 1
             b == IF j < k THEN j ELSE j + 1
  <2>1. a \in 1 .. n /\ b \in 1 .. n /\ s[a] = s[b]
    BY <1>1, <1>3
  <2>2. a = b
    BY <1>1, <2>1 DEF Distinct
  <2>3. QED
    BY <1>1, <2>2
<1>5. ASSUME NEW x PROVE x \in ElementsOf(u) <=> x \in ElementsOf(s) \ {s[k]}
  <2>1. ASSUME NEW i \in 1 .. n - 1 PROVE u[i] \in ElementsOf(s) \ {s[k]}
    <3> DEFINE a == IF i < k THEN i ELSE i + 1
    <3>1. a \in 1 .. n /\ a # k /\ u[i] = s[a]
      BY <1>1, <1>3
    <3> HIDE DEF a
    <3>2. s[a] # s[k]
      BY <1>1, <3>1 DEF Distinct
    <3>3. QED
      BY <1>1, <3>1, <3>2 DEF ElementsOf
  <2>2. ASSUME NEW i \in 1 .. n, s[i] # s[k] PROVE s[i] \in ElementsOf(u)
    <3> DEFINE a == IF i < k THEN i ELSE i - 1
    <3>1. i # k
      BY <2>2
    <3>2. a \in 1 .. n - 1 /\ u[a] = s[i]
      BY <1>1, <1>3, <3>1
    <3>3. QED
      BY <1>3, <3>2 DEF ElementsOf
  <2>3. QED
    BY <1>1, <1>3, <2>1, <2>2 DEF ElementsOf
<1>6. QED
  BY <1>4, <1>5 DEF u

\* Taking out the first.
LEMMA TailOne ==
  ASSUME NEW s \in Seq(IO!Request), Distinct(s), s # <<>>
  PROVE  /\ Distinct(Tail(s)) /\ Head(s) \in ElementsOf(s)
         /\ ElementsOf(Tail(s)) = ElementsOf(s) \ {Head(s)}
<1> DEFINE n == Len(s)
           u == Tail(s)
<1>1. n \in Nat \ {0} /\ DOMAIN s = 1 .. n /\ Head(s) = s[1]
  OBVIOUS
<1>2. /\ Len(u) = n - 1 /\ DOMAIN u = 1 .. n - 1
      /\ \A i \in 1 .. n - 1 : u[i] = s[i + 1]
  BY <1>1
<1> HIDE DEF u, n
<1>3. Distinct(u)
  <2> SUFFICES ASSUME NEW i \in 1 .. n - 1, NEW j \in 1 .. n - 1, u[i] = u[j] PROVE i = j
    BY <1>2 DEF Distinct
  <2>1. i + 1 \in 1 .. n /\ j + 1 \in 1 .. n
    BY <1>1
  <2>2. s[i + 1] = s[j + 1]
    BY <1>2
  <2>3. i + 1 = j + 1
    BY <1>1, <2>1, <2>2 DEF Distinct
  <2>4. QED
    BY <2>3
<1>4. ASSUME NEW i \in 1 .. n - 1 PROVE u[i] \in ElementsOf(s) /\ u[i] # s[1]
  <2>1. i + 1 \in 1 .. n /\ 1 \in 1 .. n /\ i + 1 # 1
    BY <1>1
  <2>2. QED
    BY <1>1, <1>2, <2>1, SMTT(30) DEF ElementsOf, Distinct
<1>5. ASSUME NEW i \in 1 .. n, i # 1 PROVE s[i] \in ElementsOf(u)
  <2>1. i - 1 \in 1 .. n - 1 /\ (i - 1) + 1 = i
    BY <1>1, <1>5
  <2>2. QED
    BY <1>2, <2>1 DEF ElementsOf
<1>6. 1 \in DOMAIN s
  BY <1>1
<1>7. ElementsOf(u) = ElementsOf(s) \ {s[1]}
  BY <1>1, <1>2, <1>4, <1>5 DEF ElementsOf
<1>8. QED
  BY <1>1, <1>3, <1>6, <1>7 DEF u, ElementsOf

\* The reads of a set of experts are different and are all of them.
LEMMA ReadsComplete ==
  ASSUME layer \in Layer, NEW E \in SUBSET Expert, NEW reads \in Reads(E)
  PROVE  reads \in Seq(IO!Request) /\ Distinct(reads) /\ ElementsOf(reads) = ReadsOf(E)
<1> DEFINE n == Cardinality(E)
<1>1. n \in Nat /\ IsFiniteSet(E) /\ E \subseteq Nat
  BY CountReads, PassAssumption
<1>2. PICK order \in [1 .. n -> E] :
        /\ reads = [i \in 1 .. n |-> IO!ExpertOf(layer, order[i])]
        /\ \A i, j \in DOMAIN order :
             i < j => IF mode = "batch" THEN order[i] < order[j] ELSE order[i] # order[j]
  BY DEF Reads
<1> HIDE DEF n
<1>3. ASSUME NEW i \in 1 .. n, NEW j \in 1 .. n, i # j PROVE order[i] # order[j]
  <2>1. ASSUME NEW a \in 1 .. n, NEW b \in 1 .. n, a < b PROVE order[a] # order[b]
    <3>1. order[a] \in Nat /\ order[b] \in Nat
      BY <1>1
    <3>2. order[a] < order[b] \/ order[a] # order[b]
      BY <1>2, <2>1
    <3>3. QED
      BY <3>1, <3>2
  <2>2. i < j \/ j < i
    BY <1>1, <1>3
  <2>3. QED
    BY <2>1, <2>2
<1>4. order \in Surjection(1 .. n, E)
  <2>1. IsFiniteSet(1 .. n) /\ Cardinality(1 .. n) = n
    BY <1>1, FS_Interval
  <2>2. order \in Injection(1 .. n, E)
    BY <1>3 DEF Injection, IsInjective
  <2>3. QED
    BY <1>1, <2>1, <2>2, FS_Injection DEF n
<1>5. Distinct(reads)
  <2>1. ASSUME NEW i \in 1 .. n, NEW j \in 1 .. n, reads[i] = reads[j] PROVE i = j
    <3>1. IO!ExpertOf(layer, order[i]) = IO!ExpertOf(layer, order[j])
      BY <1>2, <2>1
    <3>2. order[i] = order[j]
      BY <3>1 DEF IO!ExpertOf
    <3>3. QED
      BY <1>3, <3>2
  <2>2. DOMAIN reads = 1 .. n
    BY <1>2
  <2>3. QED
    BY <2>1, <2>2 DEF Distinct
<1>6. ElementsOf(reads) = ReadsOf(E)
  <2>1. \A e \in E : \E i \in 1 .. n : order[i] = e
    BY <1>4 DEF Surjection
  <2>2. ASSUME NEW r \in ElementsOf(reads) PROVE r \in ReadsOf(E)
    BY <1>2 DEF ElementsOf, ReadsOf
  <2>3. ASSUME NEW r \in ReadsOf(E) PROVE r \in ElementsOf(reads)
    <3>1. PICK e \in E : r = IO!ExpertOf(layer, e)
      BY DEF ReadsOf
    <3>2. PICK i \in 1 .. n : order[i] = e
      BY <2>1
    <3>3. QED
      BY <1>2, <3>1, <3>2 DEF ElementsOf
  <2>4. QED
    BY <2>2, <2>3
<1>7. reads \in Seq(IO!Request)
  BY ReadsType
<1>8. QED
  BY <1>5, <1>6, <1>7

-----------------------------------------------------------------------------
(***************************************************************************)
(* What a wait is for, and what it has when it is over.                    *)
(***************************************************************************)
Waiting == pc \in {"submit", "wait"}

\* What is asked for is as much as is expected, all of the layer.
LEMMA AskedFacts ==
  ASSUME IInv, Orderly, Waiting
  PROVE  /\ IsFiniteSet(Asked) /\ Cardinality(Asked) \in Nat
         /\ Cardinality(Asked) = Expected
         /\ \A r \in Asked : r.layer = layer
         /\ need \in SUBSET Expert /\ left \in SUBSET Expert
<1>1. need \in SUBSET Expert /\ left \in SUBSET Expert /\ Chunk(left) \in SUBSET Expert
  BY ChunkBound DEF IInv, Local, Typed
<1>2. stage \in {"dense", "hinted", "chunk"}
  BY DEF Orderly, Waiting
<1>3. CASE stage = "dense"
  <2>1. Asked = {IO!Dense(layer)} /\ Expected = 1
    BY <1>3 DEF Asked, Expected
  <2>2. IsFiniteSet({IO!Dense(layer)}) /\ Cardinality({IO!Dense(layer)}) = 1
    BY FS_Singleton
  <2>3. IO!Dense(layer).layer = layer
    BY DEF IO!Dense
  <2>4. QED
    BY <1>1, <2>1, <2>2, <2>3
<1>4. CASE stage = "hinted"
  <2>1. Asked = ReadsOf(need) /\ Expected = Cardinality(need)
    BY <1>4 DEF Asked, Expected
  <2>2. QED
    BY <1>1, <2>1, CountReads DEF ReadsOf, IO!ExpertOf
<1>5. CASE stage = "chunk"
  <2>1. Asked = ReadsOf(Chunk(left)) /\ Expected = Cardinality(Chunk(left))
    BY <1>5 DEF Asked, Expected
  <2>2. QED
    BY <1>1, <2>1, CountReads, SMTT(30) DEF ReadsOf, IO!ExpertOf
<1>6. QED
  BY <1>2, <1>3, <1>4, <1>5

\* Reads in flight and blocks are as many as the reads they are for.
LEMMA InPlay ==
  ASSUME IInv, Orderly, Waiting
  PROVE  /\ IsFiniteSet(ring) /\ Cardinality(ring) = Cardinality(Reqs(ring))
         /\ IsFiniteSet(Answers) /\ Cardinality(Answers) = Cardinality(Reqs(Answers))
         /\ IsFiniteSet(got) /\ Cardinality(got) = Cardinality(Reqs(got))
         /\ IsFiniteSet(Reqs(ring)) /\ IsFiniteSet(Reqs(Answers)) /\ IsFiniteSet(Reqs(got))
         /\ Reqs(got) \subseteq Reqs(Answers)
<1>1. Exact
  BY DEF Orderly, Waiting
<1>2. OneEach(ring) /\ OneEach(Answers) /\ Reqs(ring) \subseteq Asked /\ Reqs(Answers) \subseteq Asked
  BY <1>1 DEF Exact
<1>3. OneEach(got) /\ Reqs(got) \subseteq Reqs(Answers)
  BY <1>2 DEF OneEach, Answers, Reqs
<1>4. /\ IsFiniteSet(Reqs(ring)) /\ IsFiniteSet(Reqs(Answers)) /\ IsFiniteSet(Reqs(got))
  <2>1. IsFiniteSet(Asked)
    BY AskedFacts
  <2>2. /\ Reqs(ring) \in SUBSET Asked /\ Reqs(Answers) \in SUBSET Asked
        /\ Reqs(got) \in SUBSET Asked
    BY <1>2, <1>3
  <2>3. QED
    BY <2>1, <2>2, FS_Subset
<1>5. QED
  BY <1>2, <1>3, <1>4, CountReqs

\* A wait that is over has everything that was asked for.
LEMMA AllArrived ==
  ASSUME IInv, Orderly, WaitOver
  PROVE  /\ Reqs(got) = Asked /\ OneEach(got)
         /\ ring = {} /\ cq = {} /\ ready = {} /\ pending = <<>>
<1>1. Waiting /\ Exact /\ pending = <<>> /\ Cardinality(got) >= Expected
  BY DEF WaitOver, Waiting, Orderly
<1>2. /\ IsFiniteSet(Asked) /\ Cardinality(Asked) \in Nat /\ Cardinality(Asked) = Expected
      /\ Cardinality(got) = Cardinality(Reqs(got)) /\ IsFiniteSet(Reqs(got))
      /\ Reqs(got) \subseteq Reqs(Answers)
  BY <1>1, AskedFacts, InPlay
<1>3. Reqs(got) \in SUBSET Asked
  BY <1>1, <1>2 DEF Exact
<1>4. Cardinality(Reqs(got)) <= Cardinality(Asked) /\ Cardinality(Reqs(got)) \in Nat
  BY <1>2, <1>3, FS_Subset, FS_CardinalityType
<1>5. Cardinality(Asked) = Cardinality(Reqs(got))
  BY <1>1, <1>2, <1>4
<1>6. Reqs(got) = Asked
  BY <1>2, <1>3, <1>5, FS_Subset
<1>7. ring = {}
  <2>1. Reqs(ring) \subseteq Asked /\ Reqs(ring) \cap Reqs(Answers) = {}
    BY <1>1 DEF Exact
  <2>2. Reqs(ring) = {}
    BY <1>2, <1>6, <2>1
  <2>3. QED
    BY <2>2 DEF Reqs
<1>8. ASSUME NEW x \in cq \cup ready PROVE FALSE
  <2>1. x \in Answers /\ x.req \in Asked
    BY <1>1 DEF Answers, Reqs, Exact
  <2>2. PICK y \in got : y.req = x.req
    BY <1>6, <2>1 DEF Reqs
  <2>3. y = x
    BY <1>1, <2>1, <2>2 DEF Exact, OneEach, Answers
  <2>4. cq \cap Held = {} /\ ready \cap Held = {}
    BY DEF IInv, Proofs!IInv, Proofs!BuffersSound, Proofs!OneOwner
  <2>5. QED
    BY <2>2, <2>3, <2>4 DEF Held
<1>9. OneEach(got)
  BY <1>1 DEF Exact, OneEach, Answers
<1>10. QED
  BY <1>1, <1>6, <1>7, <1>8, <1>9

\* The buffers suffice: when none is free, nothing is left to submit.
LEMMA BuffersSuffice ==
  ASSUME Unpredicted, IInv, Orderly, pc = "submit", IO!Submitted
  PROVE  pending = <<>>
<1> SUFFICES ASSUME IO!Free = {}, pending # <<>> PROVE FALSE
  BY DEF IO!Submitted
<1>1. Waiting /\ Exact /\ DenseOnly /\ stage \in {"dense", "hinted", "chunk"}
  BY DEF Waiting, Orderly
<1>2. got = {} /\ parking = {} /\ (stage = "dense" => mine = {})
  BY DEF IInv, Local, Placed, Orderly
<1>3. Buffer \subseteq Bufs(ring) \cup Bufs(Answers) \cup Bufs(mine)
  <2>1. ASSUME NEW b \in Buffer
        PROVE  (\E t \in ring : t.buf = b) \/ (\E x \in cq \cup ready \cup Held : x.buf = b)
    <3>1. buf[b] # "free"
      BY DEF IO!Free
    <3>2. QED
      BY <3>1 DEF IInv, Proofs!IInv, Proofs!BuffersSound, Proofs!BufferAccounted, Proofs!Blocks
  <2>2. Held = mine
    BY <1>2 DEF Held
  <2>3. QED
    BY <2>1, <2>2 DEF Bufs, Answers
<1> DEFINE r == pending[1]
<1>4. r \in Queued
  <2>1. pending \in Seq(Proofs!Request)
    BY DEF IInv, Proofs!IInv, Proofs!TypeOK
  <2>2. 1 \in DOMAIN pending
    BY <2>1
  <2>3. QED
    BY <2>2 DEF Queued
<1> HIDE DEF r
<1>5. Reqs(ring) \cup Reqs(Answers) \in SUBSET (Asked \ {r}) /\ r \in Asked
      /\ Reqs(ring) \cap Reqs(Answers) = {}
  BY <1>1, <1>4 DEF Exact
<1>6. /\ IsFiniteSet(Asked) /\ Cardinality(Asked) \in Nat
      /\ IsFiniteSet(ring) /\ Cardinality(ring) = Cardinality(Reqs(ring))
      /\ IsFiniteSet(Answers) /\ Cardinality(Answers) = Cardinality(Reqs(Answers))
      /\ IsFiniteSet(Reqs(ring)) /\ IsFiniteSet(Reqs(Answers))
  BY <1>1, AskedFacts, InPlay
<1>7. Cardinality(ring) + Cardinality(Answers) <= Cardinality(Asked) - 1
  <2>1. IsFiniteSet(Asked \ {r}) /\ Cardinality(Asked \ {r}) = Cardinality(Asked) - 1
    BY <1>5, <1>6, FS_RemoveElement
  <2>2. Cardinality(Reqs(ring) \cup Reqs(Answers)) <= Cardinality(Asked \ {r})
    BY <1>5, <2>1, FS_Subset
  <2>3. Cardinality(Reqs(ring) \cup Reqs(Answers))
          = Cardinality(Reqs(ring)) + Cardinality(Reqs(Answers))
    BY <1>5, <1>6, UnionBound
  <2>4. QED
    BY <1>6, <2>1, <2>2, <2>3
<1>8. /\ IsFiniteSet(mine) /\ Cardinality(mine) \in {0, 1}
      /\ stage = "dense" => Cardinality(mine) = 0
  <2>1. ASSUME NEW x \in mine PROVE mine = {x}
    BY <1>1, <2>1 DEF DenseOnly
  <2>2. CASE mine = {}
    BY <2>2, FS_EmptySet
  <2>3. CASE mine # {}
    <3>1. PICK x : mine = {x}
      BY <2>1, <2>3
    <3>2. IsFiniteSet({x}) /\ Cardinality({x}) = 1
      BY FS_Singleton
    <3>3. QED
      BY <1>2, <2>3, <3>1, <3>2
  <2>4. QED
    BY <2>2, <2>3
<1>9. Cardinality(Buffer) <= Cardinality(ring) + Cardinality(Answers) + Cardinality(mine)
  <2>1. /\ IsFiniteSet(Bufs(ring)) /\ Cardinality(Bufs(ring)) <= Cardinality(ring)
        /\ IsFiniteSet(Bufs(Answers)) /\ Cardinality(Bufs(Answers)) <= Cardinality(Answers)
        /\ IsFiniteSet(Bufs(mine)) /\ Cardinality(Bufs(mine)) <= Cardinality(mine)
    BY <1>6, <1>8, CountBufs
  <2> DEFINE U == Bufs(ring) \cup Bufs(Answers)
  <2>2. /\ IsFiniteSet(U) /\ Cardinality(U) \in Nat
        /\ Cardinality(U) <= Cardinality(Bufs(ring)) + Cardinality(Bufs(Answers))
        /\ Cardinality(Bufs(ring)) \in Nat /\ Cardinality(Bufs(Answers)) \in Nat
    BY <2>1, UnionBound
  <2>3. Buffer \in SUBSET (U \cup Bufs(mine))
    BY <1>3
  <2> HIDE DEF U
  <2>4. /\ IsFiniteSet(U \cup Bufs(mine)) /\ Cardinality(U \cup Bufs(mine)) \in Nat
        /\ Cardinality(U \cup Bufs(mine)) <= Cardinality(U) + Cardinality(Bufs(mine))
        /\ Cardinality(Bufs(mine)) \in Nat
    BY <2>1, <2>2, UnionBound
  <2>5. Cardinality(Buffer) <= Cardinality(U \cup Bufs(mine)) /\ Cardinality(Buffer) \in Nat
    BY <2>3, <2>4, FS_Subset, FS_CardinalityType, PassAssumption
  <2>6. /\ Cardinality(ring) \in Nat /\ Cardinality(Answers) \in Nat
        /\ Cardinality(mine) \in Nat
    BY <1>6, <1>8, FS_CardinalityType
  <2>7. QED
    BY <2>1, <2>2, <2>4, <2>5, <2>6
<1>10. /\ Cardinality(Buffer) \in Nat /\ Active \in Nat \ {0} /\ Cardinality(Buffer) > Active
       /\ Cardinality(ring) \in Nat /\ Cardinality(Answers) \in Nat
  BY <1>6, FS_CardinalityType, PassAssumption DEF Unpredicted
<1>11. CASE stage = "dense"
  <2>1. Cardinality(Asked) = 1
    BY <1>1, <1>11, AskedFacts DEF Expected
  <2>2. QED
    BY <1>7, <1>8, <1>9, <1>10, <1>11, <2>1
<1>12. CASE stage = "hinted"
  <2>1. Cardinality(Asked) <= Active
    BY <1>1, <1>12, AskedFacts DEF Expected, Orderly, Waiting
  <2>2. QED
    BY <1>6, <1>7, <1>8, <1>9, <1>10, <2>1
<1>13. CASE stage = "chunk"
  <2>1. Cardinality(Asked) <= ChunkSize
    <3>1. Cardinality(Asked) = Cardinality(Chunk(left)) /\ left \in SUBSET Expert
      BY <1>1, <1>13, AskedFacts DEF Expected
    <3>2. QED
      BY <3>1, ChunkBound
  <2>2. ChunkSize = IF Cardinality(Buffer) > 3 THEN Cardinality(Buffer) - 2 ELSE 1
    BY DEF ChunkSize
  <2>3. QED
    BY <1>6, <1>7, <1>8, <1>9, <1>10, <2>1, <2>2
<1>14. QED
  BY <1>1, <1>11, <1>12, <1>13

-----------------------------------------------------------------------------
(***************************************************************************)
(* The actions keep a pass orderly.                                        *)
(***************************************************************************)
\* A pass that reads nothing.
LEMMA StartOrderly ==
  ASSUME IInv, Orderly, NEW m \in Modes, StartPass(m)
  PROVE  Orderly'
BY DEF StartPass, Orderly, Quiet, DenseOnly, HasExperts, io

\* After its dense block a layer of a pass that predicts nothing.
LEMMA NoPrediction ==
  ASSUME Unpredicted, IInv, pc # "idle"
  PROVE  AfterDense \in {"skip", "hint", "union", "scanned"} /\ mode # "token"
<1>1. mode \in {"hinted", "batch", "scan"}
  BY PassAssumption DEF Unpredicted, IInv, Local, Typed
<1>2. QED
  BY <1>1 DEF AfterDense

\* A dense block from the RAM cache reads nothing.
LEMMA FromCacheOrderly ==
  ASSUME Unpredicted, IInv, Orderly, DenseFromCache
  PROVE  Orderly'
<1>1. pc' \in {"skip", "hint", "union", "scanned"} /\ pc = "layer"
  BY NoPrediction DEF DenseFromCache
<1>2. QED
  BY <1>1 DEF DenseFromCache, Orderly, Quiet, DenseOnly, HasExperts, io

\* Nothing is ever parked.
LEMMA FromParkingOrderly ==
  ASSUME Orderly, DenseFromParking
  PROVE  Orderly'
<1>1. FALSE
  BY DEF Orderly, DenseFromParking, DenseOf, OfLayer
<1>2. QED
  BY <1>1

\* Requests are put on an empty scheduler.
LEMMA AskExact ==
  ASSUME Orderly, Quiet, got = {}, NEW reads \in Seq(IO!Request), Distinct(reads),
         IO!Enqueue(reads), got' = got, ElementsOf(reads) = Asked'
  PROVE  Exact'
<1>1. /\ pending = <<>> /\ ring' = {} /\ cq' = {} /\ ready' = {} /\ got' = {}
      /\ pending' = pending \o reads
  BY DEF Quiet, IO!Enqueue
<1>2. pending' = reads
  BY <1>1
<1>3. Queued' = Asked'
  BY <1>2 DEF Queued, ElementsOf
<1>4. Reqs(ring') = {} /\ Answers' = {} /\ Reqs(Answers') = {}
  BY <1>1 DEF Reqs, Answers
<1>5. OneEach(ring') /\ OneEach(Answers') /\ Distinct(pending')
  BY <1>1, <1>2, <1>4 DEF OneEach
<1>6. QED
  BY <1>3, <1>4, <1>5 DEF Exact

\* The dense block is asked for.
LEMMA DenseReadOrderly ==
  ASSUME Unpredicted, IInv, Orderly, DenseRead
  PROVE  Orderly'
<1>1. /\ pc = "layer" /\ pc' = "submit" /\ stage' = "dense" /\ layer' = layer
      /\ UNCHANGED <<parking, mine, spec, need, left, got>>
      /\ IO!Enqueue(<<IO!Dense(layer)>>)
  BY DEF DenseRead
<1>2. Quiet /\ DenseOnly /\ parking = {} /\ spec = {} /\ got = {}
  BY <1>1 DEF Orderly, IInv, Local, Placed
<1>3. IO!Dense(layer) \in IO!Request
  BY <1>1 DEF IInv, Local, Typed, IO!Dense, IO!Request
<1> DEFINE reads == <<IO!Dense(layer)>>
<1>4. reads \in Seq(IO!Request) /\ Distinct(reads) /\ ElementsOf(reads) = {IO!Dense(layer)}
  <2>1. DOMAIN reads = {1} /\ reads[1] = IO!Dense(layer)
    OBVIOUS
  <2>2. reads \in Seq(IO!Request)
    BY <1>3
  <2> HIDE DEF reads
  <2>3. QED
    BY <2>1, <2>2 DEF Distinct, ElementsOf
<1>5. Asked' = {IO!Dense(layer)}
  <2>1. Asked' = {IO!Dense(layer)'}
    BY <1>1 DEF Asked
  <2>2. IO!Dense(layer)' = IO!Dense(layer)
    BY <1>1 DEF IO!Dense
  <2>3. QED
    BY <2>1, <2>2
<1> HIDE DEF reads
<1>6. Exact'
  BY <1>1, <1>2, <1>4, <1>5, AskExact DEF reads
<1>7. DenseOnly'
  BY <1>1, <1>2 DEF DenseOnly
<1>8. QED
  BY <1>1, <1>2, <1>6, <1>7 DEF Orderly

\* The reads of experts are put on an empty scheduler.
LEMMA AskExperts ==
  ASSUME IInv, Orderly, Quiet, got = {}, pc # "idle", UNCHANGED <<got, layer>>,
         NEW E \in SUBSET Expert, NEW reads \in Reads(E), IO!Enqueue(reads),
         Asked' = ReadsOf(E)'
  PROVE  Exact'
<1>1. layer \in Layer
  BY DEF IInv, Local, Typed
<1>2. reads \in Seq(IO!Request) /\ Distinct(reads) /\ ElementsOf(reads) = ReadsOf(E)
  BY <1>1, ReadsComplete
<1>3. ReadsOf(E)' = ReadsOf(E)
  BY DEF ReadsOf, IO!ExpertOf
<1>4. QED
  BY <1>2, <1>3, AskExact

\* The experts named by the request are asked for.
LEMMA HintOrderly ==
  ASSUME Unpredicted, IInv, Orderly, RouteHinted
  PROVE  Orderly'
<1>1. PICK E \in Choosable : need' = E /\ \E reads \in Reads(E) : IO!Enqueue(reads)
  BY DEF RouteHinted
<1>2. /\ pc = "hint" /\ pc' = "submit" /\ stage' = "hinted"
      /\ UNCHANGED <<got, layer, parking, mine, spec>>
  BY DEF RouteHinted
<1>3. Quiet /\ DenseOnly /\ parking = {} /\ spec = {} /\ got = {}
  BY <1>2 DEF Orderly, IInv, Local, Placed
<1>4. E \in SUBSET Expert /\ Cardinality(E) <= Active
  BY DEF Choosable
<1>5. Asked' = ReadsOf(E)'
  BY <1>1, <1>2 DEF Asked
<1>6. Exact'
  BY <1>1, <1>2, <1>3, <1>4, <1>5, AskExperts
<1>7. DenseOnly'
  BY <1>2, <1>3 DEF DenseOnly
<1>8. QED
  BY <1>1, <1>2, <1>3, <1>4, <1>6, <1>7 DEF Orderly

\* The experts of a chunk are asked for.
LEMMA ReadChunkOrderly ==
  ASSUME Unpredicted, IInv, Orderly, ReadChunk
  PROVE  Orderly'
<1>1. PICK reads \in Reads(Chunk(left)) : IO!Enqueue(reads)
  BY DEF ReadChunk
<1>2. /\ pc = "chunk" /\ pc' = "submit" /\ stage' = "chunk"
      /\ UNCHANGED <<got, layer, parking, mine, spec, left>>
  BY DEF ReadChunk
<1>3. Quiet /\ DenseOnly /\ parking = {} /\ spec = {} /\ got = {}
  BY <1>2 DEF Orderly, IInv, Local, Placed
<1>4. Chunk(left) \in SUBSET Expert
  BY ChunkBound DEF IInv, Local, Typed
<1>5. Chunk(left)' = Chunk(left)
  BY <1>2 DEF Chunk, ChunkSize
<1>6. Asked' = ReadsOf(Chunk(left))'
  BY <1>2 DEF Asked
<1>7. ReadsOf(Chunk(left))' = ReadsOf(Chunk(left))
  BY <1>2, <1>5 DEF ReadsOf, IO!ExpertOf
<1>8. reads \in Seq(IO!Request) /\ Distinct(reads) /\ ElementsOf(reads) = ReadsOf(Chunk(left))
  <2>1. layer \in Layer
    BY <1>2 DEF IInv, Local, Typed
  <2>2. QED
    BY <1>4, <2>1, ReadsComplete
<1>9. Exact'
  BY <1>1, <1>2, <1>3, <1>6, <1>7, <1>8, AskExact
<1>10. DenseOnly'
  BY <1>2, <1>3 DEF DenseOnly
<1>11. QED
  BY <1>2, <1>3, <1>9, <1>10 DEF Orderly

\* What the running wait is for does not change while reads move.
LEMMA SameAsked ==
  ASSUME UNCHANGED <<stage, layer, need, left>>
  PROVE  Asked' = Asked
BY DEF Asked, ReadsOf, IO!Dense, IO!ExpertOf, Chunk, ChunkSize

\* One request is put on the ring.
LEMMA RingExact ==
  ASSUME pending \in Seq(IO!Request), Exact, NEW b \in Buffer, IO!SubmitRing(b),
         UNCHANGED <<stage, layer, need, left, got>>
  PROVE  Exact'
<1>1. PICK i \in DOMAIN pending :
        /\ pending' = IO!Without(pending, i)
        /\ ring' = ring \cup {[req |-> pending[i], buf |-> b]}
  BY DEF IO!SubmitRing
<1> DEFINE r == pending[i]
           t == [req |-> r, buf |-> b]
<1>2. Asked' = Asked /\ Answers' = Answers /\ Reqs(Answers') = Reqs(Answers)
  BY SameAsked DEF IO!SubmitRing, Answers
<1>3. Distinct(pending') /\ ElementsOf(pending') = ElementsOf(pending) \ {r}
  BY <1>1, WithoutOne DEF Exact
<1>4. Queued' = Queued \ {r} /\ r \in Queued
  BY <1>3 DEF Queued, ElementsOf
<1>5. t.req = r /\ ring' = ring \cup {t}
  BY <1>1
<1> HIDE DEF r, t
<1>6. Reqs(ring') = Reqs(ring) \cup {r}
  BY <1>5 DEF Reqs
<1>7. OneEach(ring')
  <2>1. \A s \in ring : s.req # r
    BY <1>4 DEF Exact, Reqs
  <2>2. QED
    BY <1>5, <2>1 DEF Exact, OneEach
<1>8. OneEach(Answers')
  BY <1>2 DEF Exact
<1>9. QED
  BY <1>2, <1>3, <1>4, <1>6, <1>7, <1>8 DEF Exact

\* One expert is loaded.
LEMMA SyncExact ==
  ASSUME pending \in Seq(IO!Request), Exact, NEW b \in Buffer, IO!LoadSync(b),
         UNCHANGED <<stage, layer, need, left, got>>
  PROVE  Exact'
<1> DEFINE r == Head(pending)
           x == [req |-> r, buf |-> b, whole |-> TRUE]
<1>1. /\ pending # <<>> /\ pending' = Tail(pending)
      /\ ready' = ready \cup {x} /\ UNCHANGED <<ring, cq>>
  BY DEF IO!LoadSync
<1>2. Asked' = Asked /\ Answers' = Answers \cup {x} /\ x.req = r
  BY <1>1, SameAsked DEF Answers
<1>3. Distinct(pending') /\ ElementsOf(pending') = ElementsOf(pending) \ {r}
      /\ r \in ElementsOf(pending)
  BY <1>1, TailOne DEF Exact
<1>4. Queued' = Queued \ {r} /\ r \in Queued
  BY <1>3 DEF Queued, ElementsOf
<1> HIDE DEF r, x
<1>5. Reqs(Answers') = Reqs(Answers) \cup {r} /\ Reqs(ring') = Reqs(ring)
  BY <1>1, <1>2 DEF Reqs
<1>6. OneEach(Answers')
  <2>1. \A s \in Answers : s.req # r
    BY <1>4 DEF Exact, Reqs
  <2>2. QED
    BY <1>2, <2>1 DEF Exact, OneEach
<1>7. OneEach(ring')
  BY <1>1 DEF Exact
<1>8. QED
  BY <1>2, <1>3, <1>4, <1>5, <1>6, <1>7 DEF Exact

\* Submitting moves one request.
LEMMA SubmitOrderly ==
  ASSUME Unpredicted, IInv, Orderly, Submit
  PROVE  Orderly'
<1>1. PICK b \in Buffer : IO!SubmitRing(b) \/ IO!LoadSync(b)
  BY DEF Submit, IO!Free
<1>2. UNCHANGED <<stage, layer, need, left, got, parking, spec, pc, mine>> /\ pc = "submit"
  BY DEF Submit
<1>3. Exact
  BY <1>2 DEF Orderly
<1>4. pending \in Seq(IO!Request)
  BY DEF IInv, Proofs!IInv, Proofs!TypeOK, Proofs!Request, IO!Request
<1>5. Exact'
  BY <1>1, <1>2, <1>3, <1>4, RingExact, SyncExact
<1>6. QED
  BY <1>2, <1>5 DEF Orderly, DenseOnly

\* A wait begins with nothing left to submit.
LEMMA SubmitEndsOrderly ==
  ASSUME Unpredicted, IInv, Orderly, SubmitEnds
  PROVE  Orderly'
<1>1. pc = "submit" /\ UNCHANGED <<io, stage, layer, need, left, spec, mine>>
  BY DEF SubmitEnds
<1>2. pending = <<>>
  BY <1>1, BuffersSuffice DEF SubmitEnds
<1>3. Exact /\ DenseOnly /\ parking = {} /\ got = {} /\ stage \in {"dense", "hinted", "chunk"}
  BY <1>1 DEF Orderly, IInv, Local, Placed
<1>4. got' = {} /\ parking' = {}
  BY <1>3 DEF SubmitEnds, BeginWait, OfLayer
<1>5. Exact'
  <2>1. Asked' = Asked /\ Answers' = Answers
    BY <1>1, <1>3, <1>4, SameAsked DEF Answers, io
  <2>2. QED
    BY <1>1, <1>3, <2>1 DEF Exact, io, Queued
<1>6. DenseOnly'
  BY <1>1, <1>3 DEF DenseOnly
<1>7. CASE NothingToRead
  <2>1. pc' = "compute" /\ stage = "hinted" /\ need = {}
    BY <1>3, <1>7 DEF SubmitEnds, NothingToRead
  <2>2. Asked = {}
    BY <2>1 DEF Asked, ReadsOf
  <2>3. ring = {} /\ cq = {} /\ ready = {}
    BY <1>3, <2>2 DEF Exact, Reqs, Answers
  <2>4. HasExperts(mine, need)'
    BY <1>1, <1>3, <2>1 DEF HasExperts, DenseOnly
  <2>5. QED
    BY <1>1, <1>2, <1>4, <2>1, <2>3, <2>4 DEF Orderly, Quiet, io
<1>8. CASE ~NothingToRead
  <2>1. pc' = "wait"
    BY <1>3, <1>8 DEF SubmitEnds, BeginWait
  <2>2. pending' = <<>>
    BY <1>1, <1>2 DEF io
  <2>3. QED
    BY <1>1, <1>3, <1>4, <1>5, <1>6, <2>1, <2>2 DEF Orderly
<1>9. QED
  BY <1>7, <1>8

\* All that arrives is for the running wait.
LEMMA CollectOrderly ==
  ASSUME Unpredicted, IInv, Orderly, Collect
  PROVE  Orderly'
<1>1. /\ pc = "wait" /\ UNCHANGED <<pc, pending, ring, stage, layer, need, left, spec, mine>>
      /\ cq' = {} /\ ready' = {}
  BY DEF Collect, IO!Drain
<1>2. Exact /\ parking = {} /\ Waiting
  BY <1>1 DEF Orderly, Waiting
<1>3. \A x \in IO!Arrived : x.req.layer = layer
  <2>1. \A x \in IO!Arrived : x.req \in Asked
    BY <1>2 DEF Exact, Reqs, Answers, IO!Arrived
  <2>2. QED
    BY <1>2, <2>1, AskedFacts
<1>4. OfLayer(IO!Arrived, layer) = IO!Arrived
  BY <1>3 DEF OfLayer
<1>5. got' = got \cup cq \cup ready /\ parking' = {}
  BY <1>2, <1>4 DEF Collect, IO!Arrived
<1>6. Answers' = Answers
  BY <1>1, <1>5 DEF Answers
<1>7. Asked' = Asked
  BY <1>1, SameAsked
<1>8. Exact'
  BY <1>1, <1>2, <1>6, <1>7 DEF Exact, Queued
<1>9. QED
  BY <1>1, <1>5, <1>8 DEF Orderly, DenseOnly

\* A read completes: its ticket becomes a block.
LEMMA CompleteOrderly ==
  ASSUME Unpredicted, IInv, Orderly, Complete
  PROVE  Orderly'
<1>1. PICK t \in ring, whole \in BOOLEAN : IO!Complete(t, whole)
  BY PassAssumption DEF Complete
<1>2. UNCHANGED <<pc, stage, layer, need, left, spec, mine, got, parking, pending, ready>>
  BY <1>1 DEF Complete, IO!Complete
<1>3. Exact /\ pc \in {"submit", "wait"}
  BY DEF Orderly, Quiet
<1> DEFINE x == [req |-> t.req, buf |-> t.buf, whole |-> whole]
<1>4. ring' = ring \ {t} /\ cq' = cq \cup {x} /\ x.req = t.req
  BY <1>1 DEF IO!Complete
<1> HIDE DEF x
<1>5. Answers' = Answers \cup {x}
  BY <1>2, <1>4 DEF Answers
<1>6. Reqs(ring') = Reqs(ring) \ {t.req} /\ t.req \in Reqs(ring)
  BY <1>3, <1>4 DEF Exact, OneEach, Reqs
<1>7. Reqs(Answers') = Reqs(Answers) \cup {t.req}
  BY <1>4, <1>5 DEF Reqs
<1>8. OneEach(ring')
  BY <1>3, <1>4 DEF Exact, OneEach
<1>9. OneEach(Answers')
  <2>1. \A y \in Answers : y.req # t.req
    BY <1>3, <1>6 DEF Exact, Reqs
  <2>2. QED
    BY <1>3, <1>4, <1>5, <2>1 DEF Exact, OneEach
<1>10. Asked' = Asked /\ Queued' = Queued /\ Distinct(pending')
  BY <1>2, <1>3, SameAsked DEF Exact, Queued
<1>11. Exact'
  BY <1>3, <1>6, <1>7, <1>8, <1>9, <1>10 DEF Exact
<1>12. QED
  BY <1>2, <1>3, <1>11 DEF Orderly, DenseOnly

-----------------------------------------------------------------------------
(***************************************************************************)
(* What a wait brings.                                                     *)
(***************************************************************************)
\* The wait for a dense block ends with that block alone.
LEMMA DenseIsHere ==
  ASSUME IInv, Orderly, WaitOver, stage = "dense"
  PROVE  DenseOf(got) # {} /\ \A x, y \in got : x.req.kind = "dense" /\ x = y
<1>1. Reqs(got) = {IO!Dense(layer)} /\ OneEach(got)
  BY AllArrived DEF Asked
<1>2. \A x \in got : x.req = IO!Dense(layer)
  BY <1>1 DEF Reqs
<1>3. got # {}
  BY <1>1 DEF Reqs
<1>4. QED
  BY <1>1, <1>2, <1>3 DEF OneEach, DenseOf, IO!Dense

\* The wait for experts ends with these experts alone.
LEMMA ExpertsAreHere ==
  ASSUME IInv, Orderly, WaitOver, NEW E, Asked = ReadsOf(E)
  PROVE  /\ HasExperts(got, E)
         /\ \A x \in got : x.req.kind = "expert" /\ x.req.layer = layer
<1>1. Reqs(got) = ReadsOf(E) /\ OneEach(got)
  BY AllArrived
<1>2. \A x \in got : \E e \in E : x.req = IO!ExpertOf(layer, e)
  BY <1>1 DEF Reqs, ReadsOf
<1>3. \A e \in E : \E x \in got : x.req = IO!ExpertOf(layer, e)
  BY <1>1 DEF Reqs, ReadsOf
<1>4. ASSUME NEW x \in got
      PROVE  /\ x.req.kind = "expert" /\ x.req.layer = layer
             /\ x.req = IO!ExpertOf(layer, x.req.expert)
  <2>1. PICK e \in E : x.req = IO!ExpertOf(layer, e)
    BY <1>2
  <2>2. /\ IO!ExpertOf(layer, e).kind = "expert" /\ IO!ExpertOf(layer, e).layer = layer
        /\ IO!ExpertOf(layer, e).expert = e
    BY DEF IO!ExpertOf
  <2>3. QED
    BY <2>1, <2>2
<1>5. ASSUME NEW x \in got, NEW y \in got, x.req.expert = y.req.expert PROVE x = y
  <2>1. x.req = y.req
    BY <1>4, <1>5
  <2>2. QED
    BY <1>1, <2>1 DEF OneEach
<1>6. QED
  BY <1>3, <1>4, <1>5 DEF HasExperts

\* The layer has its dense block and nothing else is on its way.
LEMMA DenseArrivesOrderly ==
  ASSUME Unpredicted, IInv, Orderly, DenseArrives
  PROVE  Orderly'
<1>1. /\ WaitOver /\ stage = "dense" /\ pc = "wait"
      /\ mine' = got /\ got' = {} /\ pc' = AfterDense /\ UNCHANGED spec
  BY DEF DenseArrives, WaitOver
<1>2. \A x, y \in got : x.req.kind = "dense" /\ x = y
  BY <1>1, DenseIsHere
<1>3. ring = {} /\ cq = {} /\ ready = {} /\ pending = <<>> /\ parking = {} /\ spec = {}
  BY <1>1, AllArrived DEF Orderly
<1>4. pc' \in {"skip", "hint", "union", "scanned"}
  BY <1>1, NoPrediction
<1>5. Quiet' /\ parking' = {}
  BY <1>3 DEF DenseArrives, IO!Release, Quiet, io
<1>6. DenseOnly'
  BY <1>1, <1>2 DEF DenseOnly
<1>7. QED
  BY <1>1, <1>3, <1>4, <1>5, <1>6 DEF Orderly

\* The layer has its experts beside its dense block.
LEMMA HintedArriveOrderly ==
  ASSUME Unpredicted, IInv, Orderly, HintedArrive
  PROVE  Orderly'
<1>1. /\ WaitOver /\ stage = "hinted" /\ pc = "wait" /\ pc' = "compute"
      /\ mine' = mine \cup got /\ got' = {} /\ parking' = {} /\ UNCHANGED <<layer, need, spec>>
  BY DEF HintedArrive, WaitOver
<1>2. Asked = ReadsOf(need)
  BY <1>1 DEF Asked
<1>3. HasExperts(got, need) /\ \A x \in got : x.req.kind = "expert"
  BY <1>1, <1>2, ExpertsAreHere
<1>4. DenseOnly /\ spec = {}
  BY <1>1 DEF Orderly
<1>5. HasExperts(mine, need)'
  <2>1. \A e \in need : \E x \in mine' : x.req = IO!ExpertOf(layer, e)
    BY <1>1, <1>3 DEF HasExperts
  <2>2. \A x \in mine' : x.req.kind = "expert" => x \in got
    BY <1>1, <1>4 DEF DenseOnly
  <2>3. \A x, y \in mine' : /\ x.req.kind = "expert" /\ y.req.kind = "expert"
                            /\ x.req.expert = y.req.expert
                            => x = y
    BY <1>3, <2>2 DEF HasExperts
  <2>4. \A e : IO!ExpertOf(layer, e)' = IO!ExpertOf(layer', e)
    BY DEF IO!ExpertOf
  <2>5. QED
    BY <1>1, <2>1, <2>3 DEF HasExperts
<1>6. ring = {} /\ cq = {} /\ ready = {} /\ pending = <<>>
  BY <1>1, AllArrived
<1>7. Quiet'
  BY <1>6 DEF HintedArrive, IO!Release, Quiet
<1>8. QED
  BY <1>1, <1>4, <1>5, <1>7 DEF Orderly

\* Routing of a batch reads nothing.
LEMMA UnionOrderly ==
  ASSUME Unpredicted, IInv, Orderly, Union
  PROVE  Orderly'
BY DEF Union, Orderly, Quiet, DenseOnly, io

\* The chunk is complete.
LEMMA ChunkArrivesOrderly ==
  ASSUME Unpredicted, IInv, Orderly, ChunkArrives
  PROVE  Orderly'
<1>1. /\ WaitOver /\ stage = "chunk" /\ pc = "wait" /\ pc' = "accumulate"
      /\ parking' = {} /\ UNCHANGED <<layer, left, spec, got, mine>>
  BY DEF ChunkArrives, WaitOver
<1>2. Asked = ReadsOf(Chunk(left))
  BY <1>1 DEF Asked
<1>3. HasExperts(got, Chunk(left))
  BY <1>1, <1>2, ExpertsAreHere
<1>4. Chunk(left)' = Chunk(left)
  BY <1>1 DEF Chunk, ChunkSize
<1>5. HasExperts(got, Chunk(left))'
  BY <1>1, <1>3, <1>4 DEF HasExperts, IO!ExpertOf
<1>6. ring = {} /\ cq = {} /\ ready = {} /\ pending = <<>>
  BY <1>1, AllArrived
<1>7. Quiet'
  BY <1>6 DEF ChunkArrives, IO!Release, Quiet
<1>8. DenseOnly' /\ spec = {}
  BY <1>1 DEF Orderly, DenseOnly
<1>9. QED
  BY <1>1, <1>5, <1>7, <1>8 DEF Orderly

\* The blocks of a chunk are released.
LEMMA AccumulateOrderly ==
  ASSUME Unpredicted, IInv, Orderly, Accumulate
  PROVE  Orderly'
BY DEF Accumulate, Orderly, Quiet, DenseOnly, IO!Release

\* A scan releases its block.
LEMMA ScanOrderly ==
  ASSUME Unpredicted, IInv, Orderly, ScanNext \/ ScanEnds
  PROVE  Orderly'
BY DEF ScanNext, ScanEnds, Orderly, Quiet, DenseOnly, IO!Release

\* A layer releases its blocks.
LEMMA ComputeOrderly ==
  ASSUME Unpredicted, IInv, Orderly, Compute
  PROVE  Orderly'
<1>1. /\ pc \in {"compute", "skip", "chunk"} /\ pc' \in {"layer", "idle"}
      /\ mine' = {} /\ spec' = {} /\ parking = {} /\ parking' = {}
      /\ Quiet
  BY DEF Compute, Orderly
<1>2. Quiet'
  BY <1>1 DEF Compute, IO!Release, Quiet
<1>3. DenseOnly'
  BY <1>1 DEF DenseOnly
<1>4. QED
  BY <1>1, <1>2, <1>3 DEF Orderly

\* A failed request leaves an empty scheduler.
LEMMA FailsOrderly ==
  ASSUME Unpredicted, IInv, Orderly, RequestFails
  PROVE  Orderly'
BY DEF RequestFails, IO!Reopen, Orderly, Quiet, DenseOnly

\* Steps of passes that predict.
LEMMA PredictingOrderly ==
  ASSUME Orderly, Predict \/ Route \/ KeepHits \/ Rest \/ RestArrives
  PROVE  FALSE
BY DEF Orderly, Predict, Route, KeepHits, Rest, RestArrives, WaitOver

\* Every step of a pass that predicts nothing.
LEMMA NextOrderly ==
  ASSUME Unpredicted, IInv, Orderly, [Next]_vars
  PROVE  Orderly'
<1>1. ASSUME NEW m \in Modes, StartPass(m) PROVE Orderly'
  BY <1>1, StartOrderly
<1>2. CASE DenseFromCache \/ DenseFromParking \/ DenseRead
  BY <1>2, FromCacheOrderly, FromParkingOrderly, DenseReadOrderly
<1>3. CASE Submit \/ SubmitEnds \/ Collect \/ DenseArrives
  BY <1>3, SubmitOrderly, SubmitEndsOrderly, CollectOrderly, DenseArrivesOrderly
<1>4. CASE Predict \/ Route \/ KeepHits \/ Rest \/ RestArrives
  BY <1>4, PredictingOrderly
<1>5. CASE RouteHinted \/ HintedArrive
  BY <1>5, HintOrderly, HintedArriveOrderly
<1>6. CASE Union \/ ReadChunk \/ ChunkArrives \/ Accumulate
  BY <1>6, UnionOrderly, ReadChunkOrderly, ChunkArrivesOrderly, AccumulateOrderly
<1>7. CASE ScanNext \/ ScanEnds \/ Compute
  BY <1>7, ScanOrderly, ComputeOrderly
<1>8. CASE RequestFails \/ Complete
  BY <1>8, FailsOrderly, CompleteOrderly
<1>9. CASE UNCHANGED vars
  <2>1. UNCHANGED <<pending, ring, cq, ready, got, parking, mine, spec, need, left,
                    layer, pc, stage>>
    BY <1>9 DEF vars, io
  <2>2. Asked' = Asked
    BY <2>1, SameAsked
  <2>3. Exact <=> Exact'
    BY <2>1, <2>2 DEF Exact, Queued, Answers
  <2>4. Chunk(left)' = Chunk(left)
    BY <2>1 DEF Chunk, ChunkSize
  <2>5. HasExperts(got, Chunk(left))' <=> HasExperts(got, Chunk(left))
    BY <2>1, <2>4 DEF HasExperts, IO!ExpertOf
  <2>6. HasExperts(mine, need)' <=> HasExperts(mine, need)
    BY <2>1 DEF HasExperts, IO!ExpertOf
  <2>7. QED
    BY <2>1, <2>3, <2>5, <2>6 DEF Orderly, Quiet, DenseOnly
<1>10. QED
  BY <1>1, <1>2, <1>3, <1>4, <1>5, <1>6, <1>7, <1>8, <1>9 DEF Next, Work

\* Nothing is asked for at first.
LEMMA InitOrderly == Init => Orderly
BY DEF Init, Orderly, Quiet, DenseOnly

\* Without predicting passes the scheduler holds the reads of the running wait
\* and nothing else.
LEMMA AlwaysOrderly == Unpredicted => (Spec => [](IInv /\ Orderly))
<1> SUFFICES ASSUME Unpredicted PROVE Spec => [](IInv /\ Orderly)
  OBVIOUS
<1>1. Init => IInv /\ Orderly
  BY InitIInv, InitOrderly
<1>2. IInv /\ Orderly /\ [Next]_vars => (IInv /\ Orderly)'
  BY NextStep, SchedulerStep, NextOrderly DEF IInv
<1>3. QED
  BY <1>1, <1>2, PTL DEF Spec

-----------------------------------------------------------------------------
(***************************************************************************)
(* A layer of a batch, of a hinted token or of a scan is computed with     *)
(* every expert it was routed to, each once, whatever the routing, the     *)
(* order of completions and the failures (run_positions_batch,             *)
(* run_model_for_one_token with hints).                                    *)
(***************************************************************************)
THEOREM ExpertsAlwaysComplete == Unpredicted => (Spec => []ExpertsComplete)
<1> SUFFICES ASSUME Unpredicted PROVE Spec => []ExpertsComplete
  OBVIOUS
<1>1. ASSUME NEW S, NEW E, HasExperts(S, E), NEW e \in E
      PROVE  Cardinality(ExpertsIn(S, {e})) = 1
  <2>1. PICK x \in S : x.req = IO!ExpertOf(layer, e)
    BY <1>1 DEF HasExperts
  <2>2. x.req.kind = "expert" /\ x.req.expert = e
    BY <2>1 DEF IO!ExpertOf
  <2>3. ExpertsIn(S, {e}) = {x}
    BY <1>1, <2>2 DEF ExpertsIn, HasExperts
  <2>4. QED
    BY <2>3, FS_Singleton
<1>2. IInv /\ Orderly => ExpertsComplete
  BY <1>1 DEF Orderly, ExpertsComplete
<1>3. QED
  BY <1>2, AlwaysOrderly, PTL

(***************************************************************************)
(* And none of its waits is for a read that nobody submits                 *)
(* (submit_pending_until_full).                                            *)
(***************************************************************************)
THEOREM WaitsAlwaysEnd == Unpredicted => (Spec => []WaitCanEnd)
<1> SUFFICES ASSUME Unpredicted PROVE Spec => []WaitCanEnd
  OBVIOUS
<1>1. ASSUME IInv, Orderly PROVE WaitCanEnd
  <2> SUFFICES ASSUME pc = "wait"
               PROVE  Expected <= Cardinality(got) + Cardinality(OfLayer(ring, layer))
                                    + Cardinality(OfLayer(cq \cup ready, layer))
    BY DEF WaitCanEnd
  <2>1. Waiting /\ Exact /\ pending = <<>>
    BY <1>1 DEF Orderly, Waiting
  <2>2. /\ IsFiniteSet(Asked) /\ Cardinality(Asked) = Expected
        /\ \A r \in Asked : r.layer = layer
        /\ IsFiniteSet(ring) /\ Cardinality(ring) = Cardinality(Reqs(ring))
        /\ IsFiniteSet(Answers) /\ Cardinality(Answers) = Cardinality(Reqs(Answers))
        /\ IsFiniteSet(Reqs(ring)) /\ IsFiniteSet(Reqs(Answers))
    BY <1>1, <2>1, AskedFacts, InPlay
  <2>3. Asked = Reqs(ring) \cup Reqs(Answers)
    BY <2>1 DEF Exact, Queued
  <2>4. OfLayer(ring, layer) = ring /\ OfLayer(cq \cup ready, layer) = cq \cup ready
    BY <2>2, <2>3 DEF OfLayer, Reqs, Answers
  <2>5. Cardinality(Asked) <= Cardinality(ring) + Cardinality(Answers)
        /\ Cardinality(ring) \in Nat /\ Cardinality(Answers) \in Nat /\ Cardinality(Asked) \in Nat
    BY <2>2, <2>3, UnionBound
  <2>6. /\ Answers = got \cup (cq \cup ready)
        /\ got \in SUBSET Answers /\ cq \cup ready \in SUBSET Answers
    BY DEF Answers
  <2>7. IsFiniteSet(got) /\ IsFiniteSet(cq \cup ready)
    BY <2>2, <2>6, FS_Subset
  <2>8. /\ Cardinality(Answers) <= Cardinality(got) + Cardinality(cq \cup ready)
        /\ Cardinality(got) \in Nat /\ Cardinality(cq \cup ready) \in Nat
    BY <2>6, <2>7, UnionBound
  <2>9. Cardinality(Asked) <= Cardinality(got) + Cardinality(ring) + Cardinality(cq \cup ready)
    BY <2>5, <2>8
  <2>10. QED
    BY <2>2, <2>4, <2>9
<1>2. QED
  BY <1>1, AlwaysOrderly, PTL

(***************************************************************************)
(* And the wait for a dense block ends with that block.                    *)
(***************************************************************************)
THEOREM DenseAlwaysFound == Unpredicted => (Spec => []DenseFound)
<1> SUFFICES ASSUME Unpredicted PROVE Spec => []DenseFound
  OBVIOUS
<1>1. IInv /\ Orderly => DenseFound
  BY DenseIsHere DEF DenseFound
<1>2. QED
  BY <1>1, AlwaysOrderly, PTL
===============================================================================
