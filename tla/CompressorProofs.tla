-------------------------- MODULE CompressorProofs --------------------------
(***************************************************************************)
(* Proofs about Compressor: type correctness, the exactness of a           *)
(* speculative rollback and that the state of a layer is a function of the *)
(* inputs it reflects, for every set of layers, ratio and bound.           *)
(***************************************************************************)
EXTENDS Compressor, CompressorStateProofs

-----------------------------------------------------------------------------
(***************************************************************************)
(* The inductive invariant.  The properties the runs check are not         *)
(* inductive: a rollback restores what the snapshots and the history say   *)
(* the layer was, so they must be the reference states of their positions, *)
(* and a session restore needs the same of the saved state.                *)
(***************************************************************************)
HistoryIdeal(l, h) == h = IdealHist(l, Inputs(h))

LayerExact(l, s, h, min) ==
  /\ HistoryIdeal(l, h)
  /\ FedTo(l, s, Inputs(h), Len(h), min)

SavedExact(l, v) ==
  /\ HistoryIdeal(l, v.hist)
  /\ v.core = Ideal(l, Inputs(v.hist))

IInv ==
  /\ TypeOK
  /\ \A l \in Layer : LayerExact(l, comp[l], hist[l], spec_min)
  /\ \A l \in Layer : SavedExact(l, saved[l])

\* The inputs of a history.
LEMMA InputsType ==
  ASSUME NEW h \in Seq(HistEntry)
  PROVE  /\ Inputs(h) \in Seq(Input)
         /\ Len(Inputs(h)) = Len(h)
         /\ SubSeq(Inputs(h), 1, Len(h)) = Inputs(h)
<1>1. \A i \in 1 .. Len(h) : h[i].x \in Input
  <2>1. \A i \in 1 .. Len(h) : h[i] \in HistEntry
    OBVIOUS
  <2>2. QED
    BY <2>1 DEF HistEntry
<1>2. Inputs(h) \in Seq(Input) /\ Len(Inputs(h)) = Len(h)
  BY <1>1 DEF Inputs
<1>3. QED
  BY <1>2

\* A history that grows by the reference state stays one.
LEMMA GrownHistory ==
  ASSUME NEW l \in Layer, NEW h \in Seq(HistEntry), HistoryIdeal(l, h),
         NEW x \in Input
  PROVE  LET g == Append(h, [x |-> x, core |-> Ideal(l, Inputs(h))])
         IN  /\ g \in Seq(HistEntry)
             /\ Len(g) = Len(h) + 1
             /\ Inputs(g) = Append(Inputs(h), x)
             /\ HistoryIdeal(l, g)
<1> DEFINE t == Inputs(h)
           u == Append(t, x)
           n == Len(h)
           e == [x |-> x, core |-> Ideal(l, t)]
           g == Append(h, e)
           f(i) == [x |-> u[i], core |-> Ideal(l, SubSeq(u, 1, i - 1))]
<1>1. t \in Seq(Input) /\ Len(t) = n /\ SubSeq(t, 1, n) = t /\ n \in Nat
  BY InputsType
<1> HIDE DEF t
<1>2. u \in Seq(Input) /\ Len(u) = n + 1 /\ u[n + 1] = x
  BY <1>1
<1>3. SubSeq(u, 1, n) = t /\ SubSeq(u, 1, n + 1) = u
  BY <1>1, <1>2, PrefixOfAppend
<1> HIDE DEF u
<1>4. n \in 0 .. Len(u) /\ n + 1 \in 0 .. Len(u)
  BY <1>1, <1>2
<1>5. IdealHist(l, u) = [i \in 1 .. n + 1 |-> f(i)]
  <2> DEFINE m == n + 1
  <2> HIDE DEF m
  <2>1. m \in 0 .. Len(u)
    BY <1>4 DEF m
  <2>2. IdealHist(l, SubSeq(u, 1, m)) = [i \in 1 .. m |-> f(i)]
    BY <2>1, <1>2, HistOfPrefix
  <2>3. QED
    BY <2>2, <1>3 DEF m
<1>6. h = [i \in 1 .. n |-> f(i)]
  <2>1. IdealHist(l, SubSeq(u, 1, n)) = [i \in 1 .. n |-> f(i)]
    BY <1>2, <1>4, HistOfPrefix
  <2>2. QED
    BY <2>1, <1>3 DEF HistoryIdeal, t
<1>7. f(n + 1) = e
  <2>1. (n + 1) - 1 = n
    BY <1>1
  <2>2. QED
    BY <2>1, <1>2, <1>3
<1>8. e \in HistEntry
  <2>1. Ideal(l, SubSeq(u, 1, n)) \in CoreState
    BY <1>2, <1>4, IdealFed
  <2>2. QED
    BY <2>1, <1>3 DEF HistEntry
<1>9. g \in Seq(HistEntry) /\ Len(g) = n + 1
  BY <1>8
<1>10. g = IdealHist(l, u)
  <2> HIDE DEF f, e, n
  <2>1. [i \in 1 .. n + 1 |-> f(i)] = Append([i \in 1 .. n |-> f(i)], f(n + 1))
    BY <1>1
  <2>2. QED
    BY <2>1, <1>5, <1>6, <1>7
<1>11. Inputs(g) = u
  <2>1. \A i \in 1 .. n + 1 : g[i].x = u[i]
    <3> HIDE DEF g, n
    <3>1. QED
      BY <1>10, <1>5
  <2>2. Inputs(g) = [i \in 1 .. n + 1 |-> u[i]]
    <3> HIDE DEF g, n
    <3>1. QED
      BY <2>1, <1>9 DEF Inputs
  <2>3. u = [i \in 1 .. n + 1 |-> u[i]]
    BY <1>2
  <2>4. QED
    BY <2>2, <2>3
<1>12. QED
  BY <1>9, <1>10, <1>11 DEF HistoryIdeal, t, u

\* A history that is cut back stays one.
LEMMA CutHistory ==
  ASSUME NEW l \in Layer, NEW h \in Seq(HistEntry), HistoryIdeal(l, h),
         NEW m \in 0 .. Len(h)
  PROVE  LET g == SubSeq(h, 1, m)
         IN  /\ g \in Seq(HistEntry)
             /\ Len(g) = m
             /\ Inputs(g) = SubSeq(Inputs(h), 1, m)
             /\ HistoryIdeal(l, g)
<1> DEFINE t == Inputs(h)
           n == Len(h)
           g == SubSeq(h, 1, m)
           f(i) == [x |-> t[i], core |-> Ideal(l, SubSeq(t, 1, i - 1))]
<1>1. t \in Seq(Input) /\ Len(t) = n /\ SubSeq(t, 1, n) = t /\ n \in Nat /\ m \in 0 .. n
  BY InputsType
<1>2. g \in Seq(HistEntry) /\ Len(g) = m /\ \A i \in 1 .. m : g[i] = h[i]
  BY PrefixSeq
<1>3. Inputs(g) = SubSeq(t, 1, m)
  <2>1. /\ SubSeq(t, 1, m) \in Seq(Input)
        /\ Len(SubSeq(t, 1, m)) = m
        /\ \A i \in 1 .. m : SubSeq(t, 1, m)[i] = t[i]
    BY <1>1, PrefixSeq
  <2>2. Inputs(g) \in Seq(Input) /\ Len(Inputs(g)) = m
    BY <1>2, InputsType
  <2>3. \A i \in 1 .. m : Inputs(g)[i] = t[i]
    BY <1>1, <1>2 DEF Inputs
  <2>4. QED
    BY <2>1, <2>2, <2>3, SeqEqual
<1>4. IdealHist(l, SubSeq(t, 1, m)) = [i \in 1 .. m |-> f(i)]
  BY <1>1, HistOfPrefix
<1>5. h = [i \in 1 .. n |-> f(i)]
  <2>1. n \in 0 .. Len(t)
    BY <1>1
  <2>2. IdealHist(l, SubSeq(t, 1, n)) = [i \in 1 .. n |-> f(i)]
    BY <1>1, <2>1, HistOfPrefix
  <2>3. QED
    BY <2>2, <1>1 DEF HistoryIdeal
<1>6. g = [i \in 1 .. m |-> f(i)]
  <2> HIDE DEF f, n
  <2>1. SubSeq([i \in 1 .. n |-> f(i)], 1, m) = [i \in 1 .. m |-> f(i)]
    BY <1>1
  <2>2. QED
    BY <2>1, <1>5
<1>7. QED
  BY <1>2, <1>3, <1>4, <1>6 DEF HistoryIdeal

-----------------------------------------------------------------------------
(***************************************************************************)
(* The invariant is inductive: one step per action.                        *)
(***************************************************************************)

\* What IInv says of one layer.
LEMMA InvLayer ==
  ASSUME IInv, NEW l \in Layer
  PROVE  /\ comp[l] \in LayerState
         /\ hist[l] \in Seq(HistEntry)
         /\ saved[l].hist \in Seq(HistEntry)
         /\ spec_min \in Nat \cup {None}
         /\ HistoryIdeal(l, hist[l])
         /\ FedTo(l, comp[l], Inputs(hist[l]), Len(hist[l]), spec_min)
         /\ comp[l].fed = Len(hist[l]) - 1
         /\ Core(comp[l]) = Ideal(l, Inputs(hist[l]))
         /\ LayerInv(comp[l], hist[l], spec_min)
         /\ SavedExact(l, saved[l])
<1> DEFINE h == hist[l]
<1>1. comp[l] \in LayerState /\ h \in Seq(HistEntry) /\ saved[l] \in Saved
  BY DEF IInv, TypeOK
<1>2. saved[l].hist \in Seq(HistEntry)
  BY <1>1 DEF Saved
<1>3. HistoryIdeal(l, h) /\ FedTo(l, comp[l], Inputs(h), Len(h), spec_min)
  BY DEF IInv, LayerExact
<1>4. SavedExact(l, saved[l]) /\ spec_min \in Nat \cup {None}
  BY DEF IInv, TypeOK
<1> HIDE DEF h
<1>5. /\ Inputs(h) \in Seq(Input)
      /\ Len(Inputs(h)) = Len(h)
      /\ SubSeq(Inputs(h), 1, Len(h)) = Inputs(h)
      /\ Len(h) \in 0 .. Len(Inputs(h))
  BY <1>1, InputsType
<1>6. comp[l].fed = Len(h) - 1
  BY <1>3, <1>5, FedPosition
<1>7. Core(comp[l]) = Ideal(l, Inputs(h)) /\ LayerInv(comp[l], h, spec_min)
  BY <1>3, <1>5 DEF FedTo, HistoryIdeal
<1>8. QED
  BY <1>1, <1>2, <1>3, <1>4, <1>6, <1>7 DEF h

\* The type of a layer that is exact, and of a saved one.
LEMMA ExactType ==
  ASSUME NEW l \in Layer, NEW h \in Seq(HistEntry), NEW s, NEW min,
         FedTo(l, s, Inputs(h), Len(h), min)
  PROVE  /\ s \in LayerState
         /\ Core(s) = Ideal(l, Inputs(h))
         /\ [core |-> Core(s), hist |-> h] \in Saved
<1>1. s \in LayerState /\ Core(s) = Ideal(l, Inputs(h))
  BY InputsType DEF FedTo
<1>2. Core(s) \in CoreState
  BY <1>1, CoreType
<1>3. QED
  BY <1>1, <1>2 DEF Saved

\* Only one layer changed, and it is exact again.
LEMMA OneLayer ==
  ASSUME IInv, NEW l \in Layer, NEW t, NEW g \in Seq(HistEntry),
         LayerExact(l, t, g, spec_min),
         comp' = [comp EXCEPT ![l] = t], hist' = [hist EXCEPT ![l] = g],
         spec_min' = spec_min, saved' = saved
  PROVE  IInv'
<1>1. /\ comp \in [Layer -> LayerState]
      /\ hist \in [Layer -> Seq(HistEntry)]
      /\ saved \in [Layer -> Saved]
      /\ spec_min \in Nat \cup {None}
  BY DEF IInv, TypeOK
<1>2. TypeOK'
  <2>1. t \in LayerState
    BY ExactType DEF LayerExact
  <2>2. QED
    BY <1>1, <2>1 DEF TypeOK
<1>3. ASSUME NEW m \in Layer
      PROVE  LayerExact(m, comp'[m], hist'[m], spec_min')
  <2>1. CASE m = l
    BY <2>1, <1>1
  <2>2. CASE m # l
    <3>1. comp'[m] = comp[m] /\ hist'[m] = hist[m]
      BY <2>2, <1>1
    <3>2. LayerExact(m, comp[m], hist[m], spec_min)
      BY DEF IInv
    <3>3. QED
      BY <3>1, <3>2
  <2>3. QED
    BY <2>1, <2>2
<1>4. ASSUME NEW m \in Layer
      PROVE  SavedExact(m, saved'[m])
  BY DEF IInv
<1>5. QED
  BY <1>2, <1>3, <1>4 DEF IInv

\* A layer nothing was fed to.
LEMMA EmptyExact ==
  ASSUME NEW l \in Layer
  PROVE  /\ <<>> \in Seq(HistEntry)
         /\ LayerExact(l, EmptyState, <<>>, None)
         /\ SavedExact(l, [core |-> Core(EmptyState), hist |-> <<>>])
<1>1. <<>> \in Seq(HistEntry) /\ <<>> \in Seq(Input) /\ Len(<<>>) = 0
      /\ None \in Nat \cup {None}
  OBVIOUS
<1>2. Inputs(<<>>) = <<>>
  BY DEF Inputs
<1>3. HistoryIdeal(l, <<>>)
  BY <1>2 DEF HistoryIdeal, IdealHist
<1>4. FedTo(l, EmptyState, <<>>, 0, None)
  BY <1>1, EmptyFed
<1>5. Core(EmptyState) = Ideal(l, <<>>)
  BY IdealEmpty
<1>6. QED
  BY <1>1, <1>2, <1>3, <1>4, <1>5 DEF LayerExact, SavedExact

\* Initially nothing was fed.
LEMMA InitInv == Init => IInv
<1> SUFFICES ASSUME Init PROVE IInv
  OBVIOUS
<1>1. ASSUME NEW l \in Layer
      PROVE  /\ EmptyState \in LayerState
             /\ [core |-> Core(EmptyState), hist |-> <<>>] \in Saved
  <2>1. <<>> \in Seq(HistEntry) /\ FedTo(l, EmptyState, Inputs(<<>>), Len(<<>>), None)
    BY EmptyExact DEF LayerExact
  <2>2. QED
    BY <2>1, ExactType
<1>2. <<>> \in Seq(HistEntry)
  OBVIOUS
<1>3. TypeOK
  BY <1>1, <1>2 DEF Init, TypeOK
<1>4. ASSUME NEW l \in Layer
      PROVE  LayerExact(l, comp[l], hist[l], spec_min) /\ SavedExact(l, saved[l])
  BY EmptyExact DEF Init
<1>5. QED
  BY <1>3, <1>4 DEF IInv

\* Every step keeps the invariant.
LEMMA NextInv == IInv /\ [Next]_vars => IInv'
<1> SUFFICES ASSUME IInv, [Next]_vars PROVE IInv'
  OBVIOUS
<1>0. /\ comp \in [Layer -> LayerState]
      /\ hist \in [Layer -> Seq(HistEntry)]
      /\ saved \in [Layer -> Saved]
      /\ spec_min \in Nat \cup {None}
  BY DEF IInv, TypeOK
<1>1. ASSUME NEW min \in 1 .. MaxPos, SpeculationBegin(min) PROVE IInv'
  <2>1. TypeOK'
    BY <1>0, <1>1 DEF SpeculationBegin, TypeOK
  <2>2. ASSUME NEW l \in Layer PROVE LayerExact(l, comp[l], hist[l], min)
    <3> DEFINE h == hist[l]
    <3>1. /\ h \in Seq(HistEntry)
          /\ HistoryIdeal(l, h)
          /\ FedTo(l, comp[l], Inputs(h), Len(h), None)
          /\ comp[l].fed = Len(h) - 1
          /\ comp[l].fed < min
      BY <1>1, InvLayer DEF SpeculationBegin
    <3> HIDE DEF h
    <3>2. Inputs(h) \in Seq(Input) /\ Len(h) \in 0 .. Len(Inputs(h))
      BY <3>1, InputsType
    <3>3. min \in Nat /\ Len(h) <= min
      BY <3>1
    <3>4. FedTo(l, comp[l], Inputs(h), Len(h), min)
      BY <3>1, <3>2, <3>3, BeginFed
    <3>5. QED
      BY <3>1, <3>4 DEF LayerExact, h
  <2>3. ASSUME NEW l \in Layer PROVE SavedExact(l, saved[l])
    BY InvLayer
  <2>4. QED
    BY <1>1, <2>1, <2>2, <2>3 DEF SpeculationBegin, IInv
<1>2. ASSUME NEW l \in Layer, NEW x \in LayerInput[l], FeedNext(l, x) PROVE IInv'
  <2> DEFINE h == hist[l]
             n == Len(h)
             u == Append(Inputs(h), x)
             t == FeedLayer(l, comp[l], n, x, spec_min)
             g == Append(h, [x |-> x, core |-> Ideal(l, Inputs(h))])
  <2>1. x \in Input
    BY FeedAssumption
  <2>2. /\ h \in Seq(HistEntry)
        /\ HistoryIdeal(l, h)
        /\ FedTo(l, comp[l], Inputs(h), n, spec_min)
        /\ comp[l].fed + 1 = n
        /\ Core(comp[l]) = Ideal(l, Inputs(h))
        /\ n \in Nat
    BY InvLayer
  <2>3. g \in Seq(HistEntry) /\ Len(g) = n + 1 /\ Inputs(g) = u /\ HistoryIdeal(l, g)
    BY <2>1, <2>2, GrownHistory
  <2>4. /\ Inputs(h) \in Seq(Input)
        /\ Len(Inputs(h)) = n
        /\ SubSeq(Inputs(h), 1, n) = Inputs(h)
    BY <2>2, InputsType
  <2>5. u \in Seq(Input) /\ Len(u) = n + 1 /\ u[n + 1] = x
    BY <2>1, <2>4
  <2>6. SubSeq(u, 1, n) = SubSeq(Inputs(h), 1, n)
    <3>1. n \in 0 .. Len(Inputs(h))
      BY <2>2, <2>4
    <3>2. QED
      BY <3>1, <2>1, <2>4, PrefixOfAppend
  <2>7. FedTo(l, comp[l], u, n, spec_min)
    BY <2>2, <2>6 DEF FedTo
  <2> HIDE DEF u
  <2>8. FedTo(l, t, u, n + 1, spec_min)
    <3>1. n < Len(u)
      BY <2>2, <2>5
    <3>2. FedTo(l, FeedLayer(l, comp[l], n, u[n + 1], spec_min), u, n + 1, spec_min)
      BY <3>1, <2>2, <2>5, <2>7, <1>0, FeedNextInput
    <3>3. QED
      BY <3>2, <2>5
  <2>9. Core(AtStart(comp[l], n)) = Ideal(l, Inputs(h))
    <3>1. CASE n = 0
      <4>1. Inputs(h) = <<>>
        BY <3>1, <2>4
      <4>2. QED
        BY <3>1, <4>1, IdealEmpty DEF AtStart
    <3>2. CASE n # 0
      BY <3>2, <2>2 DEF AtStart
    <3>3. QED
      BY <3>1, <3>2
  <2>10. comp' = [comp EXCEPT ![l] = t] /\ hist' = [hist EXCEPT ![l] = g]
    <3>1. /\ comp' = [comp EXCEPT ![l] = FeedLayer(l, comp[l], n, x, spec_min)]
          /\ hist' = [hist EXCEPT ![l] =
                        Append(hist[l], [x |-> x, core |-> Core(AtStart(comp[l], n))])]
      BY <1>2, <1>0, <2>2 DEF FeedNext
    <3>2. QED
      BY <3>1, <2>9
  <2>11. spec_min' = spec_min /\ saved' = saved
    BY <1>2 DEF FeedNext
  <2>12. LayerExact(l, t, g, spec_min)
    BY <2>3, <2>8 DEF LayerExact
  <2> HIDE DEF t, g
  <2>13. QED
    BY <2>3, <2>10, <2>11, <2>12, OneLayer
<1>3. ASSUME NEW l \in Layer, NEW x \in LayerInput[l], FeedRestart(l, x) PROVE IInv'
  <2> DEFINE u == Append(<<>>, x)
             t == FeedLayer(l, comp[l], 0, x, spec_min)
             g == Append(<<>>, [x |-> x, core |-> Ideal(l, Inputs(<<>>))])
  <2>1. x \in Input
    BY FeedAssumption
  <2>2. <<>> \in Seq(HistEntry) /\ HistoryIdeal(l, <<>>)
    BY EmptyExact DEF LayerExact
  <2>3. Inputs(<<>>) = <<>> /\ Len(<<>>) + 1 = 1
    BY DEF Inputs
  <2>4. g \in Seq(HistEntry) /\ Len(g) = 1 /\ Inputs(g) = u /\ HistoryIdeal(l, g)
    <3> DEFINE e == <<>>
    <3>1. e \in Seq(HistEntry) /\ HistoryIdeal(l, e)
      BY <2>2
    <3> HIDE DEF e
    <3>2. LET k == Append(e, [x |-> x, core |-> Ideal(l, Inputs(e))])
          IN  /\ k \in Seq(HistEntry)
              /\ Len(k) = Len(e) + 1
              /\ Inputs(k) = Append(Inputs(e), x)
              /\ HistoryIdeal(l, k)
      BY <3>1, <2>1, GrownHistory
    <3>3. QED
      BY <3>2, <2>3 DEF e
  <2>5. u \in Seq(Input) /\ u # <<>> /\ u[1] = x
    BY <2>1
  <2>6. FedTo(l, t, u, 1, spec_min)
    <3>1. comp[l] \in LayerState
      BY InvLayer
    <3> HIDE DEF u
    <3>2. FedTo(l, FeedLayer(l, comp[l], 0, u[1], spec_min), u, 1, spec_min)
      BY <3>1, <2>5, <1>0, FeedFirstInput
    <3>3. QED
      BY <3>2, <2>5
  <2>7. comp' = [comp EXCEPT ![l] = t] /\ hist' = [hist EXCEPT ![l] = g]
    <3>1. /\ comp' = [comp EXCEPT ![l] = FeedLayer(l, comp[l], 0, x, spec_min)]
          /\ hist' = [hist EXCEPT ![l] = <<[x |-> x, core |-> Core(EmptyState)]>>]
      BY <1>3, <1>0 DEF FeedRestart
    <3>2. g = <<[x |-> x, core |-> Core(EmptyState)]>>
      BY <2>3, IdealEmpty
    <3>3. QED
      BY <3>1, <3>2
  <2>8. spec_min' = spec_min /\ saved' = saved
    BY <1>3 DEF FeedRestart
  <2>9. LayerExact(l, t, g, spec_min)
    BY <2>4, <2>6 DEF LayerExact
  <2> HIDE DEF t, g
  <2>10. QED
    BY <2>4, <2>7, <2>8, <2>9, OneLayer
<1>4. ASSUME NEW l \in Layer, NEW x \in LayerInput[l], NEW pos \in 1 .. MaxPos,
             FeedAgain(l, pos, x)
      PROVE  IInv'
  <2> DEFINE h == hist[l]
  <2>1. /\ h \in Seq(HistEntry)
        /\ LayerExact(l, comp[l], h, spec_min)
        /\ FedTo(l, comp[l], Inputs(h), Len(h), spec_min)
        /\ comp[l].fed = Len(h) - 1
    BY InvLayer DEF LayerExact
  <2>2. pos \in 1 .. Len(h) - 1
    BY <1>4, <2>1 DEF FeedAgain
  <2>3. Inputs(h) \in Seq(Input) /\ Len(h) \in 0 .. Len(Inputs(h))
    BY <2>1, InputsType
  <2>4. FeedLayer(l, comp[l], pos, x, spec_min) = comp[l]
    BY <2>1, <2>2, <2>3, <1>0, FeedSeenInput
  <2>5. comp' = [comp EXCEPT ![l] = comp[l]] /\ hist' = [hist EXCEPT ![l] = h]
    BY <1>4, <1>0, <2>4 DEF FeedAgain
  <2>6. spec_min' = spec_min /\ saved' = saved
    BY <1>4 DEF FeedAgain
  <2> HIDE DEF h
  <2>7. QED
    BY <2>1, <2>5, <2>6, OneLayer
<1>5. ASSUME Commit PROVE IInv'
  <2>1. ASSUME NEW l \in Layer
        PROVE  /\ CommitLayer(comp[l]) \in LayerState
               /\ LayerExact(l, CommitLayer(comp[l]), hist[l], None)
    <3> DEFINE h == hist[l]
    <3>1. /\ h \in Seq(HistEntry)
          /\ HistoryIdeal(l, h)
          /\ FedTo(l, comp[l], Inputs(h), Len(h), spec_min)
      BY InvLayer
    <3> HIDE DEF h
    <3>2. Inputs(h) \in Seq(Input) /\ Len(h) \in 0 .. Len(Inputs(h))
      BY <3>1, InputsType
    <3>3. FedTo(l, CommitLayer(comp[l]), Inputs(h), Len(h), None)
      BY <3>1, <3>2, CommitFed
    <3>4. QED
      BY <3>1, <3>3, ExactType DEF LayerExact, h
  <2>2. TypeOK'
    BY <1>5, <1>0, <2>1 DEF Commit, TypeOK
  <2>3. ASSUME NEW l \in Layer PROVE SavedExact(l, saved[l])
    BY InvLayer
  <2>4. QED
    BY <1>5, <2>1, <2>2, <2>3 DEF Commit, IInv
<1>6. ASSUME NEW from \in 1 .. MaxPos + 1, Rollback(from) PROVE IInv'
  <2>1. from \in Nat /\ spec_min \in Nat /\ from >= spec_min
    BY <1>6, <1>0, FeedAssumption DEF Rollback
  <2>2. ASSUME NEW l \in Layer
        PROVE  LET t == RollbackLayer(comp[l], from)
                   g == SubSeq(hist[l], 1, Smaller(Len(hist[l]), from))
               IN  /\ t \in LayerState
                   /\ g \in Seq(HistEntry)
                   /\ LayerExact(l, t, g, None)
    <3> DEFINE h == hist[l]
               m == Smaller(Len(h), from)
               g == SubSeq(h, 1, m)
               t == RollbackLayer(comp[l], from)
    <3>1. /\ h \in Seq(HistEntry)
          /\ HistoryIdeal(l, h)
          /\ FedTo(l, comp[l], Inputs(h), Len(h), spec_min)
      BY InvLayer
    <3> HIDE DEF h
    <3>2. Inputs(h) \in Seq(Input) /\ Len(h) \in 0 .. Len(Inputs(h))
          /\ Len(Inputs(h)) = Len(h)
      BY <3>1, InputsType
    <3>3. m \in 0 .. Len(h)
      BY <2>1, <3>2 DEF Smaller
    <3>4. FedTo(l, t, Inputs(h), m, None)
      BY <3>1, <3>2, <2>1, RollbackFed
    <3> HIDE DEF m, t
    <3>5. /\ g \in Seq(HistEntry)
          /\ Len(g) = m
          /\ Inputs(g) = SubSeq(Inputs(h), 1, m)
          /\ HistoryIdeal(l, g)
      BY <3>1, <3>3, CutHistory
    <3>6. SubSeq(SubSeq(Inputs(h), 1, m), 1, m) = SubSeq(Inputs(h), 1, m)
      <4>1. m \in 0 .. Len(Inputs(h)) /\ m \in 0 .. m
        BY <3>2, <3>3
      <4>2. QED
        BY <4>1, <3>2, PrefixOfPrefix
    <3> HIDE DEF g
    <3>7. FedTo(l, t, Inputs(g), Len(g), None)
      BY <3>4, <3>5, <3>6 DEF FedTo
    <3>8. t \in LayerState
      BY <3>5, <3>7, ExactType
    <3>9. QED
      BY <3>5, <3>7, <3>8 DEF LayerExact, g, m, t, h
  <2>3. TypeOK'
    BY <1>6, <1>0, <2>2 DEF Rollback, TypeOK
  <2>4. ASSUME NEW l \in Layer PROVE SavedExact(l, saved[l])
    BY InvLayer
  <2>5. QED
    BY <1>6, <2>2, <2>3, <2>4 DEF Rollback, IInv
<1>7. ASSUME Export PROVE IInv'
  <2>1. ASSUME NEW l \in Layer
        PROVE  /\ [core |-> Core(comp[l]), hist |-> hist[l]] \in Saved
               /\ SavedExact(l, [core |-> Core(comp[l]), hist |-> hist[l]])
               /\ LayerExact(l, comp[l], hist[l], spec_min)
    BY InvLayer, ExactType DEF SavedExact, LayerExact
  <2>2. TypeOK'
    BY <1>7, <1>0, <2>1 DEF Export, TypeOK
  <2>3. ASSUME NEW l \in Layer
        PROVE  /\ LayerExact(l, comp'[l], hist'[l], spec_min')
               /\ SavedExact(l, saved'[l])
    BY <1>7, <2>1 DEF Export
  <2>4. QED
    BY <2>2, <2>3 DEF IInv
<1>8. ASSUME Import PROVE IInv'
  <2>1. ASSUME NEW l \in Layer
        PROVE  /\ FromCore(saved[l].core) \in LayerState
               /\ saved[l].hist \in Seq(HistEntry)
               /\ LayerExact(l, FromCore(saved[l].core), saved[l].hist, None)
               /\ SavedExact(l, saved[l])
    <3> DEFINE h == saved[l].hist
               c == saved[l].core
    <3>1. /\ h \in Seq(HistEntry)
          /\ SavedExact(l, saved[l])
          /\ HistoryIdeal(l, h)
          /\ c = Ideal(l, Inputs(h))
      BY InvLayer DEF SavedExact
    <3> HIDE DEF h, c
    <3>2. /\ Inputs(h) \in Seq(Input)
          /\ Len(h) \in 0 .. Len(Inputs(h))
          /\ SubSeq(Inputs(h), 1, Len(h)) = Inputs(h)
      BY <3>1, InputsType
    <3>3. FedTo(l, FromCore(c), Inputs(h), Len(h), None)
      BY <3>1, <3>2, ImportFed
    <3>4. QED
      BY <3>1, <3>3, ExactType DEF LayerExact, h, c
  <2>2. TypeOK'
    BY <1>8, <1>0, <2>1 DEF Import, TypeOK
  <2>3. QED
    BY <1>8, <2>1, <2>2 DEF Import, IInv
<1>9. ASSUME UNCHANGED vars PROVE IInv'
  BY <1>9 DEF vars, IInv, TypeOK
<1>10. QED
  BY <1>1, <1>2, <1>3, <1>4, <1>5, <1>6, <1>7, <1>8, <1>9 DEF Next

-----------------------------------------------------------------------------
\* The strengthened invariant holds in every reachable state.
THEOREM Invariance == Spec => []IInv
  BY InitInv, NextInv, PTL DEF Spec

(***************************************************************************)
(* Type correctness of the compressor, for every set of layers, ratios and *)
(* inputs.                                                                 *)
(***************************************************************************)
THEOREM TypeCorrect == Spec => []TypeOK
<1>1. IInv => TypeOK
  BY DEF IInv
<1>2. QED
  BY <1>1, Invariance, PTL

(***************************************************************************)
(* Every snapshot on an undo stack stays exact and every position of the   *)
(* pass in flight has one (compute.rs, speculative undo), whatever         *)
(* interleaving of feeds, rollbacks, commits and session restores led      *)
(* here.                                                                   *)
(***************************************************************************)
THEOREM UndoAlwaysExact == Spec => []UndoExact
<1>1. IInv => UndoExact
  <2> SUFFICES ASSUME IInv, NEW l \in Layer
               PROVE  /\ SnapshotsExact(comp[l], hist[l])
                      /\ SnapshotsOrdered(comp[l])
                      /\ PassCovered(comp[l], spec_min)
    BY DEF UndoExact, SnapshotsExact, SnapshotsOrdered, PassCovered
  <2>1. QED
    BY InvLayer DEF LayerInv
<1>2. QED
  BY <1>1, Invariance, PTL

(***************************************************************************)
(* deepseek_compressor_rollback restores every layer to its state right    *)
(* before the first feed at a position >= from_pos, for every pass and     *)
(* every from_pos of the pass.                                             *)
(***************************************************************************)
THEOREM RollbackCorrect == Spec => RollbackExact
<1> DEFINE Restored == \A from \in 1 .. MaxPos + 1 : Rollback(from) =>
       \A l \in Layer :
         Core(comp'[l]) = IF comp[l].fed >= from
                          THEN hist[l][from + 1].core
                          ELSE Core(comp[l])
<1>1. IInv => Restored
  <2> SUFFICES ASSUME IInv, NEW from \in 1 .. MaxPos + 1, Rollback(from),
                      NEW l \in Layer
               PROVE  Core(comp'[l]) = IF comp[l].fed >= from
                                       THEN hist[l][from + 1].core
                                       ELSE Core(comp[l])
    OBVIOUS
  <2>1. from \in Nat /\ spec_min \in Nat /\ from >= spec_min
    BY InvLayer, FeedAssumption DEF Rollback
  <2>2. comp'[l] = RollbackLayer(comp[l], from)
    BY DEF Rollback
  <2>3. QED
    BY <2>1, <2>2, InvLayer, RollbackKeepsInv
<1>2. QED
  BY <1>1, Invariance, PTL DEF RollbackExact

(***************************************************************************)
(* The state of every layer is that of feeding the inputs it reflects once *)
(* each (compute.rs, the compressor feed), after any sequence of feeds,    *)
(* repeated positions, rollbacks, commits, restarts and session restores,  *)
(* and for every ratio, with and without overlap.                          *)
(***************************************************************************)
THEOREM StateAlwaysIdeal == Spec => []StateIsFunctionOfInputs
<1>1. IInv => StateIsFunctionOfInputs
  BY InvLayer DEF StateIsFunctionOfInputs
<1>2. QED
  BY <1>1, Invariance, PTL
=============================================================================
