------------------------ MODULE CompressorStateProofs ------------------------
(***************************************************************************)
(* Lemmas about the operators of CompressorState: what feeding, rolling    *)
(* back, committing and importing do to one layer, for every ratio, with   *)
(* and without overlap.  Compressor and Generation are proved from them.   *)
(***************************************************************************)
EXTENDS CompressorState, TLAPS, SequenceTheorems

-----------------------------------------------------------------------------
(***************************************************************************)
(* Prefixes of sequences.                                                  *)
(***************************************************************************)

\* A prefix of a sequence is a sequence of the given length.
LEMMA PrefixSeq ==
  ASSUME NEW S, NEW s \in Seq(S), NEW n \in 0 .. Len(s)
  PROVE  /\ SubSeq(s, 1, n) \in Seq(S)
         /\ Len(SubSeq(s, 1, n)) = n
         /\ \A i \in 1 .. n : SubSeq(s, 1, n)[i] = s[i]
<1>1. \A i \in 1 .. n : s[i] \in S
  OBVIOUS
<1>2. n \in Int
  OBVIOUS
<1>3. QED
  BY <1>1, <1>2, SubSeqProperties

\* Appending does not disturb a prefix.
LEMMA PrefixOfAppend ==
  ASSUME NEW S, NEW s \in Seq(S), NEW e \in S, NEW n \in 0 .. Len(s)
  PROVE  SubSeq(Append(s, e), 1, n) = SubSeq(s, 1, n)
<1>1. Append(s, e) \in Seq(S) /\ n \in 0 .. Len(Append(s, e))
  OBVIOUS
<1>2. \A i \in 1 .. n : Append(s, e)[i] = s[i]
  OBVIOUS
<1>3. /\ SubSeq(Append(s, e), 1, n) \in Seq(S)
      /\ Len(SubSeq(Append(s, e), 1, n)) = n
      /\ \A i \in 1 .. n : SubSeq(Append(s, e), 1, n)[i] = Append(s, e)[i]
  BY <1>1, PrefixSeq
<1>4. /\ SubSeq(s, 1, n) \in Seq(S)
      /\ Len(SubSeq(s, 1, n)) = n
      /\ \A i \in 1 .. n : SubSeq(s, 1, n)[i] = s[i]
  BY PrefixSeq
<1>5. QED
  BY <1>2, <1>3, <1>4, SeqEqual

\* A prefix of a prefix is a prefix.
LEMMA PrefixOfPrefix ==
  ASSUME NEW S, NEW s \in Seq(S), NEW m \in 0 .. Len(s), NEW n \in 0 .. m
  PROVE  SubSeq(SubSeq(s, 1, m), 1, n) = SubSeq(s, 1, n)
<1> DEFINE p == SubSeq(s, 1, m)
<1>1. /\ p \in Seq(S)
      /\ Len(p) = m
      /\ \A i \in 1 .. m : p[i] = s[i]
  BY PrefixSeq
<1>2. n \in 0 .. Len(p) /\ n \in 0 .. Len(s)
  BY <1>1
<1> HIDE DEF p
<1>3. /\ SubSeq(p, 1, n) \in Seq(S)
      /\ Len(SubSeq(p, 1, n)) = n
      /\ \A i \in 1 .. n : SubSeq(p, 1, n)[i] = p[i]
  BY <1>1, <1>2, PrefixSeq
<1>4. /\ SubSeq(s, 1, n) \in Seq(S)
      /\ Len(SubSeq(s, 1, n)) = n
      /\ \A i \in 1 .. n : SubSeq(s, 1, n)[i] = s[i]
  BY <1>2, PrefixSeq
<1>5. SubSeq(p, 1, n) = SubSeq(s, 1, n)
  BY <1>1, <1>3, <1>4, SeqEqual
<1>6. QED
  BY <1>5 DEF p

-----------------------------------------------------------------------------
(***************************************************************************)
(* Types of the state functions.                                           *)
(***************************************************************************)

\* The empty layer and the reset at position 0 are layer states.
LEMMA AtStartType ==
  ASSUME NEW s \in LayerState, NEW pos \in Nat
  PROVE  /\ EmptyState \in LayerState
         /\ AtStart(s, pos) \in LayerState
  BY DEF EmptyState, AtStart, LayerState, Group, None

\* The core of a layer state is a core state.
LEMMA CoreType ==
  ASSUME NEW s \in LayerState
  PROVE  Core(s) \in CoreState
  BY DEF Core, CoreState, LayerState

\* A snapshot records the layer; remembering adds at most that snapshot.
LEMMA RememberType ==
  ASSUME NEW s \in LayerState, NEW pos \in Nat, NEW min \in Nat \cup {None}
  PROVE  /\ SnapshotOf(s, pos) \in Snapshot
         /\ Remember(s, pos, min) \in LayerState
         /\ Core(Remember(s, pos, min)) = Core(s)
         /\ Remember(s, pos, min).undo =
              IF Speculative(s, pos, min)
              THEN Append(s.undo, SnapshotOf(s, pos)) ELSE s.undo
<1>1. SnapshotOf(s, pos) \in Snapshot
  BY DEF SnapshotOf, Snapshot, LayerState
<1>2. Append(s.undo, SnapshotOf(s, pos)) \in Seq(Snapshot)
  BY <1>1 DEF LayerState
<1>3. QED
  BY <1>1, <1>2 DEF Remember, LayerState, Core

\* Absorbing an input appends at most one block and never touches the undo
\* stack; the layer has then been fed up to pos.
LEMMA AbsorbType ==
  ASSUME NEW l \in Layer, NEW s \in LayerState, NEW pos \in Nat, NEW x \in Input
  PROVE  /\ Absorb(l, s, pos, x) \in LayerState
         /\ Absorb(l, s, pos, x).undo = s.undo
         /\ Absorb(l, s, pos, x).fed = pos
         /\ \/ Absorb(l, s, pos, x).blocks = s.blocks
            \/ \E b \in Block : Absorb(l, s, pos, x).blocks = Append(s.blocks, b)
<1> DEFINE group == Append(s.pending, x)
           b == [prev |-> s.prev, cur |-> group]
<1>1. group \in Group /\ s.prev \in Group /\ <<>> \in Group
  BY DEF LayerState, Group
<1>2. b \in Block
  BY <1>1 DEF Block
<1>3. Append(s.blocks, b) \in Seq(Block)
  BY <1>2 DEF LayerState
<1> HIDE DEF group, b
<1>4. CASE Len(group) = Ratio[l]
  <2>1. Absorb(l, s, pos, x) =
          [s EXCEPT !.pending = <<>>,
                    !.prev    = IF Overlap[l] THEN group ELSE s.prev,
                    !.blocks  = Append(s.blocks, b),
                    !.fed     = pos]
    BY <1>4 DEF Absorb, group, b
  <2>2. QED
    BY <1>1, <1>2, <1>3, <2>1 DEF LayerState
<1>5. CASE Len(group) # Ratio[l]
  <2>1. Absorb(l, s, pos, x) = [s EXCEPT !.pending = group, !.fed = pos]
    BY <1>5 DEF Absorb, group
  <2>2. QED
    BY <1>1, <2>1 DEF LayerState
<1>6. QED
  BY <1>4, <1>5

\* Feeding keeps the type.
LEMMA FeedType ==
  ASSUME NEW l \in Layer, NEW s \in LayerState, NEW pos \in Nat,
         NEW x \in Input, NEW min \in Nat \cup {None}
  PROVE  FeedLayer(l, s, pos, x, min) \in LayerState
  BY AtStartType, RememberType, AbsorbType DEF FeedLayer

-----------------------------------------------------------------------------
(***************************************************************************)
(* The invariant of one layer with the history h of its feeds.  That the   *)
(* snapshots are exact is not inductive: a rollback cuts the block rows    *)
(* back, so the snapshots below the restored one must not count on more    *)
(* rows than it does.                                                      *)
(***************************************************************************)
HistoryOf(fed, h) ==
  /\ Len(h) = fed + 1
  /\ \A i \in 1 .. Len(h) : h[i].core.fed = i - 2

SnapshotsExact(s, h) ==
  \A i \in 1 .. Len(s.undo) :
    /\ SnapshotExact(s, h, s.undo[i])
    /\ s.undo[i].nblocks <= Len(s.blocks)

SnapshotsOrdered(s) ==
  \A i, j \in 1 .. Len(s.undo) :
    i < j => /\ s.undo[i].pos < s.undo[j].pos
             /\ s.undo[i].nblocks <= s.undo[j].nblocks

PassCovered(s, min) ==
  min # None =>
    \A p \in min .. s.fed : \E i \in 1 .. Len(s.undo) : s.undo[i].pos = p

LayerInv(s, h, min) ==
  /\ HistoryOf(s.fed, h)
  /\ SnapshotsExact(s, h)
  /\ SnapshotsOrdered(s)
  /\ PassCovered(s, min)

\* A layer without snapshots needs only its history.
LEMMA EmptyUndoInv ==
  ASSUME NEW s \in LayerState, s.undo = <<>>,
         NEW h \in Seq(HistEntry), HistoryOf(s.fed, h),
         NEW min \in Nat \cup {None}, min # None => s.fed < min
  PROVE  LayerInv(s, h, min)
  BY DEF LayerInv, SnapshotsExact, SnapshotsOrdered, PassCovered, LayerState, None

\* Feeding the next position keeps the invariant of the layer.
LEMMA FeedKeepsInv ==
  ASSUME NEW l \in Layer, NEW s \in LayerState, NEW h \in Seq(HistEntry),
         NEW min \in Nat \cup {None}, NEW x \in Input,
         LayerInv(s, h, min)
  PROVE  LET pos == s.fed + 1
         IN  LayerInv(Absorb(l, Remember(s, pos, min), pos, x),
                      Append(h, [x |-> x, core |-> Core(s)]), min)
<1> DEFINE pos == s.fed + 1
           r == Remember(s, pos, min)
           t == Absorb(l, r, pos, x)
           e == [x |-> x, core |-> Core(s)]
           g == Append(h, e)
           o == SnapshotOf(s, pos)
<1>1. pos \in Nat /\ Len(h) = pos
  BY DEF LayerInv, HistoryOf, LayerState, None
<1>2. Core(s) \in CoreState
  BY CoreType
<1>3. e \in HistEntry
  BY <1>2 DEF HistEntry
<1>4. /\ o \in Snapshot
      /\ r \in LayerState
      /\ Core(r) = Core(s)
      /\ r.undo = IF Speculative(s, pos, min) THEN Append(s.undo, o) ELSE s.undo
  BY <1>1, RememberType
<1>5. r.blocks = s.blocks
  BY <1>4 DEF Core
<1>6. /\ t \in LayerState
      /\ t.undo = r.undo
      /\ t.fed = pos
      /\ \/ t.blocks = r.blocks
         \/ \E b \in Block : t.blocks = Append(r.blocks, b)
  BY <1>1, <1>4, AbsorbType
<1>7. s.undo \in Seq(Snapshot) /\ s.blocks \in Seq(Block)
  BY DEF LayerState
<1>8. /\ g \in Seq(HistEntry)
      /\ Len(g) = pos + 1
      /\ g[pos + 1] = e
      /\ \A i \in 1 .. pos : g[i] = h[i]
  BY <1>1, <1>3
<1>9. e.core.fed = pos - 1 /\ e.core = Core(s)
  BY <1>1 DEF Core, LayerState, None
<1>10. /\ Len(s.blocks) <= Len(t.blocks)
       /\ \A n \in 0 .. Len(s.blocks) :
            SubSeq(t.blocks, 1, n) = SubSeq(s.blocks, 1, n)
  <2> HIDE DEF t, r
  <2>1. CASE t.blocks = s.blocks
    BY <2>1, <1>7
  <2>2. ASSUME NEW b \in Block, t.blocks = Append(s.blocks, b)
        PROVE  <1>10
    <3>1. Len(t.blocks) = Len(s.blocks) + 1 /\ Len(s.blocks) \in Nat
      BY <2>2, <1>7
    <3>2. \A n \in 0 .. Len(s.blocks) :
            SubSeq(Append(s.blocks, b), 1, n) = SubSeq(s.blocks, 1, n)
      BY <1>7, PrefixOfAppend
    <3>3. QED
      BY <3>1, <3>2, <2>2
  <2>3. QED
    BY <2>1, <2>2, <1>5, <1>6
<1>11. /\ o.pos = pos
       /\ o.pending = s.pending
       /\ o.prev = s.prev
       /\ o.fed = s.fed
       /\ o.nblocks = Len(s.blocks)
  BY DEF SnapshotOf
<1>12. /\ e.core.pending = s.pending
       /\ e.core.prev = s.prev
       /\ e.core.fed = s.fed
       /\ e.core.blocks = s.blocks
  BY <1>9 DEF Core
<1> HIDE DEF pos, r, t, e, g, o
<1>20. HistoryOf(t.fed, g)
  <2>1. \A i \in 1 .. pos : h[i].core.fed = i - 2
    BY <1>1 DEF LayerInv, HistoryOf
  <2>2. ASSUME NEW i \in 1 .. Len(g) PROVE g[i].core.fed = i - 2
    <3>1. CASE i \in 1 .. pos
      BY <2>1, <3>1, <1>8
    <3>2. CASE i = pos + 1
      BY <3>2, <1>8, <1>9, <1>1
    <3>3. QED
      BY <3>1, <3>2, <1>8, <1>1
  <2>3. QED
    BY <2>2, <1>6, <1>8 DEF HistoryOf
<1>21. SnapshotExact(t, g, o)
  <2>1. SubSeq(t.blocks, 1, o.nblocks) = SubSeq(s.blocks, 1, Len(s.blocks))
    BY <1>7, <1>10, <1>11
  <2>2. SubSeq(s.blocks, 1, Len(s.blocks)) = s.blocks
    BY <1>7
  <2>3. QED
    BY <2>1, <2>2, <1>1, <1>8, <1>11, <1>12 DEF SnapshotExact
<1>22. ASSUME NEW i \in 1 .. Len(s.undo)
       PROVE  /\ SnapshotExact(t, g, s.undo[i])
              /\ s.undo[i].nblocks <= Len(s.blocks)
              /\ s.undo[i].pos < pos
  <2> DEFINE u == s.undo[i]
  <2>1. u \in Snapshot
    BY <1>7
  <2>2. SnapshotExact(s, h, u) /\ u.nblocks <= Len(s.blocks)
    BY DEF LayerInv, SnapshotsExact
  <2> HIDE DEF u
  <2>3. u.pos \in Nat /\ u.nblocks \in Nat
    BY <2>1 DEF Snapshot
  <2>4. u.pos < pos
    BY <2>2, <1>1 DEF SnapshotExact
  <2>5. g[u.pos + 1] = h[u.pos + 1]
    BY <2>3, <2>4, <1>1, <1>8
  <2>6. SubSeq(t.blocks, 1, u.nblocks) = SubSeq(s.blocks, 1, u.nblocks)
    BY <2>2, <2>3, <1>7, <1>10
  <2>7. SnapshotExact(t, g, u)
    BY <2>2, <2>3, <2>4, <2>5, <2>6, <1>1, <1>8 DEF SnapshotExact
  <2>8. QED
    BY <2>2, <2>4, <2>7 DEF u
<1>23. SnapshotsOrdered(s) /\ PassCovered(s, min)
  BY DEF LayerInv
<1>30. CASE Speculative(s, pos, min)
  <2>1. t.undo = Append(s.undo, o)
    BY <1>30, <1>4, <1>6
  <2>2. /\ Len(t.undo) = Len(s.undo) + 1
        /\ t.undo[Len(s.undo) + 1] = o
        /\ \A i \in 1 .. Len(s.undo) : t.undo[i] = s.undo[i]
    BY <2>1, <1>4, <1>7
  <2>3. Len(s.undo) \in Nat /\ Len(s.blocks) \in Nat
    BY <1>7
  <2>4. SnapshotsExact(t, g)
    <3>1. ASSUME NEW i \in 1 .. Len(t.undo)
          PROVE  SnapshotExact(t, g, t.undo[i]) /\ t.undo[i].nblocks <= Len(t.blocks)
      <4>1. CASE i \in 1 .. Len(s.undo)
        <5>1. s.undo[i] \in Snapshot /\ Len(t.blocks) \in Nat
          BY <4>1, <1>7, <1>6 DEF LayerState
        <5>2. t.undo[i] = s.undo[i] /\ s.undo[i].nblocks \in Nat
          BY <4>1, <5>1, <2>2 DEF Snapshot
        <5>3. SnapshotExact(t, g, s.undo[i]) /\ s.undo[i].nblocks <= Len(s.blocks)
          BY <4>1, <1>22
        <5>4. QED
          BY <5>1, <5>2, <5>3, <1>10, <2>3
      <4>2. CASE i = Len(s.undo) + 1
        BY <4>2, <1>21, <1>11, <1>10, <2>2
      <4>3. QED
        BY <4>1, <4>2, <2>2, <2>3
    <3>2. QED
      BY <3>1 DEF SnapshotsExact
  <2>5. SnapshotsOrdered(t)
    <3>1. ASSUME NEW i \in 1 .. Len(t.undo), NEW j \in 1 .. Len(t.undo), i < j
          PROVE  /\ t.undo[i].pos < t.undo[j].pos
                 /\ t.undo[i].nblocks <= t.undo[j].nblocks
      <4>1. i \in 1 .. Len(s.undo)
        BY <3>1, <2>2, <2>3
      <4>2. CASE j \in 1 .. Len(s.undo)
        BY <4>1, <4>2, <3>1, <2>2, <1>23 DEF SnapshotsOrdered
      <4>3. CASE j = Len(s.undo) + 1
        BY <4>1, <4>3, <2>2, <1>22, <1>11
      <4>4. QED
        BY <4>2, <4>3, <2>2, <2>3
    <3>2. QED
      BY <3>1 DEF SnapshotsOrdered
  <2>6. PassCovered(t, min)
    <3>1. ASSUME min # None, NEW p \in min .. t.fed
          PROVE  \E i \in 1 .. Len(t.undo) : t.undo[i].pos = p
      <4>1. CASE p = pos
        <5>1. Len(s.undo) + 1 \in 1 .. Len(t.undo)
          BY <2>2, <2>3
        <5>2. QED
          BY <4>1, <5>1, <2>2, <1>11
      <4>2. CASE p # pos
        <5>1. p \in min .. s.fed
          BY <4>2, <3>1, <1>1, <1>6 DEF pos, LayerState, None
        <5>2. PICK i \in 1 .. Len(s.undo) : s.undo[i].pos = p
          BY <5>1, <3>1, <1>23 DEF PassCovered
        <5>3. i \in 1 .. Len(t.undo) /\ t.undo[i].pos = p
          BY <5>2, <2>2, <2>3
        <5>4. QED
          BY <5>3
      <4>3. QED
        BY <4>1, <4>2
    <3>2. QED
      BY <3>1 DEF PassCovered
  <2>7. QED
    BY <1>20, <2>4, <2>5, <2>6 DEF LayerInv, t, g, r, pos, e
<1>31. CASE ~Speculative(s, pos, min)
  <2>1. t.undo = s.undo
    BY <1>31, <1>4, <1>6
  <2>2. SnapshotsExact(t, g)
    <3>1. ASSUME NEW i \in 1 .. Len(t.undo)
          PROVE  SnapshotExact(t, g, t.undo[i]) /\ t.undo[i].nblocks <= Len(t.blocks)
      <4>1. s.undo[i] \in Snapshot /\ Len(t.blocks) \in Nat /\ Len(s.blocks) \in Nat
        BY <2>1, <1>7, <1>6 DEF LayerState
      <4>2. QED
        BY <4>1, <2>1, <1>22, <1>10 DEF Snapshot
    <3>2. QED
      BY <3>1 DEF SnapshotsExact
  <2>3. SnapshotsOrdered(t)
    BY <2>1, <1>23 DEF SnapshotsOrdered
  <2>4. PassCovered(t, min)
    <3>1. ASSUME min # None
          PROVE  pos < min
      <4>1. s.undo # <<>> => s.undo[Len(s.undo)].pos # pos
        <5>1. ASSUME s.undo # <<>> PROVE s.undo[Len(s.undo)].pos < pos
          <6>1. Len(s.undo) \in 1 .. Len(s.undo)
            BY <5>1, <1>7
          <6>2. QED
            BY <6>1, <1>22
        <5>2. ASSUME s.undo # <<>> PROVE s.undo[Len(s.undo)].pos \in Nat
          <6>1. Len(s.undo) \in 1 .. Len(s.undo)
            BY <5>2, <1>7
          <6>2. s.undo[Len(s.undo)] \in Snapshot
            BY <6>1, <1>7
          <6>3. QED
            BY <6>2 DEF Snapshot
        <5>3. QED
          BY <5>1, <5>2, <1>1
      <4>2. QED
        BY <4>1, <3>1, <1>31, <1>1 DEF Speculative
    <3>2. ASSUME min # None PROVE min .. t.fed = {}
      BY <3>1, <3>2, <1>1, <1>6
    <3>3. QED
      BY <3>2 DEF PassCovered
  <2>5. QED
    BY <1>20, <2>2, <2>3, <2>4 DEF LayerInv, t, g, r, pos, e
<1>32. QED
  BY <1>30, <1>31

\* Committing drops the snapshots and nothing else.
LEMMA CommitKeepsInv ==
  ASSUME NEW s \in LayerState, NEW h \in Seq(HistEntry), HistoryOf(s.fed, h)
  PROVE  /\ CommitLayer(s) \in LayerState
         /\ LayerInv(CommitLayer(s), h, None)
<1>1. /\ CommitLayer(s) \in LayerState
      /\ CommitLayer(s).undo = <<>>
      /\ CommitLayer(s).fed = s.fed
  <2>1. <<>> \in Seq(Snapshot)
    OBVIOUS
  <2>2. QED
    BY <2>1 DEF CommitLayer, LayerState
<1>2. QED
  BY <1>1, EmptyUndoInv

\* A rollback to a position of the pass that the layer had reached restores
\* the layer exactly; a layer that had not reached it is left alone.
LEMMA RollbackKeepsInv ==
  ASSUME NEW s \in LayerState, NEW h \in Seq(HistEntry), NEW min \in Nat,
         NEW from \in Nat, from >= min, LayerInv(s, h, min)
  PROVE  LET t == RollbackLayer(s, from)
             g == SubSeq(h, 1, Smaller(Len(h), from))
         IN  /\ t \in LayerState
             /\ g \in Seq(HistEntry)
             /\ LayerInv(t, g, None)
             /\ Core(t) = IF s.fed >= from THEN h[from + 1].core ELSE Core(s)
<1> DEFINE t == RollbackLayer(s, from)
           g == SubSeq(h, 1, Smaller(Len(h), from))
           n == Len(s.undo)
<1>1. /\ Len(h) = s.fed + 1
      /\ \A i \in 1 .. Len(h) : h[i].core.fed = i - 2
      /\ s.fed \in Int
  BY DEF LayerInv, HistoryOf, LayerState, None
<1>2. s.undo \in Seq(Snapshot) /\ s.blocks \in Seq(Block) /\ n \in Nat
  BY DEF LayerState
<1>3. ASSUME NEW i \in 1 .. n
      PROVE  /\ s.undo[i] \in Snapshot
             /\ s.undo[i].pos \in Nat
             /\ s.undo[i].nblocks \in 0 .. Len(s.blocks)
             /\ SnapshotExact(s, h, s.undo[i])
  <2>1. s.undo[i] \in Snapshot
    BY <1>2
  <2>2. SnapshotExact(s, h, s.undo[i]) /\ s.undo[i].nblocks <= Len(s.blocks)
    BY DEF LayerInv, SnapshotsExact
  <2>3. s.undo[i].pos \in Nat /\ s.undo[i].nblocks \in Nat
    BY <2>1 DEF Snapshot
  <2>4. QED
    BY <2>1, <2>2, <2>3, <1>2
<1>4. ASSUME NEW i \in 1 .. n, NEW j \in 1 .. n, i < j
      PROVE  /\ s.undo[i].pos < s.undo[j].pos
             /\ s.undo[i].nblocks <= s.undo[j].nblocks
  BY <1>4 DEF LayerInv, SnapshotsOrdered
<1>5. CASE s.fed < from
  <2>1. Popped(s, from) = {}
    <3>1. SUFFICES ASSUME NEW i \in Popped(s, from) PROVE FALSE
      OBVIOUS
    <3>2. i \in 1 .. n /\ s.undo[i].pos >= from
      BY <1>2 DEF Popped
    <3>3. s.undo[i].pos < Len(h) /\ s.undo[i].pos \in Nat
      BY <3>2, <1>3 DEF SnapshotExact
    <3>4. QED
      BY <3>2, <3>3, <1>1, <1>5
  <2>2. t = s
    BY <2>1 DEF RollbackLayer
  <2>3. Smaller(Len(h), from) = Len(h)
    BY <1>1, <1>5 DEF Smaller
  <2>4. g = h
    BY <2>3
  <2>5. LayerInv(s, h, None)
    BY DEF LayerInv, PassCovered
  <2>6. ~(s.fed >= from)
    BY <1>1, <1>5
  <2> HIDE DEF t, g
  <2>7. t \in LayerState /\ g \in Seq(HistEntry) /\ LayerInv(t, g, None)
    BY <2>2, <2>4, <2>5
  <2>8. Core(t) = IF s.fed >= from THEN h[from + 1].core ELSE Core(s)
    BY <2>2, <2>6
  <2>9. QED
    BY <2>7, <2>8 DEF t, g
<1>6. CASE s.fed >= from
  <2>1. PICK k \in 1 .. n : s.undo[k].pos = from
    <3>1. from \in min .. s.fed /\ min # None
      BY <1>6, <1>1 DEF None
    <3>2. QED
      BY <3>1 DEF LayerInv, PassCovered
  <2>2. k \in Popped(s, from)
    <3>1. ASSUME NEW j \in k .. n PROVE s.undo[j].pos >= from
      <4>1. CASE j = k
        BY <4>1, <2>1
      <4>2. CASE j # k
        <5>1. j \in 1 .. n /\ k < j
          BY <4>2, <2>1, <1>2
        <5>2. s.undo[k].pos < s.undo[j].pos /\ s.undo[j].pos \in Nat
          BY <5>1, <1>3, <1>4
        <5>3. QED
          BY <5>2, <2>1
      <4>3. QED
        BY <4>1, <4>2
    <3>2. QED
      BY <3>1 DEF Popped
  <2>3. ASSUME NEW j \in Popped(s, from) PROVE k <= j
    <3>1. j \in 1 .. n /\ s.undo[j].pos >= from
      BY <1>2 DEF Popped
    <3>2. CASE j < k
      <4>1. s.undo[j].pos < s.undo[k].pos /\ s.undo[j].pos \in Nat
        BY <3>1, <3>2, <1>3, <1>4
      <4>2. QED
        BY <4>1, <3>1, <2>1
    <3>3. QED
      BY <3>1, <3>2, <1>2
  <2>4. Oldest(Popped(s, from)) = k
    <3>1. \A j \in Popped(s, from) : j \in Int
      BY <1>2 DEF Popped
    <3>2. ASSUME NEW i \in Popped(s, from), \A j \in Popped(s, from) : i <= j
          PROVE  i = k
      BY <3>1, <3>2, <2>2, <2>3
    <3>3. QED
      BY <2>2, <2>3, <3>2 DEF Oldest
  <2> DEFINE u == s.undo[k]
  <2>5. t = RestoreFrom(s, k)
    BY <2>2, <2>4 DEF RollbackLayer
  <2> HIDE DEF t
  <2>6. /\ t.pending = u.pending
        /\ t.prev = u.prev
        /\ t.blocks = SubSeq(s.blocks, 1, u.nblocks)
        /\ t.fed = u.fed
        /\ t.undo = SubSeq(s.undo, 1, k - 1)
        /\ t = [pending |-> t.pending, prev |-> t.prev, blocks |-> t.blocks,
                fed |-> t.fed, undo |-> t.undo]
    BY <2>5, Zenon DEF RestoreFrom
  <2>7. /\ t.undo \in Seq(Snapshot)
        /\ Len(t.undo) = k - 1
        /\ \A i \in 1 .. k - 1 : t.undo[i] = s.undo[i]
    BY <2>1, <2>6, <1>2, PrefixSeq
  <2>8. u \in Snapshot /\ u.nblocks \in 0 .. Len(s.blocks) /\ SnapshotExact(s, h, u)
    BY <2>1, <1>3
  <2>9. t.blocks \in Seq(Block) /\ Len(t.blocks) = u.nblocks
    BY <2>6, <2>8, <1>2, PrefixSeq
  <2>10. t \in LayerState
    BY <2>6, <2>7, <2>8, <2>9 DEF LayerState, Snapshot
  <2>11. Smaller(Len(h), from) = from /\ from \in 0 .. Len(h)
    BY <1>1, <1>6 DEF Smaller
  <2>12. /\ g \in Seq(HistEntry)
         /\ Len(g) = from
         /\ \A i \in 1 .. from : g[i] = h[i]
    BY <2>11, PrefixSeq
  <2>13. u.pos = from
    BY <2>1
  <2>14. /\ t.pending = h[from + 1].core.pending
         /\ t.prev = h[from + 1].core.prev
         /\ t.fed = h[from + 1].core.fed
         /\ t.blocks = h[from + 1].core.blocks
    BY <2>6, <2>8, <2>13 DEF SnapshotExact
  <2> HIDE DEF t, g, u
  <2>15. from + 1 \in 1 .. Len(h)
    BY <1>1, <1>6
  <2>16. h[from + 1].core \in CoreState
    <3>1. h[from + 1] \in HistEntry
      BY <2>15
    <3>2. QED
      BY <3>1 DEF HistEntry
  <2>17. Core(t) = h[from + 1].core
    BY <2>14, <2>16 DEF Core, CoreState
  <2>18. t.fed = from - 1
    BY <2>14, <2>15, <1>1
  <2>19. HistoryOf(t.fed, g)
    <3>1. ASSUME NEW i \in 1 .. Len(g) PROVE g[i].core.fed = i - 2
      <4>1. i \in 1 .. from /\ i \in 1 .. Len(h)
        BY <2>11, <2>12
      <4>2. QED
        BY <4>1, <2>12, <1>1
    <3>2. QED
      BY <3>1, <2>18, <2>12 DEF HistoryOf
  <2>20. SnapshotsExact(t, g)
    <3>1. ASSUME NEW i \in 1 .. Len(t.undo)
          PROVE  SnapshotExact(t, g, t.undo[i]) /\ t.undo[i].nblocks <= Len(t.blocks)
      <4> DEFINE v == s.undo[i]
      <4>1. i \in 1 .. n /\ i < k /\ t.undo[i] = v
        BY <2>1, <2>7, <1>2
      <4>2. v.pos < from /\ v.nblocks <= u.nblocks
        BY <4>1, <2>1, <1>4 DEF u
      <4>3. /\ v.pos \in Nat
            /\ v.nblocks \in 0 .. Len(s.blocks)
            /\ SnapshotExact(s, h, v)
        BY <4>1, <1>3
      <4> HIDE DEF v
      <4>4. v.nblocks \in 0 .. u.nblocks
        BY <4>2, <4>3, <2>8
      <4>5. SubSeq(t.blocks, 1, v.nblocks) = SubSeq(s.blocks, 1, v.nblocks)
        BY <4>4, <2>6, <2>8, <1>2, PrefixOfPrefix
      <4>6. g[v.pos + 1] = h[v.pos + 1]
        BY <4>2, <4>3, <2>12
      <4>7. SnapshotExact(t, g, v)
        BY <4>2, <4>3, <4>5, <4>6, <2>12 DEF SnapshotExact
      <4>8. QED
        BY <4>1, <4>2, <4>7, <2>9
    <3>2. QED
      BY <3>1 DEF SnapshotsExact
  <2>21. SnapshotsOrdered(t)
    <3>1. ASSUME NEW i \in 1 .. Len(t.undo), NEW j \in 1 .. Len(t.undo), i < j
          PROVE  /\ t.undo[i].pos < t.undo[j].pos
                 /\ t.undo[i].nblocks <= t.undo[j].nblocks
      <4>1. /\ i \in 1 .. n
            /\ j \in 1 .. n
            /\ t.undo[i] = s.undo[i]
            /\ t.undo[j] = s.undo[j]
        BY <2>1, <2>7, <1>2, SMTT(30)
      <4>2. QED
        BY <4>1, <3>1, <1>4
    <3>2. QED
      BY <3>1 DEF SnapshotsOrdered
  <2>22. LayerInv(t, g, None)
    BY <2>19, <2>20, <2>21 DEF LayerInv, PassCovered
  <2>23. QED
    BY <1>6, <2>10, <2>12, <2>17, <2>22 DEF t, g
<1>7. QED
  BY <1>5, <1>6, <1>1

\* A layer that starts over: the empty layer with no history.
LEMMA EmptyInv ==
  ASSUME NEW min \in Nat \cup {None}
  PROVE  /\ EmptyState \in LayerState
         /\ LayerInv(EmptyState, <<>>, min)
<1>1. EmptyState \in LayerState
  BY DEF EmptyState, LayerState, Group
<1>2. /\ EmptyState.undo = <<>>
      /\ EmptyState.fed = None
      /\ HistoryOf(EmptyState.fed, <<>>)
  BY DEF EmptyState, HistoryOf, None
<1>3. min # None => EmptyState.fed < min
  BY <1>2 DEF None
<1>4. <<>> \in Seq(HistEntry)
  OBVIOUS
<1>5. QED
  BY <1>1, <1>2, <1>3, <1>4, EmptyUndoInv

\* Feeding the next position of one layer.
LEMMA FeedStep ==
  ASSUME NEW l \in Layer, NEW s \in LayerState, NEW h \in Seq(HistEntry),
         NEW min \in Nat \cup {None}, NEW x \in Input, LayerInv(s, h, min)
  PROVE  LET pos == s.fed + 1
             t == FeedLayer(l, s, pos, x, min)
             g == Append(h, [x |-> x, core |-> Core(AtStart(s, pos))])
         IN  /\ t \in LayerState
             /\ g \in Seq(HistEntry)
             /\ LayerInv(t, g, min)
<1> DEFINE pos == s.fed + 1
           r == AtStart(s, pos)
<1>1. pos \in Nat /\ s.fed \in Int
  BY DEF LayerState, None
<1>2. r \in LayerState /\ LayerInv(r, h, min) /\ r.fed + 1 = pos
  <2>1. CASE pos = 0
    <3>1. r = EmptyState /\ EmptyState.fed = None /\ None = -1
      BY <2>1 DEF AtStart, EmptyState, None
    <3>2. Len(h) = 0
      BY <2>1 DEF LayerInv, HistoryOf
    <3>3. h = <<>>
      BY <3>2
    <3>4. QED
      BY <3>1, <3>3, <2>1, EmptyInv
  <2>2. CASE pos # 0
    BY <2>2 DEF AtStart
  <2>3. QED
    BY <2>1, <2>2
<1>3. ~AlreadyFed(r, pos)
  BY <1>1, <1>2 DEF AlreadyFed, LayerState, None
<1>4. FeedLayer(l, s, pos, x, min) = Absorb(l, Remember(r, pos, min), pos, x)
  BY <1>3 DEF FeedLayer
<1>5. FeedLayer(l, s, pos, x, min) \in LayerState
  BY <1>1, FeedType
<1>6. Core(r) \in CoreState
  BY <1>2, CoreType
<1>7. [x |-> x, core |-> Core(r)] \in HistEntry
  BY <1>6 DEF HistEntry
<1> HIDE DEF pos, r
<1>8. LayerInv(Absorb(l, Remember(r, pos, min), pos, x),
               Append(h, [x |-> x, core |-> Core(r)]), min)
  BY <1>2, FeedKeepsInv
<1>9. Append(h, [x |-> x, core |-> Core(r)]) \in Seq(HistEntry)
  BY <1>7
<1>10. QED
  BY <1>4, <1>5, <1>8, <1>9 DEF pos, r

-----------------------------------------------------------------------------
(***************************************************************************)
(* Segments of sequences and whole groups of positions.                    *)
(***************************************************************************)

\* A segment of a sequence.
LEMMA SegmentSeq ==
  ASSUME NEW S, NEW s \in Seq(S), NEW m \in Nat \ {0}, NEW n \in 0 .. Len(s),
         m <= n + 1
  PROVE  /\ SubSeq(s, m, n) \in Seq(S)
         /\ Len(SubSeq(s, m, n)) = n - m + 1
         /\ \A i \in 1 .. n - m + 1 : SubSeq(s, m, n)[i] = s[m + i - 1]
<1>1. \A i \in m .. n : s[i] \in S
  OBVIOUS
<1>2. m \in Int /\ n \in Int
  OBVIOUS
<1>3. (IF m <= n THEN n - m + 1 ELSE 0) = n - m + 1
  OBVIOUS
<1>4. QED
  BY <1>1, <1>2, <1>3, SubSeqProperties

\* Integer division: the whole groups of n positions.
LEMMA WholeGroups ==
  ASSUME NEW n \in Nat, NEW R \in Nat \ {0}
  PROVE  /\ n \div R \in Nat
         /\ (n \div R) * R \in Nat
         /\ (n \div R) * R <= n
         /\ n < (n \div R) * R + R
  OBVIOUS

\* The number of whole groups is the only one that fits.
LEMMA WholeGroupsUnique ==
  ASSUME NEW n \in Nat, NEW R \in Nat \ {0}, NEW q \in Nat,
         q * R <= n, n < q * R + R
  PROVE  n \div R = q
<1> DEFINE p == n \div R
<1>1. p \in Nat /\ p * R <= n /\ n < p * R + R
  BY WholeGroups
<1> HIDE DEF p
<1>2. ASSUME NEW a \in Nat, NEW b \in Nat, a < b
      PROVE  a * R + R <= b * R
  <2>1. PICK d \in Nat : b = a + 1 + d
    <3>1. b - a - 1 \in Nat /\ b = a + 1 + (b - a - 1)
      BY <1>2
    <3>2. QED
      BY <3>1
  <2>2. b * R = a * R + R + d * R
    BY <2>1
  <2>3. d * R >= 0
    OBVIOUS
  <2>4. QED
    BY <2>2, <2>3
<1>3. ~(p < q)
  BY <1>1, <1>2
<1>4. ~(q < p)
  BY <1>1, <1>2
<1>5. p = q
  BY <1>1, <1>3, <1>4
<1>6. QED
  BY <1>5 DEF p

\* More groups, more positions.
LEMMA GroupsOrdered ==
  ASSUME NEW R \in Nat \ {0}, NEW a \in Nat, NEW b \in Nat, a <= b
  PROVE  a * R <= b * R /\ a * R \in Nat
<1>1. PICK d \in Nat : b = a + d
  <2>1. b - a \in Nat /\ b = a + (b - a)
    OBVIOUS
  <2>2. QED
    BY <2>1
<1>2. b * R = a * R + d * R
  BY <1>1
<1>3. d * R >= 0 /\ a * R \in Nat
  OBVIOUS
<1>4. QED
  BY <1>2, <1>3

\* A segment of a prefix is a segment.
LEMMA SegmentOfPrefix ==
  ASSUME NEW S, NEW s \in Seq(S), NEW n \in 0 .. Len(s), NEW a \in Nat \ {0},
         NEW b \in 0 .. n, a <= b + 1
  PROVE  SubSeq(SubSeq(s, 1, n), a, b) = SubSeq(s, a, b)
<1> DEFINE p == SubSeq(s, 1, n)
<1>1. p \in Seq(S) /\ Len(p) = n /\ \A i \in 1 .. n : p[i] = s[i]
  BY PrefixSeq
<1> HIDE DEF p
<1>2. /\ SubSeq(p, a, b) \in Seq(S)
      /\ Len(SubSeq(p, a, b)) = b - a + 1
      /\ \A i \in 1 .. b - a + 1 : SubSeq(p, a, b)[i] = p[a + i - 1]
  BY <1>1, SegmentSeq
<1>3. /\ SubSeq(s, a, b) \in Seq(S)
      /\ Len(SubSeq(s, a, b)) = b - a + 1
      /\ \A i \in 1 .. b - a + 1 : SubSeq(s, a, b)[i] = s[a + i - 1]
  <2>1. b \in 0 .. Len(s)
    OBVIOUS
  <2>2. QED
    BY <2>1, SegmentSeq
<1>4. \A i \in 1 .. b - a + 1 : p[a + i - 1] = s[a + i - 1]
  <2>1. \A i \in 1 .. b - a + 1 : a + i - 1 \in 1 .. n
    OBVIOUS
  <2>2. QED
    BY <1>1, <2>1
<1>5. \A i \in 1 .. b - a + 1 : SubSeq(p, a, b)[i] = SubSeq(s, a, b)[i]
  BY <1>2, <1>3, <1>4
<1>6. SubSeq(p, a, b) = SubSeq(s, a, b)
  BY <1>2, <1>3, <1>5, SeqEqual
<1>7. QED
  BY <1>6 DEF p

\* A segment grows by the element behind it.
LEMMA SegmentAppend ==
  ASSUME NEW S, NEW s \in Seq(S), NEW n \in Nat, n < Len(s), NEW a \in Nat \ {0},
         a <= n + 1
  PROVE  Append(SubSeq(s, a, n), s[n + 1]) = SubSeq(s, a, n + 1)
<1> DEFINE p == SubSeq(s, a, n)
           r == SubSeq(s, a, n + 1)
           len == n - a + 1
<1>1. n \in 0 .. Len(s) /\ n + 1 \in 0 .. Len(s) /\ a <= (n + 1) + 1 /\ len \in Nat
  OBVIOUS
<1>2. p \in Seq(S) /\ Len(p) = len /\ \A i \in 1 .. len : p[i] = s[a + i - 1]
  BY <1>1, SegmentSeq
<1>3. r \in Seq(S) /\ Len(r) = len + 1 /\ \A i \in 1 .. len + 1 : r[i] = s[a + i - 1]
  <2>1. /\ r \in Seq(S)
        /\ Len(r) = (n + 1) - a + 1
        /\ \A i \in 1 .. (n + 1) - a + 1 : r[i] = s[a + i - 1]
    BY <1>1, SegmentSeq
  <2>2. (n + 1) - a + 1 = len + 1
    OBVIOUS
  <2>3. QED
    BY <2>1, <2>2
<1>4. s[n + 1] \in S /\ a + (len + 1) - 1 = n + 1
  OBVIOUS
<1> DEFINE g == Append(p, s[n + 1])
<1> HIDE DEF p, r, len
<1>5. /\ g \in Seq(S)
      /\ Len(g) = len + 1
      /\ \A i \in 1 .. len : g[i] = p[i]
      /\ g[len + 1] = s[n + 1]
  BY <1>2, <1>4, AppendProperties
<1> HIDE DEF g
<1>6. \A i \in 1 .. len + 1 : g[i] = r[i]
  <2>1. ASSUME NEW i \in 1 .. len + 1 PROVE g[i] = r[i]
    <3>1. CASE i \in 1 .. len
      BY <3>1, <1>2, <1>3, <1>5
    <3>2. CASE i = len + 1
      BY <3>2, <1>1, <1>3, <1>4, <1>5
    <3>3. QED
      BY <3>1, <3>2, <1>1
  <2>2. QED
    BY <2>1
<1>7. g = r
  BY <1>3, <1>5, <1>6, SeqEqual
<1>8. QED
  BY <1>7 DEF g, p, r

-----------------------------------------------------------------------------
(***************************************************************************)
(* The reference state of a layer, for a prefix of a sequence of inputs.   *)
(***************************************************************************)

\* The overlap half a block k + 1 is computed from.
Half(l, t, k) == IF Overlap[l] /\ k > 0 THEN GroupAt(l, t, k) ELSE <<>>

IdealBlock(l, t, k) == [prev |-> Half(l, t, k - 1), cur |-> GroupAt(l, t, k)]

\* A whole group of a prefix is a group of the sequence.
LEMMA GroupOfPrefix ==
  ASSUME NEW l \in Layer, NEW t \in Seq(Input), NEW n \in 0 .. Len(t),
         NEW k \in Nat \ {0}, k * Ratio[l] <= n
  PROVE  /\ GroupAt(l, SubSeq(t, 1, n), k) = GroupAt(l, t, k)
         /\ GroupAt(l, t, k) \in Group
         /\ Half(l, SubSeq(t, 1, n), k) = Half(l, t, k)
         /\ Half(l, t, k) \in Group
<1> DEFINE R == Ratio[l]
           a == (k - 1) * R + 1
           b == k * R
<1>1. R \in Nat \ {0}
  BY CompressorAssumption
<1>2. k - 1 \in Nat /\ k \in Nat
  OBVIOUS
<1>3. b <= n
  OBVIOUS
<1> HIDE DEF R
<1>4. (k - 1) * R \in Nat /\ b \in Nat /\ (k - 1) * R <= b
  BY <1>1, <1>2, GroupsOrdered
<1>5. a \in Nat \ {0} /\ a <= b + 1 /\ b \in 0 .. n /\ b \in 0 .. Len(t)
  BY <1>3, <1>4
<1> HIDE DEF a, b
<1>6. SubSeq(SubSeq(t, 1, n), a, b) = SubSeq(t, a, b)
  BY <1>5, SegmentOfPrefix
<1>7. SubSeq(t, a, b) \in Seq(Input)
  BY <1>5, SegmentSeq
<1>8. GroupAt(l, SubSeq(t, 1, n), k) = GroupAt(l, t, k) /\ GroupAt(l, t, k) \in Group
  BY <1>6, <1>7 DEF GroupAt, Group, a, b, R
<1>9. <<>> \in Group
  BY DEF Group
<1>10. QED
  BY <1>8, <1>9 DEF Half

\* The reference state after the first n inputs of t.
LEMMA IdealOfPrefix ==
  ASSUME NEW l \in Layer, NEW t \in Seq(Input), NEW n \in 0 .. Len(t),
         NEW q \in Nat, q * Ratio[l] <= n, n < q * Ratio[l] + Ratio[l]
  PROVE  /\ Ideal(l, SubSeq(t, 1, n)) =
              [pending |-> SubSeq(t, q * Ratio[l] + 1, n),
               prev    |-> Half(l, t, q),
               blocks  |-> [k \in 1 .. q |-> IdealBlock(l, t, k)],
               fed     |-> n - 1]
         /\ Ideal(l, SubSeq(t, 1, n)) \in CoreState
<1> DEFINE R == Ratio[l]
           p == SubSeq(t, 1, n)
<1>1. R \in Nat \ {0}
  BY CompressorAssumption
<1>2. p \in Seq(Input) /\ Len(p) = n
  BY PrefixSeq
<1>3. n \div R = q
  BY <1>1, WholeGroupsUnique
<1>4. ASSUME NEW k \in 1 .. q
      PROVE  /\ IdealBlock(l, p, k) = IdealBlock(l, t, k)
             /\ IdealBlock(l, t, k) \in Block
             /\ Half(l, p, k) = Half(l, t, k)
             /\ Half(l, t, k) \in Group
  <2>1. k \in Nat \ {0} /\ k <= q
    OBVIOUS
  <2>2. k * R <= q * R
    BY <2>1, <1>1, GroupsOrdered
  <2>3. k * R <= n
    <3>1. k * R \in Nat /\ q * R \in Nat
      BY <1>1, <2>1, GroupsOrdered
    <3>2. QED
      BY <2>2, <3>1
  <2>4. /\ GroupAt(l, p, k) = GroupAt(l, t, k) /\ GroupAt(l, t, k) \in Group
        /\ Half(l, p, k) = Half(l, t, k) /\ Half(l, t, k) \in Group
    BY <2>1, <2>3, GroupOfPrefix
  <2>5. Half(l, p, k - 1) = Half(l, t, k - 1) /\ Half(l, t, k - 1) \in Group
    <3>1. CASE k = 1
      BY <3>1 DEF Half, Group
    <3>2. CASE k # 1
      <4>1. k - 1 \in Nat \ {0} /\ k - 1 <= k
        BY <3>2, <2>1
      <4>2. (k - 1) * R <= k * R /\ (k - 1) * R \in Nat
        BY <4>1, <2>1, <1>1, GroupsOrdered
      <4>3. k * R \in Nat
        BY <1>1, <2>1, GroupsOrdered
      <4>4. (k - 1) * R <= n
        BY <4>2, <4>3, <2>3
      <4>5. QED
        BY <4>1, <4>4, GroupOfPrefix
    <3>3. QED
      BY <3>1, <3>2
  <2>6. QED
    BY <2>4, <2>5 DEF IdealBlock, Block
<1>5. Half(l, p, q) = Half(l, t, q) /\ Half(l, t, q) \in Group
  <2>1. CASE q = 0
    BY <2>1 DEF Half, Group
  <2>2. CASE q # 0
    BY <2>2, <1>4
  <2>3. QED
    BY <2>1, <2>2
<1>6. SubSeq(p, q * R + 1, n) = SubSeq(t, q * R + 1, n) /\ SubSeq(t, q * R + 1, n) \in Group
  <2>1. q * R \in Nat
    BY <1>1, GroupsOrdered
  <2>2. q * R + 1 \in Nat \ {0} /\ q * R + 1 <= n + 1 /\ n \in 0 .. n
    BY <2>1
  <2> DEFINE a == q * R + 1
  <2> HIDE DEF a
  <2>3. SubSeq(p, a, n) = SubSeq(t, a, n)
    BY <2>2, SegmentOfPrefix DEF a
  <2>4. SubSeq(t, a, n) \in Seq(Input)
    BY <2>2, SegmentSeq DEF a
  <2>5. QED
    BY <2>3, <2>4 DEF a, Group
<1>7. Ideal(l, p) = [pending |-> SubSeq(p, q * R + 1, n),
                     prev    |-> Half(l, p, q),
                     blocks  |-> [k \in 1 .. q |-> IdealBlock(l, p, k)],
                     fed     |-> n - 1]
  BY <1>2, <1>3 DEF Ideal, Half, IdealBlock
<1>8. [k \in 1 .. q |-> IdealBlock(l, p, k)] = [k \in 1 .. q |-> IdealBlock(l, t, k)]
  BY <1>4
<1>9. [k \in 1 .. q |-> IdealBlock(l, t, k)] \in Seq(Block)
  BY <1>4
<1> HIDE DEF p
<1>10. Ideal(l, p) = [pending |-> SubSeq(t, q * R + 1, n),
                      prev    |-> Half(l, t, q),
                      blocks  |-> [k \in 1 .. q |-> IdealBlock(l, t, k)],
                      fed     |-> n - 1]
  BY <1>5, <1>6, <1>7, <1>8
<1>11. n - 1 \in Nat \cup {None}
  BY DEF None
<1>12. Ideal(l, p) \in CoreState
  BY <1>5, <1>6, <1>9, <1>10, <1>11 DEF CoreState
<1>13. QED
  BY <1>10, <1>12 DEF p

\* Before any input the layer is empty.
LEMMA IdealEmpty ==
  ASSUME NEW l \in Layer
  PROVE  Ideal(l, <<>>) = Core(EmptyState)
<1> DEFINE t == SubSeq(<<>>, 1, 0)
<1>1. Ratio[l] \in Nat \ {0}
  BY CompressorAssumption
<1>2. <<>> \in Seq(Input) /\ 0 \in 0 .. Len(<<>>) /\ 0 * Ratio[l] = 0
  BY <1>1
<1>3. t = <<>> /\ 0 \in Nat /\ 0 * Ratio[l] <= 0 /\ 0 < 0 * Ratio[l] + Ratio[l]
  BY <1>1
<1> HIDE DEF t
<1>4. Ideal(l, <<>>) = [pending |-> SubSeq(<<>>, 0 * Ratio[l] + 1, 0),
                        prev    |-> Half(l, <<>>, 0),
                        blocks  |-> [k \in 1 .. 0 |-> IdealBlock(l, <<>>, k)],
                        fed     |-> 0 - 1]
  <2> DEFINE e == <<>>
  <2>1. e \in Seq(Input) /\ 0 \in 0 .. Len(e)
    BY <1>2
  <2> HIDE DEF e
  <2>2. Ideal(l, SubSeq(e, 1, 0)) =
          [pending |-> SubSeq(e, 0 * Ratio[l] + 1, 0),
           prev    |-> Half(l, e, 0),
           blocks  |-> [k \in 1 .. 0 |-> IdealBlock(l, e, k)],
           fed     |-> 0 - 1]
    BY <2>1, <1>3, IdealOfPrefix
  <2>3. QED
    BY <2>2, <1>3 DEF e, t
<1>5. /\ SubSeq(<<>>, 0 * Ratio[l] + 1, 0) = <<>>
      /\ Half(l, <<>>, 0) = <<>>
      /\ [k \in 1 .. 0 |-> IdealBlock(l, <<>>, k)] = <<>>
      /\ 0 - 1 = None
  BY <1>2 DEF Half, None
<1>6. QED
  BY <1>4, <1>5 DEF Core, EmptyState

\* Absorbing the next input leads from one reference state to the next.
LEMMA AbsorbIdeal ==
  ASSUME NEW l \in Layer, NEW t \in Seq(Input), NEW n \in Nat, n < Len(t),
         NEW s \in LayerState, Core(s) = Ideal(l, SubSeq(t, 1, n))
  PROVE  Core(Absorb(l, s, n, t[n + 1])) = Ideal(l, SubSeq(t, 1, n + 1))
<1> DEFINE R == Ratio[l]
           q == n \div R
           x == t[n + 1]
           pending == SubSeq(t, q * R + 1, n)
           group == SubSeq(t, q * R + 1, n + 1)
           rows(k) == [i \in 1 .. k |-> IdealBlock(l, t, i)]
           c == Absorb(l, s, n, x)
<1>1. R \in Nat \ {0}
  BY CompressorAssumption
<1>2. q \in Nat /\ q * R \in Nat /\ q * R <= n /\ n < q * R + R
  BY <1>1, WholeGroups
<1> HIDE DEF q
<1>3. n \in 0 .. Len(t) /\ n + 1 \in 0 .. Len(t)
  OBVIOUS
<1>4. Ideal(l, SubSeq(t, 1, n)) =
        [pending |-> pending, prev |-> Half(l, t, q), blocks |-> rows(q), fed |-> n - 1]
  BY <1>2, <1>3, IdealOfPrefix
<1>5. s.pending = pending /\ s.prev = Half(l, t, q) /\ s.blocks = rows(q)
  <2> HIDE DEF pending, rows
  <2> DEFINE i == Ideal(l, SubSeq(t, 1, n))
  <2>1. i.pending = pending /\ i.prev = Half(l, t, q) /\ i.blocks = rows(q)
    BY <1>4
  <2>2. i.pending = s.pending /\ i.prev = s.prev /\ i.blocks = s.blocks
    BY DEF Core
  <2>3. QED
    BY <2>1, <2>2
<1>6. Append(s.pending, x) = group /\ Len(group) = n + 1 - q * R
  <2> DEFINE a == q * R + 1
  <2>1. a \in Nat \ {0} /\ a <= n + 1 /\ a <= (n + 1) + 1
    BY <1>2
  <2> HIDE DEF a
  <2>2. Append(SubSeq(t, a, n), t[n + 1]) = SubSeq(t, a, n + 1)
    BY <2>1, SegmentAppend
  <2>3. Len(SubSeq(t, a, n + 1)) = (n + 1) - a + 1
    BY <1>3, <2>1, SegmentSeq
  <2>4. (n + 1) - a + 1 = n + 1 - q * R
    BY <1>2 DEF a
  <2>5. QED
    BY <1>5, <2>2, <2>3, <2>4 DEF a
<1> HIDE DEF x, pending, group, rows, R, c
<1>7. CASE n + 1 - q * R = R
  <2>1. (q + 1) * R = q * R + R /\ q + 1 \in Nat
    BY <1>1, <1>2
  <2>2. n + 1 = (q + 1) * R
    BY <2>1, <1>7, <1>2, <1>1
  <2>3. (q + 1) * R <= n + 1 /\ n + 1 < (q + 1) * R + R
    BY <2>2, <1>1
  <2>4. Ideal(l, SubSeq(t, 1, n + 1)) =
          [pending |-> SubSeq(t, (q + 1) * R + 1, n + 1),
           prev    |-> Half(l, t, q + 1),
           blocks  |-> rows(q + 1),
           fed     |-> (n + 1) - 1]
    BY <2>1, <2>3, <1>3, IdealOfPrefix DEF R, rows
  <2>5. SubSeq(t, (q + 1) * R + 1, n + 1) = <<>>
    <3>1. n + 1 \in Int /\ (n + 1) + 1 \in Int /\ n + 1 < (n + 1) + 1
      OBVIOUS
    <3>2. SubSeq(t, (n + 1) + 1, n + 1) = <<>>
      BY <3>1, SubSeqEmpty
    <3>3. QED
      BY <3>2, <2>2
  <2>6. GroupAt(l, t, q + 1) = group
    <3>1. ((q + 1) - 1) * R + 1 = q * R + 1
      BY <1>2
    <3>2. QED
      BY <3>1, <2>2 DEF GroupAt, group, R
  <2>7. Half(l, t, q + 1) = IF Overlap[l] THEN group ELSE <<>>
    BY <2>6, <1>2 DEF Half
  <2>8. ~Overlap[l] => s.prev = <<>>
    BY <1>5 DEF Half
  <2>9. rows(q + 1) = Append(rows(q), [prev |-> s.prev, cur |-> group])
    <3>1. IdealBlock(l, t, q + 1) = [prev |-> s.prev, cur |-> group]
      <4>1. (q + 1) - 1 = q
        BY <1>2
      <4>2. QED
        BY <4>1, <1>5, <2>6 DEF IdealBlock
    <3>2. rows(q + 1) = Append(rows(q), IdealBlock(l, t, q + 1))
      BY <1>2 DEF rows
    <3>3. QED
      BY <3>1, <3>2
  <2>10. c = [s EXCEPT !.pending = <<>>,
                       !.prev    = IF Overlap[l] THEN group ELSE s.prev,
                       !.blocks  = Append(s.blocks, [prev |-> s.prev, cur |-> group]),
                       !.fed     = n]
    BY <1>6, <1>7 DEF Absorb, c, R
  <2>11. Core(c) = [pending |-> <<>>,
                    prev    |-> IF Overlap[l] THEN group ELSE s.prev,
                    blocks  |-> Append(s.blocks, [prev |-> s.prev, cur |-> group]),
                    fed     |-> n]
    BY <2>10 DEF Core, LayerState
  <2>12. (n + 1) - 1 = n
    OBVIOUS
  <2>13. QED
    BY <2>4, <2>5, <2>7, <2>8, <2>9, <2>11, <2>12, <1>5 DEF c, x
<1>8. CASE n + 1 - q * R # R
  <2>1. q * R <= n + 1 /\ n + 1 < q * R + R
    BY <1>8, <1>2, <1>1
  <2>2. Ideal(l, SubSeq(t, 1, n + 1)) =
          [pending |-> group, prev |-> Half(l, t, q), blocks |-> rows(q),
           fed |-> (n + 1) - 1]
    BY <2>1, <1>2, <1>3, IdealOfPrefix DEF R, rows, group
  <2>3. c = [s EXCEPT !.pending = group, !.fed = n]
    BY <1>6, <1>8 DEF Absorb, c, R
  <2>4. Core(c) = [pending |-> group, prev |-> s.prev, blocks |-> s.blocks, fed |-> n]
    BY <2>3 DEF Core, LayerState
  <2>5. (n + 1) - 1 = n
    OBVIOUS
  <2>6. QED
    BY <2>2, <2>4, <2>5, <1>5 DEF c, x
<1>9. QED
  BY <1>7, <1>8

\* The attention of a position sees the same blocks however many positions
\* behind it were fed.
LEMMA VisibleIdeal ==
  ASSUME NEW l \in Layer, NEW t \in Seq(Input), NEW n \in 0 .. Len(t),
         NEW p \in Nat, p < n
  PROVE  VisibleBlocks(l, Ideal(l, SubSeq(t, 1, n)), p)
           = VisibleBlocks(l, Ideal(l, SubSeq(t, 1, p + 1)), p)
<1> DEFINE R == Ratio[l]
           q == n \div R
           v == (p + 1) \div R
           m == Smaller(v, BlockCap)
           rows(k) == [i \in 1 .. k |-> IdealBlock(l, t, i)]
<1>1. R \in Nat \ {0} /\ BlockCap \in Nat \ {0}
  BY CompressorAssumption
<1>2. q \in Nat /\ q * R \in Nat /\ q * R <= n /\ n < q * R + R
  BY <1>1, WholeGroups
<1>3. v \in Nat /\ v * R \in Nat /\ v * R <= p + 1 /\ p + 1 < v * R + R
  <2>1. p + 1 \in Nat
    OBVIOUS
  <2>2. QED
    BY <1>1, <2>1, WholeGroups
<1>4. p + 1 \in 0 .. Len(t)
  OBVIOUS
<1> HIDE DEF q, v, R, rows
<1>5. v <= q
  <2>1. SUFFICES ASSUME q + 1 <= v PROVE FALSE
    BY <1>2, <1>3
  <2>2. q + 1 \in Nat
    BY <1>2
  <2>3. (q + 1) * R <= v * R
    BY <2>1, <2>2, <1>1, <1>3, GroupsOrdered
  <2>4. (q + 1) * R = q * R + R
    BY <1>1, <1>2
  <2>5. QED
    BY <2>3, <2>4, <1>1, <1>2, <1>3
<1>6. ASSUME NEW k \in 0 .. Len(t), NEW j \in Nat, j * R <= k, k < j * R + R
      PROVE  Ideal(l, SubSeq(t, 1, k)).blocks = rows(j)
  <2>1. Ideal(l, SubSeq(t, 1, k)) = [pending |-> SubSeq(t, j * Ratio[l] + 1, k),
                                     prev    |-> Half(l, t, j),
                                     blocks  |-> rows(j),
                                     fed     |-> k - 1]
    BY <1>6, IdealOfPrefix DEF R, rows
  <2>2. QED
    BY <2>1
<1>7. /\ Ideal(l, SubSeq(t, 1, n)).blocks = rows(q)
      /\ Ideal(l, SubSeq(t, 1, p + 1)).blocks = rows(v)
  BY <1>2, <1>3, <1>4, <1>6
<1>8. ASSUME NEW k \in Nat, v <= k
      PROVE  SubSeq(rows(k), 1, Smaller(Smaller(v, Len(rows(k))), BlockCap))
               = [i \in 1 .. m |-> IdealBlock(l, t, i)]
  <2>1. Len(rows(k)) = k
    BY DEF rows
  <2>2. Smaller(Smaller(v, k), BlockCap) = m /\ m \in Nat /\ m <= k
    BY <1>8, <1>1, <1>3 DEF Smaller
  <2> HIDE DEF m
  <2>3. SubSeq(rows(k), 1, m) = [i \in 1 .. m |-> IdealBlock(l, t, i)]
    BY <2>2 DEF rows
  <2>4. QED
    BY <2>1, <2>2, <2>3
<1> HIDE DEF m
<1>9. ASSUME NEW s, NEW k \in Nat, v <= k, s.blocks = rows(k)
      PROVE  VisibleBlocks(l, s, p) = [i \in 1 .. m |-> IdealBlock(l, t, i)]
  <2>1. VisibleBlocks(l, s, p)
          = SubSeq(s.blocks, 1, Smaller(Smaller(v, Len(s.blocks)), BlockCap))
    BY DEF VisibleBlocks, v, R
  <2>2. QED
    BY <2>1, <1>8, <1>9
<1>10. v <= v
  BY <1>3
<1>11. QED
  BY <1>2, <1>3, <1>5, <1>7, <1>9, <1>10

-----------------------------------------------------------------------------
(***************************************************************************)
(* A layer that was fed exactly the first n inputs of t, once per          *)
(* position: its state is the reference state, and its snapshots record    *)
(* the reference states of the positions they were taken at.               *)
(***************************************************************************)
IdealHist(l, t) ==
  [i \in 1 .. Len(t) |-> [x |-> t[i], core |-> Ideal(l, SubSeq(t, 1, i - 1))]]

FedTo(l, s, t, n, min) ==
  /\ s \in LayerState
  /\ Core(s) = Ideal(l, SubSeq(t, 1, n))
  /\ LayerInv(s, IdealHist(l, SubSeq(t, 1, n)), min)

\* The last position fed.
LEMMA IdealFed ==
  ASSUME NEW l \in Layer, NEW t \in Seq(Input), NEW n \in 0 .. Len(t)
  PROVE  /\ Ideal(l, SubSeq(t, 1, n)) \in CoreState
         /\ Ideal(l, SubSeq(t, 1, n)).fed = n - 1
<1>1. Ratio[l] \in Nat \ {0} /\ n \in Nat
  BY CompressorAssumption
<1> DEFINE q == n \div Ratio[l]
<1>2. q \in Nat /\ q * Ratio[l] <= n /\ n < q * Ratio[l] + Ratio[l]
  BY <1>1, WholeGroups
<1> HIDE DEF q
<1> DEFINE c == Ideal(l, SubSeq(t, 1, n))
<1>3. c = [pending |-> SubSeq(t, q * Ratio[l] + 1, n),
           prev    |-> Half(l, t, q),
           blocks  |-> [k \in 1 .. q |-> IdealBlock(l, t, k)],
           fed     |-> n - 1]
      /\ c \in CoreState
  BY <1>2, IdealOfPrefix
<1>4. QED
  BY <1>3

\* The history of the first n inputs.
LEMMA HistOfPrefix ==
  ASSUME NEW l \in Layer, NEW t \in Seq(Input), NEW n \in 0 .. Len(t)
  PROVE  /\ IdealHist(l, SubSeq(t, 1, n)) =
              [i \in 1 .. n |-> [x |-> t[i], core |-> Ideal(l, SubSeq(t, 1, i - 1))]]
         /\ IdealHist(l, SubSeq(t, 1, n)) \in Seq(HistEntry)
         /\ Len(IdealHist(l, SubSeq(t, 1, n))) = n
         /\ HistoryOf(n - 1, IdealHist(l, SubSeq(t, 1, n)))
<1> DEFINE p == SubSeq(t, 1, n)
           e(i) == [x |-> t[i], core |-> Ideal(l, SubSeq(t, 1, i - 1))]
           h == [i \in 1 .. n |-> e(i)]
<1>1. p \in Seq(Input) /\ Len(p) = n /\ \A i \in 1 .. n : p[i] = t[i]
  BY PrefixSeq
<1>2. ASSUME NEW i \in 1 .. n
      PROVE  /\ SubSeq(p, 1, i - 1) = SubSeq(t, 1, i - 1)
             /\ t[i] \in Input
             /\ e(i) \in HistEntry
             /\ e(i).core.fed = i - 2
  <2>1. i - 1 \in 0 .. n /\ i - 1 \in 0 .. Len(t) /\ i \in 1 .. Len(t)
    OBVIOUS
  <2>2. SubSeq(p, 1, i - 1) = SubSeq(t, 1, i - 1)
    BY <2>1, PrefixOfPrefix
  <2>3. Ideal(l, SubSeq(t, 1, i - 1)) \in CoreState
        /\ Ideal(l, SubSeq(t, 1, i - 1)).fed = (i - 1) - 1
    BY <2>1, IdealFed
  <2>4. QED
    BY <2>1, <2>2, <2>3 DEF HistEntry
<1>3. IdealHist(l, p) = h
  <2> HIDE DEF p
  <2>1. \A i \in 1 .. n : [x |-> p[i], core |-> Ideal(l, SubSeq(p, 1, i - 1))] = e(i)
    BY <1>1, <1>2 DEF p
  <2>2. QED
    BY <1>1, <2>1 DEF IdealHist
<1> HIDE DEF e
<1>4. h \in Seq(HistEntry) /\ Len(h) = n
  BY <1>2
<1>5. HistoryOf(n - 1, h)
  <2>1. n = (n - 1) + 1
    OBVIOUS
  <2>2. \A i \in 1 .. Len(h) : h[i].core.fed = i - 2
    BY <1>2, <1>4
  <2>3. QED
    BY <2>1, <2>2, <1>4 DEF HistoryOf
<1>6. QED
  BY <1>3, <1>4, <1>5 DEF e

\* Feeding the next input.
LEMMA FeedNextInput ==
  ASSUME NEW l \in Layer, NEW t \in Seq(Input), NEW n \in Nat, n < Len(t),
         NEW min \in Nat \cup {None}, NEW s, FedTo(l, s, t, n, min)
  PROVE  FedTo(l, FeedLayer(l, s, n, t[n + 1], min), t, n + 1, min)
<1> DEFINE x == t[n + 1]
           h == IdealHist(l, SubSeq(t, 1, n))
           f == FeedLayer(l, s, n, x, min)
           r == AtStart(s, n)
<1>1. n \in 0 .. Len(t) /\ n + 1 \in 0 .. Len(t) /\ x \in Input
  OBVIOUS
<1>2. s \in LayerState /\ Core(s) = Ideal(l, SubSeq(t, 1, n)) /\ LayerInv(s, h, min)
  BY DEF FedTo
<1>3. h \in Seq(HistEntry)
  BY <1>1, HistOfPrefix
<1>4. s.fed + 1 = n
  <2>1. Core(s).fed = n - 1
    BY <1>1, <1>2, IdealFed
  <2>2. s.fed = n - 1
    BY <2>1 DEF Core
  <2>3. QED
    BY <2>2
<1>5. Core(r) = Core(s)
  <2>1. CASE n = 0
    <3>1. SubSeq(t, 1, 0) = <<>>
      BY <1>1
    <3>2. QED
      BY <2>1, <3>1, <1>2, IdealEmpty DEF AtStart
  <2>2. CASE n # 0
    BY <2>2 DEF AtStart
  <2>3. QED
    BY <2>1, <2>2
<1>6. f \in LayerState /\ LayerInv(f, Append(h, [x |-> x, core |-> Core(s)]), min)
  <2>1. /\ FeedLayer(l, s, s.fed + 1, x, min) \in LayerState
        /\ LayerInv(FeedLayer(l, s, s.fed + 1, x, min),
                    Append(h, [x |-> x, core |-> Core(AtStart(s, s.fed + 1))]), min)
    BY <1>1, <1>2, <1>3, FeedStep
  <2>2. QED
    BY <2>1, <1>4, <1>5
<1>7. Core(f) = Ideal(l, SubSeq(t, 1, n + 1))
  <2>1. r \in LayerState
    BY <1>2, AtStartType
  <2>2. r.fed = n - 1 /\ n - 1 < n
    <3>1. Core(r).fed = s.fed
      BY <1>5 DEF Core
    <3>2. r.fed = s.fed
      BY <3>1 DEF Core
    <3>3. s.fed = n - 1
      BY <1>2, <1>4 DEF LayerState, None
    <3>4. QED
      BY <3>2, <3>3
  <2>3. ~AlreadyFed(r, n)
    BY <2>2 DEF AlreadyFed
  <2>4. f = Absorb(l, Remember(r, n, min), n, x)
    BY <2>3 DEF FeedLayer
  <2>5. Remember(r, n, min) \in LayerState /\ Core(Remember(r, n, min)) = Core(r)
    BY <2>1, RememberType
  <2>6. Core(Remember(r, n, min)) = Ideal(l, SubSeq(t, 1, n))
    BY <2>5, <1>2, <1>5
  <2>7. QED
    BY <2>4, <2>5, <2>6, AbsorbIdeal
<1>8. IdealHist(l, SubSeq(t, 1, n + 1)) = Append(h, [x |-> x, core |-> Core(s)])
  <2> DEFINE e(i) == [x |-> t[i], core |-> Ideal(l, SubSeq(t, 1, i - 1))]
  <2>1. h = [i \in 1 .. n |-> e(i)]
    BY <1>1, HistOfPrefix
  <2>2. IdealHist(l, SubSeq(t, 1, n + 1)) = [i \in 1 .. n + 1 |-> e(i)]
    BY <1>1, HistOfPrefix
  <2>3. e(n + 1) = [x |-> x, core |-> Core(s)]
    <3>1. (n + 1) - 1 = n
      OBVIOUS
    <3>2. QED
      BY <3>1, <1>2
  <2> HIDE DEF e, x, h
  <2>4. [i \in 1 .. n + 1 |-> e(i)] = Append([i \in 1 .. n |-> e(i)], e(n + 1))
    OBVIOUS
  <2>5. QED
    BY <2>1, <2>2, <2>3, <2>4
<1>9. QED
  BY <1>6, <1>7, <1>8 DEF FedTo

\* A layer nothing was fed to yet.
LEMMA EmptyFed ==
  ASSUME NEW l \in Layer, NEW t \in Seq(Input), NEW min \in Nat \cup {None}
  PROVE  FedTo(l, EmptyState, t, 0, min)
<1>1. SubSeq(t, 1, 0) = <<>> /\ 0 \in 0 .. Len(t)
  OBVIOUS
<1>2. IdealHist(l, <<>>) = <<>>
  BY DEF IdealHist
<1>3. EmptyState \in LayerState /\ LayerInv(EmptyState, <<>>, min)
  BY EmptyInv
<1>4. QED
  BY <1>1, <1>2, <1>3, IdealEmpty DEF FedTo

\* Position 0 starts over, whatever the layer held.
LEMMA FeedFirstInput ==
  ASSUME NEW l \in Layer, NEW t \in Seq(Input), t # <<>>,
         NEW min \in Nat \cup {None}, NEW s \in LayerState
  PROVE  FedTo(l, FeedLayer(l, s, 0, t[1], min), t, 1, min)
<1>1. FeedLayer(l, s, 0, t[1], min) = FeedLayer(l, EmptyState, 0, t[1], min)
  BY DEF FeedLayer, AtStart
<1>2. FedTo(l, EmptyState, t, 0, min)
  BY EmptyFed
<1>3. 0 \in Nat /\ 0 < Len(t) /\ 0 + 1 = 1
  OBVIOUS
<1>4. FedTo(l, FeedLayer(l, EmptyState, 0, t[0 + 1], min), t, 0 + 1, min)
  BY <1>2, <1>3, FeedNextInput
<1>5. QED
  BY <1>1, <1>3, <1>4

\* The position a layer was fed last.
LEMMA FedPosition ==
  ASSUME NEW l \in Layer, NEW t \in Seq(Input), NEW n \in 0 .. Len(t), NEW min,
         NEW s, FedTo(l, s, t, n, min)
  PROVE  s.fed = n - 1
<1>1. Core(s).fed = n - 1
  BY IdealFed DEF FedTo
<1>2. QED
  BY <1>1 DEF Core

\* A position that was fed already only reads.
LEMMA FeedSeenInput ==
  ASSUME NEW l \in Layer, NEW t \in Seq(Input), NEW n \in 0 .. Len(t),
         NEW min \in Nat \cup {None}, NEW s, FedTo(l, s, t, n, min),
         NEW p \in 1 .. n - 1, NEW x
  PROVE  FeedLayer(l, s, p, x, min) = s
<1>1. s.fed = n - 1
  BY FedPosition
<1>2. AtStart(s, p) = s /\ AlreadyFed(s, p)
  BY <1>1 DEF AtStart, AlreadyFed
<1>3. QED
  BY <1>2 DEF FeedLayer

\* A rollback to a position of the pass.
LEMMA RollbackFed ==
  ASSUME NEW l \in Layer, NEW t \in Seq(Input), NEW n \in 0 .. Len(t),
         NEW min \in Nat, NEW s, FedTo(l, s, t, n, min), NEW from \in Nat, from >= min
  PROVE  FedTo(l, RollbackLayer(s, from), t, Smaller(n, from), None)
<1> DEFINE h == IdealHist(l, SubSeq(t, 1, n))
           r == RollbackLayer(s, from)
           m == Smaller(n, from)
<1>1. s \in LayerState /\ Core(s) = Ideal(l, SubSeq(t, 1, n)) /\ LayerInv(s, h, min)
  BY DEF FedTo
<1>2. h \in Seq(HistEntry) /\ Len(h) = n
  BY HistOfPrefix, ZenonT(30)
<1>3. s.fed = n - 1
  BY FedPosition
<1>4. /\ r \in LayerState
      /\ LayerInv(r, SubSeq(h, 1, m), None)
      /\ Core(r) = IF s.fed >= from THEN h[from + 1].core ELSE Core(s)
  BY <1>1, <1>2, RollbackKeepsInv
<1>5. m \in 0 .. n /\ m \in 0 .. Len(t)
  BY DEF Smaller
<1> DEFINE e(i) == [x |-> t[i], core |-> Ideal(l, SubSeq(t, 1, i - 1))]
<1>6. h = [i \in 1 .. n |-> e(i)]
  BY HistOfPrefix
<1>7. IdealHist(l, SubSeq(t, 1, m)) = [i \in 1 .. m |-> e(i)]
  BY <1>5, HistOfPrefix
<1>8. SubSeq(h, 1, m) = IdealHist(l, SubSeq(t, 1, m))
  <2> HIDE DEF e, h, m
  <2>1. SubSeq([i \in 1 .. n |-> e(i)], 1, m) = [i \in 1 .. m |-> e(i)]
    BY <1>5
  <2>2. QED
    BY <2>1, <1>6, <1>7
<1>9. Core(r) = Ideal(l, SubSeq(t, 1, m))
  <2>1. CASE s.fed >= from
    <3>1. m = from /\ from + 1 \in 1 .. n /\ (from + 1) - 1 = from
      BY <2>1, <1>3 DEF Smaller
    <3>2. h[from + 1].core = Ideal(l, SubSeq(t, 1, from))
      BY <3>1, <1>6
    <3>3. QED
      BY <2>1, <3>1, <3>2, <1>4
  <2>2. CASE ~(s.fed >= from)
    <3>1. m = n
      BY <2>2, <1>3 DEF Smaller
    <3>2. QED
      BY <2>2, <3>1, <1>1, <1>4
  <2>3. QED
    BY <2>1, <2>2
<1>10. QED
  BY <1>4, <1>8, <1>9 DEF FedTo

\* A commit.
LEMMA CommitFed ==
  ASSUME NEW l \in Layer, NEW t \in Seq(Input), NEW n \in 0 .. Len(t),
         NEW min, NEW s, FedTo(l, s, t, n, min)
  PROVE  FedTo(l, CommitLayer(s), t, n, None)
<1> DEFINE h == IdealHist(l, SubSeq(t, 1, n))
<1>1. s \in LayerState /\ Core(s) = Ideal(l, SubSeq(t, 1, n)) /\ LayerInv(s, h, min)
  BY DEF FedTo
<1>2. h \in Seq(HistEntry) /\ HistoryOf(s.fed, h)
  BY <1>1, HistOfPrefix DEF LayerInv
<1>3. CommitLayer(s) \in LayerState /\ LayerInv(CommitLayer(s), h, None)
  BY <1>1, <1>2, CommitKeepsInv
<1>4. Core(CommitLayer(s)) = Core(s)
  BY <1>1 DEF CommitLayer, Core, LayerState
<1>5. QED
  BY <1>1, <1>3, <1>4 DEF FedTo

\* A pass begins above the positions fed.
LEMMA BeginFed ==
  ASSUME NEW l \in Layer, NEW t \in Seq(Input), NEW n \in 0 .. Len(t),
         NEW s, FedTo(l, s, t, n, None), NEW min \in Nat, n <= min
  PROVE  FedTo(l, s, t, n, min)
<1>1. s.fed = n - 1
  BY FedPosition
<1>2. min .. s.fed = {}
  BY <1>1
<1>3. QED
  BY <1>2 DEF FedTo, LayerInv, PassCovered

\* An import.
LEMMA ImportFed ==
  ASSUME NEW l \in Layer, NEW t \in Seq(Input), NEW n \in 0 .. Len(t)
  PROVE  FedTo(l, FromCore(Ideal(l, SubSeq(t, 1, n))), t, n, None)
<1> DEFINE c == Ideal(l, SubSeq(t, 1, n))
           h == IdealHist(l, SubSeq(t, 1, n))
<1>1. c \in CoreState /\ c.fed = n - 1
  BY IdealFed
<1>2. h \in Seq(HistEntry) /\ HistoryOf(n - 1, h)
  BY HistOfPrefix
<1> HIDE DEF c, h
<1>3. /\ FromCore(c) \in LayerState
      /\ FromCore(c).undo = <<>>
      /\ FromCore(c).fed = c.fed
      /\ Core(FromCore(c)) = c
  <2>1. <<>> \in Seq(Snapshot)
    OBVIOUS
  <2>2. QED
    BY <2>1, <1>1 DEF FromCore, LayerState, CoreState, Core
<1>4. LayerInv(FromCore(c), h, None)
  BY <1>1, <1>2, <1>3, EmptyUndoInv
<1>5. QED
  BY <1>3, <1>4 DEF FedTo, c, h

\* What the attention of a position sees.
LEMMA VisibleFed ==
  ASSUME NEW l \in Layer, NEW t \in Seq(Input), NEW n \in 0 .. Len(t),
         NEW min, NEW s, FedTo(l, s, t, n, min), NEW p \in Nat, p < n
  PROVE  VisibleBlocks(l, s, p) = VisibleBlocks(l, Ideal(l, SubSeq(t, 1, p + 1)), p)
<1>1. Core(s).blocks = s.blocks
  BY DEF Core
<1>2. Core(s) = Ideal(l, SubSeq(t, 1, n))
  BY DEF FedTo
<1>3. VisibleBlocks(l, s, p) = VisibleBlocks(l, Ideal(l, SubSeq(t, 1, n)), p)
  BY <1>1, <1>2 DEF VisibleBlocks
<1>4. QED
  BY <1>3, VisibleIdeal
==============================================================================
