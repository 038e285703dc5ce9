--------------------------- MODULE CompressorState ---------------------------
(***************************************************************************)
(* The per-layer state of the DSA short-context compressor                 *)
(* (engine/zc_infer_core/src/compute.rs) and the functions that update it. *)
(*                                                                         *)
(* A layer of compression ratio r collects the attention inputs of r       *)
(* consecutive positions and then turns them into one compressed KV row    *)
(* (a block).  Layers of ratio 4 overlap: a block also depends on the      *)
(* first-half columns of the block before it.  What a position contributes *)
(* is abstracted to an opaque Input; a block is the pair of input groups   *)
(* its numbers are computed from.  Layers of ratio 0 keep no state and are *)
(* not members of Layer.                                                   *)
(***************************************************************************)
EXTENDS Integers, Sequences

CONSTANTS
  Layer,      \* the layers that own a compressor
  Input,      \* attention inputs, one per (token, position)
  Ratio,      \* Ratio[l]: positions per block (4 or 128 in the model)
  Overlap,    \* Overlap[l]: TRUE when blocks overlap (ratio 4)
  BlockCap    \* at most this many blocks are visible to attention (512)

ASSUME CompressorAssumption ==
  /\ Ratio \in [Layer -> Nat \ {0}]
  /\ Overlap \in [Layer -> BOOLEAN]
  /\ BlockCap \in Nat \ {0}

\* No position: None of an Option<usize> whose Some values are positions.
None == -1

Group == Seq(Input)

Block == [prev : Group, cur : Group]

(***************************************************************************)
(* fed is last_fed_pos, pending the projections of the unfinished block    *)
(* (pending_len is its length), prev is prev_first_half (empty for None),  *)
(* blocks the finalized rows.  A snapshot keeps only the number of blocks. *)
(***************************************************************************)
CoreState == [pending : Group, prev : Group, blocks : Seq(Block),
              fed : Nat \cup {None}]

Snapshot == [pos : Nat, pending : Group, prev : Group, nblocks : Nat,
             fed : Nat \cup {None}]

LayerState == [pending : Group, prev : Group, blocks : Seq(Block),
               fed : Nat \cup {None}, undo : Seq(Snapshot)]

EmptyState == [pending |-> <<>>, prev |-> <<>>, blocks |-> <<>>,
               fed |-> None, undo |-> <<>>]

\* The exported part of a layer: everything but the undo stack.
Core(s) == [pending |-> s.pending, prev |-> s.prev, blocks |-> s.blocks,
            fed |-> s.fed]

FromCoreWithoutPrev(c) ==   \* mutant: the overlap half is not imported
  [pending |-> c.pending, prev |-> <<>>, blocks |-> c.blocks,
   fed |-> c.fed, undo |-> <<>>]

\* An imported layer starts with an empty undo stack.
FromCore(c) == [pending |-> c.pending, prev |-> c.prev, blocks |-> c.blocks,
                fed |-> c.fed, undo |-> <<>>]

-----------------------------------------------------------------------------
(***************************************************************************)
(* Feeding one position.                                                   *)
(***************************************************************************)

\* Position 0 starts a new prefill: the layer entry is cleared.
AtStart(s, pos) == IF pos = 0 THEN EmptyState ELSE s

SpeculativeAfter(s, pos, min) ==   \* mutant: the first position is not covered
  /\ min # None
  /\ pos > min
  /\ s.undo # <<>> => s.undo[Len(s.undo)].pos # pos

\* The pre-feed snapshot of a speculative position (min is the flag
\* deepseek_compressor_spec_min), at most one per position on top.
Speculative(s, pos, min) ==
  /\ min # None
  /\ pos >= min
  /\ s.undo # <<>> => s.undo[Len(s.undo)].pos # pos

SnapshotOfLastBlock(s, pos) ==   \* mutant: the last block's index, not the count
  [pos |-> pos, pending |-> s.pending, prev |-> s.prev,
   nblocks |-> Len(s.blocks) - 1, fed |-> s.fed]

SnapshotOf(s, pos) ==
  [pos |-> pos, pending |-> s.pending, prev |-> s.prev,
   nblocks |-> Len(s.blocks), fed |-> s.fed]

Remember(s, pos, min) ==
  IF Speculative(s, pos, min)
  THEN [s EXCEPT !.undo = Append(s.undo, SnapshotOf(s, pos))]
  ELSE s

\* A full group becomes a block; an overlapping layer keeps its first half.
Absorb(l, s, pos, x) ==
  LET group == Append(s.pending, x)
  IN  IF Len(group) = Ratio[l]
      THEN [s EXCEPT !.pending = <<>>,
                     !.prev    = IF Overlap[l] THEN group ELSE s.prev,
                     !.blocks  = Append(s.blocks,
                                        [prev |-> s.prev, cur |-> group]),
                     !.fed     = pos]
      ELSE [s EXCEPT !.pending = group, !.fed = pos]

\* A position at or below last_fed_pos only reads: it is never fed twice.
AlreadyFed(s, pos) == s.fed >= pos

FeedLayer(l, old, pos, x, min) ==
  LET s == AtStart(old, pos)
  IN  IF AlreadyFed(s, pos) THEN s
      ELSE Absorb(l, Remember(s, pos, min), pos, x)

\* The blocks the attention of position pos sees.
Smaller(a, b) == IF a <= b THEN a ELSE b

VisibleBlocks(l, s, pos) ==
  SubSeq(s.blocks, 1,
         Smaller(Smaller((pos + 1) \div Ratio[l], Len(s.blocks)), BlockCap))

-----------------------------------------------------------------------------
(***************************************************************************)
(* Closing a speculative pass.                                             *)
(***************************************************************************)

PoppedAfter(s, from) ==   \* mutant: the position itself is kept
  {i \in 1 .. Len(s.undo) : \A j \in i .. Len(s.undo) : s.undo[j].pos > from}

\* The snapshots a rollback to `from` pops: the top run of positions >= from.
Popped(s, from) ==
  {i \in 1 .. Len(s.undo) : \A j \in i .. Len(s.undo) : s.undo[j].pos >= from}

Oldest(S) == CHOOSE i \in S : \A j \in S : i <= j

RestoreKeepingBlocks(s, k) ==   \* mutant: blocks of rejected positions stay
  [pending |-> s.undo[k].pending, prev |-> s.undo[k].prev,
   blocks |-> s.blocks, fed |-> s.undo[k].fed, undo |-> SubSeq(s.undo, 1, k - 1)]

RestoreFrom(s, k) ==
  [pending |-> s.undo[k].pending,
   prev    |-> s.undo[k].prev,
   blocks  |-> SubSeq(s.blocks, 1, s.undo[k].nblocks),
   fed     |-> s.undo[k].fed,
   undo    |-> SubSeq(s.undo, 1, k - 1)]

RollbackLayer(s, from) ==
  IF Popped(s, from) = {} THEN s ELSE RestoreFrom(s, Oldest(Popped(s, from)))

CommitLayer(s) == [s EXCEPT !.undo = <<>>]

-----------------------------------------------------------------------------
(***************************************************************************)
(* Reference definition: the state a layer must have after exactly the     *)
(* inputs of the sequence t were fed at positions 0 .. Len(t)-1.           *)
(***************************************************************************)
GroupAt(l, t, k) == SubSeq(t, (k - 1) * Ratio[l] + 1, k * Ratio[l])

Ideal(l, t) ==
  LET whole == Len(t) \div Ratio[l]
      before(k) == IF Overlap[l] /\ k > 0 THEN GroupAt(l, t, k) ELSE <<>>
  IN  [pending |-> SubSeq(t, whole * Ratio[l] + 1, Len(t)),
       prev    |-> before(whole),
       blocks  |-> [k \in 1 .. whole |->
                      [prev |-> before(k - 1), cur |-> GroupAt(l, t, k)]],
       fed     |-> Len(t) - 1]

\* One entry of a layer's history: the input of a position and the state of
\* the layer just before it was fed.
HistEntry == [x : Input, core : CoreState]

\* The snapshot o of state s records the state before its position in the
\* history h, and the block rows it counts on are still there.
SnapshotExact(s, h, o) ==
  /\ o.pos < Len(h)
  /\ o.pending = h[o.pos + 1].core.pending
  /\ o.prev = h[o.pos + 1].core.prev
  /\ o.fed = h[o.pos + 1].core.fed
  /\ SubSeq(s.blocks, 1, o.nblocks) = h[o.pos + 1].core.blocks
=============================================================================
