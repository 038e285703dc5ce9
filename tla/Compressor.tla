------------------------------ MODULE Compressor ------------------------------
(***************************************************************************)
(* The process-global compressor of compute.rs as a component: one         *)
(* LayerState per layer, the speculation flag, and the operations the      *)
(* generation loop calls.  The caller's discipline is part of the guards:  *)
(* within a layer positions arrive in ascending order without gaps (or are *)
(* repeated, or start over at 0), a speculative pass starts above every    *)
(* position fed so far, is rolled back only to one of its own positions,   *)
(* and no export happens in the middle of one.  Module Generation shows    *)
(* that the generation loop keeps that discipline.                         *)
(***************************************************************************)
EXTENDS CompressorState

CONSTANTS
  LayerInput,   \* LayerInput[l]: the attention inputs that reach layer l
  MaxPos        \* bound on positions, for TLC

ASSUME FeedAssumption ==
  /\ LayerInput \in [Layer -> SUBSET Input]
  /\ MaxPos \in Nat

VARIABLES
  comp,      \* the state map: layer -> LayerState
  spec_min,  \* the speculation flag, None when no pass is in flight
  saved,     \* the compressor part of one session slot: layer -> core, history
  hist       \* history: hist[l][p+1] is the input fed at position p and the
             \* core state of the layer just before that feed

vars == <<comp, spec_min, saved, hist>>

Saved == [core : CoreState, hist : Seq(HistEntry)]

TypeOK ==
  /\ comp \in [Layer -> LayerState]
  /\ spec_min \in Nat \cup {None}
  /\ saved \in [Layer -> Saved]
  /\ hist \in [Layer -> Seq(HistEntry)]

Init ==
  /\ comp = [l \in Layer |-> EmptyState]
  /\ spec_min = None
  /\ saved = [l \in Layer |-> [core |-> Core(EmptyState), hist |-> <<>>]]
  /\ hist = [l \in Layer |-> <<>>]

-----------------------------------------------------------------------------
\* Between passes every layer has been fed the same positions; a pass that
\* failed part-way leaves them apart until a restart or an import.
Aligned == \A l, m \in Layer : comp[l].fed = comp[m].fed

SpeculationBegin(min) ==
  /\ spec_min = None
  /\ Aligned
  /\ \A l \in Layer : comp[l].fed < min
  /\ spec_min' = min
  /\ UNCHANGED <<comp, saved, hist>>

\* The next position of a layer; position 0 resets the layer first.
FeedNext(l, x) ==
  LET pos == comp[l].fed + 1
  IN  /\ pos <= MaxPos
      /\ comp' = [comp EXCEPT ![l] = FeedLayer(l, @, pos, x, spec_min)]
      /\ hist' = [hist EXCEPT ![l] =
                    Append(@, [x |-> x, core |-> Core(AtStart(comp[l], pos))])]
      /\ UNCHANGED <<spec_min, saved>>

\* A new prefill: position 0 of a layer that had positions before.
FeedRestart(l, x) ==
  /\ spec_min = None
  /\ comp[l].fed # None
  /\ comp' = [comp EXCEPT ![l] = FeedLayer(l, @, 0, x, spec_min)]
  /\ hist' = [hist EXCEPT ![l] = <<[x |-> x, core |-> Core(EmptyState)]>>]
  /\ UNCHANGED <<spec_min, saved>>

\* A position that was fed already is presented again.
FeedAgain(l, pos, x) ==
  /\ pos \in 1 .. comp[l].fed
  /\ comp' = [comp EXCEPT ![l] = FeedLayer(l, @, pos, x, spec_min)]
  /\ UNCHANGED <<spec_min, saved, hist>>

Commit ==
  /\ spec_min # None
  /\ spec_min' = None
  /\ comp' = [l \in Layer |-> CommitLayer(comp[l])]
  /\ UNCHANGED <<saved, hist>>

Rollback(from) ==
  /\ spec_min # None
  /\ from >= spec_min
  /\ spec_min' = None
  /\ comp' = [l \in Layer |-> RollbackLayer(comp[l], from)]
  /\ hist' = [l \in Layer |-> SubSeq(hist[l], 1, Smaller(Len(hist[l]), from))]
  /\ UNCHANGED saved

Export ==
  /\ spec_min = None
  /\ Aligned
  /\ saved' = [l \in Layer |-> [core |-> Core(comp[l]), hist |-> hist[l]]]
  /\ UNCHANGED <<comp, spec_min, hist>>

Import ==
  /\ spec_min = None
  /\ comp' = [l \in Layer |-> FromCore(saved[l].core)]
  /\ hist' = [l \in Layer |-> saved[l].hist]
  /\ UNCHANGED <<spec_min, saved>>

Next ==
  \/ \E min \in 1 .. MaxPos : SpeculationBegin(min)
  \/ \E l \in Layer : \E x \in LayerInput[l] :
       \/ FeedNext(l, x)
       \/ FeedRestart(l, x)
       \/ \E pos \in 1 .. MaxPos : FeedAgain(l, pos, x)
  \/ Commit
  \/ \E from \in 1 .. MaxPos + 1 : Rollback(from)
  \/ Export
  \/ Import

Spec == Init /\ [][Next]_vars

-----------------------------------------------------------------------------
(***************************************************************************)
(* "Reject the speculative positions: restore every layer to its state     *)
(* right before the first feed at a position >= from_pos" (compute.rs):    *)
(* a rollback brings back, in every layer that had reached position from,  *)
(* the very state it had before that position was fed, across block        *)
(* flushes and leftover snapshots of earlier passes, and leaves the other  *)
(* layers alone.                                                           *)
(***************************************************************************)
RollbackExact ==
  [][\A from \in 1 .. MaxPos + 1 : Rollback(from) =>
       \A l \in Layer :
         Core(comp'[l]) = IF comp[l].fed >= from
                          THEN hist[l][from + 1].core
                          ELSE Core(comp[l])]_vars

(***************************************************************************)
(* The layer state is a function of the inputs it reflects: feeding once   *)
(* per position, with rollbacks, commits, repeated positions, restarts and *)
(* session restores in any order, leaves exactly the blocks, the pending   *)
(* group and the overlap half that feeding those inputs once would leave.  *)
(***************************************************************************)
Inputs(h) == [i \in 1 .. Len(h) |-> h[i].x]

StateIsFunctionOfInputs ==
  \A l \in Layer : Core(comp[l]) = Ideal(l, Inputs(hist[l]))

(***************************************************************************)
(* What makes rollbacks exact: each snapshot on the undo stack records the *)
(* state before its position, the block rows it counts on are still there, *)
(* and while a pass is in flight every position of the pass has one.       *)
(***************************************************************************)
UndoExact ==
  \A l \in Layer :
    /\ \A i \in 1 .. Len(comp[l].undo) :
         SnapshotExact(comp[l], hist[l], comp[l].undo[i])
    /\ \A i, j \in 1 .. Len(comp[l].undo) :
         i < j => comp[l].undo[i].pos < comp[l].undo[j].pos
    /\ spec_min # None =>
         \A p \in spec_min .. comp[l].fed :
           \E i \in 1 .. Len(comp[l].undo) : comp[l].undo[i].pos = p
=============================================================================
