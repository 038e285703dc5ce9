---------------------------- MODULE MCCompressor ----------------------------
(***************************************************************************)
(* TLC instance of Compressor: an overlapping layer of ratio 2 beside a    *)
(* plain one of ratio 3, so that a speculative pass crosses block flushes  *)
(* in one layer and not in the other.                                      *)
(***************************************************************************)
EXTENDS Compressor, TLC

\* The one input of the plain layer; it tells only how much was fed.
CONSTANT FixedInput

MCLayer == {2, 3}
MCRatio == [l \in MCLayer |-> l]
MCOverlap == [l \in MCLayer |-> l = 2]
MCLayerInput == [l \in MCLayer |-> IF l = 2 THEN Input ELSE {FixedInput}]
=============================================================================
