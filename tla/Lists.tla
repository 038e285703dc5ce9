-------------------------------- MODULE Lists --------------------------------
(***************************************************************************)
(* Sorted lists, selections from a list and sums, as the tools make them.  *)
(* The library's SortSeq and SelectSeq do the same; these are written so   *)
(* that proofs can unfold them, with an order given as a set of pairs and  *)
(* a selection as a set of positions.                                      *)
(***************************************************************************)
EXTENDS Integers, Sequences, FiniteSets

\* The elements of S, each after those that are before it.
InOrder(S, before) ==
    [k \in 1 .. Cardinality(S) |->
        CHOOSE x \in S : Cardinality({y \in S : <<y, x>> \in before}) = k - 1]

Increasing(S) == InOrder(S, {p \in S \X S : p[1] < p[2]})

\* The elements of s at the positions in places, in the order of s.
Pick(s, places) ==
    LET order == Increasing(places) IN [k \in DOMAIN order |-> s[order[k]]]

Total(s) ==
    LET upTo[n \in 0 .. Len(s)] == IF n = 0 THEN 0 ELSE upTo[n - 1] + s[n]
    IN  upTo[Len(s)]
=============================================================================
