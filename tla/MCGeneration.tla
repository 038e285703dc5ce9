----------------------------- MODULE MCGeneration -----------------------------
(***************************************************************************)
(* TLC instance of Generation: an overlapping compressor layer of ratio 2  *)
(* and a plain one of ratio 3, three conversations that compete for two    *)
(* session slots.                                                          *)
(***************************************************************************)
EXTENDS Generation, TLC

MCLayer == {2, 3}
MCRatio == [l \in MCLayer |-> l]
MCOverlap == [l \in MCLayer |-> l = 2]
MCInput == Seq(Token)

\* A continuation that depends on the whole context; 2 ends an answer.
MCGreedy(ctx) ==
  LET weight == Len(ctx) + 2 * Cardinality({i \in DOMAIN ctx : ctx[i] = 2})
  IN  IF weight % 5 = 2 THEN 2 ELSE 1

MCFirstPrompts == {<<1>>, <<2>>, <<1, 2, 2>>}
MCTurns == {<<1>>}
MCMaxNew == {4}

\* The smaller instance of the liveness run.
MCTwoPrompts == {<<1>>, <<2>>}
MCFewNew == {0, 3}
=============================================================================
