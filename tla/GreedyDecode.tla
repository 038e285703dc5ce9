----------------------------- MODULE GreedyDecode -----------------------------
(***************************************************************************)
(* What a client of the engine is promised (README.md, generation.rs): a   *)
(* request yields, one token at a time, the continuation of its own prompt *)
(* under the full model.  Caching, session reuse, drafting, rollbacks and  *)
(* other clients do not show.                                              *)
(***************************************************************************)
EXTENDS Integers, Sequences

CONSTANTS
  Token,       \* the vocabulary
  StopToken,   \* the token that ends an answer
  Greedy(_)    \* Greedy(ctx): the token the full model picks after ctx

VARIABLES
  request,   \* the request being served, NoRequest between requests
  out,       \* the tokens emitted for it
  outcome    \* how the last request ended

avars == <<request, out, outcome>>

Request == [prompt : Seq(Token) \ {<<>>}, max_new : Nat,
            kind : {"speculative", "greedy", "sampled"}]

NoRequest == [prompt |-> <<>>, max_new |-> 0, kind |-> "none"]

\* A request of kind "sampled" draws from the distribution: any token.
Choices(kind, ctx) == IF kind = "sampled" THEN Token ELSE {Greedy(ctx)}

Complete == Len(out) = request.max_new \/ (out # <<>> /\ out[Len(out)] = StopToken)

Init == request = NoRequest /\ out = <<>> /\ outcome = "none"

Begin ==
  /\ request = NoRequest
  /\ request' \in Request
  /\ out' = <<>>
  /\ outcome' = "none"

Emit ==
  /\ request # NoRequest
  /\ ~Complete
  /\ \E t \in Choices(request.kind, request.prompt \o out) : out' = Append(out, t)
  /\ UNCHANGED <<request, outcome>>

Finish ==
  /\ request # NoRequest
  /\ Complete
  /\ request' = NoRequest
  /\ out' = <<>>
  /\ outcome' = "finished"

\* The connection is closed with fewer tokens than promised.
Fail ==
  /\ request # NoRequest
  /\ request' = NoRequest
  /\ out' = <<>>
  /\ outcome' = "failed"

Next == Begin \/ Emit \/ Finish \/ Fail

Spec == Init /\ [][Next]_avars
=============================================================================
