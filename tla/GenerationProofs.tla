--------------------------- MODULE GenerationProofs ---------------------------
(***************************************************************************)
(* Proofs about Generation, for every vocabulary, model, compressor, slot  *)
(* count, chain length and prompt, provided that clients only extend their *)
(* conversations (~Regenerate; the runs show what happens otherwise):      *)
(* types, exact hidden states, compressor and session slots, that the      *)
(* engine implements GreedyDecode, and one slot for each conversation.     *)
(***************************************************************************)
EXTENDS Generation, CompressorStateProofs, FiniteSetTheorems, WellFoundedInduction

-----------------------------------------------------------------------------
(***************************************************************************)
(* The inductive invariant.                                                *)
(***************************************************************************)

\* Rows 1 .. n of a KV cache are those of the tokens ts.
RowsOf(rows, ts, n) == \A p \in 1 .. n : rows[p] = SubSeq(ts, 1, p)

\* Every layer was fed exactly the first n positions of ts.
LayersFed(c, ts, n, min) == \A l \in Layer : FedTo(l, c[l], Contexts(ts), n, min)

\* A stored conversation: its rows, and a compressor that is at most one
\* position ahead of them.
StoredSlot == [tokens : Seq(Token), valid : Nat, kv : [1 .. MaxLen -> Row],
               comp : [Layer -> CoreState], last_used : 0 .. MaxSlots]

SlotExact(s) ==
  /\ s \in StoredSlot
  /\ s.valid > 0
  /\ Len(s.tokens) = s.valid + 1
  /\ Len(s.tokens) <= MaxLen
  /\ RowsOf(s.kv, s.tokens, s.valid)
  /\ \E n \in {s.valid, s.valid + 1} :
       \A l \in Layer : s.comp[l] = Ideal(l, SubSeq(Contexts(s.tokens), 1, n))

\* The LRU stamps of the slots are exactly 1 .. Len(ss).
Stamped(ss) ==
  /\ \A i \in 1 .. Len(ss) : ss[i].last_used \in 1 .. Len(ss)
  /\ \A k \in 1 .. Len(ss) : \E i \in 1 .. Len(ss) : ss[i].last_used = k

SlotsInv(ss) ==
  /\ ss \in Seq(StoredSlot)
  /\ Len(ss) <= MaxSlots
  /\ \A i \in 1 .. Len(ss) : SlotExact(ss[i])
  /\ Stamped(ss)

\* The variables no request changes the shape of.
Shapes ==
  /\ comp \in [Layer -> LayerState]
  /\ kv \in [1 .. MaxLen -> Row]
  /\ hidden \in Row
  /\ batched \in BOOLEAN
  /\ outcome \in {"none", "finished", "failed"}

\* Between requests nothing of the last one is left but the session.
IdleInv ==
  /\ request = NoRequest
  /\ tokens = <<>>
  /\ done = 0

\* The request being served and the tokens emitted for it.
RequestInv ==
  /\ request \in [prompt : Seq(Token) \ {<<>>}, max_new : Nat,
                  kind : {"speculative", "greedy", "sampled"}]
  /\ Len(request.prompt) + request.max_new <= MaxLen
  /\ tokens \in Seq(Token)
  /\ Len(request.prompt) <= Len(tokens)
  /\ SubSeq(tokens, 1, Len(request.prompt)) = request.prompt
  /\ Emitted <= request.max_new
  /\ done \in 0 .. Len(request.prompt)

\* The answer may stop here, and it may go on.
Answered ==
  \/ Emitted = request.max_new
  \/ Emitted > 0 /\ tokens[Len(tokens)] = StopToken

RestoreInv == tokens = request.prompt /\ done = 0 /\ Extends(tokens)

PrefillInv ==
  /\ tokens = request.prompt
  /\ done < Len(tokens)
  /\ RowsOf(kv, tokens, done)
  /\ done > 0 => \E n \in {done, done + 1} : LayersFed(comp, tokens, n, None)

SampleInv ==
  /\ ~Answered
  /\ hidden = tokens
  /\ RowsOf(kv, tokens, Len(tokens))
  /\ LayersFed(comp, tokens, Len(tokens), None)

\* The newest token was emitted and not run.
TokenInv ==
  /\ ~Answered
  /\ RowsOf(kv, tokens, Len(tokens) - 1)
  /\ LayersFed(comp, tokens, Len(tokens) - 1, None)

\* What a pass under verification has run: the tokens and the drafts ahead.
Ahead == tokens \o SubSeq(chain, accepted + 1, Len(chain))

PassInv ==
  /\ chain \in Seq(Token) /\ Len(chain) \in 1 .. ChainLen
  /\ accepted = 0
  /\ Emitted + Len(chain) < request.max_new

VerifyInv ==
  /\ ~Answered
  /\ chain \in Seq(Token) /\ Len(chain) <= ChainLen
  /\ accepted \in Nat /\ accepted < Len(chain) /\ accepted < Len(tokens)
  /\ Emitted + (Len(chain) - accepted) < request.max_new
  /\ spec_min = PendingPos + 1
  /\ RowsOf(kv, Ahead, Len(Ahead))
  /\ LayersFed(comp, Ahead, Len(Ahead), spec_min)
  /\ hiddens \in Seq(Row) /\ Len(hiddens) = Len(chain) + 1
  /\ \A k \in 1 .. Len(chain) + 1 : hiddens[k] = SubSeq(Ahead, 1, PendingPos + k)

\* The newest token may have been run as a draft.
StoreInv ==
  /\ Answered
  /\ RowsOf(kv, tokens, Len(tokens) - 1)
  /\ \E n \in {Len(tokens) - 1, Len(tokens)} : LayersFed(comp, tokens, n, None)

\* Outside of a pass no draft is pending.
NoPass == chain = <<>> /\ hiddens = <<>> /\ accepted = 0

IInv ==
  /\ Shapes
  /\ SlotsInv(slots)
  /\ pc \in {"idle", "restore", "prefill", "sample", "forward", "draft",
             "pass", "verify", "store", "finish"}
  /\ IF pc = "idle" THEN IdleInv ELSE RequestInv
  /\ pc \notin {"pass", "verify"} => NoPass
  /\ pc # "verify" => spec_min = None
  /\ pc = "restore" => RestoreInv
  /\ pc = "prefill" => PrefillInv
  /\ pc = "sample" => SampleInv
  /\ pc \in {"forward", "draft", "pass"} => TokenInv
  /\ pc = "pass" => PassInv /\ hiddens = <<>>
  /\ pc = "verify" => VerifyInv
  /\ pc = "store" => StoreInv
  /\ pc = "finish" => Answered

-----------------------------------------------------------------------------
(***************************************************************************)
(* Induction over the naturals, for sets: the theorems of the library take *)
(* an operator, which no prover here can instantiate; that every nonempty  *)
(* set of naturals has a least element needs none.                         *)
(***************************************************************************)
Below == {p \in Nat \X Nat : p[1] < p[2]}

\* The order of the naturals is well-founded.
LEMMA BelowWellFounded == IsWellFoundedOn(Below, Nat)
<1>1. IsWellFoundedOn(OpToRel(<, Nat), Nat)
  BY NatLessThanWellFounded
<1>2. Below = OpToRel(<, Nat)
  BY DEF Below, OpToRel
<1>3. QED
  BY <1>1, <1>2

\* Every nonempty set of naturals has a least element.
LEMMA LeastNatural ==
  ASSUME NEW S, S \subseteq Nat, S # {}
  PROVE  \E x \in S : \A y \in S : x <= y
<1>1. \E x \in S : \A y \in S : ~(<<y, x>> \in Below)
  BY BelowWellFounded, WFMin
<1>2. PICK x \in S : \A y \in S : ~(<<y, x>> \in Below)
  BY <1>1
<1>3. ASSUME NEW y \in S, y < x PROVE <<y, x>> \in Below
  BY <1>3 DEF Below
<1>4. \A y \in S : ~(y < x)
  BY <1>2, <1>3
<1>5. \A y \in S : x <= y
  BY <1>4
<1>6. QED
  BY <1>5

\* A set with 0 that is closed under successor holds every natural.
LEMMA SetInduction ==
  ASSUME NEW S, 0 \in S, \A n \in Nat : n \in S => n + 1 \in S
  PROVE  Nat \subseteq S
<1> SUFFICES ASSUME Nat \ S # {} PROVE FALSE
  OBVIOUS
<1>1. PICK x \in Nat \ S : \A y \in Nat \ S : x <= y
  BY LeastNatural
<1>2. x # 0 /\ x - 1 \in Nat
  BY <1>1
<1>3. x - 1 \in S
  BY <1>1, <1>2
<1>4. x \in S
  BY <1>2, <1>3, <1>1
<1>5. QED
  BY <1>1, <1>4

-----------------------------------------------------------------------------
(***************************************************************************)
(* Token contexts.                                                         *)
(***************************************************************************)

\* Short token sequences are inputs.
LEMMA InputOf ==
  ASSUME NEW ts \in Seq(Token), Len(ts) <= MaxLen
  PROVE  ts \in Input
<1>1. Len(ts) \in 0 .. MaxLen /\ ts \in [1 .. Len(ts) -> Token]
  BY GenerationAssumption
<1>2. QED
  BY <1>1, GenerationAssumption

\* The inputs along a context.
LEMMA ContextsType ==
  ASSUME NEW ts \in Seq(Token), Len(ts) <= MaxLen
  PROVE  /\ Contexts(ts) \in Seq(Input)
         /\ Len(Contexts(ts)) = Len(ts)
         /\ \A i \in 1 .. Len(ts) : Contexts(ts)[i] = SubSeq(ts, 1, i)
<1>1. MaxLen \in Nat /\ Len(ts) \in Nat
  BY GenerationAssumption
<1>2. ASSUME NEW i \in 1 .. Len(ts) PROVE SubSeq(ts, 1, i) \in Input
  <2>1. i \in 0 .. Len(ts)
    OBVIOUS
  <2>2. SubSeq(ts, 1, i) \in Seq(Token) /\ Len(SubSeq(ts, 1, i)) = i
    BY <2>1, PrefixSeq
  <2>3. i <= MaxLen
    BY <1>1
  <2>4. QED
    BY <2>2, <2>3, InputOf
<1>3. QED
  BY <1>1, <1>2 DEF Contexts

\* The contexts of a prefix are a prefix of the contexts.
LEMMA ContextsOfPrefix ==
  ASSUME NEW ts \in Seq(Token), Len(ts) <= MaxLen, NEW n \in 0 .. Len(ts)
  PROVE  SubSeq(Contexts(ts), 1, n) = Contexts(SubSeq(ts, 1, n))
<1> DEFINE p == SubSeq(ts, 1, n)
           u == Contexts(ts)
<1>1. p \in Seq(Token) /\ Len(p) = n
  BY PrefixSeq
<1>2. MaxLen \in Nat /\ Len(ts) \in Nat
  BY GenerationAssumption
<1>3. u \in Seq(Input) /\ Len(u) = Len(ts) /\ \A i \in 1 .. Len(ts) : u[i] = SubSeq(ts, 1, i)
  BY ContextsType
<1>4. \A i \in 1 .. n : SubSeq(p, 1, i) = SubSeq(ts, 1, i)
  <2>1. ASSUME NEW i \in 1 .. n PROVE SubSeq(p, 1, i) = SubSeq(ts, 1, i)
    <3>1. i \in 0 .. n
      OBVIOUS
    <3>2. QED
      BY <3>1, PrefixOfPrefix
  <2>2. QED
    BY <2>1
<1> HIDE DEF p, u
<1>5. /\ Contexts(p) \in Seq(Input)
      /\ Len(Contexts(p)) = n
      /\ \A i \in 1 .. n : Contexts(p)[i] = SubSeq(p, 1, i)
  BY <1>1, <1>2, ContextsType
<1>6. /\ SubSeq(u, 1, n) \in Seq(Input)
      /\ Len(SubSeq(u, 1, n)) = n
      /\ \A i \in 1 .. n : SubSeq(u, 1, n)[i] = u[i]
  BY <1>3, PrefixSeq
<1>7. ASSUME NEW i \in 1 .. n PROVE SubSeq(u, 1, n)[i] = Contexts(p)[i]
  <2>1. i \in 1 .. Len(ts)
    BY <1>2
  <2>2. u[i] = SubSeq(ts, 1, i)
    BY <2>1, <1>3
  <2>3. QED
    BY <2>2, <1>4, <1>5, <1>6
<1>8. SubSeq(u, 1, n) = Contexts(p)
  BY <1>5, <1>6, <1>7, SeqEqual
<1>9. QED
  BY <1>8 DEF p, u

\* What was fed along one sequence was fed along any with the same prefix.
LEMMA FedAlong ==
  ASSUME NEW ts \in Seq(Token), Len(ts) <= MaxLen,
         NEW us \in Seq(Token), Len(us) <= MaxLen,
         NEW n \in 0 .. Len(ts), n <= Len(us),
         SubSeq(ts, 1, n) = SubSeq(us, 1, n), NEW c, NEW min,
         LayersFed(c, ts, n, min)
  PROVE  LayersFed(c, us, n, min)
<1>1. n \in 0 .. Len(us)
  OBVIOUS
<1>2. SubSeq(Contexts(ts), 1, n) = SubSeq(Contexts(us), 1, n)
  BY <1>1, ContextsOfPrefix
<1>3. QED
  BY <1>2 DEF LayersFed, FedTo

\* So were the rows.
LEMMA RowsAlong ==
  ASSUME NEW ts \in Seq(Token), NEW us \in Seq(Token),
         NEW n \in 0 .. Len(ts), n <= Len(us),
         SubSeq(ts, 1, n) = SubSeq(us, 1, n), NEW rows, RowsOf(rows, ts, n)
  PROVE  RowsOf(rows, us, n)
<1>1. ASSUME NEW p \in 1 .. n PROVE SubSeq(ts, 1, p) = SubSeq(us, 1, p)
  <2>1. p \in 0 .. n /\ n \in 0 .. Len(us)
    OBVIOUS
  <2>2. /\ SubSeq(SubSeq(ts, 1, n), 1, p) = SubSeq(ts, 1, p)
        /\ SubSeq(SubSeq(us, 1, n), 1, p) = SubSeq(us, 1, p)
    BY <2>1, PrefixOfPrefix
  <2>3. QED
    BY <2>2
<1>2. QED
  BY <1>1 DEF RowsOf

\* Fewer rows of them are rows of them.
LEMMA FewerRows ==
  ASSUME NEW rows, NEW ts, NEW n \in Nat, RowsOf(rows, ts, n), NEW m \in Int, m <= n
  PROVE  RowsOf(rows, ts, m)
  BY DEF RowsOf

-----------------------------------------------------------------------------
(***************************************************************************)
(* The forward pass.                                                       *)
(***************************************************************************)

\* What m holds after the positions from + 1 .. from + n of ts; before the
\* first one, the compressor may be one position ahead.
Forwarded(m, ts, from, n, min) ==
  /\ m.comp \in [Layer -> LayerState]
  /\ m.kv \in [1 .. MaxLen -> Row]
  /\ RowsOf(m.kv, ts, from + n)
  /\ m.out \in Seq(Row)
  /\ Len(m.out) = n
  /\ \A k \in 1 .. n : m.out[k] = SubSeq(ts, 1, from + k)
  /\ n = 0 => \/ from = 0
              \/ \E f \in {from, from + 1} : f <= Len(ts) /\ LayersFed(m.comp, ts, f, min)
  /\ n > 0 => LayersFed(m.comp, ts, from + n, min)

\* The rows below a position give its context.
LEMMA ContextExact ==
  ASSUME NEW ts \in Seq(Token), NEW p \in Nat, p < Len(ts), NEW rows, RowsOf(rows, ts, p)
  PROVE  Context(rows, p, ts[p + 1]) = SubSeq(ts, 1, p + 1)
<1> DEFINE below == SubSeq(ts, 1, p)
<1>1. p \in 0 .. Len(ts)
  OBVIOUS
<1>2. below \in Seq(Token) /\ Len(below) = p
  BY <1>1, PrefixSeq
<1>3. (IF p = 0 THEN <<>> ELSE rows[p]) = below
  <2>1. CASE p = 0
    BY <2>1, <1>2
  <2>2. CASE p # 0
    BY <2>2 DEF RowsOf
  <2>3. QED
    BY <2>1, <2>2
<1>4. ASSUME NEW q \in 1 .. p PROVE rows[q] = SubSeq(below, 1, q)
  <2>1. q \in 0 .. p
    OBVIOUS
  <2>2. SubSeq(below, 1, q) = SubSeq(ts, 1, q)
    BY <1>1, <2>1, PrefixOfPrefix
  <2>3. QED
    BY <2>2 DEF RowsOf
<1>5. Append(below, ts[p + 1]) = SubSeq(ts, 1, p + 1)
  <2>1. 1 <= p + 1 /\ 1 \in Nat \ {0}
    OBVIOUS
  <2>2. QED
    BY <2>1, SegmentAppend
<1> HIDE DEF below
<1>6. Context(rows, p, ts[p + 1]) = Append(below, ts[p + 1])
  BY <1>2, <1>3, <1>4 DEF Context
<1>7. QED
  BY <1>5, <1>6

\* A position advances a layer that was fed up to it, or to one position more.
LEMMA FeedAt ==
  ASSUME NEW l \in Layer, NEW t \in Seq(Input), NEW p \in Nat, p < Len(t),
         NEW min \in Nat \cup {None}, NEW s \in LayerState,
         \/ p = 0
         \/ FedTo(l, s, t, p, min)
         \/ p + 1 <= Len(t) /\ FedTo(l, s, t, p + 1, min)
  PROVE  FedTo(l, FeedLayer(l, s, p, t[p + 1], min), t, p + 1, min)
<1>1. CASE p = 0
  <2>1. t # <<>> /\ 0 + 1 = 1
    OBVIOUS
  <2>2. FedTo(l, FeedLayer(l, s, 0, t[1], min), t, 1, min)
    BY <2>1, FeedFirstInput
  <2>3. QED
    BY <1>1, <2>1, <2>2
<1>2. CASE FedTo(l, s, t, p, min)
  BY <1>2, FeedNextInput
<1>3. CASE p # 0 /\ FedTo(l, s, t, p + 1, min)
  <2>1. p + 1 \in 0 .. Len(t) /\ p \in 1 .. (p + 1) - 1
    BY <1>3
  <2>2. FeedLayer(l, s, p, t[p + 1], min) = s
    BY <1>3, <2>1, FeedSeenInput
  <2>3. QED
    BY <1>3, <2>2
<1>4. QED
  BY <1>1, <1>2, <1>3

\* One position.
LEMMA ForwardStep ==
  ASSUME NEW ts \in Seq(Token), Len(ts) <= MaxLen, NEW from \in Nat, NEW n \in Nat,
         from + n < Len(ts), NEW min \in Nat \cup {None}, NEW m,
         Forwarded(m, ts, from, n, min)
  PROVE  Forwarded(Forward(m, from + n, ts[from + n + 1], min), ts, from, n + 1, min)
<1> DEFINE p == from + n
           u == Contexts(ts)
           x == SubSeq(ts, 1, p + 1)
           c == [l \in Layer |-> FeedLayer(l, m.comp[l], p, x, min)]
           f == [comp |-> c, kv |-> [m.kv EXCEPT ![p + 1] = x], out |-> Append(m.out, x)]
<1>1. /\ p \in Nat /\ p < Len(ts) /\ p + 1 \in 1 .. Len(ts) /\ p + 1 \in 0 .. Len(ts)
      /\ p + 1 \in 1 .. MaxLen /\ Len(ts) \in Nat /\ MaxLen \in Nat
      /\ from + (n + 1) = p + 1
  BY GenerationAssumption
<1>2. u \in Seq(Input) /\ Len(u) = Len(ts) /\ u[p + 1] = x
  BY <1>1, ContextsType
<1>3. x \in Row /\ Len(x) = p + 1 /\ x # Stale
  <2>1. x \in Seq(Token) /\ Len(x) = p + 1
    BY <1>1, PrefixSeq
  <2>2. QED
    BY <2>1, <1>1 DEF Row, Stale
<1>4. Context(m.kv, p, ts[p + 1]) = x
  BY <1>1, ContextExact DEF Forwarded
<1>5. ASSUME NEW l \in Layer PROVE FedTo(l, c[l], u, p + 1, min)
  <2>1. m.comp[l] \in LayerState
    BY DEF Forwarded
  <2>2. \/ p = 0
        \/ FedTo(l, m.comp[l], u, p, min)
        \/ p + 1 <= Len(u) /\ FedTo(l, m.comp[l], u, p + 1, min)
    <3>1. CASE n = 0
      <4>1. p = from
        BY <3>1
      <4>2. QED
        BY <3>1, <4>1, <1>1, <1>2 DEF Forwarded, LayersFed
    <3>2. CASE n > 0
      BY <3>2 DEF Forwarded, LayersFed
    <3>3. QED
      BY <3>1, <3>2
  <2>3. FedTo(l, FeedLayer(l, m.comp[l], p, u[p + 1], min), u, p + 1, min)
    BY <1>1, <1>2, <2>1, <2>2, FeedAt
  <2>4. QED
    BY <2>3, <1>2
<1>6. ASSUME NEW l \in Layer PROVE SeesOwnBlocks(l, c[l], p, x)
  <2>1. p + 1 \in 0 .. Len(u) /\ p < p + 1
    BY <1>1, <1>2
  <2>2. VisibleBlocks(l, c[l], p) = VisibleBlocks(l, Ideal(l, SubSeq(u, 1, p + 1)), p)
    BY <1>1, <1>2, <1>5, <2>1, VisibleFed
  <2>3. SubSeq(u, 1, p + 1) = Contexts(x)
    BY <1>1, ContextsOfPrefix
  <2>4. QED
    BY <2>2, <2>3 DEF SeesOwnBlocks
<1> HIDE DEF x, u
<1>7. Forward(m, p, ts[p + 1], min) = f
  <2> DEFINE h == IF x # Stale /\ \A l \in Layer : SeesOwnBlocks(l, c[l], p, x)
                  THEN x ELSE Stale
  <2>1. h = x
    BY <1>3, <1>6
  <2>2. Forward(m, p, ts[p + 1], min)
          = [comp |-> c, kv |-> [m.kv EXCEPT ![p + 1] = h], out |-> Append(m.out, h)]
    BY <1>4 DEF Forward
  <2>3. QED
    BY <2>1, <2>2
<1> HIDE DEF c
<1>8. f.comp = c /\ f.kv = [m.kv EXCEPT ![p + 1] = x] /\ f.out = Append(m.out, x)
  OBVIOUS
<1> HIDE DEF f
<1>9. c \in [Layer -> LayerState] /\ LayersFed(c, ts, p + 1, min)
  <2>1. c = [l \in Layer |-> c[l]]
    BY DEF c
  <2>2. \A l \in Layer : c[l] \in LayerState
    BY <1>5 DEF FedTo
  <2>3. QED
    BY <2>1, <2>2, <1>5 DEF LayersFed, u
<1>10. f.kv \in [1 .. MaxLen -> Row] /\ RowsOf(f.kv, ts, p + 1)
  <2>1. m.kv \in [1 .. MaxLen -> Row] /\ RowsOf(m.kv, ts, p)
    BY DEF Forwarded
  <2>2. f.kv \in [1 .. MaxLen -> Row]
    BY <2>1, <1>3, <1>8
  <2>3. ASSUME NEW q \in 1 .. p + 1 PROVE f.kv[q] = SubSeq(ts, 1, q)
    <3>1. q \in 1 .. MaxLen
      BY <1>1
    <3>2. CASE q = p + 1
      BY <3>1, <3>2, <2>1, <1>8 DEF x
    <3>3. CASE q # p + 1
      <4>1. q \in 1 .. p
        BY <3>3, <1>1
      <4>2. f.kv[q] = m.kv[q]
        BY <3>1, <3>3, <2>1, <1>8
      <4>3. QED
        BY <4>1, <4>2, <2>1 DEF RowsOf
    <3>4. QED
      BY <3>2, <3>3
  <2>4. QED
    BY <2>2, <2>3 DEF RowsOf
<1>11. /\ f.out \in Seq(Row) /\ Len(f.out) = n + 1
       /\ \A k \in 1 .. n + 1 : f.out[k] = SubSeq(ts, 1, from + k)
  <2>1. /\ m.out \in Seq(Row) /\ Len(m.out) = n
        /\ \A k \in 1 .. n : m.out[k] = SubSeq(ts, 1, from + k)
    BY DEF Forwarded
  <2>2. f.out \in Seq(Row) /\ Len(f.out) = n + 1
    BY <2>1, <1>3, <1>8
  <2>3. ASSUME NEW k \in 1 .. n + 1 PROVE f.out[k] = SubSeq(ts, 1, from + k)
    <3>1. CASE k = n + 1
      <4>1. f.out[k] = x /\ from + k = p + 1
        BY <3>1, <2>1, <1>3, <1>8
      <4>2. QED
        BY <4>1 DEF x
    <3>2. CASE k # n + 1
      <4>1. k \in 1 .. n
        BY <3>2
      <4>2. f.out[k] = m.out[k]
        BY <4>1, <2>1, <1>3, <1>8
      <4>3. QED
        BY <4>1, <4>2, <2>1
    <3>3. QED
      BY <3>1, <3>2
  <2>4. QED
    BY <2>2, <2>3
<1>12. Forwarded(f, ts, from, n + 1, min)
  <2>1. n + 1 # 0 /\ n + 1 > 0
    OBVIOUS
  <2> HIDE DEF p
  <2>2. QED
    BY <1>1, <1>8, <1>9, <1>10, <1>11, <2>1 DEF Forwarded
<1>13. QED
  BY <1>7, <1>12

\* The states of a run exist: a recursive function over 0 .. n needs no more
\* than its value at 0 and a step.
LEMMA RunDefined ==
  ASSUME NEW toks \in Seq(Token), NEW from \in Nat, NEW min
  PROVE  LET r == RunStates(toks, from, min)
         IN  /\ r[0] = [comp |-> comp, kv |-> kv, out |-> <<>>]
             /\ \A n \in 1 .. Len(toks) :
                  r[n] = Forward(r[n - 1], from + n - 1, toks[n], min)
<1> DEFINE first == [comp |-> comp, kv |-> kv, out |-> <<>>]
           after(f, i) == IF i = 0 THEN first
                          ELSE Forward(f[i - 1], from + i - 1, toks[i], min)
           P(n, f) == f = [i \in 0 .. n |-> after(f, i)]
           S == {n \in Nat : \E f : P(n, f)}
<1>1. 0 \in S
  <2> DEFINE f == [i \in 0 .. 0 |-> first]
  <2>1. f = [i \in 0 .. 0 |-> after(f, i)]
    OBVIOUS
  <2>2. P(0, f)
    BY <2>1
  <2>3. QED
    BY <2>2
<1>2. ASSUME NEW n \in Nat, n \in S PROVE n + 1 \in S
  <2>1. PICK f : P(n, f)
    BY <1>2
  <2> DEFINE last == Forward(f[n], from + (n + 1) - 1, toks[n + 1], min)
             g == [i \in 0 .. n + 1 |-> IF i <= n THEN f[i] ELSE last]
  <2>2. ASSUME NEW i \in 0 .. n + 1 PROVE g[i] = after(g, i)
    <3>1. CASE i = 0
      <4>1. f[0] = after(f, 0)
        <5>1. 0 \in 0 .. n
          OBVIOUS
        <5> HIDE DEF after
        <5>2. QED
          BY <2>1, <5>1
      <4>2. g[0] = f[0]
        OBVIOUS
      <4>3. QED
        BY <3>1, <4>1, <4>2
    <3>2. CASE i \in 1 .. n
      <4>1. f[i] = after(f, i)
        <5>1. i \in 0 .. n
          BY <3>2
        <5> HIDE DEF after
        <5>2. QED
          BY <2>1, <5>1
      <4>2. g[i] = f[i] /\ g[i - 1] = f[i - 1] /\ i # 0
        BY <3>2
      <4> HIDE DEF g
      <4>3. QED
        BY <4>1, <4>2
    <3>3. CASE i = n + 1
      <4>1. g[i] = last /\ g[i - 1] = f[n] /\ i # 0
        BY <3>3
      <4> HIDE DEF g
      <4>2. QED
        BY <3>3, <4>1
    <3>4. QED
      BY <3>1, <3>2, <3>3
  <2>3. g = [i \in 0 .. n + 1 |-> g[i]]
    OBVIOUS
  <2> HIDE DEF g, after
  <2>4. g = [i \in 0 .. n + 1 |-> after(g, i)]
    BY <2>2, <2>3
  <2>5. P(n + 1, g)
    BY <2>4
  <2> HIDE DEF P
  <2>6. QED
    BY <2>5
<1> HIDE DEF S
<1>3. Len(toks) \in S
  <2>1. Nat \subseteq S
    BY <1>1, <1>2, SetInduction
  <2>2. QED
    BY <2>1
<1>4. \E f : P(Len(toks), f)
  BY <1>3 DEF S
<1>5. RunStates(toks, from, min) = CHOOSE f : P(Len(toks), f)
  BY DEF RunStates
<1> HIDE DEF P
<1>6. P(Len(toks), RunStates(toks, from, min))
  BY <1>4, <1>5
<1> DEFINE r == RunStates(toks, from, min)
<1>7. r = [i \in 0 .. Len(toks) |-> after(r, i)]
  BY <1>6 DEF P
<1> HIDE DEF r
<1>8. r[0] = first
  <2>1. 0 \in 0 .. Len(toks)
    OBVIOUS
  <2>2. r[0] = after(r, 0)
    <3> HIDE DEF after
    <3>1. QED
      BY <1>7, <2>1
  <2>3. QED
    BY <2>2
<1>9. ASSUME NEW n \in 1 .. Len(toks)
      PROVE  r[n] = Forward(r[n - 1], from + n - 1, toks[n], min)
  <2>1. n \in 0 .. Len(toks) /\ n # 0
    OBVIOUS
  <2>2. r[n] = after(r, n)
    <3> HIDE DEF after
    <3>1. QED
      BY <1>7, <2>1
  <2>3. QED
    BY <2>1, <2>2
<1>10. QED
  BY <1>8, <1>9 DEF r

\* A run of the positions after the first from of ts.
LEMMA RunForwards ==
  ASSUME NEW ts \in Seq(Token), Len(ts) <= MaxLen, NEW from \in Nat,
         NEW toks \in Seq(Token), from + Len(toks) <= Len(ts),
         \A i \in 1 .. Len(toks) : toks[i] = ts[from + i],
         NEW min \in Nat \cup {None},
         Forwarded([comp |-> comp, kv |-> kv, out |-> <<>>], ts, from, 0, min)
  PROVE  Forwarded(Run(toks, from, min), ts, from, Len(toks), min)
<1> DEFINE r == RunStates(toks, from, min)
           S == {n \in Nat : n <= Len(toks) => Forwarded(r[n], ts, from, n, min)}
<1>1. /\ r[0] = [comp |-> comp, kv |-> kv, out |-> <<>>]
      /\ \A n \in 1 .. Len(toks) : r[n] = Forward(r[n - 1], from + n - 1, toks[n], min)
  BY RunDefined
<1> HIDE DEF r
<1>2. 0 \in S
  BY <1>1
<1>3. ASSUME NEW n \in Nat, n \in S PROVE n + 1 \in S
  <2> SUFFICES ASSUME n + 1 <= Len(toks) PROVE Forwarded(r[n + 1], ts, from, n + 1, min)
    OBVIOUS
  <2>1. Forwarded(r[n], ts, from, n, min)
    BY <1>3
  <2>2. n + 1 \in 1 .. Len(toks) /\ (n + 1) - 1 = n /\ from + (n + 1) - 1 = from + n
    OBVIOUS
  <2>3. r[n + 1] = Forward(r[n], from + n, toks[n + 1], min)
    BY <1>1, <2>2
  <2>4. toks[n + 1] = ts[from + n + 1]
    BY <2>2
  <2>5. from + n < Len(ts)
    BY <2>2
  <2>6. QED
    BY <2>1, <2>3, <2>4, <2>5, ForwardStep
<1> HIDE DEF S
<1>4. Len(toks) \in S
  <2>1. Nat \subseteq S
    BY <1>2, <1>3, SetInduction
  <2>2. QED
    BY <2>1
<1>5. Forwarded(r[Len(toks)], ts, from, Len(toks), min)
  BY <1>4 DEF S
<1>6. QED
  BY <1>5 DEF r, Run

\* Wherever a run stopped, every layer is in some state.
LEMMA PartialType ==
  ASSUME NEW toks, NEW from, NEW min, NEW D, comp \in [Layer -> LayerState],
         Run(toks, from, min).comp \in [Layer -> LayerState]
  PROVE  PartialComp(toks, from, min, D) \in [Layer -> LayerState]
  BY DEF PartialComp

-----------------------------------------------------------------------------
(***************************************************************************)
(* The session store.                                                      *)
(***************************************************************************)

\* Of bounded scores there is a first greatest one.
LEMMA FirstBestIndex ==
  ASSUME NEW D, D \subseteq Nat, D # {}, NEW bound \in Nat, NEW score \in [D -> 0 .. bound]
  PROVE  FirstBest(score) \in D
<1> DEFINE V == {bound - score[i] : i \in D}
<1>1. V \subseteq Nat /\ V # {}
  <2>1. ASSUME NEW i \in D PROVE bound - score[i] \in Nat
    <3>1. score[i] \in 0 .. bound
      OBVIOUS
    <3>2. QED
      BY <3>1
  <2>2. QED
    BY <2>1
<1>2. PICK v \in V : \A w \in V : v <= w
  <2> HIDE DEF V
  <2>1. QED
    BY <1>1, LeastNatural
<1> DEFINE T == {i \in D : bound - score[i] = v}
<1>3. T \subseteq Nat /\ T # {}
  BY <1>2
<1>4. PICK i \in T : \A j \in T : i <= j
  <2> HIDE DEF T
  <2>1. QED
    BY <1>3, LeastNatural
<1>5. ASSUME NEW j \in D \ {i}
      PROVE  score[j] < score[i] \/ (score[j] = score[i] /\ i < j)
  <2>1. score[i] \in 0 .. bound /\ score[j] \in 0 .. bound /\ i \in Nat /\ j \in Nat
    BY <1>4
  <2>2. bound - score[i] <= bound - score[j]
    BY <1>2, <1>4
  <2>3. CASE score[j] = score[i]
    <3>1. j \in T
      BY <2>3, <1>4
    <3>2. i <= j /\ i # j
      BY <3>1, <1>4
    <3>3. QED
      BY <2>3, <3>2, <2>1
  <2>4. CASE score[j] # score[i]
    BY <2>1, <2>2, <2>4
  <2>5. QED
    BY <2>3, <2>4
<1>6. DOMAIN score = D /\ i \in D
  BY <1>4
<1> HIDE DEF T, V
<1>7. \E k \in D : \A j \in D \ {k} :
        score[j] < score[k] \/ (score[j] = score[k] /\ k < j)
  BY <1>5, <1>6
<1>8. QED
  BY <1>6, <1>7 DEF FirstBest

\* The stamp of a slot says nothing about what it holds.
LEMMA Restamp ==
  ASSUME NEW s, SlotExact(s), NEW k \in 0 .. MaxSlots
  PROVE  /\ SlotExact([s EXCEPT !.last_used = k])
         /\ [s EXCEPT !.last_used = k].last_used = k
<1> DEFINE t == [s EXCEPT !.last_used = k]
<1>1. s \in StoredSlot
  BY DEF SlotExact
<1>2. /\ t \in StoredSlot /\ t.tokens = s.tokens /\ t.valid = s.valid
      /\ t.kv = s.kv /\ t.comp = s.comp /\ t.last_used = k
  BY <1>1 DEF StoredSlot
<1> HIDE DEF t
<1>3. SlotExact(t)
  BY <1>2 DEF SlotExact
<1>4. QED
  BY <1>2, <1>3 DEF t

\* Stamping a slot with the current clock.
LEMMA TouchedKeeps ==
  ASSUME NEW ss, SlotsInv(ss), NEW i \in 1 .. Len(ss)
  PROVE  SlotsInv(Touched(ss, i))
<1> DEFINE n == Len(ss)
           used(j) == ss[j].last_used
           stamp(j) == IF j = i THEN n
                       ELSE IF used(j) > used(i) THEN used(j) - 1 ELSE used(j)
           e(j) == [ss[j] EXCEPT !.last_used = stamp(j)]
           tt == [j \in 1 .. n |-> e(j)]
<1>1. /\ ss \in Seq(StoredSlot) /\ n <= MaxSlots /\ n \in Nat /\ MaxSlots \in Nat
      /\ \A j \in 1 .. n : SlotExact(ss[j])
      /\ \A j \in 1 .. n : used(j) \in 1 .. n
      /\ \A k \in 1 .. n : \E j \in 1 .. n : used(j) = k
  BY GenerationAssumption, SMTT(30) DEF SlotsInv, Stamped
<1>2. Touched(ss, i) = tt
  <2>1. DOMAIN ss = 1 .. n
    BY <1>1
  <2>2. ASSUME NEW j \in 1 .. n
        PROVE  [ss[j] EXCEPT !.last_used =
                  IF j = i THEN Len(ss)
                  ELSE IF @ > ss[i].last_used THEN @ - 1 ELSE @] = e(j)
    OBVIOUS
  <2> HIDE DEF e
  <2>3. QED
    BY <2>1, <2>2 DEF Touched
<1>3. ASSUME NEW j \in 1 .. n PROVE stamp(j) \in 1 .. n
  <2>1. used(j) \in 1 .. n /\ used(i) \in 1 .. n
    BY <1>1
  <2>2. n \in Nat /\ i \in 1 .. n
    BY <1>1
  <2> HIDE DEF used, n
  <2>3. CASE j = i
    BY <2>2, <2>3
  <2>4. CASE j # i /\ used(j) > used(i)
    <3>1. used(j) - 1 \in 1 .. n
      BY <2>1, <2>2, <2>4
    <3>2. QED
      BY <2>4, <3>1
  <2>5. CASE j # i /\ ~(used(j) > used(i))
    BY <2>1, <2>5
  <2>6. QED
    BY <2>3, <2>4, <2>5
<1>4. ASSUME NEW k \in 1 .. n PROVE \E j \in 1 .. n : stamp(j) = k
  <2>1. used(i) \in 1 .. n
    BY <1>1
  <2>2. CASE k = n
    BY <2>2
  <2>3. CASE k < used(i)
    <3>1. PICK j \in 1 .. n : used(j) = k
      BY <1>1
    <3> HIDE DEF used
    <3>2. stamp(j) = k
      BY <3>1, <2>1, <2>3
    <3>3. QED
      BY <3>2
  <2>4. CASE k # n /\ used(i) <= k
    <3>1. k + 1 \in 1 .. n
      BY <2>4, <1>1
    <3>2. PICK j \in 1 .. n : used(j) = k + 1
      BY <3>1, <1>1
    <3> HIDE DEF used
    <3>3. stamp(j) = k
      BY <3>2, <2>1, <2>4
    <3>4. QED
      BY <3>3
  <2>5. k \in Int /\ n \in Int /\ used(i) \in Int
    <3>1. n \in Nat
      BY <1>1
    <3> HIDE DEF n, used
    <3>2. QED
      BY <3>1, <2>1
  <2> HIDE DEF used, stamp, n
  <2>6. QED
    BY <2>2, <2>3, <2>4, <2>5
<1> HIDE DEF stamp
<1>5. ASSUME NEW j \in 1 .. n
      PROVE  SlotExact(e(j)) /\ e(j).last_used = stamp(j) /\ e(j) \in StoredSlot
  <2>1. stamp(j) \in 0 .. MaxSlots
    <3>1. stamp(j) \in 1 .. n
      BY <1>3
    <3>2. n \in Nat /\ MaxSlots \in Nat /\ n <= MaxSlots
      BY <1>1
    <3> HIDE DEF n
    <3>3. QED
      BY <3>1, <3>2
  <2>2. SlotExact(e(j)) /\ e(j).last_used = stamp(j)
    BY <2>1, <1>1, Restamp
  <2>3. QED
    BY <2>2 DEF SlotExact
<1> HIDE DEF e
<1>6. tt \in Seq(StoredSlot) /\ Len(tt) = n /\ \A j \in 1 .. n : tt[j] = e(j)
  BY <1>1, <1>5
<1> HIDE DEF tt, n
<1>7. SlotsInv(tt)
  <2>1. \A j \in 1 .. Len(tt) : SlotExact(tt[j])
    BY <1>5, <1>6
  <2>2. Stamped(tt)
    <3>1. \A j \in 1 .. Len(tt) : tt[j].last_used = stamp(j)
      BY <1>5, <1>6
    <3>2. \A j \in 1 .. Len(tt) : tt[j].last_used \in 1 .. Len(tt)
      BY <3>1, <1>3, <1>6
    <3>3. \A k \in 1 .. Len(tt) : \E j \in 1 .. Len(tt) : tt[j].last_used = k
      BY <3>1, <1>4, <1>6
    <3>4. QED
      BY <3>2, <3>3 DEF Stamped
  <2>3. QED
    BY <1>1, <1>6, <2>1, <2>2 DEF SlotsInv
<1>8. QED
  BY <1>2, <1>7

\* A new conversation in place of a stored one.
LEMMA ReplacedKeeps ==
  ASSUME NEW ss, SlotsInv(ss), NEW i \in 1 .. Len(ss), NEW s, SlotExact(s)
  PROVE  SlotsInv(Touched([ss EXCEPT ![i] = [s EXCEPT !.last_used = ss[i].last_used]], i))
<1> DEFINE e == [s EXCEPT !.last_used = ss[i].last_used]
           tt == [ss EXCEPT ![i] = e]
<1>1. /\ ss \in Seq(StoredSlot) /\ Len(ss) <= MaxSlots /\ MaxSlots \in Nat
      /\ \A j \in 1 .. Len(ss) : SlotExact(ss[j])
      /\ Stamped(ss)
  BY GenerationAssumption DEF SlotsInv
<1>2. ss[i].last_used \in 1 .. Len(ss)
  BY <1>1 DEF Stamped
<1>3. SlotExact(e) /\ e.last_used = ss[i].last_used /\ e \in StoredSlot
  <2>1. ss[i].last_used \in 0 .. MaxSlots
    BY <1>1, <1>2
  <2>2. SlotExact(e) /\ e.last_used = ss[i].last_used
    BY <2>1, Restamp
  <2>3. QED
    BY <2>2 DEF SlotExact
<1> HIDE DEF e
<1>4. /\ tt \in Seq(StoredSlot) /\ Len(tt) = Len(ss)
      /\ \A j \in 1 .. Len(ss) : tt[j] = IF j = i THEN e ELSE ss[j]
  BY <1>1, <1>3
<1> HIDE DEF tt
<1>5. SlotsInv(tt)
  <2>1. \A j \in 1 .. Len(tt) : SlotExact(tt[j])
    BY <1>1, <1>3, <1>4
  <2>2. \A j \in 1 .. Len(tt) : tt[j].last_used = ss[j].last_used
    BY <1>3, <1>4
  <2>3. Stamped(tt)
    BY <1>1, <1>4, <2>2 DEF Stamped
  <2>4. QED
    BY <1>1, <1>4, <2>1, <2>3 DEF SlotsInv
<1>6. SlotsInv(Touched(tt, i))
  BY <1>4, <1>5, TouchedKeeps
<1>7. QED
  BY <1>6 DEF tt, e

\* A new conversation in a slot of its own.
LEMMA AppendedKeeps ==
  ASSUME NEW ss, SlotsInv(ss), Len(ss) < MaxSlots, NEW s, SlotExact(s)
  PROVE  SlotsInv(Append(ss, [s EXCEPT !.last_used = Len(ss) + 1]))
<1> DEFINE n == Len(ss)
           e == [s EXCEPT !.last_used = n + 1]
           tt == Append(ss, e)
<1>1. /\ ss \in Seq(StoredSlot) /\ n \in Nat /\ MaxSlots \in Nat
      /\ \A j \in 1 .. n : SlotExact(ss[j])
      /\ \A j \in 1 .. n : ss[j].last_used \in 1 .. n
      /\ \A k \in 1 .. n : \E j \in 1 .. n : ss[j].last_used = k
  BY GenerationAssumption DEF SlotsInv, Stamped
<1>2. SlotExact(e) /\ e.last_used = n + 1 /\ e \in StoredSlot
  <2>1. n + 1 \in 0 .. MaxSlots
    BY <1>1
  <2>2. SlotExact(e) /\ e.last_used = n + 1
    BY <2>1, Restamp
  <2>3. QED
    BY <2>2 DEF SlotExact
<1> HIDE DEF e
<1>3. /\ tt \in Seq(StoredSlot) /\ Len(tt) = n + 1 /\ tt[n + 1] = e
      /\ \A j \in 1 .. n : tt[j] = ss[j]
  BY <1>1, <1>2
<1> HIDE DEF tt
<1> HIDE DEF n
<1>4. ASSUME NEW j \in 1 .. n + 1 PROVE SlotExact(tt[j])
  <2>1. CASE j = n + 1
    BY <2>1, <1>2, <1>3
  <2>2. CASE j # n + 1
    <3>1. j \in 1 .. n
      BY <2>2, <1>1
    <3>2. QED
      BY <3>1, <1>1, <1>3
  <2>3. QED
    BY <2>1, <2>2
<1>5. \A j \in 1 .. n + 1 : tt[j].last_used \in 1 .. n + 1
  <2>1. ASSUME NEW j \in 1 .. n + 1 PROVE tt[j].last_used \in 1 .. n + 1
    <3>1. CASE j = n + 1
      BY <3>1, <1>1, <1>2, <1>3
    <3>2. CASE j # n + 1
      <4>1. j \in 1 .. n
        BY <3>2, <1>1
      <4>2. tt[j].last_used \in 1 .. n
        BY <4>1, <1>1, <1>3
      <4>3. QED
        BY <4>2, <1>1
    <3>3. QED
      BY <3>1, <3>2
  <2>2. QED
    BY <2>1
<1>6. ASSUME NEW k \in 1 .. n + 1 PROVE \E j \in 1 .. n + 1 : tt[j].last_used = k
  <2>1. CASE k = n + 1
    BY <2>1, <1>2, <1>3
  <2>2. CASE k # n + 1
    <3>1. k \in 1 .. n
      BY <2>2, <1>1
    <3>2. PICK j \in 1 .. n : ss[j].last_used = k
      BY <3>1, <1>1
    <3>3. j \in 1 .. n + 1 /\ tt[j].last_used = k
      BY <3>2, <1>1, <1>3
    <3>4. QED
      BY <3>3
  <2>3. QED
    BY <2>1, <2>2
<1>7. SlotsInv(tt)
  <2>1. Stamped(tt)
    BY <1>3, <1>5, <1>6 DEF Stamped
  <2> HIDE DEF n
  <2>2. n + 1 <= MaxSlots
    BY <1>1 DEF n
  <2>3. QED
    BY <1>3, <1>4, <2>1, <2>2 DEF SlotsInv
<1>8. QED
  BY <1>7 DEF tt, e, n

\* Storing a conversation.
LEMMA StoredKeeps ==
  ASSUME NEW ss, SlotsInv(ss), NEW s, SlotExact(s)
  PROVE  SlotsInv(Stored(ss, s))
<1> DEFINE same == {i \in DOMAIN ss : SameConversation(ss[i], s.tokens)}
           lru  == CHOOSE i \in DOMAIN ss : ss[i].last_used = 1
           put(i) == Touched([ss EXCEPT ![i] = [s EXCEPT !.last_used = ss[i].last_used]], i)
           best == FirstBest([i \in same |-> ss[i].valid])
<1>1. /\ ss \in Seq(StoredSlot) /\ Len(ss) \in Nat /\ Len(ss) <= MaxSlots
      /\ DOMAIN ss = 1 .. Len(ss) /\ MaxSlots \in Nat \ {0} /\ MaxLen \in Nat
  BY GenerationAssumption DEF SlotsInv
<1>2. ASSUME same # {} PROVE SlotsInv(put(best))
  <2>1. same \subseteq Nat /\ same \subseteq 1 .. Len(ss)
    BY <1>1
  <2>2. ASSUME NEW i \in same PROVE ss[i].valid \in 0 .. MaxLen
    <3>1. SlotExact(ss[i])
      BY <2>1 DEF SlotsInv
    <3>2. /\ ss[i].valid \in Nat /\ Len(ss[i].tokens) = ss[i].valid + 1
          /\ Len(ss[i].tokens) <= MaxLen
      BY <3>1 DEF SlotExact, StoredSlot
    <3>3. QED
      BY <3>2, <1>1
  <2> HIDE DEF same
  <2>3. [i \in same |-> ss[i].valid] \in [same -> 0 .. MaxLen]
    BY <2>2
  <2>4. best \in same
    BY <1>1, <1>2, <2>1, <2>3, FirstBestIndex
  <2> HIDE DEF best
  <2>5. QED
    BY <2>1, <2>4, ReplacedKeeps
<1>3. ASSUME ~(Len(ss) < MaxSlots) PROVE SlotsInv(put(lru))
  <2>1. \E i \in DOMAIN ss : ss[i].last_used = 1
    <3>1. 1 \in 1 .. Len(ss)
      BY <1>1, <1>3
    <3>2. QED
      BY <3>1, <1>1 DEF SlotsInv, Stamped
  <2>2. lru \in DOMAIN ss
    BY <2>1
  <2> HIDE DEF lru
  <2>3. QED
    BY <2>2, <1>1, ReplacedKeeps
<1>4. ASSUME Len(ss) < MaxSlots
      PROVE  SlotsInv(Append(ss, [s EXCEPT !.last_used = Len(ss) + 1]))
  BY <1>4, AppendedKeeps
<1>5. Stored(ss, s) = IF same # {} THEN put(best)
                      ELSE IF Len(ss) < MaxSlots
                      THEN Append(ss, [s EXCEPT !.last_used = Len(ss) + 1])
                      ELSE put(lru)
  BY DEF Stored
<1> HIDE DEF same, put, best, lru
<1>6. QED
  BY <1>2, <1>3, <1>4, <1>5

\* A prompt that extends a stored conversation matches all of its valid rows.
LEMMA ExtendedMatch ==
  ASSUME NEW s, SlotExact(s), NEW prompt \in Seq(Token), MatchLen(s, prompt) > 0,
         Len(s.tokens) < Len(prompt), SubSeq(prompt, 1, Len(s.tokens)) = s.tokens
  PROVE  MatchLen(s, prompt) = s.valid
<1>1. /\ s.tokens \in Seq(Token) /\ s.valid \in Nat /\ Len(s.tokens) = s.valid + 1
      /\ Len(prompt) \in Nat
  BY DEF SlotExact, StoredSlot
<1>2. Smaller(Smaller(s.valid, Len(s.tokens)), Len(prompt) - 1) = s.valid
  BY <1>1 DEF Smaller
<1>3. QED
  BY <1>1, <1>2 DEF MatchLen

\* At most all positions but the last of the prompt match.
LEMMA MatchBounded ==
  ASSUME NEW s, SlotExact(s), NEW prompt \in Seq(Token), prompt # <<>>
  PROVE  MatchLen(s, prompt) \in 0 .. Len(prompt) - 1
<1>1. s.valid \in Nat /\ Len(s.tokens) = s.valid + 1 /\ Len(prompt) \in Nat \ {0}
  BY DEF SlotExact, StoredSlot
<1>2. Smaller(Smaller(s.valid, Len(s.tokens)), Len(prompt) - 1) \in 0 .. Len(prompt) - 1
  BY <1>1 DEF Smaller
<1>3. QED
  BY <1>1, <1>2 DEF MatchLen

-----------------------------------------------------------------------------
(***************************************************************************)
(* Tokens and drafts.                                                      *)
(***************************************************************************)

\* The prefixes of s followed by the elements a + 1 .. b of t.
LEMMA PrefixOfJoin ==
  ASSUME NEW S, NEW s \in Seq(S), NEW t \in Seq(S), NEW a \in Nat, NEW b \in Nat,
         a <= b, b <= Len(t), NEW k \in 0 .. b - a
  PROVE  LET j == s \o SubSeq(t, a + 1, b)
         IN  /\ j \in Seq(S)
             /\ Len(j) = Len(s) + (b - a)
             /\ SubSeq(j, 1, Len(s) + k) = s \o SubSeq(t, a + 1, a + k)
<1> DEFINE u == SubSeq(t, a + 1, b)
           v == SubSeq(t, a + 1, a + k)
           j == s \o u
           r == s \o v
<1>1. /\ a + 1 \in Nat \ {0} /\ b \in 0 .. Len(t) /\ a + 1 <= b + 1
      /\ a + k \in 0 .. Len(t) /\ a + 1 <= a + k + 1
      /\ b - (a + 1) + 1 = b - a /\ (a + k) - (a + 1) + 1 = k
      /\ b - a \in Nat /\ k \in Nat /\ k <= b - a
  OBVIOUS
<1>2. u \in Seq(S) /\ Len(u) = b - a /\ \A i \in 1 .. b - a : u[i] = t[(a + 1) + i - 1]
  BY <1>1, SegmentSeq
<1>3. v \in Seq(S) /\ Len(v) = k /\ \A i \in 1 .. k : v[i] = t[(a + 1) + i - 1]
  BY <1>1, SegmentSeq
<1> HIDE DEF u, v
<1>4. /\ j \in Seq(S) /\ Len(j) = Len(s) + (b - a)
      /\ \A i \in 1 .. Len(s) + (b - a) : j[i] = IF i <= Len(s) THEN s[i] ELSE u[i - Len(s)]
  <2>1. /\ j \in Seq(S) /\ Len(j) = Len(s) + Len(u)
        /\ \A i \in 1 .. Len(s) + Len(u) : j[i] = IF i <= Len(s) THEN s[i] ELSE u[i - Len(s)]
    BY <1>2, ConcatProperties, ZenonT(30)
  <2> HIDE DEF j
  <2>2. QED
    BY <1>2, <2>1
<1>5. /\ r \in Seq(S) /\ Len(r) = Len(s) + k
      /\ \A i \in 1 .. Len(s) + k : r[i] = IF i <= Len(s) THEN s[i] ELSE v[i - Len(s)]
  BY <1>3, ConcatProperties
<1> HIDE DEF j, r
<1>6. Len(s) + k \in 0 .. Len(j)
  <2>1. /\ Len(s) \in Nat /\ k \in Nat /\ b - a \in Nat /\ k <= b - a
        /\ Len(j) = Len(s) + (b - a)
    BY <1>1, <1>4
  <2>2. QED
    BY <2>1
<1>7. /\ SubSeq(j, 1, Len(s) + k) \in Seq(S)
      /\ Len(SubSeq(j, 1, Len(s) + k)) = Len(s) + k
      /\ \A i \in 1 .. Len(s) + k : SubSeq(j, 1, Len(s) + k)[i] = j[i]
  BY <1>4, <1>6, PrefixSeq
<1>8. ASSUME NEW i \in 1 .. Len(s) + k PROVE SubSeq(j, 1, Len(s) + k)[i] = r[i]
  <2>1. i \in 1 .. Len(s) + (b - a) /\ i \in 1 .. Len(s) + k
    <3>1. Len(s) \in Nat
      OBVIOUS
    <3>2. QED
      BY <1>1, <3>1
  <2>2. CASE i <= Len(s)
    BY <2>1, <2>2, <1>4, <1>5, <1>7
  <2>3. CASE ~(i <= Len(s))
    <3>1. i - Len(s) \in 1 .. k /\ i - Len(s) \in 1 .. b - a
      BY <2>3, <1>1
    <3>2. u[i - Len(s)] = v[i - Len(s)]
      BY <3>1, <1>2, <1>3
    <3>3. QED
      BY <3>2, <2>1, <2>3, <1>4, <1>5, <1>7
  <2>4. QED
    BY <2>2, <2>3
<1>9. SubSeq(j, 1, Len(s) + k) = r
  BY <1>5, <1>7, <1>8, SeqEqual
<1>10. QED
  BY <1>4, <1>9 DEF j, r, u, v

\* Moving the next draft behind the tokens.
LEMMA JoinNext ==
  ASSUME NEW S, NEW s \in Seq(S), NEW t \in Seq(S), NEW a \in Nat, a < Len(t)
  PROVE  Append(s, t[a + 1]) \o SubSeq(t, a + 2, Len(t)) = s \o SubSeq(t, a + 1, Len(t))
<1> DEFINE v == SubSeq(t, a + 2, Len(t))
<1>1. /\ a + 1 \in 1 .. Len(t) /\ Len(t) \in a + 1 .. Len(t) /\ (a + 1) + 1 = a + 2
      /\ t[a + 1] \in S
  OBVIOUS
<1>2. SubSeq(t, a + 1, Len(t)) = <<t[a + 1]>> \o v
  BY <1>1, SubSeqRecursiveFirst
<1>3. v \in Seq(S) /\ <<t[a + 1]>> \in Seq(S)
  <2>1. a + 2 \in Nat \ {0} /\ Len(t) \in 0 .. Len(t) /\ a + 2 <= Len(t) + 1
    OBVIOUS
  <2>2. QED
    BY <1>1, <2>1, SegmentSeq
<1>4. Append(s, t[a + 1]) = s \o <<t[a + 1]>>
  BY <1>1
<1> HIDE DEF v
<1>5. (s \o <<t[a + 1]>>) \o v = s \o (<<t[a + 1]>> \o v)
  BY <1>3, ConcatAssociative
<1>6. QED
  BY <1>2, <1>4, <1>5 DEF v

-----------------------------------------------------------------------------
(***************************************************************************)
(* The request being served.                                               *)
(***************************************************************************)

\* The sizes of a request in progress.
LEMMA Sizes ==
  ASSUME IInv, pc # "idle"
  PROVE  /\ request.prompt \in Seq(Token) /\ request.prompt # <<>>
         /\ request.max_new \in Nat
         /\ tokens \in Seq(Token)
         /\ Len(request.prompt) \in Nat \ {0} /\ Len(tokens) \in Nat \ {0}
         /\ Len(tokens) = Len(request.prompt) + Emitted
         /\ Emitted \in 0 .. request.max_new
         /\ Len(tokens) <= MaxLen
         /\ MaxLen \in Nat
         /\ ~Answered => Emitted < request.max_new /\ Len(tokens) < MaxLen
<1>1. RequestInv
  BY DEF IInv
<1>2. /\ request.prompt \in Seq(Token) /\ request.prompt # <<>>
      /\ request.max_new \in Nat /\ tokens \in Seq(Token)
      /\ Len(request.prompt) + request.max_new <= MaxLen
      /\ Len(request.prompt) <= Len(tokens) /\ Emitted <= request.max_new
  BY <1>1 DEF RequestInv
<1>3. Len(request.prompt) \in Nat \ {0} /\ Len(tokens) \in Nat /\ MaxLen \in Nat
  BY <1>2, GenerationAssumption
<1>4. Emitted = Len(tokens) - Len(request.prompt)
  BY DEF Emitted
<1>5. ~Answered => Emitted # request.max_new
  BY DEF Answered
<1>6. QED
  BY <1>2, <1>3, <1>4, <1>5

\* The KV cache and the compressor are ready for the positions of ts after
\* the first from ones.
Ready(ts, from, min) ==
  /\ Shapes
  /\ RowsOf(kv, ts, from)
  /\ \/ from = 0
     \/ \E f \in {from, from + 1} : f <= Len(ts) /\ LayersFed(comp, ts, f, min)

\* A run of such positions.
LEMMA RunFrom ==
  ASSUME NEW ts \in Seq(Token), Len(ts) <= MaxLen, NEW from \in Nat,
         NEW toks \in Seq(Token), from + Len(toks) <= Len(ts),
         \A i \in 1 .. Len(toks) : toks[i] = ts[from + i],
         NEW min \in Nat \cup {None}, Ready(ts, from, min)
  PROVE  Forwarded(Run(toks, from, min), ts, from, Len(toks), min)
<1> DEFINE b == [comp |-> comp, kv |-> kv, out |-> <<>>]
<1>1. b.comp = comp /\ b.kv = kv /\ b.out = <<>>
  OBVIOUS
<1> HIDE DEF b
<1>2. Forwarded(b, ts, from, 0, min)
  <2>1. from + 0 = from /\ \A k \in 1 .. 0 : FALSE
    OBVIOUS
  <2>2. <<>> \in Seq(Row) /\ Len(<<>>) = 0
    OBVIOUS
  <2>3. RowsOf(b.kv, ts, from + 0)
    BY <1>1, <2>1 DEF Ready
  <2>4. QED
    BY <1>1, <2>1, <2>2, <2>3 DEF Forwarded, Shapes, Ready
<1>3. QED
  BY <1>2, RunForwards DEF b

-----------------------------------------------------------------------------
(***************************************************************************)
(* Beginning and end of a request.                                         *)
(***************************************************************************)

\* The server starts without sessions and without a request.
LEMMA InitInv == Init => IInv
<1> SUFFICES ASSUME Init PROVE IInv
  OBVIOUS
<1>1. Shapes
  <2>1. EmptyState \in LayerState
    <3>1. None \in Nat \cup {None}
      OBVIOUS
    <3>2. QED
      BY <3>1, EmptyInv
  <2>2. comp \in [Layer -> LayerState]
    BY <2>1 DEF Init
  <2>3. kv \in [1 .. MaxLen -> Row] /\ hidden \in Row
    BY DEF Init, NoRow, Row, Stale
  <2>4. QED
    BY <2>2, <2>3 DEF Shapes, Init
<1>2. SlotsInv(slots)
  <2>1. slots = <<>>
    BY DEF Init
  <2>2. <<>> \in Seq(StoredSlot) /\ Len(<<>>) = 0
    OBVIOUS
  <2>3. Len(<<>>) <= MaxSlots
    BY <2>2, GenerationAssumption
  <2>4. QED
    BY <2>1, <2>2, <2>3 DEF SlotsInv, Stamped
<1>3. IdleInv /\ NoPass /\ spec_min = None /\ pc = "idle"
  BY DEF Init, IdleInv, NoPass
<1>4. QED
  BY <1>1, <1>2, <1>3 DEF IInv

\* Whatever ends a request leaves only the session behind.
LEMMA CloseInv ==
  ASSUME IInv, NEW how \in {"finished", "failed"}, Close(how),
         SlotsInv(slots'), comp' \in [Layer -> LayerState], spec_min' = None
  PROVE  IInv'
<1>1. Shapes'
  <2>1. kv' \in [1 .. MaxLen -> Row] /\ hidden' \in Row
    BY DEF Close, NoRow, Row, Stale
  <2>2. QED
    BY <2>1 DEF Close, Shapes
<1>2. SlotsInv(slots)'
  BY DEF SlotsInv, Stamped, SlotExact, StoredSlot, RowsOf
<1>3. IdleInv' /\ NoPass' /\ spec_min' = None /\ pc' = "idle"
  BY DEF Close, IdleInv, NoPass
<1>4. QED
  BY <1>1, <1>2, <1>3 DEF IInv

\* A request that is closed in any state but a pass under verification.
LEMMA AbortInv ==
  ASSUME IInv, NEW how \in {"finished", "failed"}, Close(how), pc # "verify",
         comp' \in [Layer -> LayerState], UNCHANGED <<slots, spec_min>>
  PROVE  IInv'
<1>1. SlotsInv(slots') /\ spec_min' = None
  BY DEF IInv
<1>2. QED
  BY <1>1, CloseInv

\* The prompt of a client that only extends its conversation.
LEMMA PromptType ==
  ASSUME ~Regenerate, SlotsInv(slots), NEW prompt \in Prompts
  PROVE  prompt \in Seq(Token) /\ prompt # <<>>
<1>1. CASE prompt \in FirstPrompts
  BY <1>1, GenerationAssumption
<1>2. ASSUME NEW i \in DOMAIN slots, NEW u \in Turns, prompt = slots[i].tokens \o u
      PROVE  prompt \in Seq(Token) /\ prompt # <<>>
  <2>1. i \in 1 .. Len(slots)
    BY DEF SlotsInv
  <2>2. slots[i].tokens \in Seq(Token)
    BY <2>1 DEF SlotsInv, SlotExact, StoredSlot
  <2>3. u \in Seq(Token) /\ u # <<>>
    BY GenerationAssumption
  <2>4. QED
    BY <1>2, <2>2, <2>3
<1>3. QED
  BY <1>1, <1>2 DEF Prompts

\* A request begins with its prompt and nothing else.
LEMMA StartInv ==
  ASSUME ~Regenerate, IInv, NEW prompt \in Prompts, NEW max_new \in MaxNew,
         NEW kind \in Kinds, NEW batch \in BOOLEAN,
         StartRequest(prompt, max_new, kind, batch)
  PROVE  IInv'
<1>1. /\ pc = "idle" /\ pc' \in {"restore", "prefill"}
      /\ Len(prompt) + max_new <= MaxLen /\ Extends(prompt)
      /\ request' = [prompt |-> prompt, max_new |-> max_new, kind |-> kind]
      /\ batched' = batch /\ tokens' = prompt /\ outcome' = "none"
      /\ slots' = slots /\ comp' = comp /\ spec_min' = spec_min
      /\ done' = done /\ kv' = kv /\ hidden' = hidden /\ chain' = chain
      /\ hiddens' = hiddens /\ accepted' = accepted
  BY DEF StartRequest, session
<1>2. Shapes /\ SlotsInv(slots) /\ IdleInv /\ NoPass /\ spec_min = None
  BY <1>1 DEF IInv
<1>3. prompt \in Seq(Token) /\ prompt # <<>> /\ Len(prompt) \in Nat \ {0}
  BY <1>2, PromptType, EmptySeq
<1>4. max_new \in Nat /\ kind \in {"speculative", "greedy", "sampled"}
  BY GenerationAssumption
<1>5. RequestInv'
  <2>1. /\ request'.prompt = prompt /\ request'.max_new = max_new
        /\ request' \in [prompt : Seq(Token) \ {<<>>}, max_new : Nat,
                         kind : {"speculative", "greedy", "sampled"}]
    BY <1>1, <1>3, <1>4
  <2>2. Emitted' = 0
    BY <1>1, <1>3, <2>1 DEF Emitted
  <2>3. done' = 0
    BY <1>1, <1>2 DEF IdleInv
  <2>4. SubSeq(prompt, 1, Len(prompt)) = prompt
    BY <1>3, SubSeqFull
  <2>5. QED
    BY <1>1, <1>3, <1>4, <2>1, <2>2, <2>3, <2>4 DEF RequestInv
<1>6. RestoreInv'
  <2>1. Extends(tokens)'
    BY <1>1 DEF Extends
  <2>2. tokens' = request'.prompt /\ done' = 0
    BY <1>1, <1>2 DEF IdleInv
  <2>3. QED
    BY <2>1, <2>2 DEF RestoreInv
<1>7. PrefillInv'
  <2>1. tokens' = request'.prompt /\ done' = 0 /\ Len(tokens') > 0
    BY <1>1, <1>2, <1>3 DEF IdleInv
  <2>2. RowsOf(kv', tokens', 0)
    BY DEF RowsOf
  <2>3. QED
    BY <2>1, <2>2 DEF PrefillInv
<1>8. Shapes'
  BY <1>1, <1>2 DEF Shapes
<1>9. SlotsInv(slots') /\ NoPass' /\ spec_min' = None
  BY <1>1, <1>2 DEF NoPass
<1>10. QED
  BY <1>1, <1>5, <1>6, <1>7, <1>8, <1>9 DEF IInv

-----------------------------------------------------------------------------
(***************************************************************************)
(* Prefill.                                                                *)
(***************************************************************************)

\* Restoring a session: every valid row of the slot that matches best.
LEMMA RestoreSessionInv ==
  ASSUME IInv, RestoreSession
  PROVE  IInv'
<1> DEFINE i == FirstBest([j \in Restorable |-> MatchLen(slots[j], tokens)])
           s == slots[i]
<1>1. /\ pc = "restore" /\ pc' = "prefill" /\ Restorable # {}
      /\ kv' = s.kv
      /\ comp' = [l \in Layer |-> FromCore(s.comp[l])]
      /\ done' = MatchLen(s, tokens)
      /\ slots' = Touched(slots, i)
      /\ spec_min' = spec_min /\ request' = request /\ batched' = batched
      /\ tokens' = tokens /\ hidden' = hidden /\ chain' = chain
      /\ hiddens' = hiddens /\ accepted' = accepted /\ outcome' = outcome
  BY DEF RestoreSession
<1>2. /\ Shapes /\ SlotsInv(slots) /\ RequestInv /\ RestoreInv /\ NoPass
      /\ spec_min = None
  BY <1>1 DEF IInv
<1>3. /\ tokens \in Seq(Token) /\ tokens # <<>> /\ Len(tokens) \in Nat \ {0}
      /\ Len(tokens) <= MaxLen /\ MaxLen \in Nat /\ tokens = request.prompt
  BY <1>1, <1>2, Sizes DEF RestoreInv
<1>4. i \in 1 .. Len(slots) /\ SlotExact(s) /\ MatchLen(s, tokens) > 0
  <2>1. Restorable \subseteq Nat /\ Restorable \subseteq 1 .. Len(slots)
    BY <1>2 DEF Restorable, SlotsInv
  <2>2. ASSUME NEW j \in Restorable PROVE MatchLen(slots[j], tokens) \in 0 .. MaxLen
    <3>1. SlotExact(slots[j])
      BY <1>2, <2>1 DEF SlotsInv
    <3>2. MatchLen(slots[j], tokens) \in 0 .. Len(tokens) - 1
      BY <1>3, <3>1, MatchBounded
    <3>3. QED
      BY <1>3, <3>2
  <2>3. [j \in Restorable |-> MatchLen(slots[j], tokens)] \in [Restorable -> 0 .. MaxLen]
    BY <2>2
  <2>4. i \in Restorable
    BY <1>1, <1>3, <2>1, <2>3, FirstBestIndex
  <2> HIDE DEF i
  <2>5. QED
    BY <1>2, <2>1, <2>4 DEF Restorable, SlotsInv
<1> HIDE DEF i
<1>5. Len(s.tokens) < Len(tokens) /\ SubSeq(tokens, 1, Len(s.tokens)) = s.tokens
  <2>1. i \in DOMAIN slots
    BY <1>2, <1>4 DEF SlotsInv
  <2>2. QED
    BY <1>2, <1>4, <2>1 DEF RestoreInv, Extends
<1>6. /\ s.tokens \in Seq(Token) /\ s.valid \in Nat \ {0} /\ Len(s.tokens) = s.valid + 1
      /\ s.kv \in [1 .. MaxLen -> Row] /\ s.comp \in [Layer -> CoreState]
      /\ RowsOf(s.kv, s.tokens, s.valid) /\ Len(s.tokens) <= MaxLen
  BY <1>4 DEF SlotExact, StoredSlot
<1>7. done' = s.valid
  BY <1>1, <1>3, <1>4, <1>5, ExtendedMatch
<1> HIDE DEF s
<1>8. ASSUME NEW n \in 0 .. Len(s.tokens)
      PROVE  SubSeq(s.tokens, 1, n) = SubSeq(tokens, 1, n) /\ n <= Len(tokens)
  <2>1. Len(s.tokens) \in 0 .. Len(tokens)
    BY <1>3, <1>5, <1>6
  <2>2. SubSeq(SubSeq(tokens, 1, Len(s.tokens)), 1, n) = SubSeq(tokens, 1, n)
    BY <1>3, <2>1, PrefixOfPrefix
  <2>3. QED
    BY <1>5, <2>1, <2>2
<1>9. \E n \in {s.valid, s.valid + 1} : LayersFed(comp', tokens, n, None)
  <2>1. PICK n \in {s.valid, s.valid + 1} :
          \A l \in Layer : s.comp[l] = Ideal(l, SubSeq(Contexts(s.tokens), 1, n))
    BY <1>4 DEF SlotExact, s
  <2>2. n \in 0 .. Len(s.tokens)
    BY <1>6
  <2>3. LayersFed(comp', s.tokens, n, None)
    <3>1. ASSUME NEW l \in Layer
          PROVE  FedTo(l, comp'[l], Contexts(s.tokens), n, None)
      <4>1. Contexts(s.tokens) \in Seq(Input) /\ n \in 0 .. Len(Contexts(s.tokens))
        BY <1>6, <2>2, ContextsType
      <4>2. comp'[l] = FromCore(Ideal(l, SubSeq(Contexts(s.tokens), 1, n)))
        BY <1>1, <2>1
      <4>3. QED
        BY <4>1, <4>2, ImportFed
    <3>2. QED
      BY <3>1 DEF LayersFed
  <2>4. LayersFed(comp', tokens, n, None)
    BY <1>3, <1>6, <1>8, <2>2, <2>3, FedAlong
  <2>5. QED
    BY <2>4
<1>10. comp' \in [Layer -> LayerState]
  <2>1. PICK n \in {s.valid, s.valid + 1} : LayersFed(comp', tokens, n, None)
    BY <1>9
  <2>2. \A l \in Layer : comp'[l] \in LayerState
    BY <2>1 DEF LayersFed, FedTo
  <2>3. comp' = [l \in Layer |-> comp'[l]]
    BY <1>1
  <2>4. QED
    BY <2>2, <2>3
<1>11. RowsOf(kv', tokens, s.valid)
  <2>1. s.valid \in 0 .. Len(s.tokens)
    BY <1>6
  <2>2. QED
    BY <1>1, <1>3, <1>6, <1>8, <2>1, RowsAlong
<1>12. PrefillInv'
  <2>1. done' < Len(tokens)
    BY <1>3, <1>5, <1>6, <1>7
  <2>2. QED
    BY <1>1, <1>3, <1>7, <1>9, <1>11, <2>1 DEF PrefillInv
<1>13. RequestInv'
  <2>1. done' \in 0 .. Len(request.prompt)
    BY <1>3, <1>5, <1>6, <1>7
  <2>2. QED
    BY <1>1, <1>2, <2>1 DEF RequestInv, Emitted
<1>14. Shapes'
  BY <1>1, <1>2, <1>6, <1>10 DEF Shapes
<1>15. SlotsInv(slots') /\ NoPass' /\ spec_min' = None
  BY <1>1, <1>2, <1>4, TouchedKeeps DEF NoPass
<1>16. QED
  BY <1>1, <1>12, <1>13, <1>14, <1>15 DEF IInv

\* Without a session to restore the prompt is prefilled from position 0.
LEMMA NothingToRestoreInv ==
  ASSUME IInv, NothingToRestore
  PROVE  IInv'
<1>1. /\ pc = "restore" /\ pc' = "prefill"
      /\ slots' = slots /\ comp' = comp /\ spec_min' = spec_min
      /\ request' = request /\ batched' = batched /\ tokens' = tokens
      /\ done' = done /\ kv' = kv /\ hidden' = hidden /\ chain' = chain
      /\ hiddens' = hiddens /\ accepted' = accepted /\ outcome' = outcome
  BY DEF NothingToRestore, session
<1>2. /\ Shapes /\ SlotsInv(slots) /\ RequestInv /\ RestoreInv /\ NoPass
      /\ spec_min = None
  BY <1>1 DEF IInv
<1>3. Len(tokens) \in Nat \ {0}
  BY <1>1, Sizes
<1>4. PrefillInv'
  <2>1. RowsOf(kv', tokens', 0)
    BY DEF RowsOf
  <2>2. QED
    BY <1>1, <1>2, <1>3, <2>1 DEF PrefillInv, RestoreInv
<1>5. RequestInv' /\ Shapes' /\ SlotsInv(slots') /\ NoPass' /\ spec_min' = None
  BY <1>1, <1>2 DEF RequestInv, Emitted, Shapes, NoPass
<1>6. QED
  BY <1>1, <1>4, <1>5 DEF IInv

\* The run of a prefill pass.
LEMMA PrefillRun ==
  ASSUME IInv, pc = "prefill"
  PROVE  LET m == Run(PrefillItems, done, spec_min)
             upto == done + Len(PrefillItems)
         IN  /\ upto \in 1 .. Len(tokens)
             /\ m.comp \in [Layer -> LayerState]
             /\ m.kv \in [1 .. MaxLen -> Row]
             /\ RowsOf(m.kv, tokens, upto)
             /\ LayersFed(m.comp, tokens, upto, None)
             /\ m.out[Len(m.out)] = SubSeq(tokens, 1, upto)
<1> DEFINE k == IF batched THEN Len(tokens) ELSE done + 1
           items == SubSeq(tokens, done + 1, k)
           m == Run(items, done, None)
<1>1. Shapes /\ RequestInv /\ PrefillInv /\ spec_min = None
  BY DEF IInv
<1>2. /\ tokens \in Seq(Token) /\ Len(tokens) \in Nat \ {0} /\ Len(tokens) <= MaxLen
      /\ done \in Nat /\ done < Len(tokens)
  BY <1>1, Sizes DEF RequestInv, PrefillInv
<1>3. k \in 0 .. Len(tokens) /\ done + 1 \in Nat \ {0} /\ done + 1 <= k
  BY <1>2
<1> HIDE DEF k
<1>4. /\ items \in Seq(Token) /\ Len(items) = k - done
      /\ \A j \in 1 .. Len(items) : items[j] = tokens[done + j]
  <2>1. done + 1 <= k + 1 /\ k - (done + 1) + 1 = k - done
    BY <1>2, <1>3
  <2>2. /\ items \in Seq(Token) /\ Len(items) = k - (done + 1) + 1
        /\ \A j \in 1 .. k - (done + 1) + 1 : items[j] = tokens[(done + 1) + j - 1]
    BY <1>2, <1>3, <2>1, SegmentSeq
  <2> HIDE DEF items
  <2>3. ASSUME NEW j \in 1 .. Len(items) PROVE items[j] = tokens[done + j]
    <3>1. (done + 1) + j - 1 = done + j
      BY <1>2, <2>2
    <3>2. QED
      BY <2>2, <3>1
  <2>4. QED
    BY <2>1, <2>2, <2>3
<1> HIDE DEF items
<1>5. items # <<>> /\ done + Len(items) = k /\ k <= Len(tokens) /\ Len(items) \in Nat \ {0}
  BY <1>2, <1>3, <1>4
<1>6. \/ done = 0
      \/ \E f \in {done, done + 1} : f <= Len(tokens) /\ LayersFed(comp, tokens, f, None)
  BY <1>1, <1>2 DEF PrefillInv
<1>7. None \in Nat \cup {None} /\ RowsOf(kv, tokens, done)
  BY <1>1 DEF PrefillInv
<1>8. /\ m.comp \in [Layer -> LayerState]
      /\ m.kv \in [1 .. MaxLen -> Row]
      /\ RowsOf(m.kv, tokens, k)
      /\ LayersFed(m.comp, tokens, k, None)
      /\ Len(m.out) = Len(items)
      /\ \A j \in 1 .. Len(items) : m.out[j] = SubSeq(tokens, 1, done + j)
  <2>1. done + Len(items) <= Len(tokens)
    BY <1>5
  <2>2. Ready(tokens, done, None)
    BY <1>1, <1>6, <1>7 DEF Ready
  <2>3. Forwarded(m, tokens, done, Len(items), None)
    BY <1>2, <1>4, <1>7, <2>1, <2>2, RunFrom
  <2> HIDE DEF m
  <2>4. QED
    BY <1>5, <2>3 DEF Forwarded
<1> HIDE DEF m
<1>9. m.out[Len(m.out)] = SubSeq(tokens, 1, k)
  BY <1>5, <1>8
<1>10. items = PrefillItems
  BY DEF items, k, PrefillItems
<1>11. k \in 1 .. Len(tokens)
  BY <1>2, <1>3
<1>12. QED
  BY <1>1, <1>5, <1>8, <1>9, <1>10, <1>11 DEF m

\* A prefill pass.
LEMMA PrefillKeeps ==
  ASSUME IInv, Prefill
  PROVE  IInv'
<1> DEFINE m == Run(PrefillItems, done, spec_min)
           upto == done + Len(PrefillItems)
<1>1. /\ pc = "prefill"
      /\ comp' = m.comp /\ kv' = m.kv /\ hidden' = m.out[Len(m.out)] /\ done' = upto
      /\ pc' = IF upto = Len(tokens) THEN AfterPrefill ELSE "prefill"
      /\ slots' = slots /\ spec_min' = spec_min /\ request' = request
      /\ batched' = batched /\ tokens' = tokens /\ chain' = chain
      /\ hiddens' = hiddens /\ accepted' = accepted /\ outcome' = outcome
  BY DEF Prefill
<1>2. /\ upto \in 1 .. Len(tokens)
      /\ m.comp \in [Layer -> LayerState]
      /\ m.kv \in [1 .. MaxLen -> Row]
      /\ RowsOf(m.kv, tokens, upto)
      /\ LayersFed(m.comp, tokens, upto, None)
      /\ m.out[Len(m.out)] = SubSeq(tokens, 1, upto)
  BY <1>1, PrefillRun
<1> HIDE DEF m, upto
<1>3. Shapes /\ SlotsInv(slots) /\ RequestInv /\ PrefillInv /\ NoPass /\ spec_min = None
  BY <1>1 DEF IInv
<1>4. /\ tokens \in Seq(Token) /\ Len(tokens) \in Nat \ {0} /\ Emitted = 0
      /\ tokens = request.prompt /\ request.max_new \in Nat
  BY <1>1, <1>3, Sizes DEF PrefillInv
<1>5. SubSeq(tokens, 1, upto) \in Row
  BY <1>2, <1>4, PrefixSeq DEF Row
<1>6. Shapes' /\ SlotsInv(slots') /\ NoPass' /\ spec_min' = None
  BY <1>1, <1>2, <1>3, <1>5 DEF Shapes, NoPass
<1>7. RequestInv'
  <2>1. done' \in 0 .. Len(request.prompt)
    BY <1>1, <1>2, <1>4
  <2>2. QED
    BY <1>1, <1>3, <2>1 DEF RequestInv, Emitted
<1>8. CASE upto = Len(tokens)
  <2>1. hidden' = tokens
    BY <1>1, <1>2, <1>4, <1>8, SubSeqFull
  <2>2. Emitted' = 0 /\ request' = request
    BY <1>1, <1>4 DEF Emitted
  <2>3. CASE request.max_new > 0
    <3>1. pc' = "sample"
      BY <1>1, <1>8, <2>3 DEF AfterPrefill
    <3>2. ~Answered'
      BY <2>2, <2>3, <1>4 DEF Answered
    <3>3. SampleInv'
      BY <1>1, <1>2, <1>8, <2>1, <3>2 DEF SampleInv
    <3>4. QED
      BY <1>6, <1>7, <3>1, <3>3 DEF IInv
  <2>4. CASE ~(request.max_new > 0)
    <3>1. pc' \in {"finish", "store"}
      BY <1>1, <1>8, <2>4 DEF AfterPrefill
    <3>2. Answered'
      BY <2>2, <2>4, <1>4 DEF Answered
    <3>3. StoreInv'
      <4>1. RowsOf(kv', tokens, Len(tokens) - 1)
        BY <1>1, <1>2, <1>4, <1>8, FewerRows
      <4>2. QED
        BY <1>1, <1>2, <1>8, <3>2, <4>1 DEF StoreInv
    <3>4. QED
      BY <1>6, <1>7, <3>1, <3>2, <3>3 DEF IInv
  <2>5. QED
    BY <2>3, <2>4
<1>9. CASE upto # Len(tokens)
  <2>1. pc' = "prefill"
    BY <1>1, <1>9
  <2>2. PrefillInv'
    <3>1. done' < Len(tokens)
      BY <1>1, <1>2, <1>4, <1>9
    <3>2. QED
      BY <1>1, <1>2, <1>4, <3>1 DEF PrefillInv
  <2>3. QED
    BY <1>6, <1>7, <2>1, <2>2 DEF IInv
<1>10. QED
  BY <1>8, <1>9

\* A prefill pass that fails.
LEMMA PrefillFailsInv ==
  ASSUME IInv, PrefillFails
  PROVE  IInv'
<1>1. PICK D : comp' = PartialComp(PrefillItems, done, spec_min, D)
  BY DEF PrefillFails
<1>2. pc = "prefill" /\ Close("failed") /\ UNCHANGED <<slots, spec_min>>
  BY DEF PrefillFails
<1>3. comp' \in [Layer -> LayerState]
  <2>1. comp \in [Layer -> LayerState]
    BY DEF IInv, Shapes
  <2>2. QED
    BY <1>1, <1>2, <2>1, PrefillRun, PartialType
<1>4. QED
  BY <1>2, <1>3, AbortInv

-----------------------------------------------------------------------------
(***************************************************************************)
(* Sequential decoding.                                                    *)
(***************************************************************************)

\* What is sampled after the tokens so far is a token.
LEMMA SamplesType ==
  ASSUME IInv, pc # "idle", NEW h, NEW t \in Samples(h)
  PROVE  t \in Token
<1>1. CASE request.kind = "sampled" \/ h # tokens
  BY <1>1 DEF Samples
<1>2. CASE ~(request.kind = "sampled" \/ h # tokens)
  <2>1. t = Greedy(tokens)
    BY <1>2 DEF Samples
  <2>2. Len(tokens) \in 1 .. MaxLen /\ tokens \in [1 .. Len(tokens) -> Token]
    BY Sizes
  <2>3. QED
    BY <2>1, <2>2, GenerationAssumption
<1>3. QED
  BY <1>1, <1>2

\* One more token of the request, before it is run.
LEMMA OneMoreToken ==
  ASSUME IInv, pc # "idle", ~Answered, NEW t \in Token, tokens' = Append(tokens, t),
         request' = request, done' = done
  PROVE  /\ RequestInv'
         /\ tokens' \in Seq(Token)
         /\ Len(tokens') = Len(tokens) + 1
         /\ Emitted' = Emitted + 1
         /\ Emitted' \in Nat \ {0}
         /\ tokens'[Len(tokens')] = t
         /\ SubSeq(tokens', 1, Len(tokens)) = tokens
<1>1. /\ tokens \in Seq(Token) /\ Len(tokens) \in Nat \ {0}
      /\ request.prompt \in Seq(Token) /\ request.max_new \in Nat
      /\ Len(request.prompt) \in Nat /\ Len(request.prompt) <= Len(tokens)
      /\ Emitted \in Nat /\ Emitted < request.max_new
  BY Sizes
<1>2. /\ tokens' \in Seq(Token) /\ Len(tokens') = Len(tokens) + 1
      /\ tokens'[Len(tokens')] = t
  BY <1>1
<1>3. Emitted' = Emitted + 1
  BY <1>1, <1>2 DEF Emitted
<1>4. SubSeq(tokens', 1, Len(tokens)) = tokens
  <2>1. Len(tokens) \in 0 .. Len(tokens)
    BY <1>1
  <2>2. SubSeq(Append(tokens, t), 1, Len(tokens)) = SubSeq(tokens, 1, Len(tokens))
    BY <1>1, <2>1, PrefixOfAppend
  <2>3. QED
    BY <1>1, <2>2, SubSeqFull
<1>5. SubSeq(tokens', 1, Len(request.prompt)) = SubSeq(tokens, 1, Len(request.prompt))
  <2>1. Len(request.prompt) \in 0 .. Len(tokens)
    BY <1>1
  <2>2. QED
    BY <1>1, <2>1, PrefixOfAppend
<1>6. RequestInv'
  <2>1. RequestInv
    BY DEF IInv
  <2>2. Emitted' <= request.max_new /\ Len(request.prompt) <= Len(tokens')
    BY <1>1, <1>2, <1>3
  <2>3. QED
    BY <1>2, <1>5, <2>1, <2>2 DEF RequestInv
<1>7. QED
  BY <1>1, <1>2, <1>3, <1>4, <1>6

\* The first token, the token after a sequential forward, the bonus token.
LEMMA SampleKeeps ==
  ASSUME IInv, Sample
  PROVE  IInv'
<1>1. PICK t \in Samples(hidden) : tokens' = Append(tokens, t) /\ pc' = AfterToken(t)
  BY DEF Sample
<1>2. /\ pc = "sample"
      /\ slots' = slots /\ comp' = comp /\ spec_min' = spec_min
      /\ request' = request /\ batched' = batched
      /\ done' = done /\ kv' = kv /\ hidden' = hidden /\ chain' = chain
      /\ hiddens' = hiddens /\ accepted' = accepted /\ outcome' = outcome
  BY DEF Sample, session
<1>3. /\ Shapes /\ SlotsInv(slots) /\ RequestInv /\ SampleInv /\ NoPass
      /\ spec_min = None
  BY <1>2 DEF IInv
<1>4. t \in Token
  BY <1>1, <1>2, SamplesType
<1>5. /\ RequestInv' /\ tokens' \in Seq(Token) /\ Len(tokens') = Len(tokens) + 1
      /\ Emitted' = Emitted + 1 /\ Emitted' \in Nat \ {0}
      /\ tokens'[Len(tokens')] = t
      /\ SubSeq(tokens', 1, Len(tokens)) = tokens
  BY <1>1, <1>2, <1>3, <1>4, OneMoreToken DEF SampleInv
<1>6. /\ tokens \in Seq(Token) /\ Len(tokens) \in Nat /\ Len(tokens) <= MaxLen
      /\ Len(tokens) + 1 <= MaxLen /\ SubSeq(tokens, 1, Len(tokens)) = tokens
  <2>1. /\ tokens \in Seq(Token) /\ Len(tokens) \in Nat /\ MaxLen \in Nat
        /\ Len(tokens) < MaxLen
    BY <1>2, <1>3, Sizes DEF SampleInv
  <2>2. QED
    BY <2>1, SubSeqFull
<1>7. /\ RowsOf(kv', tokens', Len(tokens') - 1)
      /\ LayersFed(comp', tokens', Len(tokens') - 1, None)
  <2>1. /\ Len(tokens') - 1 = Len(tokens) /\ Len(tokens) \in 0 .. Len(tokens)
        /\ Len(tokens) <= Len(tokens') /\ Len(tokens') <= MaxLen
    BY <1>5, <1>6
  <2>2. RowsOf(kv, tokens', Len(tokens))
    BY <1>3, <1>5, <1>6, <2>1, RowsAlong DEF SampleInv
  <2>3. LayersFed(comp, tokens', Len(tokens), None)
    BY <1>3, <1>5, <1>6, <2>1, FedAlong DEF SampleInv
  <2>4. QED
    BY <1>2, <2>1, <2>2, <2>3
<1>8. Shapes' /\ SlotsInv(slots') /\ NoPass' /\ spec_min' = None
  BY <1>2, <1>3 DEF Shapes, NoPass
<1>9. CASE t = StopToken \/ Emitted + 1 = request.max_new
  <2>1. pc' = "store"
    BY <1>1, <1>9 DEF AfterToken
  <2>2. Answered'
    BY <1>2, <1>5, <1>9 DEF Answered
  <2>3. StoreInv'
    BY <1>7, <2>2 DEF StoreInv
  <2>4. QED
    BY <1>5, <1>8, <2>1, <2>3 DEF IInv
<1>10. CASE ~(t = StopToken \/ Emitted + 1 = request.max_new)
  <2>1. pc' \in {"draft", "forward"}
    BY <1>1, <1>10 DEF AfterToken
  <2>2. ~Answered'
    BY <1>2, <1>5, <1>10 DEF Answered
  <2>3. TokenInv'
    BY <1>7, <2>2 DEF TokenInv
  <2>4. QED
    BY <1>5, <1>8, <2>1, <2>3 DEF IInv
<1>11. QED
  BY <1>9, <1>10

\* The run of the newest token, alone or with drafts behind it.
LEMMA TokenRun ==
  ASSUME IInv, pc \in {"forward", "draft", "pass"}, NEW ds \in Seq(Token),
         Emitted + Len(ds) < request.max_new,
         NEW min \in {None, Len(tokens)}
  PROVE  LET ts == tokens \o ds
             m == Run(<<tokens[Len(tokens)]>> \o ds, Len(tokens) - 1, min)
         IN  /\ ts \in Seq(Token)
             /\ Len(ts) = Len(tokens) + Len(ds)
             /\ Len(ts) <= MaxLen
             /\ LayersFed(comp, ts, Len(tokens) - 1, min)
             /\ Forwarded(m, ts, Len(tokens) - 1, Len(ds) + 1, min)
<1> DEFINE ts == tokens \o ds
           last == <<tokens[Len(tokens)]>>
           items == last \o ds
           from == Len(tokens) - 1
<1>1. Shapes /\ RequestInv /\ TokenInv
  BY DEF IInv
<1>2. /\ tokens \in Seq(Token) /\ Len(tokens) \in Nat \ {0} /\ Len(tokens) <= MaxLen
      /\ Len(tokens) = Len(request.prompt) + Emitted
      /\ Len(request.prompt) \in Nat /\ request.max_new \in Nat /\ Emitted \in Nat
      /\ MaxLen \in Nat
  BY Sizes
<1>3. /\ ts \in Seq(Token) /\ Len(ts) = Len(tokens) + Len(ds)
      /\ \A i \in 1 .. Len(tokens) + Len(ds) :
           ts[i] = IF i <= Len(tokens) THEN tokens[i] ELSE ds[i - Len(tokens)]
  BY <1>2, ConcatProperties
<1>4. /\ last \in Seq(Token) /\ Len(last) = 1 /\ last[1] = tokens[Len(tokens)]
  <2>1. tokens[Len(tokens)] \in Token
    BY <1>2
  <2>2. QED
    BY <2>1
<1> HIDE DEF last
<1>5. /\ items \in Seq(Token) /\ Len(items) = 1 + Len(ds)
      /\ \A i \in 1 .. 1 + Len(ds) : items[i] = IF i <= 1 THEN last[i] ELSE ds[i - 1]
  <2>1. /\ items \in Seq(Token) /\ Len(items) = Len(last) + Len(ds)
        /\ \A i \in 1 .. Len(last) + Len(ds) :
             items[i] = IF i <= Len(last) THEN last[i] ELSE ds[i - Len(last)]
    BY <1>4, ConcatProperties, ZenonT(30)
  <2> HIDE DEF items
  <2>2. QED
    BY <1>4, <2>1
<1> HIDE DEF ts, items
<1>6. Len(ts) <= MaxLen
  <2>1. Len(request.prompt) + request.max_new <= MaxLen
    BY <1>1 DEF RequestInv
  <2>2. Len(ds) \in Nat
    OBVIOUS
  <2>3. QED
    BY <1>2, <1>3, <2>1, <2>2
<1>7. from \in Nat /\ from \in 0 .. Len(tokens) /\ from <= Len(ts) /\ Len(ds) \in Nat
      /\ from + (Len(ds) + 1) = Len(ts)
  <2>1. Len(ds) \in Nat
    OBVIOUS
  <2>2. Len(tokens) \in Nat \ {0} /\ Len(ts) = Len(tokens) + Len(ds)
    BY <1>2, <1>3
  <2>3. QED
    BY <2>1, <2>2
<1>8. SubSeq(tokens, 1, from) = SubSeq(ts, 1, from)
  <2>1. from \in 0 .. Len(ts)
    BY <1>7, <1>3
  <2>2. /\ SubSeq(tokens, 1, from) \in Seq(Token) /\ Len(SubSeq(tokens, 1, from)) = from
        /\ \A i \in 1 .. from : SubSeq(tokens, 1, from)[i] = tokens[i]
    BY <1>2, <1>7, PrefixSeq
  <2>3. /\ SubSeq(ts, 1, from) \in Seq(Token) /\ Len(SubSeq(ts, 1, from)) = from
        /\ \A i \in 1 .. from : SubSeq(ts, 1, from)[i] = ts[i]
    BY <1>3, <2>1, PrefixSeq
  <2>4. ASSUME NEW i \in 1 .. from PROVE tokens[i] = ts[i]
    <3>1. i \in 1 .. Len(tokens) + Len(ds) /\ i <= Len(tokens)
      BY <1>2, <1>7
    <3>2. QED
      BY <1>3, <3>1
  <2> HIDE DEF from
  <2>5. QED
    BY <2>2, <2>3, <2>4, SeqEqual
<1>9. LayersFed(comp, ts, from, min) /\ RowsOf(kv, ts, from)
  <2>1. LayersFed(comp, tokens, from, None) /\ RowsOf(kv, tokens, from)
    BY <1>1 DEF TokenInv
  <2>2. LayersFed(comp, ts, from, None) /\ RowsOf(kv, ts, from)
    BY <1>2, <1>3, <1>6, <1>7, <1>8, <2>1, FedAlong, RowsAlong
  <2>3. ASSUME NEW l \in Layer, min = Len(tokens)
        PROVE  FedTo(l, comp[l], Contexts(ts), from, min)
    <3>1. FedTo(l, comp[l], Contexts(ts), from, None)
      BY <2>2 DEF LayersFed
    <3>2. Contexts(ts) \in Seq(Input) /\ from \in 0 .. Len(Contexts(ts))
      <4>1. Contexts(ts) \in Seq(Input) /\ Len(Contexts(ts)) = Len(ts)
        BY <1>3, <1>6, ContextsType
      <4> HIDE DEF from
      <4>2. QED
        BY <4>1, <1>3, <1>7
    <3>3. min \in Nat /\ from <= min
      BY <1>2, <2>3
    <3>4. QED
      BY <3>1, <3>2, <3>3, BeginFed
  <2>4. QED
    BY <2>2, <2>3 DEF LayersFed
<1>10. Ready(ts, from, min)
  <2>1. from \in {from, from + 1}
    OBVIOUS
  <2>2. QED
    BY <1>1, <1>7, <1>9, <2>1 DEF Ready
<1>11. ASSUME NEW i \in 1 .. Len(items) PROVE items[i] = ts[from + i]
  <2>1. i \in 1 .. 1 + Len(ds)
    BY <1>5
  <2>2. from + i \in 1 .. Len(tokens) + Len(ds)
    BY <1>2, <1>7, <2>1, SMTT(30)
  <2>3. CASE i = 1
    BY <1>2, <1>3, <1>4, <1>5, <2>1, <2>2, <2>3
  <2>4. CASE i # 1
    <3>1. i \in Int /\ i > 1 /\ Len(tokens) \in Int
      BY <1>2, <1>7, <2>1, <2>4
    <3>2. ~(i <= 1) /\ ~(from + i <= Len(tokens)) /\ (from + i) - Len(tokens) = i - 1
      BY <3>1
    <3> HIDE DEF from
    <3>3. items[i] = ds[i - 1]
      BY <1>5, <2>1, <3>2
    <3>4. ts[from + i] = ds[i - 1]
      BY <1>3, <2>2, <3>2
    <3>5. QED
      BY <3>3, <3>4
  <2>5. QED
    BY <2>3, <2>4
<1>12. min \in Nat \cup {None} /\ from + Len(items) <= Len(ts) /\ Len(items) = Len(ds) + 1
  <2>1. min \in Nat \cup {None}
    BY <1>2
  <2> HIDE DEF from
  <2>2. QED
    BY <1>3, <1>5, <1>7, <2>1
<1> HIDE DEF from
<1>13. Forwarded(Run(items, from, min), ts, from, Len(items), min)
  BY <1>3, <1>5, <1>6, <1>7, <1>10, <1>11, <1>12, RunFrom
<1>14. QED
  BY <1>3, <1>6, <1>9, <1>12, <1>13 DEF ts, items, last, from

\* The newest token alone.
LEMMA ForwardRun ==
  ASSUME IInv, pc = "forward"
  PROVE  LET m == Run(<<tokens[Len(tokens)]>>, Len(tokens) - 1, spec_min)
         IN  /\ m.comp \in [Layer -> LayerState]
             /\ m.kv \in [1 .. MaxLen -> Row]
             /\ RowsOf(m.kv, tokens, Len(tokens))
             /\ LayersFed(m.comp, tokens, Len(tokens), None)
             /\ m.out[1] = tokens
<1> DEFINE m == Run(<<tokens[Len(tokens)]>>, Len(tokens) - 1, None)
<1>1. spec_min = None /\ TokenInv
  BY DEF IInv
<1>2. /\ tokens \in Seq(Token) /\ Len(tokens) \in Nat \ {0} /\ request.max_new \in Nat
      /\ Emitted \in Nat /\ Emitted < request.max_new
  BY <1>1, Sizes DEF TokenInv
<1>3. <<>> \in Seq(Token) /\ Len(<<>>) = 0 /\ None \in {None, Len(tokens)}
      /\ Emitted + 0 < request.max_new
  BY <1>2
<1>4. tokens \o <<>> = tokens
  BY <1>2, ConcatEmptySeq
<1>5. <<tokens[Len(tokens)]>> \o <<>> = <<tokens[Len(tokens)]>>
  <2>1. <<tokens[Len(tokens)]>> \in Seq(Token)
    BY <1>2
  <2>2. QED
    BY <2>1, ConcatEmptySeq
<1>6. Forwarded(Run(<<tokens[Len(tokens)]>> \o <<>>, Len(tokens) - 1, None), tokens \o <<>>,
                Len(tokens) - 1, Len(<<>>) + 1, None)
  BY <1>3, TokenRun
<1>7. Forwarded(m, tokens, Len(tokens) - 1, 1, None)
  BY <1>3, <1>4, <1>5, <1>6
<1> HIDE DEF m
<1>8. (Len(tokens) - 1) + 1 = Len(tokens) /\ 1 > 0 /\ 1 \in 1 .. 1
  BY <1>2
<1>9. /\ m.comp \in [Layer -> LayerState]
      /\ m.kv \in [1 .. MaxLen -> Row]
      /\ RowsOf(m.kv, tokens, Len(tokens))
      /\ LayersFed(m.comp, tokens, Len(tokens), None)
      /\ m.out[1] = SubSeq(tokens, 1, Len(tokens))
  BY <1>7, <1>8 DEF Forwarded
<1>10. SubSeq(tokens, 1, Len(tokens)) = tokens
  BY <1>2, SubSeqFull
<1>11. QED
  BY <1>1, <1>9, <1>10 DEF m

\* The sequential forward.
LEMMA ForwardKeeps ==
  ASSUME IInv, ForwardToken
  PROVE  IInv'
<1> DEFINE m == Run(<<tokens[Len(tokens)]>>, Len(tokens) - 1, spec_min)
<1>1. /\ pc = "forward" /\ pc' = "sample"
      /\ comp' = m.comp /\ kv' = m.kv /\ hidden' = m.out[1]
      /\ slots' = slots /\ spec_min' = spec_min /\ request' = request
      /\ batched' = batched /\ tokens' = tokens /\ done' = done /\ chain' = chain
      /\ hiddens' = hiddens /\ accepted' = accepted /\ outcome' = outcome
  BY DEF ForwardToken
<1>2. /\ m.comp \in [Layer -> LayerState]
      /\ m.kv \in [1 .. MaxLen -> Row]
      /\ RowsOf(m.kv, tokens, Len(tokens))
      /\ LayersFed(m.comp, tokens, Len(tokens), None)
      /\ m.out[1] = tokens
  BY <1>1, ForwardRun
<1> HIDE DEF m
<1>3. Shapes /\ SlotsInv(slots) /\ RequestInv /\ TokenInv /\ NoPass /\ spec_min = None
  BY <1>1 DEF IInv
<1>4. tokens \in Row
  BY <1>1, Sizes DEF Row
<1>5. SampleInv'
  <2>1. ~Answered'
    BY <1>1, <1>3 DEF TokenInv, Answered, Emitted
  <2>2. QED
    BY <1>1, <1>2, <2>1 DEF SampleInv
<1>6. Shapes' /\ SlotsInv(slots') /\ RequestInv' /\ NoPass' /\ spec_min' = None
  BY <1>1, <1>2, <1>3, <1>4 DEF Shapes, RequestInv, Emitted, NoPass
<1>7. QED
  BY <1>1, <1>5, <1>6 DEF IInv

\* A sequential forward that fails.
LEMMA ForwardFailsInv ==
  ASSUME IInv, ForwardFails
  PROVE  IInv'
<1>1. PICK D : comp' = PartialComp(<<tokens[Len(tokens)]>>, Len(tokens) - 1, spec_min, D)
  BY DEF ForwardFails
<1>2. pc = "forward" /\ Close("failed") /\ UNCHANGED <<slots, spec_min>>
  BY DEF ForwardFails
<1>3. comp' \in [Layer -> LayerState]
  <2>1. comp \in [Layer -> LayerState]
    BY DEF IInv, Shapes
  <2>2. QED
    BY <1>1, <1>2, <2>1, ForwardRun, PartialType
<1>4. QED
  BY <1>2, <1>3, AbortInv

-----------------------------------------------------------------------------
(***************************************************************************)
(* Speculative decoding.                                                   *)
(***************************************************************************)

\* The drafts worth verifying leave room for the bonus token.
LEMMA DraftKeeps ==
  ASSUME IInv, Draft
  PROVE  IInv'
<1>1. PICK n \in 0 .. ChainLen : \E drafts \in [1 .. n -> Token] :
         /\ chain' = Verifiable(drafts)
         /\ pc' = IF Verifiable(drafts) = <<>> THEN "forward" ELSE "pass"
  BY DEF Draft
<1>2. PICK drafts \in [1 .. n -> Token] :
         /\ chain' = Verifiable(drafts)
         /\ pc' = IF Verifiable(drafts) = <<>> THEN "forward" ELSE "pass"
  BY <1>1
<1>3. /\ pc = "draft"
      /\ slots' = slots /\ comp' = comp /\ spec_min' = spec_min
      /\ request' = request /\ batched' = batched /\ tokens' = tokens
      /\ done' = done /\ kv' = kv /\ hidden' = hidden
      /\ hiddens' = hiddens /\ accepted' = accepted /\ outcome' = outcome
  BY DEF Draft, session
<1>4. Shapes /\ SlotsInv(slots) /\ RequestInv /\ TokenInv /\ NoPass /\ spec_min = None
  BY <1>3 DEF IInv
<1>5. request.max_new \in Nat /\ Emitted \in Nat /\ Emitted < request.max_new
  BY <1>3, <1>4, Sizes DEF TokenInv
<1> DEFINE k == Smaller(Len(drafts), request.max_new - Emitted - 1)
<1>6. drafts \in Seq(Token) /\ Len(drafts) = n /\ n \in Nat /\ ChainLen \in Nat
  BY GenerationAssumption
<1>7. k \in 0 .. Len(drafts) /\ Emitted + k < request.max_new
  BY <1>5, <1>6 DEF Smaller
<1>8. chain' = SubSeq(drafts, 1, k)
  BY <1>2 DEF Verifiable
<1> HIDE DEF k
<1>9. chain' \in Seq(Token) /\ Len(chain') = k
  BY <1>6, <1>7, <1>8, PrefixSeq
<1>10. ~Answered' /\ TokenInv'
  BY <1>3, <1>4 DEF TokenInv, Answered, Emitted
<1>11. Shapes' /\ SlotsInv(slots') /\ RequestInv' /\ spec_min' = None
  BY <1>3, <1>4 DEF Shapes, RequestInv, Emitted
<1>12. CASE chain' = <<>>
  <2>1. pc' = "forward"
    BY <1>2, <1>12
  <2>2. NoPass'
    BY <1>3, <1>4, <1>12 DEF NoPass
  <2>3. QED
    BY <1>10, <1>11, <2>1, <2>2 DEF IInv
<1>13. CASE chain' # <<>>
  <2>1. pc' = "pass"
    BY <1>2, <1>13
  <2>2. Len(chain') \in 1 .. ChainLen
    BY <1>6, <1>7, <1>9, <1>13, EmptySeq
  <2>3. Emitted' + Len(chain') < request'.max_new
    BY <1>3, <1>7, <1>9 DEF Emitted
  <2>4. PassInv' /\ hiddens' = <<>>
    BY <1>3, <1>4, <1>9, <2>2, <2>3 DEF PassInv, NoPass
  <2>5. QED
    BY <1>10, <1>11, <2>1, <2>4 DEF IInv
<1>14. QED
  BY <1>12, <1>13

\* Closing a pass: the layers are back at the position, or keep all.
LEMMA RolledBackFed ==
  ASSUME NEW ts \in Seq(Token), Len(ts) <= MaxLen, NEW n \in 0 .. Len(ts),
         NEW min \in Nat, NEW c, LayersFed(c, ts, n, min),
         NEW from \in Nat, from >= min
  PROVE  /\ RolledBack(c, from) \in [Layer -> LayerState]
         /\ LayersFed(RolledBack(c, from), ts, Smaller(n, from), None)
<1> DEFINE r == RolledBack(c, from)
<1>1. Contexts(ts) \in Seq(Input) /\ n \in 0 .. Len(Contexts(ts))
  BY ContextsType
<1>2. ASSUME NEW l \in Layer PROVE FedTo(l, r[l], Contexts(ts), Smaller(n, from), None)
  <2>1. FedTo(l, c[l], Contexts(ts), n, min)
    BY DEF LayersFed
  <2>2. r[l] = RollbackLayer(c[l], from)
    BY DEF RolledBack
  <2>3. QED
    BY <1>1, <2>1, <2>2, RollbackFed
<1>3. r = [l \in Layer |-> r[l]]
  BY DEF RolledBack
<1> HIDE DEF r
<1>4. r \in [Layer -> LayerState]
  BY <1>2, <1>3 DEF FedTo
<1>5. QED
  BY <1>2, <1>4 DEF LayersFed, r

\* A committed pass.
LEMMA CommittedFed ==
  ASSUME NEW ts \in Seq(Token), Len(ts) <= MaxLen, NEW n \in 0 .. Len(ts),
         NEW min, LayersFed(comp, ts, n, min)
  PROVE  /\ Committed \in [Layer -> LayerState]
         /\ LayersFed(Committed, ts, n, None)
<1>1. Contexts(ts) \in Seq(Input) /\ n \in 0 .. Len(Contexts(ts))
  BY ContextsType
<1>2. ASSUME NEW l \in Layer PROVE FedTo(l, Committed[l], Contexts(ts), n, None)
  <2>1. FedTo(l, comp[l], Contexts(ts), n, min)
    BY DEF LayersFed
  <2>2. Committed[l] = CommitLayer(comp[l])
    BY DEF Committed
  <2>3. QED
    BY <1>1, <2>1, <2>2, CommitFed
<1>3. Committed = [l \in Layer |-> Committed[l]]
  BY DEF Committed
<1>4. Committed \in [Layer -> LayerState]
  BY <1>2, <1>3 DEF FedTo
<1>5. QED
  BY <1>2, <1>4 DEF LayersFed

\* The run of a pass: the newest token and the drafts.
LEMMA PassRun ==
  ASSUME IInv, pc = "pass"
  PROVE  LET ts == tokens \o chain
             m == Run(PassItems, PendingPos, PendingPos + 1)
         IN  /\ ts \in Seq(Token)
             /\ Len(ts) = Len(tokens) + Len(chain)
             /\ Len(ts) <= MaxLen
             /\ PendingPos + 1 = Len(tokens)
             /\ Len(tokens) \in Nat \ {0}
             /\ LayersFed(comp, ts, Len(tokens) - 1, Len(tokens))
             /\ Forwarded(m, ts, Len(tokens) - 1, Len(chain) + 1, Len(tokens))
<1>1. /\ chain \in Seq(Token) /\ accepted = 0
      /\ Emitted + Len(chain) < request.max_new
  BY DEF IInv, PassInv
<1>2. Len(tokens) \in Nat \ {0} /\ Len(tokens) \in {None, Len(tokens)}
  BY Sizes
<1>3. PendingPos = Len(tokens) - 1 /\ PendingPos + 1 = Len(tokens)
  BY <1>1, <1>2 DEF PendingPos
<1>4. LET ts == tokens \o chain
          m == Run(<<tokens[Len(tokens)]>> \o chain, Len(tokens) - 1, Len(tokens))
      IN  /\ ts \in Seq(Token)
          /\ Len(ts) = Len(tokens) + Len(chain)
          /\ Len(ts) <= MaxLen
          /\ LayersFed(comp, ts, Len(tokens) - 1, Len(tokens))
          /\ Forwarded(m, ts, Len(tokens) - 1, Len(chain) + 1, Len(tokens))
  BY <1>1, <1>2, TokenRun
<1>5. QED
  BY <1>2, <1>3, <1>4 DEF PassItems

\* A pass runs the newest token and the drafts, speculatively.
LEMMA SpeculativePassInv ==
  ASSUME IInv, SpeculativePass
  PROVE  IInv'
<1> DEFINE m == Run(PassItems, PendingPos, PendingPos + 1)
           ts == tokens \o chain
<1>1. /\ pc = "pass" /\ pc' = "verify"
      /\ comp' = m.comp /\ kv' = m.kv /\ hiddens' = m.out
      /\ spec_min' = PendingPos + 1
      /\ slots' = slots /\ request' = request /\ batched' = batched
      /\ tokens' = tokens /\ done' = done /\ hidden' = hidden /\ chain' = chain
      /\ accepted' = accepted /\ outcome' = outcome
  BY DEF SpeculativePass
<1>2. /\ ts \in Seq(Token) /\ Len(ts) = Len(tokens) + Len(chain) /\ Len(ts) <= MaxLen
      /\ PendingPos + 1 = Len(tokens) /\ Len(tokens) \in Nat \ {0}
      /\ Forwarded(m, ts, Len(tokens) - 1, Len(chain) + 1, Len(tokens))
  BY <1>1, PassRun
<1> HIDE DEF m
<1>3. /\ Shapes /\ SlotsInv(slots) /\ RequestInv /\ TokenInv /\ PassInv
      /\ chain \in Seq(Token) /\ Len(chain) \in Nat /\ accepted = 0
  BY <1>1 DEF IInv, PassInv
<1>4. Ahead' = ts
  <2>1. SubSeq(chain, 1, Len(chain)) = chain
    BY <1>3, SubSeqFull
  <2>2. accepted' + 1 = 1
    BY <1>1, <1>3
  <2>3. QED
    BY <1>1, <2>1, <2>2 DEF Ahead
<1> HIDE DEF ts
<1>5. /\ Len(chain) + 1 > 0 /\ (Len(tokens) - 1) + (Len(chain) + 1) = Len(ts)
      /\ PendingPos = Len(tokens) - 1
  <2>1. PendingPos = Len(tokens) - 1
    BY <1>2, <1>3 DEF PendingPos
  <2>2. QED
    BY <1>2, <1>3, <2>1
<1>6. /\ m.comp \in [Layer -> LayerState] /\ m.kv \in [1 .. MaxLen -> Row]
      /\ RowsOf(m.kv, ts, Len(ts)) /\ LayersFed(m.comp, ts, Len(ts), Len(tokens))
      /\ m.out \in Seq(Row) /\ Len(m.out) = Len(chain) + 1
      /\ \A k \in 1 .. Len(chain) + 1 : m.out[k] = SubSeq(ts, 1, Len(tokens) - 1 + k)
  BY <1>2, <1>5 DEF Forwarded
<1>7. PendingPos' = PendingPos /\ Emitted' = Emitted
  BY <1>1 DEF PendingPos, Emitted
<1>8. VerifyInv'
  <2>1. ~Answered'
    BY <1>1, <1>3, <1>7 DEF TokenInv, Answered
  <2>2. /\ chain' \in Seq(Token) /\ Len(chain') <= ChainLen /\ accepted' = 0
        /\ 0 < Len(chain') /\ Emitted' + (Len(chain') - accepted') < request'.max_new
    <3>1. /\ Len(chain) \in 1 .. ChainLen /\ Emitted + Len(chain) < request.max_new
      BY <1>3 DEF PassInv
    <3>2. Len(chain) - 0 = Len(chain)
      BY <1>3
    <3>3. QED
      BY <1>1, <1>3, <1>7, <3>1, <3>2
  <2>3. accepted' < Len(tokens')
    BY <1>1, <1>2, <1>3
  <2>4. /\ RowsOf(kv', Ahead', Len(Ahead')) /\ spec_min' = PendingPos' + 1
        /\ LayersFed(comp', Ahead', Len(Ahead'), spec_min')
    BY <1>1, <1>2, <1>4, <1>6, <1>7
  <2>5. /\ hiddens' \in Seq(Row) /\ Len(hiddens') = Len(chain') + 1
        /\ \A k \in 1 .. Len(chain') + 1 : hiddens'[k] = SubSeq(Ahead', 1, PendingPos' + k)
    BY <1>1, <1>4, <1>5, <1>6, <1>7
  <2>6. QED
    BY <2>1, <2>2, <2>3, <2>4, <2>5 DEF VerifyInv
<1>9. Shapes' /\ SlotsInv(slots') /\ RequestInv'
  BY <1>1, <1>3, <1>6 DEF Shapes, RequestInv, Emitted
<1>10. QED
  BY <1>1, <1>8, <1>9 DEF IInv

\* A pass that fails rolls back whatever layers it reached.
LEMMA PassFailsInv ==
  ASSUME IInv, PassFails
  PROVE  IInv'
<1> DEFINE c(D) == PartialComp(PassItems, PendingPos, PendingPos + 1, D)
           m == Run(PassItems, PendingPos, PendingPos + 1)
           ts == tokens \o chain
<1>1. PICK D : comp' = RolledBack(c(D), PendingPos + 1)
  BY DEF PassFails
<1>2. pc = "pass" /\ Close("failed") /\ UNCHANGED <<slots, spec_min>>
  BY DEF PassFails
<1>3. /\ ts \in Seq(Token) /\ Len(ts) = Len(tokens) + Len(chain) /\ Len(ts) <= MaxLen
      /\ PendingPos + 1 = Len(tokens) /\ Len(tokens) \in Nat \ {0}
      /\ LayersFed(comp, ts, Len(tokens) - 1, Len(tokens))
      /\ Forwarded(m, ts, Len(tokens) - 1, Len(chain) + 1, Len(tokens))
  BY <1>2, PassRun
<1>4. chain \in Seq(Token) /\ Len(chain) \in Nat
  BY <1>2 DEF IInv, PassInv
<1>5. c(D) = [l \in Layer |-> IF l \in D THEN m.comp[l] ELSE comp[l]]
  BY DEF PartialComp
<1> HIDE DEF c, m, ts
<1>6. LayersFed(m.comp, ts, Len(ts), Len(tokens))
  <2>1. Len(chain) + 1 > 0 /\ (Len(tokens) - 1) + (Len(chain) + 1) = Len(ts)
    BY <1>3, <1>4
  <2>2. QED
    BY <1>3, <2>1 DEF Forwarded
<1>7. /\ Contexts(ts) \in Seq(Input) /\ Len(tokens) - 1 \in 0 .. Len(Contexts(ts))
      /\ Len(ts) \in 0 .. Len(Contexts(ts))
  <2>1. Contexts(ts) \in Seq(Input) /\ Len(Contexts(ts)) = Len(ts)
    BY <1>3, ContextsType
  <2>2. QED
    BY <1>3, <1>4, <2>1
<1>8. ASSUME NEW l \in Layer PROVE comp'[l] \in LayerState
  <2>1. comp'[l] = RollbackLayer(c(D)[l], Len(tokens))
    BY <1>1, <1>3 DEF RolledBack
  <2>2. PICK n \in 0 .. Len(Contexts(ts)) :
          FedTo(l, c(D)[l], Contexts(ts), n, Len(tokens))
    <3>1. CASE l \in D
      BY <1>5, <1>6, <1>7, <3>1 DEF LayersFed
    <3>2. CASE l \notin D
      BY <1>3, <1>5, <1>7, <3>2 DEF LayersFed
    <3>3. QED
      BY <3>1, <3>2
  <2>3. Len(tokens) \in Nat /\ Len(tokens) >= Len(tokens)
    BY <1>3
  <2>4. FedTo(l, RollbackLayer(c(D)[l], Len(tokens)), Contexts(ts),
              Smaller(n, Len(tokens)), None)
    BY <1>7, <2>2, <2>3, RollbackFed
  <2>5. QED
    BY <2>1, <2>4 DEF FedTo
<1>9. comp' \in [Layer -> LayerState]
  <2>1. comp' = [l \in Layer |-> comp'[l]]
    BY <1>1 DEF RolledBack
  <2>2. QED
    BY <1>8, <2>1
<1>10. QED
  BY <1>2, <1>9, AbortInv

\* What a pass under verification has run.
LEMMA VerifyFacts ==
  ASSUME IInv, pc = "verify"
  PROVE  /\ chain \in Seq(Token) /\ Len(chain) \in Nat
         /\ accepted \in Nat /\ accepted < Len(chain)
         /\ PendingPos \in Nat /\ PendingPos = Len(tokens) - 1 - accepted
         /\ spec_min = PendingPos + 1
         /\ Ahead \in Seq(Token)
         /\ Len(Ahead) = Len(tokens) + (Len(chain) - accepted)
         /\ Len(Ahead) <= MaxLen
         /\ LayersFed(comp, Ahead, Len(Ahead), spec_min)
         /\ \A k \in 0 .. Len(chain) - accepted :
              /\ SubSeq(Ahead, 1, Len(tokens) + k)
                   = tokens \o SubSeq(chain, accepted + 1, accepted + k)
              /\ hiddens[accepted + 1 + k] = SubSeq(Ahead, 1, Len(tokens) + k)
         /\ SubSeq(Ahead, 1, Len(tokens)) = tokens
         /\ hiddens[accepted + 1] = tokens
         /\ Emitted + 1 < request.max_new
<1>1. VerifyInv /\ RequestInv
  BY DEF IInv
<1>2. /\ tokens \in Seq(Token) /\ Len(tokens) \in Nat \ {0}
      /\ Len(tokens) = Len(request.prompt) + Emitted
      /\ Len(request.prompt) \in Nat /\ request.max_new \in Nat /\ Emitted \in Nat
      /\ MaxLen \in Nat
  BY Sizes
<1>3. /\ chain \in Seq(Token) /\ Len(chain) \in Nat
      /\ accepted \in Nat /\ accepted < Len(chain) /\ accepted < Len(tokens)
      /\ Emitted + (Len(chain) - accepted) < request.max_new
      /\ spec_min = PendingPos + 1
      /\ LayersFed(comp, Ahead, Len(Ahead), spec_min)
      /\ \A k \in 1 .. Len(chain) + 1 : hiddens[k] = SubSeq(Ahead, 1, PendingPos + k)
  BY <1>1 DEF VerifyInv
<1>4. PendingPos \in Nat /\ PendingPos = Len(tokens) - 1 - accepted
  BY <1>2, <1>3 DEF PendingPos
<1>5. accepted <= Len(chain) /\ Len(chain) <= Len(chain) /\ Len(chain) - accepted \in Nat \ {0}
  BY <1>3
<1>6. ASSUME NEW k \in 0 .. Len(chain) - accepted
      PROVE  /\ Ahead \in Seq(Token)
             /\ Len(Ahead) = Len(tokens) + (Len(chain) - accepted)
             /\ SubSeq(Ahead, 1, Len(tokens) + k)
                  = tokens \o SubSeq(chain, accepted + 1, accepted + k)
  <2> DEFINE a == accepted
             b == Len(chain)
             s == tokens
             t == chain
  <2>1. /\ s \in Seq(Token) /\ t \in Seq(Token) /\ a \in Nat /\ b \in Nat
        /\ a <= b /\ b <= Len(t) /\ k \in 0 .. b - a
    BY <1>2, <1>3, <1>5
  <2> HIDE DEF a, b, s, t
  <2>2. LET j == s \o SubSeq(t, a + 1, b)
        IN  /\ j \in Seq(Token)
            /\ Len(j) = Len(s) + (b - a)
            /\ SubSeq(j, 1, Len(s) + k) = s \o SubSeq(t, a + 1, a + k)
    BY <2>1, PrefixOfJoin
  <2>3. QED
    BY <2>2 DEF Ahead, a, b, s, t
<1>7. ASSUME NEW k \in 0 .. Len(chain) - accepted
      PROVE  hiddens[accepted + 1 + k] = SubSeq(Ahead, 1, Len(tokens) + k)
  <2>1. accepted + 1 + k \in 1 .. Len(chain) + 1
    BY <1>3
  <2>2. PendingPos + (accepted + 1 + k) = Len(tokens) + k
    <3>1. k \in Int /\ accepted \in Int /\ Len(tokens) \in Int
      BY <1>2, <1>3
    <3>2. PendingPos = Len(tokens) - 1 - accepted
      BY <1>4
    <3>3. QED
      BY <3>1, <3>2
  <2>3. QED
    BY <1>3, <2>1, <2>2
<1>8. 0 \in 0 .. Len(chain) - accepted
  BY <1>5
<1>9. Ahead \in Seq(Token) /\ Len(Ahead) = Len(tokens) + (Len(chain) - accepted)
  BY <1>6, <1>8
<1>10. Len(Ahead) <= MaxLen
  <2>1. Len(request.prompt) + request.max_new <= MaxLen
    BY <1>1 DEF RequestInv
  <2>2. QED
    BY <1>2, <1>3, <1>9, <2>1, SMTT(30)
<1>11. SubSeq(Ahead, 1, Len(tokens)) = tokens
  <2>1. SubSeq(Ahead, 1, Len(tokens) + 0) = tokens \o SubSeq(chain, accepted + 1, accepted + 0)
    BY <1>6, <1>8
  <2>2. Len(tokens) + 0 = Len(tokens) /\ accepted + 0 = accepted /\ accepted < accepted + 1
    BY <1>2, <1>3
  <2>3. SubSeq(chain, accepted + 1, accepted) = <<>>
    <3>1. accepted + 1 \in Int /\ accepted \in Int
      BY <1>3
    <3>2. QED
      BY <2>2, <3>1, SubSeqEmpty
  <2>4. tokens \o <<>> = tokens
    BY <1>2, ConcatEmptySeq
  <2>5. QED
    BY <2>1, <2>2, <2>3, <2>4
<1>12. hiddens[accepted + 1] = tokens
  <2>1. hiddens[accepted + 1 + 0] = SubSeq(Ahead, 1, Len(tokens) + 0)
    BY <1>7, <1>8
  <2>2. accepted + 1 + 0 = accepted + 1 /\ Len(tokens) + 0 = Len(tokens)
    BY <1>2, <1>3
  <2>3. QED
    BY <1>11, <2>1, <2>2
<1>13. Emitted + 1 < request.max_new
  BY <1>2, <1>3, <1>5
<1>14. QED
  BY <1>3, <1>4, <1>6, <1>7, <1>9, <1>10, <1>11, <1>12, <1>13

\* The next draft is what the pass has run after the tokens.
LEMMA DraftIsAhead ==
  ASSUME IInv, pc = "verify"
  PROVE  /\ chain[accepted + 1] \in Token
         /\ Append(tokens, chain[accepted + 1]) = SubSeq(Ahead, 1, Len(tokens) + 1)
         /\ Append(tokens, chain[accepted + 1]) \o SubSeq(chain, accepted + 2, Len(chain)) = Ahead
<1>1. /\ chain \in Seq(Token) /\ accepted \in Nat /\ accepted < Len(chain)
      /\ tokens \in Seq(Token)
  BY VerifyFacts, Sizes
<1>2. chain[accepted + 1] \in Token /\ accepted + 1 \in 1 .. Len(chain)
      /\ 1 \in 0 .. Len(chain) - accepted
  BY <1>1
<1>3. SubSeq(Ahead, 1, Len(tokens) + 1) = tokens \o SubSeq(chain, accepted + 1, accepted + 1)
  BY <1>2, VerifyFacts
<1>4. SubSeq(chain, accepted + 1, accepted + 1) = <<chain[accepted + 1]>>
  <2>1. /\ accepted + 1 \in Nat \ {0} /\ accepted + 1 <= accepted + 1
        /\ accepted + 1 \in Int /\ accepted \in Int /\ accepted < accepted + 1
    BY <1>1
  <2>2. Append(SubSeq(chain, accepted + 1, accepted), chain[accepted + 1])
          = SubSeq(chain, accepted + 1, accepted + 1)
    BY <1>1, <2>1, SegmentAppend
  <2>3. SubSeq(chain, accepted + 1, accepted) = <<>>
    BY <2>1, SubSeqEmpty
  <2>4. Append(<<>>, chain[accepted + 1]) = <<chain[accepted + 1]>>
    BY <1>2
  <2>5. QED
    BY <2>2, <2>3, <2>4
<1>5. Append(tokens, chain[accepted + 1]) = tokens \o <<chain[accepted + 1]>>
  BY <1>1, <1>2
<1>6. Append(tokens, chain[accepted + 1]) \o SubSeq(chain, accepted + 2, Len(chain))
        = tokens \o SubSeq(chain, accepted + 1, Len(chain))
  BY <1>1, JoinNext
<1>7. QED
  BY <1>2, <1>3, <1>4, <1>5, <1>6 DEF Ahead

\* A pass that is closed behind the first n of the tokens it has run.
LEMMA ResolveFed ==
  ASSUME IInv, pc = "verify", NEW a \in accepted .. Len(chain), Resolve(a)
  PROVE  /\ comp' \in [Layer -> LayerState]
         /\ LayersFed(comp', Ahead, Len(tokens) - accepted + a, None)
         /\ NoPass'
         /\ spec_min' = None
<1>1. /\ Len(chain) \in Nat /\ accepted \in Nat /\ accepted < Len(chain)
      /\ PendingPos \in Nat /\ PendingPos = Len(tokens) - 1 - accepted
      /\ spec_min = PendingPos + 1
      /\ Ahead \in Seq(Token) /\ Len(Ahead) = Len(tokens) + (Len(chain) - accepted)
      /\ Len(Ahead) <= MaxLen /\ LayersFed(comp, Ahead, Len(Ahead), spec_min)
  BY VerifyFacts
<1>2. Len(tokens) \in Nat
  BY Sizes
<1>3. /\ comp' = IF a = Len(chain) THEN Committed ELSE RolledBack(comp, PendingPos + 1 + a)
      /\ NoPass' /\ spec_min' = None
  BY DEF Resolve, NoPass
<1>4. /\ Len(Ahead) \in 0 .. Len(Ahead) /\ spec_min \in Nat /\ a \in Nat
      /\ PendingPos + 1 + a \in Nat /\ PendingPos + 1 + a >= spec_min
      /\ PendingPos + 1 + a = Len(tokens) - accepted + a
  BY <1>1, <1>2
<1>5. CASE a = Len(chain)
  <2>1. Committed \in [Layer -> LayerState] /\ LayersFed(Committed, Ahead, Len(Ahead), None)
    BY <1>1, <1>4, CommittedFed
  <2>2. Len(Ahead) = Len(tokens) - accepted + a
    BY <1>1, <1>2, <1>5
  <2>3. QED
    BY <1>3, <1>5, <2>1, <2>2
<1>6. CASE a # Len(chain)
  <2> DEFINE from == PendingPos + 1 + a
  <2>1. from \in Nat /\ from >= spec_min
    BY <1>4
  <2>2. Smaller(Len(Ahead), from) = from
    <3>1. from <= Len(Ahead)
      BY <1>1, <1>2, <1>4, <1>6
    <3>2. Len(Ahead) \in Nat
      BY <1>1
    <3> HIDE DEF from
    <3>3. QED
      BY <3>1, <3>2, <2>1 DEF Smaller
  <2>3. comp' = RolledBack(comp, from)
    BY <1>3, <1>6
  <2> HIDE DEF from
  <2>4. /\ RolledBack(comp, from) \in [Layer -> LayerState]
        /\ LayersFed(RolledBack(comp, from), Ahead, Smaller(Len(Ahead), from), None)
    BY <1>1, <1>4, <2>1, RolledBackFed
  <2>5. from = Len(tokens) - accepted + a
    BY <1>4 DEF from
  <2>6. QED
    BY <1>3, <2>2, <2>3, <2>4, <2>5
<1>7. QED
  BY <1>5, <1>6

\* A draft that is the token emitted at its depth.
LEMMA VerifyHitInv ==
  ASSUME IInv, VerifyHit
  PROVE  IInv'
<1> DEFINE draft == chain[accepted + 1]
           a == accepted + 1
<1>1. /\ pc = "verify" /\ tokens' = Append(tokens, draft)
      /\ IF draft # StopToken /\ a < Len(chain)
         THEN /\ accepted' = a
              /\ UNCHANGED <<comp, spec_min, pc, hidden, chain, hiddens>>
         ELSE /\ Resolve(a)
              /\ IF draft = StopToken
                 THEN pc' = "store" /\ UNCHANGED hidden
                 ELSE /\ hidden' = hiddens[Len(hiddens)]
                      /\ pc' = IF Emitted + 1 < request.max_new
                               THEN "sample" ELSE "store"
      /\ slots' = slots /\ request' = request /\ batched' = batched /\ done' = done
      /\ kv' = kv /\ outcome' = outcome
  BY DEF VerifyHit
<1>2. Shapes /\ SlotsInv(slots) /\ RequestInv /\ VerifyInv
  BY <1>1 DEF IInv
<1>3. /\ chain \in Seq(Token) /\ Len(chain) \in Nat
      /\ accepted \in Nat /\ accepted < Len(chain)
      /\ PendingPos \in Nat /\ PendingPos = Len(tokens) - 1 - accepted
      /\ Ahead \in Seq(Token) /\ Len(Ahead) = Len(tokens) + (Len(chain) - accepted)
      /\ Len(Ahead) <= MaxLen /\ Emitted + 1 < request.max_new
  BY <1>1, VerifyFacts
<1>4. /\ draft \in Token
      /\ Append(tokens, draft) = SubSeq(Ahead, 1, Len(tokens) + 1)
      /\ Append(tokens, draft) \o SubSeq(chain, accepted + 2, Len(chain)) = Ahead
  BY <1>1, DraftIsAhead
<1>5. /\ RequestInv' /\ tokens' \in Seq(Token) /\ Len(tokens') = Len(tokens) + 1
      /\ Emitted' = Emitted + 1 /\ Emitted' \in Nat \ {0}
      /\ tokens'[Len(tokens')] = draft
      /\ tokens' = SubSeq(Ahead, 1, Len(tokens'))
  <2>1. ~Answered
    BY <1>2 DEF VerifyInv
  <2>2. QED
    BY <1>1, <1>4, <2>1, OneMoreToken
<1>6. Len(tokens) \in Nat /\ request.max_new \in Nat
  BY <1>1, Sizes
<1> HIDE DEF draft
<1>7. CASE draft # StopToken /\ a < Len(chain)
  <2>1. /\ accepted' = a /\ comp' = comp /\ spec_min' = spec_min /\ pc' = pc
        /\ hidden' = hidden /\ chain' = chain /\ hiddens' = hiddens
    BY <1>1, <1>7
  <2>2. PendingPos' = PendingPos
    <3>1. Len(tokens') - 1 - accepted' = PendingPos
      BY <1>3, <1>5, <1>6, <2>1
    <3>2. QED
      BY <3>1 DEF PendingPos
  <2>3. Ahead' = Ahead
    <3>1. accepted' + 1 = accepted + 2
      BY <1>3, <2>1
    <3>2. QED
      BY <1>1, <1>4, <2>1, <3>1 DEF Ahead
  <2>4. ~Answered'
    <3>1. Emitted' # request'.max_new
      BY <1>1, <1>3, <1>5, <1>6
    <3>2. QED
      BY <1>5, <1>7, <3>1 DEF Answered
  <2>5. /\ accepted' \in Nat /\ accepted' < Len(chain') /\ accepted' < Len(tokens')
        /\ Emitted' + (Len(chain') - accepted') < request'.max_new
    <3>1. accepted < Len(tokens) /\ Emitted + (Len(chain) - accepted) < request.max_new
      BY <1>2 DEF VerifyInv
    <3>2. Emitted \in Nat
      BY <1>1, Sizes
    <3>3. QED
      BY <1>1, <1>3, <1>5, <1>6, <1>7, <2>1, <3>1, <3>2
  <2>6. VerifyInv'
    BY <1>1, <1>2, <2>1, <2>2, <2>3, <2>4, <2>5 DEF VerifyInv
  <2>7. Shapes' /\ SlotsInv(slots')
    BY <1>1, <1>2, <2>1 DEF Shapes
  <2>8. QED
    BY <1>1, <1>5, <2>1, <2>6, <2>7 DEF IInv
<1>8. CASE ~(draft # StopToken /\ a < Len(chain))
  <2>1. /\ Resolve(a)
        /\ IF draft = StopToken
           THEN pc' = "store" /\ UNCHANGED hidden
           ELSE /\ hidden' = hiddens[Len(hiddens)]
                /\ pc' = IF Emitted + 1 < request.max_new THEN "sample" ELSE "store"
    BY <1>1, <1>8
  <2>2. a \in accepted .. Len(chain) /\ Len(tokens) - accepted + a = Len(tokens')
    BY <1>3, <1>5, <1>6
  <2>3. /\ comp' \in [Layer -> LayerState]
        /\ LayersFed(comp', Ahead, Len(tokens'), None)
        /\ NoPass' /\ spec_min' = None
    BY <1>1, <2>1, <2>2, ResolveFed
  <2>4. /\ Len(tokens') \in 0 .. Len(Ahead) /\ Len(tokens') <= MaxLen
        /\ Len(tokens') <= Len(tokens')
        /\ SubSeq(Ahead, 1, Len(tokens')) = SubSeq(tokens', 1, Len(tokens'))
    <3>1. Len(tokens') \in 0 .. Len(Ahead)
      BY <1>3, <1>5, <1>6
    <3>2. SubSeq(tokens', 1, Len(tokens')) = tokens'
      BY <1>5, SubSeqFull
    <3>3. MaxLen \in Nat
      BY GenerationAssumption
    <3>4. QED
      BY <1>3, <1>5, <3>1, <3>2, <3>3
  <2>5. LayersFed(comp', tokens', Len(tokens'), None)
    BY <1>3, <1>5, <2>3, <2>4, FedAlong
  <2>6. RowsOf(kv', tokens', Len(tokens'))
    <3>1. RowsOf(kv, Ahead, Len(Ahead))
      BY <1>2 DEF VerifyInv
    <3>2. RowsOf(kv, Ahead, Len(tokens'))
      BY <1>3, <2>4, <3>1, FewerRows
    <3>3. QED
      BY <1>1, <1>3, <1>5, <2>4, <3>2, RowsAlong
  <2>7. CASE draft = StopToken
    <3>1. pc' = "store" /\ hidden' = hidden
      BY <2>1, <2>7
    <3>2. Answered'
      BY <1>5, <2>7 DEF Answered
    <3>3. RowsOf(kv', tokens', Len(tokens') - 1)
      BY <1>5, <1>6, <2>6, FewerRows
    <3>4. StoreInv'
      BY <2>5, <3>2, <3>3 DEF StoreInv
    <3>5. Shapes' /\ SlotsInv(slots')
      BY <1>1, <1>2, <2>3, <3>1 DEF Shapes
    <3>6. QED
      BY <1>5, <2>3, <3>1, <3>4, <3>5 DEF IInv
  <2>8. CASE draft # StopToken
    <3>1. pc' = "sample" /\ hidden' = hiddens[Len(hiddens)]
      BY <1>3, <2>1, <2>8
    <3>2. a = Len(chain)
      BY <1>3, <1>8, <2>8
    <3>3. hidden' = tokens'
      <4>1. /\ Len(hiddens) = Len(chain) + 1
            /\ \A k \in 1 .. Len(chain) + 1 : hiddens[k] = SubSeq(Ahead, 1, PendingPos + k)
        BY <1>2 DEF VerifyInv
      <4>2. Len(chain) + 1 \in 1 .. Len(chain) + 1
        BY <1>3
      <4>3. PendingPos + (Len(chain) + 1) = Len(tokens')
        <5>1. /\ PendingPos = Len(tokens) - 1 - accepted /\ Len(tokens') = Len(tokens) + 1
              /\ Len(chain) = accepted + 1
          BY <1>3, <1>5, <3>2
        <5>2. accepted \in Int /\ Len(tokens) \in Int
          BY <1>3, <1>6
        <5>3. QED
          BY <5>1, <5>2
      <4>4. hiddens[Len(chain) + 1] = SubSeq(Ahead, 1, PendingPos + (Len(chain) + 1))
        BY <4>1, <4>2
      <4>5. QED
        BY <1>5, <3>1, <4>1, <4>3, <4>4
    <3>4. ~Answered'
      <4>1. Emitted' # request'.max_new
        BY <1>1, <1>3, <1>5, <1>6
      <4>2. QED
        BY <1>5, <2>8, <4>1 DEF Answered
    <3>5. SampleInv'
      BY <2>5, <2>6, <3>3, <3>4 DEF SampleInv
    <3>6. Shapes' /\ SlotsInv(slots')
      <4>1. hidden' \in Row
        BY <1>5, <3>3 DEF Row
      <4>2. QED
        BY <1>1, <1>2, <2>3, <4>1 DEF Shapes
    <3>7. QED
      BY <1>5, <2>3, <3>1, <3>5, <3>6 DEF IInv
  <2>9. QED
    BY <2>7, <2>8
<1>9. QED
  BY <1>7, <1>8

\* A draft that is not: the rest of the chain is rejected.
LEMMA VerifyMissInv ==
  ASSUME IInv, VerifyMiss
  PROVE  IInv'
<1>1. PICK t \in Samples(hiddens[accepted + 1]) \ {chain[accepted + 1]} :
         /\ tokens' = Append(tokens, t)
         /\ Resolve(accepted)
         /\ IF t = StopToken
            THEN pc' = "store" /\ UNCHANGED hidden
            ELSE /\ hidden' = hiddens[accepted + 1]
                 /\ pc' = IF Emitted + 1 < request.max_new THEN "draft" ELSE "store"
  BY DEF VerifyMiss
<1>2. /\ pc = "verify" /\ slots' = slots /\ request' = request /\ batched' = batched
      /\ done' = done /\ kv' = kv /\ outcome' = outcome
  BY DEF VerifyMiss
<1>3. Shapes /\ SlotsInv(slots) /\ RequestInv /\ VerifyInv
  BY <1>2 DEF IInv
<1>4. /\ Len(chain) \in Nat /\ accepted \in Nat /\ accepted < Len(chain)
      /\ Ahead \in Seq(Token) /\ Len(Ahead) = Len(tokens) + (Len(chain) - accepted)
      /\ Len(Ahead) <= MaxLen /\ SubSeq(Ahead, 1, Len(tokens)) = tokens
      /\ hiddens[accepted + 1] = tokens /\ Emitted + 1 < request.max_new
  BY <1>2, VerifyFacts
<1>5. /\ RequestInv' /\ tokens' \in Seq(Token) /\ Len(tokens') = Len(tokens) + 1
      /\ Emitted' = Emitted + 1 /\ Emitted' \in Nat \ {0}
      /\ tokens'[Len(tokens')] = t
      /\ SubSeq(tokens', 1, Len(tokens)) = tokens
  <2>1. ~Answered
    BY <1>3 DEF VerifyInv
  <2>2. t \in Token
    BY <1>2, SamplesType
  <2>3. QED
    BY <1>1, <1>2, <2>1, <2>2, OneMoreToken
<1>6. Len(tokens) \in Nat /\ tokens \in Seq(Token) /\ request.max_new \in Nat /\ MaxLen \in Nat
  BY <1>2, Sizes
<1>7. accepted \in accepted .. Len(chain) /\ Len(tokens) - accepted + accepted = Len(tokens)
  BY <1>4, <1>6
<1>8. /\ comp' \in [Layer -> LayerState]
      /\ LayersFed(comp', Ahead, Len(tokens), None)
      /\ NoPass' /\ spec_min' = None
  BY <1>1, <1>2, <1>7, ResolveFed
<1>9. /\ Len(tokens) \in 0 .. Len(Ahead) /\ Len(tokens) <= Len(tokens')
      /\ Len(tokens') <= MaxLen /\ Len(tokens') - 1 = Len(tokens)
      /\ SubSeq(Ahead, 1, Len(tokens)) = SubSeq(tokens', 1, Len(tokens))
  BY <1>4, <1>5, <1>6, SMTT(30)
<1>10. LayersFed(comp', tokens', Len(tokens') - 1, None)
  <2>1. LayersFed(comp', tokens', Len(tokens), None)
    BY <1>4, <1>5, <1>8, <1>9, FedAlong
  <2>2. QED
    BY <1>9, <2>1
<1>11. RowsOf(kv', tokens', Len(tokens') - 1)
  <2>1. RowsOf(kv, Ahead, Len(Ahead))
    BY <1>3 DEF VerifyInv
  <2>2. RowsOf(kv, Ahead, Len(tokens))
    <3>1. Len(Ahead) \in Nat /\ Len(tokens) \in Int /\ Len(tokens) <= Len(Ahead)
      BY <1>4, <1>6
    <3>2. QED
      BY <2>1, <3>1, FewerRows
  <2>3. RowsOf(kv, tokens', Len(tokens))
    BY <1>4, <1>5, <1>9, <2>2, RowsAlong
  <2>4. QED
    BY <1>2, <1>9, <2>3
<1>12. CASE t = StopToken
  <2>1. pc' = "store" /\ hidden' = hidden
    BY <1>1, <1>12
  <2>2. Answered'
    BY <1>5, <1>12 DEF Answered
  <2>3. StoreInv'
    BY <1>10, <1>11, <2>2 DEF StoreInv
  <2>4. Shapes' /\ SlotsInv(slots')
    BY <1>2, <1>3, <1>8, <2>1 DEF Shapes
  <2>5. QED
    BY <1>5, <1>8, <2>1, <2>3, <2>4 DEF IInv
<1>13. CASE t # StopToken
  <2>1. pc' = "draft" /\ hidden' = tokens
    BY <1>1, <1>4, <1>13
  <2>2. ~Answered'
    <3>1. Emitted' # request'.max_new
      BY <1>2, <1>4, <1>5, <1>6
    <3>2. QED
      BY <1>5, <1>13, <3>1 DEF Answered
  <2>3. TokenInv'
    BY <1>10, <1>11, <2>2 DEF TokenInv
  <2>4. Shapes' /\ SlotsInv(slots')
    <3>1. hidden' \in Row
      BY <1>6, <2>1 DEF Row
    <3>2. QED
      BY <1>2, <1>3, <1>8, <3>1 DEF Shapes
  <2>5. QED
    BY <1>5, <1>8, <2>1, <2>3, <2>4 DEF IInv
<1>14. QED
  BY <1>12, <1>13

\* A client that goes away during a pass: everything of it is rolled back.
LEMMA VerifyFailsInv ==
  ASSUME IInv, VerifyFails
  PROVE  IInv'
<1>1. /\ pc = "verify" /\ comp' = RolledBack(comp, PendingPos + 1 + accepted)
      /\ spec_min' = None /\ Close("failed") /\ slots' = slots
  BY DEF VerifyFails
<1>2. /\ accepted \in Nat /\ PendingPos \in Nat /\ spec_min = PendingPos + 1
      /\ Ahead \in Seq(Token) /\ Len(Ahead) <= MaxLen
      /\ LayersFed(comp, Ahead, Len(Ahead), spec_min)
  BY <1>1, VerifyFacts
<1>3. /\ Len(Ahead) \in 0 .. Len(Ahead) /\ spec_min \in Nat
      /\ PendingPos + 1 + accepted \in Nat /\ PendingPos + 1 + accepted >= spec_min
  BY <1>2
<1>4. comp' \in [Layer -> LayerState]
  BY <1>1, <1>2, <1>3, RolledBackFed
<1>5. SlotsInv(slots')
  BY <1>1 DEF IInv
<1>6. QED
  BY <1>1, <1>4, <1>5, CloseInv

-----------------------------------------------------------------------------
(***************************************************************************)
(* The end of a request.                                                   *)
(***************************************************************************)

\* What is stored is what the request has run.
LEMMA NewSlotExact ==
  ASSUME IInv, pc = "store", Len(tokens) >= 2
  PROVE  SlotExact(NewSlot)
<1>1. Shapes /\ StoreInv
  BY DEF IInv
<1>2. tokens \in Seq(Token) /\ Len(tokens) \in Nat /\ Len(tokens) <= MaxLen /\ MaxSlots \in Nat
  BY Sizes, GenerationAssumption
<1> DEFINE c == [l \in Layer |-> Core(comp[l])]
           s == [tokens |-> tokens, valid |-> Len(tokens) - 1, kv |-> kv,
                 comp |-> c, last_used |-> 0]
<1>3. c \in [Layer -> CoreState] /\ \A l \in Layer : c[l] = Core(comp[l])
  <2>1. \A l \in Layer : comp[l] \in LayerState
    BY <1>1 DEF Shapes
  <2>2. \A l \in Layer : Core(comp[l]) \in CoreState
    BY <2>1, CoreType
  <2>3. QED
    BY <2>2
<1>4. NewSlot = s
  BY DEF NewSlot
<1> HIDE DEF c
<1>5. /\ s.tokens = tokens /\ s.valid = Len(tokens) - 1 /\ s.kv = kv /\ s.comp = c
      /\ s.last_used = 0 /\ s.valid + 1 = Len(tokens) /\ s.valid > 0
  BY <1>2
<1>6. s \in StoredSlot
  <2>1. Len(tokens) - 1 \in Nat /\ 0 \in 0 .. MaxSlots
    BY <1>2
  <2>2. QED
    BY <1>1, <1>2, <1>3, <2>1 DEF StoredSlot, Shapes
<1> HIDE DEF s
<1>7. \E n \in {s.valid, s.valid + 1} :
        \A l \in Layer : s.comp[l] = Ideal(l, SubSeq(Contexts(s.tokens), 1, n))
  <2>1. PICK n \in {Len(tokens) - 1, Len(tokens)} : LayersFed(comp, tokens, n, None)
    BY <1>1 DEF StoreInv
  <2>2. \A l \in Layer : s.comp[l] = Ideal(l, SubSeq(Contexts(s.tokens), 1, n))
    BY <1>3, <1>5, <2>1 DEF LayersFed, FedTo
  <2>3. n \in {s.valid, s.valid + 1}
    BY <1>5
  <2>4. QED
    BY <2>2, <2>3
<1>8. RowsOf(s.kv, s.tokens, s.valid)
  BY <1>1, <1>5 DEF StoreInv
<1>9. SlotExact(s)
  BY <1>2, <1>5, <1>6, <1>7, <1>8 DEF SlotExact
<1>10. QED
  BY <1>4, <1>9

\* Storing the session.
LEMMA StoreSessionInv ==
  ASSUME IInv, StoreSession
  PROVE  IInv'
<1>1. /\ pc = "store" /\ pc' = "finish"
      /\ slots' = IF Eligible /\ Len(tokens) >= 2 THEN Stored(slots, NewSlot) ELSE slots
      /\ comp' = comp /\ spec_min' = spec_min
      /\ request' = request /\ batched' = batched /\ tokens' = tokens
      /\ done' = done /\ kv' = kv /\ hidden' = hidden /\ chain' = chain
      /\ hiddens' = hiddens /\ accepted' = accepted /\ outcome' = outcome
  BY DEF StoreSession
<1>2. Shapes /\ SlotsInv(slots) /\ RequestInv /\ StoreInv /\ NoPass /\ spec_min = None
  BY <1>1 DEF IInv
<1>3. SlotsInv(slots')
  <2>1. CASE Eligible /\ Len(tokens) >= 2
    <3>1. SlotExact(NewSlot)
      BY <1>1, <2>1, NewSlotExact
    <3>2. SlotsInv(Stored(slots, NewSlot))
      BY <1>2, <3>1, StoredKeeps
    <3>3. QED
      BY <1>1, <2>1, <3>2
  <2>2. CASE ~(Eligible /\ Len(tokens) >= 2)
    BY <1>1, <1>2, <2>2
  <2>3. QED
    BY <2>1, <2>2
<1>4. Answered'
  BY <1>1, <1>2 DEF StoreInv, Answered, Emitted
<1>5. Shapes' /\ RequestInv' /\ NoPass' /\ spec_min' = None
  BY <1>1, <1>2 DEF Shapes, RequestInv, Emitted, NoPass
<1>6. QED
  BY <1>1, <1>3, <1>4, <1>5 DEF IInv

\* A request that ends without touching the session.
LEMMA EndInv ==
  ASSUME IInv, SampleFails \/ EmbeddingFails \/ Finish
  PROVE  IInv'
<1>1. /\ pc \in {"sample", "store", "finish"}
      /\ \E how \in {"finished", "failed"} : Close(how)
      /\ slots' = slots /\ comp' = comp /\ spec_min' = spec_min
  BY DEF SampleFails, EmbeddingFails, Finish, session
<1>2. PICK how \in {"finished", "failed"} : Close(how)
  BY <1>1
<1>3. comp' \in [Layer -> LayerState]
  BY <1>1 DEF IInv, Shapes
<1>4. QED
  BY <1>1, <1>2, <1>3, AbortInv

\* A step that changes nothing.
LEMMA StutterInv ==
  ASSUME IInv, UNCHANGED vars
  PROVE  IInv'
<1>1. /\ slots' = slots /\ comp' = comp /\ spec_min' = spec_min /\ pc' = pc
      /\ request' = request /\ batched' = batched /\ tokens' = tokens
      /\ done' = done /\ kv' = kv /\ hidden' = hidden /\ chain' = chain
      /\ hiddens' = hiddens /\ accepted' = accepted /\ outcome' = outcome
  BY DEF vars
<1>2. (Shapes <=> Shapes') /\ (IdleInv <=> IdleInv') /\ (RequestInv <=> RequestInv')
  BY <1>1 DEF Shapes, IdleInv, RequestInv, Emitted
<1>3. (NoPass <=> NoPass') /\ (RestoreInv <=> RestoreInv') /\ (PrefillInv <=> PrefillInv')
  BY <1>1 DEF NoPass, RestoreInv, Extends, PrefillInv
<1>4. Answered <=> Answered'
  BY <1>1 DEF Answered, Emitted
<1>5. /\ (SampleInv <=> SampleInv') /\ (TokenInv <=> TokenInv') /\ (StoreInv <=> StoreInv')
      /\ (PassInv <=> PassInv')
  BY <1>1, <1>4 DEF SampleInv, TokenInv, StoreInv, PassInv, Emitted
<1>6. Ahead' = Ahead /\ PendingPos' = PendingPos /\ Emitted' = Emitted
  BY <1>1 DEF Ahead, PendingPos, Emitted
<1>7. VerifyInv <=> VerifyInv'
  BY <1>1, <1>4, <1>6 DEF VerifyInv
<1>8. QED
  BY <1>1, <1>2, <1>3, <1>4, <1>5, <1>7 DEF IInv

\* Every step keeps the invariant.
LEMMA NextInv ==
  ASSUME ~Regenerate
  PROVE  IInv /\ [Next]_vars => IInv'
<1> SUFFICES ASSUME IInv, [Next]_vars PROVE IInv'
  OBVIOUS
<1>1. ASSUME NEW prompt \in Prompts, NEW max_new \in MaxNew, NEW batch \in BOOLEAN,
             NEW kind \in Kinds, StartRequest(prompt, max_new, kind, batch)
      PROVE  IInv'
  BY <1>1, StartInv
<1>2. CASE RestoreSession
  BY <1>2, RestoreSessionInv
<1>3. CASE NothingToRestore
  BY <1>3, NothingToRestoreInv
<1>4. CASE Prefill
  BY <1>4, PrefillKeeps
<1>5. CASE PrefillFails
  BY <1>5, PrefillFailsInv
<1>6. CASE Sample
  BY <1>6, SampleKeeps
<1>7. CASE ForwardToken
  BY <1>7, ForwardKeeps
<1>8. CASE ForwardFails
  BY <1>8, ForwardFailsInv
<1>9. CASE Draft
  BY <1>9, DraftKeeps
<1>10. CASE SpeculativePass
  BY <1>10, SpeculativePassInv
<1>11. CASE PassFails
  BY <1>11, PassFailsInv
<1>12. CASE VerifyHit
  BY <1>12, VerifyHitInv
<1>13. CASE VerifyMiss
  BY <1>13, VerifyMissInv
<1>14. CASE VerifyFails
  BY <1>14, VerifyFailsInv
<1>15. CASE StoreSession
  BY <1>15, StoreSessionInv
<1>16. CASE SampleFails \/ EmbeddingFails \/ Finish
  BY <1>16, EndInv
<1>17. CASE UNCHANGED vars
  BY <1>17, StutterInv
<1>18. QED
  BY <1>1, <1>2, <1>3, <1>4, <1>5, <1>6, <1>7, <1>8, <1>9, <1>10, <1>11, <1>12,
     <1>13, <1>14, <1>15, <1>16, <1>17 DEF Next, Serve

-----------------------------------------------------------------------------
\* The invariant holds in every reachable state.
THEOREM Invariance == ~Regenerate => (Spec => []IInv)
<1> SUFFICES ASSUME ~Regenerate PROVE Spec => []IInv
  OBVIOUS
<1>1. Init => IInv
  BY InitInv
<1>2. IInv /\ [Next]_vars => IInv'
  BY NextInv
<1>3. QED
  BY <1>1, <1>2, PTL DEF Spec

(***************************************************************************)
(* Type correctness.                                                       *)
(***************************************************************************)
THEOREM TypeCorrect == ~Regenerate => (Spec => []TypeOK)
<1>1. IInv => TypeOK
  <2> SUFFICES ASSUME IInv PROVE TypeOK
    OBVIOUS
  <2>1. Shapes /\ SlotsInv(slots)
    BY DEF IInv
  <2>2. slots \in Seq(Slot) /\ Len(slots) <= MaxSlots
    <3>1. /\ slots \in Seq(StoredSlot) /\ Len(slots) \in Nat /\ Len(slots) <= MaxSlots
          /\ \A i \in 1 .. Len(slots) : slots[i].last_used \in 1 .. Len(slots)
          /\ MaxSlots \in Nat
      BY <2>1, GenerationAssumption DEF SlotsInv, Stamped
    <3>2. ASSUME NEW i \in 1 .. Len(slots) PROVE slots[i] \in Slot
      <4>1. slots[i] \in StoredSlot
        BY <3>1
      <4>2. slots[i].last_used \in 1 .. MaxSlots
        BY <3>1
      <4>3. QED
        BY <4>1, <4>2 DEF Slot, StoredSlot
    <3>3. slots = [i \in 1 .. Len(slots) |-> slots[i]]
      BY <3>1
    <3>4. QED
      BY <3>1, <3>2, <3>3
  <2>3. CASE pc = "idle"
    <3>1. IdleInv /\ NoPass /\ spec_min = None
      BY <2>3 DEF IInv
    <3>2. request.prompt = <<>>
      BY <3>1 DEF IdleInv, NoRequest
    <3>3. ChainLen \in Nat
      BY GenerationAssumption
    <3>4. QED
      BY <2>1, <2>2, <2>3, <3>1, <3>2, <3>3 DEF TypeOK, Shapes, IdleInv, NoPass
  <2>4. CASE pc # "idle"
    <3>1. RequestInv /\ ChainLen \in Nat
      BY <2>4, GenerationAssumption DEF IInv
    <3>2. request.prompt \in Seq(Token) /\ tokens \in Seq(Token)
          /\ done \in 0 .. Len(request.prompt)
      BY <3>1 DEF RequestInv
    <3>3. /\ chain \in Seq(Token) /\ Len(chain) <= ChainLen
          /\ accepted \in 0 .. Len(chain) /\ hiddens \in Seq(Row)
          /\ spec_min \in Nat \cup {None}
      <4>1. CASE pc = "verify"
        <5>1. /\ PendingPos \in Nat /\ spec_min = PendingPos + 1
              /\ accepted \in Nat /\ accepted < Len(chain) /\ Len(chain) \in Nat
          BY <4>1, VerifyFacts
        <5>2. chain \in Seq(Token) /\ Len(chain) <= ChainLen /\ hiddens \in Seq(Row)
          BY <4>1 DEF IInv, VerifyInv
        <5>3. QED
          BY <5>1, <5>2
      <4>2. CASE pc = "pass"
        <5>1. /\ chain \in Seq(Token) /\ Len(chain) \in 1 .. ChainLen /\ accepted = 0
              /\ hiddens = <<>> /\ spec_min = None
          BY <4>2 DEF IInv, PassInv
        <5>2. QED
          BY <3>1, <5>1
      <4>3. CASE pc \notin {"pass", "verify"}
        <5>1. chain = <<>> /\ hiddens = <<>> /\ accepted = 0 /\ spec_min = None
          BY <4>3 DEF IInv, NoPass
        <5>2. QED
          BY <3>1, <5>1
      <4>4. QED
        BY <4>1, <4>2, <4>3
    <3>4. pc \in {"idle", "restore", "prefill", "sample", "forward", "draft",
                  "pass", "verify", "store", "finish"}
      BY DEF IInv
    <3>5. QED
      BY <2>1, <2>2, <3>2, <3>3, <3>4 DEF TypeOK, Shapes
  <2>5. QED
    BY <2>3, <2>4
<1>2. QED
  BY <1>1, Invariance, PTL

(***************************************************************************)
(* Every token is sampled from the hidden state of exactly the tokens      *)
(* before it (generate_stream, run_decode_speculative).                    *)
(***************************************************************************)
THEOREM HiddenAlwaysExact == ~Regenerate => (Spec => []HiddenExact)
<1>1. IInv => HiddenExact
  <2> SUFFICES ASSUME IInv PROVE HiddenExact
    OBVIOUS
  <2>1. pc = "sample" => hidden = tokens
    BY DEF IInv, SampleInv
  <2>2. ASSUME pc = "verify", NEW k \in 0 .. Len(chain) - accepted
        PROVE  hiddens[accepted + 1 + k] = tokens \o SubSeq(chain, accepted + 1, accepted + k)
    BY <2>2, VerifyFacts
  <2>3. QED
    BY <2>1, <2>2 DEF HiddenExact
<1>2. QED
  BY <1>1, Invariance, PTL

\* A layer that was fed the first n positions of ts reflects them.
LEMMA FedReflects ==
  ASSUME NEW ts \in Seq(Token), Len(ts) <= MaxLen, NEW n \in 0 .. Len(ts), NEW l \in Layer
  PROVE  Ideal(l, SubSeq(Contexts(ts), 1, n)) = Ideal(l, Contexts(SubSeq(ts, 1, n)))
<1>1. SubSeq(Contexts(ts), 1, n) = Contexts(SubSeq(ts, 1, n))
  BY ContextsOfPrefix
<1>2. QED
  BY <1>1

(***************************************************************************)
(* The compressor agrees with the tokens between passes                    *)
(* (deepseek_compressor_rollback, deepseek_compressor_commit).             *)
(***************************************************************************)
THEOREM CompressorAlwaysAgrees == ~Regenerate => (Spec => []CompressorAgrees)
<1>1. IInv => CompressorAgrees
  <2> SUFFICES ASSUME IInv, NEW l \in Layer
               PROVE  /\ pc = "sample" => Reflects(Core(comp[l]), l, tokens)
                      /\ pc \in {"forward", "draft", "pass"} =>
                           Reflects(Core(comp[l]), l, SubSeq(tokens, 1, Len(tokens) - 1))
    BY DEF CompressorAgrees
  <2>1. ASSUME pc = "sample" PROVE Reflects(Core(comp[l]), l, tokens)
    <3>1. tokens \in Seq(Token) /\ Len(tokens) <= MaxLen /\ Len(tokens) \in 0 .. Len(tokens)
      BY <2>1, Sizes
    <3>2. Core(comp[l]) = Ideal(l, SubSeq(Contexts(tokens), 1, Len(tokens)))
      BY <2>1 DEF IInv, SampleInv, LayersFed, FedTo
    <3>3. SubSeq(tokens, 1, Len(tokens)) = tokens
      BY <3>1, SubSeqFull
    <3>4. QED
      BY <3>1, <3>2, <3>3, FedReflects DEF Reflects
  <2>2. ASSUME pc \in {"forward", "draft", "pass"}
        PROVE  Reflects(Core(comp[l]), l, SubSeq(tokens, 1, Len(tokens) - 1))
    <3>1. /\ tokens \in Seq(Token) /\ Len(tokens) <= MaxLen
          /\ Len(tokens) - 1 \in 0 .. Len(tokens)
      BY <2>2, Sizes
    <3>2. Core(comp[l]) = Ideal(l, SubSeq(Contexts(tokens), 1, Len(tokens) - 1))
      BY <2>2 DEF IInv, TokenInv, LayersFed, FedTo
    <3>3. QED
      BY <3>1, <3>2, FedReflects DEF Reflects
  <2>3. QED
    BY <2>1, <2>2
<1>2. QED
  BY <1>1, Invariance, PTL

(***************************************************************************)
(* A stored session holds the rows and the compressor of its own           *)
(* conversation (try_restore_session, store_session).                      *)
(***************************************************************************)
THEOREM SlotsAlwaysSound == ~Regenerate => (Spec => []SlotSound)
<1>1. IInv => SlotSound
  <2> SUFFICES ASSUME IInv, NEW i \in DOMAIN slots
               PROVE  LET s == slots[i]
                      IN  /\ \A p \in 1 .. s.valid : s.kv[p] = SubSeq(s.tokens, 1, p)
                          /\ \E n \in {s.valid, s.valid + 1} :
                               \A l \in Layer :
                                 Reflects(s.comp[l], l, SubSeq(s.tokens, 1, n))
    BY DEF SlotSound
  <2> DEFINE s == slots[i]
  <2>1. SlotExact(s)
    BY DEF IInv, SlotsInv
  <2> HIDE DEF s
  <2>2. \A p \in 1 .. s.valid : s.kv[p] = SubSeq(s.tokens, 1, p)
    BY <2>1 DEF SlotExact, RowsOf
  <2>3. /\ s.tokens \in Seq(Token) /\ Len(s.tokens) <= MaxLen /\ s.valid \in Nat
        /\ Len(s.tokens) = s.valid + 1
    BY <2>1 DEF SlotExact, StoredSlot
  <2>4. PICK n \in {s.valid, s.valid + 1} :
          \A l \in Layer : s.comp[l] = Ideal(l, SubSeq(Contexts(s.tokens), 1, n))
    BY <2>1 DEF SlotExact
  <2>5. n \in 0 .. Len(s.tokens)
    BY <2>3
  <2>6. \A l \in Layer : Reflects(s.comp[l], l, SubSeq(s.tokens, 1, n))
    BY <2>3, <2>4, <2>5, FedReflects DEF Reflects
  <2>7. QED
    BY <2>2, <2>6 DEF s
<1>2. QED
  BY <1>1, Invariance, PTL

(***************************************************************************)
(* A speculative pass never writes a KV row beyond the positions the       *)
(* request was admitted for (run_decode_speculative).                      *)
(***************************************************************************)
THEOREM PassAlwaysInKv == ~Regenerate => (Spec => []PassInKv)
<1>1. IInv => PassInKv
  <2> SUFFICES ASSUME IInv, pc \in {"pass", "verify"}
               PROVE  PendingPos + Len(chain) + 1 < Len(request.prompt) + request.max_new
    BY DEF PassInKv
  <2>1. /\ chain \in Seq(Token) /\ Len(chain) \in Nat /\ accepted \in Nat
        /\ Emitted + (Len(chain) - accepted) < request.max_new
    <3>1. CASE pc = "pass"
      BY <3>1 DEF IInv, PassInv
    <3>2. CASE pc = "verify"
      BY <3>2, VerifyFacts DEF IInv, VerifyInv
    <3>3. QED
      BY <3>1, <3>2
  <2>2. /\ Len(tokens) \in Nat /\ Len(request.prompt) \in Nat /\ request.max_new \in Nat
        /\ Emitted \in Nat /\ Len(tokens) = Len(request.prompt) + Emitted
    BY Sizes
  <2>3. PendingPos = Len(tokens) - 1 - accepted
    BY DEF PendingPos
  <2>4. QED
    BY <2>1, <2>2, <2>3
<1>2. QED
  BY <1>1, Invariance, PTL

-----------------------------------------------------------------------------
(***************************************************************************)
(* The client's view.                                                      *)
(***************************************************************************)

\* The tokens emitted for the request.
Out == SubSeq(tokens, Len(request.prompt) + 1, Len(tokens))

\* They continue the prompt, and the client sees when they are complete.
LEMMA OutFacts ==
  ASSUME IInv, pc # "idle"
  PROVE  /\ request # NoRequest
         /\ Out \in Seq(Token)
         /\ Len(Out) = Emitted
         /\ request.prompt \o Out = tokens
         /\ Answered <=> Client!Complete
<1>1. /\ request.prompt \in Seq(Token) /\ request.prompt # <<>>
      /\ tokens \in Seq(Token) /\ Len(tokens) \in Nat \ {0}
      /\ Len(request.prompt) \in Nat \ {0}
      /\ Len(tokens) = Len(request.prompt) + Emitted /\ Emitted \in Nat
  BY Sizes
<1> DEFINE a == Len(request.prompt)
<1>2. /\ a + 1 \in Nat \ {0} /\ Len(tokens) \in 0 .. Len(tokens) /\ a + 1 <= Len(tokens) + 1
      /\ Len(tokens) - (a + 1) + 1 = Emitted /\ a \in Nat /\ a \in 0 .. Len(tokens)
  BY <1>1
<1>3. /\ Out \in Seq(Token) /\ Len(Out) = Emitted
      /\ \A i \in 1 .. Emitted : Out[i] = tokens[(a + 1) + i - 1]
  <2>1. /\ Out \in Seq(Token) /\ Len(Out) = Len(tokens) - (a + 1) + 1
        /\ \A i \in 1 .. Len(tokens) - (a + 1) + 1 : Out[i] = tokens[(a + 1) + i - 1]
    BY <1>1, <1>2, SegmentSeq DEF Out
  <2>2. QED
    BY <1>2, <2>1
<1>4. request # NoRequest
  BY <1>1 DEF NoRequest
<1>5. request.prompt \o Out = tokens
  <2>1. SubSeq(tokens, 1, a) = request.prompt
    BY DEF IInv, RequestInv
  <2>2. /\ request.prompt \o Out \in Seq(Token)
        /\ Len(request.prompt \o Out) = a + Emitted
        /\ \A i \in 1 .. a + Emitted :
             (request.prompt \o Out)[i] = IF i <= a THEN request.prompt[i] ELSE Out[i - a]
    BY <1>1, <1>3, ConcatProperties
  <2>3. \A i \in 1 .. a : request.prompt[i] = tokens[i]
    BY <1>1, <1>2, <2>1, PrefixSeq
  <2>4. ASSUME NEW i \in 1 .. a + Emitted PROVE (request.prompt \o Out)[i] = tokens[i]
    <3>1. CASE i <= a
      <4>1. i \in 1 .. a
        BY <1>2, <3>1
      <4>2. QED
        BY <2>2, <2>3, <3>1, <4>1
    <3>2. CASE ~(i <= a)
      <4>1. i - a \in 1 .. Emitted /\ (a + 1) + (i - a) - 1 = i
        <5>1. a \in Nat /\ Emitted \in Nat /\ i \in 1 .. a + Emitted /\ ~(i <= a)
          BY <1>1, <1>2, <3>2
        <5> HIDE DEF a
        <5>2. QED
          BY <5>1
      <4>2. Out[i - a] = tokens[i]
        BY <1>3, <4>1
      <4>3. QED
        BY <2>2, <3>2, <4>2
    <3>3. QED
      BY <3>1, <3>2
  <2>5. Len(request.prompt \o Out) = Len(tokens)
    BY <1>1, <2>2
  <2>6. QED
    BY <1>1, <2>2, <2>4, <2>5, SeqEqual
<1>6. Answered <=> Client!Complete
  <2>1. Out # <<>> <=> Emitted > 0
    <3>1. Len(<<>>) = 0
      OBVIOUS
    <3>2. Out # <<>> => Len(Out) \in Nat \ {0}
      BY <1>3, EmptySeq
    <3>3. QED
      BY <1>1, <1>3, <3>1, <3>2
  <2>2. ASSUME Emitted > 0 PROVE Out[Len(Out)] = tokens[Len(tokens)]
    <3>1. Emitted \in 1 .. Emitted /\ (a + 1) + Emitted - 1 = Len(tokens)
      BY <1>1, <2>2
    <3>2. QED
      BY <1>3, <3>1
  <2>3. Client!Complete <=>
          Len(Out) = request.max_new \/ (Out # <<>> /\ Out[Len(Out)] = StopToken)
    BY DEF Client!Complete, Out
  <2>4. QED
    BY <1>3, <2>1, <2>2, <2>3 DEF Answered
<1>7. QED
  BY <1>3, <1>4, <1>5, <1>6

\* A client starts without a request.
LEMMA InitRefines == Init => Client!Init
<1> SUFFICES ASSUME Init PROVE Client!Init
  OBVIOUS
<1>1. request = NoRequest /\ tokens = <<>> /\ outcome = "none"
  BY DEF Init
<1>2. request.prompt = <<>>
  BY <1>1 DEF NoRequest
<1>3. SubSeq(tokens, Len(request.prompt) + 1, Len(tokens)) = <<>>
  <2>1. Len(<<>>) = 0 /\ 1 \in Int /\ 0 \in Int
    OBVIOUS
  <2>2. SubSeq(<<>>, 1, 0) = <<>>
    BY SubSeqEmpty
  <2>3. QED
    BY <1>1, <1>2, <2>1, <2>2
<1>4. QED
  BY <1>1, <1>3 DEF Client!Init, Client!NoRequest, NoRequest

\* A token that is emitted is a choice of the full model.
LEMMA EmitRefines ==
  ASSUME IInv, IInv', pc # "idle", pc' # "idle", ~Answered, NEW t \in Samples(tokens),
         tokens' = Append(tokens, t), request' = request, outcome' = outcome
  PROVE  Client!Emit
<1>1. /\ tokens \in Seq(Token) /\ Len(tokens) \in Nat
      /\ Len(request.prompt) \in Nat /\ Len(request.prompt) <= Len(tokens)
  BY Sizes
<1>2. t \in Token
  BY SamplesType
<1>3. Out' = Append(Out, t)
  <2> DEFINE a == Len(request.prompt)
             w == Append(tokens, t)
  <2>1. /\ w \in Seq(Token) /\ Len(w) = Len(tokens) + 1 /\ w[Len(tokens) + 1] = t
        /\ \A i \in 1 .. Len(tokens) : w[i] = tokens[i]
    BY <1>1, <1>2
  <2> HIDE DEF w
  <2>2. Append(SubSeq(w, a + 1, Len(tokens)), w[Len(tokens) + 1])
          = SubSeq(w, a + 1, Len(tokens) + 1)
    <3>1. Len(tokens) < Len(w) /\ a + 1 \in Nat \ {0} /\ a + 1 <= Len(tokens) + 1
      BY <1>1, <2>1
    <3>2. QED
      BY <1>1, <2>1, <3>1, SegmentAppend
  <2>3. SubSeq(w, a + 1, Len(tokens)) = SubSeq(tokens, a + 1, Len(tokens))
    <3>1. Len(tokens) \in 0 .. Len(w) /\ a + 1 \in Nat \ {0} /\ a + 1 <= Len(tokens) + 1
          /\ Len(tokens) \in 0 .. Len(tokens)
      BY <1>1, <2>1
    <3>2. SubSeq(SubSeq(w, 1, Len(tokens)), a + 1, Len(tokens)) = SubSeq(w, a + 1, Len(tokens))
      BY <2>1, <3>1, SegmentOfPrefix
    <3>3. SubSeq(w, 1, Len(tokens)) = tokens
      BY <1>1, <1>2, <3>1, PrefixOfAppend, SubSeqFull DEF w
    <3>4. QED
      BY <3>2, <3>3
  <2>4. Out' = SubSeq(w, a + 1, Len(tokens) + 1)
    BY <2>1 DEF Out, w
  <2>5. QED
    BY <2>1, <2>2, <2>3, <2>4 DEF Out
<1>4. request # NoRequest /\ request.prompt \o Out = tokens /\ ~Client!Complete
  BY OutFacts
<1>5. t \in Client!Choices(request.kind, request.prompt \o Out)
  <2>1. t \in IF request.kind = "sampled" THEN Token ELSE {Greedy(tokens)}
    BY DEF Samples
  <2>2. QED
    BY <1>4, <2>1 DEF Client!Choices
<1>6. QED
  BY <1>3, <1>4, <1>5 DEF Client!Emit, Client!NoRequest, NoRequest, Out

\* A request that is closed with less than all of its tokens.
LEMMA FailRefines ==
  ASSUME IInv, pc # "idle", Close("failed")
  PROVE  Client!Fail
<1>1. request # NoRequest
  BY OutFacts
<1>2. request' = NoRequest /\ tokens' = <<>> /\ outcome' = "failed"
  BY DEF Close
<1>3. Out' = <<>>
  <2>1. Len(<<>>) = 0 /\ 1 \in Int /\ 0 \in Int /\ request'.prompt = <<>>
    BY <1>2 DEF NoRequest
  <2>2. SubSeq(<<>>, 1, 0) = <<>>
    BY SubSeqEmpty
  <2>3. QED
    BY <1>2, <2>1, <2>2 DEF Out
<1>4. QED
  BY <1>1, <1>2, <1>3 DEF Client!Fail, Client!NoRequest, NoRequest, Out

\* A request that is closed with all of them.
LEMMA FinishRefines ==
  ASSUME IInv, pc # "idle", Answered, Close("finished")
  PROVE  Client!Finish
<1>1. request # NoRequest /\ Client!Complete
  BY OutFacts
<1>2. request' = NoRequest /\ tokens' = <<>> /\ outcome' = "finished"
  BY DEF Close
<1>3. Out' = <<>>
  <2>1. Len(<<>>) = 0 /\ 1 \in Int /\ 0 \in Int /\ request'.prompt = <<>>
    BY <1>2 DEF NoRequest
  <2>2. SubSeq(<<>>, 1, 0) = <<>>
    BY SubSeqEmpty
  <2>3. QED
    BY <1>2, <2>1, <2>2 DEF Out
<1>4. QED
  BY <1>1, <1>2, <1>3 DEF Client!Finish, Client!NoRequest, NoRequest, Out

\* A request begins.
LEMMA BeginRefines ==
  ASSUME IInv, IInv', NEW prompt, NEW max_new, NEW kind, NEW batch,
         StartRequest(prompt, max_new, kind, batch)
  PROVE  Client!Begin
<1>1. /\ pc = "idle" /\ pc' # "idle" /\ outcome' = "none" /\ tokens' = prompt
      /\ request' = [prompt |-> prompt, max_new |-> max_new, kind |-> kind]
  BY DEF StartRequest
<1>2. request = NoRequest /\ RequestInv'
  BY <1>1 DEF IInv, IdleInv
<1>3. request' \in [prompt : Seq(Token) \ {<<>>}, max_new : Nat,
                    kind : {"speculative", "greedy", "sampled"}]
  BY <1>2 DEF RequestInv
<1>4. Out' = <<>>
  <2>1. tokens' = request'.prompt
    BY <1>1
  <2>2. tokens' \in Seq(Token)
    BY <1>2 DEF RequestInv
  <2>3. Len(tokens') + 1 \in Int /\ Len(tokens') \in Int /\ Len(tokens') < Len(tokens') + 1
    BY <2>2
  <2>4. SubSeq(tokens', Len(tokens') + 1, Len(tokens')) = <<>>
    BY <2>3, SubSeqEmpty
  <2>5. QED
    BY <2>1, <2>4 DEF Out
<1>5. QED
  BY <1>1, <1>2, <1>3, <1>4
     DEF Client!Begin, Client!NoRequest, Client!Request, NoRequest, Out

\* A step that emits nothing and ends nothing.
LEMMA HiddenRefines ==
  ASSUME request' = request, tokens' = tokens, outcome' = outcome
  PROVE  UNCHANGED Client!avars
  BY DEF Client!avars

\* Every step of the engine is one the client may see, or none.
LEMMA NextRefines ==
  ASSUME IInv, IInv', [Next]_vars
  PROVE  [Client!Next]_(Client!avars)
<1>1. ASSUME NEW prompt \in Prompts, NEW max_new \in MaxNew, NEW batch \in BOOLEAN,
             NEW kind \in Kinds, StartRequest(prompt, max_new, kind, batch)
      PROVE  Client!Next
  BY <1>1, BeginRefines DEF Client!Next
<1>2. CASE RestoreSession \/ NothingToRestore \/ Prefill \/ ForwardToken \/ Draft
           \/ SpeculativePass \/ StoreSession \/ UNCHANGED vars
  BY <1>2, HiddenRefines DEF RestoreSession, NothingToRestore, Prefill, ForwardToken,
     Draft, SpeculativePass, StoreSession, vars
<1>3. CASE PrefillFails \/ SampleFails \/ ForwardFails \/ PassFails \/ VerifyFails
           \/ EmbeddingFails
  <2>1. pc # "idle" /\ Close("failed")
    BY <1>3 DEF PrefillFails, SampleFails, ForwardFails, PassFails, VerifyFails,
       EmbeddingFails
  <2>2. QED
    BY <2>1, FailRefines DEF Client!Next
<1>4. CASE Finish
  <2>1. pc = "finish"
    BY <1>4 DEF Finish
  <2>2. Answered
    BY <2>1 DEF IInv
  <2>3. Close("finished") \/ Close("failed")
    BY <1>4 DEF Finish
  <2>4. QED
    BY <2>1, <2>2, <2>3, FailRefines, FinishRefines DEF Client!Next
<1>5. CASE Sample
  <2>1. pc = "sample" /\ request' = request /\ outcome' = outcome
    BY <1>5 DEF Sample
  <2>2. PICK t \in Samples(hidden) : tokens' = Append(tokens, t) /\ pc' = AfterToken(t)
    BY <1>5 DEF Sample
  <2>3. hidden = tokens /\ ~Answered
    BY <2>1 DEF IInv, SampleInv
  <2>4. pc' # "idle"
    BY <2>2 DEF AfterToken
  <2>5. QED
    BY <2>1, <2>2, <2>3, <2>4, EmitRefines DEF Client!Next
<1>6. CASE VerifyHit
  <2>1. /\ pc = "verify" /\ request' = request /\ outcome' = outcome
        /\ chain[accepted + 1] \in Samples(hiddens[accepted + 1])
        /\ tokens' = Append(tokens, chain[accepted + 1])
        /\ pc' # "idle"
    BY <1>6 DEF VerifyHit
  <2>2. ~Answered
    BY <2>1 DEF IInv, VerifyInv
  <2>3. hiddens[accepted + 1] = tokens
    BY <2>1, VerifyFacts
  <2>4. QED
    BY <2>1, <2>2, <2>3, EmitRefines DEF Client!Next
<1>7. CASE VerifyMiss
  <2>1. /\ pc = "verify" /\ request' = request /\ outcome' = outcome /\ pc' # "idle"
    BY <1>7 DEF VerifyMiss
  <2>2. PICK t \in Samples(hiddens[accepted + 1]) : tokens' = Append(tokens, t)
    BY <1>7 DEF VerifyMiss
  <2>3. ~Answered
    BY <2>1 DEF IInv, VerifyInv
  <2>4. hiddens[accepted + 1] = tokens
    BY <2>1, VerifyFacts
  <2>5. QED
    BY <2>1, <2>2, <2>3, <2>4, EmitRefines DEF Client!Next
<1>8. QED
  BY <1>1, <1>2, <1>3, <1>4, <1>5, <1>6, <1>7 DEF Next, Serve

(***************************************************************************)
(* The engine implements GreedyDecode: caching, session reuse, drafts,     *)
(* rollbacks and failures of earlier requests never show in what a client  *)
(* is answered (generate_stream).                                          *)
(***************************************************************************)
THEOREM PromiseKept == ~Regenerate => (Spec => Promise)
<1> SUFFICES ASSUME ~Regenerate PROVE Spec => Promise
  OBVIOUS
<1>1. Init => Client!Init
  BY InitRefines
<1>2. IInv /\ IInv' /\ [Next]_vars => [Client!Next]_(Client!avars)
  BY NextRefines
<1>3. Spec => []IInv
  BY Invariance
<1>4. QED
  BY <1>1, <1>2, <1>3, PTL DEF Spec, Promise, Client!Spec

-----------------------------------------------------------------------------
(***************************************************************************)
(* One slot for a conversation.                                            *)
(***************************************************************************)

\* t begins with s.
Leads(s, t) == Len(s) <= Len(t) /\ SubSeq(t, 1, Len(s)) = s

\* No stored conversation is the beginning of another one.
Apart(ss) == \A i, j \in 1 .. Len(ss) : Leads(ss[i].tokens, ss[j].tokens) => i = j

\* The prompt continues every stored conversation it matches.
Continued(ss, prompt) ==
  \A i \in 1 .. Len(ss) : MatchLen(ss[i], prompt) > 0 => Leads(ss[i].tokens, prompt)

LongPrompts == \A p \in FirstPrompts : Len(p) > 1

OneInv ==
  /\ Apart(slots)
  /\ pc \notin {"idle", "finish"} => Len(request.prompt) > 1 /\ Continued(slots, request.prompt)

\* Two beginnings of one list: one of them is the beginning of the other.
LEMMA TwoBeginnings ==
  ASSUME NEW a \in Seq(Token), NEW b \in Seq(Token), NEW p \in Seq(Token), Leads(a, p), Leads(b, p)
  PROVE  Leads(a, b) \/ Leads(b, a)
<1>1. Len(a) \in 0 .. Len(p) /\ Len(b) \in 0 .. Len(p)
  BY DEF Leads
<1>2. CASE Len(a) <= Len(b)
  <2>1. Len(a) \in 0 .. Len(b)
    BY <1>1, <1>2
  <2>2. SubSeq(SubSeq(p, 1, Len(b)), 1, Len(a)) = SubSeq(p, 1, Len(a))
    BY <1>1, <2>1, PrefixOfPrefix
  <2>3. QED
    BY <1>2, <2>2 DEF Leads
<1>3. CASE Len(b) <= Len(a)
  <2>1. Len(b) \in 0 .. Len(a)
    BY <1>1, <1>3
  <2>2. SubSeq(SubSeq(p, 1, Len(a)), 1, Len(b)) = SubSeq(p, 1, Len(b))
    BY <1>1, <2>1, PrefixOfPrefix
  <2>3. QED
    BY <1>3, <2>2 DEF Leads
<1>4. QED
  BY <1>1, <1>2, <1>3

\* The beginnings of a list and of one it begins with.
LEMMA BeginningOf ==
  ASSUME NEW a \in Seq(Token), NEW b \in Seq(Token), Leads(a, b), NEW n \in 0 .. Len(a)
  PROVE  SubSeq(a, 1, n) = SubSeq(b, 1, n)
<1>1. Len(a) \in 0 .. Len(b)
  BY DEF Leads
<1>2. SubSeq(SubSeq(b, 1, Len(a)), 1, n) = SubSeq(b, 1, n)
  BY <1>1, PrefixOfPrefix
<1>3. QED
  BY <1>2 DEF Leads

LEMMA ShapeOfSlot ==
  ASSUME NEW s, SlotExact(s)
  PROVE  /\ s.tokens \in Seq(Token) /\ s.valid \in Nat \ {0} /\ Len(s.tokens) \in Nat
         /\ Len(s.tokens) = s.valid + 1
  BY DEF SlotExact, StoredSlot

\* A stored conversation that begins the new one, or that the new one begins, is the same.
LEMMA BeginningIsSame ==
  ASSUME NEW s, SlotExact(s), NEW t \in Seq(Token), Len(t) > 0,
         Leads(s.tokens, t) \/ Leads(t, s.tokens)
  PROVE  SameConversation(s, t)
<1> DEFINE n == Smaller(Smaller(s.valid, Len(s.tokens)), Len(t))
<1>1. s.tokens \in Seq(Token) /\ s.valid \in Nat \ {0} /\ Len(s.tokens) = s.valid + 1 /\ Len(t) \in Nat
  BY ShapeOfSlot
<1>2. n > 0 /\ n \in 0 .. Len(t) /\ n \in 0 .. Len(s.tokens)
  BY <1>1 DEF Smaller
<1> HIDE DEF n
<1>3. SubSeq(s.tokens, 1, n) = SubSeq(t, 1, n)
  BY <1>1, <1>2, BeginningOf
<1>4. QED
  BY <1>2, <1>3 DEF SameConversation, n

\* What belongs to the conversation of an answer matches its prompt.
LEMMA SameMatches ==
  ASSUME NEW s, SlotExact(s), NEW p \in Seq(Token), NEW t \in Seq(Token), Len(p) > 1,
         Leads(p, t), SameConversation(s, t)
  PROVE  MatchLen(s, p) > 0
<1> DEFINE shared == Smaller(Smaller(s.valid, Len(s.tokens)), Len(t))
           usable == Smaller(Smaller(s.valid, Len(s.tokens)), Len(p) - 1)
<1>1. /\ s.tokens \in Seq(Token) /\ s.valid \in Nat \ {0} /\ Len(s.tokens) = s.valid + 1
      /\ Len(t) \in Nat /\ Len(p) \in Nat /\ Len(p) <= Len(t)
  BY ShapeOfSlot DEF Leads
<1>2. /\ usable \in 0 .. shared /\ usable > 0 /\ usable \in 0 .. Len(p)
      /\ shared \in 0 .. Len(t) /\ shared \in 0 .. Len(s.tokens)
  BY <1>1 DEF Smaller
<1>3. SubSeq(s.tokens, 1, shared) = SubSeq(t, 1, shared)
  BY DEF SameConversation
<1> HIDE DEF shared, usable
<1>4. SubSeq(SubSeq(s.tokens, 1, shared), 1, usable) = SubSeq(s.tokens, 1, usable)
  BY <1>1, <1>2, PrefixOfPrefix
<1>5. SubSeq(SubSeq(t, 1, shared), 1, usable) = SubSeq(t, 1, usable)
  BY <1>2, PrefixOfPrefix
<1>6. SubSeq(p, 1, usable) = SubSeq(t, 1, usable)
  BY <1>2, BeginningOf
<1>7. QED
  BY <1>2, <1>3, <1>4, <1>5, <1>6 DEF MatchLen, usable

\* Of stored conversations that are apart, at most one is that of the answer.
LEMMA OneSame ==
  ASSUME NEW ss, SlotsInv(ss), Apart(ss), NEW p \in Seq(Token), NEW t \in Seq(Token),
         Len(p) > 1, Leads(p, t), Continued(ss, p),
         NEW i \in 1 .. Len(ss), NEW j \in 1 .. Len(ss),
         SameConversation(ss[i], t), SameConversation(ss[j], t)
  PROVE  i = j
<1>1. SlotExact(ss[i]) /\ SlotExact(ss[j])
  BY DEF SlotsInv
<1>2. Leads(ss[i].tokens, p) /\ Leads(ss[j].tokens, p)
  BY <1>1, SameMatches DEF Continued
<1>3. ss[i].tokens \in Seq(Token) /\ ss[j].tokens \in Seq(Token)
  BY <1>1, ShapeOfSlot
<1>4. Leads(ss[i].tokens, ss[j].tokens) \/ Leads(ss[j].tokens, ss[i].tokens)
  BY <1>2, <1>3, TwoBeginnings
<1>5. QED
  BY <1>4 DEF Apart

\* Stamping a slot leaves the conversations as they are.
LEMMA TouchedSame ==
  ASSUME NEW ss, SlotsInv(ss), NEW i
  PROVE  /\ Len(Touched(ss, i)) = Len(ss)
         /\ \A j \in 1 .. Len(ss) : /\ Touched(ss, i)[j].tokens = ss[j].tokens
                                    /\ Touched(ss, i)[j].valid = ss[j].valid
<1> DEFINE used(j) == IF j = i THEN Len(ss)
                      ELSE IF ss[j].last_used > ss[i].last_used THEN ss[j].last_used - 1
                      ELSE ss[j].last_used
           e(j) == [ss[j] EXCEPT !.last_used = used(j)]
           tt == [j \in 1 .. Len(ss) |-> e(j)]
<1>1. ss \in Seq(StoredSlot) /\ DOMAIN ss = 1 .. Len(ss) /\ Len(ss) \in Nat
  BY DEF SlotsInv
<1>2. Touched(ss, i) = tt
  <2>1. ASSUME NEW j \in 1 .. Len(ss)
        PROVE  [ss[j] EXCEPT !.last_used =
                  IF j = i THEN Len(ss)
                  ELSE IF @ > ss[i].last_used THEN @ - 1 ELSE @] = e(j)
    OBVIOUS
  <2> HIDE DEF e
  <2>2. QED
    BY <1>1, <2>1 DEF Touched
<1>3. ASSUME NEW j \in 1 .. Len(ss) PROVE e(j).tokens = ss[j].tokens /\ e(j).valid = ss[j].valid
  <2>1. ss[j] \in StoredSlot
    BY <1>1
  <2> HIDE DEF used
  <2>2. QED
    BY <2>1 DEF StoredSlot
<1> HIDE DEF e
<1>4. Len(tt) = Len(ss) /\ \A j \in 1 .. Len(ss) : tt[j] = e(j)
  BY <1>1
<1> HIDE DEF tt
<1>5. QED
  BY <1>2, <1>3, <1>4

\* Another list with the same conversations.
LEMMA SameSlots ==
  ASSUME NEW ss, NEW tt, Len(tt) = Len(ss),
         \A j \in 1 .. Len(ss) : tt[j].tokens = ss[j].tokens /\ tt[j].valid = ss[j].valid
  PROVE  /\ Apart(ss) => Apart(tt)
         /\ \A p : Continued(ss, p) => Continued(tt, p)
<1>1. Apart(ss) => Apart(tt)
  BY DEF Apart
<1>2. ASSUME NEW p, NEW j \in 1 .. Len(ss) PROVE MatchLen(tt[j], p) = MatchLen(ss[j], p)
  BY DEF MatchLen
<1>3. QED
  BY <1>1, <1>2 DEF Continued

\* A conversation that is no other's, nor of which another is, can be put among them.
LEMMA PutApart ==
  ASSUME NEW ss, SlotsInv(ss), Apart(ss), NEW t \in Seq(Token), Len(t) > 0,
         NEW tt, NEW i \in 1 .. Len(tt), tt[i].tokens = t,
         \A k \in 1 .. Len(tt) : k # i =>
            k \in 1 .. Len(ss) /\ tt[k].tokens = ss[k].tokens /\ ~SameConversation(ss[k], t)
  PROVE  Apart(tt)
<1> SUFFICES ASSUME NEW k \in 1 .. Len(tt), NEW j \in 1 .. Len(tt),
                    Leads(tt[k].tokens, tt[j].tokens), k # j
             PROVE  FALSE
  BY DEF Apart
<1>1. CASE k # i /\ j # i
  BY <1>1 DEF Apart
<1>2. ASSUME NEW m \in 1 .. Len(tt), m # i PROVE ~Leads(tt[m].tokens, t) /\ ~Leads(t, tt[m].tokens)
  <2>1. m \in 1 .. Len(ss) /\ tt[m].tokens = ss[m].tokens /\ ~SameConversation(ss[m], t)
    BY <1>2
  <2>2. SlotExact(ss[m])
    BY <2>1 DEF SlotsInv
  <2>3. QED
    BY <2>1, <2>2, BeginningIsSame
<1>3. QED
  BY <1>1, <1>2

\* Storing a conversation of which at most one slot is.
LEMMA StoredApart ==
  ASSUME NEW ss, SlotsInv(ss), Apart(ss), NEW s, SlotExact(s),
         \A i, j \in 1 .. Len(ss) :
            SameConversation(ss[i], s.tokens) /\ SameConversation(ss[j], s.tokens) => i = j
  PROVE  Apart(Stored(ss, s))
<1> DEFINE t == s.tokens
           same == {i \in DOMAIN ss : SameConversation(ss[i], s.tokens)}
           lru  == CHOOSE i \in DOMAIN ss : ss[i].last_used = 1
           with(i) == [ss EXCEPT ![i] = [s EXCEPT !.last_used = ss[i].last_used]]
           put(i) == Touched(with(i), i)
           best == FirstBest([i \in same |-> ss[i].valid])
           more == Append(ss, [s EXCEPT !.last_used = Len(ss) + 1])
<1>1. /\ ss \in Seq(StoredSlot) /\ Len(ss) \in Nat /\ Len(ss) <= MaxSlots
      /\ DOMAIN ss = 1 .. Len(ss) /\ MaxSlots \in Nat \ {0} /\ MaxLen \in Nat
  BY GenerationAssumption DEF SlotsInv
<1>2. t \in Seq(Token) /\ Len(t) > 0 /\ s \in StoredSlot
  BY ShapeOfSlot DEF SlotExact
<1>3. ASSUME NEW i \in 1 .. Len(ss), \A k \in 1 .. Len(ss) : SameConversation(ss[k], t) => k = i
      PROVE  Apart(put(i))
  <2> DEFINE e == [s EXCEPT !.last_used = ss[i].last_used]
             tt == with(i)
  <2>1. SlotExact(e) /\ e.tokens = t /\ e \in StoredSlot
    <3>1. ss[i].last_used \in 0 .. MaxSlots
      <4>1. ss[i].last_used \in 1 .. Len(ss)
        BY DEF SlotsInv, Stamped
      <4>2. QED
        BY <1>1, <4>1
    <3>2. SlotExact(e)
      BY <3>1, Restamp
    <3>3. QED
      BY <1>2, <3>2 DEF SlotExact, StoredSlot
  <2> HIDE DEF e
  <2>2. Len(tt) = Len(ss) /\ tt[i] = e /\ \A k \in 1 .. Len(ss) : k # i => tt[k] = ss[k]
    BY <1>1 DEF e
  <2>3. tt \in Seq(StoredSlot)
    BY <1>1, <2>1 DEF e
  <2> HIDE DEF with
  <2>4. Apart(tt)
    <3> HIDE DEF t
    <3>1. i \in 1 .. Len(tt) /\ tt[i].tokens = t
      BY <2>1, <2>2
    <3>2. \A k \in 1 .. Len(tt) : k # i =>
            k \in 1 .. Len(ss) /\ tt[k].tokens = ss[k].tokens /\ ~SameConversation(ss[k], t)
      BY <1>3, <2>2
    <3>3. QED
      BY <1>2, <3>1, <3>2, PutApart
  <2>5. SlotsInv(tt)
    <3>1. \A k \in 1 .. Len(tt) : SlotExact(tt[k])
      BY <2>1, <2>2 DEF SlotsInv
    <3>2. \A k \in 1 .. Len(tt) : tt[k].last_used = ss[k].last_used
      <4>1. e.last_used = ss[i].last_used
        BY <1>2 DEF e, StoredSlot
      <4>2. QED
        BY <2>2, <4>1
    <3>3. Stamped(tt)
      BY <2>2, <3>2 DEF SlotsInv, Stamped
    <3>4. QED
      BY <1>1, <2>2, <2>3, <3>1, <3>3 DEF SlotsInv
  <2>6. QED
    BY <2>4, <2>5, TouchedSame, SameSlots
<1>4. ASSUME same # {} PROVE Apart(put(best))
  <2>1. same \subseteq Nat /\ same \subseteq 1 .. Len(ss)
    BY <1>1
  <2>2. ASSUME NEW i \in same PROVE ss[i].valid \in 0 .. MaxLen
    <3>1. SlotExact(ss[i])
      BY <2>1 DEF SlotsInv
    <3>2. QED
      BY <1>1, <3>1 DEF SlotExact, StoredSlot
  <2>3. best \in same
    <3> HIDE DEF same
    <3>1. [i \in same |-> ss[i].valid] \in [same -> 0 .. MaxLen]
      BY <2>2
    <3>2. QED
      BY <1>1, <1>4, <2>1, <3>1, FirstBestIndex
  <2>4. best \in 1 .. Len(ss) /\ SameConversation(ss[best], t)
    <3> HIDE DEF best
    <3>1. QED
      BY <1>1, <2>3
  <2> HIDE DEF best, put
  <2>5. \A k \in 1 .. Len(ss) : SameConversation(ss[k], t) => k = best
    BY <2>4
  <2>6. QED
    BY <1>3, <2>4, <2>5
<1>5. ASSUME same = {}, ~(Len(ss) < MaxSlots) PROVE Apart(put(lru))
  <2>1. lru \in 1 .. Len(ss)
    <3>1. 1 \in 1 .. Len(ss)
      BY <1>1, <1>5
    <3>2. \E i \in DOMAIN ss : ss[i].last_used = 1
      BY <1>1, <3>1 DEF SlotsInv, Stamped
    <3>3. QED
      BY <1>1, <3>2
  <2> HIDE DEF lru, put
  <2>2. \A k \in 1 .. Len(ss) : SameConversation(ss[k], t) => k = lru
    BY <1>1, <1>5
  <2>3. QED
    BY <1>3, <2>1, <2>2
<1>6. ASSUME same = {} PROVE Apart(more)
  <2> DEFINE e == [s EXCEPT !.last_used = Len(ss) + 1]
  <2>1. e.tokens = t
    BY <1>2 DEF StoredSlot
  <2> HIDE DEF e
  <2>2. /\ Len(more) = Len(ss) + 1 /\ more[Len(ss) + 1] = e
        /\ \A k \in 1 .. Len(ss) : more[k] = ss[k]
    BY <1>1 DEF e
  <2> HIDE DEF more, t
  <2>3. Len(ss) + 1 \in 1 .. Len(more) /\ more[Len(ss) + 1].tokens = t
    BY <1>1, <2>1, <2>2
  <2>4. ASSUME NEW k \in 1 .. Len(more), k # Len(ss) + 1
        PROVE  k \in 1 .. Len(ss) /\ more[k].tokens = ss[k].tokens /\ ~SameConversation(ss[k], t)
    <3>1. k \in 1 .. Len(ss)
      BY <1>1, <2>2, <2>4
    <3>2. QED
      BY <1>1, <1>6, <2>2, <3>1 DEF t
  <2>5. QED
    BY <1>2, <2>3, <2>4, PutApart
<1>7. Stored(ss, s) = IF same # {} THEN put(best) ELSE IF Len(ss) < MaxSlots THEN more ELSE put(lru)
  BY DEF Stored
<1> HIDE DEF same, put, best, lru, more
<1>8. QED
  BY <1>4, <1>5, <1>6, <1>7

\* No request is begun with a single token.
LEMMA LongPrompt ==
  ASSUME ~Regenerate, LongPrompts, SlotsInv(slots), NEW p \in Prompts
  PROVE  p \in Seq(Token) /\ Len(p) > 1
<1>1. CASE p \in FirstPrompts
  BY <1>1, GenerationAssumption DEF LongPrompts
<1>2. CASE \E i \in DOMAIN slots, u \in Turns : p = slots[i].tokens \o u
  <2>1. PICK i \in DOMAIN slots, u \in Turns : p = slots[i].tokens \o u
    BY <1>2
  <2>2. SlotExact(slots[i])
    BY <2>1 DEF SlotsInv
  <2>3. slots[i].tokens \in Seq(Token) /\ Len(slots[i].tokens) > 1
    BY <2>2, ShapeOfSlot
  <2>4. u \in Seq(Token)
    BY GenerationAssumption
  <2>5. QED
    BY <2>1, <2>3, <2>4
<1>3. QED
  BY <1>1, <1>2 DEF Prompts

\* Steps that leave the session alone, within a request or out of it.
LEMMA SteadyOne ==
  ASSUME OneInv, slots' = slots,
         pc' = "idle" \/ (request' = request /\ (pc' = pc \/ pc \notin {"idle", "finish"}))
  PROVE  OneInv'
  BY DEF OneInv

LEMMA OneNext ==
  ASSUME ~Regenerate, LongPrompts
  PROVE  IInv /\ OneInv /\ [Next]_vars => OneInv'
<1> SUFFICES ASSUME IInv, OneInv, [Next]_vars PROVE OneInv'
  OBVIOUS
<1>1. SlotsInv(slots)
  BY DEF IInv
<1>2. ASSUME NEW prompt \in Prompts, NEW max_new \in MaxNew, NEW batch \in BOOLEAN,
             NEW kind \in Kinds, StartRequest(prompt, max_new, kind, batch)
      PROVE  OneInv'
  <2>1. /\ Extends(prompt) /\ slots' = slots /\ request'.prompt = prompt
    BY <1>2 DEF StartRequest, session
  <2>2. Len(prompt) > 1 /\ prompt \in Seq(Token)
    BY <1>1, LongPrompt
  <2>3. Continued(slots, prompt)
    <3>1. DOMAIN slots = 1 .. Len(slots)
      BY <1>1 DEF SlotsInv
    <3>2. ASSUME NEW i \in 1 .. Len(slots), MatchLen(slots[i], prompt) > 0
          PROVE  Leads(slots[i].tokens, prompt)
      <4>1. Len(slots[i].tokens) \in Nat /\ Len(prompt) \in Nat
        BY <1>1, <2>2, ShapeOfSlot DEF SlotsInv
      <4>2. QED
        BY <2>1, <3>1, <3>2, <4>1 DEF Extends, Leads
    <3>3. QED
      BY <3>2 DEF Continued
  <2>4. QED
    BY <2>1, <2>2, <2>3 DEF OneInv
<1>3. CASE RestoreSession
  <2>1. PICK i : slots' = Touched(slots, i)
    BY <1>3 DEF RestoreSession
  <2>2. pc = "restore" /\ request' = request
    BY <1>3 DEF RestoreSession
  <2>3. Apart(slots') /\ (Continued(slots, request.prompt) => Continued(slots', request.prompt))
    BY <1>1, <2>1, TouchedSame, SameSlots DEF OneInv
  <2>4. QED
    BY <2>2, <2>3 DEF OneInv
<1>4. CASE StoreSession
  <2>1. /\ pc = "store" /\ pc' = "finish"
        /\ slots' = IF Eligible /\ Len(tokens) >= 2 THEN Stored(slots, NewSlot) ELSE slots
    BY <1>4 DEF StoreSession
  <2>2. Apart(slots) /\ Len(request.prompt) > 1 /\ Continued(slots, request.prompt)
    BY <2>1 DEF OneInv
  <2>3. /\ request.prompt \in Seq(Token) /\ tokens \in Seq(Token)
        /\ Leads(request.prompt, tokens)
    BY <2>1 DEF IInv, RequestInv, Leads
  <2>4. CASE Len(tokens) >= 2
    <3>1. SlotExact(NewSlot) /\ NewSlot.tokens = tokens
      BY <2>1, <2>4, NewSlotExact DEF NewSlot
    <3>2. \A i, j \in 1 .. Len(slots) :
             SameConversation(slots[i], tokens) /\ SameConversation(slots[j], tokens) => i = j
      BY <1>1, <2>2, <2>3, OneSame
    <3>3. Apart(Stored(slots, NewSlot))
      BY <1>1, <2>2, <3>1, <3>2, StoredApart
    <3>4. QED
      BY <2>1, <2>2, <3>3 DEF OneInv
  <2>5. CASE ~(Len(tokens) >= 2)
    BY <2>1, <2>2, <2>5 DEF OneInv
  <2>6. QED
    BY <2>4, <2>5
<1>5. CASE \/ NothingToRestore \/ Prefill \/ Sample \/ ForwardToken \/ Draft
           \/ SpeculativePass \/ VerifyHit \/ VerifyMiss
  <2>1. slots' = slots /\ request' = request /\ pc \notin {"idle", "finish"}
    BY <1>5 DEF NothingToRestore, Prefill, Sample, ForwardToken, Draft, SpeculativePass,
                VerifyHit, VerifyMiss, session
  <2>2. QED
    BY <2>1, SteadyOne
<1>6. CASE \/ PrefillFails \/ SampleFails \/ ForwardFails \/ PassFails \/ VerifyFails
           \/ EmbeddingFails \/ Finish
  <2>1. slots' = slots /\ pc' = "idle"
    BY <1>6 DEF PrefillFails, SampleFails, ForwardFails, PassFails, VerifyFails,
                EmbeddingFails, Finish, Close, session
  <2>2. QED
    BY <2>1, SteadyOne
<1>7. CASE UNCHANGED vars
  BY <1>7, SteadyOne DEF vars
<1>8. QED
  BY <1>2, <1>3, <1>4, <1>5, <1>6, <1>7 DEF Next, Serve

(***************************************************************************)
(* If no conversation is opened with a single token (the chat templates    *)
(* frame every message), clients that only extend their conversations have *)
(* one slot for each: the store replaces the slot a conversation came from *)
(* (select_store_slot).                                                    *)
(***************************************************************************)
THEOREM OneSlotAlways == ~Regenerate /\ LongPrompts => (Spec => []OneSlotPerConversation)
<1> SUFFICES ASSUME ~Regenerate, LongPrompts PROVE Spec => []OneSlotPerConversation
  OBVIOUS
<1>1. Init => OneInv
  BY DEF Init, OneInv, Apart
<1>2. IInv /\ OneInv /\ [Next]_vars => OneInv'
  BY OneNext
<1>3. IInv /\ OneInv => OneSlotPerConversation
  <2> SUFFICES ASSUME IInv, OneInv, pc = "store"
               PROVE  Cardinality({i \in DOMAIN slots : SameConversation(slots[i], tokens)}) <= 1
    BY DEF OneSlotPerConversation
  <2> DEFINE same == {i \in DOMAIN slots : SameConversation(slots[i], tokens)}
  <2>1. SlotsInv(slots) /\ DOMAIN slots = 1 .. Len(slots)
    BY DEF IInv, SlotsInv
  <2>2. Apart(slots) /\ Len(request.prompt) > 1 /\ Continued(slots, request.prompt)
    BY DEF OneInv
  <2>3. /\ request.prompt \in Seq(Token) /\ tokens \in Seq(Token)
        /\ Leads(request.prompt, tokens)
    BY DEF IInv, RequestInv, Leads
  <2>4. ASSUME NEW i \in same, NEW j \in same PROVE i = j
    BY <2>1, <2>2, <2>3, OneSame
  <2>5. same = {} \/ \E i \in same : same = {i}
    <3> HIDE DEF same
    <3>1. QED
      BY <2>4
  <2> HIDE DEF same
  <2>6. Cardinality(same) \in {0, 1}
    <3>1. CASE same = {}
      BY <3>1, FS_EmptySet
    <3>2. CASE \E i \in same : same = {i}
      BY <3>2, FS_Singleton
    <3>3. QED
      BY <2>5, <3>1, <3>2
  <2>7. QED
    BY <2>6 DEF same
<1>4. QED
  BY <1>1, <1>2, <1>3, Invariance, PTL DEF Spec
=============================================================================
