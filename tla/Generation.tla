------------------------------ MODULE Generation ------------------------------
(***************************************************************************)
(* The generation runtime (server/generation.rs: generate_stream,          *)
(* run_decode_speculative, run_positions_batch, the session store) over    *)
(* the process-global compressor of compute.rs.  The server handles one    *)
(* connection at a time, so requests do not interleave; what survives from *)
(* one request to the next is the session store and the compressor, in     *)
(* whatever state the last request - finished or aborted - left it.        *)
(*                                                                         *)
(* A KV row and a hidden state are represented by the token context they   *)
(* were computed from: the prefix of the conversation up to their          *)
(* position, or Stale when some input of the computation did not belong to *)
(* that prefix.                                                            *)
(***************************************************************************)
EXTENDS CompressorState, FiniteSets

CONSTANTS
  Token, StopToken,   \* the vocabulary and the token that ends an answer
  Greedy(_),          \* Greedy(ctx): the token the full model picks after ctx
  KvSlots,            \* positions of the shared KV layout (ZC_KV_SLOTS)
  MaxSlots,           \* conversations kept (ZC_SESSION_SLOTS)
  ChainLen,           \* tokens drafted per pass (ZC_MTP_DRAFT_LEN)
  FirstPrompts,       \* prompts that open a conversation
  Turns,              \* what a client appends to a conversation
  MaxNew,             \* values of max_new_tokens
  Kinds,              \* how requests decode
  MaxLen,             \* bound on prompt + max_new_tokens, for TLC
  Regenerate          \* clients also resend a shortened conversation

\* What a position feeds to a layer is determined by its token context, so an
\* Input is such a context.
ASSUME GenerationAssumption ==
  /\ Layer \subseteq Nat
  /\ \A n \in 0 .. MaxLen : [1 .. n -> Token] \subseteq Input
  /\ StopToken \in Token
  /\ \A n \in 1 .. MaxLen : \A ctx \in [1 .. n -> Token] : Greedy(ctx) \in Token
  /\ {KvSlots, MaxSlots, ChainLen, MaxLen} \subseteq Nat \ {0}
  /\ FirstPrompts \subseteq Seq(Token) \ {<<>>}
  /\ Turns \subseteq Seq(Token) \ {<<>>}
  /\ MaxNew \subseteq Nat
  /\ Kinds \subseteq {"speculative", "greedy", "sampled"}
  /\ Regenerate \in BOOLEAN

VARIABLES
  slots,      \* the session store: a sequence of stored conversations
  comp,       \* the global compressor: layer -> LayerState
  spec_min,   \* deepseek_compressor_spec_min
  pc,         \* where generate_stream is
  request,    \* the request being served
  batched,    \* whether its prefill runs layer-major (ZC_BATCH_PREFILL)
  tokens,     \* prompt and emitted tokens
  done,       \* prompt positions already prefilled or restored
  kv,         \* the request's KV cache, one row per position
  hidden,     \* hidden_states: what the next token is sampled from
  chain,      \* the drafts of the pass, or the pending drafts
  hiddens,    \* batch_hiddens of the pass
  accepted,   \* drafts verified so far in this pass
  outcome     \* how the last request ended

session == <<slots, comp, spec_min>>
vars == <<slots, comp, spec_min, pc, request, batched, tokens, done, kv,
          hidden, chain, hiddens, accepted, outcome>>

Stale == <<>>
NoRow == <<>>
NoRequest == [prompt |-> <<>>, max_new |-> 0, kind |-> "none"]

Emitted == Len(tokens) - Len(request.prompt)

-----------------------------------------------------------------------------
(***************************************************************************)
(* The forward pass.                                                       *)
(***************************************************************************)

\* The context of token t at position p: exact when the rows below it are.
Context(rows, p, t) ==
  LET below == IF p = 0 THEN <<>> ELSE rows[p]
  IN  IF Len(below) = p /\ \A q \in 1 .. p : rows[q] = SubSeq(below, 1, q)
      THEN Append(below, t)
      ELSE Stale

\* What the compressor is fed along a context: one input per position.
Contexts(ctx) == [i \in 1 .. Len(ctx) |-> SubSeq(ctx, 1, i)]

\* Attention at position p sees exactly the blocks of its own context.
SeesOwnBlocks(l, s, p, ctx) ==
  VisibleBlocks(l, s, p) = VisibleBlocks(l, Ideal(l, Contexts(ctx)), p)

\* One position through every layer; m carries compressor, KV and outputs.
Forward(m, p, t, min) ==
  LET x == Context(m.kv, p, t)
      c == [l \in Layer |-> FeedLayer(l, m.comp[l], p, x, min)]
      h == IF x # Stale /\ \A l \in Layer : SeesOwnBlocks(l, c[l], p, x)
           THEN x ELSE Stale
  IN  [comp |-> c, kv |-> [m.kv EXCEPT ![p + 1] = h], out |-> Append(m.out, h)]

\* The positions from .. from + Len(toks) - 1 in order: what the first n of
\* them leave, and what all of them leave.
RunStates(toks, from, min) ==
  LET after[n \in 0 .. Len(toks)] ==
        IF n = 0 THEN [comp |-> comp, kv |-> kv, out |-> <<>>]
        ELSE Forward(after[n - 1], from + n - 1, toks[n], min)
  IN  after

Run(toks, from, min) == RunStates(toks, from, min)[Len(toks)]

\* A layer is fed all positions of a pass before its experts are read, so a
\* pass that fails on I/O has fed some of the lowest layers, wholly.
LayersReached == {D \in SUBSET Layer : \A l, m \in Layer : l < m /\ m \in D => l \in D}

PartialComp(toks, from, min, D) ==
  LET m == Run(toks, from, min)
  IN  [l \in Layer |-> IF l \in D THEN m.comp[l] ELSE comp[l]]

-----------------------------------------------------------------------------
(***************************************************************************)
(* The session store.  The LRU stamps are renumbered 1 .. Len(slots): only *)
(* their order is ever compared.                                           *)
(***************************************************************************)
MatchLen(s, prompt) ==
  LET usable == Smaller(Smaller(s.valid, Len(s.tokens)), Len(prompt) - 1)
  IN  IF SubSeq(prompt, 1, usable) = SubSeq(s.tokens, 1, usable)
      THEN usable ELSE 0

SameConversation(s, new) ==
  LET shared == Smaller(Smaller(s.valid, Len(s.tokens)), Len(new))
  IN  shared > 0 /\ SubSeq(s.tokens, 1, shared) = SubSeq(new, 1, shared)

\* The first index of the greatest score.
FirstBest(score) ==
  CHOOSE i \in DOMAIN score : \A j \in DOMAIN score \ {i} :
    score[j] < score[i] \/ (score[j] = score[i] /\ i < j)

\* Stamp slot i with the current clock.
Touched(ss, i) ==
  [j \in DOMAIN ss |->
     [ss[j] EXCEPT !.last_used =
        IF j = i THEN Len(ss)
        ELSE IF @ > ss[i].last_used THEN @ - 1 ELSE @]]

StoredInAnyCase(ss, s) ==   \* mutant: one slot too many
  IF Len(ss) <= MaxSlots THEN Append(ss, [s EXCEPT !.last_used = Len(ss) + 1]) ELSE ss

StoredInOldest(ss, s) ==   \* mutant: the slot of the same conversation is not replaced
  LET lru == CHOOSE i \in DOMAIN ss : ss[i].last_used = 1
  IN  IF Len(ss) < MaxSlots THEN Append(ss, [s EXCEPT !.last_used = Len(ss) + 1])
      ELSE Touched([ss EXCEPT ![lru] = [s EXCEPT !.last_used = ss[lru].last_used]], lru)

\* select_store_slot and the store itself.
Stored(ss, s) ==
  LET same == {i \in DOMAIN ss : SameConversation(ss[i], s.tokens)}
      lru  == CHOOSE i \in DOMAIN ss : ss[i].last_used = 1
      put(i) == Touched([ss EXCEPT ![i] = [s EXCEPT !.last_used = ss[i].last_used]], i)
  IN  IF same # {} THEN put(FirstBest([i \in same |-> ss[i].valid]))
      ELSE IF Len(ss) < MaxSlots THEN Append(ss, [s EXCEPT !.last_used = Len(ss) + 1])
      ELSE put(lru)

Eligible == Len(request.prompt) + request.max_new <= KvSlots

-----------------------------------------------------------------------------
(***************************************************************************)
(* Requests.                                                               *)
(***************************************************************************)
Init ==
  /\ slots = <<>>
  /\ comp = [l \in Layer |-> EmptyState]
  /\ spec_min = None
  /\ pc = "idle"
  /\ request = NoRequest
  /\ batched = FALSE
  /\ tokens = <<>>
  /\ done = 0
  /\ kv = [p \in 1 .. MaxLen |-> NoRow]
  /\ hidden = Stale
  /\ chain = <<>>
  /\ hiddens = <<>>
  /\ accepted = 0
  /\ outcome = "none"

\* The locals of a request vanish with it.
Close(how) ==
  /\ pc' = "idle"
  /\ request' = NoRequest
  /\ batched' = FALSE
  /\ tokens' = <<>>
  /\ done' = 0
  /\ kv' = [p \in 1 .. MaxLen |-> NoRow]
  /\ hidden' = Stale
  /\ chain' = <<>>
  /\ hiddens' = <<>>
  /\ accepted' = 0
  /\ outcome' = how

\* A client that only extends a conversation resends all of it.
Extends(prompt) ==
  \A i \in DOMAIN slots :
    MatchLen(slots[i], prompt) > 0 =>
      /\ Len(slots[i].tokens) < Len(prompt)
      /\ SubSeq(prompt, 1, Len(slots[i].tokens)) = slots[i].tokens

Prompts ==
  FirstPrompts
    \cup {slots[i].tokens \o u : i \in DOMAIN slots, u \in Turns}
    \cup IF Regenerate
         THEN UNION {{SubSeq(slots[i].tokens, 1, n) : n \in 1 .. Len(slots[i].tokens)} :
                       i \in DOMAIN slots}
         ELSE {}

StartRequest(prompt, max_new, kind, batch) ==
  /\ pc = "idle"
  /\ Len(prompt) + max_new <= MaxLen
  /\ Regenerate \/ Extends(prompt)
  /\ batch => Len(prompt) > 1
  /\ pc' = IF batch THEN "restore" ELSE "prefill"
  /\ request' = [prompt |-> prompt, max_new |-> max_new, kind |-> kind]
  /\ batched' = batch
  /\ tokens' = prompt
  /\ outcome' = "none"
  /\ UNCHANGED <<session, done, kv, hidden, chain, hiddens, accepted>>

-----------------------------------------------------------------------------
(***************************************************************************)
(* Prefill.                                                                *)
(***************************************************************************)
Restorable == {i \in DOMAIN slots : Eligible /\ MatchLen(slots[i], tokens) > 0}

RestoreSession ==
  /\ pc = "restore"
  /\ Restorable # {}
  /\ LET i == FirstBest([j \in Restorable |-> MatchLen(slots[j], tokens)])
     IN  /\ kv' = slots[i].kv
         /\ comp' = [l \in Layer |-> FromCore(slots[i].comp[l])]
         /\ done' = MatchLen(slots[i], tokens)
         /\ slots' = Touched(slots, i)
  /\ pc' = "prefill"
  /\ UNCHANGED <<spec_min, request, batched, tokens, hidden, chain, hiddens,
                 accepted, outcome>>

NothingToRestore ==
  /\ pc = "restore"
  /\ Restorable = {}
  /\ pc' = "prefill"
  /\ UNCHANGED <<session, request, batched, tokens, done, kv, hidden, chain,
                 hiddens, accepted, outcome>>

\* The positions the next prefill pass runs: all that are left, or one.
PrefillItems ==
  SubSeq(tokens, done + 1, IF batched THEN Len(tokens) ELSE done + 1)

AfterPrefill ==
  IF request.max_new > 0 THEN "sample"
  ELSE IF request.kind = "speculative" THEN "finish" ELSE "store"

Prefill ==
  /\ pc = "prefill"
  /\ LET m == Run(PrefillItems, done, spec_min)
         upto == done + Len(PrefillItems)
     IN  /\ comp' = m.comp
         /\ kv' = m.kv
         /\ hidden' = m.out[Len(m.out)]
         /\ done' = upto
         /\ pc' = IF upto = Len(tokens) THEN AfterPrefill ELSE "prefill"
  /\ UNCHANGED <<slots, spec_min, request, batched, tokens, chain, hiddens,
                 accepted, outcome>>

PrefillFails ==
  /\ pc = "prefill"
  /\ \E D \in LayersReached :
       comp' = PartialComp(PrefillItems, done, spec_min, D)
  /\ Close("failed")
  /\ UNCHANGED <<slots, spec_min>>

-----------------------------------------------------------------------------
(***************************************************************************)
(* Decoding.  Sampling from a hidden state that is not that of the tokens  *)
(* so far can yield anything.                                              *)
(***************************************************************************)
Samples(h) ==
  IF request.kind = "sampled" \/ h # tokens THEN Token ELSE {Greedy(tokens)}

AfterAnyToken(t) ==   \* mutant: the stop token is not looked at
  IF Emitted + 1 = request.max_new THEN "store"
  ELSE IF request.kind = "speculative" THEN "draft" ELSE "forward"

\* Where the loop goes once the token t was emitted outside of a pass.
AfterToken(t) ==
  IF t = StopToken \/ Emitted + 1 = request.max_new THEN "store"
  ELSE IF request.kind = "speculative" THEN "draft" ELSE "forward"

\* The first token, the token after a sequential forward, the bonus token.
Sample ==
  /\ pc = "sample"
  /\ \E t \in Samples(hidden) :
       /\ tokens' = Append(tokens, t)
       /\ pc' = AfterToken(t)
  /\ UNCHANGED <<session, request, batched, done, kv, hidden, chain, hiddens,
                 accepted, outcome>>

\* The client is gone: the Token event cannot be written.
SampleFails ==
  /\ pc = "sample"
  /\ Close("failed")
  /\ UNCHANGED session

\* The last token at its own position.
ForwardToken ==
  /\ pc = "forward"
  /\ LET m == Run(<<tokens[Len(tokens)]>>, Len(tokens) - 1, spec_min)
     IN  comp' = m.comp /\ kv' = m.kv /\ hidden' = m.out[1]
  /\ pc' = "sample"
  /\ UNCHANGED <<slots, spec_min, request, batched, tokens, done, chain,
                 hiddens, accepted, outcome>>

ForwardFails ==
  /\ pc = "forward"
  /\ \E D \in LayersReached :
       comp' = PartialComp(<<tokens[Len(tokens)]>>, Len(tokens) - 1, spec_min, D)
  /\ Close("failed")
  /\ UNCHANGED <<slots, spec_min>>

-----------------------------------------------------------------------------
(***************************************************************************)
(* Speculative decoding.  The MTP module drafts; what it drafts is its own *)
(* business, and it may fail at any depth.                                 *)
(***************************************************************************)
VerifiableToTheEnd(drafts) ==   \* mutant: no room for the bonus token
  SubSeq(drafts, 1, Smaller(Len(drafts), request.max_new - Emitted))

\* Draft positions worth verifying leave room for the bonus token.
Verifiable(drafts) ==
  SubSeq(drafts, 1, Smaller(Len(drafts), request.max_new - Emitted - 1))

\* Without a draft worth verifying the token goes through the sequential path.
Draft ==
  /\ pc = "draft"
  /\ \E n \in 0 .. ChainLen : \E drafts \in [1 .. n -> Token] :
       /\ chain' = Verifiable(drafts)
       /\ pc' = IF Verifiable(drafts) = <<>> THEN "forward" ELSE "pass"
  /\ UNCHANGED <<session, request, batched, tokens, done, kv, hidden, hiddens,
                 accepted, outcome>>

\* Position of the pending token: the last token when the pass starts.
PendingPos == Len(tokens) - 1 - accepted

PassItems == <<tokens[Len(tokens)]>> \o chain

SpeculativePass ==
  /\ pc = "pass"
  /\ LET m == Run(PassItems, PendingPos, PendingPos + 1)
     IN  comp' = m.comp /\ kv' = m.kv /\ hiddens' = m.out
  /\ spec_min' = PendingPos + 1
  /\ pc' = "verify"
  /\ UNCHANGED <<slots, request, batched, tokens, done, hidden, chain,
                 accepted, outcome>>

RolledBackPast(c, from) ==   \* mutant: one rejected position is kept
  [l \in Layer |-> RollbackLayer(c[l], from + 1)]

RolledBack(c, from) == [l \in Layer |-> RollbackLayer(c[l], from)]
Committed == [l \in Layer |-> CommitLayer(comp[l])]

PassFails ==
  /\ pc = "pass"
  /\ \E D \in LayersReached :
       comp' = RolledBack(PartialComp(PassItems, PendingPos, PendingPos + 1, D),
                          PendingPos + 1)
  /\ Close("failed")
  /\ UNCHANGED <<slots, spec_min>>

ResolveAll(a) ==   \* mutant: a rejected chain is committed
  /\ comp' = Committed
  /\ spec_min' = None
  /\ chain' = <<>>
  /\ hiddens' = <<>>
  /\ accepted' = 0

\* Closing the pass after a accepted drafts.
Resolve(a) ==
  /\ comp' = IF a = Len(chain) THEN Committed
             ELSE RolledBack(comp, PendingPos + 1 + a)
  /\ spec_min' = None
  /\ chain' = <<>>
  /\ hiddens' = <<>>
  /\ accepted' = 0

\* The token emitted at this depth is the draft: it stays valid.
VerifyHit ==
  /\ pc = "verify"
  /\ LET draft == chain[accepted + 1]
         a == accepted + 1
     IN  /\ draft \in Samples(hiddens[accepted + 1])
         /\ tokens' = Append(tokens, draft)
         /\ IF draft # StopToken /\ a < Len(chain)
            THEN /\ accepted' = a
                 /\ UNCHANGED <<comp, spec_min, pc, hidden, chain, hiddens>>
            ELSE /\ Resolve(a)
                 /\ IF draft = StopToken
                    THEN pc' = "store" /\ UNCHANGED hidden
                    ELSE /\ hidden' = hiddens[Len(hiddens)]
                         /\ pc' = IF Emitted + 1 < request.max_new
                                  THEN "sample" ELSE "store"
  /\ UNCHANGED <<slots, request, batched, done, kv, outcome>>

VerifyMissDropped ==   \* mutant: the verified token is dropped with the chain
  /\ pc = "verify"
  /\ Samples(hiddens[accepted + 1]) # {chain[accepted + 1]}
  /\ Resolve(accepted)
  /\ pc' = "draft"
  /\ UNCHANGED <<slots, request, batched, tokens, done, kv, hidden, outcome>>

\* It is another token: the rest of the chain is rejected.
VerifyMiss ==
  /\ pc = "verify"
  /\ \E t \in Samples(hiddens[accepted + 1]) \ {chain[accepted + 1]} :
       /\ tokens' = Append(tokens, t)
       /\ Resolve(accepted)
       /\ IF t = StopToken
          THEN pc' = "store" /\ UNCHANGED hidden
          ELSE /\ hidden' = hiddens[accepted + 1]
               /\ pc' = IF Emitted + 1 < request.max_new THEN "draft" ELSE "store"
  /\ UNCHANGED <<slots, request, batched, done, kv, outcome>>

VerifyFails ==
  /\ pc = "verify"
  /\ comp' = RolledBack(comp, PendingPos + 1 + accepted)
  /\ spec_min' = None
  /\ Close("failed")
  /\ UNCHANGED slots

-----------------------------------------------------------------------------
(***************************************************************************)
(* The end of a request.                                                   *)
(***************************************************************************)
NewSlotOfAll ==   \* mutant: the newest token has no row yet
  [tokens |-> tokens, valid |-> Len(tokens), kv |-> kv,
   comp |-> [l \in Layer |-> Core(comp[l])], last_used |-> 0]

\* The newest token was emitted but not run: its row is not valid.
NewSlot ==
  [tokens |-> tokens, valid |-> Len(tokens) - 1, kv |-> kv,
   comp |-> [l \in Layer |-> Core(comp[l])], last_used |-> 0]

StoreSession ==
  /\ pc = "store"
  /\ slots' = IF Eligible /\ Len(tokens) >= 2
              THEN Stored(slots, NewSlot)
              ELSE slots
  /\ pc' = "finish"
  /\ UNCHANGED <<comp, spec_min, request, batched, tokens, done, kv, hidden,
                 chain, hiddens, accepted, outcome>>

\* The sequential loop looks up the embedding of the last token as well.
EmbeddingFails ==
  /\ pc = "store"
  /\ request.kind # "speculative"
  /\ Emitted > 0 /\ tokens[Len(tokens)] # StopToken
  /\ Close("failed")
  /\ UNCHANGED session

Finish ==
  /\ pc = "finish"
  /\ \E how \in {"finished", "failed"} : Close(how)
  /\ UNCHANGED session

Serve ==
  \/ RestoreSession \/ NothingToRestore
  \/ Prefill \/ PrefillFails
  \/ Sample \/ SampleFails
  \/ ForwardToken \/ ForwardFails
  \/ Draft \/ SpeculativePass \/ PassFails
  \/ VerifyHit \/ VerifyMiss \/ VerifyFails
  \/ StoreSession \/ EmbeddingFails \/ Finish

Next ==
  \/ \E prompt \in Prompts, max_new \in MaxNew, batch \in BOOLEAN :
       \E kind \in Kinds : StartRequest(prompt, max_new, kind, batch)
  \/ Serve

\* Weak fairness of Serve, written out: the thread that serves a request
\* keeps taking steps.  <<Serve>>_vars is enabled exactly when pc # "idle",
\* every step of a request changing the state (TLC would evaluate ENABLED of
\* the forward pass at every state).
Fairness == []<>(pc = "idle") \/ []<><<Serve>>_vars

Spec == Init /\ [][Next]_vars /\ Fairness

-----------------------------------------------------------------------------
(***************************************************************************)
(* Types.                                                                  *)
(***************************************************************************)
Row == Seq(Token)

Slot == [tokens : Seq(Token), valid : Nat, kv : [1 .. MaxLen -> Row],
         comp : [Layer -> CoreState], last_used : 1 .. MaxSlots]

TypeOK ==
  /\ slots \in Seq(Slot) /\ Len(slots) <= MaxSlots
  /\ comp \in [Layer -> LayerState]
  /\ spec_min \in Nat \cup {None}
  /\ pc \in {"idle", "restore", "prefill", "sample", "forward", "draft",
             "pass", "verify", "store", "finish"}
  /\ request.prompt \in Seq(Token)
  /\ batched \in BOOLEAN
  /\ tokens \in Seq(Token)
  /\ done \in 0 .. Len(request.prompt)
  /\ kv \in [1 .. MaxLen -> Row]
  /\ hidden \in Row
  /\ chain \in Seq(Token) /\ Len(chain) <= ChainLen
  /\ hiddens \in Seq(Row)
  /\ accepted \in 0 .. Len(chain)
  /\ outcome \in {"none", "finished", "failed"}

-----------------------------------------------------------------------------
(***************************************************************************)
(* Every token is sampled from a hidden state computed from exactly the    *)
(* tokens before it: the KV rows and compressor blocks behind it belong to *)
(* this conversation, whether they were prefilled, restored from a         *)
(* session, left by an accepted draft or rebuilt after a rejected one.     *)
(* For a pass under verification this covers every depth still reachable.  *)
(***************************************************************************)
HiddenExact ==
  /\ pc = "sample" => hidden = tokens
  /\ pc = "verify" =>
       \A k \in 0 .. Len(chain) - accepted :
         hiddens[accepted + 1 + k] = tokens \o SubSeq(chain, accepted + 1, accepted + k)

(***************************************************************************)
(* Between passes the compressor of every layer reflects the tokens of the *)
(* request: all of them before sampling, all but the newest before a       *)
(* forward pass.  A rollback that keeps too much, a session restored       *)
(* without its compressor or a position fed twice breaks it long before a  *)
(* block of 128 positions shows in the output.                             *)
(***************************************************************************)
Reflects(core, l, toks) ==
  core = Ideal(l, Contexts(toks))

CompressorAgrees ==
  \A l \in Layer :
    /\ pc = "sample" => Reflects(Core(comp[l]), l, tokens)
    /\ pc \in {"forward", "draft", "pass"} =>
         Reflects(Core(comp[l]), l, SubSeq(tokens, 1, Len(tokens) - 1))

(***************************************************************************)
(* "The number of leading positions whose KV (and compressor state) is     *)
(* already valid" (try_restore_session): whatever ended the request that   *)
(* stored it, a slot's rows are those of its tokens up to valid_positions, *)
(* and its compressor has been fed those positions - and at most the one   *)
(* after them - of that same conversation.                                 *)
(***************************************************************************)
SlotSound ==
  \A i \in DOMAIN slots :
    LET s == slots[i]
    IN  /\ \A p \in 1 .. s.valid : s.kv[p] = SubSeq(s.tokens, 1, p)
        /\ \E n \in {s.valid, s.valid + 1} :
             \A l \in Layer : Reflects(s.comp[l], l, SubSeq(s.tokens, 1, n))

(***************************************************************************)
(* "Longest stored prefix wins if several match (defensive: the replace    *)
(* policy itself keeps one slot per conversation)" (select_store_slot): at *)
(* most one stored slot belongs to the conversation of a finished request. *)
(***************************************************************************)
OneSlotPerConversation ==
  pc = "store" =>
    Cardinality({i \in DOMAIN slots : SameConversation(slots[i], tokens)}) <= 1

(***************************************************************************)
(* A speculative pass never writes a KV row beyond the positions the       *)
(* request was admitted for: accepted drafts and the bonus token fit into  *)
(* max_new_tokens.                                                         *)
(***************************************************************************)
PassInKv ==
  pc \in {"pass", "verify"} =>
    PendingPos + Len(chain) + 1 < Len(request.prompt) + request.max_new

(***************************************************************************)
(* The client's view: whatever the cache, the drafts and earlier requests  *)
(* did, a request yields the continuation of its own prompt and finishes   *)
(* only when that is complete.                                             *)
(***************************************************************************)
Client == INSTANCE GreedyDecode
            WITH out <- SubSeq(tokens, Len(request.prompt) + 1, Len(tokens))

Promise == Client!Spec

(***************************************************************************)
(* Every request ends: the server thread keeps running its one request     *)
(* (waits for reads are bounded; its client reads the events or goes away) *)
(* and the decode loop makes progress even when every draft is rejected.   *)
(***************************************************************************)
RequestEnds == pc # "idle" ~> pc = "idle"
=============================================================================
