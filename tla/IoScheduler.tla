----------------------------- MODULE IoScheduler -----------------------------
(***************************************************************************)
(* The expert I/O path below a forward pass: DirectIoRuntime               *)
(* (direct_io.rs) with its fixed buffers and its io_uring, and             *)
(* MoEIoScheduler (scheduler.rs) with its pending and ready queues.  The   *)
(* kernel completes ring reads at any time and in any order; everything    *)
(* else happens on the one thread that runs the pass.                      *)
(*                                                                         *)
(* Dense blocks are read through the ring.  Experts are read through the   *)
(* ring from the model core, or, when they live in an experts pack or in   *)
(* sidecar shards, synchronously inside submit_pending_until_full.         *)
(*                                                                         *)
(* The queues of completed reads are sets: the pass always empties them    *)
(* and sorts the blocks by layer, so that their order does not show.  A    *)
(* ticket is its request and its buffer; its number is left out, and the   *)
(* number check of poll_completions with it (one ticket per buffer,        *)
(* OneOwner, is what makes that check pass).                               *)
(***************************************************************************)
EXTENDS Integers, Sequences

CONSTANTS
  Buffer,        \* the fixed I/O buffers
  Layer,         \* the layers of the pass
  Expert,        \* the experts of a layer
  NoExpert,      \* the expert id of a dense block (u32::MAX)
  RingExperts    \* whether experts are read through the ring

VARIABLES
  buf,       \* state of each buffer
  pending,   \* read requests not submitted yet
  ring,      \* tickets of the reads in flight
  cq,        \* the ring's completion queue
  ready,     \* blocks loaded or reaped and not yet popped
  held       \* blocks the pass has popped and not released

ioVars == <<buf, pending, ring, cq, ready>>

Dense(l) == [kind |-> "dense", layer |-> l, expert |-> NoExpert]
ExpertOf(l, e) == [kind |-> "expert", layer |-> l, expert |-> e]

Request == [kind : {"dense", "expert"}, layer : Layer, expert : Expert \cup {NoExpert}]

Ticket == [req : Request, buf : Buffer]

\* A ReadyBlock; whole means that its result is the number of bytes asked for.
Block == [req : Request, buf : Buffer, whole : BOOLEAN]

TypeOK ==
  /\ buf \in [Buffer -> {"free", "in_flight", "ready"}]
  /\ pending \in Seq(Request)
  /\ ring \subseteq Ticket
  /\ cq \subseteq Block
  /\ ready \subseteq Block
  /\ held \subseteq Block

Init ==
  /\ buf = [b \in Buffer |-> "free"]
  /\ pending = <<>>
  /\ ring = {}
  /\ cq = {}
  /\ ready = {}
  /\ held = {}

-----------------------------------------------------------------------------
(***************************************************************************)
(* The operations.                                                         *)
(***************************************************************************)
Free == {b \in Buffer : buf[b] = "free"}

ThroughRing(r) == r.kind = "dense" \/ RingExperts

Without(s, i) == SubSeq(s, 1, i - 1) \o SubSeq(s, i + 1, Len(s))

Enqueue(reqs) ==
  /\ pending' = pending \o reqs
  /\ UNCHANGED <<buf, ring, cq, ready>>

\* submit_pending_until_full, one request at a time: ring requests in their
\* order until a buffer is missing, ...
SubmitRing(b) ==
  /\ buf[b] = "free"
  /\ \E i \in DOMAIN pending :
       /\ ThroughRing(pending[i])
       /\ \A j \in 1 .. i - 1 : ~ThroughRing(pending[j])
       /\ pending' = Without(pending, i)
       /\ ring' = ring \cup {[req |-> pending[i], buf |-> b]}
  /\ buf' = [buf EXCEPT ![b] = "in_flight"]
  /\ UNCHANGED <<cq, ready>>

LoadSyncUnmarked(b) ==   \* mutant: the buffer of a loaded expert still counts as free
  /\ buf[b] = "free"
  /\ pending # <<>>
  /\ \A i \in DOMAIN pending : ~ThroughRing(pending[i])
  /\ pending' = Tail(pending)
  /\ ready' = ready \cup {[req |-> Head(pending), buf |-> b, whole |-> TRUE]}
  /\ UNCHANGED <<buf, ring, cq>>

\* ... then the others, loaded before the call returns.
LoadSync(b) ==
  /\ buf[b] = "free"
  /\ pending # <<>>
  /\ \A i \in DOMAIN pending : ~ThroughRing(pending[i])
  /\ pending' = Tail(pending)
  /\ ready' = ready \cup {[req |-> Head(pending), buf |-> b, whole |-> TRUE]}
  /\ buf' = [buf EXCEPT ![b] = "ready"]
  /\ UNCHANGED <<ring, cq>>

\* What no buffer was free for stays pending.
Submitted == pending = <<>> \/ Free = {}

\* The kernel ends a read; a failed or short one still completes.
Complete(t, whole) ==
  /\ ring' = ring \ {t}
  /\ cq' = cq \cup {[req |-> t.req, buf |-> t.buf, whole |-> whole]}
  /\ UNCHANGED <<buf, pending, ready>>

\* pump_completions, then pop_ready until the queue is empty.
Arrived == ready \cup cq

Drain ==
  /\ buf' = [b \in Buffer |->
               IF \E c \in cq : c.buf = b /\ c.whole THEN "ready" ELSE buf[b]]
  /\ cq' = {}
  /\ ready' = {}
  /\ UNCHANGED <<pending, ring>>

Release(blocks) ==
  /\ buf' = [b \in Buffer |-> IF \E x \in blocks : x.buf = b THEN "free" ELSE buf[b]]
  /\ UNCHANGED <<pending, ring, cq, ready>>

\* The request ends: its scheduler is dropped, the next request opens its own.
Reopen ==
  /\ buf' = [b \in Buffer |-> "free"]
  /\ pending' = <<>>
  /\ ring' = {}
  /\ cq' = {}
  /\ ready' = {}

-----------------------------------------------------------------------------
(***************************************************************************)
(* The protocol of its client, a forward pass: it releases only blocks it  *)
(* has popped, and forgets a block only by releasing it.                   *)
(***************************************************************************)
Next ==
  \/ /\ pending' \in Seq(Request)
     /\ Enqueue(SubSeq(pending', Len(pending) + 1, Len(pending')))
     /\ UNCHANGED held
  \/ \E b \in Buffer : (SubmitRing(b) \/ LoadSync(b)) /\ UNCHANGED held
  \/ \E t \in ring, whole \in BOOLEAN : Complete(t, whole) /\ UNCHANGED held
  \/ Drain /\ held' = held \cup Arrived
  \/ \E blocks \in SUBSET held : Release(blocks) /\ held' = held \ blocks
  \/ Reopen /\ held' = {}

Spec == Init /\ [][Next]_<<ioVars, held>>

-----------------------------------------------------------------------------
(***************************************************************************)
(* "They are not moved or freed" while in use (direct_io.rs): every buffer *)
(* that is not free belongs to exactly one read - in flight, completed, or *)
(* in the hands of the pass - and a free one to none.  Nothing leaks       *)
(* within a request, and no buffer is refilled under a block being used.   *)
(***************************************************************************)
Blocks == cq \cup ready \cup held

OneOwner ==
  /\ \A x, y \in Blocks : x.buf = y.buf => x = y
  /\ \A s, t \in ring : s.buf = t.buf => s = t
  /\ \A t \in ring, x \in Blocks : t.buf # x.buf
  /\ cq \cap ready = {} /\ cq \cap held = {} /\ ready \cap held = {}

BufferAccounted ==
  \A b \in Buffer :
    buf[b] # "free" <=> (\E t \in ring : t.buf = b) \/ (\E x \in Blocks : x.buf = b)

\* A popped block is readable exactly when its read was whole.
ReadyWhenWhole ==
  \A x \in ready \cup held : buf[x.buf] = IF x.whole THEN "ready" ELSE "in_flight"

BuffersSound == OneOwner /\ BufferAccounted /\ ReadyWhenWhole
=============================================================================
