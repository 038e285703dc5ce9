-------------------------- MODULE IoSchedulerProofs --------------------------
(***************************************************************************)
(* Proofs about IoScheduler, for every number of buffers, layers and       *)
(* experts and every client that keeps to its protocol.                    *)
(*                                                                         *)
(* BuffersSound is not inductive by itself: what makes a reaped block      *)
(* readable is that its buffer was still in flight when it was reaped.     *)
(***************************************************************************)
EXTENDS IoScheduler, TLAPS

InFlight == \A x \in ring \cup cq : buf[x.buf] = "in_flight"

IInv == TypeOK /\ InFlight /\ BuffersSound


LEMMA InitIInv == Init => IInv
  BY DEF Init, IInv, TypeOK, InFlight, BuffersSound, OneOwner, BufferAccounted,
         ReadyWhenWhole, Blocks

(***************************************************************************)
(* A step that only changes the queue of requests.                         *)
(***************************************************************************)
LEMMA PendingStep ==
  ASSUME IInv, pending' \in Seq(Request), UNCHANGED <<buf, ring, cq, ready, held>>
  PROVE  IInv'
  BY DEF IInv, TypeOK, InFlight, BuffersSound, OneOwner, BufferAccounted,
         ReadyWhenWhole, Blocks

(***************************************************************************)
(* The request that is taken out leaves a queue of requests.               *)
(***************************************************************************)
LEMMA WithoutType ==
  ASSUME NEW s \in Seq(Request), NEW i \in DOMAIN s
  PROVE  /\ s[i] \in Request
         /\ Without(s, i) \in Seq(Request)
  <1>1. i \in 1 .. Len(s) /\ Len(s) \in Nat
    OBVIOUS
  <1>2. s[i] \in Request
    BY <1>1
  <1>3. SubSeq(s, 1, i - 1) \in Seq(Request) /\ SubSeq(s, i + 1, Len(s)) \in Seq(Request)
    BY <1>1
  <1> QED
    BY <1>2, <1>3 DEF Without

(***************************************************************************)
(* A read is put on the ring: its buffer had no owner, and gets one.       *)
(***************************************************************************)
LEMMA SubmitRingStep ==
  ASSUME IInv, NEW b \in Buffer, SubmitRing(b), UNCHANGED held
  PROVE  IInv'
  <1>1. PICK i \in DOMAIN pending :
          /\ pending' = Without(pending, i)
          /\ ring' = ring \cup {[req |-> pending[i], buf |-> b]}
    BY DEF SubmitRing
  <1> DEFINE t == [req |-> pending[i], buf |-> b]
  <1>2. /\ buf[b] = "free"
        /\ buf' = [buf EXCEPT ![b] = "in_flight"]
        /\ UNCHANGED <<cq, ready, held>>
    BY DEF SubmitRing
  <1>3. pending' \in Seq(Request) /\ t \in Ticket /\ t.buf = b
    BY <1>1, WithoutType DEF IInv, TypeOK, Ticket
  <1>4. TypeOK'
    BY <1>1, <1>2, <1>3 DEF IInv, TypeOK
  <1>5. /\ \A s \in ring : s.buf # b
        /\ \A x \in Blocks : x.buf # b
    BY <1>2 DEF IInv, BuffersSound, BufferAccounted
  <1>6. /\ \A s \in ring : s.buf \in Buffer
        /\ \A x \in Blocks : x.buf \in Buffer
    BY DEF IInv, TypeOK, Blocks, Ticket, Block
  <1>7. Blocks' = Blocks
    BY <1>2 DEF Blocks
  <1>8. \A c \in Buffer : buf'[c] = IF c = b THEN "in_flight" ELSE buf[c]
    BY <1>2 DEF IInv, TypeOK
  <1>9. InFlight'
    BY <1>1, <1>2, <1>3, <1>5, <1>6, <1>8 DEF IInv, InFlight, Blocks
  <1>10. OneOwner'
    BY <1>1, <1>2, <1>3, <1>5, <1>7 DEF IInv, BuffersSound, OneOwner
  <1>11. BufferAccounted'
    BY <1>1, <1>3, <1>7, <1>8 DEF IInv, BuffersSound, BufferAccounted
  <1>12. ReadyWhenWhole'
    BY <1>2, <1>5, <1>6, <1>8 DEF IInv, BuffersSound, ReadyWhenWhole, Blocks
  <1> QED
    BY <1>4, <1>9, <1>10, <1>11, <1>12 DEF IInv, BuffersSound

(***************************************************************************)
(* An expert is loaded synchronously: the same, and its block is ready.    *)
(***************************************************************************)
LEMMA LoadSyncStep ==
  ASSUME IInv, NEW b \in Buffer, LoadSync(b), UNCHANGED held
  PROVE  IInv'
  <1> DEFINE x == [req |-> Head(pending), buf |-> b, whole |-> TRUE]
  <1>1. /\ buf[b] = "free"
        /\ pending # <<>>
        /\ pending' = Tail(pending)
        /\ ready' = ready \cup {x}
        /\ buf' = [buf EXCEPT ![b] = "ready"]
        /\ UNCHANGED <<ring, cq, held>>
    BY DEF LoadSync
  <1>2. pending' \in Seq(Request) /\ Head(pending) \in Request
    BY <1>1 DEF IInv, TypeOK
  <1>3. x \in Block /\ x.buf = b /\ x.whole = TRUE
    BY <1>2 DEF Block
  <1>4. TypeOK'
    BY <1>1, <1>2, <1>3 DEF IInv, TypeOK
  <1>5. /\ \A s \in ring : s.buf # b
        /\ \A y \in Blocks : y.buf # b
    BY <1>1 DEF IInv, BuffersSound, BufferAccounted
  <1>6. /\ \A s \in ring : s.buf \in Buffer
        /\ \A y \in Blocks : y.buf \in Buffer
    BY DEF IInv, TypeOK, Blocks, Ticket, Block
  <1>7. Blocks' = Blocks \cup {x}
    BY <1>1 DEF Blocks
  <1>8. \A c \in Buffer : buf'[c] = IF c = b THEN "ready" ELSE buf[c]
    BY <1>1 DEF IInv, TypeOK
  <1>9. InFlight'
    BY <1>1, <1>5, <1>6, <1>8 DEF IInv, InFlight, Blocks
  <1>10. OneOwner'
    <2>1. x \notin cq /\ x \notin held
      BY <1>3, <1>5 DEF Blocks
    <2> QED
      BY <1>1, <1>3, <1>5, <1>7, <2>1, ZenonT(30) DEF IInv, BuffersSound, OneOwner
  <1>11. BufferAccounted'
    BY <1>1, <1>3, <1>7, <1>8 DEF IInv, BuffersSound, BufferAccounted
  <1>12. ReadyWhenWhole'
    BY <1>1, <1>3, <1>5, <1>6, <1>8 DEF IInv, BuffersSound, ReadyWhenWhole, Blocks
  <1> QED
    BY <1>4, <1>9, <1>10, <1>11, <1>12 DEF IInv, BuffersSound

(***************************************************************************)
(* The kernel ends a read: the buffer passes from the ticket to the        *)
(* completion, and stays in flight until it is reaped.                     *)
(***************************************************************************)
LEMMA CompleteStep ==
  ASSUME IInv, NEW t \in ring, NEW whole \in BOOLEAN, Complete(t, whole), UNCHANGED held
  PROVE  IInv'
  <1> DEFINE c == [req |-> t.req, buf |-> t.buf, whole |-> whole]
  <1>1. /\ ring' = ring \ {t}
        /\ cq' = cq \cup {c}
        /\ UNCHANGED <<buf, pending, ready, held>>
    BY DEF Complete
  <1>2. c \in Block /\ c.buf = t.buf
    BY DEF IInv, TypeOK, Ticket, Block
  <1>3. TypeOK'
    BY <1>1, <1>2 DEF IInv, TypeOK
  <1>4. /\ \A s \in ring : s.buf = t.buf => s = t
        /\ \A x \in Blocks : x.buf # t.buf
    BY DEF IInv, BuffersSound, OneOwner
  <1>5. Blocks' = Blocks \cup {c}
    BY <1>1 DEF Blocks
  <1>6. InFlight'
    BY <1>1, <1>2 DEF IInv, InFlight
  <1>7. OneOwner'
    <2>1. c \notin ready /\ c \notin held
      BY <1>2, <1>4 DEF Blocks
    <2> QED
      BY <1>1, <1>2, <1>4, <1>5, <2>1 DEF IInv, BuffersSound, OneOwner
  <1>8. BufferAccounted'
    BY <1>1, <1>2, <1>4, <1>5 DEF IInv, BuffersSound, BufferAccounted
  <1>9. ReadyWhenWhole'
    BY <1>1 DEF IInv, BuffersSound, ReadyWhenWhole
  <1> QED
    BY <1>3, <1>6, <1>7, <1>8, <1>9 DEF IInv, BuffersSound

(***************************************************************************)
(* Completions and loaded blocks are popped: the blocks stay the same.     *)
(***************************************************************************)
LEMMA DrainStep ==
  ASSUME IInv, Drain, held' = held \cup Arrived
  PROVE  IInv'
  <1>1. /\ cq' = {} /\ ready' = {}
        /\ held' = held \cup ready \cup cq
        /\ UNCHANGED <<pending, ring>>
    BY DEF Drain, Arrived
  <1>2. /\ DOMAIN buf' = Buffer
        /\ buf' = [b \in Buffer |->
                     IF \E c \in cq : c.buf = b /\ c.whole THEN "ready" ELSE buf[b]]
    BY DEF Drain
  <1>3. \A b \in Buffer :
          buf'[b] = IF \E c \in cq : c.buf = b /\ c.whole THEN "ready" ELSE buf[b]
    BY <1>2
  <1>4. TypeOK'
    <2>1. buf' \in [Buffer -> {"free", "in_flight", "ready"}]
      BY <1>2 DEF IInv, TypeOK
    <2> QED
      BY <1>1, <2>1 DEF IInv, TypeOK
  <1>5. Blocks' = Blocks
    BY <1>1 DEF Blocks
  <1>6. /\ \A s \in ring : s.buf \in Buffer
        /\ \A x \in Blocks : x.buf \in Buffer /\ x.whole \in BOOLEAN
    BY DEF IInv, TypeOK, Blocks, Ticket, Block
  <1>7. InFlight'
    BY <1>1, <1>3, <1>6 DEF IInv, InFlight, BuffersSound, OneOwner, Blocks
  <1>8. OneOwner'
    BY <1>1, <1>5 DEF IInv, BuffersSound, OneOwner
  <1>9. BufferAccounted'
    <2> SUFFICES ASSUME NEW b \in Buffer
                 PROVE  buf'[b] # "free" <=> buf[b] # "free"
      BY <1>1, <1>5 DEF IInv, BuffersSound, BufferAccounted
    <2>1. CASE \E c \in cq : c.buf = b /\ c.whole
      BY <1>3, <2>1 DEF IInv, InFlight
    <2>2. CASE ~ \E c \in cq : c.buf = b /\ c.whole
      BY <1>3, <2>2
    <2> QED
      BY <2>1, <2>2
  <1>10. ReadyWhenWhole'
    <2> SUFFICES ASSUME NEW x \in Blocks
                 PROVE  buf'[x.buf] = IF x.whole THEN "ready" ELSE "in_flight"
      BY <1>1, <1>5 DEF ReadyWhenWhole, Blocks
    <2>1. CASE x \in cq
      <3>1. \A c \in cq : c.buf = x.buf => c = x
        BY <2>1 DEF IInv, BuffersSound, OneOwner, Blocks
      <3>2. buf[x.buf] = "in_flight"
        BY <2>1 DEF IInv, InFlight
      <3> QED
        BY <1>3, <1>6, <2>1, <3>1, <3>2
    <2>2. CASE x \in ready \cup held
      <3>1. \A c \in cq : c.buf # x.buf
        BY <2>2 DEF IInv, BuffersSound, OneOwner, Blocks
      <3>2. buf[x.buf] = IF x.whole THEN "ready" ELSE "in_flight"
        BY <2>2 DEF IInv, BuffersSound, ReadyWhenWhole
      <3> QED
        BY <1>3, <1>6, <3>1, <3>2
    <2> QED
      BY <2>1, <2>2 DEF Blocks
  <1> QED
    BY <1>4, <1>7, <1>8, <1>9, <1>10 DEF IInv, BuffersSound

(***************************************************************************)
(* The pass releases blocks: no other block or read owns their buffers.    *)
(***************************************************************************)
LEMMA ReleaseStep ==
  ASSUME IInv, NEW blocks \in SUBSET held, Release(blocks), held' = held \ blocks
  PROVE  IInv'
  <1>1. /\ held' = held \ blocks
        /\ UNCHANGED <<pending, ring, cq, ready>>
        /\ buf' = [b \in Buffer |-> IF \E x \in blocks : x.buf = b THEN "free" ELSE buf[b]]
    BY DEF Release
  <1>2. \A b \in Buffer : buf'[b] = IF \E x \in blocks : x.buf = b THEN "free" ELSE buf[b]
    BY <1>1
  <1>3. TypeOK'
    <2>1. buf' \in [Buffer -> {"free", "in_flight", "ready"}]
      BY <1>1 DEF IInv, TypeOK
    <2> QED
      BY <1>1, <2>1 DEF IInv, TypeOK
  <1>4. /\ \A s \in ring : s.buf \in Buffer
        /\ \A x \in Blocks : x.buf \in Buffer
    BY DEF IInv, TypeOK, Blocks, Ticket, Block
  <1>5. Blocks' = Blocks \ blocks
    BY <1>1 DEF Blocks, IInv, BuffersSound, OneOwner
  <1>6. /\ \A s \in ring, x \in blocks : s.buf # x.buf
        /\ \A y \in Blocks \ blocks, x \in blocks : y.buf # x.buf
    BY DEF Blocks, IInv, BuffersSound, OneOwner
  <1>7. /\ \A s \in ring : buf'[s.buf] = buf[s.buf]
        /\ \A y \in Blocks \ blocks : buf'[y.buf] = buf[y.buf]
    BY <1>2, <1>4, <1>6
  <1>8. cq \cap blocks = {} /\ ready \cap blocks = {}
    BY DEF IInv, BuffersSound, OneOwner
  <1>9. InFlight'
    BY <1>1, <1>7, <1>8 DEF IInv, InFlight, Blocks
  <1>10. OneOwner'
    BY <1>1, <1>5 DEF IInv, BuffersSound, OneOwner
  <1>11. BufferAccounted'
    <2> SUFFICES ASSUME NEW b \in Buffer
                 PROVE  buf'[b] # "free" <=>
                          (\E t \in ring : t.buf = b) \/ (\E x \in Blocks \ blocks : x.buf = b)
      BY <1>1, <1>5 DEF BufferAccounted
    <2>1. CASE \E x \in blocks : x.buf = b
      BY <1>2, <1>6, <2>1
    <2>2. CASE ~ \E x \in blocks : x.buf = b
      <3>1. buf'[b] = buf[b]
        BY <1>2, <2>2
      <3>2. (\E x \in Blocks \ blocks : x.buf = b) <=> (\E x \in Blocks : x.buf = b)
        BY <2>2
      <3> QED
        BY <3>1, <3>2 DEF IInv, BuffersSound, BufferAccounted
    <2> QED
      BY <2>1, <2>2
  <1>12. ReadyWhenWhole'
    BY <1>1, <1>7, <1>8 DEF IInv, BuffersSound, ReadyWhenWhole, Blocks
  <1> QED
    BY <1>3, <1>9, <1>10, <1>11, <1>12 DEF IInv, BuffersSound

(***************************************************************************)
(* A new request finds everything free.                                    *)
(***************************************************************************)
LEMMA ReopenStep ==
  ASSUME IInv, Reopen, held' = {}
  PROVE  IInv'
  <1>1. /\ ring' = {} /\ cq' = {} /\ ready' = {} /\ held' = {}
        /\ pending' = <<>>
        /\ buf' = [b \in Buffer |-> "free"]
    BY DEF Reopen
  <1>2. \A b \in Buffer : buf'[b] = "free"
    BY <1>1
  <1>3. TypeOK'
    BY <1>1 DEF TypeOK
  <1>4. Blocks' = {}
    BY <1>1 DEF Blocks
  <1> QED
    BY <1>1, <1>2, <1>3, <1>4
       DEF IInv, InFlight, BuffersSound, OneOwner, BufferAccounted, ReadyWhenWhole

-----------------------------------------------------------------------------
(***************************************************************************)
(* Every step of the scheduler and its client keeps the invariant.         *)
(***************************************************************************)
LEMMA NextIInv == IInv /\ [Next]_<<ioVars, held>> => IInv'
  <1> SUFFICES ASSUME IInv, [Next]_<<ioVars, held>>
               PROVE  IInv'
    OBVIOUS
  <1>1. CASE /\ pending' \in Seq(Request)
             /\ Enqueue(SubSeq(pending', Len(pending) + 1, Len(pending')))
             /\ UNCHANGED held
    BY <1>1, PendingStep DEF Enqueue
  <1>2. ASSUME NEW b \in Buffer, SubmitRing(b) \/ LoadSync(b), UNCHANGED held
        PROVE  IInv'
    BY <1>2, SubmitRingStep, LoadSyncStep
  <1>3. ASSUME NEW t \in ring, NEW whole \in BOOLEAN, Complete(t, whole), UNCHANGED held
        PROVE  IInv'
    BY <1>3, CompleteStep
  <1>4. CASE Drain /\ held' = held \cup Arrived
    BY <1>4, DrainStep
  <1>5. ASSUME NEW blocks \in SUBSET held, Release(blocks), held' = held \ blocks
        PROVE  IInv'
    BY <1>5, ReleaseStep
  <1>6. CASE Reopen /\ held' = {}
    BY <1>6, ReopenStep
  <1>7. CASE UNCHANGED <<ioVars, held>>
    <2>1. pending' \in Seq(Request)
      BY <1>7 DEF ioVars, IInv, TypeOK
    <2> QED
      BY <1>7, <2>1, PendingStep DEF ioVars
  <1> QED
    BY <1>1, <1>2, <1>3, <1>4, <1>5, <1>6, <1>7 DEF Next

(***************************************************************************)
(* The inductive invariant of the scheduler under its client's protocol.   *)
(***************************************************************************)
THEOREM Invariance == Spec => []IInv
  BY InitIInv, NextIInv, PTL DEF Spec

(***************************************************************************)
(* Every queue holds requests, tickets and blocks of the right kind.       *)
(***************************************************************************)
THEOREM TypeCorrect == Spec => []TypeOK
  <1>1. IInv => TypeOK
    BY DEF IInv
  <1> QED
    BY <1>1, Invariance, PTL

(***************************************************************************)
(* No buffer leaks, none is refilled under a block in use, and a popped    *)
(* block is readable exactly when its read was whole - however many        *)
(* buffers there are, and whatever the order in which reads complete.      *)
(***************************************************************************)
THEOREM BuffersAlwaysSound == Spec => []BuffersSound
  <1>1. IInv => BuffersSound
    BY DEF IInv
  <1> QED
    BY <1>1, Invariance, PTL
=============================================================================
