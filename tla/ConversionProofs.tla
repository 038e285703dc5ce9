-------------------------- MODULE ConversionProofs --------------------------
(***************************************************************************)
(* The way of a model's weights to the disk of the engine: the conversion  *)
(* that streams its experts, the download of what is converted, and the    *)
(* conversion of what was downloaded. Before them, lemmas about sums,      *)
(* orders and selections, which ToolProofs uses too.                       *)
(*                                                                         *)
(* What the ledger of a streamed conversion may be believed, for any plan, *)
(* any command and any number of crashes. An expert is recorded at the end *)
(* of its turn. The invariant says what is known of it at each step of the *)
(* turn (Turn), that the running process and the ledger file agree (Mem),  *)
(* what the steps behind the process have left (Behind), and what the two  *)
(* signs of success, exit 0 and the ledger's finished event, stand for     *)
(* (Signs).                                                                *)
(*                                                                         *)
(* What the reports of the download tools may be believed, for any number  *)
(* of files, any servers and any runs that are cut short. The invariant    *)
(* says what the downloader knows of the file it fetches (Fetching), what  *)
(* has got its final name (Installed), and that a file which is there      *)
(* stays, so that a report of it stays true (Reported).                    *)
(*                                                                         *)
(* What the word "ready" of a conversion may be believed, for any          *)
(* checkpoint and any number of runs that die: which files a run has       *)
(* finished (Filled), what it has written at each step (Written), and that *)
(* it takes the word back before it touches anything (Promised).           *)
(*                                                                         *)
(* What a finished core holds, for any checkpoint, alignment and choice of *)
(* layers: every block lies where the plan put it, and every tensor asked  *)
(* for is in one. The invariant (CoreInv) relates the place of the process *)
(* in its course (Course) to what is in the tables (Tables, Holdings) and  *)
(* to the bytes that are spent (Spent).                                    *)
(***************************************************************************)
EXTENDS StreamConvert, Download, Convert, TLAPS, FiniteSetTheorems, SequenceTheorems,
        WellFoundedInduction, NaturalsInduction

---------------------------------------------------------------------------
(* Induction over the naturals, for sets *)

Below == {p \in Nat \X Nat : p[1] < p[2]}

LEMMA LeastNatural ==
  ASSUME NEW S, S \subseteq Nat, S # {}
  PROVE  \E x \in S : \A y \in S : x <= y
<1>1. IsWellFoundedOn(OpToRel(<, Nat), Nat)
  BY NatLessThanWellFounded
<1>2. Below = OpToRel(<, Nat)
  BY DEF Below, OpToRel
<1>3. PICK x \in S : \A y \in S : ~(<<y, x>> \in Below)
  <2>1. IsWellFoundedOn(Below, Nat)
    BY <1>1, <1>2
  <2> QED BY <2>1, WFMin
<1>4. \A y \in S : ~(y < x)
  BY <1>3 DEF Below
<1> QED BY <1>4

LEMMA SetInduction ==
  ASSUME NEW S, 0 \in S, \A n \in Nat : n \in S => n + 1 \in S
  PROVE  Nat \subseteq S
<1> SUFFICES ASSUME Nat \ S # {} PROVE FALSE
  OBVIOUS
<1>1. PICK x \in Nat \ S : \A y \in Nat \ S : x <= y
  BY LeastNatural
<1>2. x # 0 /\ x - 1 \in Nat
  BY <1>1
<1>3. x - 1 \in S
  BY <1>1, <1>2
<1> QED BY <1>1, <1>2, <1>3

---------------------------------------------------------------------------
(* Sums *)

\* f adds up the first n numbers of s.
AddsUp(f, s, n) == f[0] = 0 /\ \A i \in 1 .. n : f[i] = f[i - 1] + s[i]

LEMMA AddedUp ==
  ASSUME NEW s, s \in Seq(Int), NEW n \in Nat, n <= Len(s)
  PROVE  \E f \in [0 .. n -> Int] : AddsUp(f, s, n)
<1> DEFINE S == {m \in Nat : m <= Len(s) => \E f \in [0 .. m -> Int] : AddsUp(f, s, m)}
<1>1. 0 \in S
  <2>1. [i \in 0 .. 0 |-> 0] \in [0 .. 0 -> Int] /\ AddsUp([i \in 0 .. 0 |-> 0], s, 0)
    BY DEF AddsUp
  <2> QED BY <2>1
<1>2. ASSUME NEW m \in Nat, m \in S PROVE m + 1 \in S
  <2> SUFFICES ASSUME m + 1 <= Len(s)
               PROVE  \E f \in [0 .. m + 1 -> Int] : AddsUp(f, s, m + 1)
    OBVIOUS
  <2>1. PICK f \in [0 .. m -> Int] : AddsUp(f, s, m)
    BY <1>2
  <2> DEFINE g == [i \in 0 .. m + 1 |-> IF i = m + 1 THEN f[m] + s[m + 1] ELSE f[i]]
  <2>2. s[m + 1] \in Int /\ f[m] \in Int
    OBVIOUS
  <2>3. g \in [0 .. m + 1 -> Int]
    BY <2>2
  <2>4. AddsUp(g, s, m + 1)
    BY <2>1 DEF AddsUp
  <2> QED BY <2>3, <2>4
<1>3. Nat \subseteq S
  <2> HIDE DEF S
  <2> QED BY <1>1, <1>2, SetInduction
<1> QED BY <1>3

LEMMA AddUpAlike ==
  ASSUME NEW s, s \in Seq(Int), NEW n \in Nat, n <= Len(s),
         NEW f, NEW g, AddsUp(f, s, n), AddsUp(g, s, n)
  PROVE  f[n] = g[n] /\ f[n] \in Int
<1> DEFINE S == {m \in Nat : m <= n => f[m] = g[m] /\ f[m] \in Int}
<1>1. 0 \in S
  BY DEF AddsUp
<1>2. ASSUME NEW m \in Nat, m \in S PROVE m + 1 \in S
  <2> SUFFICES ASSUME m + 1 <= n PROVE f[m + 1] = g[m + 1] /\ f[m + 1] \in Int
    OBVIOUS
  <2>1. f[m] = g[m] /\ f[m] \in Int /\ s[m + 1] \in Int
    BY <1>2
  <2>2. f[m + 1] = f[(m + 1) - 1] + s[m + 1] /\ g[m + 1] = g[(m + 1) - 1] + s[m + 1]
    BY DEF AddsUp
  <2> QED BY <2>1, <2>2
<1>3. Nat \subseteq S
  <2> HIDE DEF S
  <2> QED BY <1>1, <1>2, SetInduction
<1> QED BY <1>3

LEMMA TotalIs ==
  ASSUME NEW s, s \in Seq(Int), NEW f, AddsUp(f, s, Len(s))
  PROVE  Total(s) = f[Len(s)] /\ Total(s) \in Int
<1> DEFINE Sums(g) == g = [n \in 0 .. Len(s) |-> IF n = 0 THEN 0 ELSE g[n - 1] + s[n]]
           h == CHOOSE g : Sums(g)
<1>1. PICK e \in [0 .. Len(s) -> Int] : AddsUp(e, s, Len(s))
  BY AddedUp
<1>2. Sums(e)
  <2>1. \A n \in 0 .. Len(s) : e[n] = IF n = 0 THEN 0 ELSE e[n - 1] + s[n]
    BY <1>1 DEF AddsUp
  <2>2. e = [n \in 0 .. Len(s) |-> e[n]]
    OBVIOUS
  <2> QED BY <2>1, <2>2
<1>3. Sums(h)
  BY <1>2
<1>4. Total(s) = h[Len(s)]
  BY DEF Total
<1> HIDE DEF h
<1>5. AddsUp(h, s, Len(s))
  <2>1. Len(s) \in Nat /\ 0 \in 0 .. Len(s)
    OBVIOUS
  <2>2. ASSUME NEW n \in 0 .. Len(s) PROVE h[n] = IF n = 0 THEN 0 ELSE h[n - 1] + s[n]
    BY <1>3
  <2>3. h[0] = 0
    BY <2>1, <2>2
  <2>4. ASSUME NEW n \in 1 .. Len(s) PROVE h[n] = h[n - 1] + s[n]
    <3>1. n \in 0 .. Len(s) /\ n # 0
      BY <2>1
    <3> QED BY <2>2, <3>1
  <2> QED BY <2>3, <2>4 DEF AddsUp
<1> QED BY <1>4, <1>5, AddUpAlike

LEMMA TotalType ==
  ASSUME NEW s, s \in Seq(Int)
  PROVE  Total(s) \in Int
  BY AddedUp, TotalIs

LEMMA TotalEmpty ==
  ASSUME NEW s, s \in Seq(Int), Len(s) = 0
  PROVE  Total(s) = 0
<1>1. AddsUp([i \in {0} |-> 0], s, 0)
  BY DEF AddsUp
<1> QED BY <1>1, TotalIs

\* One more number at the end.
LEMMA TotalExtends ==
  ASSUME NEW s, s \in Seq(Int), NEW t, t \in Seq(Int), Len(t) = Len(s) + 1,
         \A i \in 1 .. Len(s) : t[i] = s[i]
  PROVE  Total(t) = Total(s) + t[Len(t)]
<1>1. PICK f : AddsUp(f, t, Len(t))
  BY AddedUp
<1>2. AddsUp(f, s, Len(s))
  BY <1>1 DEF AddsUp
<1>3. Total(t) = f[Len(t)] /\ Total(s) = f[Len(s)]
  BY <1>1, <1>2, TotalIs
<1>4. f[Len(t)] = f[Len(t) - 1] + t[Len(t)]
  BY <1>1 DEF AddsUp
<1> QED BY <1>3, <1>4

LEMMA TotalNatural ==
  ASSUME NEW s, s \in Seq(Nat)
  PROVE  Total(s) \in Nat
<1>1. s \in Seq(Int)
  OBVIOUS
<1>2. PICK f : AddsUp(f, s, Len(s))
  BY <1>1, AddedUp
<1> DEFINE S == {m \in Nat : m <= Len(s) => f[m] \in Nat}
<1>3. 0 \in S
  BY <1>2 DEF AddsUp
<1>4. ASSUME NEW m \in Nat, m \in S PROVE m + 1 \in S
  <2> SUFFICES ASSUME m + 1 <= Len(s) PROVE f[m + 1] \in Nat
    OBVIOUS
  <2>1. f[m + 1] = f[(m + 1) - 1] + s[m + 1]
    BY <1>2 DEF AddsUp
  <2> QED BY <1>4, <2>1
<1>5. Nat \subseteq S
  <2> HIDE DEF S
  <2> QED BY <1>3, <1>4, SetInduction
<1> QED BY <1>1, <1>2, <1>5, TotalIs

---------------------------------------------------------------------------
(* Sorted lists *)

\* before puts the elements of S in one line.
Lines(S, before) ==
  /\ \A x \in S : <<x, x>> \notin before
  /\ \A x, y, z \in S : <<x, y>> \in before /\ <<y, z>> \in before => <<x, z>> \in before
  /\ \A x, y \in S : x = y \/ <<x, y>> \in before \/ <<y, x>> \in before

Earlier(S, before, x) == {y \in S : <<y, x>> \in before}

\* The number of elements behind one tells where it stands.
LEMMA Standing ==
  ASSUME NEW S, IsFiniteSet(S), NEW before, Lines(S, before)
  PROVE  LET n == Cardinality(S)
             place == [x \in S |-> Cardinality(Earlier(S, before, x)) + 1]
         IN  /\ n \in Nat
             /\ \A x \in S : Cardinality(Earlier(S, before, x)) \in Nat
             /\ place \in Bijection(S, 1 .. n)
             /\ \A x, y \in S : <<x, y>> \in before => place[x] < place[y]
<1> DEFINE n == Cardinality(S)
           B(x) == Earlier(S, before, x)
           place == [x \in S |-> Cardinality(B(x)) + 1]
<1>0. /\ \A x \in S : place[x] = Cardinality(B(x)) + 1
      /\ place = [x \in S |-> place[x]]
      /\ \A x \in S : B(x) \subseteq S /\ x \notin B(x)
      /\ \A x, y \in S : <<x, y>> \in before => B(x) \cup {x} \subseteq B(y)
  BY DEF Earlier, Lines
<1> HIDE DEF place, B
<1>1. n \in Nat
  BY FS_CardinalityType
<1>2. ASSUME NEW x \in S
      PROVE  /\ IsFiniteSet(B(x)) /\ Cardinality(B(x)) \in Nat
             /\ Cardinality(B(x) \cup {x}) = Cardinality(B(x)) + 1
             /\ Cardinality(B(x) \cup {x}) <= n
  <2>1. B(x) \in SUBSET S /\ x \notin B(x)
    BY <1>0
  <2>2. IsFiniteSet(B(x))
    BY <2>1, FS_Subset
  <2>3. Cardinality(B(x)) \in Nat
    BY <2>2, FS_CardinalityType
  <2>4. Cardinality(B(x) \cup {x}) = Cardinality(B(x)) + 1
    BY <2>1, <2>2, FS_AddElement
  <2>5. B(x) \cup {x} \in SUBSET S
    BY <2>1
  <2>6. Cardinality(B(x) \cup {x}) <= n
    BY <2>5, FS_Subset
  <2> QED BY <2>2, <2>3, <2>4, <2>6
<1>3. ASSUME NEW x \in S, NEW y \in S, <<x, y>> \in before
      PROVE  place[x] < place[y]
  <2>1. B(x) \cup {x} \in SUBSET B(y)
    BY <1>0, <1>3
  <2>2. IsFiniteSet(B(y))
    BY <1>2
  <2>3. Cardinality(B(x) \cup {x}) <= Cardinality(B(y))
    BY <2>1, <2>2, FS_Subset
  <2>4. /\ Cardinality(B(x)) \in Nat /\ Cardinality(B(y)) \in Nat
        /\ Cardinality(B(x)) + 1 <= Cardinality(B(y))
    BY <1>2, <2>3
  <2>5. place[x] = Cardinality(B(x)) + 1 /\ place[y] = Cardinality(B(y)) + 1
    BY <1>0
  <2> QED BY <2>4, <2>5
<1>4. place \in Injection(S, 1 .. n)
  <2>1. ASSUME NEW x \in S PROVE place[x] \in 1 .. n
    <3>1. place[x] = Cardinality(B(x)) + 1
      BY <1>0
    <3>2. Cardinality(B(x)) \in Nat /\ Cardinality(B(x)) + 1 <= n
      BY <1>2
    <3> QED BY <1>1, <3>1, <3>2
  <2>2. place \in [S -> 1 .. n]
    BY <1>0, <2>1
  <2>3. ASSUME NEW x \in S, NEW y \in S, place[x] = place[y]
        PROVE  x = y
    <3>1. place[x] \in Int /\ place[y] \in Int
      BY <2>1
    <3>2. ~(<<x, y>> \in before) /\ ~(<<y, x>> \in before)
      BY <1>3, <2>3, <3>1
    <3> QED BY <3>2 DEF Lines
  <2> QED BY <2>2, <2>3 DEF Injection, IsInjective
<1>5. place \in Surjection(S, 1 .. n)
  <2>1. IsFiniteSet(1 .. n) /\ Cardinality(1 .. n) = n
    BY <1>1, FS_Interval
  <2> QED BY <1>1, <1>4, <2>1, FS_Surjection, FS_Injection, FS_SurjSameCardinalityImpliesInj
<1>6. \A x \in S : Cardinality(Earlier(S, before, x)) \in Nat
  BY <1>2 DEF B
<1> QED BY <1>1, <1>3, <1>4, <1>5, <1>6 DEF Bijection, place, B

\* A list in order has every element once, and nothing before what comes earlier.
LEMMA InOrderSorts ==
  ASSUME NEW S, IsFiniteSet(S), NEW before, Lines(S, before)
  PROVE  LET o == InOrder(S, before)
         IN  /\ o \in Seq(S) /\ Len(o) = Cardinality(S) /\ Cardinality(S) \in Nat
             /\ \A x \in S : \E k \in 1 .. Len(o) : o[k] = x
             /\ \A i, j \in 1 .. Len(o) : o[i] = o[j] => i = j
             /\ \A i, j \in 1 .. Len(o) : i < j => <<o[i], o[j]>> \in before
<1> DEFINE n == Cardinality(S)
           rank(x) == Cardinality({y \in S : <<y, x>> \in before})
           pick(k) == CHOOSE x \in S : rank(x) = k - 1
           place == [x \in S |-> rank(x) + 1]
           o == InOrder(S, before)
<1>1. o = [k \in 1 .. n |-> pick(k)]
  BY DEF InOrder
<1>2. \A x \in S : place[x] = rank(x) + 1
  OBVIOUS
<1>3. /\ n \in Nat /\ \A x \in S : rank(x) \in Nat
      /\ place \in Bijection(S, 1 .. n)
      /\ \A x, y \in S : <<x, y>> \in before => place[x] < place[y]
  BY Standing DEF Earlier
<1> HIDE DEF n, o, place, rank
<1>4. \A k \in 1 .. n : o[k] = pick(k)
  BY <1>1
<1>5. ASSUME NEW k \in 1 .. n
      PROVE  pick(k) \in S /\ place[pick(k)] = k
  <2>1. PICK x \in S : place[x] = k
    BY <1>3, <1>5 DEF Bijection, Surjection
  <2>2. rank(x) = k - 1
    BY <1>2, <1>3, <2>1
  <2>3. pick(k) \in S /\ rank(pick(k)) = k - 1
    BY <2>2
  <2> QED BY <1>2, <1>3, <2>3
<1>6. /\ \A k \in 1 .. n : o[k] \in S /\ place[o[k]] = k
      /\ o \in Seq(S) /\ Len(o) = n
  <2>1. \A k \in 1 .. n : o[k] \in S /\ place[o[k]] = k
    BY <1>4, <1>5
  <2> HIDE DEF pick
  <2>2. o \in [1 .. n -> S]
    BY <1>1, <1>4, <2>1
  <2> QED BY <1>3, <2>1, <2>2
<1> HIDE DEF pick
<1>7. ASSUME NEW x \in S PROVE \E k \in 1 .. n : o[k] = x
  <2>1. place[x] \in 1 .. n
    BY <1>3 DEF Bijection, Injection
  <2>2. o[place[x]] \in S /\ place[o[place[x]]] = place[x]
    BY <1>6, <2>1
  <2>3. o[place[x]] = x
    BY <1>3, <2>2 DEF Bijection, Injection, IsInjective
  <2> QED BY <2>1, <2>3
<1>8. \A i, j \in 1 .. n : o[i] = o[j] => i = j
  BY <1>6
<1>9. ASSUME NEW i \in 1 .. n, NEW j \in 1 .. n, i < j
      PROVE  <<o[i], o[j]>> \in before
  <2>1. o[i] \in S /\ o[j] \in S /\ place[o[i]] = i /\ place[o[j]] = j
    BY <1>6
  <2>2. ~(<<o[j], o[i]>> \in before) /\ o[i] # o[j]
    BY <1>3, <1>9, <2>1
  <2> QED BY <2>1, <2>2 DEF Lines
<1> QED BY <1>3, <1>6, <1>7, <1>8, <1>9 DEF o, n

LEMMA IncreasingSorts ==
  ASSUME NEW S, S \subseteq Int, IsFiniteSet(S)
  PROVE  LET o == Increasing(S)
         IN  /\ o \in Seq(S) /\ Len(o) = Cardinality(S) /\ Cardinality(S) \in Nat
             /\ \A x \in S : \E k \in 1 .. Len(o) : o[k] = x
             /\ \A i, j \in 1 .. Len(o) : o[i] = o[j] => i = j
             /\ \A i, j \in 1 .. Len(o) : i < j => o[i] < o[j]
<1> DEFINE before == {p \in S \X S : p[1] < p[2]}
           o == InOrder(S, before)
<1>1. Lines(S, before)
  BY DEF Lines
<1>2. /\ o \in Seq(S) /\ Len(o) = Cardinality(S) /\ Cardinality(S) \in Nat
      /\ \A x \in S : \E k \in 1 .. Len(o) : o[k] = x
      /\ \A i, j \in 1 .. Len(o) : o[i] = o[j] => i = j
      /\ \A i, j \in 1 .. Len(o) : i < j => <<o[i], o[j]>> \in before
  BY <1>1, InOrderSorts
<1>3. o = Increasing(S)
  BY DEF Increasing
<1> HIDE DEF o
<1>4. \A i, j \in 1 .. Len(o) : i < j => o[i] < o[j]
  BY <1>2
<1> QED BY <1>2, <1>3, <1>4

---------------------------------------------------------------------------
(* The streamed conversion *)

FileState == {"absent", "partial", "whole"}
Ledger == [done : SUBSET Wanted, uploaded : SUBSET Wanted, finished : BOOLEAN]
InTurn == {"write", "upload", "uploaded", "unlink", "log"}
AfterLoop == {"index", "write_index", "patch", "finish", "exit"}
Process == [pc : {"stopped", "core", "expert"} \cup InTurn \cup AfterLoop, next : Nat \ {0},
            mem : Ledger, exit : {"none", "ok", "failed"}, died : Nat]

Types ==
  /\ scCmd \in StreamCommands
  /\ scProc \in Process
  /\ scLedger \in Ledger
  /\ scFile \in [Wanted -> FileState]
  /\ scWorker \subseteq Wanted
  /\ scCore \in FileState
  /\ scIndex \in [state : FileState, remote : BOOLEAN]
  /\ scProc.pc \in InTurn => scProc.next \in DOMAIN Plan

\* The process works on what the ledger file says; without one nothing is recorded.
Mem ==
  IF scCmd.keepLedger THEN scProc.pc # "stopped" => scProc.mem = scLedger
  ELSE scLedger = EmptyLedger

\* What is known of the expert whose turn it is.
Turn ==
  /\ scProc.pc = "upload" => MustUpload /\ scFile[X] = "whole"
  /\ scProc.pc \in {"uploaded", "unlink"} => MustUpload /\ X \in scWorker
  /\ scProc.pc = "log" => \/ scFile[X] = "whole"
                          \/ MustUpload /\ X \in scWorker

LedgerInv == Types /\ Mem /\ Turn /\ CompletedHasCopy

---------------------------------------------------------------------------
(* Types *)

LEMMA XWanted ==
  ASSUME scProc.next \in DOMAIN Plan PROVE X \in Wanted
  BY DEF X, Wanted, Range

LEMMA InPlan ==
  ASSUME scProc.next \in Nat \ {0}, scProc.next <= Len(Plan)
  PROVE scProc.next \in DOMAIN Plan
  BY StreamAssumption

LEMMA CmdTypes ==
  ASSUME scCmd \in StreamCommands
  PROVE scCmd \in [expertsOnly : BOOLEAN, skip : BOOLEAN, worker : BOOLEAN, delete : BOOLEAN,
                   keepLedger : BOOLEAN, sent : SUBSET Range(Plan)]
  BY StreamAssumption

LEMMA EmptyIsLedger == EmptyLedger \in Ledger
  BY DEF EmptyLedger, Ledger

LEMMA InitTypes == StreamInit => Types
  BY EmptyIsLedger DEF StreamInit, Types, Process, Stopped, FileState, InTurn, AfterLoop

\* Every action of the turn is about X, an expert of the plan.
LEMMA TurnOfX ==
  ASSUME Types, scProc.pc \in InTurn
  PROVE X \in Wanted /\ scProc.next \in DOMAIN Plan
  BY XWanted DEF Types, Process

---------------------------------------------------------------------------
(* The steps *)

LEMMA StartKeepsInv ==
  ASSUME LedgerInv, StartStream PROVE LedgerInv'
<1>1. Types' /\ Mem'
  BY EmptyIsLedger DEF LedgerInv, Types, Process, Mem, StartStream, In, InTurn, AfterLoop, scDisk
<1>2. Turn'
  BY DEF LedgerInv, Types, Process, Turn, StartStream, In, InTurn, AfterLoop
<1>3. CompletedHasCopy'
  BY DEF LedgerInv, CompletedHasCopy, Copy, StartStream, scDisk
<1> QED BY <1>1, <1>2, <1>3 DEF LedgerInv

LEMMA StopKeepsInv ==
  ASSUME LedgerInv, StreamDies \/ preflight_space \/ ReturnZero PROVE LedgerInv'
<1>1. /\ \E status \in {"ok", "failed"}, died \in Nat : scProc' = Stopped(status, died)
      /\ UNCHANGED <<scCmd, scDisk>>
  BY DEF LedgerInv, Types, Process, StreamDies, preflight_space, ReturnZero
<1>2. scProc'.pc = "stopped"
  BY <1>1 DEF Stopped
<1>3. Types'
  BY <1>1, EmptyIsLedger DEF LedgerInv, Types, Process, Stopped, InTurn, AfterLoop, scDisk
<1>4. Mem' /\ Turn'
  BY <1>1, <1>2 DEF LedgerInv, Mem, Turn, scDisk
<1>5. CompletedHasCopy'
  BY <1>1 DEF LedgerInv, CompletedHasCopy, Copy, scDisk
<1> QED BY <1>3, <1>4, <1>5 DEF LedgerInv

LEMMA SkipKeepsInv ==
  ASSUME LedgerInv, SkipExisting PROVE LedgerInv'
<1>1. scProc.next \in DOMAIN Plan
  BY InPlan DEF LedgerInv, Types, Process, SkipExisting
<1>2. X' = X /\ MustUpload' = MustUpload
  BY DEF LedgerInv, Types, Process, SkipExisting, Step, X, MustUpload, scDisk
<1>3. Types' /\ Mem'
  BY <1>1 DEF LedgerInv, Types, Process, Mem, SkipExisting, Step, In, InTurn, AfterLoop, scDisk
<1>4. Turn'
  BY <1>2 DEF LedgerInv, Types, Process, Turn, SkipExisting, SkipLocal, SkipWorker, Step, scDisk
<1>5. CompletedHasCopy'
  BY DEF LedgerInv, CompletedHasCopy, Copy, SkipExisting, scDisk
<1> QED BY <1>3, <1>4, <1>5 DEF LedgerInv

\* The one step that harms a file: if the ledger had X, the worker has it.
LEMMA OpenKeepsInv ==
  ASSUME LedgerInv, OpenExpert PROVE LedgerInv'
<1>1. scProc.next \in DOMAIN Plan /\ X \in Wanted
  BY InPlan, XWanted DEF LedgerInv, Types, Process, OpenExpert
<1>2. Types' /\ Mem' /\ Turn'
  BY <1>1 DEF LedgerInv, Types, Process, Mem, Turn, OpenExpert, Step, In, InTurn, AfterLoop, FileState
<1>3. scProc.mem = scLedger \/ scLedger.done = {}
  BY DEF LedgerInv, Mem, OpenExpert, In, EmptyLedger
<1>4. CompletedHasCopy'
  BY <1>1, <1>3
  DEF LedgerInv, Types, Process, CompletedHasCopy, Copy, OpenExpert, SkipLocal
<1> QED BY <1>2, <1>4 DEF LedgerInv

LEMMA WriteKeepsInv ==
  ASSUME LedgerInv, WriteExpert PROVE LedgerInv'
<1>1. scProc.next \in DOMAIN Plan /\ X \in Wanted
  BY TurnOfX DEF LedgerInv, Types, Process, WriteExpert, In, InTurn
<1>2. X' = X /\ MustUpload' = MustUpload
  BY DEF LedgerInv, Types, Process, WriteExpert, Step, X, MustUpload
<1>3. Types' /\ Mem'
  BY <1>1 DEF LedgerInv, Types, Process, Mem, WriteExpert, Step, In, InTurn, AfterLoop, FileState
<1>4. Turn'
  BY <1>1, <1>2 DEF LedgerInv, Types, Process, Turn, WriteExpert, Step
<1>5. CompletedHasCopy'
  BY <1>1 DEF LedgerInv, Types, Process, CompletedHasCopy, Copy, WriteExpert
<1> QED BY <1>3, <1>4, <1>5 DEF LedgerInv

LEMMA UploadKeepsInv ==
  ASSUME LedgerInv, UploadArrives PROVE LedgerInv'
<1>1. scProc.next \in DOMAIN Plan /\ X \in Wanted
  BY TurnOfX DEF LedgerInv, Types, Process, UploadArrives, In, InTurn
<1>2. X' = X /\ MustUpload' = MustUpload
  BY DEF LedgerInv, Types, Process, UploadArrives, Step, X, MustUpload
<1>3. Types' /\ Mem'
  BY <1>1 DEF LedgerInv, Types, Process, Mem, UploadArrives, Step, In, InTurn, AfterLoop, FileState
<1>4. Turn'
  BY <1>1, <1>2 DEF LedgerInv, Types, Process, Turn, UploadArrives, Step, In
<1>5. CompletedHasCopy'
  BY DEF LedgerInv, CompletedHasCopy, Copy, UploadArrives
<1> QED BY <1>3, <1>4, <1>5 DEF LedgerInv

LEMMA LogUploadedKeepsInv ==
  ASSUME LedgerInv, LogUploaded PROVE LedgerInv'
<1>1. scProc.next \in DOMAIN Plan /\ X \in Wanted
  BY TurnOfX DEF LedgerInv, Types, Process, LogUploaded, In, InTurn
<1> DEFINE ledger == [scProc.mem EXCEPT !.uploaded = @ \cup {X}]
           pc == IF scCmd.delete THEN "unlink" ELSE "log"
<1>2. /\ scProc' = [[scProc EXCEPT !.mem = ledger] EXCEPT !.pc = pc]
      /\ scLedger' = IF scCmd.keepLedger THEN ledger ELSE scLedger
      /\ UNCHANGED <<scCmd, scFile, scWorker, scCore, scIndex>>
  BY DEF LogUploaded, Log
<1>3. ledger \in Ledger /\ ledger.done = scProc.mem.done
  BY <1>1 DEF LedgerInv, Types, Process, Ledger
<1>4. scProc'.pc = pc /\ scProc'.next = scProc.next /\ scProc'.mem = ledger
  BY <1>2 DEF LedgerInv, Types, Process
<1>5. X' = X /\ MustUpload' = MustUpload
  BY <1>2, <1>4 DEF X, MustUpload
<1>6. Types'
  BY <1>1, <1>2, <1>3 DEF LedgerInv, Types, Process, InTurn, AfterLoop
<1>7. Mem' /\ Turn'
  BY <1>2, <1>4, <1>5 DEF LedgerInv, Mem, Turn, LogUploaded, In
<1>8. CompletedHasCopy'
  BY <1>2, <1>3 DEF LedgerInv, Mem, CompletedHasCopy, Copy, LogUploaded, In
<1> QED BY <1>6, <1>7, <1>8 DEF LedgerInv

LEMMA DeleteKeepsInv ==
  ASSUME LedgerInv, DeleteUploaded PROVE LedgerInv'
<1>1. scProc.next \in DOMAIN Plan /\ X \in Wanted
  BY TurnOfX DEF LedgerInv, Types, Process, DeleteUploaded, In, InTurn
<1>2. X' = X /\ MustUpload' = MustUpload
  BY DEF LedgerInv, Types, Process, DeleteUploaded, Step, X, MustUpload
<1>3. Types' /\ Mem'
  BY <1>1 DEF LedgerInv, Types, Process, Mem, DeleteUploaded, Step, In, InTurn, AfterLoop, FileState
<1>4. Turn'
  BY <1>1, <1>2 DEF LedgerInv, Types, Process, Turn, DeleteUploaded, Step, In
<1>5. CompletedHasCopy'
  BY <1>1 DEF LedgerInv, Types, Process, Turn, CompletedHasCopy, Copy, DeleteUploaded, In
<1> QED BY <1>3, <1>4, <1>5 DEF LedgerInv

LEMMA LogConvertedKeepsInv ==
  ASSUME LedgerInv, LogConverted PROVE LedgerInv'
<1>1. scProc.next \in DOMAIN Plan /\ X \in Wanted
  BY TurnOfX DEF LedgerInv, Types, Process, LogConverted, In, InTurn
<1> DEFINE ledger == [scProc.mem EXCEPT !.done = @ \cup {X}]
<1>2. /\ scProc' = [[[scProc EXCEPT !.mem = ledger] EXCEPT !.pc = "expert"] EXCEPT !.next = @ + 1]
      /\ scLedger' = IF scCmd.keepLedger THEN ledger ELSE scLedger
      /\ UNCHANGED <<scCmd, scFile, scWorker, scCore, scIndex>>
  BY DEF LogConverted
<1>3. ledger \in Ledger /\ ledger.done = scProc.mem.done \cup {X}
  BY <1>1 DEF LedgerInv, Types, Process, Ledger
<1>4. scProc'.pc = "expert" /\ scProc'.mem = ledger
  BY <1>2 DEF LedgerInv, Types, Process
<1> HIDE DEF ledger
<1>5. Types'
  <2>1. scProc' \in Process
    <3> DEFINE first == [scProc EXCEPT !.mem = ledger]
               second == [first EXCEPT !.pc = "expert"]
    <3>1. scProc.next \in Nat \ {0}
      BY DEF LedgerInv, Types, Process
    <3>2. first \in Process
      BY <1>3 DEF LedgerInv, Types, Process
    <3> HIDE DEF first
    <3>3. second \in Process
      BY <3>2 DEF Process
    <3>4. second.next \in Nat \ {0}
      BY <3>3 DEF Process
    <3>5. scProc' = [second EXCEPT !.next = @ + 1]
      BY <1>2 DEF first
    <3> HIDE DEF second
    <3>6. second.next + 1 \in Nat \ {0}
      BY <3>4
    <3> QED BY <3>3, <3>5, <3>6 DEF Process
  <2> QED
    BY <1>2, <1>3, <1>4, <2>1 DEF LedgerInv, Types, Process, InTurn
<1>6. Mem' /\ Turn'
  BY <1>2, <1>4 DEF LedgerInv, Mem, Turn
<1>7. Copy(X)
  BY DEF LedgerInv, Turn, LogConverted, In, Copy
<1>8. CompletedHasCopy'
  BY <1>2, <1>3, <1>7 DEF LedgerInv, Mem, CompletedHasCopy, Copy, LogConverted, In
<1> QED BY <1>5, <1>6, <1>8 DEF LedgerInv

LEMMA CoreKeepsInv ==
  ASSUME LedgerInv, OpenCore \/ FinishCore \/ OpenIndex \/ WriteIndex \/ PatchRemoteFetch
  PROVE LedgerInv'
<1>1. \E pc \in {"expert"} \cup AfterLoop :
        Step(pc) /\ scProc.pc # "stopped" /\ UNCHANGED <<scCmd, scLedger, scFile, scWorker>>
  BY DEF OpenCore, FinishCore, OpenIndex, WriteIndex, PatchRemoteFetch, In, AfterLoop
<1>2. scCore' \in FileState /\ scIndex' \in [state : FileState, remote : BOOLEAN]
  <2>1. scCmd.worker \in BOOLEAN
    BY CmdTypes DEF LedgerInv, Types, Process
  <2>2. CASE OpenCore \/ FinishCore
    BY <2>2 DEF LedgerInv, Types, Process, FileState, OpenCore, FinishCore
  <2>3. CASE OpenIndex \/ WriteIndex
    <3>1. /\ \E state \in FileState : scIndex' = [state |-> state, remote |-> FALSE]
          /\ scCore' = scCore
      BY <2>3 DEF FileState, OpenIndex, WriteIndex
    <3> QED BY <3>1 DEF LedgerInv, Types, Process
  <2>4. CASE PatchRemoteFetch
    BY <2>1, <2>4 DEF LedgerInv, Types, Process, PatchRemoteFetch
  <2> QED BY <2>2, <2>3, <2>4
<1>3. /\ scProc' \in Process
      /\ scProc'.pc \in {"expert"} \cup AfterLoop
      /\ scProc'.mem = scProc.mem
  BY <1>1 DEF LedgerInv, Types, Process, Step
<1>4. Types' /\ Mem' /\ Turn'
  BY <1>1, <1>2, <1>3 DEF LedgerInv, Types, Process, Mem, Turn, InTurn, AfterLoop
<1>5. CompletedHasCopy'
  BY DEF LedgerInv, CompletedHasCopy, Copy, OpenCore, FinishCore, OpenIndex, WriteIndex,
         PatchRemoteFetch
<1> QED BY <1>4, <1>5 DEF LedgerInv

LEMMA FinishKeepsInv ==
  ASSUME LedgerInv, LogFinished PROVE LedgerInv'
<1> DEFINE ledger == [scProc.mem EXCEPT !.finished = TRUE]
<1>1. /\ scProc' = [scProc EXCEPT !.mem = ledger, !.pc = "exit"]
      /\ scLedger' = IF scCmd.keepLedger THEN ledger ELSE scLedger
      /\ UNCHANGED <<scCmd, scFile, scWorker, scCore, scIndex>>
  BY DEF LogFinished, Log
<1>2. ledger \in Ledger /\ ledger.done = scProc.mem.done
  BY DEF LedgerInv, Types, Process, Ledger
<1>3. scProc' = [[scProc EXCEPT !.mem = ledger] EXCEPT !.pc = "exit"]
  BY <1>1
<1>4. scProc'.pc = "exit" /\ scProc'.mem = ledger
  BY <1>3 DEF LedgerInv, Types, Process
<1>5. scProc' \in Process
  <2> DEFINE first == [scProc EXCEPT !.mem = ledger]
  <2>1. first \in Process
    BY <1>2 DEF LedgerInv, Types, Process
  <2> HIDE DEF first
  <2>2. [first EXCEPT !.pc = "exit"] \in Process
    BY <2>1 DEF Process, AfterLoop
  <2> QED BY <1>3, <2>2 DEF first
<1> HIDE DEF ledger
<1>6. Types' /\ Mem' /\ Turn'
  BY <1>1, <1>2, <1>4, <1>5 DEF LedgerInv, Types, Mem, Turn, InTurn
<1>7. CompletedHasCopy'
  BY <1>1, <1>2 DEF LedgerInv, Mem, CompletedHasCopy, Copy, LogFinished, In
<1> QED BY <1>6, <1>7 DEF LedgerInv

LEMMA NextKeepsInv == LedgerInv /\ [StreamNext]_scVars => LedgerInv'
<1> SUFFICES ASSUME LedgerInv, [StreamNext]_scVars PROVE LedgerInv'
  OBVIOUS
<1>1. CASE StreamNext
  BY <1>1, StartKeepsInv, StopKeepsInv, SkipKeepsInv, OpenKeepsInv, WriteKeepsInv, UploadKeepsInv,
     LogUploadedKeepsInv, DeleteKeepsInv, LogConvertedKeepsInv, CoreKeepsInv, FinishKeepsInv
  DEF StreamNext, StreamWork, convert_stream, convert_experts_only, ConvertExpert, Publish
<1>2. CASE UNCHANGED scVars
  BY <1>2 DEF LedgerInv, Types, Process, Mem, Turn, X, MustUpload, CompletedHasCopy, Copy, scVars, scDisk
<1> QED BY <1>1, <1>2

\* The ledger of convert_stream and convert_experts_only is never ahead of the files:
\* an expert it calls converted has a whole copy here or on the worker.
THEOREM LedgerIsTrue == StreamSpec => []CompletedHasCopy
<1>1. StreamInit => LedgerInv
  BY InitTypes DEF StreamInit, LedgerInv, Mem, Turn, Stopped, EmptyLedger, CompletedHasCopy
<1>2. LedgerInv => CompletedHasCopy
  BY DEF LedgerInv
<1> QED BY <1>1, <1>2, NextKeepsInv, PTL DEF StreamSpec

---------------------------------------------------------------------------
(* What an exit status of 0 is worth *)

\* --skip-existing is given to expert-only conversions: a full one believes any two
\* files it finds, also those a crash left behind.
SkipIsExpertOnly == \A c \in StreamCommands : c.skip => c.expertsOnly

Served(x) == scFile[x] = "whole" \/ (scCmd.worker /\ x \in scWorker)

Done ==
  /\ scIndex = [state |-> "whole", remote |-> scCmd.worker]
  /\ ~scCmd.expertsOnly => scCore = "whole"
  /\ \A i \in DOMAIN Plan : Served(Plan[i])

\* What the running process has behind it.
Behind ==
  /\ \A i \in DOMAIN Plan : i < scProc.next => Served(Plan[i])
  /\ scProc.pc \in AfterLoop =>
       scProc.next > Len(Plan) /\ (~scCmd.expertsOnly => scCore = "whole")
  /\ scProc.pc \in {"patch", "finish", "exit"} => scIndex.state = "whole"
  /\ scProc.pc \in {"finish", "exit"} => scIndex.remote = scCmd.worker

\* The two signs of success: the exit status, and a finished ledger for --skip-existing.
Signs ==
  /\ scProc.exit = "ok" => scProc.pc = "stopped" /\ Done
  /\ scCmd.skip /\ scLedger.finished => scProc.pc \in {"stopped", "exit"} /\ Done

ServedInv == LedgerInv /\ Behind /\ Signs

\* Nothing but the expert of the turn changes, so the steps behind it keep their worth.
LEMMA OnlyXChanges ==
  ASSUME Types, Behind, scProc.next \in DOMAIN Plan, scCmd' = scCmd,
         \A y \in Wanted : y # X => scFile'[y] = scFile[y], scWorker \subseteq scWorker'
  PROVE \A i \in DOMAIN Plan : i < scProc.next => Served(Plan[i])'
<1> SUFFICES ASSUME NEW i \in DOMAIN Plan, i < scProc.next PROVE Served(Plan[i])'
  OBVIOUS
<1>1. Plan[i] # X /\ Plan[i] \in Wanted
  BY StreamAssumption DEF X, Wanted, Range
<1>2. Served(Plan[i])
  BY DEF Behind
<1> QED BY <1>1, <1>2 DEF Served

\* No step of the loop is taken by a process that has finished, or whose ledger has.
LEMMA LoopNotFinished ==
  ASSUME Signs, scProc.pc \notin {"stopped", "exit"}
  PROVE scProc.exit # "ok" /\ ~(scCmd.skip /\ scLedger.finished)
  BY DEF Signs

LEMMA TurnKeeps ==
  ASSUME ServedInv, scProc.pc \notin {"stopped", "exit"}, scProc.next \in DOMAIN Plan,
         scCmd' = scCmd, scLedger'.finished = scLedger.finished,
         \A y \in Wanted : y # X => scFile'[y] = scFile[y], scWorker \subseteq scWorker',
         scProc'.next = scProc.next, scProc'.exit = scProc.exit,
         scProc'.pc \in {"expert"} \cup InTurn
  PROVE (Behind /\ Signs)'
<1>1. Types /\ Behind /\ Signs
  BY DEF ServedInv, LedgerInv
<1>2. \A i \in DOMAIN Plan : i < scProc.next => Served(Plan[i])'
  BY <1>1, OnlyXChanges
<1>3. Behind'
  BY <1>2 DEF Behind, InTurn, AfterLoop
<1>4. Signs'
  BY <1>1, LoopNotFinished DEF Signs
<1> QED BY <1>3, <1>4

LEMMA TurnServes ==
  ASSUME ServedInv, SkipExisting \/ OpenExpert \/ WriteExpert \/ UploadArrives
                    \/ LogUploaded \/ DeleteUploaded
  PROVE (Behind /\ Signs)'
<1>1. Types
  BY DEF ServedInv, LedgerInv
<1>2. scProc.next \in DOMAIN Plan /\ scProc.pc \in {"expert"} \cup InTurn
  BY <1>1, InPlan DEF Types, Process, SkipExisting, OpenExpert, WriteExpert, UploadArrives,
                      LogUploaded, DeleteUploaded, In, InTurn
<1>3. X \in Wanted
  BY <1>2, XWanted
<1>4. /\ \A y \in Wanted : y # X => scFile'[y] = scFile[y]
      /\ scWorker \subseteq scWorker' /\ scCmd' = scCmd
  BY <1>1, <1>3 DEF Types, SkipExisting, OpenExpert, WriteExpert, UploadArrives, LogUploaded,
                    DeleteUploaded, scDisk
<1>5. CASE LogUploaded
  <2>1. \E ledger \in Ledger : \E pc \in InTurn :
          /\ ledger = [scProc.mem EXCEPT !.uploaded = @ \cup {X}]
          /\ scProc' = [scProc EXCEPT !.mem = ledger, !.pc = pc]
          /\ scLedger' = IF scCmd.keepLedger THEN ledger ELSE scLedger
    BY <1>1, <1>3, <1>5 DEF Types, Process, Ledger, LogUploaded, Log, InTurn
  <2>2. PICK ledger \in Ledger, pc \in InTurn :
          /\ ledger = [scProc.mem EXCEPT !.uploaded = @ \cup {X}]
          /\ scProc' = [scProc EXCEPT !.mem = ledger, !.pc = pc]
          /\ scLedger' = IF scCmd.keepLedger THEN ledger ELSE scLedger
    BY <2>1
  <2>3. ledger.finished = scProc.mem.finished
    BY <1>1, <2>2 DEF Types, Process, Ledger
  <2>4. scLedger'.finished = scLedger.finished
    BY <1>2, <2>2, <2>3 DEF ServedInv, LedgerInv, Mem, InTurn
  <2>5. scProc'.next = scProc.next /\ scProc'.exit = scProc.exit /\ scProc'.pc \in InTurn
    BY <1>1, <2>2 DEF Types, Process
  <2> QED BY <1>2, <1>4, <2>4, <2>5, TurnKeeps DEF InTurn
<1>6. CASE ~LogUploaded
  <2>1. scLedger' = scLedger /\ \E pc \in {"expert"} \cup InTurn : scProc' = [scProc EXCEPT !.pc = pc]
    BY <1>2, <1>6 DEF ServedInv, LedgerInv, Types, Process, SkipExisting, OpenExpert, WriteExpert,
       UploadArrives, DeleteUploaded, Step, scDisk, InTurn
  <2>2. /\ scProc'.next = scProc.next /\ scProc'.exit = scProc.exit
        /\ scProc'.pc \in {"expert"} \cup InTurn
    BY <1>1, <2>1 DEF Types, Process
  <2> QED BY <1>2, <1>4, <2>1, <2>2, TurnKeeps DEF InTurn
<1> QED BY <1>5, <1>6

LEMMA ConvertedServes ==
  ASSUME ServedInv, LogConverted PROVE (Behind /\ Signs)'
<1>1. Types /\ Behind /\ Signs /\ In("log")
  BY DEF ServedInv, LedgerInv, LogConverted
<1>2. scProc.next \in DOMAIN Plan /\ scProc.next \in Nat
  BY <1>1 DEF Types, Process, In, InTurn
<1> DEFINE ledger == [scProc.mem EXCEPT !.done = @ \cup {X}]
<1>3. /\ scProc' = [scProc EXCEPT !.mem = ledger, !.pc = "expert", !.next = @ + 1]
      /\ scLedger' = IF scCmd.keepLedger THEN ledger ELSE scLedger
      /\ UNCHANGED <<scCmd, scFile, scWorker, scCore, scIndex>>
  BY DEF LogConverted
<1>4. ledger.finished = scProc.mem.finished
  BY <1>1 DEF Types, Process, Ledger
<1>5. scLedger'.finished = scLedger.finished
  BY <1>1, <1>3, <1>4 DEF ServedInv, LedgerInv, Mem, In
<1>6. scProc'.pc = "expert" /\ scProc'.next = scProc.next + 1 /\ scProc'.exit = scProc.exit
  BY <1>1, <1>3 DEF Types, Process
<1> HIDE DEF ledger
<1>7. Served(Plan[scProc.next])
  BY <1>1 DEF ServedInv, LedgerInv, Turn, In, Served, X, MustUpload
<1>8. \A i \in DOMAIN Plan : i < scProc.next + 1 => Served(Plan[i])
  BY <1>1, <1>2, <1>7, StreamAssumption DEF Behind
<1>9. Behind'
  BY <1>3, <1>6, <1>8 DEF Behind, Served, AfterLoop
<1>10. Signs'
  BY <1>1, <1>3, <1>5, <1>6, LoopNotFinished DEF Signs, In
<1> QED BY <1>9, <1>10

\* The output that --skip-existing finds is the one whose ledger has finished.
LEMMA StartServes ==
  ASSUME ServedInv, SkipIsExpertOnly, StartStream PROVE (Behind /\ Signs)'
<1> DEFINE ledger == IF scCmd.keepLedger THEN scLedger ELSE EmptyLedger
           started == [scProc EXCEPT !.mem = ledger, !.exit = "none"]
<1>1. Types /\ Signs /\ In("stopped") /\ scProc.exit # "ok" /\ UNCHANGED <<scCmd, scDisk>>
  BY DEF ServedInv, LedgerInv, StartStream
<1>2. ledger \in Ledger /\ ledger = scLedger
  BY <1>1, EmptyIsLedger DEF Types, ServedInv, LedgerInv, Mem
<1>3. scProc' = IF OutputPresent(ledger)
                THEN [started EXCEPT !.mem = EmptyLedger, !.exit = "ok"]
                ELSE [started EXCEPT !.pc = IF scCmd.expertsOnly THEN "expert" ELSE "core"]
  BY DEF StartStream
<1> HIDE DEF ledger
<1>4. started \in Process /\ started.pc = "stopped" /\ started.next = scProc.next
  BY <1>1, <1>2 DEF Types, Process, In
<1>5. started.exit = "none"
  BY <1>1 DEF Types, Process
<1> HIDE DEF started
<1>6. CASE OutputPresent(ledger)
  <2>1. scProc'.pc = "stopped" /\ scProc'.next = scProc.next
    BY <1>3, <1>4, <1>6 DEF Process
  <2>2. scCmd.skip /\ scLedger.finished
    BY <1>1, <1>2, <1>6 DEF OutputPresent, SkipIsExpertOnly, Types
  <2>3. Done'
    BY <1>1, <2>2 DEF Signs, Done, Served, scDisk
  <2>4. Behind'
    BY <1>1, <2>1 DEF ServedInv, Behind, Served, AfterLoop, scDisk
  <2> QED BY <2>1, <2>3, <2>4 DEF Signs
<1>7. CASE ~OutputPresent(ledger)
  <2>1. scProc'.pc \in {"expert", "core"} /\ scProc'.next = scProc.next /\ scProc'.exit = "none"
    BY <1>3, <1>4, <1>5, <1>7 DEF Process
  <2>2. ~(scCmd.skip /\ scLedger.finished)
    BY <1>1, <1>2, <1>7 DEF OutputPresent, SkipIsExpertOnly, Types, Signs, Done
  <2>3. Behind'
    BY <1>1, <2>1 DEF ServedInv, Behind, Served, AfterLoop, scDisk
  <2> QED BY <1>1, <2>1, <2>2, <2>3 DEF Signs, scDisk
<1> QED BY <1>6, <1>7

LEMMA CoreServes ==
  ASSUME ServedInv, OpenCore \/ FinishCore \/ OpenIndex \/ WriteIndex \/ PatchRemoteFetch
  PROVE (Behind /\ Signs)'
<1>1. /\ Types /\ Behind /\ Signs /\ scProc.pc \notin {"stopped", "exit"}
      /\ UNCHANGED <<scCmd, scLedger, scFile, scWorker>>
  BY DEF ServedInv, LedgerInv, OpenCore, FinishCore, OpenIndex, WriteIndex, PatchRemoteFetch, In
<1>2. \A i \in DOMAIN Plan : i < scProc.next => Served(Plan[i])'
  BY <1>1 DEF Behind, Served
<1>3. \A pc \in {"expert"} \cup AfterLoop : Step(pc) =>
        scProc'.pc = pc /\ scProc'.next = scProc.next /\ scProc'.exit = scProc.exit
  BY <1>1 DEF Types, Process, Step
<1>4. scProc'.next = scProc.next /\ scProc'.exit = scProc.exit
  BY <1>3 DEF OpenCore, FinishCore, OpenIndex, WriteIndex, PatchRemoteFetch, AfterLoop
<1>5. Signs'
  BY <1>1, <1>4, LoopNotFinished DEF Signs
<1>6. CASE OpenCore
  BY <1>2, <1>3, <1>4, <1>5, <1>6 DEF OpenCore, Behind, AfterLoop
<1>7. CASE FinishCore
  BY <1>1, <1>2, <1>3, <1>4, <1>5, <1>7 DEF FinishCore, Behind, AfterLoop
<1>8. CASE OpenIndex
  <2>1. scProc.pc = "index" /\ scProc'.pc = "write_index" /\ scCore' = scCore
    BY <1>3, <1>8 DEF OpenIndex, In, AfterLoop
  <2> QED BY <1>1, <1>2, <1>4, <1>5, <2>1 DEF Behind, AfterLoop
<1>9. CASE WriteIndex
  <2>1. scProc.pc = "write_index" /\ scProc'.pc = "patch" /\ scCore' = scCore
    BY <1>3, <1>9 DEF WriteIndex, In, AfterLoop
  <2>2. scIndex'.state = "whole"
    BY <1>9 DEF WriteIndex
  <2> QED BY <1>1, <1>2, <1>4, <1>5, <2>1, <2>2 DEF Behind, AfterLoop
<1>10. CASE PatchRemoteFetch
  <2>1. scIndex'.state = scIndex.state /\ scIndex'.remote = scCmd.worker
    BY <1>1, <1>10 DEF Types, PatchRemoteFetch
  <2>2. scProc.pc = "patch" /\ scProc'.pc = "finish" /\ scCore' = scCore
    BY <1>3, <1>10 DEF PatchRemoteFetch, In, AfterLoop
  <2> QED BY <1>1, <1>2, <1>4, <1>5, <2>1, <2>2 DEF Behind, AfterLoop
<1> QED BY <1>6, <1>7, <1>8, <1>9, <1>10

\* A process that has published everything leaves a model that can be served.
LEMMA PublishedIsDone ==
  ASSUME Types, Behind, scProc.pc \in {"finish", "exit"} PROVE Done
<1>1. scProc.next \in Nat /\ scProc.next > Len(Plan)
  BY DEF Types, Process, Behind, AfterLoop
<1>2. \A i \in DOMAIN Plan : i < scProc.next
  BY <1>1, StreamAssumption
<1>3. scIndex = [state |-> "whole", remote |-> scCmd.worker]
  BY DEF Types, Behind
<1> QED BY <1>2, <1>3 DEF Done, Behind, AfterLoop

LEMMA FinishServes ==
  ASSUME ServedInv, LogFinished PROVE (Behind /\ Signs)'
<1> DEFINE ledger == [scProc.mem EXCEPT !.finished = TRUE]
<1>1. /\ Types /\ Behind /\ Signs /\ scProc.pc = "finish"
      /\ UNCHANGED <<scCmd, scFile, scWorker, scCore, scIndex>>
      /\ scProc' = [scProc EXCEPT !.mem = ledger, !.pc = "exit"]
  BY DEF ServedInv, LedgerInv, LogFinished, Log, In
<1>2. scProc'.pc = "exit" /\ scProc'.next = scProc.next /\ scProc'.exit = scProc.exit
  BY <1>1 DEF Types, Process
<1>3. Done /\ Done'
  BY <1>1, PublishedIsDone DEF Done, Served
<1>4. Behind'
  BY <1>1, <1>2 DEF Behind, Served, AfterLoop
<1>5. Signs'
  BY <1>1, <1>2, <1>3 DEF Signs
<1> QED BY <1>4, <1>5

LEMMA StopServes ==
  ASSUME ServedInv, StreamDies \/ preflight_space \/ ReturnZero PROVE (Behind /\ Signs)'
<1>1. Types /\ Behind /\ Signs /\ UNCHANGED <<scCmd, scDisk>>
  BY DEF ServedInv, LedgerInv, StreamDies, preflight_space, ReturnZero
<1>2. scProc'.pc = "stopped" /\ scProc'.next = 1
  BY DEF StreamDies, preflight_space, ReturnZero, Stopped
<1>3. Done => Done'
  BY <1>1 DEF Done, Served, scDisk
<1>4. scProc'.exit = "ok" => Done
  BY <1>1, PublishedIsDone DEF StreamDies, preflight_space, ReturnZero, Stopped, In
<1>5. Behind'
  BY <1>2, StreamAssumption DEF Behind, AfterLoop
<1>6. Signs'
  BY <1>1, <1>2, <1>3, <1>4 DEF Signs, scDisk
<1> QED BY <1>5, <1>6

LEMMA NextServes ==
  ASSUME SkipIsExpertOnly
  PROVE ServedInv /\ [StreamNext]_scVars => ServedInv'
<1> SUFFICES ASSUME ServedInv, [StreamNext]_scVars PROVE ServedInv'
  OBVIOUS
<1>1. LedgerInv'
  BY NextKeepsInv DEF ServedInv
<1>2. CASE StreamNext
  BY <1>1, <1>2, StartServes, StopServes, TurnServes, ConvertedServes, CoreServes, FinishServes
  DEF ServedInv, StreamNext, StreamWork, convert_stream, convert_experts_only, ConvertExpert,
      Publish
<1>3. CASE UNCHANGED scVars
  BY <1>1, <1>3 DEF ServedInv, Behind, Signs, Done, Served, scVars, scDisk
<1> QED BY <1>2, <1>3

\* If --skip-existing is left to expert-only conversions, a run of
\* stream_convert_glm52.py that exits with 0 leaves a model that can be served,
\* whatever died before it and wherever.
THEOREM SuccessServes ==
  ASSUME SkipIsExpertOnly
  PROVE StreamSpec => []SuccessIsServable
<1>1. StreamInit => ServedInv
  <2> SUFFICES ASSUME StreamInit PROVE ServedInv
    OBVIOUS
  <2>1. LedgerInv
    BY InitTypes DEF StreamInit, LedgerInv, Mem, Turn, Stopped, EmptyLedger, CompletedHasCopy
  <2>2. scProc.pc = "stopped" /\ scProc.next = 1 /\ scProc.exit = "none" /\ ~scLedger.finished
    BY DEF StreamInit, Stopped, EmptyLedger
  <2> QED BY <2>1, <2>2, StreamAssumption DEF ServedInv, Behind, Signs, AfterLoop
<1>2. ServedInv => SuccessIsServable
  <2> SUFFICES ASSUME ServedInv, scProc.exit = "ok" PROVE SuccessIsServable
    BY DEF SuccessIsServable
  <2>1. Done
    BY DEF ServedInv, Signs
  <2>2. \A x \in Wanted : Served(x)
    BY <2>1 DEF Done, Wanted, Range
  <2> QED BY <2>1, <2>2 DEF Done, Served, SuccessIsServable
<1> QED BY <1>1, <1>2, NextServes, PTL DEF StreamSpec

---------------------------------------------------------------------------
(* The download: the inductive invariant *)

ShardFile == [len : Nat \cup {-1}, good : BOOLEAN]

Downloader ==
    [pc : {"rest", "probe", "open", "body", "replace", "end"}, todo : SUBSET DOMAIN Shards,
     selected : Nat, done : Nat, errors : {0, 1}, size : {NoSize, ShardUnits}, got : Nat,
     left : Nat, aligned : BOOLEAN, all : BOOLEAN, faults : Nat]

Reports ==
    [metadata : {"none", "ready", "blocked_errors"},
     shards : {"none", "blocked_low_disk", "dry_run_ready", "running", "partial_or_blocked",
               "ready", "ready_limited"},
     inventory : {"none", "blocked_missing_index", "blocked_missing_safetensors",
                  "blocked_unknown_tensor_roles", "ready_for_metadata_converter_dry_run",
                  "ready_for_converter_dry_run"},
     missing : SUBSET Range(Shards),
     dryRun : {"none", "blocked_mapping_gap", "ready_for_payload_converter_dry_run",
               "ready_for_metadata_converter_dry_run"}]

DownloadTyped ==
    /\ dlRepo \in Repositories
    /\ dlProc \in Downloader
    /\ dlFile \in [Range(Shards) -> ShardFile]
    /\ dlPart \in [Range(Shards) -> ShardFile]
    /\ dlReport \in Reports

Exists(s) == dlFile[s].len >= 0

\* What the downloader knows of the shard it fetches, and what it may leave out.
Fetching ==
    /\ dlProc.pc \in {"open", "body", "replace"} =>
          /\ dlProc.todo # {}
          /\ dlProc.size = IF dlRepo.sized THEN ShardUnits ELSE NoSize
    /\ dlProc.pc \in {"body", "replace"} => dlPart[Shard].len = dlProc.got
    /\ DlAt("body") /\ dlRepo.ranges => dlProc.aligned
    /\ DlAt("replace") /\ dlRepo.sized => dlProc.got = ShardUnits
    /\ DlAt("end") => dlProc.errors = 1
    /\ dlProc.all /\ dlProc.pc \in {"probe", "open", "body", "replace"} =>
          \A i \in DOMAIN Shards : i \in dlProc.todo \/ Exists(Shards[i])

Installed ==
    /\ dlRepo.ranges => \A s \in Range(Shards) : dlFile[s].good /\ dlPart[s].good
    /\ dlRepo.sized => \A s \in Range(Shards) : dlFile[s] = NoFile \/ dlFile[s].len = ShardUnits

\* A file that is there stays there, so that a report of it stays true.
Reported ==
    /\ dlReport.shards = "ready" => \A s \in Range(Shards) : Exists(s)
    /\ dlReport.inventory # "none" =>
          \A s \in Range(Shards) : Exists(s) \/ s \in dlReport.missing
    /\ dlReport.dryRun = "ready_for_payload_converter_dry_run" =>
          \A s \in Range(Shards) : Exists(s)

DownloadInv == DownloadTyped /\ Fetching /\ Installed /\ Reported

---------------------------------------------------------------------------
(* The downloader moves *)

LEMMA ShardNumbers ==
  /\ Len(Shards) \in Nat /\ DOMAIN Shards = 1 .. Len(Shards)
  /\ \A i \in DOMAIN Shards : i \in Nat /\ Shards[i] \in Range(Shards)
  /\ \A s \in Range(Shards) : \E i \in DOMAIN Shards : s = Shards[i]
<1>1. Shards \in Seq(Range(Shards))
  BY DownloadAssumption
<1>2. Len(Shards) \in Nat /\ DOMAIN Shards = 1 .. Len(Shards)
  BY <1>1
<1> QED BY <1>2 DEF Range

LEMMA LeastPosition ==
  ASSUME NEW S \in SUBSET DOMAIN Shards, S # {}
  PROVE Min(S) \in S
<1> DEFINE below == OpToRel(<, Nat)
<1>1. \A x, y \in Nat : y < x => <<y, x>> \in below
  BY DEF OpToRel
<1>2. IsWellFoundedOn(below, Nat)
  BY NatLessThanWellFounded
<1> HIDE DEF below
<1>3. S \subseteq Nat
  BY ShardNumbers
<1>4. \E x \in S : \A y \in S : ~(<<y, x>> \in below)
  BY <1>2, <1>3, WFMin
<1>5. PICK x \in S : \A y \in S : ~(<<y, x>> \in below)
  BY <1>4
<1>6. \A y \in S : ~(y < x)
  BY <1>1, <1>3, <1>5
<1>7. \A y \in S : x <= y
  BY <1>3, <1>6
<1> QED BY <1>7 DEF Min

LEMMA InFetch ==
  ASSUME DownloadInv, dlProc.todo # {}
  PROVE Min(dlProc.todo) \in DOMAIN Shards /\ Shard \in Range(Shards)
<1>1. dlProc.todo \in SUBSET DOMAIN Shards
  BY DEF DownloadInv, DownloadTyped, Downloader
<1> QED BY <1>1, LeastPosition, ShardNumbers DEF Shard

\* The files and the reports stay, and the downloader moves.
LEMMA OnlyMoves ==
  ASSUME DownloadInv, UNCHANGED <<dlRepo, dlFile, dlPart, dlReport>>, dlProc' \in Downloader,
         Fetching'
  PROVE DownloadInv'
  BY DEF DownloadInv, DownloadTyped, Installed, Reported, Exists

LEMMA RestIsNothing ==
  ASSUME NEW r \in Downloader, r.pc = "rest", dlProc' = r
  PROVE Fetching'
  BY DEF Fetching, DlAt

LEMMA RestingTyped ==
  ASSUME NEW n \in Nat
  PROVE /\ [Resting EXCEPT !.faults = n] \in Downloader
        /\ [Resting EXCEPT !.faults = n].pc = "rest"
<1>1. NoSize \in {NoSize, ShardUnits} /\ {} \in SUBSET DOMAIN Shards
  OBVIOUS
<1> QED BY <1>1 DEF Resting, Downloader

LEMMA StartKeeps ==
  ASSUME DownloadInv, StartDownload
  PROVE DownloadInv'
<1>1. PICK execute \in BOOLEAN, limit \in ShardLimits :
        LET Before(i) == {k \in Missing : k < i}
            selected == {i \in Missing : limit > 0 => Cardinality(Before(i)) < limit}
        IN  IF ~Feasible
            THEN /\ dlReport' = [dlReport EXCEPT !.shards = "blocked_low_disk"]
                 /\ UNCHANGED dlProc
            ELSE IF ~execute
            THEN /\ dlReport' = [dlReport EXCEPT !.shards = "dry_run_ready"]
                 /\ UNCHANGED dlProc
            ELSE /\ dlReport' = [dlReport EXCEPT !.shards = "running"]
                 /\ dlProc' = [Resting EXCEPT !.pc = "probe", !.todo = selected,
                                              !.selected = Cardinality(selected),
                                              !.all = (limit = 0), !.faults = dlProc.faults]
  BY DEF StartDownload
<1> DEFINE selected == {i \in Missing : limit > 0 => Cardinality({k \in Missing : k < i}) < limit}
           n == Cardinality(selected)
           all == limit = 0
<1>2. /\ dlRepo' = dlRepo /\ dlFile' = dlFile /\ dlPart' = dlPart /\ DlAt("rest")
  BY DEF StartDownload
<1>3. \E w \in {"blocked_low_disk", "dry_run_ready", "running"} :
         dlReport' = [dlReport EXCEPT !.shards = w]
  BY <1>1
<1>4. PICK w \in {"blocked_low_disk", "dry_run_ready", "running"} :
         dlReport' = [dlReport EXCEPT !.shards = w]
  BY <1>3
<1>5. /\ dlReport' \in Reports
      /\ dlReport'.shards # "ready" /\ dlReport'.inventory = dlReport.inventory
      /\ dlReport'.missing = dlReport.missing /\ dlReport'.dryRun = dlReport.dryRun
  <2>1. w # "ready" /\ w \in {"blocked_low_disk", "dry_run_ready", "running"}
    BY <1>4
  <2>2. dlReport \in Reports
    BY DEF DownloadInv, DownloadTyped
  <2> QED BY <1>4, <2>1, <2>2 DEF Reports
<1>6. Installed' /\ Reported'
  BY <1>2, <1>5 DEF DownloadInv, Installed, Reported, Exists
<1>7. dlProc' \in Downloader /\ Fetching'
  <2>1. CASE dlProc' = dlProc
    BY <1>2, <2>1 DEF DownloadInv, DownloadTyped, Fetching, DlAt, Exists, Shard
  <2>2. CASE dlProc' = [Resting EXCEPT !.pc = "probe", !.todo = selected, !.selected = n,
                                       !.all = all, !.faults = dlProc.faults]
    <3>1. Missing \subseteq DOMAIN Shards /\ selected \in SUBSET DOMAIN Shards
      BY DEF Missing
    <3>2. n \in Nat
      <4>1. IsFiniteSet(DOMAIN Shards)
        BY ShardNumbers, FS_Interval
      <4> QED BY <3>1, <4>1, FS_Subset, FS_CardinalityType
    <3>3. all \in BOOLEAN /\ dlProc.faults \in Nat
      BY DEF DownloadInv, DownloadTyped, Downloader
    <3>4. all => \A i \in DOMAIN Shards : i \in selected \/ Exists(Shards[i])
      <4>1. all => selected = Missing
        BY DownloadAssumption
      <4>2. \A i \in DOMAIN Shards : i \in Missing \/ Exists(Shards[i])
        <5> SUFFICES ASSUME NEW i \in DOMAIN Shards, i \notin Missing PROVE Exists(Shards[i])
          OBVIOUS
        <5>1. dlFile[Shards[i]].len > 0
          BY DEF Missing, IsPresent
        <5>2. dlFile[Shards[i]].len \in Nat \cup {-1}
          BY ShardNumbers DEF DownloadInv, DownloadTyped, ShardFile
        <5> QED BY <5>1, <5>2 DEF Exists
      <4> QED BY <4>1, <4>2
    <3> HIDE DEF selected, n, all
    <3>5. /\ dlProc' \in Downloader /\ dlProc'.pc = "probe" /\ dlProc'.todo = selected
          /\ dlProc'.all = all
      BY <2>2, <3>1, <3>2, <3>3 DEF Resting, Downloader
    <3> QED BY <1>2, <3>4, <3>5 DEF Fetching, DlAt, Exists
  <2> QED BY <1>1, <2>1, <2>2
<1> QED BY <1>2, <1>5, <1>6, <1>7 DEF DownloadInv, DownloadTyped

\* The five ways the downloader goes on without a change on the disk.
LEMMA MoveKeeps ==
  ASSUME DownloadInv, ProbeSize \/ RangeRefused \/ EndBody \/ DownloadFails
  PROVE DownloadInv'
<1>0. /\ dlProc \in Downloader /\ UNCHANGED <<dlRepo, dlFile, dlPart, dlReport>>
      /\ dlProc.todo \in SUBSET DOMAIN Shards
  BY DEF DownloadInv, DownloadTyped, Downloader, ProbeSize, RangeRefused, EndBody,
         DownloadFails, dlDisk
<1>1. CASE ProbeSize
  <2> DEFINE z == IF dlRepo.sized THEN ShardUnits ELSE NoSize
  <2>1. /\ dlProc' = [dlProc EXCEPT !.pc = "open", !.size = z]
        /\ dlProc.pc = "probe" /\ dlProc.todo # {} /\ z \in {NoSize, ShardUnits}
    BY <1>1 DEF ProbeSize, DlAt
  <2> HIDE DEF z
  <2>2. /\ dlProc' \in Downloader /\ dlProc'.pc = "open" /\ dlProc'.size = z
        /\ dlProc'.todo = dlProc.todo /\ dlProc'.all = dlProc.all
    BY <1>0, <2>1 DEF Downloader
  <2>3. Fetching'
    BY <1>0, <2>1, <2>2 DEF DownloadInv, Fetching, DlAt, Exists, z
  <2> QED BY <1>0, <2>2, <2>3, OnlyMoves
<1>2. ASSUME NEW n \in Nat, dlProc' = [dlProc EXCEPT !.pc = "end", !.errors = 1, !.faults = n]
      PROVE DownloadInv'
  <2>1. dlProc' \in Downloader /\ dlProc'.pc = "end" /\ dlProc'.errors = 1
    BY <1>0, <1>2 DEF Downloader
  <2>2. Fetching'
    BY <2>1 DEF Fetching, DlAt
  <2> QED BY <1>0, <2>1, <2>2, OnlyMoves
<1>3. dlProc.faults \in Nat /\ dlProc.faults + 1 \in Nat
  BY <1>0 DEF Downloader
<1>4. CASE RangeRefused
  <2>1. dlProc' = [dlProc EXCEPT !.pc = "end", !.errors = 1, !.faults = dlProc.faults]
    BY <1>0, <1>4 DEF RangeRefused, Downloader
  <2> QED BY <1>2, <1>3, <2>1
<1>5. CASE EndBody
  <2> DEFINE n == dlProc.faults + (IF dlProc.left > 0 THEN 1 ELSE 0)
  <2>1. /\ dlProc.pc = "body"
        /\ dlProc' = IF dlProc.size = NoSize \/ dlProc.got = dlProc.size
                     THEN [dlProc EXCEPT !.pc = "replace", !.faults = n]
                     ELSE [dlProc EXCEPT !.pc = "end", !.errors = 1, !.faults = n]
    BY <1>5 DEF EndBody, DlAt
  <2>2. n \in Nat
    BY <1>3
  <2> HIDE DEF n
  <2>3. CASE dlProc.size = NoSize \/ dlProc.got = dlProc.size
    <3>1. /\ dlProc' \in Downloader /\ dlProc'.pc = "replace" /\ dlProc'.size = dlProc.size
          /\ dlProc'.todo = dlProc.todo /\ dlProc'.all = dlProc.all /\ dlProc'.got = dlProc.got
      BY <1>0, <2>1, <2>2, <2>3 DEF Downloader
    <3>2. dlRepo.sized => dlProc.got = ShardUnits
      <4>1. ShardUnits # NoSize
        BY DownloadAssumption DEF NoSize
      <4> QED BY <2>1, <2>3, <4>1 DEF DownloadInv, Fetching
    <3>3. Fetching'
      BY <1>0, <2>1, <3>1, <3>2 DEF DownloadInv, Fetching, DlAt, Exists, Shard
    <3> QED BY <1>0, <3>1, <3>3, OnlyMoves
  <2>4. CASE ~(dlProc.size = NoSize \/ dlProc.got = dlProc.size)
    BY <1>2, <2>1, <2>2, <2>4
  <2> QED BY <2>3, <2>4
<1>6. CASE DownloadFails
  <2>1. CASE dlProc' = [Resting EXCEPT !.faults = dlProc.faults + 1]
    <3>1. dlProc' \in Downloader /\ dlProc'.pc = "rest"
      BY <1>3, <2>1, RestingTyped
    <3>2. Fetching'
      BY <3>1, RestIsNothing
    <3> QED BY <1>0, <3>1, <3>2, OnlyMoves
  <2>2. CASE dlProc' = [dlProc EXCEPT !.pc = "end", !.errors = 1, !.faults = dlProc.faults + 1]
    BY <1>2, <1>3, <2>2
  <2> QED BY <1>6, <2>1, <2>2 DEF DownloadFails
<1> QED BY <1>1, <1>4, <1>5, <1>6

---------------------------------------------------------------------------
(* The files *)

LEMMA OpenKeeps ==
  ASSUME DownloadInv, OpenBody
  PROVE DownloadInv'
<1>0. /\ dlProc \in Downloader /\ dlProc.pc = "open" /\ dlProc.todo # {}
      /\ Shard \in Range(Shards) /\ dlPart \in [Range(Shards) -> ShardFile]
      /\ dlRepo' = dlRepo /\ dlFile' = dlFile /\ dlReport' = dlReport
  BY InFetch DEF DownloadInv, DownloadTyped, Fetching, OpenBody, DlAt
<1> DEFINE start == Bytes(dlPart[Shard])
           ranged == dlRepo.ranges /\ start > 0
           left == IF ranged THEN ShardUnits - start ELSE ShardUnits
           aligned == ranged \/ start = 0
           f == IF start = 0 THEN [len |-> 0, good |-> TRUE] ELSE dlPart[Shard]
<1>1. /\ ~(ranged /\ start >= ShardUnits)
      /\ dlProc' = [dlProc EXCEPT !.pc = "body", !.got = start, !.left = left,
                                  !.aligned = aligned]
      /\ dlPart' = [dlPart EXCEPT ![Shard] = f]
  BY DEF OpenBody
<1>2. dlPart[Shard] \in ShardFile
  BY <1>0
<1>3. start \in Nat /\ (start # 0 => dlPart[Shard].len = start)
  BY <1>2 DEF Bytes, ShardFile
<1>4. left \in Nat
  BY <1>1, <1>3, DownloadAssumption
<1>5. aligned \in BOOLEAN
  OBVIOUS
<1>6. dlRepo.ranges => aligned
  BY <1>3
<1>7. f \in ShardFile /\ f.len = start
  BY <1>2, <1>3 DEF ShardFile
<1>8. dlRepo.ranges => f.good
  BY <1>0 DEF DownloadInv, Installed
<1> HIDE DEF start, left, aligned, f
<1>9. /\ dlProc' \in Downloader /\ dlProc'.pc = "body" /\ dlProc'.got = start
      /\ dlProc'.todo = dlProc.todo /\ dlProc'.size = dlProc.size
      /\ dlProc'.all = dlProc.all /\ dlProc'.aligned = aligned
  BY <1>0, <1>1, <1>3, <1>4, <1>5 DEF Downloader
<1>10. /\ dlPart' \in [Range(Shards) -> ShardFile] /\ dlPart'[Shard] = f
       /\ \A s \in Range(Shards) : s # Shard => dlPart'[s] = dlPart[s]
  BY <1>0, <1>1, <1>7
<1>11. Shard' = Shard
  BY <1>9 DEF Shard
<1>12. Fetching'
  BY <1>0, <1>6, <1>7, <1>9, <1>10, <1>11 DEF DownloadInv, Fetching, DlAt, Exists
<1>13. Installed'
  BY <1>0, <1>8, <1>10 DEF DownloadInv, Installed
<1> QED BY <1>0, <1>9, <1>10, <1>12, <1>13 DEF DownloadInv, DownloadTyped, Reported, Exists

LEMMA ReadKeeps ==
  ASSUME DownloadInv, ReadChunk
  PROVE DownloadInv'
<1>0. /\ dlProc \in Downloader /\ dlProc.pc = "body" /\ dlProc.todo # {} /\ dlProc.left > 0
      /\ Shard \in Range(Shards) /\ dlPart \in [Range(Shards) -> ShardFile]
      /\ dlRepo' = dlRepo /\ dlFile' = dlFile /\ dlReport' = dlReport
  BY InFetch DEF DownloadInv, DownloadTyped, Fetching, ReadChunk, DlAt
<1> DEFINE left == dlProc.left - 1
           got == dlProc.got + 1
           len == dlPart[Shard].len + 1
           good == dlPart[Shard].good /\ dlProc.aligned
           f == [len |-> len, good |-> good]
<1>1. /\ dlProc' = [dlProc EXCEPT !.left = left, !.got = got]
      /\ dlPart' = [dlPart EXCEPT ![Shard] = f]
  BY DEF ReadChunk
<1>2. dlPart[Shard].len = dlProc.got /\ dlProc.got \in Nat /\ dlProc.left \in Nat
  BY <1>0 DEF DownloadInv, Fetching, Downloader
<1>3. left \in Nat /\ got \in Nat /\ len = got
  BY <1>0, <1>2
<1>4. good \in BOOLEAN
  OBVIOUS
<1>5. dlRepo.ranges => good
  BY <1>0 DEF DownloadInv, Installed, Fetching, DlAt
<1> HIDE DEF left, got, len, good
<1>6. f \in ShardFile /\ f.len = got /\ f.good = good
  BY <1>3, <1>4 DEF ShardFile
<1> HIDE DEF f
<1>7. /\ dlProc' \in Downloader /\ dlProc'.pc = "body" /\ dlProc'.got = got
      /\ dlProc'.todo = dlProc.todo /\ dlProc'.size = dlProc.size
      /\ dlProc'.all = dlProc.all /\ dlProc'.aligned = dlProc.aligned
  BY <1>0, <1>1, <1>3 DEF Downloader
<1>8. /\ dlPart' \in [Range(Shards) -> ShardFile] /\ dlPart'[Shard] = f
      /\ \A s \in Range(Shards) : s # Shard => dlPart'[s] = dlPart[s]
  BY <1>0, <1>1, <1>6
<1>9. Shard' = Shard
  BY <1>7 DEF Shard
<1>10. Fetching'
  BY <1>0, <1>6, <1>7, <1>8, <1>9 DEF DownloadInv, Fetching, DlAt, Exists
<1>11. Installed'
  BY <1>0, <1>5, <1>6, <1>8 DEF DownloadInv, Installed
<1> QED BY <1>0, <1>7, <1>8, <1>10, <1>11 DEF DownloadInv, DownloadTyped, Reported, Exists

\* The .part file gets its name when it has the size that was announced.
LEMMA ReplaceKeeps ==
  ASSUME DownloadInv, ReplacePart
  PROVE DownloadInv'
<1>0. /\ dlProc \in Downloader /\ dlProc.pc = "replace" /\ dlProc.todo # {}
      /\ dlProc.todo \in SUBSET DOMAIN Shards
      /\ Shard \in Range(Shards) /\ dlPart \in [Range(Shards) -> ShardFile]
      /\ dlFile \in [Range(Shards) -> ShardFile]
      /\ dlRepo' = dlRepo /\ dlReport' = dlReport
  BY InFetch DEF DownloadInv, DownloadTyped, Fetching, ReplacePart, DlAt, Downloader
<1> DEFINE rest == dlProc.todo \ {Min(dlProc.todo)}
           n == dlProc.done + 1
           f == dlPart[Shard]
<1>1. /\ dlProc' = [dlProc EXCEPT !.pc = "probe", !.todo = rest, !.done = n]
      /\ dlFile' = [dlFile EXCEPT ![Shard] = f]
      /\ dlPart' = [dlPart EXCEPT ![Shard] = NoFile]
  BY DEF ReplacePart
<1>2. /\ f \in ShardFile /\ f.len = dlProc.got /\ dlProc.got \in Nat
      /\ dlRepo.sized => f.len = ShardUnits
      /\ dlRepo.ranges => f.good
  BY <1>0 DEF DownloadInv, Fetching, Installed, Downloader, DlAt
<1>3. rest \in SUBSET DOMAIN Shards /\ n \in Nat
  BY <1>0 DEF Downloader
<1>4. NoFile \in ShardFile /\ NoFile.good
  BY DEF NoFile, ShardFile
<1>5. \A i \in dlProc.todo : i \in rest \/ Shards[i] = Shard
  BY DEF Shard
<1> HIDE DEF rest, n, f
<1>6. /\ dlProc' \in Downloader /\ dlProc'.pc = "probe" /\ dlProc'.todo = rest
      /\ dlProc'.all = dlProc.all
  BY <1>0, <1>1, <1>3 DEF Downloader
<1>7. /\ dlFile' \in [Range(Shards) -> ShardFile] /\ dlFile'[Shard] = f
      /\ \A s \in Range(Shards) : s # Shard => dlFile'[s] = dlFile[s]
  BY <1>0, <1>1, <1>2
<1>8. /\ dlPart' \in [Range(Shards) -> ShardFile]
      /\ \A s \in Range(Shards) : dlPart'[s] = dlPart[s] \/ dlPart'[s] = NoFile
  BY <1>0, <1>1, <1>4
<1>9. dlFile'[Shard].len >= 0 /\ \A s \in Range(Shards) : Exists(s) => dlFile'[s].len >= 0
  <2>1. f.len >= 0
    BY <1>2
  <2> QED BY <1>7, <2>1 DEF Exists
<1>10. Fetching'
  <2>1. dlProc.all => \A i \in DOMAIN Shards : i \in dlProc.todo \/ Exists(Shards[i])
    BY <1>0 DEF DownloadInv, Fetching
  <2>2. dlProc.all => \A i \in DOMAIN Shards : i \in rest \/ dlFile'[Shards[i]].len >= 0
    BY <1>5, <1>9, <2>1, ShardNumbers
  <2> QED BY <1>6, <2>2 DEF Fetching, DlAt, Exists
<1>11. Installed'
  BY <1>0, <1>2, <1>4, <1>7, <1>8 DEF DownloadInv, Installed
<1>12. Reported'
  BY <1>0, <1>9 DEF DownloadInv, Reported, Exists
<1> QED BY <1>0, <1>6, <1>7, <1>8, <1>10, <1>11, <1>12 DEF DownloadInv, DownloadTyped

---------------------------------------------------------------------------
(* The reports *)

LEMMA FinishKeeps ==
  ASSUME DownloadInv, FinishDownload
  PROVE DownloadInv'
<1>0. /\ dlProc \in Downloader /\ dlReport \in Reports
      /\ dlRepo' = dlRepo /\ dlFile' = dlFile /\ dlPart' = dlPart
      /\ dlProc' = [Resting EXCEPT !.faults = dlProc.faults]
  BY DEF DownloadInv, DownloadTyped, FinishDownload
<1> DEFINE w == IF dlProc.errors > 0 \/ dlProc.done # dlProc.selected THEN "partial_or_blocked"
                ELSE IF dlProc.all THEN "ready" ELSE "ready_limited"
<1>1. dlReport' = [dlReport EXCEPT !.shards = w]
  BY DEF FinishDownload
<1>2. w \in {"partial_or_blocked", "ready", "ready_limited"}
  OBVIOUS
<1>3. w = "ready" => \A s \in Range(Shards) : Exists(s)
  <2> SUFFICES ASSUME w = "ready" PROVE \A s \in Range(Shards) : Exists(s)
    OBVIOUS
  <2>1. ~(dlProc.errors > 0) /\ dlProc.all
    OBVIOUS
  <2>2. dlProc.errors # 1
    BY <2>1
  <2>3. dlProc.pc = "probe" /\ dlProc.todo = {}
    BY <2>2 DEF FinishDownload, DownloadInv, Fetching, DlAt
  <2> QED BY <2>1, <2>3, ShardNumbers DEF DownloadInv, Fetching
<1> HIDE DEF w
<1>4. /\ dlReport' \in Reports /\ dlReport'.shards = w
      /\ dlReport'.inventory = dlReport.inventory
      /\ dlReport'.missing = dlReport.missing /\ dlReport'.dryRun = dlReport.dryRun
  BY <1>0, <1>1, <1>2 DEF Reports
<1>5. dlProc' \in Downloader /\ dlProc'.pc = "rest"
  <2>1. dlProc.faults \in Nat
    BY <1>0 DEF Downloader
  <2> QED BY <1>0, <2>1, RestingTyped
<1>6. Fetching'
  BY <1>5, RestIsNothing
<1>7. Reported'
  BY <1>0, <1>3, <1>4 DEF DownloadInv, Reported, Exists
<1> QED BY <1>0, <1>4, <1>5, <1>6, <1>7 DEF DownloadInv, DownloadTyped, Installed

LEMMA MetadataKeeps ==
  ASSUME DownloadInv, DownloadMetadata
  PROVE DownloadInv'
<1>0. /\ dlProc \in Downloader /\ dlReport \in Reports /\ dlProc.pc = "rest"
      /\ dlRepo' = dlRepo /\ dlFile' = dlFile /\ dlPart' = dlPart
  BY DEF DownloadInv, DownloadTyped, DownloadMetadata, DlAt
<1>1. PICK got \in SUBSET metadata_selected :
         /\ dlProc' = [dlProc EXCEPT
               !.faults = IF got = metadata_selected THEN @ ELSE @ + 1]
         /\ dlReport' = [dlReport EXCEPT !.metadata =
               IF got # {} /\ got = metadata_selected THEN "ready" ELSE "blocked_errors"]
  BY DEF DownloadMetadata
<1> DEFINE n == IF got = metadata_selected THEN dlProc.faults ELSE dlProc.faults + 1
           w == IF got # {} /\ got = metadata_selected THEN "ready" ELSE "blocked_errors"
<1>2. /\ dlProc' = [dlProc EXCEPT !.faults = n]
      /\ dlReport' = [dlReport EXCEPT !.metadata = w]
      /\ w \in {"ready", "blocked_errors"}
  BY <1>1
<1>3. n \in Nat
  BY <1>0 DEF Downloader
<1> HIDE DEF n, w
<1>4. dlProc' \in Downloader /\ dlProc'.pc = "rest"
  BY <1>0, <1>2, <1>3 DEF Downloader
<1>5. /\ dlReport' \in Reports /\ dlReport'.shards = dlReport.shards
      /\ dlReport'.inventory = dlReport.inventory
      /\ dlReport'.missing = dlReport.missing /\ dlReport'.dryRun = dlReport.dryRun
  BY <1>0, <1>2 DEF Reports
<1>6. Fetching'
  BY <1>4, RestIsNothing
<1> QED BY <1>0, <1>4, <1>5, <1>6 DEF DownloadInv, DownloadTyped, Installed, Reported, Exists

LEMMA InventoryKeeps ==
  ASSUME DownloadInv, PlanInventory
  PROVE DownloadInv'
<1>0. /\ dlReport \in Reports
      /\ dlRepo' = dlRepo /\ dlProc' = dlProc /\ dlFile' = dlFile /\ dlPart' = dlPart
  BY DEF DownloadInv, DownloadTyped, PlanInventory
<1>1. PICK metadataOnly \in BOOLEAN :
         dlReport' = [dlReport EXCEPT !.inventory = inventory_status(metadataOnly),
                                      !.missing = Range(Shards) \ PresentNames]
  BY DEF PlanInventory
<1> DEFINE v == inventory_status(metadataOnly)
           m == Range(Shards) \ PresentNames
<1>2. v \in {"blocked_missing_index", "blocked_missing_safetensors",
             "blocked_unknown_tensor_roles", "ready_for_metadata_converter_dry_run",
             "ready_for_converter_dry_run"}
  BY DEF inventory_status
<1>3. m \in SUBSET Range(Shards) /\ \A s \in Range(Shards) : Exists(s) \/ s \in m
  BY DEF PresentNames, Exists
<1> HIDE DEF v, m
<1>4. dlReport' = [dlReport EXCEPT !.inventory = v, !.missing = m]
  BY <1>1 DEF v, m
<1>5. /\ dlReport' \in Reports /\ dlReport'.shards = dlReport.shards
      /\ dlReport'.missing = m /\ dlReport'.dryRun = dlReport.dryRun
  BY <1>0, <1>2, <1>3, <1>4 DEF Reports
<1> QED BY <1>0, <1>3, <1>5 DEF DownloadInv, DownloadTyped, Fetching, Installed, Reported,
                               Exists, DlAt, Shard

\* The dry run lets the conversion start if the inventory missed nothing.
LEMMA DryRunKeeps ==
  ASSUME DownloadInv, ConverterDryRun
  PROVE DownloadInv'
<1>0. /\ dlReport \in Reports /\ dlReport.inventory # "none"
      /\ dlRepo' = dlRepo /\ dlProc' = dlProc /\ dlFile' = dlFile /\ dlPart' = dlPart
  BY DEF DownloadInv, DownloadTyped, ConverterDryRun
<1> DEFINE w == IF ~(dlRepo.roles \subseteq MappedRoles) THEN "blocked_mapping_gap"
                ELSE IF dlReport.missing = {} THEN "ready_for_payload_converter_dry_run"
                ELSE "ready_for_metadata_converter_dry_run"
<1>1. dlReport' = [dlReport EXCEPT !.dryRun = w]
  BY DEF ConverterDryRun
<1>2. w \in {"blocked_mapping_gap", "ready_for_payload_converter_dry_run",
             "ready_for_metadata_converter_dry_run"}
  OBVIOUS
<1>3. w = "ready_for_payload_converter_dry_run" => \A s \in Range(Shards) : Exists(s)
  <2>1. w = "ready_for_payload_converter_dry_run" => dlReport.missing = {}
    OBVIOUS
  <2> QED BY <1>0, <2>1 DEF DownloadInv, Reported
<1> HIDE DEF w
<1>4. /\ dlReport' \in Reports /\ dlReport'.shards = dlReport.shards
      /\ dlReport'.inventory = dlReport.inventory
      /\ dlReport'.missing = dlReport.missing /\ dlReport'.dryRun = w
  BY <1>0, <1>1, <1>2 DEF Reports
<1> QED BY <1>0, <1>3, <1>4 DEF DownloadInv, DownloadTyped, Fetching, Installed, Reported,
                               Exists, DlAt, Shard

---------------------------------------------------------------------------
(* The theorem *)

LEMMA DownloadInvariance == DownloadSpec => []DownloadInv
<1>1. DownloadInit => DownloadInv
  <2> SUFFICES ASSUME DownloadInit PROVE DownloadInv
    OBVIOUS
  <2>1. /\ dlRepo \in Repositories /\ dlProc = Resting /\ dlReport = NoReports
        /\ dlFile = [s \in Range(Shards) |-> NoFile]
        /\ dlPart = [s \in Range(Shards) |-> NoFile]
    BY DEF DownloadInit
  <2>2. Resting \in Downloader /\ Resting.pc = "rest"
    BY DEF Resting, Downloader
  <2>3. NoFile \in ShardFile /\ NoFile.good
    BY DEF NoFile, ShardFile
  <2>4. NoReports \in Reports /\ NoReports.shards = "none" /\ NoReports.inventory = "none"
        /\ NoReports.dryRun = "none"
    BY DEF NoReports, Reports
  <2>5. Fetching
    BY <2>1, <2>2 DEF Fetching, DlAt
  <2>6. Installed
    BY <2>1, <2>3 DEF Installed
  <2>7. Reported
    BY <2>1, <2>4 DEF Reported
  <2> QED BY <2>1, <2>2, <2>3, <2>4, <2>5, <2>6, <2>7 DEF DownloadInv, DownloadTyped
<1>2. DownloadInv /\ [DownloadNext]_dlVars => DownloadInv'
  <2> SUFFICES ASSUME DownloadInv, [DownloadNext]_dlVars PROVE DownloadInv'
    OBVIOUS
  <2>1. CASE UNCHANGED dlVars
    BY <2>1 DEF dlVars, dlDisk, DownloadInv, DownloadTyped, Fetching, Installed, Reported,
                Exists, DlAt, Shard
  <2>2. CASE DownloadNext
    BY <2>2, StartKeeps, MoveKeeps, OpenKeeps, ReadKeeps, ReplaceKeeps, FinishKeeps,
       MetadataKeeps, InventoryKeeps, DryRunKeeps
       DEF DownloadNext, download_shards, download_one
  <2> QED BY <2>1, <2>2
<1> QED BY <1>1, <1>2, PTL DEF DownloadSpec

\* Whatever connections close early, servers ignore and runs die: a weight file from a
\* server that honours ranges is the remote file, and what one tool reports as ready the
\* next one accepts.
THEOREM DownloadAlwaysSound == DownloadSpec => []DownloadSound
<1>1. DownloadInv => DownloadSound
  <2> SUFFICES ASSUME DownloadInv PROVE DownloadSound
    OBVIOUS
  <2>1. \A s \in Range(Shards) : dlFile[s] = [len |-> dlFile[s].len, good |-> dlFile[s].good]
    BY DEF DownloadInv, DownloadTyped, ShardFile
  <2>2. \A s \in Range(Shards) : dlRepo.ranges => dlFile[s].good = TRUE
    BY DEF DownloadInv, Installed, DownloadTyped, ShardFile
  <2>3. InstalledIsWhole
    <3>1. ASSUME dlRepo.ranges, NEW s \in Range(Shards), dlFile[s].len = ShardUnits
          PROVE Whole(s)
      BY <2>1, <2>2, <3>1 DEF Whole
    <3>2. estimate_status = "ready" => \A s \in Range(Shards) : dlFile[s].len = ShardUnits
      BY DEF estimate_status
    <3> QED BY <3>1, <3>2 DEF InstalledIsWhole, DownloadInv, Installed
  <2>4. (\A s \in Range(Shards) : Exists(s)) =>
           /\ PresentNames = Range(Shards)
           /\ Cardinality(PresentNames) = Len(Shards)
    <3>1. (\A s \in Range(Shards) : Exists(s)) => PresentNames = Range(Shards)
      BY DEF PresentNames, Exists
    <3>2. Cardinality(Range(Shards)) = Len(Shards)
      <4>1. Shards \in Bijection(1 .. Len(Shards), Range(Shards))
        <5>1. DOMAIN Shards = 1 .. Len(Shards) /\ Shards \in Seq(Range(Shards))
          BY DownloadAssumption, ShardNumbers
        <5>2. Shards \in [1 .. Len(Shards) -> Range(Shards)]
          BY <5>1
        <5>3. IsInjective(Shards)
          BY DownloadAssumption
        <5>4. \A t \in Range(Shards) : \E n \in 1 .. Len(Shards) : Shards[n] = t
          BY ShardNumbers
        <5> QED BY <5>2, <5>3, <5>4 DEF Bijection, Injection, Surjection
      <4>2. IsFiniteSet(1 .. Len(Shards)) /\ Cardinality(1 .. Len(Shards)) = Len(Shards)
        BY ShardNumbers, FS_Interval
      <4> QED BY <4>1, <4>2, FS_Bijection DEF ExistsBijection
    <3> QED BY <3>1, <3>2
  <2>5. VerdictsChain
    <3>1. dlReport.shards = "ready"
            => compute_status \in {"ready_for_converter_dry_run", "blocked_missing_metadata"}
      <4>1. Len(Shards) \in Nat
        BY ShardNumbers
      <4> QED BY <2>4, <4>1 DEF DownloadInv, Reported, compute_status
    <3>2. ASSUME dlReport.dryRun = "ready_for_payload_converter_dry_run",
                 NEW s \in Range(Shards)
          PROVE IF dlRepo.sized THEN IsPresent(s) ELSE s \in PresentNames
      <4>1. Exists(s)
        BY <3>2 DEF DownloadInv, Reported
      <4>2. dlRepo.sized => dlFile[s] = NoFile \/ dlFile[s].len = ShardUnits
        BY <3>2 DEF DownloadInv, Installed
      <4>3. dlFile[s] # NoFile
        BY <4>1 DEF Exists, NoFile
      <4> QED BY <3>2, <4>1, <4>2, <4>3, DownloadAssumption DEF IsPresent, PresentNames, Exists
    <3> QED BY <3>1, <3>2 DEF VerdictsChain
  <2> QED BY <2>3, <2>5 DEF DownloadSound
<1> QED BY <1>1, DownloadInvariance, PTL

---------------------------------------------------------------------------
(* The conversion of a downloaded checkpoint *)

SequenceOfEntries(s) == s \in Seq(Range(s))

ConvertTyped ==
  /\ DOMAIN cvProc = {"pc", "run", "li", "todo", "pos", "layers", "experts", "exit"}
  /\ SequenceOfEntries(cvProc.layers) /\ SequenceOfEntries(cvProc.experts)
  /\ DOMAIN cvDisk = {"core", "files", "debug", "index", "report", "progress"}
  /\ DOMAIN cvDisk.core = {"state", "blocks", "size", "manifest"}

EntryFile(entry) == <<entry.layer, entry.expert>>

\* The files of the experts listed so far are whole, but for the one that is filled.
Filled ==
  cvProc.pc # "idle" /\ IsRaw(cvCmd) =>
    \A i \in DOMAIN cvProc.experts :
       LET file == EntryFile(cvProc.experts[i]) IN
       /\ file \in DOMAIN cvDisk.files
       /\ \/ cvDisk.files[file] = "whole"
          \/ cvProc.pc = "fill" /\ file = <<Layer, Head(cvProc.todo)>>

\* What the steps behind the process have written.
Written ==
  /\ cvProc.pc = "fill" => <<Layer, Head(cvProc.todo)>> \in DOMAIN cvDisk.files
  /\ cvProc.pc \in {"validate", "debug", "index", "fill_index", "ready"} =>
       /\ cvDisk.core.state = "whole"
       /\ cvDisk.core.manifest = <<cvProc.layers, cvProc.experts>>
  /\ cvProc.pc \in {"index", "fill_index", "ready"} /\ IsRaw(cvCmd) =>
       \A i \in DOMAIN cvProc.layers :
          Aligned(cvProc.layers[i].offset) /\ Aligned(cvProc.layers[i].disk)
  /\ cvProc.pc = "ready" =>
       IsRaw(cvCmd) /\ cvDisk.index = [state |-> "whole", experts |-> cvProc.experts]

\* The word is only out while nobody works on the core it is about.
Promised == cvDisk.progress = "ready" => cvProc.pc = "idle" /\ IsRaw(cvCmd) /\ ReadyIsWhole

ConvertInv == ConvertTyped /\ Filled /\ Written /\ Promised

LEMMA AppendEntry ==
  ASSUME NEW s, SequenceOfEntries(s), NEW e
  PROVE  /\ SequenceOfEntries(Append(s, e))
         /\ DOMAIN Append(s, e) = DOMAIN s \cup {Len(s) + 1}
         /\ \A i \in DOMAIN s : Append(s, e)[i] = s[i]
         /\ Append(s, e)[Len(s) + 1] = e
         /\ Len(s) \in Nat /\ DOMAIN s = 1 .. Len(s)
         /\ Len(Append(s, e)) = Len(s) + 1
<1> DEFINE S == Range(s) \cup {e}
           t == Append(s, e)
<1>1. s \in Seq(S)
  BY DEF SequenceOfEntries
<1>2. /\ t \in Seq(S)
      /\ Len(t) = Len(s) + 1
      /\ \A i \in 1 .. Len(s) : t[i] = s[i]
      /\ t[Len(s) + 1] = e
  BY <1>1, AppendProperties
<1>3. Len(s) \in Nat /\ DOMAIN s = 1 .. Len(s) /\ DOMAIN t = 1 .. Len(s) + 1
  BY <1>1, <1>2, LenProperties
<1> HIDE DEF t
<1>4. t \in Seq(Range(t))
  <2>1. \A i \in 1 .. Len(t) : t[i] \in Range(t)
    BY <1>2, <1>3 DEF Range
  <2> QED BY <1>2, <2>1, SeqDef, IsASeq, LenProperties
<1> QED BY <1>2, <1>3, <1>4 DEF SequenceOfEntries, t

LEMMA StartConvertKeeps ==
  ASSUME ConvertInv, StartConvert
  PROVE  ConvertInv'
<1> USE DEF ConvertInv, ConvertTyped
<1>1. cvProc.pc = "idle" /\ cvCmd' = cvCmd
  BY DEF StartConvert, At
<1>2. /\ cvProc'.layers = <<>> /\ cvProc'.experts = <<>>
      /\ DOMAIN cvProc' = DOMAIN cvProc
      /\ cvProc'.pc \in {"idle", "reserve"}
  BY DEF StartConvert, Idle
<1>3. /\ DOMAIN cvDisk' = DOMAIN cvDisk
      /\ cvDisk'.core = cvDisk.core /\ cvDisk'.files = cvDisk.files
      /\ cvDisk'.index = cvDisk.index
      /\ cvDisk'.progress = "ready" => cvDisk.progress = "ready" /\ cvProc'.pc = "idle"
  BY <1>2 DEF StartConvert, Announce, Promised, Idle
<1>4. ConvertTyped'
  BY <1>2, <1>3 DEF SequenceOfEntries, Range
<1>5. Filled' /\ Written'
  BY <1>2 DEF Filled, Written
<1>6. Promised'
  BY <1>1, <1>3 DEF Promised, ReadyIsWhole, ValidatorStatus, parse_block
<1> QED BY <1>4, <1>5, <1>6

LEMMA DiesKeeps ==
  ASSUME ConvertInv, ConvertDies
  PROVE  ConvertInv'
  BY DEF ConvertInv, ConvertTyped, Filled, Written, Promised, ConvertDies, Exit, Idle,
         ReadyIsWhole, ValidatorStatus, parse_block, At, SequenceOfEntries, Range

LEMMA ReserveKeeps ==
  ASSUME ConvertInv, ReserveManifest
  PROVE  ConvertInv'
  BY DEF ConvertInv, ConvertTyped, Filled, Written, Promised, ReserveManifest, NoCore, At,
         EntryFile

LEMMA GlobalKeeps ==
  ASSUME ConvertInv, GlobalBlock
  PROVE  ConvertInv'
<1> USE DEF ConvertInv, ConvertTyped
<1> DEFINE entry == LayerEntry(NextBlock(NoId, NoId, GlobalRefs(cvCmd)), 0, 0)
<1>1. /\ cvProc.pc = "global" /\ cvCmd' = cvCmd
      /\ cvProc'.pc = "dense" /\ cvProc'.layers = <<entry>>
      /\ cvProc'.experts = cvProc.experts
      /\ DOMAIN cvProc' = DOMAIN cvProc
  BY DEF GlobalBlock, At
<1>2. /\ DOMAIN cvDisk' = DOMAIN cvDisk /\ DOMAIN cvDisk'.core = DOMAIN cvDisk.core
      /\ cvDisk'.files = cvDisk.files /\ cvDisk'.progress = cvDisk.progress
  BY DEF GlobalBlock, WriteBlock
<1> HIDE DEF entry
<1>3. SequenceOfEntries(<<entry>>)
  BY DEF SequenceOfEntries, Range
<1> QED BY <1>1, <1>2, <1>3 DEF Filled, Written, Promised, SequenceOfEntries

LEMMA DenseKeeps ==
  ASSUME ConvertInv, DenseBlock
  PROVE  ConvertInv'
<1> USE DEF ConvertInv, ConvertTyped
<1> DEFINE refs == DenseRefs(cvCmd, Layer)
           block == NextBlock(Layer, NoId, refs)
           entry == LayerEntry(block, Len(cvProc.experts), Len(ExpertIds(cvCmd, Layer)))
<1>1. CASE refs = <<>>
  <2>1. /\ cvProc.pc = "dense" /\ UNCHANGED <<cvCmd, cvDisk>>
        /\ cvProc' = [Idle EXCEPT !.run = cvProc.run, !.exit = "error"]
    BY <1>1 DEF DenseBlock, Exit, At
  <2> HIDE DEF refs
  <2> QED BY <2>1 DEF Idle, Filled, Written, Promised, SequenceOfEntries, Range
<1>2. CASE refs # <<>>
  <2>1. /\ cvProc.pc = "dense" /\ cvCmd' = cvCmd
        /\ cvProc'.pc = "expert" /\ cvProc'.layers = Append(cvProc.layers, entry)
        /\ cvProc'.experts = cvProc.experts
        /\ DOMAIN cvProc' = DOMAIN cvProc
    BY <1>2 DEF DenseBlock, At
  <2>2. /\ DOMAIN cvDisk' = DOMAIN cvDisk /\ DOMAIN cvDisk'.core = DOMAIN cvDisk.core
        /\ cvDisk'.files = cvDisk.files /\ cvDisk'.progress = cvDisk.progress
    BY <1>2 DEF DenseBlock, WriteBlock
  <2> HIDE DEF entry
  <2>3. SequenceOfEntries(Append(cvProc.layers, entry))
    BY AppendEntry
  <2> QED BY <2>1, <2>2, <2>3 DEF Filled, Written, Promised, SequenceOfEntries
<1> QED BY <1>1, <1>2

LEMMA MissingKeeps ==
  ASSUME ConvertInv, MissingExpert
  PROVE  ConvertInv'
  BY DEF ConvertInv, ConvertTyped, MissingExpert, Exit, Idle, Filled, Written, Promised,
         SequenceOfEntries, Range, At

\* An expert inside MODEL.bin has no file: only the other two converters write it.
LEMMA InCoreKeeps ==
  ASSUME ConvertInv, ExpertInCore, cvCmd.tool = "single"
  PROVE  ConvertInv'
<1> USE DEF ConvertInv, ConvertTyped
<1> DEFINE e == Head(cvProc.todo)
           block == NextBlock(Layer, e, ExpertRefs(cvCmd, Layer, e))
           plan == ExpertPlan(block.offset, block.disk)
<1>1. /\ cvProc.pc = "expert" /\ cvCmd' = cvCmd
      /\ cvProc'.pc = "expert" /\ cvProc'.layers = cvProc.layers
      /\ cvProc'.experts = Append(cvProc.experts, plan)
      /\ DOMAIN cvProc' = DOMAIN cvProc
  BY DEF ExpertInCore, CanWriteExpert, At
<1>2. /\ DOMAIN cvDisk' = DOMAIN cvDisk /\ DOMAIN cvDisk'.core = DOMAIN cvDisk.core
      /\ cvDisk'.files = cvDisk.files /\ cvDisk'.progress = cvDisk.progress
  BY DEF ExpertInCore, WriteBlock
<1> HIDE DEF plan
<1>3. SequenceOfEntries(Append(cvProc.experts, plan))
  BY AppendEntry
<1> QED BY <1>1, <1>2, <1>3 DEF Filled, Written, Promised, SequenceOfEntries, IsRaw

LEMMA OpenFileKeeps ==
  ASSUME ConvertInv, OpenExpertFile
  PROVE  ConvertInv'
<1> USE DEF ConvertInv, ConvertTyped
<1> DEFINE file == <<Layer, Head(cvProc.todo)>>
<1>1. /\ cvProc.pc = "expert" /\ cvCmd' = cvCmd
      /\ cvProc' = [cvProc EXCEPT !.pc = "fill"]
  BY DEF OpenExpertFile, CanWriteExpert, Goto, At
<1>2. /\ DOMAIN cvDisk' = DOMAIN cvDisk /\ cvDisk'.core = cvDisk.core
      /\ cvDisk'.progress = cvDisk.progress
      /\ cvDisk'.files = [f \in DOMAIN cvDisk.files \cup {file} |->
                            IF f = file THEN "partial" ELSE cvDisk.files[f]]
  BY DEF OpenExpertFile
<1>3. /\ DOMAIN cvDisk'.files = DOMAIN cvDisk.files \cup {file}
      /\ \A x \in DOMAIN cvDisk.files : x # file => cvDisk'.files[x] = cvDisk.files[x]
  <2> HIDE DEF file
  <2> QED BY <1>2
<1>4. Layer' = Layer /\ cvProc'.todo = cvProc.todo
  BY <1>1 DEF Layer
<1>5. ConvertTyped'
  BY <1>1, <1>2 DEF SequenceOfEntries
<1>6. Filled'
  <2> SUFFICES ASSUME IsRaw(cvCmd), NEW i \in DOMAIN cvProc.experts
               PROVE  LET x == EntryFile(cvProc.experts[i]) IN
                      /\ x \in DOMAIN cvDisk'.files
                      /\ cvDisk'.files[x] = "whole" \/ x = file
    BY <1>1, <1>4 DEF Filled, EntryFile
  <2>1. LET x == EntryFile(cvProc.experts[i]) IN
          x \in DOMAIN cvDisk.files /\ cvDisk.files[x] = "whole"
    BY <1>1 DEF Filled
  <2> HIDE DEF file
  <2> QED BY <1>3, <2>1
<1>7. Written' /\ Promised'
  BY <1>1, <1>2, <1>3, <1>4 DEF Written, Promised
<1> QED BY <1>5, <1>6, <1>7

LEMMA FillFileKeeps ==
  ASSUME ConvertInv, FillExpertFile
  PROVE  ConvertInv'
<1> USE DEF ConvertInv, ConvertTyped
<1> DEFINE e == Head(cvProc.todo)
           file == <<Layer, e>>
           plan == ExpertPlan(0, BlockBytes(ExpertRefs(cvCmd, Layer, e)))
           s == cvProc.experts
<1>1. /\ cvProc.pc = "fill" /\ cvCmd' = cvCmd
      /\ cvProc'.pc = "expert" /\ cvProc'.layers = cvProc.layers
      /\ cvProc'.experts = Append(s, plan)
      /\ DOMAIN cvProc' = DOMAIN cvProc
  BY DEF FillExpertFile, At
<1>2. /\ DOMAIN cvDisk' = DOMAIN cvDisk /\ cvDisk'.core = cvDisk.core
      /\ cvDisk'.progress = cvDisk.progress
      /\ cvDisk'.files = [cvDisk.files EXCEPT ![file] = "whole"]
  BY DEF FillExpertFile
<1>3. EntryFile(plan) = file
  BY DEF EntryFile, ExpertPlan
<1> HIDE DEF plan
<1>4. /\ SequenceOfEntries(Append(s, plan))
      /\ DOMAIN Append(s, plan) = DOMAIN s \cup {Len(s) + 1}
      /\ \A i \in DOMAIN s : Append(s, plan)[i] = s[i]
      /\ Append(s, plan)[Len(s) + 1] = plan
  BY AppendEntry
<1>5. ConvertTyped'
  BY <1>1, <1>2, <1>4 DEF SequenceOfEntries
<1>6. Filled'
  <2>0. file \in DOMAIN cvDisk.files
    BY <1>1 DEF Written
  <2> SUFFICES ASSUME IsRaw(cvCmd), NEW i \in DOMAIN Append(s, plan)
               PROVE  LET x == EntryFile(Append(s, plan)[i]) IN
                      /\ x \in DOMAIN cvDisk'.files
                      /\ cvDisk'.files[x] = "whole"
    BY <1>1 DEF Filled, EntryFile
  <2>1. CASE i \in DOMAIN s
    <3>1. LET x == EntryFile(s[i]) IN
          x \in DOMAIN cvDisk.files /\ (cvDisk.files[x] = "whole" \/ x = file)
      BY <1>1, <2>1 DEF Filled
    <3> HIDE DEF file
    <3> QED BY <1>2, <1>4, <2>1, <3>1
  <2>2. CASE i = Len(s) + 1
    BY <1>2, <1>3, <1>4, <2>0, <2>2
  <2> QED BY <1>4, <2>1, <2>2
<1>7. Written' /\ Promised'
  BY <1>1, <1>2 DEF Written, Promised
<1> QED BY <1>5, <1>6, <1>7

LEMMA NextLayerKeeps ==
  ASSUME ConvertInv, NextLayer
  PROVE  ConvertInv'
<1> USE DEF ConvertInv, ConvertTyped
<1>1. /\ cvProc.pc = "expert" /\ UNCHANGED <<cvCmd, cvDisk>>
      /\ cvProc'.pc \in {"dense", "header"}
      /\ cvProc'.layers = cvProc.layers /\ cvProc'.experts = cvProc.experts
      /\ DOMAIN cvProc' = DOMAIN cvProc
  BY DEF NextLayer, At
<1> QED BY <1>1 DEF Filled, Written, Promised, SequenceOfEntries

LEMMA HeaderKeeps ==
  ASSUME ConvertInv, WriteHeader
  PROVE  ConvertInv'
  BY DEF ConvertInv, ConvertTyped, WriteHeader, Goto, At, Filled, Written, Promised,
         SequenceOfEntries

LEMMA ManifestKeeps ==
  ASSUME ConvertInv, WriteManifest
  PROVE  ConvertInv'
  BY DEF ConvertInv, ConvertTyped, WriteManifest, Goto, At, Filled, Written, Promised,
         SequenceOfEntries

LEMMA ValidateKeeps ==
  ASSUME ConvertInv, validate_output
  PROVE  ConvertInv'
<1> USE DEF ConvertInv, ConvertTyped
<1> DEFINE checked == cvProc.layers
                        \o (IF cvCmd.tool = "single" THEN cvProc.experts ELSE <<>>)
           sound == /\ \A i \in DOMAIN checked :
                          Aligned(checked[i].offset) /\ Aligned(checked[i].disk)
                    /\ Aligned(cvDisk.core.size)
<1>1. cvProc.pc = "validate" /\ UNCHANGED <<cvCmd, cvDisk>>
  BY DEF validate_output, At
<1>2. CASE sound
  <2>1. cvProc' = [cvProc EXCEPT !.pc = IF IsRaw(cvCmd) THEN "index" ELSE "debug"]
    BY <1>2 DEF validate_output, Goto
  <2>2. IsRaw(cvCmd) => checked = cvProc.layers
    BY DEF IsRaw, SequenceOfEntries
  <2>3. IsRaw(cvCmd) => \A i \in DOMAIN cvProc.layers :
            Aligned(cvProc.layers[i].offset) /\ Aligned(cvProc.layers[i].disk)
    BY <1>2, <2>2
  <2> QED BY <1>1, <2>1, <2>3 DEF Filled, Written, Promised, SequenceOfEntries
<1>3. CASE ~sound
  <2>1. cvProc' = [Idle EXCEPT !.run = cvProc.run, !.exit = "error"]
    BY <1>3 DEF validate_output, Exit
  <2> QED BY <1>1, <2>1 DEF Idle, Filled, Written, Promised, SequenceOfEntries, Range
<1> QED BY <1>2, <1>3

LEMMA DebugKeeps ==
  ASSUME ConvertInv, write_debug_index, cvCmd.tool # "raw"
  PROVE  ConvertInv'
<1> USE DEF ConvertInv, ConvertTyped
<1>1. /\ cvProc.pc = "debug" /\ cvCmd' = cvCmd
      /\ DOMAIN cvDisk' = DOMAIN cvDisk /\ cvDisk'.core = cvDisk.core
      /\ cvDisk'.progress = cvDisk.progress
  BY DEF write_debug_index, At
<1>2. ASSUME NEW status, cvProc' = [Idle EXCEPT !.run = cvProc.run, !.exit = status]
      PROVE  ConvertInv'
  BY <1>1, <1>2 DEF Idle, Filled, Written, Promised, SequenceOfEntries, Range
<1>3. CASE cvProc' = [cvProc EXCEPT !.pc = "index"]
  BY <1>1, <1>3 DEF IsRaw, Filled, Written, Promised, SequenceOfEntries
<1> QED BY <1>2, <1>3 DEF write_debug_index, Exit, Goto

LEMMA OpenIndexKeeps ==
  ASSUME ConvertInv, OpenShardIndex
  PROVE  ConvertInv'
  BY DEF ConvertInv, ConvertTyped, OpenShardIndex, Goto, At, Filled, Written, Promised,
         SequenceOfEntries

LEMMA FillIndexKeeps ==
  ASSUME ConvertInv, FillShardIndex
  PROVE  ConvertInv'
<1> USE DEF ConvertInv, ConvertTyped
<1>1. /\ cvProc.pc = "fill_index" /\ cvCmd' = cvCmd
      /\ DOMAIN cvDisk' = DOMAIN cvDisk /\ cvDisk'.core = cvDisk.core
      /\ cvDisk'.progress = cvDisk.progress /\ cvDisk'.files = cvDisk.files
      /\ cvDisk'.index = [state |-> "whole", experts |-> cvProc.experts]
  BY DEF FillShardIndex, At
<1>2. CASE cvProc' = [Idle EXCEPT !.run = cvProc.run, !.exit = "ok"]
  BY <1>1, <1>2 DEF Idle, Filled, Written, Promised, SequenceOfEntries, Range
<1>3. CASE IsRaw(cvCmd) /\ cvProc' = [cvProc EXCEPT !.pc = "ready"]
  <2>1. IsRaw(cvCmd)'
    BY <1>1, <1>3 DEF IsRaw
  <2> QED BY <1>1, <1>3, <2>1 DEF Filled, Written, Promised, SequenceOfEntries
<1> QED BY <1>2, <1>3 DEF FillShardIndex, Exit, Goto

LEMMA ReadyKeeps ==
  ASSUME ConvertInv, ReportReady
  PROVE  ConvertInv'
<1> USE DEF ConvertInv, ConvertTyped
<1>1. /\ cvProc.pc = "ready" /\ cvCmd' = cvCmd
      /\ cvProc' = [Idle EXCEPT !.run = cvProc.run, !.exit = "ok"]
  BY DEF ReportReady, At, Exit
<1>2. /\ DOMAIN cvDisk' = DOMAIN cvDisk /\ cvDisk'.core = cvDisk.core
      /\ cvDisk'.files = cvDisk.files /\ cvDisk'.index = cvDisk.index
  BY DEF ReportReady
<1>3. ConvertTyped' /\ Filled' /\ Written'
  BY <1>1, <1>2 DEF Idle, Filled, Written, SequenceOfEntries, Range
<1>4. /\ IsRaw(cvCmd)
      /\ cvDisk.core.state = "whole"
      /\ cvDisk.core.manifest = <<cvProc.layers, cvProc.experts>>
      /\ cvDisk.index = [state |-> "whole", experts |-> cvProc.experts]
      /\ \A i \in DOMAIN cvProc.layers :
            Aligned(cvProc.layers[i].offset) /\ Aligned(cvProc.layers[i].disk)
  BY <1>1 DEF Written
<1>5. \A i \in DOMAIN cvProc.experts : parse_block(EntryFile(cvProc.experts[i]))
  BY <1>1, <1>4 DEF Filled, parse_block
<1>6. ValidatorStatus = "ready"
  BY <1>4, <1>5 DEF ValidatorStatus, EntryFile
<1>7. ValidatorStatus' = ValidatorStatus
  BY <1>2 DEF ValidatorStatus, parse_block
<1>8. Promised'
  BY <1>1, <1>2, <1>4, <1>6, <1>7 DEF Promised, ReadyIsWhole, Idle
<1> QED BY <1>3, <1>8

LEMMA ConvertInvariance == ConvertSpec => []ConvertInv
<1>1. ConvertInit => ConvertInv
  BY DEF ConvertInit, ConvertInv, ConvertTyped, Idle, NoCore, Filled, Written, Promised,
         SequenceOfEntries, Range
<1>2. ConvertInv /\ [ConvertNext]_cvVars => ConvertInv'
  <2> SUFFICES ASSUME ConvertInv, [ConvertNext]_cvVars PROVE ConvertInv'
    OBVIOUS
  <2>1. CASE UNCHANGED cvVars
    BY <2>1 DEF cvVars, ConvertInv, ConvertTyped, Filled, Written, Promised, ReadyIsWhole,
                ValidatorStatus, parse_block, SequenceOfEntries, Layer
  <2>2. CASE StartConvert \/ ConvertDies
    BY <2>2, StartConvertKeeps, DiesKeeps
  <2>3. CASE convert_single_model
    BY <2>3, ReserveKeeps, DenseKeeps, MissingKeeps, InCoreKeeps, NextLayerKeeps, HeaderKeeps,
       ManifestKeeps, ValidateKeeps, DebugKeeps DEF convert_single_model
  <2>4. CASE convert_sharded_experts
    BY <2>4, ReserveKeeps, DenseKeeps, MissingKeeps, OpenFileKeeps, FillFileKeeps,
       NextLayerKeeps, HeaderKeeps, ManifestKeeps, ValidateKeeps, DebugKeeps, OpenIndexKeeps,
       FillIndexKeeps DEF convert_sharded_experts
  <2>5. CASE execute_conversion
    BY <2>5, ReserveKeeps, GlobalKeeps, DenseKeeps, OpenFileKeeps, FillFileKeeps,
       NextLayerKeeps, HeaderKeeps, ManifestKeeps, ValidateKeeps, OpenIndexKeeps,
       FillIndexKeeps, ReadyKeeps DEF execute_conversion
  <2> QED BY <2>1, <2>2, <2>3, <2>4, <2>5 DEF ConvertNext
<1> QED BY <1>1, <1>2, PTL DEF ConvertSpec

\* Whatever runs died before and after the word "ready" was written, and whatever the
\* checkpoint and the command are: the core, its manifest, the index and every expert file
\* it lists are whole, and the validator agrees.
THEOREM ReadyAlwaysWhole == ConvertSpec => []ReadyIsWhole
<1>1. ConvertInv => ReadyIsWhole
  BY DEF ConvertInv, Promised, ReadyIsWhole
<1> QED BY <1>1, ConvertInvariance, PTL

---------------------------------------------------------------------------
(* What a conversion has written *)

\* The expert numbers of the j-th layer, and the experts of the first j layers.
IdsAt(c, j) == ExpertIds(c, Layers(c)[j])
ExpertsUpTo(c, j) == Total([i \in 1 .. j |-> Len(IdsAt(c, i))])

Globals(c) == IF GlobalRefs(c) = <<>> THEN 0 ELSE 1

\* The expert table of a run that has come to the layer li and written the first made
\* experts of it: every expert stands where the sums put it, and nothing else does.
ExpertTable(c, xs, li, made) ==
  /\ Len(xs) = ExpertsUpTo(c, li - 1) + made
  /\ \A j \in 1 .. li : \A k \in 1 .. (IF j = li THEN made ELSE Len(IdsAt(c, j))) :
        /\ ExpertsUpTo(c, j - 1) + k \in DOMAIN xs
        /\ xs[ExpertsUpTo(c, j - 1) + k].layer = Layers(c)[j]
        /\ xs[ExpertsUpTo(c, j - 1) + k].expert = IdsAt(c, j)[k]
  /\ \A i \in DOMAIN xs :
        \E j \in 1 .. li : /\ xs[i].layer = Layers(c)[j]
                           /\ i \in ExpertsUpTo(c, j - 1) + 1 .. ExpertsUpTo(c, j - 1) + Len(IdsAt(c, j))

\* The layer table after the dense blocks of n layers.
LayerTable(c, ls, n) ==
  /\ Len(ls) = Globals(c) + n
  /\ Globals(c) = 1 => ls[1].layer = NoId
  /\ \A j \in 1 .. n :
        /\ ls[Globals(c) + j].layer = Layers(c)[j]
        /\ ls[Globals(c) + j].first = ExpertsUpTo(c, j - 1)
        /\ ls[Globals(c) + j].num = Len(IdsAt(c, j))

LeadTo(ls, blocks) ==
  \A i \in DOMAIN ls :
    \E k \in DOMAIN blocks : /\ blocks[k].offset = ls[i].offset
                             /\ blocks[k].layer = ls[i].layer
                             /\ blocks[k].expert = NoId

\* Aligned blocks behind start, one after the other up to end.
Chain(blocks, start, end) ==
  /\ SequenceOfEntries(blocks)
  /\ \A i \in DOMAIN blocks :
        /\ blocks[i].offset \in Nat /\ blocks[i].disk \in Nat
        /\ Aligned(blocks[i].offset) /\ blocks[i].offset >= start
        /\ i > 1 => blocks[i].offset = BlockEnd(blocks[i - 1])
  /\ end \in Nat /\ end >= start
  /\ blocks # <<>> => Aligned(end) /\ end = BlockEnd(blocks[Len(blocks)])

TensorsOf(blocks) == UNION {blocks[i].tensors : i \in DOMAIN blocks}

Disks(s) == Total([i \in DOMAIN s |-> s[i].disk])

\* What the plan reckons for the layers before li, and for the layer li with the first
\* made of its experts.
PaidBefore(c, li) == Total([i \in 1 .. li - 1 |-> LayerPayload(c, Layers(c)[i])])
PaidIn(c, li, made) ==
  Estimate(DenseRefs(c, Layers(c)[li]))
    + Total([k \in 1 .. made |-> Estimate(ExpertRefs(c, Layers(c)[li], IdsAt(c, li)[k]))])
GlobalPayload(c) == IF GlobalRefs(c) = <<>> THEN 0 ELSE Estimate(GlobalRefs(c))

---------------------------------------------------------------------------
BeforeExperts == cvProc.pc \in {"global", "dense"}
Writing == cvProc.pc \in {"global", "dense", "expert", "fill", "header"}
Finishing == cvProc.pc \in {"validate", "debug", "index", "fill_index", "ready"}
Converting == Writing \/ cvProc.pc = "manifest" \/ Finishing

\* How many experts of the layer in turn have been written.
Made == IF BeforeExperts THEN 0 ELSE Len(IdsAt(cvCmd, cvProc.li)) - Len(cvProc.todo)

\* Where the run stands: the layer in turn and the experts of it to come.
Course ==
  /\ cvProc.li \in 1 .. Len(Layers(cvCmd))
  /\ cvProc.todo \in Seq(Int)
  /\ BeforeExperts => cvProc.todo = <<>>
  /\ ~BeforeExperts => /\ Made \in Nat
                       /\ \A k \in 1 .. Len(cvProc.todo) :
                             cvProc.todo[k] = IdsAt(cvCmd, cvProc.li)[Made + k]
  /\ cvProc.pc = "fill" => cvProc.todo # <<>>
  /\ cvProc.pc = "global" => Globals(cvCmd) = 1 /\ cvProc.li = 1
  /\ ~BeforeExperts /\ cvProc.pc \notin {"expert", "fill"} =>
        cvProc.li = Len(Layers(cvCmd)) /\ cvProc.todo = <<>>

Tables ==
  /\ IF cvProc.pc = "global" THEN cvProc.layers = <<>>
     ELSE LayerTable(cvCmd, cvProc.layers, IF BeforeExperts THEN cvProc.li - 1 ELSE cvProc.li)
  /\ LeadTo(cvProc.layers, Blocks)
  /\ ExpertTable(cvCmd, cvProc.experts, cvProc.li, Made)

RefsOf(x) == ExpertRefs(cvCmd, x.layer, x.expert)

\* Which tensors the core holds, and that no expert without tensors was accepted.
Holdings ==
  /\ \A j \in 1 .. (IF BeforeExperts THEN cvProc.li - 1 ELSE cvProc.li) :
        Range(DenseRefs(cvCmd, Layers(cvCmd)[j])) \subseteq TensorsOf(Blocks)
  /\ cvCmd.tool = "single" =>
       \A i \in DOMAIN cvProc.experts : Range(RefsOf(cvProc.experts[i])) \subseteq TensorsOf(Blocks)
  /\ ~IsRaw(cvCmd) /\ ~cvCmd.allowMissing =>
       /\ \A i \in DOMAIN cvProc.experts : RefsOf(cvProc.experts[i]) # <<>>
       /\ cvProc.pc = "fill" => ExpertRefs(cvCmd, Layer, Head(cvProc.todo)) # <<>>

Paid ==
  (IF cvProc.pc = "global" THEN 0 ELSE GlobalPayload(cvCmd))
    + PaidBefore(cvCmd, cvProc.li)
    + (IF BeforeExperts THEN 0 ELSE PaidIn(cvCmd, cvProc.li, Made))

Spent ==
  /\ \A i \in DOMAIN cvProc.experts : cvProc.experts[i].disk \in Nat
  /\ IsRaw(cvCmd) => Disks(Blocks) + Disks(cvProc.experts) = Paid

Phase ==
  /\ cvProc.exit = "none"
  /\ Writing => cvDisk.core.state = "partial" /\ Chain(Blocks, ManifestEnd, cvProc.pos)
  /\ cvProc.pc = "manifest" => cvDisk.core.state = "header"
  /\ ~Finishing => cvDisk.core.manifest = <<>>

\* What the core says of itself, whoever wrote it.
CoreSound ==
  /\ cvDisk.core.state \in {"header", "whole"} =>
        Blocks # <<>> /\ Chain(Blocks, ManifestEnd, cvDisk.core.size)
  /\ CoreReadable

Begun == /\ cvProc.todo = <<>> /\ cvProc.layers = <<>> /\ cvProc.experts = <<>>
         /\ cvProc.exit = "none"

CoreInv ==
  /\ cvCmd \in ConvertCommands
  /\ cvProc.pc # "idle" => Layers(cvCmd) # <<>>
  /\ cvProc.pc \in {"idle", "reserve"} \/ Converting
  /\ cvProc.pc = "reserve" => Begun
  /\ Converting => Course /\ Tables /\ Holdings /\ Spent /\ Phase
  /\ CoreSound
  /\ NothingDropped

---------------------------------------------------------------------------
(* The plan of a conversion *)

LEMMA Division ==
  ASSUME NEW A \in Nat \ {0}, NEW m \in Int
  PROVE  /\ m = A * (m \div A) + (m % A)
         /\ m % A \in 0 .. A - 1 /\ m \div A \in Int
  OBVIOUS

LEMMA Multiple ==
  ASSUME NEW A \in Nat \ {0}, NEW q \in Int
  PROVE  (q * A) % A = 0 /\ (q * A + A - 1) \div A = q
<1>1. (q * A) % A = 0
  OBVIOUS
<1>2. (q * A + A - 1) \div A = q
  OBVIOUS
<1> QED BY <1>1, <1>2

LEMMA AsMultiple ==
  ASSUME NEW A \in Nat \ {0}, NEW n \in Int, n % A = 0
  PROVE  \E q \in Int : n = q * A
<1>1. n = (n \div A) * A /\ n \div A \in Int
  BY Division
<1> QED BY <1>1

\* What align_up returns, and that aligned sizes stay aligned.
LEMMA AlignUp ==
  ASSUME NEW n \in Nat
  PROVE  /\ align_up(n) \in Nat /\ align_up(n) >= n /\ Aligned(align_up(n))
         /\ Aligned(n) => align_up(n) = n
<1> DEFINE q == (n + AlignBytes - 1) \div AlignBytes
<1>0. AlignBytes \in Nat \ {0}
  BY ConvertAssumption
<1>1. q \in Int /\ align_up(n) = q * AlignBytes
  BY <1>0, Division DEF align_up
<1>2. q * AlignBytes >= n
  BY <1>0
<1>3. Aligned(q * AlignBytes)
  <2> HIDE DEF q
  <2> QED BY <1>0, <1>1, Multiple DEF Aligned
<1>4. Aligned(n) => align_up(n) = n
  <2> SUFFICES ASSUME n % AlignBytes = 0 PROVE align_up(n) = n
    BY DEF Aligned
  <2>1. PICK p \in Int : n = p * AlignBytes
    BY <1>0, AsMultiple
  <2>2. (p * AlignBytes + AlignBytes - 1) \div AlignBytes = p
    BY <1>0, Multiple
  <2> QED BY <2>1, <2>2 DEF align_up
<1>5. q * AlignBytes \in Int
  BY <1>0, <1>1
<1> HIDE DEF q
<1> QED BY <1>1, <1>2, <1>3, <1>4, <1>5

LEMMA AlignedSum ==
  ASSUME NEW n \in Nat, NEW m \in Nat, Aligned(n), Aligned(m)
  PROVE  n + m \in Nat /\ Aligned(n + m)
<1> DEFINE q == n \div AlignBytes
           p == m \div AlignBytes
<1>0. AlignBytes \in Nat \ {0}
  BY ConvertAssumption
<1>1. n % AlignBytes = 0 /\ m % AlignBytes = 0
  BY DEF Aligned
<1>2. n = q * AlignBytes /\ q \in Int
  BY <1>0, <1>1, Division
<1>3. m = p * AlignBytes /\ p \in Int
  BY <1>0, <1>1, Division
<1> HIDE DEF q, p
<1>4. n + m = (q + p) * AlignBytes /\ q + p \in Int
  BY <1>0, <1>2, <1>3
<1>5. ((q + p) * AlignBytes) % AlignBytes = 0
  BY <1>0, <1>4, Multiple
<1> QED BY <1>4, <1>5 DEF Aligned

\* A set of tensors by name: every one of them, once.
LEMMA Named ==
  ASSUME NEW c \in ConvertCommands, NEW V, V \subseteq c.source
  PROVE  /\ ByName(V) \in Seq(V) /\ Range(ByName(V)) = V
         /\ ByName(V) = <<>> <=> V = {}
<1> DEFINE before == {p \in V \X V : p[1].id < p[2].id}
           o == InOrder(V, before)
<1>1. IsFiniteSet(V)
  BY ConvertAssumption, FS_Subset
<1>2. \A t \in V : t.id \in Nat
  BY ConvertAssumption
<1>3. \A t, u \in V : t.id = u.id => t = u
  BY ConvertAssumption
<1>4. Lines(V, before)
  BY <1>2, <1>3 DEF Lines
<1>5. ByName(V) = o
  BY DEF ByName
<1> HIDE DEF before
<1>6. /\ o \in Seq(V)
      /\ \A x \in V : \E k \in 1 .. Len(o) : o[k] = x
  BY <1>1, <1>4, InOrderSorts
<1> HIDE DEF o
<1>7. Range(o) = V
  <2>1. DOMAIN o = 1 .. Len(o) /\ \A k \in 1 .. Len(o) : o[k] \in V
    BY <1>6
  <2> QED BY <1>6, <2>1 DEF Range
<1>8. o = <<>> <=> V = {}
  <2>1. CASE V = {}
    BY <1>6, <2>1
  <2>2. CASE V # {}
    BY <1>6, <2>2
  <2> QED BY <2>1, <2>2
<1> QED BY <1>5, <1>6, <1>7, <1>8

\* The values a function takes on a finite set are finitely many.
LEMMA FiniteImage ==
  ASSUME NEW S, IsFiniteSet(S), NEW f
  PROVE  IsFiniteSet({f[x] : x \in S})
<1> DEFINE T == {f[x] : x \in S}
           g == [x \in S |-> f[x]]
<1>1. g \in Surjection(S, T)
  BY DEF Surjection
<1> HIDE DEF g, T
<1> QED BY <1>1, FS_Surjection DEF T

\* A finite set of numbers has a largest one.
LEMMA Largest ==
  ASSUME NEW S, S \subseteq Int, IsFiniteSet(S), S # {}
  PROVE  Max(S) \in S /\ \A y \in S : y <= Max(S)
<1> DEFINE o == Increasing(S)
           n == Len(o)
<1>1. /\ o \in Seq(S)
      /\ \A x \in S : \E k \in 1 .. n : o[k] = x
      /\ \A i, j \in 1 .. n : i < j => o[i] < o[j]
  BY IncreasingSorts
<1> HIDE DEF o
<1>2. n \in Nat /\ n # 0
  <2>1. PICK x \in S : TRUE
    OBVIOUS
  <2>2. PICK k \in 1 .. n : o[k] = x
    BY <1>1
  <2>3. n \in Nat
    BY <1>1
  <2> QED BY <2>2, <2>3
<1>3. o[n] \in S /\ \A y \in S : y <= o[n]
  <2>1. n \in 1 .. n /\ o[n] \in S
    BY <1>1, <1>2
  <2>2. ASSUME NEW y \in S PROVE y <= o[n]
    <3>1. PICK k \in 1 .. n : o[k] = y
      BY <1>1
    <3>2. k < n => o[k] < o[n]
      BY <1>1, <2>1
    <3>3. y \in Int /\ o[n] \in Int
      BY <2>1
    <3>4. k < n \/ k = n
      BY <1>2
    <3> QED BY <3>1, <3>2, <3>3, <3>4
  <2> QED BY <2>1, <2>2
<1>4. \E x \in S : \A y \in S : x >= y
  BY <1>3
<1>5. Max(S) \in S /\ \A y \in S : Max(S) >= y
  BY <1>4 DEF Max
<1> QED BY <1>5

LEMMA SeqWiden ==
  ASSUME NEW S, NEW T, S \subseteq T, NEW s \in Seq(S)
  PROVE  s \in Seq(T)
  OBVIOUS

LEMMA MappedNat ==
  ASSUME NEW f, NEW n \in Nat, f = [i \in 1 .. n |-> f[i]], \A i \in 1 .. n : f[i] \in Nat
  PROVE  f \in Seq(Nat) /\ f \in Seq(Int) /\ Len(f) = n /\ Total(f) \in Nat
<1>1. f \in Seq(Nat) /\ Len(f) = n
  OBVIOUS
<1>2. f \in Seq(Int)
  BY <1>1
<1> QED BY <1>1, <1>2, TotalNatural

\* The estimate of a block is its size, a number of bytes.
LEMMA EstimatedSize ==
  ASSUME NEW c \in ConvertCommands, NEW refs \in Seq(c.source)
  PROVE  /\ estimate_block_payload(refs) = BlockLayout(refs).bytes
         /\ BlockLayout(refs).bytes \in Nat
<1> DEFINE datas == [i \in DOMAIN refs |-> refs[i].data]
           blobs == [i \in DOMAIN refs |-> ShapeBytes(refs[i])]
           n == Len(refs)
<1>1. n \in Nat /\ DOMAIN refs = 1 .. n /\ \A i \in 1 .. n : refs[i] \in c.source
  OBVIOUS
<1>2. \A i \in 1 .. n : refs[i].data \in Nat /\ refs[i].rank \in Nat
  BY <1>1, ConvertAssumption
<1>3. Total(datas) \in Nat
  <2>1. datas = [i \in 1 .. n |-> datas[i]] /\ \A i \in 1 .. n : datas[i] \in Nat
    BY <1>1, <1>2
  <2> HIDE DEF datas
  <2> QED BY <1>1, <2>1, MappedNat
<1>4. Total(blobs) \in Nat
  <2>1. blobs = [i \in 1 .. n |-> blobs[i]] /\ \A i \in 1 .. n : blobs[i] \in Nat
    BY <1>1, <1>2 DEF ShapeBytes
  <2> HIDE DEF blobs
  <2> QED BY <1>1, <2>1, MappedNat
<1>5. BlockLayout(refs).bytes
        = BlockHeaderBytes + n * RecordBytes + n * NameBytes + Total(datas) + Total(blobs)
  BY DEF BlockLayout, SumOver
<1>6. estimate_block_payload(refs)
        = BlockHeaderBytes + n * RecordBytes + n * NameBytes + Total(datas) + Total(blobs)
  BY DEF estimate_block_payload, SumOver
<1>7. n * RecordBytes \in Nat /\ n * NameBytes \in Nat /\ BlockHeaderBytes \in Nat
  BY <1>1, ConvertAssumption
<1> HIDE DEF datas, blobs, n
<1> QED BY <1>3, <1>4, <1>5, <1>6, <1>7

LEMMA BlockSize ==
  ASSUME NEW c \in ConvertCommands, NEW refs \in Seq(c.source)
  PROVE  /\ Estimate(refs) = BlockBytes(refs)
         /\ BlockBytes(refs) \in Nat /\ Aligned(BlockBytes(refs))
  BY EstimatedSize, AlignUp DEF Estimate, BlockBytes

\* The layers of a command are numbers, each of them once.
LEMMA LayersOnce ==
  ASSUME NEW c \in ConvertCommands
  PROVE  /\ Layers(c) \in Seq(Nat)
         /\ \A i, j \in 1 .. Len(Layers(c)) : Layers(c)[i] = Layers(c)[j] => i = j
<1> DEFINE Sound(s) == s \in Seq(Nat) /\ \A i, j \in 1 .. Len(s) : s[i] = s[j] => i = j
<1>1. ASSUME NEW n \in Nat PROVE Sound([i \in 1 .. n |-> i - 1])
  OBVIOUS
<1>2. ASSUME NEW a \in Nat, NEW n \in Nat PROVE Sound([i \in 1 .. n |-> a + i - 1])
  OBVIOUS
<1>3. Sound(<<>>)
  OBVIOUS
<1>4. Arch(c) = <<>> \/ Arch(c)[1] \in Nat
  <2>1. CASE IsRaw(c)
    BY <2>1, ConvertAssumption DEF Arch, IsRaw
  <2>2. CASE ~IsRaw(c)
    <3> DEFINE numbers == {t.layer : t \in c.source} \ {NoId}
    <3>1. numbers # {} => Max(numbers) \in Nat
      <4>1. numbers \subseteq Nat
        BY ConvertAssumption
      <4>2. IsFiniteSet(numbers)
        <5> DEFINE f == [t \in c.source |-> t.layer]
        <5>1. {t.layer : t \in c.source} = {f[t] : t \in c.source}
          OBVIOUS
        <5>2. IsFiniteSet({f[t] : t \in c.source})
          <6>1. IsFiniteSet(c.source)
            BY ConvertAssumption
          <6> HIDE DEF f
          <6> QED BY <6>1, FiniteImage
        <5> QED BY <5>1, <5>2, FS_Subset
      <4> HIDE DEF numbers
      <4>3. numbers # {} => Max(numbers) \in numbers
        <5>1. numbers \subseteq Int
          BY <4>1
        <5> QED BY <4>2, <5>1, Largest
      <4> QED BY <4>1, <4>3
    <3>2. c.layersArg \in Nat \cup {NoId}
      BY ConvertAssumption
    <3>3. \/ Arch(c) = <<>>
          \/ Arch(c)[1] = c.layersArg /\ c.layersArg # NoId
          \/ numbers # {} /\ Arch(c)[1] = Max(numbers) + 1
      BY <2>2 DEF Arch, infer_arch_config
    <3> HIDE DEF numbers
    <3> QED BY <3>1, <3>2, <3>3
  <2> QED BY <2>1, <2>2
<1>5. CASE Arch(c) = <<>>
  BY <1>3, <1>5 DEF Layers
<1>6. CASE Arch(c) # <<>>
  <2> DEFINE n == Arch(c)[1]
  <2>1. n \in Nat /\ Layers(c) = layers_for_range(n, c.range)
    BY <1>4, <1>6 DEF Layers
  <2> HIDE DEF n, Sound
  <2>2. CASE c.range = NoRange
    BY <1>1, <2>1, <2>2 DEF layers_for_range
  <2>3. CASE c.range # NoRange
    <3> DEFINE a == c.range[1]
               b == IF c.range[2] < n THEN c.range[2] ELSE n
    <3>1. a \in Nat /\ c.range[2] \in Nat /\ a < c.range[2]
      BY <2>3, ConvertAssumption
    <3>2. CASE a >= n
      BY <1>3, <2>1, <2>3, <3>2 DEF layers_for_range
    <3>3. CASE ~(a >= n)
      <4>1. Layers(c) = [i \in 1 .. b - a |-> a + i - 1]
        BY <2>1, <2>3, <3>3 DEF layers_for_range
      <4>2. b - a \in Nat
        BY <2>1, <3>1, <3>3
      <4> HIDE DEF a, b
      <4> QED BY <1>2, <3>1, <4>1, <4>2
    <3> QED BY <3>2, <3>3
  <2> QED BY <2>2, <2>3
<1> QED BY <1>5, <1>6

LEMMA GroupsOfSource ==
  ASSUME NEW c \in ConvertCommands
  PROVE  /\ Groups(c).global \subseteq c.source
         /\ Groups(c).dense \subseteq c.source
         /\ Groups(c).experts \subseteq c.source
<1>1. CASE IsRaw(c)
  BY <1>1 DEF Groups, group_items
<1>2. CASE ~IsRaw(c)
  BY <1>2 DEF Groups, build_conversion_plan
<1> QED BY <1>1, <1>2

\* What the blocks of a command are written from.
LEMMA BlockRefs ==
  ASSUME NEW c \in ConvertCommands, NEW l, NEW e
  PROVE  /\ GlobalRefs(c) \in Seq(c.source)
         /\ DenseRefs(c, l) \in Seq(c.source)
         /\ {t \in Groups(c).dense : t.layer = l} \subseteq Range(DenseRefs(c, l))
         /\ ExpertRefs(c, l, e) \in Seq(c.source)
         /\ Range(ExpertRefs(c, l, e)) = {t \in Groups(c).experts : t.layer = l /\ t.expert = e}
         /\ ExpertRefs(c, l, e) = <<>>
              <=> {t \in Groups(c).experts : t.layer = l /\ t.expert = e} = {}
<1> DEFINE g == ByName(Groups(c).global)
           dense == {t \in Groups(c).dense : t.layer = l}
           own == ByName(dense)
           expert == {t \in Groups(c).experts : t.layer = l /\ t.expert = e}
<1>1. Groups(c).global \subseteq c.source /\ dense \subseteq c.source /\ expert \subseteq c.source
  BY GroupsOfSource
<1> HIDE DEF dense, expert
<1>2. g \in Seq(c.source)
  <2>1. g \in Seq(Groups(c).global)
    BY <1>1, Named
  <2> HIDE DEF g
  <2> QED BY <1>1, <2>1
<1>3. own \in Seq(c.source) /\ Range(own) = dense
  <2>1. own \in Seq(dense) /\ Range(own) = dense
    BY <1>1, Named
  <2> HIDE DEF own
  <2> QED BY <1>1, <2>1
<1>4. GlobalRefs(c) \in Seq(c.source)
  <2>1. GlobalRefs(c) = g \/ GlobalRefs(c) = <<>>
    BY DEF GlobalRefs
  <2>2. <<>> \in Seq(c.source)
    OBVIOUS
  <2> HIDE DEF g
  <2> QED BY <1>2, <2>1, <2>2
<1>5. DenseRefs(c, l) = own \/ DenseRefs(c, l) = g \o own
  BY DEF DenseRefs, dense
<1>6. ExpertRefs(c, l, e) = ByName(expert)
  BY DEF ExpertRefs, expert
<1>7. /\ ByName(expert) \in Seq(expert) /\ Range(ByName(expert)) = expert
      /\ ByName(expert) = <<>> <=> expert = {}
  BY <1>1, Named
<1>8. ByName(expert) \in Seq(c.source)
  BY <1>1, <1>7
<1> HIDE DEF g, own
<1>9. DenseRefs(c, l) \in Seq(c.source) /\ dense \subseteq Range(DenseRefs(c, l))
  <2>1. CASE DenseRefs(c, l) = own
    BY <1>3, <2>1
  <2>2. CASE DenseRefs(c, l) = g \o own
    <3>1. /\ g \o own \in Seq(c.source) /\ Len(g \o own) = Len(g) + Len(own)
          /\ \A k \in 1 .. Len(own) : (g \o own)[Len(g) + k] = own[k]
      BY <1>2, <1>3
    <3>2. \A k \in 1 .. Len(own) : own[k] \in Range(g \o own)
      <4> SUFFICES ASSUME NEW k \in 1 .. Len(own) PROVE own[k] \in Range(g \o own)
        OBVIOUS
      <4>1. Len(g) + k \in DOMAIN (g \o own)
        BY <1>2, <1>3, <3>1
      <4> QED BY <3>1, <4>1 DEF Range
    <3>3. DOMAIN own = 1 .. Len(own)
      BY <1>3
    <3> QED BY <1>3, <2>2, <3>1, <3>2, <3>3 DEF Range
  <2> QED BY <1>5, <2>1, <2>2
<1> QED BY <1>4, <1>6, <1>7, <1>8, <1>9 DEF dense, expert

LEMMA ExpertIdsFinite ==
  ASSUME NEW c \in ConvertCommands, NEW l
  PROVE  /\ IsFiniteSet(ExpertIdsOf(c.source, l)) /\ ExpertIdsOf(c.source, l) \subseteq Nat
         /\ Cardinality(ExpertIdsOf(c.source, l)) \in Nat
<1> DEFINE S == {u \in build_conversion_plan(c.source).experts : u.layer = l}
           f == [t \in c.source |-> t.expert]
<1>1. S \subseteq {u \in c.source : u.expert # NoId}
  BY DEF build_conversion_plan, classify_tensor
<1>2. ExpertIdsOf(c.source, l) = {t.expert : t \in S}
  BY DEF ExpertIdsOf
<1>3. IsFiniteSet({f[t] : t \in c.source})
  <2>1. IsFiniteSet(c.source)
    BY ConvertAssumption
  <2> HIDE DEF f
  <2> QED BY <2>1, FiniteImage
<1>4. {t.expert : t \in S} \in SUBSET {f[t] : t \in c.source}
  BY <1>1
<1>5. {t.expert : t \in S} \subseteq Nat
  BY <1>1, ConvertAssumption
<1> HIDE DEF S, f
<1>6. IsFiniteSet(ExpertIdsOf(c.source, l))
  BY <1>2, <1>3, <1>4, FS_Subset
<1> QED BY <1>2, <1>5, <1>6, FS_CardinalityType

\* The number of experts per layer that a command works with: the one it is given, or
\* the largest that any layer has.
LEMMA PerLayer ==
  ASSUME NEW c \in ConvertCommands, ~IsRaw(c), Arch(c) # <<>>
  PROVE  /\ Arch(c)[2] \in Nat
         /\ c.expertsArg = NoId =>
              \A t \in c.source : Cardinality(ExpertIdsOf(c.source, t.layer)) <= Arch(c)[2]
                                  \/ t.layer = NoId
<1> DEFINE layers == {t.layer : t \in c.source} \ {NoId}
           many(l) == Cardinality(ExpertIdsOf(c.source, l))
           withExperts == {l \in layers : ExpertIdsOf(c.source, l) # {}}
           counts == {many(l) : l \in withExperts}
<1>1. Arch(c) = infer_arch_config(c.source, c.layersArg, c.expertsArg)
  BY DEF Arch
<1>2. /\ c.expertsArg # NoId => Arch(c)[2] = c.expertsArg
      /\ c.expertsArg = NoId => counts # {} /\ Arch(c)[2] = Max(counts)
  <2> DEFINE numLayers == IF c.layersArg # NoId THEN c.layersArg
                          ELSE IF layers = {} THEN NoId ELSE Max(layers) + 1
             perLayer == IF c.expertsArg # NoId THEN c.expertsArg
                         ELSE IF counts = {} THEN NoId ELSE Max(counts)
  <2>1. Arch(c) = IF numLayers = NoId \/ perLayer = NoId THEN <<>> ELSE <<numLayers, perLayer>>
    BY <1>1 DEF infer_arch_config
  <2> HIDE DEF numLayers, counts
  <2> QED BY <2>1
<1>3. counts \subseteq Nat
  BY ExpertIdsFinite
<1>4. IsFiniteSet(counts)
  <2> DEFINE f == [t \in c.source |-> many(t.layer)]
  <2>1. IsFiniteSet({f[t] : t \in c.source})
    <3>1. IsFiniteSet(c.source)
      BY ConvertAssumption
    <3> HIDE DEF f
    <3> QED BY <3>1, FiniteImage
  <2>2. counts \in SUBSET {f[t] : t \in c.source}
    <3> HIDE DEF many
    <3> QED OBVIOUS
  <2> HIDE DEF counts, f
  <2> QED BY <2>1, <2>2, FS_Subset
<1>5. counts # {} => Max(counts) \in counts /\ \A y \in counts : y <= Max(counts)
  <2>1. counts \subseteq Int
    BY <1>3
  <2> HIDE DEF counts
  <2> QED BY <1>4, <2>1, Largest
<1>6. Arch(c)[2] \in Nat
  <2>1. c.expertsArg # NoId => c.expertsArg \in Nat
    BY ConvertAssumption
  <2> HIDE DEF counts
  <2> QED BY <1>2, <1>3, <1>5, <2>1
<1>7. ASSUME c.expertsArg = NoId, NEW t \in c.source, t.layer # NoId
      PROVE  many(t.layer) <= Arch(c)[2]
  <2>1. CASE ExpertIdsOf(c.source, t.layer) = {}
    <3>1. many(t.layer) = 0
      BY <2>1, FS_EmptySet
    <3> QED BY <1>6, <3>1
  <2>2. CASE ExpertIdsOf(c.source, t.layer) # {}
    <3>1. t.layer \in withExperts
      BY <1>7, <2>2
    <3>2. many(t.layer) \in counts
      BY <3>1
    <3> HIDE DEF counts, many
    <3> QED BY <1>2, <1>5, <1>7, <3>2
  <2> QED BY <2>1, <2>2
<1> QED BY <1>6, <1>7

\* A layer that has all experts up to that number has no other.
LEMMA NoOthers ==
  ASSUME NEW c \in ConvertCommands, ~IsRaw(c), Arch(c) # <<>>, c.expertsArg = NoId,
         NEW t \in c.source, t.layer # NoId,
         0 .. Arch(c)[2] - 1 \subseteq ExpertIdsOf(c.source, t.layer)
  PROVE  ExpertIdsOf(c.source, t.layer) = 0 .. Arch(c)[2] - 1
<1> DEFINE n == Arch(c)[2]
           S == ExpertIdsOf(c.source, t.layer)
           T == 0 .. n - 1
<1>1. n \in Nat /\ Cardinality(S) <= n
  BY PerLayer
<1>2. IsFiniteSet(T) /\ Cardinality(T) = n
  <2>1. n - 1 \in Int /\ 0 \in Int
    BY <1>1
  <2> HIDE DEF n
  <2>2. /\ IsFiniteSet(0 .. n - 1)
        /\ Cardinality(0 .. n - 1) = IF 0 > n - 1 THEN 0 ELSE (n - 1) - 0 + 1
    BY <2>1, FS_Interval
  <2> QED BY <1>1, <2>2
<1>3. IsFiniteSet(S) /\ Cardinality(S) \in Nat
  BY ExpertIdsFinite
<1>4. T \in SUBSET S
  OBVIOUS
<1> HIDE DEF n, S, T
<1>5. Cardinality(T) <= Cardinality(S) /\ (Cardinality(S) = Cardinality(T) => S = T)
  BY <1>3, <1>4, FS_Subset
<1> QED BY <1>1, <1>2, <1>3, <1>5 DEF S, T, n

\* The expert numbers of a layer, in their order.
LEMMA IdsOf ==
  ASSUME NEW c \in ConvertCommands, NEW l, Layers(c) # <<>>
  PROVE  /\ ~IsRaw(c) => Arch(c) # <<>>
         /\ ExpertIds(c, l) \in Seq(Int)
         /\ Range(ExpertIds(c, l))
              = IF IsRaw(c) THEN {t.expert : t \in {u \in Groups(c).experts : u.layer = l}}
                ELSE 0 .. Arch(c)[2] - 1
<1> DEFINE raw == {t.expert : t \in {u \in Groups(c).experts : u.layer = l}}
           ids == IF IsRaw(c) THEN raw ELSE 0 .. Arch(c)[2] - 1
<1>1. ~IsRaw(c) => Arch(c) # <<>>
  BY DEF Layers
<1>2. IsFiniteSet(ids) /\ ids \subseteq Int
  <2>1. CASE IsRaw(c)
    <3> DEFINE f == [t \in c.source |-> t.expert]
    <3>1. IsFiniteSet({f[t] : t \in c.source})
      <4>1. IsFiniteSet(c.source)
        BY ConvertAssumption
      <4> HIDE DEF f
      <4> QED BY <4>1, FiniteImage
    <3>2. raw \in SUBSET {f[t] : t \in c.source}
      BY GroupsOfSource
    <3>3. raw \subseteq Int
      <4> SUFFICES ASSUME NEW t \in Groups(c).experts PROVE t.expert \in Int
        OBVIOUS
      <4>1. t \in c.source
        BY GroupsOfSource
      <4> QED BY <4>1, ConvertAssumption DEF NoId
    <3> HIDE DEF raw, f
    <3> QED BY <2>1, <3>1, <3>2, <3>3, FS_Subset
  <2>2. CASE ~IsRaw(c)
    <3>1. Arch(c)[2] - 1 \in Int
      BY <1>1, <2>2, PerLayer
    <3> QED BY <2>2, <3>1, FS_Interval
  <2> QED BY <2>1, <2>2
<1>3. ExpertIds(c, l) = Increasing(ids)
  BY DEF ExpertIds
<1> DEFINE o == Increasing(ids)
<1> HIDE DEF ids
<1>4. o \in Seq(ids) /\ \A x \in ids : \E k \in 1 .. Len(o) : o[k] = x
  BY <1>2, IncreasingSorts
<1> HIDE DEF o
<1>5. o \in Seq(Int) /\ Range(o) = ids
  <2>1. o \in Seq(Int)
    BY <1>2, <1>4, SeqWiden
  <2>2. DOMAIN o = 1 .. Len(o) /\ \A k \in 1 .. Len(o) : o[k] \in ids
    BY <1>4
  <2> QED BY <1>4, <2>1, <2>2 DEF Range
<1> QED BY <1>1, <1>3, <1>5 DEF o, ids

---------------------------------------------------------------------------
(* Sums over the layers and over the experts of a layer *)

LEMMA PrefixSums ==
  ASSUME NEW n \in Nat, NEW f, \A i \in 1 .. n : f[i] \in Nat
  PROVE  /\ Total([i \in 1 .. 0 |-> f[i]]) = 0
         /\ \A j \in 0 .. n : Total([i \in 1 .. j |-> f[i]]) \in Nat
         /\ \A j \in 0 .. n - 1 :
               Total([i \in 1 .. j + 1 |-> f[i]]) = Total([i \in 1 .. j |-> f[i]]) + f[j + 1]
<1> DEFINE p(j) == [i \in 1 .. j |-> f[i]]
<1>1. \A j \in 0 .. n : p(j) \in Seq(Int) /\ Len(p(j)) = j /\ Total(p(j)) \in Nat
  <2> SUFFICES ASSUME NEW j \in 0 .. n
               PROVE  p(j) \in Seq(Int) /\ Len(p(j)) = j /\ Total(p(j)) \in Nat
    OBVIOUS
  <2>1. p(j) = [i \in 1 .. j |-> p(j)[i]] /\ \A i \in 1 .. j : p(j)[i] \in Nat
    OBVIOUS
  <2> HIDE DEF p
  <2> QED BY <2>1, MappedNat
<1>2. Total(p(0)) = 0
  <2>1. p(0) \in Seq(Int) /\ Len(p(0)) = 0
    BY <1>1
  <2> HIDE DEF p
  <2> QED BY <2>1, TotalEmpty
<1>3. ASSUME NEW j \in 0 .. n - 1
      PROVE  Total(p(j + 1)) = Total(p(j)) + f[j + 1]
  <2>1. /\ p(j) \in Seq(Int) /\ Len(p(j)) = j
        /\ p(j + 1) \in Seq(Int) /\ Len(p(j + 1)) = j + 1
    BY <1>1
  <2>2. \A i \in 1 .. j : p(j + 1)[i] = p(j)[i]
    OBVIOUS
  <2>3. p(j + 1)[j + 1] = f[j + 1]
    OBVIOUS
  <2> HIDE DEF p
  <2>4. Total(p(j + 1)) = Total(p(j)) + p(j + 1)[j + 1]
    BY <2>1, <2>2, TotalExtends
  <2> QED BY <2>3, <2>4
<1> QED BY <1>1, <1>2, <1>3

LEMMA IdsAtTypes ==
  ASSUME NEW c \in ConvertCommands, Layers(c) # <<>>
  PROVE  \A j : IdsAt(c, j) \in Seq(Int) /\ Len(IdsAt(c, j)) \in Nat
  BY IdsOf DEF IdsAt

\* Where the experts of a layer begin.
LEMMA ExpertsSums ==
  ASSUME NEW c \in ConvertCommands, Layers(c) # <<>>
  PROVE  /\ Len(Layers(c)) \in Nat /\ Len(Layers(c)) > 0
         /\ ExpertsUpTo(c, 0) = 0
         /\ \A j \in 0 .. Len(Layers(c)) : ExpertsUpTo(c, j) \in Nat
         /\ \A j \in 1 .. Len(Layers(c)) :
               ExpertsUpTo(c, j) = ExpertsUpTo(c, j - 1) + Len(IdsAt(c, j))
         /\ ExpertTotal(c) = ExpertsUpTo(c, Len(Layers(c)))
<1> DEFINE n == Len(Layers(c))
           f == [i \in 1 .. n |-> Len(IdsAt(c, i))]
<1>1. Layers(c) \in Seq(Nat) /\ n \in Nat /\ n > 0 /\ DOMAIN Layers(c) = 1 .. n
  BY LayersOnce
<1>2. \A i \in 1 .. n : f[i] \in Nat /\ f[i] = Len(IdsAt(c, i))
  BY IdsAtTypes
<1>3. \A j \in 0 .. n : ExpertsUpTo(c, j) = Total([i \in 1 .. j |-> f[i]])
  <2> SUFFICES ASSUME NEW j \in 0 .. n
               PROVE  ExpertsUpTo(c, j) = Total([i \in 1 .. j |-> f[i]])
    OBVIOUS
  <2>1. [i \in 1 .. j |-> Len(IdsAt(c, i))] = [i \in 1 .. j |-> f[i]]
    OBVIOUS
  <2> QED BY <2>1 DEF ExpertsUpTo
<1>4. ExpertTotal(c) = ExpertsUpTo(c, n)
  BY <1>1 DEF ExpertTotal, SumOver, ExpertsUpTo, IdsAt
<1> HIDE DEF f, n
<1>5. /\ Total([i \in 1 .. 0 |-> f[i]]) = 0
      /\ \A j \in 0 .. n : Total([i \in 1 .. j |-> f[i]]) \in Nat
      /\ \A j \in 0 .. n - 1 :
            Total([i \in 1 .. j + 1 |-> f[i]]) = Total([i \in 1 .. j |-> f[i]]) + f[j + 1]
  BY <1>1, <1>2, PrefixSums
<1>6. ASSUME NEW j \in 1 .. n
      PROVE  ExpertsUpTo(c, j) = ExpertsUpTo(c, j - 1) + Len(IdsAt(c, j))
  <2>1. j - 1 \in 0 .. n - 1 /\ j - 1 \in 0 .. n /\ j \in 0 .. n /\ (j - 1) + 1 = j
    BY <1>1
  <2>2. Total([i \in 1 .. (j - 1) + 1 |-> f[i]]) = Total([i \in 1 .. j - 1 |-> f[i]]) + f[(j - 1) + 1]
    BY <1>5, <2>1
  <2>3. Total([i \in 1 .. j |-> f[i]]) = Total([i \in 1 .. j - 1 |-> f[i]]) + f[j]
    BY <2>1, <2>2
  <2> QED BY <1>2, <1>3, <2>1, <2>3
<1>7. 0 \in 0 .. n
  BY <1>1
<1> QED BY <1>1, <1>3, <1>4, <1>5, <1>6, <1>7 DEF n

LEMMA Estimates ==
  ASSUME NEW c \in ConvertCommands, NEW l, NEW e
  PROVE  /\ Estimate(ExpertRefs(c, l, e)) \in Nat
         /\ Estimate(DenseRefs(c, l)) \in Nat
         /\ GlobalPayload(c) \in Nat
<1>1. /\ ExpertRefs(c, l, e) \in Seq(c.source)
      /\ DenseRefs(c, l) \in Seq(c.source)
      /\ GlobalRefs(c) \in Seq(c.source)
  BY BlockRefs
<1>2. \A refs \in Seq(c.source) : Estimate(refs) \in Nat
  BY BlockSize
<1>3. 0 \in Nat
  OBVIOUS
<1> QED BY <1>1, <1>2, <1>3 DEF GlobalPayload

\* What the plan reckons for a layer, expert by expert.
LEMMA PaidExperts ==
  ASSUME NEW c \in ConvertCommands, Layers(c) # <<>>, NEW j
  PROVE  /\ PaidIn(c, j, 0) = Estimate(DenseRefs(c, Layers(c)[j]))
         /\ \A m \in 0 .. Len(IdsAt(c, j)) : PaidIn(c, j, m) \in Nat
         /\ \A m \in 0 .. Len(IdsAt(c, j)) - 1 :
               PaidIn(c, j, m + 1) = PaidIn(c, j, m)
                 + Estimate(ExpertRefs(c, Layers(c)[j], IdsAt(c, j)[m + 1]))
         /\ LayerPayload(c, Layers(c)[j]) = PaidIn(c, j, Len(IdsAt(c, j)))
<1> DEFINE n == Len(IdsAt(c, j))
           cost(k) == Estimate(ExpertRefs(c, Layers(c)[j], IdsAt(c, j)[k]))
           dense == Estimate(DenseRefs(c, Layers(c)[j]))
           f == [k \in 1 .. n |-> cost(k)]
           sum(m) == Total([k \in 1 .. m |-> f[k]])
<1>1. n \in Nat /\ DOMAIN IdsAt(c, j) = 1 .. n
  <2>1. IdsAt(c, j) \in Seq(Int)
    BY IdsAtTypes
  <2> QED BY <2>1
<1>2. dense \in Nat /\ \A k \in 1 .. n : cost(k) \in Nat
  BY Estimates
<1>3. LayerPayload(c, Layers(c)[j]) = dense + Total([k \in 1 .. n |-> cost(k)])
  BY <1>1 DEF LayerPayload, SumOver, IdsAt
<1>4. \A m : PaidIn(c, j, m) = dense + Total([k \in 1 .. m |-> cost(k)])
  BY DEF PaidIn
<1> HIDE DEF n, cost, dense
<1>5. \A k \in 1 .. n : f[k] = cost(k) /\ f[k] \in Nat
  BY <1>2
<1>6. \A m \in 0 .. n : [k \in 1 .. m |-> cost(k)] = [k \in 1 .. m |-> f[k]]
  BY <1>1
<1> HIDE DEF f
<1>7. /\ sum(0) = 0 /\ \A m \in 0 .. n : sum(m) \in Nat
      /\ \A m \in 0 .. n - 1 : sum(m + 1) = sum(m) + f[m + 1]
  BY <1>1, <1>5, PrefixSums
<1>8. \A m \in 0 .. n : PaidIn(c, j, m) = dense + sum(m)
  BY <1>4, <1>6
<1>9. LayerPayload(c, Layers(c)[j]) = PaidIn(c, j, n)
  BY <1>3, <1>4
<1>10. ASSUME NEW m \in 0 .. n - 1 PROVE PaidIn(c, j, m + 1) = PaidIn(c, j, m) + cost(m + 1)
  <2>1. m \in 0 .. n /\ m + 1 \in 0 .. n /\ m + 1 \in 1 .. n
    BY <1>1
  <2> HIDE DEF sum
  <2>2. sum(m) \in Nat /\ sum(m + 1) = sum(m) + cost(m + 1) /\ cost(m + 1) \in Nat
    BY <1>5, <1>7, <2>1
  <2>3. PaidIn(c, j, m + 1) = dense + sum(m + 1) /\ PaidIn(c, j, m) = dense + sum(m)
    BY <1>8, <2>1
  <2> QED BY <1>2, <2>2, <2>3
<1>11. 0 \in 0 .. n /\ PaidIn(c, j, 0) = dense
  <2>1. 0 \in 0 .. n
    BY <1>1
  <2> HIDE DEF sum
  <2> QED BY <1>2, <1>7, <1>8, <2>1
<1>12. \A m \in 0 .. n : PaidIn(c, j, m) \in Nat
  <2> HIDE DEF sum
  <2> QED BY <1>2, <1>7, <1>8
<1> QED BY <1>9, <1>10, <1>11, <1>12 DEF n, cost, dense

\* What the plan reckons, layer by layer.
LEMMA PaidLayers ==
  ASSUME NEW c \in ConvertCommands, Layers(c) # <<>>
  PROVE  /\ PaidBefore(c, 1) = 0
         /\ \A j \in 1 .. Len(Layers(c)) :
               /\ PaidBefore(c, j) \in Nat
               /\ PaidBefore(c, j + 1) = PaidBefore(c, j) + PaidIn(c, j, Len(IdsAt(c, j)))
         /\ plan_payload(c) = PaidBefore(c, Len(Layers(c)) + 1) + GlobalPayload(c)
<1> DEFINE n == Len(Layers(c))
           cost(k) == LayerPayload(c, Layers(c)[k])
           f == [k \in 1 .. n |-> cost(k)]
           sum(m) == Total([k \in 1 .. m |-> f[k]])
<1>1. n \in Nat /\ DOMAIN Layers(c) = 1 .. n
  BY LayersOnce
<1>2. \A k \in 1 .. n : cost(k) \in Nat /\ cost(k) = PaidIn(c, k, Len(IdsAt(c, k)))
  <2> SUFFICES ASSUME NEW k \in 1 .. n
               PROVE cost(k) \in Nat /\ cost(k) = PaidIn(c, k, Len(IdsAt(c, k)))
    OBVIOUS
  <2>1. Len(IdsAt(c, k)) \in 0 .. Len(IdsAt(c, k))
    BY IdsAtTypes
  <2> QED BY <2>1, PaidExperts
<1>3. plan_payload(c) = Total([k \in 1 .. n |-> cost(k)]) + GlobalPayload(c)
  BY <1>1 DEF plan_payload, SumOver, GlobalPayload
<1>4. \A m : PaidBefore(c, m) = Total([k \in 1 .. m - 1 |-> cost(k)])
  BY DEF PaidBefore
<1> HIDE DEF n, cost
<1>5. \A k \in 1 .. n : f[k] = cost(k) /\ f[k] \in Nat
  BY <1>2
<1>6. \A m \in 0 .. n : [k \in 1 .. m |-> cost(k)] = [k \in 1 .. m |-> f[k]]
  BY <1>1
<1> HIDE DEF f
<1>7. /\ sum(0) = 0 /\ \A m \in 0 .. n : sum(m) \in Nat
      /\ \A m \in 0 .. n - 1 : sum(m + 1) = sum(m) + f[m + 1]
  BY <1>1, <1>5, PrefixSums
<1>8. \A m \in 0 .. n : PaidBefore(c, m + 1) = sum(m)
  <2> SUFFICES ASSUME NEW m \in 0 .. n PROVE PaidBefore(c, m + 1) = sum(m)
    OBVIOUS
  <2>1. (m + 1) - 1 = m
    BY <1>1
  <2>2. PaidBefore(c, m + 1) = Total([k \in 1 .. (m + 1) - 1 |-> cost(k)])
    BY <1>4
  <2> QED BY <1>6, <2>1, <2>2
<1>9. plan_payload(c) = PaidBefore(c, n + 1) + GlobalPayload(c)
  <2>1. (n + 1) - 1 = n
    BY <1>1
  <2>2. PaidBefore(c, n + 1) = Total([k \in 1 .. (n + 1) - 1 |-> cost(k)])
    BY <1>4
  <2> QED BY <1>3, <2>1, <2>2
<1>10. PaidBefore(c, 1) = 0
  <2>1. 0 \in 0 .. n /\ 0 + 1 = 1
    BY <1>1
  <2> HIDE DEF sum
  <2> QED BY <1>7, <1>8, <2>1
<1>11. ASSUME NEW j \in 1 .. n
       PROVE  /\ PaidBefore(c, j) \in Nat
              /\ PaidBefore(c, j + 1) = PaidBefore(c, j) + PaidIn(c, j, Len(IdsAt(c, j)))
  <2>1. j - 1 \in 0 .. n - 1 /\ j - 1 \in 0 .. n /\ j \in 0 .. n /\ (j - 1) + 1 = j
    BY <1>1
  <2> HIDE DEF sum
  <2>2. sum((j - 1) + 1) = sum(j - 1) + f[(j - 1) + 1] /\ sum(j - 1) \in Nat
    BY <1>7, <2>1
  <2>3. PaidBefore(c, j) = sum(j - 1)
    BY <1>8, <2>1
  <2>4. PaidBefore(c, j + 1) = sum(j)
    BY <1>8, <2>1
  <2>5. f[j] = PaidIn(c, j, Len(IdsAt(c, j)))
    BY <1>2, <1>5
  <2> QED BY <2>1, <2>2, <2>3, <2>4, <2>5
<1> QED BY <1>9, <1>10, <1>11 DEF n

---------------------------------------------------------------------------
(* Tables that grow *)

LEMMA ExpertTableStarts ==
  ASSUME NEW c \in ConvertCommands, Layers(c) # <<>>
  PROVE  ExpertTable(c, <<>>, 1, 0)
<1>1. ExpertsUpTo(c, 1 - 1) = 0
  BY ExpertsSums
<1>2. Len(<<>>) = 0 /\ DOMAIN <<>> = {}
  OBVIOUS
<1>3. \A j \in 1 .. 1 : (IF j = 1 THEN 0 ELSE Len(IdsAt(c, j))) = 0
  OBVIOUS
<1> QED BY <1>1, <1>2, <1>3 DEF ExpertTable

LEMMA ExpertTableGrows ==
  ASSUME NEW c \in ConvertCommands, Layers(c) # <<>>,
         NEW li \in 1 .. Len(Layers(c)), NEW made \in Nat, made < Len(IdsAt(c, li)),
         NEW xs, SequenceOfEntries(xs), ExpertTable(c, xs, li, made),
         NEW x, x.layer = Layers(c)[li], x.expert = IdsAt(c, li)[made + 1]
  PROVE  ExpertTable(c, Append(xs, x), li, made + 1)
<1> DEFINE t == Append(xs, x)
           before(j) == ExpertsUpTo(c, j - 1)
           n(j) == Len(IdsAt(c, j))
<1>1. /\ DOMAIN t = DOMAIN xs \cup {Len(xs) + 1} /\ Len(t) = Len(xs) + 1
      /\ \A i \in DOMAIN xs : t[i] = xs[i]
      /\ t[Len(xs) + 1] = x
      /\ Len(xs) \in Nat
  BY AppendEntry
<1> HIDE DEF t
<1>2. before(li) \in Nat /\ n(li) \in Nat /\ li \in Nat
  <2>1. li - 1 \in 0 .. Len(Layers(c))
    BY ExpertsSums
  <2> QED BY <2>1, ExpertsSums, IdsAtTypes
<1>3. Len(xs) = before(li) + made
  BY DEF ExpertTable
<1>4. Len(t) = before(li) + (made + 1)
  BY <1>1, <1>2, <1>3
<1> HIDE DEF before, n
<1>5. ASSUME NEW j \in 1 .. li, NEW k \in 1 .. (IF j = li THEN made + 1 ELSE n(j))
      PROVE  /\ before(j) + k \in DOMAIN t
             /\ t[before(j) + k].layer = Layers(c)[j]
             /\ t[before(j) + k].expert = IdsAt(c, j)[k]
  <2>1. CASE j = li /\ k = made + 1
    <3>1. before(j) + k = Len(xs) + 1
      BY <1>2, <1>3, <2>1
    <3> QED BY <1>1, <2>1, <3>1
  <2>2. CASE ~(j = li /\ k = made + 1)
    <3>1. k \in 1 .. (IF j = li THEN made ELSE n(j))
      BY <2>2
    <3>2. /\ before(j) + k \in DOMAIN xs
          /\ xs[before(j) + k].layer = Layers(c)[j]
          /\ xs[before(j) + k].expert = IdsAt(c, j)[k]
      BY <3>1 DEF ExpertTable, before, n
    <3> QED BY <1>1, <3>2
  <2> QED BY <2>1, <2>2
<1>6. ASSUME NEW i \in DOMAIN t
      PROVE  \E j \in 1 .. li : t[i].layer = Layers(c)[j] /\ i \in before(j) + 1 .. before(j) + n(j)
  <2>1. CASE i \in DOMAIN xs
    <3>1. \E j \in 1 .. li : xs[i].layer = Layers(c)[j] /\ i \in before(j) + 1 .. before(j) + n(j)
      BY <2>1 DEF ExpertTable, before, n
    <3> QED BY <1>1, <2>1, <3>1
  <2>2. CASE i = Len(xs) + 1
    <3>1. i \in before(li) + 1 .. before(li) + n(li)
      BY <1>2, <1>3, <2>2 DEF n
    <3>2. li \in 1 .. li
      BY <1>2
    <3> QED BY <1>1, <2>2, <3>1, <3>2
  <2> QED BY <1>1, <2>1, <2>2
<1> QED BY <1>4, <1>5, <1>6 DEF ExpertTable, t, before, n

\* The last expert of a layer completes its part of the table.
LEMMA ExpertTableTurns ==
  ASSUME NEW c \in ConvertCommands, Layers(c) # <<>>,
         NEW li \in 1 .. Len(Layers(c)), li < Len(Layers(c)),
         NEW xs, ExpertTable(c, xs, li, Len(IdsAt(c, li)))
  PROVE  ExpertTable(c, xs, li + 1, 0)
<1> DEFINE before(j) == ExpertsUpTo(c, j - 1)
           n(j) == Len(IdsAt(c, j))
<1>1. li \in Nat /\ (li + 1) - 1 = li
  BY ExpertsSums
<1>2. Len(xs) = ExpertsUpTo(c, (li + 1) - 1) + 0
  <2>1. ExpertsUpTo(c, li) = before(li) + n(li) /\ ExpertsUpTo(c, li) \in Nat
    BY ExpertsSums
  <2>2. Len(xs) = before(li) + n(li)
    BY DEF ExpertTable
  <2> HIDE DEF before, n
  <2> QED BY <1>1, <2>1, <2>2
<1> HIDE DEF before, n
<1>3. ASSUME NEW j \in 1 .. li + 1, NEW k \in 1 .. (IF j = li + 1 THEN 0 ELSE n(j))
      PROVE  /\ before(j) + k \in DOMAIN xs
             /\ xs[before(j) + k].layer = Layers(c)[j]
             /\ xs[before(j) + k].expert = IdsAt(c, j)[k]
  <2>1. j \in 1 .. li /\ k \in 1 .. (IF j = li THEN n(li) ELSE n(j))
    BY <1>1, <1>3
  <2> QED BY <2>1 DEF ExpertTable, before, n
<1>4. ASSUME NEW i \in DOMAIN xs
      PROVE  \E j \in 1 .. li + 1 : /\ xs[i].layer = Layers(c)[j]
                                    /\ i \in before(j) + 1 .. before(j) + n(j)
  <2>1. \E j \in 1 .. li : xs[i].layer = Layers(c)[j] /\ i \in before(j) + 1 .. before(j) + n(j)
    BY DEF ExpertTable, before, n
  <2>2. 1 .. li \subseteq 1 .. li + 1
    BY <1>1
  <2> QED BY <2>1, <2>2
<1> QED BY <1>2, <1>3, <1>4 DEF ExpertTable, before, n

LEMMA LayerTableGrows ==
  ASSUME NEW c \in ConvertCommands, NEW n \in Nat, NEW ls, SequenceOfEntries(ls),
         LayerTable(c, ls, n), NEW x, x.layer = Layers(c)[n + 1],
         x.first = ExpertsUpTo(c, n), x.num = Len(IdsAt(c, n + 1))
  PROVE  LayerTable(c, Append(ls, x), n + 1)
<1> DEFINE t == Append(ls, x)
<1>1. /\ DOMAIN t = DOMAIN ls \cup {Len(ls) + 1} /\ Len(t) = Len(ls) + 1
      /\ \A i \in DOMAIN ls : t[i] = ls[i]
      /\ t[Len(ls) + 1] = x
      /\ Len(ls) \in Nat /\ DOMAIN ls = 1 .. Len(ls)
  BY AppendEntry
<1> HIDE DEF t
<1>2. Globals(c) \in {0, 1}
  BY DEF Globals
<1>3. Len(ls) = Globals(c) + n /\ Len(t) = Globals(c) + (n + 1)
  BY <1>1, <1>2 DEF LayerTable
<1>4. Globals(c) = 1 => t[1].layer = NoId
  <2> SUFFICES ASSUME Globals(c) = 1 PROVE t[1].layer = NoId
    OBVIOUS
  <2>1. 1 \in DOMAIN ls
    BY <1>1, <1>3
  <2> QED BY <1>1, <2>1 DEF LayerTable
<1>5. ASSUME NEW j \in 1 .. n + 1
      PROVE  /\ t[Globals(c) + j].layer = Layers(c)[j]
             /\ t[Globals(c) + j].first = ExpertsUpTo(c, j - 1)
             /\ t[Globals(c) + j].num = Len(IdsAt(c, j))
  <2>1. CASE j = n + 1
    <3>1. Globals(c) + j = Len(ls) + 1 /\ j - 1 = n
      BY <1>2, <1>3, <2>1
    <3> QED BY <1>1, <2>1, <3>1
  <2>2. CASE j \in 1 .. n
    <3>1. Globals(c) + j \in DOMAIN ls
      BY <1>1, <1>2, <1>3, <2>2
    <3> QED BY <1>1, <2>2, <3>1 DEF LayerTable
  <2> QED BY <2>1, <2>2
<1> QED BY <1>3, <1>4, <1>5 DEF LayerTable, t

LEMMA LeadToGrows ==
  ASSUME NEW ls, NEW blocks, SequenceOfEntries(blocks), LeadTo(ls, blocks), NEW b
  PROVE  LeadTo(ls, Append(blocks, b))
  BY AppendEntry DEF LeadTo

LEMMA LeadToNew ==
  ASSUME NEW ls, SequenceOfEntries(ls), NEW blocks, SequenceOfEntries(blocks),
         LeadTo(ls, blocks), NEW b, NEW x,
         b.offset = x.offset, b.layer = x.layer, b.expert = NoId
  PROVE  LeadTo(Append(ls, x), Append(blocks, b))
<1> DEFINE t == Append(ls, x)
           bs == Append(blocks, b)
<1>1. /\ DOMAIN t = DOMAIN ls \cup {Len(ls) + 1}
      /\ \A i \in DOMAIN ls : t[i] = ls[i]
      /\ t[Len(ls) + 1] = x
  BY AppendEntry
<1>2. /\ DOMAIN bs = DOMAIN blocks \cup {Len(blocks) + 1}
      /\ bs[Len(blocks) + 1] = b
  BY AppendEntry
<1>3. LeadTo(ls, bs)
  BY LeadToGrows
<1> HIDE DEF t, bs
<1> QED BY <1>1, <1>2, <1>3 DEF LeadTo, t, bs

\* copy_aligned_block keeps the chain.
LEMMA ChainGrows ==
  ASSUME NEW blocks, NEW start \in Nat, NEW end, Chain(blocks, start, end), NEW b,
         b.offset = align_up(end), b.disk \in Nat, Aligned(b.disk)
  PROVE  Chain(Append(blocks, b), start, BlockEnd(b)) /\ BlockEnd(b) \in Nat
<1> DEFINE t == Append(blocks, b)
<1>1. /\ DOMAIN t = DOMAIN blocks \cup {Len(blocks) + 1} /\ Len(t) = Len(blocks) + 1
      /\ \A i \in DOMAIN blocks : t[i] = blocks[i]
      /\ t[Len(blocks) + 1] = b /\ SequenceOfEntries(t)
      /\ Len(blocks) \in Nat /\ DOMAIN blocks = 1 .. Len(blocks)
  BY AppendEntry DEF Chain
<1> HIDE DEF t
<1>2. end \in Nat /\ end >= start
  BY DEF Chain
<1>3. /\ b.offset \in Nat /\ b.offset >= end /\ Aligned(b.offset)
      /\ blocks # <<>> => b.offset = end
  BY <1>2, AlignUp DEF Chain
<1>4. BlockEnd(b) \in Nat /\ Aligned(BlockEnd(b)) /\ BlockEnd(b) >= b.offset
  <2>1. b.offset + b.disk \in Nat /\ Aligned(b.offset + b.disk)
    BY <1>3, AlignedSum
  <2>2. b.offset + b.disk >= b.offset
    BY <1>3
  <2> QED BY <2>1, <2>2 DEF BlockEnd
<1>5. ASSUME NEW i \in DOMAIN t
      PROVE  /\ t[i].offset \in Nat /\ t[i].disk \in Nat
             /\ Aligned(t[i].offset) /\ t[i].offset >= start
             /\ i > 1 => t[i].offset = BlockEnd(t[i - 1])
  <2>1. CASE i \in DOMAIN blocks
    <3>1. i > 1 => i - 1 \in DOMAIN blocks
      BY <1>1, <2>1
    <3> QED BY <1>1, <2>1, <3>1 DEF Chain
  <2>2. CASE i = Len(blocks) + 1
    <3>1. i > 1 => /\ i - 1 = Len(blocks) /\ Len(blocks) \in DOMAIN blocks
                   /\ blocks # <<>>
      BY <1>1, <2>2
    <3>2. i > 1 => end = BlockEnd(blocks[Len(blocks)])
      BY <3>1 DEF Chain
    <3>3. i > 1 => t[i - 1] = blocks[Len(blocks)] /\ b.offset = end
      BY <1>1, <1>3, <3>1
    <3>4. t[i] = b
      BY <1>1, <2>2
    <3>5. b.offset >= start
      BY <1>2, <1>3
    <3> QED BY <1>3, <3>2, <3>3, <3>4, <3>5
  <2> QED BY <1>1, <2>1, <2>2
<1>6. t[Len(t)] = b /\ BlockEnd(b) >= start
  BY <1>1, <1>2, <1>3, <1>4
<1> QED BY <1>1, <1>4, <1>5, <1>6 DEF Chain, t

LEMMA TensorsGrow ==
  ASSUME NEW blocks, SequenceOfEntries(blocks), NEW b
  PROVE  TensorsOf(Append(blocks, b)) = TensorsOf(blocks) \cup b.tensors
<1> DEFINE t == Append(blocks, b)
<1>1. /\ DOMAIN t = DOMAIN blocks \cup {Len(blocks) + 1}
      /\ \A i \in DOMAIN blocks : t[i] = blocks[i]
      /\ t[Len(blocks) + 1] = b
  BY AppendEntry
<1> HIDE DEF t
<1> QED BY <1>1 DEF TensorsOf, t

LEMMA DisksGrow ==
  ASSUME NEW s, SequenceOfEntries(s), \A i \in DOMAIN s : s[i].disk \in Nat,
         NEW b, b.disk \in Nat
  PROVE  /\ Disks(Append(s, b)) = Disks(s) + b.disk
         /\ Disks(s) \in Nat
         /\ \A i \in DOMAIN Append(s, b) : Append(s, b)[i].disk \in Nat
<1> DEFINE t == Append(s, b)
           f == [i \in DOMAIN t |-> t[i].disk]
           n == Len(s)
<1>1. /\ DOMAIN t = DOMAIN s \cup {n + 1} /\ n \in Nat /\ DOMAIN s = 1 .. n
      /\ \A i \in DOMAIN s : t[i] = s[i]
      /\ t[n + 1] = b
  BY AppendEntry
<1> HIDE DEF t, n
<1>2. DOMAIN t = 1 .. n + 1
  BY <1>1
<1>3. \A i \in 1 .. n + 1 : f[i] = t[i].disk /\ t[i].disk \in Nat
  BY <1>1, <1>2
<1>4. Disks(t) = Total([i \in 1 .. n + 1 |-> f[i]])
  BY <1>2, <1>3 DEF Disks
<1>5. Disks(s) = Total([i \in 1 .. n |-> f[i]])
  <2>1. [i \in DOMAIN s |-> s[i].disk] = [i \in 1 .. n |-> f[i]]
    BY <1>1, <1>3
  <2> QED BY <2>1 DEF Disks
<1> HIDE DEF f
<1>6. /\ \A j \in 0 .. n + 1 : Total([i \in 1 .. j |-> f[i]]) \in Nat
      /\ \A j \in 0 .. (n + 1) - 1 :
            Total([i \in 1 .. j + 1 |-> f[i]]) = Total([i \in 1 .. j |-> f[i]]) + f[j + 1]
  <2>1. n + 1 \in Nat /\ \A i \in 1 .. n + 1 : f[i] \in Nat
    BY <1>1, <1>3
  <2> QED BY <2>1, PrefixSums
<1>7. n \in 0 .. (n + 1) - 1 /\ n \in 0 .. n + 1
  BY <1>1
<1>8. f[n + 1] = b.disk
  BY <1>1, <1>3
<1> QED BY <1>2, <1>3, <1>4, <1>5, <1>6, <1>7, <1>8 DEF t

---------------------------------------------------------------------------
(* The steps *)

LEMMA ManifestEndNatural ==
  ASSUME cvCmd \in ConvertCommands, Layers(cvCmd) # <<>>
  PROVE  /\ ManifestEnd \in Nat
         /\ Globals(cvCmd) \in {0, 1}
         /\ ManifestEnd = align_up(EngineHeaderBytes)
              + ManifestBytes(Len(Layers(cvCmd)) + Globals(cvCmd), ExpertTotal(cvCmd))
<1>1. Globals(cvCmd) \in {0, 1}
  BY DEF Globals
<1>2. ManifestEnd = align_up(EngineHeaderBytes)
        + ManifestBytes(Len(Layers(cvCmd)) + Globals(cvCmd), ExpertTotal(cvCmd))
  BY DEF ManifestEnd, Globals
<1>3. Len(Layers(cvCmd)) + Globals(cvCmd) \in Nat /\ ExpertTotal(cvCmd) \in Nat
  <2>1. Len(Layers(cvCmd)) \in Nat
    BY ExpertsSums
  <2>2. Len(Layers(cvCmd)) \in 0 .. Len(Layers(cvCmd))
    BY <2>1
  <2> QED BY <1>1, <2>1, <2>2, ExpertsSums
<1>4. \A n, m \in Nat : ManifestBytes(n, m) \in Nat
  <2>1. ManifestHeaderBytes \in Nat /\ LayerDescBytes \in Nat /\ ExpertDescBytes \in Nat
    BY ConvertAssumption
  <2>2. \A n, d \in Nat : n * d \in Nat
    OBVIOUS
  <2>3. \A n, m \in Nat : n * LayerDescBytes \in Nat /\ m * ExpertDescBytes \in Nat
    BY <2>1, <2>2
  <2> QED BY <2>1, <2>3 DEF ManifestBytes
<1>5. align_up(EngineHeaderBytes) \in Nat
  BY ConvertAssumption, AlignUp
<1>6. ManifestBytes(Len(Layers(cvCmd)) + Globals(cvCmd), ExpertTotal(cvCmd)) \in Nat
  BY <1>3, <1>4
<1>7. ManifestEnd \in Nat
  BY <1>2, <1>5, <1>6
<1> QED BY <1>1, <1>2, <1>7

LEMMA CoreStays ==
  ASSUME CoreSound, cvCmd' = cvCmd, cvDisk'.core = cvDisk.core
  PROVE  CoreSound'
<1>1. Blocks' = Blocks /\ ManifestEnd' = ManifestEnd
  BY DEF Blocks, ManifestEnd
<1>2. CoreLayoutSound => CoreLayoutSound'
  BY <1>1 DEF CoreLayoutSound
<1>3. ManifestWindowsExact => ManifestWindowsExact'
  BY <1>1 DEF ManifestWindowsExact
<1>4. EstimateExact => EstimateExact'
  BY <1>1 DEF EstimateExact, SumOver, IsRaw
<1> QED BY <1>1, <1>2, <1>3, <1>4 DEF CoreSound, CoreReadable

LEMMA CoreUnfinished ==
  ASSUME cvDisk'.core.state = "partial"
  PROVE  CoreSound'
  BY DEF CoreSound, CoreReadable, CoreLayoutSound, ManifestWindowsExact, EstimateExact

LEMMA ExitKeeps ==
  ASSUME ConvertTyped, CoreInv, NEW status, status # "ok", Exit(status),
         cvCmd' = cvCmd, cvDisk'.core = cvDisk.core
  PROVE  CoreInv'
<1>1. cvProc'.pc = "idle" /\ cvProc'.exit = status
  BY DEF Exit, Idle
<1>2. CoreSound'
  BY CoreStays DEF CoreInv
<1> QED BY <1>1, <1>2 DEF CoreInv, Converting, Writing, Finishing, NothingDropped

LEMMA StartConvertKeepsCore ==
  ASSUME ConvertTyped, CoreInv, StartConvert
  PROVE  CoreInv'
<1>1. cvCmd' = cvCmd /\ cvDisk'.core = cvDisk.core
  BY DEF StartConvert, Announce, ConvertTyped
<1>2. CoreSound'
  BY <1>1, CoreStays DEF CoreInv
<1>3. /\ cvProc'.pc \in {"idle", "reserve"} /\ cvProc'.exit # "ok"
      /\ cvProc'.pc = "reserve" => Layers(cvCmd) # <<>> /\ Begun'
  BY DEF StartConvert, Idle, Begun
<1> QED BY <1>1, <1>2, <1>3 DEF CoreInv, Converting, Writing, Finishing, NothingDropped

LEMMA ReserveKeepsCore ==
  ASSUME ConvertTyped, CoreInv, ReserveManifest
  PROVE  CoreInv'
<1> DEFINE c == cvCmd
<1>1. /\ cvProc.pc = "reserve" /\ cvCmd' = cvCmd /\ c \in ConvertCommands /\ Layers(c) # <<>>
      /\ Begun
  BY DEF ReserveManifest, At, CoreInv
<1>2. /\ cvProc'.pc = IF Globals(c) = 0 THEN "dense" ELSE "global"
      /\ cvProc'.li = 1 /\ cvProc'.pos = ManifestEnd
      /\ cvProc'.todo = <<>> /\ cvProc'.layers = <<>> /\ cvProc'.experts = <<>>
      /\ cvProc'.exit = "none"
  BY <1>1 DEF ReserveManifest, ConvertTyped, Begun, Globals, ManifestEnd
<1>3. cvDisk'.core.state = "partial" /\ cvDisk'.core.manifest = <<>> /\ Blocks' = <<>>
  BY DEF ReserveManifest, ConvertTyped, NoCore, Blocks
<1>4. /\ cvProc'.pc \in {"dense", "global"} /\ Globals(c) \in {0, 1}
      /\ cvProc'.pc = "global" => Globals(c) = 1
      /\ cvProc'.pc = "dense" => Globals(c) = 0
  BY <1>2 DEF Globals
<1>5. BeforeExperts' /\ Made' = 0 /\ Writing' /\ Converting'
  BY <1>4 DEF BeforeExperts, Made, Writing, Converting
<1>6. Course'
  <2>1. 1 \in 1 .. Len(Layers(c))
    BY <1>1, ExpertsSums
  <2>2. <<>> \in Seq(Int)
    OBVIOUS
  <2> QED BY <1>1, <1>2, <1>4, <1>5, <2>1, <2>2 DEF Course
<1>7. Tables'
  <2>1. ExpertTable(c, <<>>, 1, 0)
    BY <1>1, ExpertTableStarts
  <2>2. LayerTable(c, <<>>, 0) \/ Globals(c) # 0
    BY DEF LayerTable
  <2>3. LeadTo(<<>>, <<>>)
    BY DEF LeadTo
  <2> QED BY <1>1, <1>2, <1>3, <1>4, <1>5, <2>1, <2>2, <2>3 DEF Tables
<1>8. Holdings'
  BY <1>2, <1>5 DEF Holdings
<1>9. Spent'
  <2>1. Disks(<<>>) = 0
    <3>1. [i \in DOMAIN <<>> |-> <<>>[i].disk] \in Seq(Int)
          /\ Len([i \in DOMAIN <<>> |-> <<>>[i].disk]) = 0
      OBVIOUS
    <3> QED BY <3>1, TotalEmpty DEF Disks
  <2>2. PaidBefore(c, 1) = 0 /\ GlobalPayload(c) = IF Globals(c) = 0 THEN 0 ELSE Estimate(GlobalRefs(c))
    BY <1>1, PaidLayers DEF GlobalPayload, Globals
  <2>3. Paid' = 0
    BY <1>1, <1>2, <1>4, <1>5, <2>2 DEF Paid
  <2>4. DOMAIN cvProc'.experts = {}
    BY <1>2
  <2> QED BY <1>2, <1>3, <2>1, <2>3, <2>4 DEF Spent
<1>10. Phase'
  <2>1. ManifestEnd \in Nat /\ ManifestEnd' = ManifestEnd
    BY <1>1, ManifestEndNatural DEF ManifestEnd
  <2>2. Chain(<<>>, ManifestEnd, ManifestEnd)
    <3>1. SequenceOfEntries(<<>>) /\ DOMAIN <<>> = {}
      BY DEF SequenceOfEntries
    <3> QED BY <2>1, <3>1 DEF Chain
  <2> QED BY <1>2, <1>3, <1>4, <1>5, <2>1, <2>2 DEF Phase
<1>11. CoreSound' /\ NothingDropped'
  BY <1>2, <1>3, CoreUnfinished DEF NothingDropped
<1> QED BY <1>1, <1>4, <1>5, <1>6, <1>7, <1>8, <1>9, <1>10, <1>11 DEF CoreInv

\* What appending a block does to the core.
LEMMA BlockWritten ==
  ASSUME ConvertTyped, CoreInv, Writing, NEW l, NEW e, NEW refs \in Seq(cvCmd.source),
         WriteBlock(NextBlock(l, e, refs)), cvCmd' = cvCmd
  PROVE  LET b == NextBlock(l, e, refs) IN
         /\ Blocks' = Append(Blocks, b) /\ SequenceOfEntries(Blocks)
         /\ cvDisk'.core.state = "partial" /\ cvDisk'.core.manifest = <<>>
         /\ b.layer = l /\ b.expert = e /\ b.disk = BlockBytes(refs) /\ b.disk \in Nat
         /\ Chain(Blocks', ManifestEnd', BlockEnd(b))
         /\ TensorsOf(Blocks') = TensorsOf(Blocks) \cup Range(refs)
         /\ Disks(Blocks') = Disks(Blocks) + BlockBytes(refs) /\ Disks(Blocks) \in Nat
<1> DEFINE b == NextBlock(l, e, refs)
<1>1. /\ b.layer = l /\ b.expert = e /\ b.disk = BlockBytes(refs)
      /\ b.tensors = Range(refs) /\ b.offset = align_up(cvProc.pos)
  BY DEF NextBlock
<1>2. /\ cvDisk'.core.blocks = Append(cvDisk.core.blocks, b)
      /\ cvDisk'.core.state = cvDisk.core.state
      /\ cvDisk'.core.manifest = cvDisk.core.manifest
  BY DEF WriteBlock, ConvertTyped
<1> HIDE DEF b
<1>3. Blocks' = Append(Blocks, b)
  BY <1>2 DEF Blocks
<1>4. /\ cvDisk.core.state = "partial" /\ Chain(Blocks, ManifestEnd, cvProc.pos)
      /\ cvDisk.core.manifest = <<>>
  BY DEF CoreInv, Phase, Writing, Converting, Finishing
<1>5. cvCmd \in ConvertCommands /\ Layers(cvCmd) # <<>>
  BY DEF CoreInv, Writing
<1>6. BlockBytes(refs) \in Nat /\ Aligned(BlockBytes(refs))
  BY <1>5, BlockSize
<1>7. ManifestEnd \in Nat /\ ManifestEnd' = ManifestEnd
  BY <1>5, ManifestEndNatural DEF ManifestEnd
<1>8. Chain(Blocks', ManifestEnd', BlockEnd(b))
  BY <1>1, <1>3, <1>4, <1>6, <1>7, ChainGrows
<1>9. SequenceOfEntries(Blocks) /\ \A i \in DOMAIN Blocks : Blocks[i].disk \in Nat
  BY <1>4 DEF Chain
<1>10. TensorsOf(Blocks') = TensorsOf(Blocks) \cup Range(refs)
  BY <1>1, <1>3, <1>9, TensorsGrow
<1>11. Disks(Blocks') = Disks(Blocks) + BlockBytes(refs) /\ Disks(Blocks) \in Nat
  BY <1>1, <1>3, <1>6, <1>9, DisksGrow
<1> QED BY <1>1, <1>2, <1>3, <1>4, <1>6, <1>8, <1>9, <1>10, <1>11 DEF b

LEMMA GlobalKeepsCore ==
  ASSUME ConvertTyped, CoreInv, GlobalBlock
  PROVE  CoreInv'
<1> DEFINE c == cvCmd
           refs == GlobalRefs(c)
           b == NextBlock(NoId, NoId, refs)
           entry == LayerEntry(b, 0, 0)
<1>1. /\ cvProc.pc = "global" /\ cvCmd' = cvCmd /\ WriteBlock(b)
      /\ cvProc' = [cvProc EXCEPT !.pc = "dense", !.pos = BlockEnd(b), !.layers = <<entry>>]
  BY DEF GlobalBlock, At
<1>2. /\ Writing /\ Converting /\ BeforeExperts /\ Made = 0
      /\ c \in ConvertCommands /\ Layers(c) # <<>>
      /\ Course /\ Tables /\ Holdings /\ Spent /\ Phase
  BY <1>1 DEF CoreInv, Writing, Converting, BeforeExperts, Made
<1>3. /\ cvProc'.pc = "dense" /\ cvProc'.li = 1 /\ cvProc'.li = cvProc.li
      /\ cvProc'.todo = <<>> /\ cvProc'.pos = BlockEnd(b)
      /\ cvProc'.layers = <<entry>> /\ cvProc'.experts = cvProc.experts
      /\ cvProc'.exit = cvProc.exit
      /\ Globals(c) = 1 /\ cvProc.layers = <<>>
  BY <1>1, <1>2 DEF ConvertTyped, Course, Tables
<1>4. refs \in Seq(c.source)
  BY <1>2, BlockRefs
<1>5. entry.layer = b.layer /\ entry.offset = b.offset
  BY DEF LayerEntry
<1> HIDE DEF refs, b, entry
<1>6. /\ Blocks' = Append(Blocks, b) /\ SequenceOfEntries(Blocks)
      /\ cvDisk'.core.state = "partial" /\ cvDisk'.core.manifest = <<>>
      /\ b.layer = NoId /\ b.expert = NoId /\ b.disk = BlockBytes(refs) /\ b.disk \in Nat
      /\ Chain(Blocks', ManifestEnd', BlockEnd(b))
      /\ Disks(Blocks') = Disks(Blocks) + BlockBytes(refs) /\ Disks(Blocks) \in Nat
  BY <1>1, <1>2, <1>4, BlockWritten DEF b
<1>7. BeforeExperts' /\ Made' = 0 /\ Writing' /\ Converting'
  BY <1>3 DEF BeforeExperts, Made, Writing, Converting
<1>8. Course'
  BY <1>1, <1>2, <1>3, <1>7 DEF Course
<1>9. Tables'
  <2>1. LayerTable(c, <<entry>>, 0)
    BY <1>3, <1>5, <1>6 DEF LayerTable
  <2>2. LeadTo(<<entry>>, Blocks')
    <3>1. LeadTo(<<>>, Blocks) /\ SequenceOfEntries(<<>>)
      BY DEF LeadTo, SequenceOfEntries
    <3>2. LeadTo(Append(<<>>, entry), Append(Blocks, b))
      BY <1>5, <1>6, <3>1, LeadToNew
    <3> QED BY <1>6, <3>2
  <2>3. ExpertTable(c, cvProc.experts, cvProc.li, 0)
    BY <1>2 DEF Tables
  <2> QED BY <1>1, <1>3, <1>7, <2>1, <2>2, <2>3 DEF Tables
<1>10. Holdings'
  <2>1. cvCmd.tool # "single" /\ IsRaw(cvCmd)
    BY <1>3 DEF Globals, GlobalRefs, IsRaw
  <2> QED BY <1>1, <1>3, <1>7, <2>1 DEF Holdings, IsRaw
<1>11. Spent'
  <2>1. BlockBytes(refs) = GlobalPayload(c) /\ GlobalPayload(c) \in Nat
    <3>1. Estimate(refs) = BlockBytes(refs)
      BY <1>2, <1>4, BlockSize
    <3>2. refs # <<>>
      BY <1>3 DEF Globals, refs
    <3> QED BY <1>6, <3>1, <3>2 DEF GlobalPayload, refs
  <2>2. PaidBefore(c, 1) = 0
    BY <1>2, PaidLayers
  <2>3. Paid = 0
    BY <1>1, <1>2, <1>3, <2>2 DEF Paid
  <2>4. Paid' = GlobalPayload(c)
    BY <1>1, <1>3, <1>7, <2>1, <2>2 DEF Paid
  <2>5. Disks(cvProc.experts) = 0
    <3>1. Len(cvProc.experts) = 0
      <4>1. Len(cvProc.experts) = ExpertsUpTo(c, 1 - 1) + 0 /\ ExpertsUpTo(c, 0) = 0
        BY <1>2, <1>3, ExpertsSums DEF Tables, ExpertTable
      <4> QED BY <4>1
    <3>2. cvProc.experts \in Seq(Range(cvProc.experts))
      BY DEF ConvertTyped, SequenceOfEntries
    <3>3. /\ [i \in DOMAIN cvProc.experts |-> cvProc.experts[i].disk] \in Seq(Int)
          /\ Len([i \in DOMAIN cvProc.experts |-> cvProc.experts[i].disk]) = 0
      BY <3>1, <3>2
    <3> QED BY <3>3, TotalEmpty DEF Disks
  <2>6. IsRaw(c) => Disks(Blocks) + Disks(cvProc.experts) = Paid
    BY <1>2 DEF Spent
  <2>7. IsRaw(c) => Disks(Blocks') + Disks(cvProc.experts) = Paid'
    BY <1>6, <2>1, <2>3, <2>4, <2>5, <2>6
  <2> QED BY <1>1, <1>2, <1>3, <2>7 DEF Spent
<1>12. Phase'
  BY <1>2, <1>3, <1>6, <1>7 DEF Phase
<1>13. CoreSound' /\ NothingDropped'
  BY <1>2, <1>3, <1>6, CoreUnfinished DEF NothingDropped, Phase
<1> QED BY <1>1, <1>2, <1>3, <1>7, <1>8, <1>9, <1>10, <1>11, <1>12, <1>13 DEF CoreInv

LEMMA DenseKeepsCore ==
  ASSUME ConvertTyped, CoreInv, DenseBlock
  PROVE  CoreInv'
<1> DEFINE c == cvCmd
           li == cvProc.li
           l == Layers(c)[li]
           refs == DenseRefs(c, l)
           ids == IdsAt(c, li)
           b == NextBlock(l, NoId, refs)
           entry == LayerEntry(b, Len(cvProc.experts), Len(ids))
<1>0. CASE refs = <<>>
  <2>1. Exit("error") /\ UNCHANGED <<cvCmd, cvDisk>>
    BY <1>0 DEF DenseBlock, Layer
  <2> QED BY <2>1, ExitKeeps
<1>a. CASE refs # <<>>
  <2>1. /\ cvProc.pc = "dense" /\ cvCmd' = cvCmd /\ WriteBlock(b)
        /\ cvProc' = [cvProc EXCEPT !.pc = "expert", !.pos = BlockEnd(b), !.todo = ids,
                                    !.layers = Append(@, entry)]
    BY <1>a DEF DenseBlock, At, Layer, IdsAt
  <2>2. /\ Writing /\ Converting /\ BeforeExperts /\ Made = 0
        /\ c \in ConvertCommands /\ Layers(c) # <<>>
        /\ Course /\ Tables /\ Holdings /\ Spent /\ Phase
    BY <2>1 DEF CoreInv, Writing, Converting, BeforeExperts, Made
  <2>3. /\ cvProc'.pc = "expert" /\ cvProc'.li = li /\ cvProc'.todo = ids
        /\ cvProc'.pos = BlockEnd(b) /\ cvProc'.layers = Append(cvProc.layers, entry)
        /\ cvProc'.experts = cvProc.experts /\ cvProc'.exit = cvProc.exit
    BY <2>1, <2>2 DEF ConvertTyped
  <2>4. refs \in Seq(c.source)
    BY <2>2, BlockRefs
  <2>5. /\ entry.layer = b.layer /\ entry.offset = b.offset
        /\ entry.first = Len(cvProc.experts) /\ entry.num = Len(ids)
    BY DEF LayerEntry
  <2>6. /\ li \in 1 .. Len(Layers(c)) /\ ids \in Seq(Int) /\ Len(ids) \in Nat
        /\ Len(Layers(c)) \in Nat /\ li - 1 \in Nat /\ (li - 1) + 1 = li
        /\ ExpertsUpTo(c, li - 1) \in Nat
    <3>1. li \in 1 .. Len(Layers(c)) /\ Len(Layers(c)) \in Nat
      BY <2>2, ExpertsSums DEF Course
    <3>2. li - 1 \in 0 .. Len(Layers(c)) /\ (li - 1) + 1 = li /\ li - 1 \in Nat
      BY <3>1
    <3>3. ExpertsUpTo(c, li - 1) \in Nat
      BY <2>2, <3>2, ExpertsSums
    <3>4. ids \in Seq(Int) /\ Len(ids) \in Nat
      BY <2>2, IdsAtTypes
    <3> QED BY <3>1, <3>2, <3>3, <3>4
  <2> HIDE DEF refs, b, entry
  <2>7. /\ Blocks' = Append(Blocks, b) /\ SequenceOfEntries(Blocks)
        /\ cvDisk'.core.state = "partial" /\ cvDisk'.core.manifest = <<>>
        /\ b.layer = l /\ b.expert = NoId /\ b.disk = BlockBytes(refs) /\ b.disk \in Nat
        /\ Chain(Blocks', ManifestEnd', BlockEnd(b))
        /\ TensorsOf(Blocks') = TensorsOf(Blocks) \cup Range(refs)
        /\ Disks(Blocks') = Disks(Blocks) + BlockBytes(refs) /\ Disks(Blocks) \in Nat
    BY <2>1, <2>2, <2>4, BlockWritten DEF b
  <2>8. ~BeforeExperts' /\ Made' = 0 /\ Writing' /\ Converting'
    BY <2>1, <2>3, <2>6 DEF BeforeExperts, Made, Writing, Converting
  <2>9. Course'
    <3>1. \A k \in 1 .. Len(ids) : ids[k] = ids[0 + k]
      OBVIOUS
    <3> HIDE DEF ids
    <3> QED BY <2>1, <2>3, <2>6, <2>8, <3>1 DEF Course, ids
  <2>10. Tables'
    <3>1. Len(cvProc.experts) = ExpertsUpTo(c, li - 1)
      <4>1. Len(cvProc.experts) = ExpertsUpTo(c, li - 1) + 0
        BY <2>2 DEF Tables, ExpertTable
      <4> QED BY <2>6, <4>1
    <3>2. LayerTable(c, cvProc.layers, li - 1) /\ LeadTo(cvProc.layers, Blocks)
      BY <2>1, <2>2 DEF Tables
    <3>3. SequenceOfEntries(cvProc.layers)
      BY DEF ConvertTyped
    <3>4. LayerTable(c, Append(cvProc.layers, entry), (li - 1) + 1)
      <4>1. /\ entry.layer = Layers(c)[(li - 1) + 1]
            /\ entry.first = ExpertsUpTo(c, li - 1) /\ entry.num = Len(IdsAt(c, (li - 1) + 1))
        BY <2>5, <2>6, <2>7, <3>1
      <4>2. li - 1 \in Nat
        BY <2>6
      <4> HIDE DEF ids, l
      <4> QED BY <2>2, <3>2, <3>3, <4>1, <4>2, LayerTableGrows
    <3>5. LeadTo(Append(cvProc.layers, entry), Append(Blocks, b))
      BY <2>5, <2>7, <3>2, <3>3, LeadToNew
    <3>6. ExpertTable(c, cvProc.experts, li, 0)
      BY <2>2 DEF Tables
    <3> QED BY <2>1, <2>3, <2>6, <2>7, <2>8, <3>4, <3>5, <3>6 DEF Tables
  <2>11. Holdings'
    <3>1. \A j \in 1 .. li : Range(DenseRefs(c, Layers(c)[j])) \subseteq TensorsOf(Blocks')
      <4> SUFFICES ASSUME NEW j \in 1 .. li
                   PROVE  Range(DenseRefs(c, Layers(c)[j])) \subseteq TensorsOf(Blocks')
        OBVIOUS
      <4>1. CASE j = li
        BY <2>7, <4>1 DEF refs
      <4>2. CASE j # li
        <5>1. j \in 1 .. li - 1
          BY <2>6, <4>2
        <5> QED BY <2>2, <2>7, <5>1 DEF Holdings
      <4> QED BY <4>1, <4>2
    <3> QED BY <2>1, <2>2, <2>3, <2>7, <2>8, <3>1 DEF Holdings, RefsOf
  <2>12. Spent'
    <3>1. BlockBytes(refs) = PaidIn(c, li, 0) /\ BlockBytes(refs) \in Nat
      <4>1. Estimate(refs) = BlockBytes(refs) /\ BlockBytes(refs) \in Nat
        BY <2>2, <2>4, BlockSize
      <4>2. PaidIn(c, li, 0) = Estimate(refs)
        BY <2>2, PaidExperts DEF refs
      <4> QED BY <4>1, <4>2
    <3>2. PaidBefore(c, li) \in Nat /\ GlobalPayload(c) \in Nat
      BY <2>2, <2>6, PaidLayers, Estimates
    <3>3. Paid = GlobalPayload(c) + PaidBefore(c, li)
      BY <2>1, <2>2, <3>2 DEF Paid
    <3>4. Paid' = GlobalPayload(c) + PaidBefore(c, li) + PaidIn(c, li, 0)
      BY <2>1, <2>3, <2>8 DEF Paid
    <3>5. IsRaw(c) => Disks(Blocks) + Disks(cvProc.experts) = Paid
      BY <2>2 DEF Spent
    <3>6. Disks(cvProc.experts) \in Int
      <4>1. cvProc.experts \in Seq(Range(cvProc.experts))
        BY DEF ConvertTyped, SequenceOfEntries
      <4>2. \A i \in DOMAIN cvProc.experts : cvProc.experts[i].disk \in Nat
        BY <2>2 DEF Spent
      <4>3. [i \in DOMAIN cvProc.experts |-> cvProc.experts[i].disk] \in Seq(Int)
        BY <4>1, <4>2
      <4> QED BY <4>3, TotalType DEF Disks
    <3>7. IsRaw(c) => Disks(Blocks') + Disks(cvProc.experts) = Paid'
      BY <2>7, <3>1, <3>2, <3>3, <3>4, <3>5, <3>6
    <3> QED BY <2>1, <2>2, <2>3, <3>7 DEF Spent
  <2>13. Phase'
    BY <2>2, <2>3, <2>7, <2>8 DEF Phase
  <2>14. CoreSound' /\ NothingDropped'
    BY <2>2, <2>3, <2>7, CoreUnfinished DEF NothingDropped, Phase
  <2> QED BY <2>1, <2>2, <2>3, <2>8, <2>9, <2>10, <2>11, <2>12, <2>13, <2>14 DEF CoreInv
<1> QED BY <1>0, <1>a

\* The expert whose turn it is.
LEMMA ExpertInTurn ==
  ASSUME CoreInv, cvProc.pc \in {"expert", "fill"}, cvProc.todo # <<>>
  PROVE  LET ids == IdsAt(cvCmd, cvProc.li) IN
         /\ cvCmd \in ConvertCommands /\ Layers(cvCmd) # <<>>
         /\ Course /\ Tables /\ Holdings /\ Spent /\ Phase
         /\ Writing /\ Converting /\ ~BeforeExperts
         /\ cvProc.li \in 1 .. Len(Layers(cvCmd))
         /\ Made = Len(ids) - Len(cvProc.todo)
         /\ Made \in Nat /\ Len(ids) \in Nat /\ Made < Len(ids)
         /\ Head(cvProc.todo) = ids[Made + 1]
         /\ Tail(cvProc.todo) \in Seq(Int)
         /\ Len(Tail(cvProc.todo)) = Len(cvProc.todo) - 1
         /\ Len(ids) - Len(Tail(cvProc.todo)) = Made + 1
         /\ \A k \in 1 .. Len(Tail(cvProc.todo)) : Tail(cvProc.todo)[k] = ids[(Made + 1) + k]
<1> DEFINE todo == cvProc.todo
           ids == IdsAt(cvCmd, cvProc.li)
           rest == Tail(todo)
<1>1. /\ Writing /\ Converting /\ ~BeforeExperts
      /\ cvCmd \in ConvertCommands /\ Layers(cvCmd) # <<>>
      /\ Course /\ Tables /\ Holdings /\ Spent /\ Phase
  BY DEF CoreInv, Writing, Converting, BeforeExperts
<1>2. /\ todo \in Seq(Int) /\ Made \in Nat /\ cvProc.li \in 1 .. Len(Layers(cvCmd))
      /\ \A k \in 1 .. Len(todo) : todo[k] = ids[Made + k]
  BY <1>1 DEF Course
<1>3. Made = Len(ids) - Len(todo)
  BY <1>1 DEF Made
<1>4. Len(ids) \in Nat
  BY <1>1, IdsAtTypes
<1> HIDE DEF ids
<1>5. /\ Len(todo) \in Nat /\ Len(todo) > 0 /\ Head(todo) = todo[1]
      /\ rest \in Seq(Int) /\ Len(rest) = Len(todo) - 1
      /\ \A k \in 1 .. Len(rest) : rest[k] = todo[k + 1]
  BY <1>2
<1> HIDE DEF todo, rest
<1>6. Made < Len(ids) /\ Len(ids) - Len(rest) = Made + 1
  BY <1>2, <1>3, <1>4, <1>5
<1>7. Head(todo) = ids[Made + 1]
  <2>1. 1 \in 1 .. Len(todo)
    BY <1>5
  <2> QED BY <1>2, <1>5, <2>1
<1>8. ASSUME NEW k \in 1 .. Len(rest) PROVE rest[k] = ids[(Made + 1) + k]
  <2>1. k + 1 \in 1 .. Len(todo) /\ Made + (k + 1) = (Made + 1) + k
    BY <1>2, <1>5
  <2> QED BY <1>2, <1>5, <2>1
<1> QED BY <1>1, <1>2, <1>3, <1>4, <1>5, <1>6, <1>7, <1>8 DEF todo, ids, rest

\* What entering that expert does to the tables of the process, inside the core or not.
LEMMA ExpertEntered ==
  ASSUME ConvertTyped, CoreInv, cvProc.pc \in {"expert", "fill"}, cvProc.todo # <<>>,
         cvCmd' = cvCmd, cvProc'.pc = "expert", cvProc'.li = cvProc.li,
         cvProc'.todo = Tail(cvProc.todo), cvProc'.layers = cvProc.layers,
         NEW x, cvProc'.experts = Append(cvProc.experts, x),
         x.layer = Layer, x.expert = Head(cvProc.todo),
         x.disk = BlockBytes(ExpertRefs(cvCmd, Layer, Head(cvProc.todo)))
  PROVE  /\ Course' /\ ExpertTable(cvCmd, cvProc'.experts, cvProc.li, Made')
         /\ ~BeforeExperts' /\ Writing' /\ Converting' /\ Made' = Made + 1
         /\ Paid' = Paid + x.disk /\ Paid \in Nat /\ x.disk \in Nat
         /\ \A i \in DOMAIN cvProc'.experts : cvProc'.experts[i].disk \in Nat
         /\ Disks(cvProc'.experts) = Disks(cvProc.experts) + x.disk
         /\ Disks(cvProc.experts) \in Nat
<1> DEFINE c == cvCmd
           li == cvProc.li
           ids == IdsAt(c, li)
           rest == Tail(cvProc.todo)
           refs == ExpertRefs(c, Layers(c)[li], ids[Made + 1])
<1>1. /\ c \in ConvertCommands /\ Layers(c) # <<>>
      /\ Course /\ Tables /\ Holdings /\ Spent /\ Phase /\ ~BeforeExperts
      /\ li \in 1 .. Len(Layers(c))
      /\ Made \in Nat /\ Len(ids) \in Nat /\ Made < Len(ids)
      /\ Head(cvProc.todo) = ids[Made + 1]
      /\ rest \in Seq(Int) /\ Len(ids) - Len(rest) = Made + 1
      /\ \A k \in 1 .. Len(rest) : rest[k] = ids[(Made + 1) + k]
  BY ExpertInTurn
<1>2. ~BeforeExperts' /\ Writing' /\ Converting' /\ Made' = Made + 1
  BY <1>1 DEF BeforeExperts, Writing, Converting, Made
<1>3. Course'
  <2> HIDE DEF ids, rest
  <2>1. Made + 1 \in Nat
    BY <1>1
  <2> QED BY <1>1, <1>2, <2>1 DEF Course, ids, rest
<1>4. x.layer = Layers(c)[li] /\ x.expert = ids[Made + 1] /\ x.disk = BlockBytes(refs)
  BY <1>1 DEF Layer
<1>5. ExpertTable(c, cvProc'.experts, li, Made')
  <2>1. ExpertTable(c, cvProc.experts, li, Made) /\ SequenceOfEntries(cvProc.experts)
    BY <1>1 DEF Tables, ConvertTyped
  <2>2. ExpertTable(c, Append(cvProc.experts, x), li, Made + 1)
    BY <1>1, <1>4, <2>1, ExpertTableGrows
  <2> QED BY <1>2, <2>2
<1>6. BlockBytes(refs) = Estimate(refs) /\ x.disk \in Nat
  <2>1. refs \in Seq(c.source)
    BY <1>1, BlockRefs
  <2> HIDE DEF refs
  <2> QED BY <1>1, <1>4, <2>1, BlockSize
<1>7. Paid' = Paid + x.disk /\ Paid \in Nat
  <2> DEFINE base == GlobalPayload(c) + PaidBefore(c, li)
  <2>1. PaidBefore(c, li) \in Nat /\ GlobalPayload(c) \in Nat
    BY <1>1, PaidLayers, Estimates
  <2>2. Made \in 0 .. Len(ids) - 1 /\ Made \in 0 .. Len(ids)
    BY <1>1
  <2>3. PaidIn(c, li, Made + 1) = PaidIn(c, li, Made) + Estimate(refs)
        /\ PaidIn(c, li, Made) \in Nat
    BY <1>1, <2>2, PaidExperts
  <2>4. Paid = base + PaidIn(c, li, Made)
    BY <1>1, <2>1 DEF Paid
  <2>5. Paid' = base + PaidIn(c, li, Made + 1)
    BY <1>2, <2>1 DEF Paid
  <2> HIDE DEF refs
  <2> QED BY <1>4, <1>6, <2>1, <2>3, <2>4, <2>5
<1>8. /\ Disks(cvProc'.experts) = Disks(cvProc.experts) + x.disk
      /\ Disks(cvProc.experts) \in Nat
      /\ \A i \in DOMAIN cvProc'.experts : cvProc'.experts[i].disk \in Nat
  <2>1. SequenceOfEntries(cvProc.experts) /\ \A i \in DOMAIN cvProc.experts : cvProc.experts[i].disk \in Nat
    BY <1>1 DEF Spent, ConvertTyped
  <2> QED BY <1>6, <2>1, DisksGrow
<1> QED BY <1>2, <1>3, <1>5, <1>6, <1>7, <1>8

LEMMA InCoreKeepsCore ==
  ASSUME ConvertTyped, CoreInv, ExpertInCore, cvCmd.tool = "single"
  PROVE  CoreInv'
<1> DEFINE c == cvCmd
           e == Head(cvProc.todo)
           refs == ExpertRefs(c, Layer, e)
           b == NextBlock(Layer, e, refs)
           x == ExpertPlan(b.offset, b.disk)
<1>1. /\ cvProc.pc = "expert" /\ cvProc.todo # <<>> /\ cvCmd' = cvCmd /\ WriteBlock(b)
      /\ cvProc' = [cvProc EXCEPT !.pos = BlockEnd(b), !.todo = Tail(@),
                                  !.experts = Append(@, x)]
      /\ IsRaw(c) \/ c.allowMissing \/ refs # <<>>
  BY DEF ExpertInCore, CanWriteExpert, At
<1>2. /\ cvProc'.pc = "expert" /\ cvProc'.li = cvProc.li /\ cvProc'.todo = Tail(cvProc.todo)
      /\ cvProc'.pos = BlockEnd(b) /\ cvProc'.layers = cvProc.layers
      /\ cvProc'.experts = Append(cvProc.experts, x) /\ cvProc'.exit = cvProc.exit
  BY <1>1 DEF ConvertTyped
<1>3. /\ c \in ConvertCommands /\ Layers(c) # <<>> /\ Writing /\ ~BeforeExperts
      /\ Tables /\ Holdings /\ Spent /\ Phase
  BY <1>1, ExpertInTurn
<1>4. refs \in Seq(c.source)
  BY <1>3, BlockRefs
<1>5. x.layer = Layer /\ x.expert = e /\ x.disk = b.disk
  BY DEF ExpertPlan
<1> HIDE DEF refs, b, x
<1>6. /\ Blocks' = Append(Blocks, b) /\ SequenceOfEntries(Blocks)
      /\ cvDisk'.core.state = "partial" /\ cvDisk'.core.manifest = <<>>
      /\ b.disk = BlockBytes(refs) /\ b.disk \in Nat
      /\ Chain(Blocks', ManifestEnd', BlockEnd(b))
      /\ TensorsOf(Blocks') = TensorsOf(Blocks) \cup Range(refs)
  BY <1>1, <1>3, <1>4, BlockWritten DEF b
<1>7. /\ Course' /\ ExpertTable(c, cvProc'.experts, cvProc.li, Made')
      /\ ~BeforeExperts' /\ Writing' /\ Converting'
      /\ \A i \in DOMAIN cvProc'.experts : cvProc'.experts[i].disk \in Nat
  <2>1. x.disk = BlockBytes(ExpertRefs(cvCmd, Layer, Head(cvProc.todo)))
    BY <1>5, <1>6 DEF refs
  <2> HIDE DEF e
  <2> QED BY <1>1, <1>2, <1>5, <2>1, ExpertEntered DEF e
<1>8. Tables'
  <2>1. LeadTo(cvProc.layers, Append(Blocks, b))
    BY <1>3, <1>6, LeadToGrows DEF Tables
  <2>2. LayerTable(c, cvProc.layers, cvProc.li)
    BY <1>1, <1>3 DEF Tables
  <2> QED BY <1>1, <1>2, <1>6, <1>7, <2>1, <2>2 DEF Tables
<1>9. Holdings'
  <2>1. RefsOf(x) = refs
    BY <1>5 DEF RefsOf, refs
  <2>2. \A i \in DOMAIN cvProc'.experts : Range(RefsOf(cvProc'.experts[i])) \subseteq TensorsOf(Blocks')
    <3>1. \A i \in DOMAIN cvProc.experts : Range(RefsOf(cvProc.experts[i])) \subseteq TensorsOf(Blocks')
      BY <1>3, <1>6 DEF Holdings
    <3>2. Range(RefsOf(x)) \subseteq TensorsOf(Blocks')
      BY <1>6, <2>1
    <3>3. SequenceOfEntries(cvProc.experts)
      BY DEF ConvertTyped
    <3> QED BY <1>2, <3>1, <3>2, <3>3, AppendEntry
  <2>3. ~IsRaw(c) /\ ~c.allowMissing => \A i \in DOMAIN cvProc'.experts : RefsOf(cvProc'.experts[i]) # <<>>
    <3>1. ~IsRaw(c) /\ ~c.allowMissing => \A i \in DOMAIN cvProc.experts : RefsOf(cvProc.experts[i]) # <<>>
      BY <1>3 DEF Holdings
    <3>3. SequenceOfEntries(cvProc.experts)
      BY DEF ConvertTyped
    <3> QED BY <1>1, <1>2, <2>1, <3>1, <3>3, AppendEntry
  <2>4. \A j \in 1 .. cvProc.li : Range(DenseRefs(c, Layers(c)[j])) \subseteq TensorsOf(Blocks')
    BY <1>3, <1>6 DEF Holdings
  <2>5. \A y : RefsOf(y)' = RefsOf(y)
    BY <1>1 DEF RefsOf
  <2> QED BY <1>1, <1>2, <1>7, <2>2, <2>3, <2>4 DEF Holdings, RefsOf
<1>10. Spent'
  BY <1>1, <1>7 DEF Spent, IsRaw
<1>11. Phase'
  BY <1>2, <1>3, <1>6, <1>7 DEF Phase
<1>12. CoreSound' /\ NothingDropped'
  BY <1>2, <1>3, <1>6, CoreUnfinished DEF NothingDropped, Phase
<1> QED BY <1>1, <1>2, <1>3, <1>7, <1>8, <1>9, <1>10, <1>11, <1>12 DEF CoreInv

\* A step that leaves the core, the tables and the layer as they are.
LEMMA OpenFileKeepsCore ==
  ASSUME ConvertTyped, CoreInv, OpenExpertFile, cvCmd.tool # "single"
  PROVE  CoreInv'
<1>1. /\ cvProc.pc = "expert" /\ cvProc.todo # <<>> /\ cvCmd' = cvCmd
      /\ cvProc' = [cvProc EXCEPT !.pc = "fill"]
      /\ cvDisk'.core = cvDisk.core
      /\ IsRaw(cvCmd) \/ cvCmd.allowMissing
           \/ ExpertRefs(cvCmd, Layer, Head(cvProc.todo)) # <<>>
  BY DEF OpenExpertFile, CanWriteExpert, At, Goto, ConvertTyped
<1>2. /\ cvProc'.pc = "fill" /\ cvProc'.li = cvProc.li /\ cvProc'.todo = cvProc.todo
      /\ cvProc'.pos = cvProc.pos /\ cvProc'.layers = cvProc.layers
      /\ cvProc'.experts = cvProc.experts /\ cvProc'.exit = cvProc.exit
  BY <1>1 DEF ConvertTyped
<1>3. /\ ~BeforeExperts /\ ~BeforeExperts' /\ Writing /\ Writing' /\ Converting' /\ Made' = Made
      /\ Course /\ Tables /\ Holdings /\ Spent /\ Phase
  BY <1>1, <1>2 DEF BeforeExperts, Writing, Converting, Made, CoreInv
<1>4. Blocks' = Blocks /\ ManifestEnd' = ManifestEnd /\ Layer' = Layer
  BY <1>1, <1>2 DEF Blocks, ManifestEnd, Layer
<1>5. Course'
  BY <1>1, <1>2, <1>3 DEF Course
<1>6. Tables'
  BY <1>1, <1>2, <1>3, <1>4 DEF Tables
<1>7. Holdings'
  BY <1>1, <1>2, <1>3, <1>4 DEF Holdings, RefsOf, IsRaw
<1>8. Spent'
  <2>1. Paid' = Paid
    BY <1>1, <1>2, <1>3 DEF Paid
  <2> QED BY <1>1, <1>2, <1>3, <1>4, <2>1 DEF Spent, IsRaw
<1>9. Phase'
  BY <1>1, <1>2, <1>3, <1>4 DEF Phase, Finishing, Writing
<1>10. CoreSound' /\ NothingDropped'
  BY <1>1, <1>2, <1>3, CoreStays DEF CoreInv, NothingDropped, Phase
<1> QED BY <1>1, <1>2, <1>3, <1>5, <1>6, <1>7, <1>8, <1>9, <1>10 DEF CoreInv

LEMMA FillFileKeepsCore ==
  ASSUME ConvertTyped, CoreInv, FillExpertFile, cvCmd.tool # "single"
  PROVE  CoreInv'
<1> DEFINE c == cvCmd
           refs == ExpertRefs(c, Layer, Head(cvProc.todo))
           x == ExpertPlan(0, BlockBytes(refs))
<1>1. /\ cvProc.pc = "fill" /\ cvCmd' = cvCmd /\ cvDisk'.core = cvDisk.core
      /\ cvProc' = [cvProc EXCEPT !.pc = "expert", !.todo = Tail(@), !.experts = Append(@, x)]
  BY DEF FillExpertFile, At, ConvertTyped
<1>2. /\ cvProc'.pc = "expert" /\ cvProc'.li = cvProc.li /\ cvProc'.todo = Tail(cvProc.todo)
      /\ cvProc'.pos = cvProc.pos /\ cvProc'.layers = cvProc.layers
      /\ cvProc'.experts = Append(cvProc.experts, x) /\ cvProc'.exit = cvProc.exit
  BY <1>1 DEF ConvertTyped
<1>3. cvProc.todo # <<>>
  BY <1>1 DEF CoreInv, Course, Converting, Writing
<1>4. /\ c \in ConvertCommands /\ Layers(c) # <<>> /\ Writing /\ ~BeforeExperts
      /\ Tables /\ Holdings /\ Spent /\ Phase
  BY <1>1, <1>3, ExpertInTurn
<1>5. x.layer = Layer /\ x.expert = Head(cvProc.todo) /\ x.disk = BlockBytes(refs)
  BY DEF ExpertPlan
<1> HIDE DEF x
<1>6. /\ Course' /\ ExpertTable(c, cvProc'.experts, cvProc.li, Made')
      /\ ~BeforeExperts' /\ Writing' /\ Converting'
      /\ Paid' = Paid + x.disk /\ Paid \in Nat /\ x.disk \in Nat
      /\ \A i \in DOMAIN cvProc'.experts : cvProc'.experts[i].disk \in Nat
      /\ Disks(cvProc'.experts) = Disks(cvProc.experts) + x.disk
      /\ Disks(cvProc.experts) \in Nat
  BY <1>1, <1>2, <1>3, <1>5, ExpertEntered
<1> HIDE DEF refs
<1>7. Blocks' = Blocks /\ ManifestEnd' = ManifestEnd
  BY <1>1 DEF Blocks, ManifestEnd
<1>8. Tables'
  BY <1>1, <1>2, <1>4, <1>6, <1>7 DEF Tables
<1>9. Holdings'
  <2>1. RefsOf(x) = refs
    BY <1>5 DEF RefsOf, refs
  <2>2. ~IsRaw(c) /\ ~c.allowMissing => \A i \in DOMAIN cvProc'.experts : RefsOf(cvProc'.experts[i]) # <<>>
    <3>1. ~IsRaw(c) /\ ~c.allowMissing =>
            /\ \A i \in DOMAIN cvProc.experts : RefsOf(cvProc.experts[i]) # <<>>
            /\ refs # <<>>
      BY <1>1, <1>4 DEF Holdings, refs
    <3>2. SequenceOfEntries(cvProc.experts)
      BY DEF ConvertTyped
    <3> QED BY <1>2, <2>1, <3>1, <3>2, AppendEntry
  <2>3. \A j \in 1 .. cvProc.li : Range(DenseRefs(c, Layers(c)[j])) \subseteq TensorsOf(Blocks')
    BY <1>4, <1>7 DEF Holdings
  <2> QED BY <1>1, <1>2, <1>6, <2>2, <2>3 DEF Holdings, RefsOf
<1>10. Spent'
  <2>1. IsRaw(c) => Disks(Blocks) + Disks(cvProc.experts) = Paid
    BY <1>4 DEF Spent
  <2>2. Disks(Blocks) \in Int
    <3>1. Chain(Blocks, ManifestEnd, cvProc.pos)
      BY <1>4 DEF Phase
    <3>2. SequenceOfEntries(Blocks) /\ \A i \in DOMAIN Blocks : Blocks[i].disk \in Nat
      BY <3>1 DEF Chain
    <3>3. [i \in DOMAIN Blocks |-> Blocks[i].disk] \in Seq(Int)
      BY <3>2 DEF SequenceOfEntries
    <3> QED BY <3>3, TotalType DEF Disks
  <2>3. IsRaw(c) => Disks(Blocks') + Disks(cvProc'.experts) = Paid'
    BY <1>6, <1>7, <2>1, <2>2
  <2> QED BY <1>1, <1>6, <2>3 DEF Spent, IsRaw
<1>11. Phase'
  BY <1>1, <1>2, <1>4, <1>6, <1>7 DEF Phase, Finishing, Writing
<1>12. CoreSound' /\ NothingDropped'
  BY <1>1, <1>2, <1>4, CoreStays DEF CoreInv, NothingDropped, Phase
<1> QED BY <1>1, <1>2, <1>4, <1>6, <1>8, <1>9, <1>10, <1>11, <1>12 DEF CoreInv

\* A layer without experts to come has all of them.
LEMMA LayerDone ==
  ASSUME CoreInv, Converting, ~BeforeExperts, cvProc.todo = <<>>
  PROVE  /\ cvCmd \in ConvertCommands /\ Layers(cvCmd) # <<>>
         /\ Course /\ Tables /\ Holdings /\ Spent /\ Phase
         /\ cvProc.li \in 1 .. Len(Layers(cvCmd))
         /\ Made = Len(IdsAt(cvCmd, cvProc.li)) /\ Made \in Nat
<1>1. /\ cvCmd \in ConvertCommands /\ Layers(cvCmd) # <<>>
      /\ Course /\ Tables /\ Holdings /\ Spent /\ Phase
  BY DEF CoreInv, Converting, Writing, Finishing
<1>2. Len(IdsAt(cvCmd, cvProc.li)) \in Nat
  BY <1>1, IdsAtTypes
<1>3. Made = Len(IdsAt(cvCmd, cvProc.li))
  BY <1>2 DEF Made
<1> QED BY <1>1, <1>2, <1>3 DEF Course

LEMMA NextLayerKeepsCore ==
  ASSUME ConvertTyped, CoreInv, NextLayer
  PROVE  CoreInv'
<1> DEFINE c == cvCmd
           li == cvProc.li
           n == Len(Layers(c))
<1>1. /\ cvProc.pc = "expert" /\ cvProc.todo = <<>> /\ cvCmd' = cvCmd /\ cvDisk' = cvDisk
      /\ Converting /\ Writing /\ ~BeforeExperts
  BY DEF NextLayer, At, Converting, Writing, BeforeExperts
<1>2. /\ c \in ConvertCommands /\ Layers(c) # <<>>
      /\ Course /\ Tables /\ Holdings /\ Spent /\ Phase
      /\ li \in 1 .. n /\ Made = Len(IdsAt(c, li)) /\ Made \in Nat
  BY <1>1, LayerDone
<1>3. n \in Nat
  BY <1>2, ExpertsSums
<1>4. Blocks' = Blocks /\ ManifestEnd' = ManifestEnd
  BY <1>1 DEF Blocks, ManifestEnd
<1>5. CoreSound'
  BY <1>1, CoreStays DEF CoreInv
<1>6. CASE li < n
  <2>1. /\ cvProc'.pc = "dense" /\ cvProc'.li = li + 1 /\ cvProc'.todo = cvProc.todo
        /\ cvProc'.pos = cvProc.pos /\ cvProc'.layers = cvProc.layers
        /\ cvProc'.experts = cvProc.experts /\ cvProc'.exit = cvProc.exit
    BY <1>6 DEF NextLayer, ConvertTyped
  <2>2. BeforeExperts' /\ Writing' /\ Converting' /\ Made' = 0 /\ (li + 1) - 1 = li
        /\ li + 1 \in 1 .. n
    BY <1>2, <1>3, <1>6, <2>1 DEF BeforeExperts, Writing, Converting, Made
  <2>3. Course'
    BY <1>1, <1>2, <2>1, <2>2 DEF Course
  <2>4. Tables'
    <3>1. ExpertTable(c, cvProc.experts, li, Made)
      BY <1>2 DEF Tables
    <3>2. ExpertTable(c, cvProc.experts, li + 1, 0)
      BY <1>2, <1>6, <3>1, ExpertTableTurns
    <3>3. LayerTable(c, cvProc.layers, li) /\ LeadTo(cvProc.layers, Blocks)
      BY <1>1, <1>2 DEF Tables
    <3> QED BY <1>1, <1>4, <2>1, <2>2, <3>2, <3>3 DEF Tables
  <2>5. Holdings'
    BY <1>1, <1>2, <1>4, <2>1, <2>2 DEF Holdings, RefsOf, IsRaw
  <2>6. Spent'
    <3>1. /\ PaidBefore(c, li) \in Nat /\ GlobalPayload(c) \in Nat
          /\ PaidBefore(c, li + 1) = PaidBefore(c, li) + PaidIn(c, li, Len(IdsAt(c, li)))
      BY <1>2, PaidLayers, Estimates
    <3>2. PaidIn(c, li, Len(IdsAt(c, li))) \in Nat
      <4>1. Len(IdsAt(c, li)) \in 0 .. Len(IdsAt(c, li))
        BY <1>2
      <4> QED BY <1>2, <4>1, PaidExperts
    <3>3. Paid = GlobalPayload(c) + PaidBefore(c, li) + PaidIn(c, li, Len(IdsAt(c, li)))
      BY <1>1, <1>2, <3>1 DEF Paid
    <3>4. Paid' = GlobalPayload(c) + PaidBefore(c, li + 1)
      BY <1>1, <2>1, <2>2, <3>1, <3>2 DEF Paid
    <3>5. Paid' = Paid
      BY <3>1, <3>2, <3>3, <3>4
    <3> QED BY <1>1, <1>2, <1>4, <2>1, <3>5 DEF Spent, IsRaw
  <2>7. Phase'
    BY <1>1, <1>2, <1>4, <2>1 DEF Phase, Finishing, Writing
  <2> QED BY <1>1, <1>2, <1>5, <2>1, <2>2, <2>3, <2>4, <2>5, <2>6, <2>7
          DEF CoreInv, NothingDropped, Phase
<1>7. CASE ~(li < n)
  <2>1. /\ cvProc'.pc = "header" /\ cvProc'.li = li /\ cvProc'.todo = cvProc.todo
        /\ cvProc'.pos = cvProc.pos /\ cvProc'.layers = cvProc.layers
        /\ cvProc'.experts = cvProc.experts /\ cvProc'.exit = cvProc.exit
    BY <1>7 DEF NextLayer, ConvertTyped
  <2>2. ~BeforeExperts' /\ Writing' /\ Converting' /\ Made' = Made /\ li = n
    BY <1>1, <1>2, <1>3, <1>7, <2>1 DEF BeforeExperts, Writing, Converting, Made
  <2>3. Course'
    BY <1>1, <1>2, <2>1, <2>2 DEF Course
  <2>4. Tables'
    BY <1>1, <1>2, <1>4, <2>1, <2>2 DEF Tables
  <2>5. Holdings'
    BY <1>1, <1>2, <1>4, <2>1, <2>2 DEF Holdings, RefsOf, IsRaw
  <2>6. Paid' = Paid
    BY <1>1, <2>1, <2>2 DEF Paid
  <2>7. Spent'
    BY <1>1, <1>2, <1>4, <2>1, <2>6 DEF Spent, IsRaw
  <2>8. Phase'
    BY <1>1, <1>2, <1>4, <2>1 DEF Phase, Finishing, Writing
  <2> QED BY <1>1, <1>2, <1>5, <2>1, <2>2, <2>3, <2>4, <2>5, <2>7, <2>8
          DEF CoreInv, NothingDropped, Phase
<1> QED BY <1>6, <1>7

\* The steps behind the last layer leave the tables and the blocks alone.
LEMMA FinishingStays ==
  ASSUME CoreInv, cvProc.pc \in {"header", "manifest", "validate", "debug", "index", "fill_index"},
         cvProc'.pc \in {"manifest", "validate", "debug", "index", "fill_index", "ready"},
         cvCmd' = cvCmd, cvProc'.li = cvProc.li, cvProc'.todo = cvProc.todo,
         cvProc'.layers = cvProc.layers, cvProc'.experts = cvProc.experts,
         cvProc'.exit = cvProc.exit, Blocks' = Blocks
  PROVE  /\ cvCmd \in ConvertCommands /\ Layers(cvCmd) # <<>>
         /\ Converting /\ Phase
         /\ Converting' /\ ~Writing' /\ Course' /\ Tables' /\ Holdings' /\ Spent'
<1>1. /\ cvCmd \in ConvertCommands /\ Layers(cvCmd) # <<>>
      /\ Converting /\ ~BeforeExperts
      /\ Course /\ Tables /\ Holdings /\ Spent /\ Phase
  BY DEF CoreInv, Converting, Writing, Finishing, BeforeExperts
<1>2. ~BeforeExperts' /\ Converting' /\ ~Writing' /\ Made' = Made
  BY <1>1 DEF Converting, Writing, Finishing, BeforeExperts, Made
<1>3. Course'
  BY <1>1, <1>2 DEF Course
<1>4. Tables'
  BY <1>1, <1>2 DEF Tables
<1>5. Holdings'
  BY <1>1, <1>2 DEF Holdings, RefsOf, IsRaw
<1>6. Spent'
  <2>1. Paid' = Paid
    BY <1>1, <1>2 DEF Paid, BeforeExperts
  <2> QED BY <1>1, <2>1 DEF Spent, IsRaw
<1> QED BY <1>1, <1>2, <1>3, <1>4, <1>5, <1>6

\* What the blocks of a core that has its header look like.
LEMMA ChainLayout ==
  ASSUME NEW start, NEW end, Chain(Blocks, start, end), Blocks # <<>>
  PROVE  /\ \A i \in DOMAIN Blocks :
              /\ Aligned(Blocks[i].offset)
              /\ Blocks[i].offset >= start
              /\ i > 1 => Blocks[i].offset = BlockEnd(Blocks[i - 1])
         /\ end = BlockEnd(Last(Blocks))
  BY DEF Chain, Last

LEMMA HeaderKeepsCore ==
  ASSUME ConvertTyped, CoreInv, WriteHeader
  PROVE  CoreInv'
<1> DEFINE c == cvCmd
<1>1. /\ cvProc.pc = "header" /\ cvCmd' = cvCmd
      /\ cvProc'.pc = "manifest" /\ cvProc'.li = cvProc.li /\ cvProc'.todo = cvProc.todo
      /\ cvProc'.layers = cvProc.layers
      /\ cvProc'.experts = cvProc.experts /\ cvProc'.exit = cvProc.exit
      /\ cvDisk'.core.state = "header" /\ cvDisk'.core.size = cvProc.pos
      /\ cvDisk'.core.manifest = cvDisk.core.manifest /\ Blocks' = Blocks
  BY DEF WriteHeader, At, Goto, ConvertTyped, Blocks
<1>2. /\ c \in ConvertCommands /\ Layers(c) # <<>> /\ Converting /\ Phase
      /\ Converting' /\ ~Writing' /\ Course' /\ Tables' /\ Holdings' /\ Spent'
  BY <1>1, FinishingStays
<1>3. /\ Chain(Blocks, ManifestEnd, cvProc.pos) /\ cvDisk.core.manifest = <<>>
  BY <1>1, <1>2 DEF Phase, Writing, Finishing
<1>4. Blocks # <<>>
  <2>1. ~BeforeExperts /\ Tables /\ Course
    BY <1>1, <1>2 DEF BeforeExperts, CoreInv
  <2>2. LayerTable(c, cvProc.layers, cvProc.li) /\ LeadTo(cvProc.layers, Blocks)
    BY <1>1, <2>1 DEF Tables
  <2>3. cvProc.li \in Nat /\ cvProc.li > 0 /\ Globals(c) \in {0, 1}
    BY <1>2, <2>1, ExpertsSums DEF Course, Globals
  <2>4. 1 \in DOMAIN cvProc.layers
    <3>1. Len(cvProc.layers) > 0 /\ Len(cvProc.layers) \in Nat
      BY <2>2, <2>3 DEF LayerTable
    <3>2. DOMAIN cvProc.layers = 1 .. Len(cvProc.layers)
      BY DEF ConvertTyped, SequenceOfEntries
    <3> QED BY <3>1, <3>2
  <2> QED BY <2>2, <2>4 DEF LeadTo
<1>5. ManifestEnd' = ManifestEnd
  BY <1>1 DEF ManifestEnd
<1>6. CoreSound'
  BY <1>1, <1>3, <1>4, <1>5, ChainLayout
     DEF CoreSound, CoreReadable, CoreLayoutSound, ManifestWindowsExact, EstimateExact
<1>7. Phase'
  BY <1>1, <1>2, <1>3 DEF Phase, Writing
<1> QED BY <1>1, <1>2, <1>6, <1>7 DEF CoreInv, NothingDropped, Phase

---------------------------------------------------------------------------
(* The manifest *)

\* The window of every layer entry is that layer's part of the expert table.
LEMMA WindowsHold ==
  ASSUME NEW c \in ConvertCommands, Layers(c) # <<>>,
         NEW n, n = Len(Layers(c)),
         NEW ls, SequenceOfEntries(ls), LayerTable(c, ls, n),
         NEW xs, ExpertTable(c, xs, n, Len(IdsAt(c, n))),
         NEW i \in DOMAIN ls, ls[i].layer # NoId
  PROVE  {k \in DOMAIN xs : xs[k].layer = ls[i].layer}
           = ls[i].first + 1 .. ls[i].first + ls[i].num
<1> DEFINE g == Globals(c)
           size(j) == Len(IdsAt(c, j))
           before(j) == ExpertsUpTo(c, j - 1)
<1>1. g \in {0, 1} /\ n \in Nat /\ n > 0
  BY ExpertsSums DEF Globals
<1>2. Len(ls) = g + n /\ DOMAIN ls = 1 .. Len(ls) /\ (g = 1 => ls[1].layer = NoId)
  BY DEF LayerTable, SequenceOfEntries
<1> HIDE DEF g
<1>3. PICK j \in 1 .. n : i = g + j
  <2>1. i \in 1 .. g + n /\ i \in Nat /\ i # g
    BY <1>1, <1>2
  <2>2. i - g \in 1 .. n /\ i = g + (i - g)
    BY <1>1, <2>1
  <2> QED BY <2>2
<1>4. ls[i].layer = Layers(c)[j] /\ ls[i].first = before(j) /\ ls[i].num = size(j)
  BY <1>3 DEF LayerTable, g
<1>5. before(j) \in Nat /\ size(j) \in Nat
  <2>1. j - 1 \in 0 .. n
    BY <1>1
  <2> QED BY <2>1, ExpertsSums, IdsAtTypes
<1> HIDE DEF size, before
<1>6. ASSUME NEW k \in DOMAIN xs, xs[k].layer = Layers(c)[j]
      PROVE  k \in before(j) + 1 .. before(j) + size(j)
  <2>1. PICK m \in 1 .. n : /\ xs[k].layer = Layers(c)[m]
                            /\ k \in before(m) + 1 .. before(m) + size(m)
    BY DEF ExpertTable, before, size
  <2>2. m = j
    BY <1>6, <2>1, LayersOnce
  <2> QED BY <2>1, <2>2
<1>7. ASSUME NEW k \in before(j) + 1 .. before(j) + size(j)
      PROVE  k \in DOMAIN xs /\ xs[k].layer = Layers(c)[j]
  <2>1. k - before(j) \in 1 .. size(j) /\ before(j) + (k - before(j)) = k
    BY <1>5
  <2>2. \A m \in 1 .. size(j) : before(j) + m \in DOMAIN xs
                                /\ xs[before(j) + m].layer = Layers(c)[j]
    BY DEF ExpertTable, before, size
  <2> QED BY <2>1, <2>2
<1> QED BY <1>4, <1>6, <1>7

LEMMA ManifestKeepsCore ==
  ASSUME ConvertTyped, CoreInv, WriteManifest
  PROVE  CoreInv'
<1> DEFINE c == cvCmd
           n == Len(Layers(c))
           ls == cvProc.layers
           xs == cvProc.experts
<1>1. /\ cvProc.pc = "manifest" /\ cvCmd' = cvCmd
      /\ cvProc'.pc = "validate" /\ cvProc'.li = cvProc.li /\ cvProc'.todo = cvProc.todo
      /\ cvProc'.layers = ls /\ cvProc'.experts = xs /\ cvProc'.exit = cvProc.exit
      /\ cvDisk'.core.state = "whole" /\ cvDisk'.core.size = cvDisk.core.size
      /\ cvDisk'.core.manifest = <<ls, xs>> /\ Blocks' = Blocks
  BY DEF WriteManifest, At, Goto, ConvertTyped, Blocks
<1>2. /\ Converting' /\ ~Writing' /\ Course' /\ Tables' /\ Holdings' /\ Spent'
      /\ Phase /\ Converting
  BY <1>1, FinishingStays
<1>3. /\ ~BeforeExperts /\ cvProc.todo = <<>> /\ cvProc.li = n
      /\ BeforeExperts' = BeforeExperts
  BY <1>1, <1>2 DEF BeforeExperts, Course
<1>4. /\ c \in ConvertCommands /\ Layers(c) # <<>> /\ Tables /\ Spent
      /\ Made = Len(IdsAt(c, n))
  BY <1>2, <1>3, LayerDone
<1>5. /\ LayerTable(c, ls, n) /\ LeadTo(ls, Blocks) /\ ExpertTable(c, xs, n, Len(IdsAt(c, n)))
      /\ SequenceOfEntries(ls)
  BY <1>1, <1>3, <1>4 DEF Tables, ConvertTyped
<1>6. Blocks # <<>> /\ Chain(Blocks, ManifestEnd, cvDisk.core.size)
  BY <1>1, <1>2 DEF CoreInv, CoreSound, Phase
<1>7. ManifestEnd' = ManifestEnd
  BY <1>1 DEF ManifestEnd
<1>8. n \in Nat /\ n > 0 /\ (n - 1) + 1 = n /\ n \in 0 .. n /\ n \in 1 .. n
  BY <1>4, ExpertsSums
<1>9. CoreLayoutSound'
  <2>1. Len(xs) = ExpertTotal(c)
    <3>1. Len(xs) = ExpertsUpTo(c, n - 1) + Len(IdsAt(c, n))
      BY <1>5 DEF ExpertTable
    <3>2. ExpertsUpTo(c, n) = ExpertsUpTo(c, n - 1) + Len(IdsAt(c, n))
      BY <1>4, <1>8, ExpertsSums
    <3>3. ExpertTotal(c) = ExpertsUpTo(c, n)
      BY <1>4, ExpertsSums
    <3> QED BY <3>1, <3>2, <3>3
  <2>2. Len(ls) = n + Globals(c)
    <3>1. Len(ls) = Globals(c) + n /\ Globals(c) \in {0, 1}
      BY <1>5 DEF LayerTable, Globals
    <3> QED BY <1>8, <3>1
  <2>3. ManifestEnd = align_up(EngineHeaderBytes) + ManifestBytes(n + Globals(c), ExpertTotal(c))
    BY <1>4, ManifestEndNatural
  <2>4. ManifestEnd = align_up(EngineHeaderBytes) + ManifestBytes(Len(ls), Len(xs))
    BY <2>1, <2>2, <2>3
  <2> QED BY <1>1, <1>6, <1>7, <2>4, ChainLayout DEF CoreLayoutSound
<1>10. ManifestWindowsExact'
  <2> SUFFICES ASSUME NEW i \in DOMAIN ls
               PROVE  /\ ls[i].layer # NoId =>
                           {k \in DOMAIN xs : xs[k].layer = ls[i].layer}
                             = ls[i].first + 1 .. ls[i].first + ls[i].num
                      /\ \E k \in DOMAIN Blocks :
                            /\ Blocks[k].offset = ls[i].offset /\ Blocks[k].layer = ls[i].layer
                            /\ Blocks[k].expert = NoId
    BY <1>1 DEF ManifestWindowsExact
  <2>1. ls[i].layer # NoId => {k \in DOMAIN xs : xs[k].layer = ls[i].layer}
                                = ls[i].first + 1 .. ls[i].first + ls[i].num
    BY <1>4, <1>5, WindowsHold
  <2> QED BY <1>5, <2>1 DEF LeadTo
<1>11. EstimateExact'
  <2>1. IsRaw(c) => Disks(Blocks) + Disks(xs) = Paid
    BY <1>4 DEF Spent
  <2>2. Paid = plan_payload(c)
    <3>1. /\ PaidBefore(c, n) \in Nat /\ GlobalPayload(c) \in Nat
          /\ PaidBefore(c, n + 1) = PaidBefore(c, n) + PaidIn(c, n, Len(IdsAt(c, n)))
          /\ plan_payload(c) = PaidBefore(c, n + 1) + GlobalPayload(c)
      BY <1>4, <1>8, PaidLayers, Estimates
    <3>2. PaidIn(c, n, Len(IdsAt(c, n))) \in Nat
      <4>1. Len(IdsAt(c, n)) \in 0 .. Len(IdsAt(c, n))
        BY <1>4, IdsAtTypes
      <4> QED BY <1>4, <4>1, PaidExperts
    <3>3. Paid = GlobalPayload(c) + PaidBefore(c, n) + PaidIn(c, n, Len(IdsAt(c, n)))
      BY <1>1, <1>3, <1>4, <3>1 DEF Paid
    <3> HIDE DEF n
    <3> QED BY <3>1, <3>2, <3>3
  <2> QED BY <1>1, <2>1, <2>2 DEF EstimateExact, SumOver, Disks, IsRaw
<1>12. CoreSound'
  BY <1>1, <1>6, <1>7, <1>9, <1>10, <1>11 DEF CoreSound, CoreReadable
<1>13. Phase'
  BY <1>1, <1>2 DEF Phase, Writing, Finishing
<1> QED BY <1>1, <1>2, <1>4, <1>12, <1>13 DEF CoreInv, NothingDropped, Phase

Asked(t) ==
  /\ t.layer \in Range(Layers(cvCmd))
  /\ ~IsRaw(cvCmd) => cvCmd.expertsArg = NoId /\ ~cvCmd.allowMissing
  /\ IsRaw(cvCmd) => cvCmd.pickExperts = {} \/ t.expert \in cvCmd.pickExperts \cup {NoId}

\* Which group a tensor of a layer is in.
LEMMA GroupOfTensor ==
  ASSUME cvCmd \in ConvertCommands, NEW t \in cvCmd.source, Asked(t)
  PROVE  /\ t.layer # NoId
         /\ t.expert = NoId => t \in Groups(cvCmd).dense
         /\ t.expert # NoId => t \in Groups(cvCmd).experts
<1>1. t.layer # NoId
  BY LayersOnce DEF Asked, Range, NoId
<1>2. CASE IsRaw(cvCmd)
  BY <1>1, <1>2 DEF Asked, Groups, group_items
<1>3. CASE ~IsRaw(cvCmd)
  BY <1>1, <1>3 DEF Groups, build_conversion_plan, classify_tensor
<1> QED BY <1>1, <1>2, <1>3

\* When the last layer has been written, every tensor that was asked for is in the core or
\* belongs to an expert of the table.
LEMMA EverythingWritten ==
  ASSUME CoreInv, Converting, ~BeforeExperts, cvProc.li = Len(Layers(cvCmd)), cvProc.todo = <<>>,
         NEW t \in cvCmd.source, Asked(t)
  PROVE  \/ t \in TensorsOf(Blocks)
         \/ \E i \in DOMAIN cvProc.experts : t \in Range(RefsOf(cvProc.experts[i]))
<1> DEFINE c == cvCmd
           xs == cvProc.experts
           n == Len(Layers(c))
           size(j) == Len(IdsAt(c, j))
           before(j) == ExpertsUpTo(c, j - 1)
<1>1. /\ c \in ConvertCommands /\ Layers(c) # <<>> /\ Tables /\ Holdings /\ Made = size(n)
  BY LayerDone
<1>2. PICK j \in 1 .. n : Layers(c)[j] = t.layer
  BY <1>1, LayersOnce DEF Asked, Range
<1>3. n \in Nat
  BY <1>1, ExpertsSums
<1>4. CASE t.expert = NoId
  <2>1. t \in Groups(c).dense
    BY <1>1, <1>4, GroupOfTensor
  <2>2. t \in {u \in Groups(c).dense : u.layer = Layers(c)[j]}
    BY <1>2, <2>1
  <2>3. t \in Range(DenseRefs(c, Layers(c)[j]))
    BY <1>1, <2>2, BlockRefs
  <2>4. Range(DenseRefs(c, Layers(c)[j])) \subseteq TensorsOf(Blocks)
    BY <1>1 DEF Holdings
  <2> QED BY <2>3, <2>4
<1>5. CASE t.expert # NoId
  <2>1. t \in Groups(c).experts
    BY <1>1, <1>5, GroupOfTensor
  <2>2. ASSUME NEW k \in 1 .. size(j)
        PROVE  /\ before(j) + k \in DOMAIN xs
               /\ xs[before(j) + k].layer = t.layer
               /\ xs[before(j) + k].expert = IdsAt(c, j)[k]
    <3>1. ExpertTable(c, xs, n, size(n))
      BY <1>1 DEF Tables
    <3>2. k \in 1 .. (IF j = n THEN size(n) ELSE size(j))
      OBVIOUS
    <3> HIDE DEF size, n, xs
    <3> QED BY <1>2, <3>1, <3>2 DEF ExpertTable, size
  <2>3. /\ IdsAt(c, j) \in Seq(Int)
        /\ Range(IdsAt(c, j))
             = IF IsRaw(c) THEN {u.expert : u \in {v \in Groups(c).experts : v.layer = t.layer}}
               ELSE 0 .. Arch(c)[2] - 1
        /\ ~IsRaw(c) => Arch(c) # <<>>
    BY <1>1, <1>2, IdsOf DEF IdsAt
  <2>4. DOMAIN IdsAt(c, j) = 1 .. size(j)
    BY <2>3
  <2>5. t.expert \in Range(IdsAt(c, j))
    <3>1. CASE IsRaw(c)
      BY <2>1, <2>3, <3>1
    <3>2. CASE ~IsRaw(c)
      <4>1. c.expertsArg = NoId /\ ~c.allowMissing
        BY <3>2 DEF Asked
      <4>2. \A i \in DOMAIN xs : RefsOf(xs[i]) # <<>>
        BY <1>1, <3>2, <4>1 DEF Holdings
      <4>3. Groups(c).experts = build_conversion_plan(c.source).experts
        BY <3>2 DEF Groups
      <4>4. ASSUME NEW e \in 0 .. Arch(c)[2] - 1
            PROVE  e \in ExpertIdsOf(c.source, t.layer)
        <5>1. PICK k \in 1 .. size(j) : IdsAt(c, j)[k] = e
          BY <2>3, <2>4, <3>2 DEF Range
        <5>2. ExpertRefs(c, t.layer, e) # <<>>
          BY <2>2, <4>2, <5>1 DEF RefsOf
        <5>3. {u \in Groups(c).experts : u.layer = t.layer /\ u.expert = e} # {}
          BY <1>1, <5>2, BlockRefs
        <5> QED BY <4>3, <5>3 DEF ExpertIdsOf
      <4>5. 0 .. Arch(c)[2] - 1 \subseteq ExpertIdsOf(c.source, t.layer)
        BY <4>4
      <4>6. t.layer # NoId
        BY <1>1, GroupOfTensor
      <4>7. ExpertIdsOf(c.source, t.layer) = 0 .. Arch(c)[2] - 1
        BY <1>1, <2>3, <3>2, <4>1, <4>5, <4>6, NoOthers
      <4>8. t.expert \in ExpertIdsOf(c.source, t.layer)
        BY <2>1, <4>3 DEF ExpertIdsOf
      <4> QED BY <2>3, <3>2, <4>7, <4>8
    <3> QED BY <3>1, <3>2
  <2>6. PICK k \in 1 .. size(j) : IdsAt(c, j)[k] = t.expert
    BY <2>4, <2>5 DEF Range
  <2>7. before(j) + k \in DOMAIN xs /\ RefsOf(xs[before(j) + k]) = ExpertRefs(c, t.layer, t.expert)
    BY <2>2, <2>6 DEF RefsOf
  <2>8. t \in Range(ExpertRefs(c, t.layer, t.expert))
    <3>1. t \in {u \in Groups(c).experts : u.layer = t.layer /\ u.expert = t.expert}
      BY <2>1
    <3> QED BY <1>1, <3>1, BlockRefs
  <2> QED BY <2>7, <2>8
<1> QED BY <1>4, <1>5

LEMMA ValidateKeepsCore ==
  ASSUME ConvertTyped, CoreInv, validate_output
  PROVE  CoreInv'
<1>1. /\ cvProc.pc = "validate" /\ UNCHANGED <<cvCmd, cvDisk>>
      /\ Goto(IF IsRaw(cvCmd) THEN "index" ELSE "debug") \/ Exit("error")
  BY DEF validate_output, At
<1>2. CASE Exit("error")
  BY <1>1, <1>2, ExitKeeps
<1>3. CASE Goto(IF IsRaw(cvCmd) THEN "index" ELSE "debug")
  <2>1. /\ cvProc'.pc \in {"index", "debug"}
        /\ cvProc'.li = cvProc.li /\ cvProc'.todo = cvProc.todo
        /\ cvProc'.layers = cvProc.layers /\ cvProc'.experts = cvProc.experts
        /\ cvProc'.exit = cvProc.exit
        /\ Blocks' = Blocks /\ cvCmd' = cvCmd /\ cvDisk' = cvDisk
    BY <1>1, <1>3 DEF Goto, ConvertTyped, Blocks
  <2>2. /\ cvCmd \in ConvertCommands /\ Layers(cvCmd) # <<>>
        /\ Converting' /\ ~Writing' /\ Course' /\ Tables' /\ Holdings' /\ Spent' /\ Phase
    BY <1>1, <2>1, FinishingStays
  <2>3. CoreSound'
    BY <2>1, CoreStays DEF CoreInv
  <2>4. Phase'
    BY <1>1, <2>1, <2>2 DEF Phase, Writing, Finishing
  <2> QED BY <1>1, <2>1, <2>2, <2>3, <2>4 DEF CoreInv, NothingDropped, Phase
<1> QED BY <1>1, <1>2, <1>3

\* A step of the end of a run that goes on to the next one.
LEMMA FinishingGoesOn ==
  ASSUME ConvertTyped, CoreInv, cvProc.pc \in {"debug", "index", "fill_index"},
         NEW pc \in {"index", "fill_index", "ready"}, Goto(pc), cvCmd' = cvCmd,
         cvDisk'.core = cvDisk.core
  PROVE  CoreInv'
<1>1. /\ cvProc'.pc = pc
      /\ cvProc'.li = cvProc.li /\ cvProc'.todo = cvProc.todo
      /\ cvProc'.layers = cvProc.layers /\ cvProc'.experts = cvProc.experts
      /\ cvProc'.exit = cvProc.exit /\ Blocks' = Blocks
  BY DEF Goto, ConvertTyped, Blocks
<1>2. /\ cvCmd \in ConvertCommands /\ Layers(cvCmd) # <<>>
      /\ Converting' /\ ~Writing' /\ Course' /\ Tables' /\ Holdings' /\ Spent' /\ Phase
  BY <1>1, FinishingStays
<1>3. CoreSound'
  BY <1>1, CoreStays DEF CoreInv
<1>4. Phase'
  BY <1>1, <1>2 DEF Phase, Writing, Finishing
<1> QED BY <1>1, <1>2, <1>3, <1>4 DEF CoreInv, NothingDropped, Phase

\* A run that ends well has stored what it was asked for.
LEMMA FinishingEnds ==
  ASSUME ConvertTyped, CoreInv, cvProc.pc \in {"debug", "fill_index", "ready"}, Exit("ok"),
         cvCmd' = cvCmd, cvDisk'.core = cvDisk.core,
         cvCmd.tool = "single" \/ cvDisk'.index.experts = cvProc.experts
  PROVE  CoreInv'
<1>1. cvProc'.pc = "idle" /\ Blocks' = Blocks
  BY DEF Exit, Idle, Blocks
<1>2. CoreSound'
  BY CoreStays DEF CoreInv
<1>3. /\ Converting /\ ~BeforeExperts /\ cvProc.todo = <<>> /\ cvProc.li = Len(Layers(cvCmd))
      /\ Holdings
  BY DEF CoreInv, Converting, Writing, Finishing, BeforeExperts, Course
<1>4. NothingDropped'
  <2> SUFFICES ASSUME NEW t \in cvCmd.source, Asked(t)
               PROVE  t \in Stored'
    BY DEF NothingDropped, Asked, IsRaw
  <2>1. CASE t \in TensorsOf(Blocks)
    BY <1>1, <2>1 DEF Stored, TensorsOf
  <2>2. CASE \E i \in DOMAIN cvProc.experts : t \in Range(RefsOf(cvProc.experts[i]))
    <3>1. PICK i \in DOMAIN cvProc.experts : t \in Range(RefsOf(cvProc.experts[i]))
      BY <2>2
    <3>2. CASE cvCmd.tool = "single"
      BY <1>1, <1>3, <3>1, <3>2 DEF Holdings, Stored, TensorsOf
    <3>3. CASE cvDisk'.index.experts = cvProc.experts
      <4>1. LET x == cvDisk'.index.experts[i]
            IN  i \in DOMAIN cvDisk'.index.experts
                /\ t \in Range(ExpertRefs(cvCmd', x.layer, x.expert))
        BY <3>1, <3>3 DEF RefsOf
      <4> QED BY <4>1 DEF Stored
    <3> QED BY <3>2, <3>3
  <2> QED BY <1>3, <2>1, <2>2, EverythingWritten
<1> QED BY <1>1, <1>2, <1>4 DEF CoreInv, Converting, Writing, Finishing

LEMMA DebugKeepsCore ==
  ASSUME ConvertTyped, CoreInv, write_debug_index
  PROVE  CoreInv'
<1>1. /\ cvProc.pc = "debug" /\ cvCmd' = cvCmd /\ cvDisk'.core = cvDisk.core
      /\ \/ cvCmd.tool = "single" /\ Exit("ok")
         \/ Exit("error")
         \/ Goto("index")
  BY DEF write_debug_index, At, ConvertTyped
<1> QED BY <1>1, FinishingGoesOn, FinishingEnds, ExitKeeps

LEMMA OpenIndexKeepsCore ==
  ASSUME ConvertTyped, CoreInv, OpenShardIndex
  PROVE  CoreInv'
<1>1. /\ cvProc.pc = "index" /\ cvCmd' = cvCmd /\ cvDisk'.core = cvDisk.core
      /\ Goto("fill_index")
  BY DEF OpenShardIndex, At, ConvertTyped
<1> QED BY <1>1, FinishingGoesOn

LEMMA FillIndexKeepsCore ==
  ASSUME ConvertTyped, CoreInv, FillShardIndex
  PROVE  CoreInv'
<1>1. /\ cvProc.pc = "fill_index" /\ cvCmd' = cvCmd /\ cvDisk'.core = cvDisk.core
      /\ cvDisk'.index.experts = cvProc.experts
      /\ Goto("ready") \/ Exit("ok")
  BY DEF FillShardIndex, At, ConvertTyped
<1> QED BY <1>1, FinishingGoesOn, FinishingEnds

LEMMA ReadyKeepsCore ==
  ASSUME ConvertTyped, CoreInv, ReportReady, cvDisk.index.experts = cvProc.experts
  PROVE  CoreInv'
<1>1. /\ cvProc.pc = "ready" /\ cvCmd' = cvCmd /\ cvDisk'.core = cvDisk.core
      /\ cvDisk'.index = cvDisk.index /\ Exit("ok")
  BY DEF ReportReady, At, ConvertTyped
<1> QED BY <1>1, FinishingEnds

LEMMA CoreStarts ==
  ASSUME ConvertInit
  PROVE  CoreInv
<1>1. /\ cvCmd \in ConvertCommands /\ cvProc.pc = "idle" /\ cvProc.exit = "none"
      /\ cvDisk.core.state = "absent"
  BY DEF ConvertInit, Idle, NoCore
<1> QED BY <1>1 DEF CoreInv, Converting, Writing, Finishing, NothingDropped, CoreSound,
                    CoreReadable, CoreLayoutSound, ManifestWindowsExact, EstimateExact

LEMMA CoreUnchanged ==
  ASSUME CoreInv, UNCHANGED cvVars
  PROVE  CoreInv'
<1>1. cvCmd' = cvCmd /\ cvProc' = cvProc /\ cvDisk' = cvDisk
  BY DEF cvVars
<1>2. Blocks' = Blocks /\ Made' = Made /\ ManifestEnd' = ManifestEnd /\ Layer' = Layer
  BY <1>1 DEF Blocks, Made, BeforeExperts, ManifestEnd, Layer
<1>3. Converting' = Converting
  BY <1>1 DEF Converting, Writing, Finishing
<1>4. CoreSound'
  BY <1>1, CoreStays DEF CoreInv
<1>5. Converting => Course' /\ Tables' /\ Holdings' /\ Spent' /\ Phase'
  <2> SUFFICES ASSUME Converting PROVE Course' /\ Tables' /\ Holdings' /\ Spent' /\ Phase'
    OBVIOUS
  <2>1. Course /\ Tables /\ Holdings /\ Spent /\ Phase
    BY DEF CoreInv
  <2>2. Paid' = Paid
    BY <1>1, <1>2 DEF Paid, BeforeExperts
  <2> QED BY <1>1, <1>2, <2>1, <2>2
          DEF Course, Tables, Holdings, Spent, Phase, BeforeExperts, Writing, Finishing, RefsOf, IsRaw
<1>6. NothingDropped'
  <2>1. Stored' = Stored
    BY <1>1, <1>2 DEF Stored
  <2> QED BY <1>1, <2>1 DEF CoreInv, NothingDropped, IsRaw
<1> QED BY <1>1, <1>3, <1>4, <1>5, <1>6 DEF CoreInv, Begun

LEMMA CoreInvariance == ConvertSpec => []CoreInv
<1>1. ConvertInit => CoreInv
  BY CoreStarts
<1>2. ConvertInv /\ CoreInv /\ [ConvertNext]_cvVars => CoreInv'
  <2> SUFFICES ASSUME ConvertInv, CoreInv, [ConvertNext]_cvVars PROVE CoreInv'
    OBVIOUS
  <2>0. ConvertTyped
    BY DEF ConvertInv
  <2>1. CASE UNCHANGED cvVars
    BY <2>1, CoreUnchanged
  <2>2. CASE StartConvert
    BY <2>0, <2>2, StartConvertKeepsCore
  <2>3. ConvertDies \/ MissingExpert => CoreInv'
    BY <2>0, ExitKeeps DEF ConvertDies, MissingExpert
  <2>4. CASE convert_single_model
    BY <2>0, <2>3, <2>4, ReserveKeepsCore, DenseKeepsCore, InCoreKeepsCore, NextLayerKeepsCore,
       HeaderKeepsCore, ManifestKeepsCore, ValidateKeepsCore, DebugKeepsCore
       DEF convert_single_model
  <2>5. CASE convert_sharded_experts
    BY <2>0, <2>3, <2>5, ReserveKeepsCore, DenseKeepsCore, OpenFileKeepsCore, FillFileKeepsCore,
       NextLayerKeepsCore, HeaderKeepsCore, ManifestKeepsCore, ValidateKeepsCore, DebugKeepsCore,
       OpenIndexKeepsCore, FillIndexKeepsCore
       DEF convert_sharded_experts
  <2>6. CASE execute_conversion
    <3>1. ReportReady => cvDisk.index.experts = cvProc.experts
      BY DEF ReportReady, At, ConvertInv, Written
    <3> QED BY <2>0, <2>6, <3>1, ReserveKeepsCore, GlobalKeepsCore, DenseKeepsCore,
            OpenFileKeepsCore, FillFileKeepsCore, NextLayerKeepsCore, HeaderKeepsCore,
            ManifestKeepsCore, ValidateKeepsCore, OpenIndexKeepsCore, FillIndexKeepsCore,
            ReadyKeepsCore DEF execute_conversion
  <2> QED BY <2>1, <2>2, <2>3, <2>4, <2>5, <2>6 DEF ConvertNext
<1> QED BY <1>1, <1>2, ConvertInvariance, PTL DEF ConvertSpec

\* A conversion that ends well has stored every tensor of the layers it was asked for, for
\* any checkpoint: a layer with all experts up to the largest number any layer has can have
\* no other (NoOthers), and an expert without tensors is refused.
THEOREM NothingEverDropped == ConvertSpec => []NothingDropped
<1>1. CoreInv => NothingDropped
  BY DEF CoreInv
<1> QED BY <1>1, CoreInvariance, PTL

\* A finished core can be read with its header and its manifest alone, and takes the room
\* the plan reckoned with, for any checkpoint, sizes, alignment and range of layers.
THEOREM CoreAlwaysReadable == ConvertSpec => []CoreReadable
<1>1. CoreInv => CoreReadable
  BY DEF CoreInv, CoreSound
<1> QED BY <1>1, CoreInvariance, PTL
=============================================================================
