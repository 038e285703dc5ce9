----------------------------- MODULE ToolProofs -----------------------------
(***************************************************************************)
(* The clients that read the engine's text, and the tools that rework a    *)
(* core that is there.                                                     *)
(*                                                                         *)
(* What a client shows agrees with what was said (AnswersAgree), for any   *)
(* answers, any stop sequence and any number of turns. The invariant says  *)
(* of the shim that what has come is a beginning of what the engine says   *)
(* and what was sent is its split so far (StreamInv), of the REPL that its *)
(* history repeats its transcript (ReplInv), and of the loop what has been *)
(* printed of the text at each token (TextInv).                            *)
(*                                                                         *)
(* What a merge, a retarget and a plan leave can be served                 *)
(* (MergedServable), for any readable cores and any commands. The windows  *)
(* of the layers cut the table of experts into slices (CutExactly), every  *)
(* expert comes from a core that was named (ManifestInv), the copies are   *)
(* the experts (CopiesSound), and an entry of an index next to its files   *)
(* leads to the file of its expert (IndexSound).                           *)
(***************************************************************************)
EXTENDS ConversionProofs, ChatClients, ModelOps

---------------------------------------------------------------------------
(* Texts *)

LEMMA CountingUp ==
  ASSUME NEW n \in Nat
  PROVE  Increasing(1 .. n) = [k \in 1 .. n |-> k]
<1> DEFINE before == {p \in (1 .. n) \X (1 .. n) : p[1] < p[2]}
           rank(x) == Cardinality({y \in 1 .. n : <<y, x>> \in before})
<1>1. Cardinality(1 .. n) = n
  BY FS_Interval
<1>2. ASSUME NEW x \in 1 .. n PROVE rank(x) = x - 1
  <2>1. {y \in 1 .. n : <<y, x>> \in before} = 1 .. x - 1
    OBVIOUS
  <2>2. Cardinality(1 .. x - 1) = x - 1
    <3>1. x - 1 \in Int /\ 1 \in Int
      OBVIOUS
    <3>2. Cardinality(1 .. x - 1) = IF 1 > x - 1 THEN 0 ELSE (x - 1) - 1 + 1
      BY <3>1, FS_Interval
    <3> QED BY <3>2
  <2> QED BY <2>1, <2>2
<1>3. Increasing(1 .. n) = [k \in 1 .. n |-> CHOOSE x \in 1 .. n : rank(x) = k - 1]
  BY <1>1 DEF Increasing, InOrder
<1> HIDE DEF rank
<1>4. \A k \in 1 .. n : (CHOOSE x \in 1 .. n : rank(x) = k - 1) = k
  BY <1>2
<1> QED BY <1>3, <1>4

\* Picking from a list: everything gives the list, some positions give what is there.
LEMMA PickAll ==
  ASSUME NEW V, NEW s \in Seq(V)
  PROVE  Pick(s, DOMAIN s) = s
<1>1. Len(s) \in Nat /\ DOMAIN s = 1 .. Len(s)
  OBVIOUS
<1>2. Increasing(DOMAIN s) = [k \in 1 .. Len(s) |-> k]
  BY <1>1, CountingUp
<1>3. Pick(s, DOMAIN s) = [k \in 1 .. Len(s) |-> s[k]]
  BY <1>2 DEF Pick
<1> QED BY <1>1, <1>3

LEMMA PickSome ==
  ASSUME NEW V, NEW s \in Seq(V), NEW places, places \subseteq DOMAIN s
  PROVE  /\ Pick(s, places) \in Seq(V)
         /\ \A k \in DOMAIN Pick(s, places) : \E i \in places : Pick(s, places)[k] = s[i]
<1> DEFINE o == Increasing(places)
<1>1. DOMAIN s = 1 .. Len(s) /\ Len(s) \in Nat /\ \A i \in DOMAIN s : s[i] \in V
  OBVIOUS
<1>2. IsFiniteSet(places) /\ places \subseteq Int
  <2>1. IsFiniteSet(1 .. Len(s))
    BY <1>1, FS_Interval
  <2> QED BY <1>1, <2>1, FS_Subset
<1>3. o \in Seq(places)
  BY <1>2, IncreasingSorts
<1> HIDE DEF o
<1>4. Pick(s, places) = [k \in DOMAIN o |-> s[o[k]]]
  BY DEF Pick, o
<1>5. /\ DOMAIN o = 1 .. Len(o) /\ Len(o) \in Nat
      /\ \A k \in DOMAIN o : o[k] \in places /\ s[o[k]] \in V
  BY <1>1, <1>3
<1> QED BY <1>4, <1>5

Halves == {"half1", "half2"}

\* What is no unit of a decoded text.
Undecoded == Halves \cup {""}

LEMMA AsEntries ==
  ASSUME NEW V, NEW s \in Seq(V)
  PROVE  SequenceOfEntries(s) /\ DOMAIN s = 1 .. Len(s) /\ Len(s) \in Nat
         /\ \A i \in 1 .. Len(s) : s[i] \in V
<1>1. DOMAIN s = 1 .. Len(s) /\ Len(s) \in Nat /\ \A i \in 1 .. Len(s) : s[i] \in Range(s) /\ s[i] \in V
  BY DEF Range
<1>2. s \in Seq(Range(s))
  BY <1>1, SeqDef, IsASeq, LenProperties
<1> QED BY <1>1, <1>2 DEF SequenceOfEntries

\* Decoding gives a text in which nothing is left to decode.
LEMMA Decoded ==
  ASSUME NEW ids, SequenceOfEntries(ids)
  PROVE  /\ SequenceOfEntries(decode(ids))
         /\ \A i \in DOMAIN decode(ids) : decode(ids)[i] \notin Undecoded
<1> DEFINE units == [i \in DOMAIN ids |-> Glyph(ids, i)]
           V == Range(units)
           places == {i \in DOMAIN units : units[i] # ""}
<1>0. DOMAIN ids = 1 .. Len(ids) /\ Len(ids) \in Nat
  BY DEF SequenceOfEntries
<1>1. ASSUME NEW i \in DOMAIN ids PROVE Glyph(ids, i) \notin Halves
  <2>1. CASE ids[i] = "half1"
    BY <2>1 DEF Glyph, Halves
  <2>2. CASE ids[i] = "half2"
    BY <2>2 DEF Glyph, Halves
  <2>3. CASE ids[i] \notin Halves
    BY <2>3 DEF Glyph, Halves
  <2> QED BY <2>1, <2>2, <2>3 DEF Halves
<1>2. units \in Seq(V) /\ \A i \in DOMAIN units : units[i] \notin Halves
  <2>1. \A i \in DOMAIN units : units[i] \in V
    BY DEF Range
  <2>2. units = [i \in 1 .. Len(ids) |-> units[i]]
    BY <1>0
  <2>3. \A i \in DOMAIN units : units[i] \notin Halves
    BY <1>1
  <2> HIDE DEF units, V
  <2> QED BY <1>0, <2>1, <2>2, <2>3
<1>3. places \subseteq DOMAIN units /\ \A i \in places : units[i] # ""
  OBVIOUS
<1>4. decode(ids) = Pick(units, places)
  BY DEF decode
<1> HIDE DEF units, places, V
<1>5. /\ Pick(units, places) \in Seq(V)
      /\ \A k \in DOMAIN Pick(units, places) : \E i \in places : Pick(units, places)[k] = units[i]
  <2>1. units \in Seq(V)
    BY <1>2
  <2>2. places \subseteq DOMAIN units
    BY <1>3
  <2> QED BY <2>1, <2>2, PickSome
<1>6. SequenceOfEntries(decode(ids))
  BY <1>4, <1>5, AsEntries
<1> QED BY <1>2, <1>3, <1>4, <1>5, <1>6 DEF Undecoded

LEMMA ByPlaces ==
  ASSUME NEW V, NEW s \in Seq(V)
  PROVE  s = [i \in DOMAIN s |-> s[i]]
OBVIOUS

LEMMA DecodeWhole ==
  ASSUME NEW ids, SequenceOfEntries(ids), \A i \in DOMAIN ids : ids[i] \notin Undecoded
  PROVE  decode(ids) = ids
<1> DEFINE units == [i \in DOMAIN ids |-> Glyph(ids, i)]
<1>1. \A i \in DOMAIN ids : Glyph(ids, i) = ids[i] /\ ids[i] # ""
  BY DEF Glyph, Halves, Undecoded
<1>2. units = ids
  <2>1. units = [i \in DOMAIN ids |-> ids[i]]
    BY <1>1
  <2>2. ids = [i \in DOMAIN ids |-> ids[i]]
    <3>1. ids \in Seq(Range(ids))
      BY DEF SequenceOfEntries
    <3> QED BY <3>1, ByPlaces
  <2> QED BY <2>1, <2>2
<1>3. {i \in DOMAIN units : units[i] # ""} = DOMAIN ids
  BY <1>1, <1>2
<1>4. decode(ids) = Pick(ids, DOMAIN ids)
  BY <1>2, <1>3 DEF decode
<1> QED BY <1>4, PickAll DEF SequenceOfEntries

\* The first and the last of some places.
LEMMA Ends ==
  ASSUME NEW n \in Nat, NEW places, places \subseteq 1 .. n, places # {}
  PROVE  /\ First(places) \in places /\ \A j \in places : First(places) <= j
         /\ Final(places) \in places /\ \A j \in places : j <= Final(places)
<1>1. IsFiniteSet(places)
  <2>1. IsFiniteSet(1 .. n)
    BY FS_Interval
  <2> QED BY <2>1, FS_Subset
<1>2. places \subseteq Nat /\ places \subseteq Int
  OBVIOUS
<1>3. \E i \in places : \A j \in places : i <= j
  BY <1>2, LeastNatural
<1>4. \E i \in places : \A j \in places : j <= i
  BY <1>1, <1>2, Largest
<1> QED BY <1>3, <1>4 DEF First, Final

LEMMA FirstFinal ==
  ASSUME NEW text, SequenceOfEntries(text), NEW unit, Places(text, unit) # {}
  PROVE  LET ps == Places(text, unit) IN
         /\ First(ps) \in ps /\ \A j \in ps : First(ps) <= j
         /\ Final(ps) \in ps /\ \A j \in ps : j <= Final(ps)
         /\ ps \subseteq 1 .. Len(text) /\ Len(text) \in Nat
<1> DEFINE ps == Places(text, unit)
<1>1. ps \subseteq 1 .. Len(text) /\ Len(text) \in Nat /\ ps # {}
  BY DEF Places, SequenceOfEntries
<1> HIDE DEF ps
<1> QED BY <1>1, Ends DEF ps

\* What follows a place of a text.
LEMMA AfterIs ==
  ASSUME NEW text, SequenceOfEntries(text), NEW n \in 0 .. Len(text)
  PROVE  /\ SequenceOfEntries(After(text, n)) /\ Len(After(text, n)) = Len(text) - n
         /\ \A i \in 1 .. Len(text) - n : After(text, n)[i] = text[n + i]
         /\ n = Len(text) => After(text, n) = <<>>
<1>1. text \in Seq(Range(text))
  BY DEF SequenceOfEntries
<1>2. Len(text) \in Nat /\ n \in Nat /\ n <= Len(text)
  BY <1>1
<1>3. /\ After(text, n) \in Seq(Range(text)) /\ Len(After(text, n)) = Len(text) - n
      /\ \A i \in 1 .. Len(text) - n : After(text, n)[i] = text[n + i]
  BY <1>1, <1>2 DEF After
<1>4. SequenceOfEntries(After(text, n))
  BY <1>3, AsEntries
<1> QED BY <1>2, <1>3, <1>4

LEMMA SameEntries ==
  ASSUME NEW s, SequenceOfEntries(s), NEW t, SequenceOfEntries(t), Len(s) = Len(t),
         \A i \in 1 .. Len(s) : s[i] = t[i]
  PROVE  s = t
<1>1. s \in Seq(Range(s)) /\ t \in Seq(Range(t))
  BY DEF SequenceOfEntries
<1>2. s = [i \in 1 .. Len(s) |-> s[i]] /\ t = [i \in 1 .. Len(t) |-> t[i]]
  BY <1>1
<1> QED BY <1>2

\* Between a and b is what is left of a text without the blanks at its ends.
StrippedTo(text, a, b) ==
    /\ a \in Nat \ {0} /\ b \in Nat /\ a <= b + 1 /\ b <= Len(text)
    /\ SequenceOfEntries(Strip(text)) /\ Len(Strip(text)) = b - a + 1
    /\ \A i \in 1 .. b - a + 1 : Strip(text)[i] = text[a - 1 + i]
    /\ \A i \in 1 .. Len(text) : i < a \/ i > b => text[i] = "sp"
    /\ a <= b => text[a] # "sp" /\ text[b] # "sp"

LEMMA StripIs ==
  ASSUME NEW text, SequenceOfEntries(text)
  PROVE  \E a, b : StrippedTo(text, a, b)
<1> DEFINE n == Len(text)
           marks == DOMAIN text \ Places(text, "sp")
<1>1. n \in Nat /\ DOMAIN text = 1 .. n /\ text \in Seq(Range(text))
  BY DEF SequenceOfEntries
<1>2. marks \subseteq 1 .. n /\ \A i \in 1 .. n : i \in marks <=> text[i] # "sp"
  BY <1>1 DEF Places
<1>3. Strip(text) = IF marks = {} THEN <<>> ELSE SubSeq(text, First(marks), Final(marks))
  BY DEF Strip
<1> HIDE DEF n, marks
<1>4. CASE marks = {}
  <2>1. Strip(text) = <<>> /\ SequenceOfEntries(<<>>) /\ Len(<<>>) = 0
    <3>1. <<>> \in Seq({}) /\ Len(<<>>) = 0
      OBVIOUS
    <3> QED BY <1>3, <1>4, <3>1, AsEntries
  <2>2. n - (n + 1) + 1 = 0 /\ 1 .. 0 = {}
    BY <1>1
  <2>3. StrippedTo(text, n + 1, n)
    BY <1>1, <1>2, <1>4, <2>1, <2>2 DEF StrippedTo, n
  <2> QED BY <2>3
<1>5. CASE marks # {}
  <2> DEFINE a == First(marks)
             b == Final(marks)
  <2>1. a \in marks /\ b \in marks /\ \A j \in marks : a <= j /\ j <= b
    BY <1>1, <1>2, <1>5, Ends
  <2> HIDE DEF a, b
  <2>2. a \in 1 .. n /\ b \in 1 .. n /\ a <= b
    BY <1>2, <2>1
  <2>3. Strip(text) = SubSeq(text, a, b)
    BY <1>3, <1>5 DEF a, b
  <2>4. /\ SubSeq(text, a, b) \in Seq(Range(text)) /\ Len(SubSeq(text, a, b)) = b - a + 1
        /\ \A i \in 1 .. b - a + 1 : SubSeq(text, a, b)[i] = text[a - 1 + i]
    <3>1. \A i \in 1 .. b - a + 1 : a - 1 + i = a + i - 1
      BY <2>2
    <3> QED BY <1>1, <2>2, <3>1 DEF n
  <2>5. SequenceOfEntries(Strip(text))
    BY <2>3, <2>4, AsEntries
  <2>6. ASSUME NEW i \in 1 .. n, i < a \/ i > b PROVE text[i] = "sp"
    <3>1. i \notin marks
      BY <2>1, <2>2, <2>6
    <3> QED BY <1>2, <3>1
  <2>7. StrippedTo(text, a, b)
    BY <1>1, <1>2, <2>1, <2>2, <2>3, <2>4, <2>5, <2>6 DEF StrippedTo, n
  <2> QED BY <2>7
<1> QED BY <1>4, <1>5

LEMMA StripWhole ==
  ASSUME NEW text, SequenceOfEntries(text), Len(text) > 0 => text[1] # "sp" /\ text[Len(text)] # "sp"
  PROVE  Strip(text) = text
<1>1. PICK a, b : StrippedTo(text, a, b)
  BY StripIs
<1>2. Len(text) \in Nat
  BY DEF SequenceOfEntries
<1>3. CASE Len(text) = 0
  <2>1. Len(Strip(text)) = 0 /\ SequenceOfEntries(Strip(text))
    BY <1>1, <1>3 DEF StrippedTo
  <2> QED BY <1>3, <2>1, SameEntries
<1>4. CASE Len(text) > 0
  <2>1. a = 1 /\ b = Len(text)
    BY <1>1, <1>2, <1>4 DEF StrippedTo
  <2>2. /\ SequenceOfEntries(Strip(text)) /\ Len(Strip(text)) = Len(text)
        /\ \A i \in 1 .. Len(text) : Strip(text)[i] = text[i]
    <3>1. b - a + 1 = Len(text) /\ \A i \in 1 .. Len(text) : a - 1 + i = i
      BY <1>2, <2>1
    <3> QED BY <1>1, <3>1 DEF StrippedTo
  <2> QED BY <2>2, SameEntries
<1> QED BY <1>2, <1>3, <1>4

LEMMA StripTwice ==
  ASSUME NEW text, SequenceOfEntries(text)
  PROVE  Strip(Strip(text)) = Strip(text) /\ SequenceOfEntries(Strip(text))
<1>1. PICK a, b : StrippedTo(text, a, b)
  BY StripIs
<1> DEFINE s == Strip(text)
<1>2. SequenceOfEntries(s) /\ Len(s) \in Nat /\ Len(s) = b - a + 1 /\ a \in Nat /\ b \in Nat
  BY <1>1 DEF StrippedTo, SequenceOfEntries
<1>3. ASSUME Len(s) > 0 PROVE s[1] # "sp" /\ s[Len(s)] # "sp"
  <2>1. a <= b /\ 1 \in 1 .. b - a + 1 /\ Len(s) \in 1 .. b - a + 1 /\ a - 1 + 1 = a /\ a - 1 + Len(s) = b
    BY <1>2, <1>3
  <2>2. s[1] = text[a] /\ s[Len(s)] = text[b]
    BY <1>1, <2>1 DEF StrippedTo
  <2> QED BY <1>1, <2>1, <2>2 DEF StrippedTo
<1> HIDE DEF s
<1>4. Strip(s) = s
  BY <1>2, <1>3, StripWhole
<1> QED BY <1>2, <1>4 DEF s

LEMMA StripBlanks ==
  ASSUME NEW text, SequenceOfEntries(text)
  PROVE  Strip(text) = <<>> <=> \A i \in 1 .. Len(text) : text[i] = "sp"
<1>1. PICK a, b : StrippedTo(text, a, b)
  BY StripIs
<1>2. /\ Len(Strip(text)) = b - a + 1 /\ a \in Nat \ {0} /\ b \in Nat /\ a <= b + 1
      /\ b <= Len(text) /\ SequenceOfEntries(Strip(text)) /\ Len(text) \in Nat
  BY <1>1 DEF StrippedTo, SequenceOfEntries
<1>3. Strip(text) = <<>> <=> a = b + 1
  <2>1. SequenceOfEntries(<<>>) /\ Len(<<>>) = 0
    <3>1. <<>> \in Seq({}) /\ Len(<<>>) = 0
      OBVIOUS
    <3> QED BY <3>1, AsEntries
  <2>2. a = b + 1 => Len(Strip(text)) = 0
    BY <1>2
  <2>3. Strip(text) = <<>> => b - a + 1 = 0
    BY <1>2, <2>1
  <2>4. Len(Strip(text)) = 0 => Strip(text) = <<>>
    BY <1>2, <2>1, SameEntries
  <2> QED BY <1>2, <2>2, <2>3, <2>4
<1>4. ASSUME a = b + 1, NEW i \in 1 .. Len(text) PROVE text[i] = "sp"
  <2>1. i < a \/ i > b
    BY <1>2, <1>4
  <2> QED BY <1>1, <2>1 DEF StrippedTo
<1>5. ASSUME a <= b PROVE a \in 1 .. Len(text) /\ text[a] # "sp"
  BY <1>1, <1>2, <1>5 DEF StrippedTo
<1> QED BY <1>2, <1>3, <1>4, <1>5

\* The visible part of a visible answer is all of it.
LEMMA VisibleTwice ==
  ASSUME NEW ids, SequenceOfEntries(ids)
  PROVE  /\ SequenceOfEntries(visible_answer(ids))
         /\ visible_answer(visible_answer(ids)) = visible_answer(ids)
<1> DEFINE text == decode(ids)
           ends == Places(text, "te")
           rest == After(text, Final(ends))
           seen == visible_answer(ids)
<1>1. SequenceOfEntries(text) /\ \A i \in DOMAIN text : text[i] \notin Undecoded
  BY Decoded
<1>2. seen = IF ends = {} \/ Strip(rest) = <<>> THEN Strip(text) ELSE Strip(rest)
  BY DEF visible_answer
<1>3. ASSUME ends # {}
      PROVE  /\ Final(ends) \in 1 .. Len(text) /\ text[Final(ends)] = "te"
             /\ \A j \in 1 .. Len(text) : text[j] = "te" => j <= Final(ends)
             /\ SequenceOfEntries(rest) /\ Len(rest) = Len(text) - Final(ends)
             /\ \A i \in 1 .. Len(text) - Final(ends) : rest[i] = text[Final(ends) + i]
  <2> HIDE DEF text
  <2>1. DOMAIN text = 1 .. Len(text) /\ Len(text) \in Nat
    BY <1>1 DEF SequenceOfEntries
  <2>2. Final(ends) \in ends /\ \A j \in ends : j <= Final(ends)
    BY <1>1, <1>3, FirstFinal
  <2>3. /\ Final(ends) \in 1 .. Len(text) /\ text[Final(ends)] = "te"
        /\ \A j \in 1 .. Len(text) : text[j] = "te" => j <= Final(ends)
    <3> DEFINE f == Final(ends)
    <3> HIDE DEF f
    <3>1. f \in ends /\ \A j \in ends : j <= f
      BY <2>2 DEF f
    <3>2. f \in 1 .. Len(text) /\ text[f] = "te" /\ \A j \in 1 .. Len(text) : text[j] = "te" => j <= f
      BY <2>1, <3>1 DEF Places
    <3> QED BY <3>2 DEF f
  <2>4. Final(ends) \in 0 .. Len(text)
    BY <2>3
  <2>5. /\ SequenceOfEntries(rest) /\ Len(rest) = Len(text) - Final(ends)
        /\ \A i \in 1 .. Len(text) - Final(ends) : rest[i] = text[Final(ends) + i]
    BY <1>1, <2>4, AfterIs
  <2> QED BY <2>3, <2>5
<1> HIDE DEF text, ends, rest
<1>4. CASE ends = {} \/ Strip(rest) = <<>>
  <2> DEFINE s == Strip(text)
             again == Places(s, "te")
  <2>1. s = seen /\ SequenceOfEntries(s) /\ Strip(s) = s
    BY <1>1, <1>2, <1>4, StripTwice
  <2>2. PICK a, b : StrippedTo(text, a, b)
    BY <1>1, StripIs
  <2>3. /\ a \in Nat \ {0} /\ b \in Nat /\ b <= Len(text) /\ Len(text) \in Nat
        /\ DOMAIN s = 1 .. b - a + 1 /\ Len(s) = b - a + 1 /\ DOMAIN text = 1 .. Len(text)
        /\ \A i \in 1 .. b - a + 1 : a - 1 + i \in 1 .. Len(text) /\ s[i] = text[a - 1 + i]
    <3>1. /\ a \in Nat \ {0} /\ b \in Nat /\ b <= Len(text)
          /\ \A i \in 1 .. b - a + 1 : a - 1 + i \in 1 .. Len(text)
      BY <1>1, <2>2 DEF StrippedTo, SequenceOfEntries
    <3> QED BY <1>1, <2>1, <2>2, <3>1 DEF StrippedTo, SequenceOfEntries
  <2> HIDE DEF s
  <2>4. decode(s) = s
    <3>1. \A i \in DOMAIN s : s[i] \notin Undecoded
      BY <1>1, <2>3
    <3> QED BY <2>1, <3>1, DecodeWhole
  <2>5. ASSUME again # {} PROVE Strip(After(s, Final(again))) = <<>>
    <3> DEFINE f == Final(again)
               new == After(s, f)
    <3>1. f \in again /\ \A j \in again : j <= f
      BY <2>1, <2>5, FirstFinal
    <3> HIDE DEF f
    <3>2. f \in 1 .. b - a + 1 /\ s[f] = "te" /\ \A j \in 1 .. b - a + 1 : s[j] = "te" => j <= f
      BY <2>3, <3>1 DEF Places
    <3>3. f \in 0 .. Len(s)
      BY <2>3, <3>2
    <3>4. SequenceOfEntries(new) /\ Len(new) = Len(s) - f /\ \A i \in 1 .. Len(s) - f : new[i] = s[f + i]
      BY <2>1, <3>3, AfterIs
    <3>5. ends # {}
      <4>1. text[a - 1 + f] = "te" /\ a - 1 + f \in DOMAIN text
        BY <2>3, <3>2
      <4> QED BY <4>1 DEF ends, Places
    <3>6. /\ Final(ends) \in 1 .. Len(text) /\ text[Final(ends)] = "te"
          /\ \A j \in 1 .. Len(text) : text[j] = "te" => j <= Final(ends)
          /\ SequenceOfEntries(rest) /\ Len(rest) = Len(text) - Final(ends)
          /\ \A i \in 1 .. Len(text) - Final(ends) : rest[i] = text[Final(ends) + i]
      BY <1>3, <3>5
    <3> DEFINE g == Final(ends)
    <3> HIDE DEF g
    <3>7. g = a - 1 + f
      <4>0. a \in Nat \ {0} /\ b \in Nat /\ g \in Nat /\ f \in Nat
        <5>1. g \in 1 .. Len(text) /\ f \in 1 .. b - a + 1
          BY <3>2, <3>6 DEF g
        <5> QED BY <2>3, <5>1
      <4>1. a - 1 + f <= g
        BY <2>3, <3>2, <3>6 DEF g
      <4>2. g <= b /\ g >= a
        <5>1. text[g] # "sp" /\ g \in 1 .. Len(text)
          BY <3>6 DEF g
        <5> QED BY <2>2, <2>3, <5>1 DEF StrippedTo
      <4>3. g - a + 1 \in 1 .. b - a + 1 /\ a - 1 + (g - a + 1) = g
        BY <4>0, <4>2
      <4>4. s[g - a + 1] = "te"
        BY <2>3, <3>6, <4>3 DEF g
      <4>5. g - a + 1 <= f
        BY <3>2, <4>3, <4>4
      <4> QED BY <4>0, <4>1, <4>5
    <3>8. \A i \in 1 .. Len(rest) : rest[i] = "sp"
      BY <1>4, <3>5, <3>6, StripBlanks
    <3>9. ASSUME NEW i \in 1 .. Len(new) PROVE new[i] = "sp"
      <4>1. f + i \in 1 .. b - a + 1 /\ a - 1 + (f + i) = g + i /\ i \in 1 .. Len(text) - g
        BY <2>3, <3>2, <3>4, <3>7
      <4>2. new[i] = text[g + i]
        BY <2>3, <3>4, <4>1
      <4>3. rest[i] = text[g + i] /\ i \in 1 .. Len(rest)
        BY <3>6, <4>1 DEF g
      <4> QED BY <3>8, <4>2, <4>3
    <3> HIDE DEF new
    <3>10. Strip(new) = <<>>
      BY <3>4, <3>9, StripBlanks
    <3> QED BY <3>10 DEF new, f
  <2>6. visible_answer(s) = s
    BY <2>1, <2>4, <2>5 DEF visible_answer
  <2> QED BY <2>1, <2>6
<1>5. CASE ends # {} /\ Strip(rest) # <<>>
  <2> DEFINE s == Strip(rest)
  <2>1. s = seen /\ SequenceOfEntries(s) /\ Strip(s) = s
    BY <1>2, <1>3, <1>5, StripTwice
  <2>2. PICK a, b : StrippedTo(rest, a, b)
    BY <1>3, <1>5, StripIs
  <2>3. ASSUME NEW i \in DOMAIN s PROVE s[i] \notin Undecoded /\ s[i] # "te"
    <3> DEFINE f == Final(ends)
    <3>0. /\ f \in 1 .. Len(text) /\ Len(rest) = Len(text) - f /\ Len(text) \in Nat
          /\ \A j \in 1 .. Len(text) : text[j] = "te" => j <= f
          /\ \A j \in 1 .. Len(text) - f : rest[j] = text[f + j]
          /\ DOMAIN text = 1 .. Len(text)
      BY <1>1, <1>3, <1>5 DEF SequenceOfEntries
    <3> HIDE DEF f
    <3>1. i \in 1 .. b - a + 1 /\ a \in Nat \ {0} /\ b \in Nat /\ b <= Len(rest) /\ s[i] = rest[a - 1 + i]
      <4>1. /\ a \in Nat \ {0} /\ b \in Nat /\ b <= Len(rest) /\ Len(s) = b - a + 1
            /\ \A j \in 1 .. b - a + 1 : s[j] = rest[a - 1 + j]
        BY <2>2 DEF StrippedTo
      <4> HIDE DEF s
      <4>2. DOMAIN s = 1 .. b - a + 1
        BY <2>1, <4>1 DEF SequenceOfEntries
      <4> QED BY <4>1, <4>2
    <3> DEFINE k == a - 1 + i
    <3>2. k \in 1 .. Len(text) - f /\ f + k \in 1 .. Len(text) /\ f + k > f /\ s[i] = rest[k]
      BY <3>0, <3>1
    <3> HIDE DEF k
    <3>3. s[i] = text[f + k]
      BY <3>0, <3>2
    <3>4. text[f + k] # "te"
      BY <3>0, <3>2
    <3> QED BY <1>1, <3>0, <3>2, <3>3, <3>4
  <2> HIDE DEF s
  <2>4. decode(s) = s
    BY <2>1, <2>3, DecodeWhole
  <2>5. Places(s, "te") = {}
    BY <2>3 DEF Places
  <2>6. visible_answer(s) = s
    BY <2>1, <2>4, <2>5 DEF visible_answer
  <2> QED BY <2>1, <2>6
<1> QED BY <1>4, <1>5

---------------------------------------------------------------------------
(* The conversation of the REPL *)

LEMMA EntriesJoined ==
  ASSUME NEW s, SequenceOfEntries(s), NEW t, SequenceOfEntries(t)
  PROVE  /\ SequenceOfEntries(s \o t) /\ Len(s \o t) = Len(s) + Len(t)
         /\ \A i \in 1 .. Len(s) : (s \o t)[i] = s[i]
         /\ \A i \in 1 .. Len(t) : (s \o t)[Len(s) + i] = t[i]
         /\ Len(s) \in Nat /\ Len(t) \in Nat
<1> DEFINE V == Range(s) \cup Range(t)
<1>1. s \in Seq(V) /\ t \in Seq(V)
  <2>1. s \in Seq(Range(s)) /\ t \in Seq(Range(t))
    BY DEF SequenceOfEntries
  <2> QED BY <2>1
<1> HIDE DEF V
<1>2. s \o t \in Seq(V) /\ Len(s \o t) = Len(s) + Len(t) /\ Len(s) \in Nat /\ Len(t) \in Nat
  BY <1>1
<1>3. /\ \A i \in 1 .. Len(s) : (s \o t)[i] = s[i]
      /\ \A i \in 1 .. Len(t) : (s \o t)[Len(s) + i] = t[i]
  BY <1>1, <1>2
<1> QED BY <1>2, <1>3, AsEntries

LEMMA EntriesCut ==
  ASSUME NEW s, SequenceOfEntries(s), NEW n \in 0 .. Len(s)
  PROVE  /\ SequenceOfEntries(SubSeq(s, 1, n)) /\ Len(SubSeq(s, 1, n)) = n
         /\ \A i \in 1 .. n : SubSeq(s, 1, n)[i] = s[i]
<1>1. s \in Seq(Range(s))
  BY DEF SequenceOfEntries
<1>2. Len(s) \in Nat /\ n \in Nat /\ n <= Len(s)
  BY <1>1
<1>3. /\ SubSeq(s, 1, n) \in Seq(Range(s)) /\ Len(SubSeq(s, 1, n)) = n
      /\ \A i \in 1 .. n : SubSeq(s, 1, n)[i] = s[i]
  BY <1>1, <1>2
<1> QED BY <1>3, AsEntries

\* The history and the transcript hold the same exchanges.
SameExchanges(history, transcript) ==
    /\ SequenceOfEntries(history) /\ SequenceOfEntries(transcript)
    /\ Len(history) = Len(transcript) /\ Len(history) % 2 = 0
    /\ \A i \in 1 .. Len(history) :
          IF i % 2 = 1
          THEN /\ history[i] = <<"user", history[i][2]>>
               /\ transcript[i] = <<"tu", history[i][2]>>
          ELSE /\ history[i] = <<"assistant", history[i][2]>>
               /\ SequenceOfEntries(history[i][2])
               /\ transcript[i] = <<"dpk", visible_answer(history[i][2])>>

ReplInv ==
    /\ chRepl = [history |-> chRepl.history, transcript |-> chRepl.transcript, turn |-> chRepl.turn]
    /\ SameExchanges(chRepl.history, chRepl.transcript)

LEMMA ExchangeAdded ==
  ASSUME NEW history, NEW transcript, SameExchanges(history, transcript),
         NEW question, NEW answer, SequenceOfEntries(answer)
  PROVE  SameExchanges(history \o <<<<"user", question>>, <<"assistant", answer>>>>,
                       transcript \o <<<<"tu", question>>, <<"dpk", visible_answer(answer)>>>>)
<1> DEFINE hp == <<<<"user", question>>, <<"assistant", answer>>>>
           tp == <<<<"tu", question>>, <<"dpk", visible_answer(answer)>>>>
           h == history \o hp
           t == transcript \o tp
           n == Len(history)
<1>1. /\ SequenceOfEntries(hp) /\ Len(hp) = 2
      /\ hp[1] = <<"user", question>> /\ hp[2] = <<"assistant", answer>>
  <2>1. hp \in Seq({<<"user", question>>, <<"assistant", answer>>})
    OBVIOUS
  <2> QED BY <2>1, AsEntries
<1>2. /\ SequenceOfEntries(tp) /\ Len(tp) = 2
      /\ tp[1] = <<"tu", question>> /\ tp[2] = <<"dpk", visible_answer(answer)>>
  <2>1. tp \in Seq({<<"tu", question>>, <<"dpk", visible_answer(answer)>>})
    OBVIOUS
  <2> QED BY <2>1, AsEntries
<1>3. SequenceOfEntries(history) /\ SequenceOfEntries(transcript) /\ Len(transcript) = n /\ n % 2 = 0
  BY DEF SameExchanges
<1> HIDE DEF hp, tp
<1>4. /\ SequenceOfEntries(h) /\ Len(h) = n + 2 /\ n \in Nat
      /\ \A i \in 1 .. n : h[i] = history[i]
      /\ \A i \in 1 .. 2 : h[n + i] = hp[i]
  <2>0. SequenceOfEntries(history) /\ SequenceOfEntries(hp)
    BY <1>1, <1>3
  <2>1. Len(hp) = 2 /\ Len(history) = n
    BY <1>1, <1>3
  <2>2. /\ SequenceOfEntries(history \o hp) /\ Len(history \o hp) = Len(history) + Len(hp)
        /\ \A i \in 1 .. Len(history) : (history \o hp)[i] = history[i]
        /\ \A i \in 1 .. Len(hp) : (history \o hp)[Len(history) + i] = hp[i]
        /\ Len(history) \in Nat
    BY <2>0, EntriesJoined
  <2> HIDE DEF n
  <2> QED BY <2>1, <2>2
<1>5. /\ SequenceOfEntries(t) /\ Len(t) = n + 2
      /\ \A i \in 1 .. n : t[i] = transcript[i]
      /\ \A i \in 1 .. 2 : t[n + i] = tp[i]
  <2>0. SequenceOfEntries(transcript) /\ SequenceOfEntries(tp)
    BY <1>2, <1>3
  <2>1. Len(tp) = 2 /\ Len(transcript) = n
    BY <1>2, <1>3
  <2>2. /\ SequenceOfEntries(transcript \o tp) /\ Len(transcript \o tp) = Len(transcript) + Len(tp)
        /\ \A i \in 1 .. Len(transcript) : (transcript \o tp)[i] = transcript[i]
        /\ \A i \in 1 .. Len(tp) : (transcript \o tp)[Len(transcript) + i] = tp[i]
        /\ Len(transcript) \in Nat
    BY <2>0, EntriesJoined
  <2> HIDE DEF n
  <2> QED BY <2>1, <2>2
<1> HIDE DEF h, t
<1>6. ASSUME NEW i \in 1 .. n + 2
      PROVE  IF i % 2 = 1
             THEN h[i] = <<"user", h[i][2]>> /\ t[i] = <<"tu", h[i][2]>>
             ELSE /\ h[i] = <<"assistant", h[i][2]>> /\ SequenceOfEntries(h[i][2])
                  /\ t[i] = <<"dpk", visible_answer(h[i][2])>>
  <2>1. CASE i \in 1 .. n
    <3>1. h[i] = history[i] /\ t[i] = transcript[i]
      BY <1>4, <1>5, <2>1
    <3> QED BY <2>1, <3>1 DEF SameExchanges
  <2>2. CASE i = n + 1
    <3>1. h[i] = <<"user", question>> /\ t[i] = <<"tu", question>>
      BY <1>1, <1>2, <1>4, <1>5, <2>2
    <3>2. i % 2 = 1
      BY <1>3, <1>4, <2>2
    <3> QED BY <3>1, <3>2
  <2>3. CASE i = n + 2
    <3>1. h[i] = <<"assistant", answer>> /\ t[i] = <<"dpk", visible_answer(answer)>>
      BY <1>1, <1>2, <1>4, <1>5, <2>3
    <3>2. i % 2 # 1
      BY <1>3, <1>4, <2>3
    <3> QED BY <3>1, <3>2
  <2> QED BY <1>4, <2>1, <2>2, <2>3
<1>7. (n + 2) % 2 = 0
  BY <1>3, <1>4
<1>8. SameExchanges(h, t)
  BY <1>4, <1>5, <1>6, <1>7 DEF SameExchanges
<1> QED BY <1>8 DEF h, t, hp, tp

\* The history made again from the texts.
Remade(kept) ==
    [i \in DOMAIN kept |->
        IF kept[i][1] = "tu" THEN <<"user", kept[i][2]>> ELSE <<"assistant", kept[i][2]>>]

LEMMA ExchangesRemade ==
  ASSUME NEW history, NEW transcript, SameExchanges(history, transcript), Len(transcript) >= 2
  PROVE  LET kept == SubSeq(transcript, 1, Len(transcript) - 2) IN SameExchanges(Remade(kept), kept)
<1> DEFINE n == Len(transcript)
           kept == SubSeq(transcript, 1, n - 2)
           made == Remade(kept)
<1>1. n \in Nat /\ n >= 2 /\ SequenceOfEntries(transcript) /\ Len(history) = n /\ n % 2 = 0
  <2>1. SequenceOfEntries(transcript) /\ Len(history) = n /\ n % 2 = 0
    BY DEF SameExchanges
  <2> QED BY <2>1, AsEntries DEF SequenceOfEntries
<1>2. n - 2 \in 0 .. n
  BY <1>1
<1>3. /\ SequenceOfEntries(kept) /\ Len(kept) = n - 2
      /\ \A i \in 1 .. n - 2 : kept[i] = transcript[i]
  BY <1>1, <1>2, EntriesCut
<1> HIDE DEF kept
<1>4. DOMAIN kept = 1 .. n - 2 /\ n - 2 \in Nat
  BY <1>1, <1>3 DEF SequenceOfEntries
<1>5. /\ SequenceOfEntries(made) /\ Len(made) = n - 2 /\ DOMAIN made = 1 .. n - 2
  <2>1. made \in Seq(Range(made))
    <3>1. DOMAIN made = 1 .. n - 2 /\ \A i \in 1 .. n - 2 : made[i] \in Range(made)
      BY <1>4 DEF Remade, Range
    <3>2. made = [i \in 1 .. n - 2 |-> made[i]]
      BY <1>4 DEF Remade
    <3> HIDE DEF made
    <3> QED BY <1>4, <3>1, <3>2
  <2>2. DOMAIN made = 1 .. n - 2
    BY <1>4 DEF Remade
  <2> HIDE DEF made
  <2>3. Len(made) = n - 2
    BY <1>4, <2>1, <2>2
  <2> QED BY <2>1, <2>2, <2>3 DEF SequenceOfEntries
<1>6. ASSUME NEW i \in 1 .. n - 2
      PROVE  IF i % 2 = 1
             THEN made[i] = <<"user", made[i][2]>> /\ kept[i] = <<"tu", made[i][2]>>
             ELSE /\ made[i] = <<"assistant", made[i][2]>> /\ SequenceOfEntries(made[i][2])
                  /\ kept[i] = <<"dpk", visible_answer(made[i][2])>>
  <2>1. i \in 1 .. n /\ kept[i] = transcript[i]
    BY <1>1, <1>3
  <2>2. made[i] = IF kept[i][1] = "tu" THEN <<"user", kept[i][2]>> ELSE <<"assistant", kept[i][2]>>
    BY <1>4 DEF Remade
  <2>3. CASE i % 2 = 1
    <3>1. kept[i] = <<"tu", history[i][2]>>
      BY <1>1, <2>1, <2>3 DEF SameExchanges
    <3>2. made[i] = <<"user", history[i][2]>>
      BY <2>2, <3>1
    <3> QED BY <2>3, <3>1, <3>2
  <2>4. CASE i % 2 # 1
    <3> DEFINE a == history[i][2]
    <3>1. kept[i] = <<"dpk", visible_answer(a)>> /\ SequenceOfEntries(a)
      BY <1>1, <2>1, <2>4 DEF SameExchanges
    <3> HIDE DEF a
    <3>2. made[i] = <<"assistant", visible_answer(a)>>
      BY <2>2, <3>1
    <3>3. SequenceOfEntries(visible_answer(a)) /\ visible_answer(visible_answer(a)) = visible_answer(a)
      BY <3>1, VisibleTwice
    <3> QED BY <2>4, <3>1, <3>2, <3>3
  <2> QED BY <2>3, <2>4
<1>7. (n - 2) % 2 = 0
  BY <1>1
<1>8. SameExchanges(made, kept)
  BY <1>3, <1>5, <1>6, <1>7 DEF SameExchanges
<1> QED BY <1>8 DEF kept

LEMMA TurnKeepsRecords ==
  ASSUME NEW repl, repl = [history |-> repl.history, transcript |-> repl.transcript, turn |-> repl.turn],
         SameExchanges(repl.history, repl.transcript), NEW question, do_turn(repl, question)
  PROVE  ReplInv'
<1>1. PICK answer \in ReplAnswers :
        chRepl' = IF answer = <<>> THEN repl
                  ELSE [turn |-> repl.turn + 1,
                        history |-> repl.history \o <<<<"user", question>>, <<"assistant", answer>>>>,
                        transcript |-> repl.transcript
                            \o <<<<"tu", question>>, <<"dpk", visible_answer(answer)>>>>]
  BY DEF do_turn
<1>2. CASE answer = <<>>
  BY <1>1, <1>2 DEF ReplInv
<1>3. CASE answer # <<>>
  <2>1. SequenceOfEntries(answer)
    BY ClientsAssumption DEF ClientsAssumption, SequenceOfEntries
  <2> DEFINE h == repl.history \o <<<<"user", question>>, <<"assistant", answer>>>>
             t == repl.transcript \o <<<<"tu", question>>, <<"dpk", visible_answer(answer)>>>>
  <2>2. SameExchanges(h, t)
    BY <2>1, ExchangeAdded
  <2> HIDE DEF h, t
  <2>3. chRepl' = [turn |-> repl.turn + 1, history |-> h, transcript |-> t]
    BY <1>1, <1>3 DEF h, t
  <2> QED BY <2>2, <2>3 DEF ReplInv
<1> QED BY <1>2, <1>3

LEMMA NothingSaid == SameExchanges(<<>>, <<>>)
<1>1. <<>> \in Seq({}) /\ Len(<<>>) = 0
  OBVIOUS
<1>2. SequenceOfEntries(<<>>)
  BY <1>1, AsEntries
<1> QED BY <1>1, <1>2 DEF SameExchanges

LEMMA ReplStep ==
  ASSUME ReplInv, [ClientsNext]_chVars
  PROVE  ReplInv'
<1>1. CASE Say
  BY <1>1, TurnKeepsRecords DEF Say, ReplInv
<1>2. CASE ResetRepl
  BY <1>2, NothingSaid DEF ResetRepl, ReplInv
<1>3. CASE Regenerate
  <2> DEFINE kept == SubSeq(chRepl.transcript, 1, Len(chRepl.transcript) - 2)
             question == chRepl.transcript[Len(chRepl.transcript) - 1][2]
             repl == [chRepl EXCEPT !.transcript = kept, !.history = Remade(kept)]
  <2>1. do_turn(repl, question) /\ Len(chRepl.transcript) >= 2
    BY <1>3 DEF Regenerate, Remade
  <2>2. SameExchanges(Remade(kept), kept)
    BY <2>1, ExchangesRemade DEF ReplInv
  <2> HIDE DEF kept, question
  <2>3. repl = [history |-> Remade(kept), transcript |-> kept, turn |-> chRepl.turn]
    <3> DEFINE h == chRepl.history
               t == chRepl.transcript
               n == chRepl.turn
               made == Remade(kept)
    <3>1. chRepl = [history |-> h, transcript |-> t, turn |-> n]
      BY DEF ReplInv
    <3> HIDE DEF h, t, n, made
    <3> DEFINE new == [chRepl EXCEPT !.transcript = kept, !.history = made]
    <3>2. DOMAIN new = {"history", "transcript", "turn"}
      BY <3>1
    <3>3. new.history = made /\ new.transcript = kept /\ new.turn = n
      BY <3>1
    <3>4. new = [x \in DOMAIN new |-> new[x]]
      OBVIOUS
    <3> HIDE DEF new
    <3>5. new = [history |-> made, transcript |-> kept, turn |-> n]
      BY <3>2, <3>3, <3>4
    <3> QED BY <3>5 DEF made, n, new
  <2> HIDE DEF repl
  <2>4. /\ repl = [history |-> repl.history, transcript |-> repl.transcript, turn |-> repl.turn]
        /\ SameExchanges(repl.history, repl.transcript)
    BY <2>2, <2>3
  <2> QED BY <2>1, <2>4, TurnKeepsRecords
<1>4. CASE UNCHANGED chRepl
  BY <1>4 DEF ReplInv
<1> QED BY <1>1, <1>2, <1>3, <1>4 DEF ClientsNext, Shim, Repl, interactive_loop, chVars

LEMMA ReplAgrees ==
  ASSUME ReplInv
  PROVE  RecordsAgree
<1>1. /\ SameExchanges(chRepl.history, chRepl.transcript)
      /\ DOMAIN chRepl.history = 1 .. Len(chRepl.history)
  BY DEF ReplInv, SameExchanges, SequenceOfEntries
<1> QED BY <1>1 DEF RecordsAgree, SameExchanges

---------------------------------------------------------------------------
(* The interactive loop *)

LEMMA EntriesAppend ==
  ASSUME NEW s, SequenceOfEntries(s), NEW e
  PROVE  LET t == Append(s, e) IN
         /\ SequenceOfEntries(t) /\ Len(t) = Len(s) + 1 /\ DOMAIN t = 1 .. Len(s) + 1
         /\ \A k \in 1 .. Len(s) : t[k] = s[k]
         /\ t[Len(s) + 1] = e
         /\ Range(t) = Range(s) \cup {e}
         /\ Len(s) \in Nat /\ DOMAIN s = 1 .. Len(s)
<1> DEFINE t == Append(s, e)
           V == Range(s) \cup {e}
<1>1. s \in Seq(V) /\ e \in V
  <2>1. s \in Seq(Range(s))
    BY DEF SequenceOfEntries
  <2> QED BY <2>1
<1> HIDE DEF V
<1>2. /\ t \in Seq(V) /\ Len(t) = Len(s) + 1 /\ DOMAIN t = 1 .. Len(s) + 1
      /\ \A k \in 1 .. Len(s) : t[k] = s[k]
      /\ t[Len(s) + 1] = e
      /\ Len(s) \in Nat /\ DOMAIN s = 1 .. Len(s)
  BY <1>1
<1> HIDE DEF t
<1>3. SequenceOfEntries(t)
  BY <1>2, AsEntries
<1>4. Range(t) \subseteq Range(s) \cup {e}
  <2>1. ASSUME NEW k \in 1 .. Len(s) + 1 PROVE t[k] \in Range(s) \cup {e}
    <3>1. CASE k \in 1 .. Len(s)
      BY <1>2, <3>1 DEF Range
    <3>2. CASE k = Len(s) + 1
      BY <1>2, <3>2
    <3> QED BY <1>2, <3>1, <3>2
  <2> QED BY <1>2, <2>1 DEF Range
<1>5. ASSUME NEW x \in Range(s) PROVE x \in Range(t)
  <2>1. PICK k \in 1 .. Len(s) : x = s[k]
    BY <1>2 DEF Range
  <2>2. k \in DOMAIN t /\ t[k] = x
    BY <1>2, <2>1
  <2> QED BY <2>2 DEF Range
<1>6. e \in Range(t)
  <2>1. Len(s) + 1 \in DOMAIN t
    BY <1>2
  <2> QED BY <1>2, <2>1 DEF Range
<1>7. Range(t) = Range(s) \cup {e}
  BY <1>4, <1>5, <1>6
<1> QED BY <1>2, <1>3, <1>7 DEF t

LEMMA EntriesMiddle ==
  ASSUME NEW s, SequenceOfEntries(s), NEW i \in 1 .. Len(s) + 1, NEW n \in 0 .. Len(s), i <= n + 1
  PROVE  /\ SequenceOfEntries(SubSeq(s, i, n)) /\ Len(SubSeq(s, i, n)) = n - i + 1
         /\ \A k \in 1 .. n - i + 1 : SubSeq(s, i, n)[k] = s[i + k - 1]
<1>1. s \in Seq(Range(s))
  BY DEF SequenceOfEntries
<1>2. Len(s) \in Nat /\ n \in Nat /\ i \in Nat /\ n <= Len(s) /\ 1 <= i
  BY <1>1
<1>3. /\ SubSeq(s, i, n) \in Seq(Range(s)) /\ Len(SubSeq(s, i, n)) = n - i + 1
      /\ \A k \in 1 .. n - i + 1 : SubSeq(s, i, n)[k] = s[i + k - 1]
  BY <1>1, <1>2
<1> QED BY <1>3, AsEntries

LEMMA PrefixIs ==
  ASSUME NEW s, SequenceOfEntries(s), NEW t, SequenceOfEntries(t)
  PROVE  IsPrefix(s, t) <=> Len(s) <= Len(t) /\ \A k \in 1 .. Len(s) : s[k] = t[k]
<1>1. Len(s) \in Nat /\ Len(t) \in Nat
  BY DEF SequenceOfEntries
<1>2. SequenceOfEntries(SubSeq(s, 1, Len(s))) /\ Len(SubSeq(s, 1, Len(s))) = Len(s)
      /\ \A k \in 1 .. Len(s) : SubSeq(s, 1, Len(s))[k] = s[k]
  BY <1>1, EntriesCut
<1>3. CASE Len(s) <= Len(t)
  <2>1. Len(s) \in 0 .. Len(t)
    BY <1>1, <1>3
  <2>2. SequenceOfEntries(SubSeq(t, 1, Len(s))) /\ Len(SubSeq(t, 1, Len(s))) = Len(s)
        /\ \A k \in 1 .. Len(s) : SubSeq(t, 1, Len(s))[k] = t[k]
    BY <2>1, EntriesCut
  <2> DEFINE a == SubSeq(s, 1, Len(s))
             b == SubSeq(t, 1, Len(s))
  <2> HIDE DEF a, b
  <2>3. (\A k \in 1 .. Len(s) : s[k] = t[k]) => a = b
    <3>1. ASSUME \A k \in 1 .. Len(s) : s[k] = t[k] PROVE a = b
      <4>1. SequenceOfEntries(a) /\ SequenceOfEntries(b) /\ Len(a) = Len(b)
            /\ \A k \in 1 .. Len(a) : a[k] = b[k]
        BY <1>2, <2>2, <3>1 DEF a, b
      <4> QED BY <4>1, SameEntries
    <3> QED BY <3>1
  <2>4. a = b => \A k \in 1 .. Len(s) : s[k] = t[k]
    BY <1>2, <2>2 DEF a, b
  <2> QED BY <1>3, <2>3, <2>4 DEF IsPrefix, a, b
<1>4. CASE ~(Len(s) <= Len(t))
  BY <1>4 DEF IsPrefix
<1> QED BY <1>3, <1>4

LEMMA SuffixIs ==
  ASSUME NEW s, SequenceOfEntries(s), NEW t, SequenceOfEntries(t), Len(s) <= Len(t),
         \A k \in 1 .. Len(s) : s[k] = t[Len(t) - Len(s) + k]
  PROVE  IsSuffix(s, t)
<1>0. /\ Len(s) \in Nat /\ DOMAIN s = 1 .. Len(s)
      /\ Len(t) \in Nat /\ DOMAIN t = 1 .. Len(t)
  BY DEF SequenceOfEntries
<1>1. /\ SequenceOfEntries(Reverse(s)) /\ Len(Reverse(s)) = Len(s)
      /\ \A k \in 1 .. Len(s) : Reverse(s)[k] = s[Len(s) - k + 1]
  <2>1. ASSUME NEW k \in 1 .. Len(s) PROVE s[Len(s) - k + 1] \in Range(s)
    <3>1. Len(s) - k + 1 \in DOMAIN s
      BY <1>0
    <3> QED BY <3>1 DEF Range
  <2>2. Reverse(s) \in Seq(Range(s)) /\ Len(Reverse(s)) = Len(s)
    BY <1>0, <2>1 DEF Reverse
  <2> QED BY <2>2, AsEntries DEF Reverse
<1>2. /\ SequenceOfEntries(Reverse(t)) /\ Len(Reverse(t)) = Len(t)
      /\ \A k \in 1 .. Len(t) : Reverse(t)[k] = t[Len(t) - k + 1]
  <2>1. ASSUME NEW k \in 1 .. Len(t) PROVE t[Len(t) - k + 1] \in Range(t)
    <3>1. Len(t) - k + 1 \in DOMAIN t
      BY <1>0
    <3> QED BY <3>1 DEF Range
  <2>2. Reverse(t) \in Seq(Range(t)) /\ Len(Reverse(t)) = Len(t)
    BY <1>0, <2>1 DEF Reverse
  <2> QED BY <2>2, AsEntries DEF Reverse
<1>3. ASSUME NEW k \in 1 .. Len(s) PROVE Reverse(s)[k] = Reverse(t)[k]
  <2>1. k \in 1 .. Len(t) /\ Len(s) - k + 1 \in 1 .. Len(s)
    BY <1>0
  <2>2. s[Len(s) - k + 1] = t[Len(t) - Len(s) + (Len(s) - k + 1)]
    BY <2>1
  <2>3. Len(t) - Len(s) + (Len(s) - k + 1) = Len(t) - k + 1
    BY <1>0
  <2> QED BY <1>1, <1>2, <2>1, <2>2, <2>3
<1> DEFINE a == Reverse(s)
           b == Reverse(t)
<1> HIDE DEF a, b
<1>4. SequenceOfEntries(a) /\ SequenceOfEntries(b) /\ Len(a) <= Len(b)
      /\ \A k \in 1 .. Len(a) : a[k] = b[k]
  BY <1>1, <1>2, <1>3 DEF a, b
<1>5. IsPrefix(a, b)
  BY <1>4, PrefixIs
<1> QED BY <1>5 DEF IsSuffix, a, b

LEMMA StopIs ==
  /\ SequenceOfEntries(StopSequence) /\ Len(StopSequence) \in Nat \ {0}
<1>1. StopSequence \in Seq(Range(StopSequence)) /\ StopSequence # <<>>
  BY ClientsAssumption DEF ClientsAssumption
<1> QED BY <1>1 DEF SequenceOfEntries

\* Where the stop sequence is.
LEMMA StopAt ==
  ASSUME NEW text, SequenceOfEntries(text), NEW i \in 1 .. Len(text)
  PROVE  i \in StopsIn(text) <=>
             /\ Len(StopSequence) <= Len(text) - i + 1
             /\ \A k \in 1 .. Len(StopSequence) : text[i + k - 1] = StopSequence[k]
<1> DEFINE rest == SubSeq(text, i, Len(text))
<1>1. Len(text) \in Nat /\ DOMAIN text = 1 .. Len(text)
  BY DEF SequenceOfEntries
<1>2. i \in 1 .. Len(text) + 1 /\ Len(text) \in 0 .. Len(text) /\ i <= Len(text) + 1
  BY <1>1
<1>3. /\ SequenceOfEntries(rest) /\ Len(rest) = Len(text) - i + 1
      /\ \A k \in 1 .. Len(text) - i + 1 : rest[k] = text[i + k - 1]
  BY <1>2, EntriesMiddle
<1>4. i \in StopsIn(text) <=> IsPrefix(StopSequence, rest)
  BY <1>1 DEF StopsIn
<1> HIDE DEF rest
<1>5. IsPrefix(StopSequence, rest) <=> /\ Len(StopSequence) <= Len(rest)
                                       /\ \A k \in 1 .. Len(StopSequence) : StopSequence[k] = rest[k]
  BY <1>3, StopIs, PrefixIs
<1>6. ASSUME Len(StopSequence) <= Len(rest), NEW k \in 1 .. Len(StopSequence)
      PROVE  rest[k] = text[i + k - 1]
  BY <1>1, <1>3, <1>6, StopIs
<1> QED BY <1>3, <1>4, <1>5, <1>6

\* What is printed of the tokens without split characters.
Printed(tokens, text) ==
    LET full == BeforeStop(decode(tokens))
    IN  /\ IsPrefix(full, text)
        /\ IsStrictPrefix(After(text, Len(full)), StopSequence)

\* As long as the stop sequence has not come, all is printed.
LEMMA AllPrinted ==
  ASSUME NEW tokens, SequenceOfEntries(tokens), decode(tokens) = tokens, StopsIn(tokens) = {}
  PROVE  BeforeStop(decode(tokens)) = tokens /\ Printed(tokens, tokens)
<1>1. BeforeStop(decode(tokens)) = tokens
  BY DEF BeforeStop
<1>2. IsPrefix(tokens, tokens)
  BY PrefixIs, AsEntries DEF SequenceOfEntries
<1>3. Len(tokens) \in Nat /\ Len(tokens) \in 0 .. Len(tokens)
  BY DEF SequenceOfEntries
<1>4. After(tokens, Len(tokens)) = <<>>
  BY <1>3, AfterIs
<1>5. SequenceOfEntries(<<>>) /\ Len(<<>>) = 0
  BY NothingSaid DEF SameExchanges
<1>6. IsPrefix(<<>>, StopSequence) /\ <<>> # StopSequence
  BY <1>5, StopIs, PrefixIs
<1> QED BY <1>1, <1>2, <1>4, <1>6 DEF Printed, IsStrictPrefix

\* The stop sequence ends where it is found, and what came of it before is printed.
LEMMA StopPrinted ==
  ASSUME NEW tokens, SequenceOfEntries(tokens), StopsIn(tokens) = {}, NEW token,
         decode(Append(tokens, token)) = Append(tokens, token), StopsIn(Append(tokens, token)) # {}
  PROVE  LET all == Append(tokens, token) IN
         /\ Len(BeforeStop(decode(all))) <= Len(tokens)
         /\ Printed(all, tokens)
<1> DEFINE all == Append(tokens, token)
           n == Len(tokens)
           m == Len(StopSequence)
           i == First(StopsIn(all))
           full == BeforeStop(decode(all))
           rest == After(tokens, Len(full))
<1>1. n \in Nat /\ DOMAIN tokens = 1 .. n
  BY DEF SequenceOfEntries
<1>2. /\ SequenceOfEntries(all) /\ Len(all) = n + 1 /\ DOMAIN all = 1 .. n + 1
      /\ \A k \in 1 .. n : all[k] = tokens[k]
  BY EntriesAppend
<1>3. m \in Nat /\ m >= 1 /\ SequenceOfEntries(StopSequence)
  BY StopIs
<1>4. full = SubSeq(all, 1, i - 1)
  BY DEF BeforeStop
<1> HIDE DEF all
<1>5. i \in StopsIn(all)
  <2>1. StopsIn(all) \subseteq Nat /\ StopsIn(all) # {}
    BY <1>2 DEF StopsIn, all
  <2>2. \E a \in StopsIn(all) : \A b \in StopsIn(all) : a <= b
    BY <2>1, LeastNatural
  <2> QED BY <2>2 DEF First
<1> HIDE DEF i, n, m
<1>6. i \in 1 .. n + 1
  BY <1>2, <1>5 DEF StopsIn
<1>7. m <= n + 1 - i + 1 /\ \A k \in 1 .. m : all[i + k - 1] = StopSequence[k]
  <2>1. i \in 1 .. Len(all) /\ SequenceOfEntries(all)
    BY <1>2, <1>6
  <2>2. /\ Len(StopSequence) <= Len(all) - i + 1
        /\ \A k \in 1 .. Len(StopSequence) : all[i + k - 1] = StopSequence[k]
    BY <1>5, <2>1, StopAt
  <2>3. m <= Len(all) - i + 1 /\ \A k \in 1 .. m : all[i + k - 1] = StopSequence[k]
    BY <2>2 DEF m
  <2>4. Len(all) - i + 1 = n + 1 - i + 1
    BY <1>1, <1>2, <1>6
  <2> QED BY <2>3, <2>4
<1>8. m = n + 2 - i
  <2>1. SUFFICES ASSUME m <= n - i + 1 PROVE FALSE
    BY <1>1, <1>3, <1>6, <1>7
  <2>2. i \in 1 .. n
    BY <1>1, <1>3, <1>6, <2>1
  <2>3. ASSUME NEW k \in 1 .. m PROVE tokens[i + k - 1] = StopSequence[k]
    <3>1. i + k - 1 \in 1 .. n
      BY <1>1, <1>3, <2>1, <2>2
    <3> QED BY <1>2, <1>7, <3>1
  <2>4. i \in StopsIn(tokens)
    <3>1. i \in 1 .. Len(tokens) /\ Len(StopSequence) <= Len(tokens) - i + 1
          /\ \A k \in 1 .. Len(StopSequence) : tokens[i + k - 1] = StopSequence[k]
      BY <2>1, <2>2, <2>3 DEF n, m
    <3> QED BY <3>1, StopAt
  <2> QED BY <2>4
<1>9. /\ SequenceOfEntries(full) /\ Len(full) = i - 1
      /\ \A k \in 1 .. i - 1 : full[k] = all[k]
  <2>1. i - 1 \in 0 .. Len(all)
    BY <1>1, <1>2, <1>6
  <2> QED BY <1>2, <1>4, <2>1, EntriesCut
<1> HIDE DEF full
<1>10. IsPrefix(full, tokens)
  <2>1. Len(full) <= Len(tokens)
    BY <1>1, <1>6, <1>9 DEF n
  <2>2. \A k \in 1 .. Len(full) : full[k] = tokens[k]
    BY <1>1, <1>2, <1>6, <1>9
  <2> QED BY <1>9, <2>1, <2>2, PrefixIs
<1>11. /\ SequenceOfEntries(rest) /\ Len(rest) = n - (i - 1)
       /\ \A k \in 1 .. n - (i - 1) : rest[k] = tokens[i - 1 + k]
  <2>1. Len(full) \in 0 .. Len(tokens)
    BY <1>1, <1>6, <1>9 DEF n
  <2> DEFINE c == Len(full)
  <2> HIDE DEF c
  <2>2. c \in 0 .. Len(tokens) /\ c = i - 1
    BY <1>9, <2>1 DEF c
  <2>3. /\ SequenceOfEntries(After(tokens, c)) /\ Len(After(tokens, c)) = Len(tokens) - c
        /\ \A k \in 1 .. Len(tokens) - c : After(tokens, c)[k] = tokens[c + k]
    BY <2>2, AfterIs
  <2>4. rest = After(tokens, c)
    BY DEF c
  <2> QED BY <2>2, <2>3, <2>4 DEF n
<1> HIDE DEF rest
<1>12. IsPrefix(rest, StopSequence) /\ rest # StopSequence
  <2>1. Len(rest) = m - 1
    BY <1>1, <1>3, <1>6, <1>8, <1>11
  <2>2. ASSUME NEW k \in 1 .. Len(rest) PROVE rest[k] = StopSequence[k]
    <3>1. i - 1 + k \in 1 .. n /\ i - 1 + k = i + k - 1 /\ k \in 1 .. m /\ k \in 1 .. n - (i - 1)
      BY <1>1, <1>3, <1>6, <1>8, <2>1
    <3> QED BY <1>2, <1>7, <1>11, <3>1
  <2>3. IsPrefix(rest, StopSequence)
    BY <1>3, <1>11, <2>1, <2>2, PrefixIs DEF m
  <2> QED BY <1>3, <2>1, <2>3 DEF m
<1>13. Len(full) <= Len(tokens) /\ Printed(all, tokens)
  BY <1>1, <1>6, <1>9, <1>10, <1>12 DEF Printed, IsStrictPrefix, full, rest, n
<1> QED BY <1>13 DEF full, all

ChatFields == {"pc", "limit", "history", "log", "question", "tokens", "text", "mixed"}

ChatShape ==
    /\ DOMAIN chChat = ChatFields
    /\ SequenceOfEntries(chChat.tokens) /\ "" \notin Range(chChat.tokens)

\* What is sent again are the last messages.
LastOf(history, log, limit) ==
    /\ SequenceOfEntries(history) /\ SequenceOfEntries(log) /\ limit \in Nat
    /\ Len(history) <= Len(log)
    /\ \A k \in 1 .. Len(history) : history[k] = log[Len(log) - Len(history) + k]
    /\ limit > 0 => Len(history) <= limit

\* The stop sequence has not come while the loop reads tokens.
TextInv ==
    ~chChat.mixed /\ Halves \cap Range(chChat.tokens) = {} =>
        /\ Printed(chChat.tokens, chChat.text)
        /\ chChat.pc = "tokens" => StopsIn(chChat.tokens) = {} /\ chChat.text = chChat.tokens

ChatInv == ChatShape /\ LastOf(chChat.history, chChat.log, chChat.limit) /\ TextInv

LEMMA WordsDecode ==
  ASSUME NEW ids, SequenceOfEntries(ids), "" \notin Range(ids), Halves \cap Range(ids) = {}
  PROVE  decode(ids) = ids
<1>1. \A i \in DOMAIN ids : ids[i] \notin Undecoded
  BY DEF Range, Undecoded
<1> QED BY <1>1, DecodeWhole

LEMMA NothingPrinted ==
  /\ SequenceOfEntries(<<>>) /\ Range(<<>>) = {} /\ StopsIn(<<>>) = {} /\ Printed(<<>>, <<>>)
<1>1. SequenceOfEntries(<<>>) /\ DOMAIN <<>> = {}
  BY NothingSaid DEF SameExchanges
<1>2. StopsIn(<<>>) = {}
  BY <1>1 DEF StopsIn
<1>3. decode(<<>>) = <<>>
  BY <1>1, DecodeWhole
<1>4. Range(<<>>) = {}
  BY <1>1 DEF Range
<1> QED BY <1>1, <1>2, <1>3, <1>4, AllPrinted

LEMMA NothingRemembered ==
  ASSUME NEW limit \in Nat
  PROVE  LastOf(<<>>, <<>>, limit)
BY NothingPrinted, NothingSaid DEF LastOf, SameExchanges

\* A turn is added to the log and to what is sent again, which is cut.
LEMMA Remembered ==
  ASSUME NEW history, NEW log, NEW limit, LastOf(history, log, limit), NEW asked, NEW answered
  PROVE  LastOf(LastMessages(history \o <<asked, answered>>, limit), log \o <<asked, answered>>, limit)
<1> DEFINE turn == <<asked, answered>>
           h == history \o turn
           l == log \o turn
           a == Len(history)
           b == Len(log)
<1>1. SequenceOfEntries(turn) /\ Len(turn) = 2
  <2>1. turn \in Seq({asked, answered}) /\ Len(turn) = 2
    OBVIOUS
  <2> QED BY <2>1, AsEntries
<1>2. /\ SequenceOfEntries(history) /\ SequenceOfEntries(log) /\ limit \in Nat /\ a <= b
      /\ \A k \in 1 .. a : history[k] = log[b - a + k]
  BY DEF LastOf
<1> HIDE DEF turn
<1>3. /\ SequenceOfEntries(h) /\ Len(h) = a + Len(turn)
      /\ \A k \in 1 .. a : h[k] = history[k]
      /\ \A k \in 1 .. Len(turn) : h[a + k] = turn[k]
      /\ a \in Nat
  <2>1. SequenceOfEntries(history) /\ SequenceOfEntries(turn)
    BY <1>1, <1>2
  <2>2. /\ SequenceOfEntries(history \o turn) /\ Len(history \o turn) = Len(history) + Len(turn)
        /\ \A k \in 1 .. Len(history) : (history \o turn)[k] = history[k]
        /\ \A k \in 1 .. Len(turn) : (history \o turn)[Len(history) + k] = turn[k]
        /\ Len(history) \in Nat
    BY <2>1, EntriesJoined
  <2> HIDE DEF b, l
  <2> QED BY <2>2 DEF h, a
<1>4. /\ SequenceOfEntries(l) /\ Len(l) = b + Len(turn)
      /\ \A k \in 1 .. b : l[k] = log[k]
      /\ \A k \in 1 .. Len(turn) : l[b + k] = turn[k]
      /\ b \in Nat
  <2>1. SequenceOfEntries(log) /\ SequenceOfEntries(turn)
    BY <1>1, <1>2
  <2>2. /\ SequenceOfEntries(log \o turn) /\ Len(log \o turn) = Len(log) + Len(turn)
        /\ \A k \in 1 .. Len(log) : (log \o turn)[k] = log[k]
        /\ \A k \in 1 .. Len(turn) : (log \o turn)[Len(log) + k] = turn[k]
        /\ Len(log) \in Nat
    BY <2>1, EntriesJoined
  <2> HIDE DEF a, h
  <2> QED BY <2>2 DEF l, b
<1> HIDE DEF h, l, a, b
<1>5. Len(h) = a + 2 /\ Len(l) = b + 2 /\ Len(h) <= Len(l)
  BY <1>1, <1>2, <1>3, <1>4
<1>6. ASSUME NEW k \in 1 .. Len(h) PROVE h[k] = l[Len(l) - Len(h) + k]
  <2>1. CASE k \in 1 .. a
    <3>1. b - a + k \in 1 .. b /\ Len(l) - Len(h) + k = b - a + k
      BY <1>2, <1>3, <1>4, <1>5, <2>1
    <3> QED BY <1>2, <1>3, <1>4, <2>1, <3>1
  <2>2. CASE k \notin 1 .. a
    <3> DEFINE j == k - a
    <3>1. j \in 1 .. Len(turn) /\ k = a + j /\ Len(l) - Len(h) + k = b + j
      BY <1>1, <1>2, <1>3, <1>4, <1>5, <2>2
    <3> HIDE DEF j
    <3> QED BY <1>3, <1>4, <3>1
  <2> QED BY <2>1, <2>2
<1>7. CASE Len(h) > limit /\ limit > 0
  <2> DEFINE i == Len(h) - limit + 1
             cut == SubSeq(h, i, Len(h))
  <2>1. LastMessages(h, limit) = cut
    BY <1>7 DEF LastMessages
  <2>2. /\ Len(h) \in Nat /\ i \in 1 .. Len(h) + 1 /\ Len(h) \in 0 .. Len(h) /\ i <= Len(h) + 1
        /\ Len(h) - i + 1 = limit
    BY <1>2, <1>3, <1>5, <1>7
  <2> HIDE DEF i
  <2>3. /\ SequenceOfEntries(cut) /\ Len(cut) = Len(h) - i + 1
        /\ \A k \in 1 .. Len(h) - i + 1 : cut[k] = h[i + k - 1]
    BY <1>3, <2>2, EntriesMiddle
  <2> HIDE DEF cut
  <2>4. ASSUME NEW k \in 1 .. Len(cut) PROVE cut[k] = l[Len(l) - Len(cut) + k]
    <3> DEFINE j == i + k - 1
    <3>1. /\ Len(h) \in Nat /\ Len(l) \in Nat /\ Len(cut) = Len(h) - i + 1 /\ i \in Nat /\ i >= 1
      BY <1>3, <1>4, <1>5, <2>2, <2>3
    <3>2. j \in 1 .. Len(h) /\ Len(l) - Len(h) + j = Len(l) - Len(cut) + k
      BY <3>1
    <3>3. cut[k] = h[j]
      BY <2>3
    <3> HIDE DEF j
    <3> QED BY <1>6, <3>2, <3>3
  <2>5. Len(cut) = limit /\ Len(cut) <= Len(l)
    BY <1>2, <1>3, <1>4, <1>5, <1>7, <2>2, <2>3
  <2>6. LastOf(cut, l, limit)
    BY <1>2, <1>4, <2>3, <2>4, <2>5 DEF LastOf
  <2> QED BY <2>1, <2>6 DEF h, l, turn
<1>8. CASE ~(Len(h) > limit /\ limit > 0)
  <2>1. LastMessages(h, limit) = h
    BY <1>8 DEF LastMessages
  <2>2. limit > 0 => Len(h) <= limit
    BY <1>2, <1>3, <1>5, <1>8
  <2>3. LastOf(h, l, limit)
    BY <1>2, <1>3, <1>4, <1>5, <1>6, <2>2 DEF LastOf
  <2> QED BY <2>1, <2>3 DEF h, l, turn
<1> QED BY <1>7, <1>8

LEMMA ChatTokenStep ==
  ASSUME ChatInv, print_decoded_token
  PROVE  ChatInv'
<1>1. PICK token \in ChatTokens :
        IF token = "eos" THEN chChat' = [chChat EXCEPT !.pc = "answer"]
        ELSE LET tokens == Append(chChat.tokens, token)
                 decoded == BeforeStop(decode(tokens))
             IN  chChat' = [chChat EXCEPT !.tokens = tokens,
                    !.text = IF Len(decoded) > Len(@) THEN decoded ELSE @,
                    !.pc = IF StopsIn(decode(tokens)) = {} THEN "tokens" ELSE "answer"]
  BY DEF print_decoded_token
<1>2. chChat.pc = "tokens" /\ token # ""
  BY ClientsAssumption DEF print_decoded_token, ClientsAssumption
<1>3. CASE token = "eos"
  <2>1. /\ DOMAIN chChat' = ChatFields /\ chChat'.pc = "answer"
        /\ chChat'.limit = chChat.limit /\ chChat'.history = chChat.history /\ chChat'.log = chChat.log
        /\ chChat'.tokens = chChat.tokens /\ chChat'.text = chChat.text /\ chChat'.mixed = chChat.mixed
    BY <1>1, <1>3 DEF ChatInv, ChatShape, ChatFields
  <2> QED BY <2>1 DEF ChatInv, ChatShape, TextInv
<1>4. CASE token # "eos"
  <2> DEFINE old == chChat.tokens
             tokens == Append(old, token)
             decoded == BeforeStop(decode(tokens))
             text == IF Len(decoded) > Len(chChat.text) THEN decoded ELSE chChat.text
             pc == IF StopsIn(decode(tokens)) = {} THEN "tokens" ELSE "answer"
  <2>1. chChat' = [chChat EXCEPT !.tokens = tokens, !.text = text, !.pc = pc]
    BY <1>1, <1>4
  <2> HIDE DEF tokens, decoded, text, pc
  <2>2. /\ DOMAIN chChat' = ChatFields /\ chChat'.pc = pc
        /\ chChat'.limit = chChat.limit /\ chChat'.history = chChat.history /\ chChat'.log = chChat.log
        /\ chChat'.tokens = tokens /\ chChat'.text = text /\ chChat'.mixed = chChat.mixed
    BY <2>1 DEF ChatInv, ChatShape, ChatFields
  <2>3. SequenceOfEntries(old) /\ "" \notin Range(old)
    BY DEF ChatInv, ChatShape
  <2> HIDE DEF old
  <2>4. /\ SequenceOfEntries(tokens) /\ "" \notin Range(tokens)
        /\ Range(tokens) = Range(old) \cup {token}
        /\ Len(tokens) = Len(old) + 1 /\ Len(old) \in Nat
    <3>1. /\ SequenceOfEntries(tokens) /\ Len(tokens) = Len(old) + 1 /\ Len(old) \in Nat
          /\ Range(tokens) = Range(old) \cup {token}
      BY <2>3, EntriesAppend DEF tokens
    <3> QED BY <1>2, <2>3, <3>1
  <2>len. Len(tokens) = Len(old) + 1 /\ Len(old) \in Nat
    BY <2>4
  <2>5. ASSUME ~chChat.mixed, Halves \cap Range(tokens) = {}
        PROVE  /\ Printed(tokens, text)
               /\ pc = "tokens" => StopsIn(tokens) = {} /\ text = tokens
    <3>1. Halves \cap Range(old) = {}
      BY <2>4, <2>5
    <3>2. StopsIn(old) = {} /\ chChat.text = old
      BY <1>2, <2>5, <3>1 DEF ChatInv, TextInv, old
    <3>3. decode(tokens) = tokens
      BY <2>4, <2>5, WordsDecode
    <3>4. CASE StopsIn(tokens) = {}
      <4>1. decoded = tokens /\ Printed(tokens, tokens)
        BY <2>4, <3>3, <3>4, AllPrinted DEF decoded
      <4>2. text = tokens
        BY <2>len, <3>2, <4>1 DEF text
      <4> QED BY <3>4, <4>1, <4>2
    <3>5. CASE StopsIn(tokens) # {}
      <4>1. Len(decoded) <= Len(old) /\ Printed(tokens, old)
        <5>1. /\ SequenceOfEntries(old) /\ StopsIn(old) = {}
              /\ decode(Append(old, token)) = Append(old, token) /\ StopsIn(Append(old, token)) # {}
          BY <2>3, <3>2, <3>3, <3>5 DEF tokens
        <5>2. LET all == Append(old, token) IN
              Len(BeforeStop(decode(all))) <= Len(old) /\ Printed(all, old)
          BY <5>1, StopPrinted
        <5> QED BY <5>2 DEF decoded, tokens
      <4>2. Len(decoded) \in Nat
        <5>1. decoded = SubSeq(tokens, 1, First(StopsIn(tokens)) - 1)
          BY <3>3, <3>5 DEF decoded, BeforeStop
        <5>2. First(StopsIn(tokens)) \in 1 .. Len(tokens)
          <6>1. StopsIn(tokens) \subseteq 1 .. Len(tokens)
            BY <2>4, AsEntries DEF StopsIn, SequenceOfEntries
          <6>2. StopsIn(tokens) \subseteq Nat
            BY <6>1
          <6>3. \E a \in StopsIn(tokens) : \A b \in StopsIn(tokens) : a <= b
            BY <3>5, <6>2, LeastNatural
          <6> QED BY <6>1, <6>3 DEF First
        <5>3. First(StopsIn(tokens)) - 1 \in 0 .. Len(tokens) /\ First(StopsIn(tokens)) - 1 \in Nat
          BY <2>len, <5>2
        <5>4. Len(SubSeq(tokens, 1, First(StopsIn(tokens)) - 1)) = First(StopsIn(tokens)) - 1
          BY <2>4, <5>3, EntriesCut
        <5> QED BY <5>1, <5>3, <5>4
      <4>3. text = old
        BY <2>len, <3>2, <4>1, <4>2 DEF text
      <4>4. pc = "answer"
        BY <3>3, <3>5 DEF pc
      <4> QED BY <4>1, <4>3, <4>4
    <3> QED BY <3>4, <3>5
  <2> QED BY <2>2, <2>4, <2>5 DEF ChatInv, ChatShape, TextInv
<1> QED BY <1>3, <1>4

LEMMA ChatStep ==
  ASSUME ChatInv, [ClientsNext]_chVars
  PROVE  ChatInv'
<1>1. CASE AskChat
  <2>1. PICK question \in Questions :
          chChat' = [chChat EXCEPT !.pc = "tokens", !.question = question, !.tokens = <<>>,
                                   !.text = <<>>, !.mixed = FALSE]
    BY <1>1 DEF AskChat
  <2>2. /\ DOMAIN chChat' = ChatFields
        /\ chChat'.limit = chChat.limit /\ chChat'.history = chChat.history /\ chChat'.log = chChat.log
        /\ chChat'.tokens = <<>> /\ chChat'.text = <<>>
    BY <2>1 DEF ChatInv, ChatShape, ChatFields
  <2> QED BY <2>2, NothingPrinted DEF ChatInv, ChatShape, TextInv
<1>2. CASE ResetChat
  <2>1. /\ DOMAIN chChat' = ChatFields /\ chChat'.pc = chChat.pc
        /\ chChat'.limit = chChat.limit /\ chChat'.history = <<>> /\ chChat'.log = <<>>
        /\ chChat'.tokens = chChat.tokens /\ chChat'.text = chChat.text /\ chChat'.mixed = chChat.mixed
    BY <1>2 DEF ResetChat, ChatInv, ChatShape, ChatFields
  <2>2. LastOf(<<>>, <<>>, chChat.limit)
    BY NothingRemembered DEF ChatInv, LastOf
  <2> QED BY <2>1, <2>2 DEF ChatInv, ChatShape, TextInv
<1>3. CASE print_decoded_token
  BY <1>3, ChatTokenStep
<1>4. CASE HybridComputeRequest
  <2>1. /\ DOMAIN chChat' = ChatFields /\ chChat'.mixed = TRUE
        /\ chChat'.limit = chChat.limit /\ chChat'.history = chChat.history /\ chChat'.log = chChat.log
        /\ chChat'.tokens = chChat.tokens
    BY <1>4 DEF HybridComputeRequest, ChatInv, ChatShape, ChatFields
  <2> QED BY <2>1 DEF ChatInv, ChatShape, TextInv
<1>5. CASE EndChatStream
  <2>1. /\ DOMAIN chChat' = ChatFields /\ chChat'.pc = "answer"
        /\ chChat'.limit = chChat.limit /\ chChat'.history = chChat.history /\ chChat'.log = chChat.log
        /\ chChat'.tokens = chChat.tokens /\ chChat'.text = chChat.text /\ chChat'.mixed = chChat.mixed
    BY <1>5 DEF EndChatStream, ChatInv, ChatShape, ChatFields
  <2> QED BY <2>1 DEF ChatInv, ChatShape, TextInv
<1>6. CASE Remember
  <2> DEFINE asked == <<"user", chChat.question>>
             answered == <<"assistant", chChat.text>>
             log == chChat.log \o <<asked, answered>>
             history == LastMessages(chChat.history \o <<asked, answered>>, chChat.limit)
  <2>1. chChat' = [chChat EXCEPT !.pc = "ask", !.log = log, !.history = history]
    BY <1>6 DEF Remember
  <2>2. LastOf(history, log, chChat.limit)
    <3> HIDE DEF asked, answered
    <3> QED BY Remembered DEF ChatInv
  <2> HIDE DEF log, history
  <2>3. /\ DOMAIN chChat' = ChatFields /\ chChat'.pc = "ask"
        /\ chChat'.limit = chChat.limit /\ chChat'.history = history /\ chChat'.log = log
        /\ chChat'.tokens = chChat.tokens /\ chChat'.text = chChat.text /\ chChat'.mixed = chChat.mixed
    BY <2>1 DEF ChatInv, ChatShape, ChatFields
  <2> QED BY <2>2, <2>3 DEF ChatInv, ChatShape, TextInv
<1>7. CASE UNCHANGED chChat
  BY <1>7 DEF ChatInv, ChatShape, TextInv
<1> QED BY <1>1, <1>2, <1>3, <1>4, <1>5, <1>6, <1>7
        DEF ClientsNext, Shim, Repl, interactive_loop, run_socket_generation, chVars

LEMMA ChatAgrees ==
  ASSUME ChatInv
  PROVE  AnswerIsText
<1>1. ~chChat.mixed /\ Halves \cap Range(chChat.tokens) = {} => Printed(chChat.tokens, chChat.text)
  BY DEF ChatInv, TextInv
<1>2. IsSuffix(chChat.history, chChat.log)
  BY SuffixIs DEF ChatInv, LastOf
<1>3. chChat.limit > 0 => Len(chChat.history) <= chChat.limit
  BY DEF ChatInv, LastOf
<1> QED BY <1>1, <1>2, <1>3 DEF AnswerIsText, Printed, Halves

---------------------------------------------------------------------------
(* The streamed answer *)

LEMMA NothingJoined ==
  ASSUME NEW s, SequenceOfEntries(s)
  PROVE  <<>> \o s = s /\ s \o <<>> = s
<1>1. s \in Seq(Range(s))
  BY DEF SequenceOfEntries
<1> QED BY <1>1, ConcatEmptySeq

\* What a token adds to the end of a text.
LEMMA LastUnit ==
  ASSUME NEW s, SequenceOfEntries(s), NEW e, NEW n \in 0 .. Len(s)
  PROVE  /\ After(Append(s, e), n) = After(s, n) \o <<e>>
         /\ SubSeq(Append(s, e), 1, n) = SubSeq(s, 1, n)
         /\ After(Append(s, e), Len(s)) = <<e>>
         /\ s \o <<e>> = Append(s, e)
         /\ SequenceOfEntries(<<e>>)
         /\ SubSeq(Append(s, e), Len(s) + 1, Len(s)) = <<>>
         /\ SubSeq(s, 1, Len(s)) = s
<1> DEFINE V == Range(s) \cup {e}
           t == Append(s, e)
<1>1. s \in Seq(V) /\ e \in V /\ <<e>> \in Seq(V)
  <2>1. s \in Seq(Range(s))
    BY DEF SequenceOfEntries
  <2> QED BY <2>1
<1> HIDE DEF V
<1>2. Len(s) \in Nat /\ n \in Nat /\ n <= Len(s)
  BY <1>1
<1>3. /\ t \in Seq(V) /\ Len(t) = Len(s) + 1 /\ t[Len(s) + 1] = e
      /\ \A i \in 1 .. Len(s) : t[i] = s[i]
  BY <1>1
<1> HIDE DEF t
<1>4. s \o <<e>> = t
  BY <1>1 DEF t
<1>5. SequenceOfEntries(<<e>>) /\ SequenceOfEntries(s) /\ SequenceOfEntries(t)
  BY <1>1, <1>3, AsEntries
<1>6. SubSeq(t, 1, n) = SubSeq(s, 1, n)
  BY <1>1, <1>2, <1>3
<1>7. After(t, Len(s)) = <<e>>
  <2> DEFINE l == Len(s)
             a == SubSeq(t, l + 1, l + 1)
  <2>1. a \in Seq(V) /\ Len(a) = 1 /\ a[1] = t[l + 1]
    BY <1>2, <1>3
  <2>2. After(t, Len(s)) = a
    BY <1>3 DEF After
  <2> HIDE DEF a
  <2>3. a = <<e>>
    BY <1>3, <2>1
  <2> QED BY <2>2, <2>3
<1>8. SubSeq(t, Len(s) + 1, Len(s)) = <<>> /\ SubSeq(s, 1, Len(s)) = s
  BY <1>1, <1>2, <1>3
<1>9. After(t, n) = After(s, n) \o <<e>>
  <2> DEFINE a == After(s, n)
             b == After(t, n)
  <2>1. /\ a \in Seq(V) /\ Len(a) = Len(s) - n /\ \A i \in 1 .. Len(s) - n : a[i] = s[n + i]
    BY <1>1, <1>2 DEF After
  <2>2. /\ b \in Seq(V) /\ Len(b) = Len(s) + 1 - n /\ \A i \in 1 .. Len(s) + 1 - n : b[i] = t[n + i]
    BY <1>2, <1>3 DEF After
  <2> HIDE DEF a, b
  <2>3. /\ a \o <<e>> \in Seq(V) /\ Len(a \o <<e>>) = Len(s) - n + 1
        /\ \A i \in 1 .. Len(s) - n : (a \o <<e>>)[i] = a[i]
        /\ (a \o <<e>>)[Len(s) - n + 1] = e
    BY <1>1, <1>2, <2>1
  <2>4. ASSUME NEW i \in 1 .. Len(s) + 1 - n PROVE b[i] = (a \o <<e>>)[i]
    <3>1. CASE i \in 1 .. Len(s) - n
      <4>1. n + i \in 1 .. Len(s)
        BY <1>2, <3>1
      <4> QED BY <1>3, <2>1, <2>2, <2>3, <3>1, <4>1
    <3>2. CASE i = Len(s) - n + 1
      <4>1. n + i = Len(s) + 1
        BY <1>2, <3>2
      <4> QED BY <1>3, <2>2, <2>3, <3>2, <4>1
    <3>3. i \in 1 .. Len(s) - n \/ i = Len(s) - n + 1
      BY <1>2
    <3> QED BY <3>1, <3>2, <3>3
  <2> DEFINE c == a \o <<e>>
  <2> HIDE DEF c
  <2>5. SequenceOfEntries(b) /\ SequenceOfEntries(c) /\ Len(b) = Len(c)
        /\ \A i \in 1 .. Len(b) : b[i] = c[i]
    <3>1. SequenceOfEntries(b) /\ SequenceOfEntries(c)
      BY <2>2, <2>3, AsEntries DEF c
    <3>2. Len(b) = Len(s) + 1 - n /\ Len(c) = Len(s) + 1 - n
      BY <1>2, <2>2, <2>3 DEF c
    <3> QED BY <2>4, <3>1, <3>2 DEF c
  <2>6. b = c
    BY <2>5, SameEntries
  <2> QED BY <2>6 DEF b, c, a
<1> QED BY <1>4, <1>5, <1>6, <1>7, <1>8, <1>9 DEF t

\* What the client has got of a text: up to the boundary it is reasoning, if the model
\* was to think.
Streamed(think, text) ==
    LET ends == Places(text, "te")
    IN  IF ~think THEN [reasoning |-> <<>>, content |-> text]
        ELSE IF ends = {} THEN [reasoning |-> text, content |-> <<>>]
        ELSE [reasoning |-> SubSeq(text, 1, First(ends) - 1), content |-> After(text, First(ends))]

LEMMA FirstStays ==
  ASSUME NEW s, SequenceOfEntries(s), NEW e
  PROVE  LET a == Places(s, "te")
             b == Places(Append(s, e), "te") IN
         /\ a # {} => b # {} /\ First(b) = First(a) /\ First(a) \in 1 .. Len(s)
         /\ a = {} /\ e = "te" => b # {} /\ First(b) = Len(s) + 1
         /\ a = {} /\ e # "te" => b = {}
<1> DEFINE t == Append(s, e)
           a == Places(s, "te")
           b == Places(t, "te")
           n == Len(s)
<1>1. /\ SequenceOfEntries(t) /\ DOMAIN t = 1 .. n + 1 /\ n \in Nat /\ DOMAIN s = 1 .. n
      /\ \A k \in 1 .. n : t[k] = s[k]
      /\ t[n + 1] = e
  BY EntriesAppend
<1> HIDE DEF t, n
<1>2. a \subseteq 1 .. n /\ b \subseteq 1 .. n + 1 /\ \A k \in 1 .. n : k \in a <=> k \in b
  BY <1>1 DEF Places
<1>3. n + 1 \in b <=> e = "te"
  BY <1>1 DEF Places
<1> HIDE DEF a, b
<1>4. ASSUME b # {} PROVE First(b) \in b /\ \A k \in b : First(b) <= k
  <2>1. b \subseteq Nat
    BY <1>1, <1>2
  <2>2. \E i \in b : \A j \in b : i <= j
    BY <1>4, <2>1, LeastNatural
  <2> QED BY <2>2 DEF First
<1>5. ASSUME a # {} PROVE First(a) \in a /\ \A k \in a : First(a) <= k
  <2>1. a \subseteq Nat
    BY <1>1, <1>2
  <2>2. \E i \in a : \A j \in a : i <= j
    BY <1>5, <2>1, LeastNatural
  <2> QED BY <2>2 DEF First
<1>6. a # {} => b # {} /\ First(b) = First(a) /\ First(a) \in 1 .. n
  <2>1. SUFFICES ASSUME a # {} PROVE b # {} /\ First(b) = First(a) /\ First(a) \in 1 .. n
    OBVIOUS
  <2>2. First(a) \in a /\ First(a) \in 1 .. n /\ First(a) \in b /\ b # {}
    BY <1>2, <1>5, <2>1
  <2>3. First(b) <= First(a) /\ First(b) \in 1 .. n + 1 /\ First(b) \in b
    BY <1>2, <1>4, <2>2
  <2>4. First(b) \in a
    <3>1. First(b) \in 1 .. n
      BY <1>1, <2>2, <2>3
    <3> QED BY <1>2, <2>3, <3>1
  <2>5. First(a) <= First(b)
    BY <1>5, <2>1, <2>4
  <2> QED BY <1>1, <2>2, <2>3, <2>5
<1>7. a = {} /\ e = "te" => b # {} /\ First(b) = n + 1
  <2>1. SUFFICES ASSUME a = {}, e = "te" PROVE b # {} /\ First(b) = n + 1
    OBVIOUS
  <2>2. n + 1 \in b
    BY <1>3, <2>1
  <2>3. First(b) \in b
    BY <1>4, <2>2
  <2>4. First(b) \in 1 .. n + 1 /\ First(b) \notin 1 .. n
    BY <1>2, <2>1, <2>3
  <2> QED BY <1>1, <2>2, <2>4
<1>8. a = {} /\ e # "te" => b = {}
  <2>1. SUFFICES ASSUME a = {}, e # "te", NEW k \in b PROVE FALSE
    OBVIOUS
  <2>2. k \in 1 .. n
    <3>1. k \in 1 .. n + 1 /\ k # n + 1
      BY <1>2, <1>3, <2>1
    <3> QED BY <1>1, <3>1
  <2> QED BY <1>2, <2>1, <2>2
<1> QED BY <1>6, <1>7, <1>8 DEF a, b, t, n

---------------------------------------------------------------------------
ShimFields ==
    {"pc", "stream", "think", "max", "says", "gen", "printed", "thinking", "sent", "finish", "gone"}

MessageFields == {"reasoning", "content", "tools"}

\* No unit of a text is empty.
Printable(text) == "" \notin Range(text)

\* What has come is the beginning of what the engine says, without the stop token.
Heard(gen, says) ==
    /\ SequenceOfEntries(gen) /\ SequenceOfEntries(says) /\ Len(gen) <= Len(says)
    /\ \A i \in 1 .. Len(gen) : gen[i] = says[i] /\ gen[i] # "eos"
    /\ \A i \in 1 .. Len(says) : says[i] = "eos" => i = Len(says)
    /\ Printable(says)

\* Why an exchange is over.
Answering ==
    /\ chShim.pc = "closing" => chShim.stream
    /\ chShim.pc \in {"closing", "done"} /\ ~chShim.gone /\ chShim.stream =>
          \/ /\ chShim.finish = "stop" /\ Len(chShim.gen) < Len(chShim.says)
             /\ \/ chShim.says[Len(chShim.gen) + 1] = "eos"
                \/ chShim.says[Len(chShim.gen) + 1] = "te" /\ ~chShim.think
          \/ chShim.finish = "length" /\ Len(chShim.gen) = Len(chShim.says)
    /\ chShim.pc = "done" /\ ~chShim.gone /\ ~chShim.stream =>
          /\ chShim.gen = Generated(chShim.says)
          /\ chShim.sent = FullAnswer(chShim.gen, chShim.max).message
          /\ chShim.finish = FullAnswer(chShim.gen, chShim.max).finish

\* Without split characters, what is printed and sent is what has come.
StreamInv ==
    chShim.stream =>
        /\ ~chShim.think => "te" \notin Range(chShim.gen)
        /\ DOMAIN chShim.sent = MessageFields
        /\ Halves \cap Range(chShim.gen) = {} =>
              /\ chShim.printed = chShim.gen
              /\ chShim.thinking <=> chShim.think /\ "te" \notin Range(chShim.gen)
              /\ chShim.sent.reasoning = Streamed(chShim.think, chShim.gen).reasoning
              /\ chShim.sent.content = Streamed(chShim.think, chShim.gen).content

ShimInv ==
    /\ DOMAIN chShim = ShimFields
    /\ Heard(chShim.gen, chShim.says)
    /\ Len(chShim.says) <= chShim.max /\ chShim.max \in Nat
    /\ Answering
    /\ StreamInv

\* The answer of the other path: what the engine says, without the stop token.
WholeAnswer(all, says) ==
    /\ SequenceOfEntries(all) /\ Len(all) <= Len(says)
    /\ \A i \in 1 .. Len(all) : all[i] = says[i]
    /\ Range(all) \subseteq Range(says)
    /\ "te" \in Range(says) <=> "te" \in Range(all)
    /\ \A i \in 1 .. Len(says) : says[i] = "te" => i <= Len(all)

LEMMA GeneratedIs ==
  ASSUME NEW gen, NEW says, Heard(gen, says)
  PROVE  WholeAnswer(Generated(says), says)
<1> DEFINE n == Len(says)
           cut == SubSeq(says, 1, n - 1)
<1>1. n \in Nat /\ DOMAIN says = 1 .. n /\ SequenceOfEntries(says)
  BY DEF Heard, SequenceOfEntries
<1>2. CASE says # <<>> /\ says[n] = "eos"
  <2>1. n > 0
    <3>1. n # 0
      BY <1>1, <1>2, SameEntries, NothingPrinted
    <3> QED BY <1>1, <3>1
  <2>2. n - 1 \in 0 .. n /\ n - 1 \in Nat
    BY <1>1, <2>1
  <2>3. SequenceOfEntries(cut) /\ Len(cut) = n - 1 /\ \A i \in 1 .. n - 1 : cut[i] = says[i]
    BY <1>1, <2>2, EntriesCut
  <2>4. Generated(says) = cut
    BY <1>2 DEF Generated
  <2> HIDE DEF cut
  <2>5. DOMAIN cut = 1 .. n - 1
    BY <2>3 DEF SequenceOfEntries
  <2>6. Range(cut) \subseteq Range(says)
    BY <1>1, <2>3, <2>5 DEF Range
  <2>7. ASSUME NEW i \in 1 .. n, says[i] = "te" PROVE i \in 1 .. n - 1 /\ says[i] \in Range(cut)
    <3>1. i # n
      BY <1>2, <2>7
    <3>2. i \in 1 .. n - 1
      <4> HIDE DEF n
      <4> QED BY <1>1, <3>1
    <3> QED BY <2>3, <2>5, <3>2 DEF Range
  <2>8. "te" \in Range(says) => "te" \in Range(cut)
    BY <1>1, <2>7 DEF Range
  <2> QED BY <1>1, <2>1, <2>2, <2>3, <2>4, <2>6, <2>7, <2>8 DEF WholeAnswer
<1>3. CASE ~(says # <<>> /\ says[n] = "eos")
  <2>1. Generated(says) = says
    BY <1>3 DEF Generated
  <2> QED BY <1>1, <2>1 DEF WholeAnswer
<1> QED BY <1>2, <1>3

LEMMA NothingHeard ==
  ASSUME NEW says, SequenceOfEntries(says), Printable(says),
         \A i \in 1 .. Len(says) : says[i] = "eos" => i = Len(says)
  PROVE  Heard(<<>>, says)
<1>1. SequenceOfEntries(<<>>) /\ Len(<<>>) = 0 /\ Len(says) \in Nat
  BY NothingSaid DEF SameExchanges, SequenceOfEntries
<1> QED BY <1>1 DEF Heard

LEMMA HeardPart ==
  ASSUME NEW gen, NEW says, Heard(gen, says)
  PROVE  Range(gen) \subseteq Range(says)
<1>1. /\ Len(gen) \in Nat /\ Len(says) \in Nat /\ Len(gen) <= Len(says)
      /\ DOMAIN gen = 1 .. Len(gen) /\ DOMAIN says = 1 .. Len(says)
      /\ \A i \in 1 .. Len(gen) : gen[i] = says[i]
  BY DEF Heard, SequenceOfEntries
<1>2. ASSUME NEW i \in DOMAIN gen PROVE gen[i] \in Range(says)
  <2>1. i \in DOMAIN says /\ gen[i] = says[i]
    BY <1>1
  <2> QED BY <2>1 DEF Range
<1> QED BY <1>2 DEF Range

LEMMA MoreHeard ==
  ASSUME NEW gen, NEW says, Heard(gen, says), NEW token, token # "eos",
         Len(gen) < Len(says), token = says[Len(gen) + 1]
  PROVE  Heard(Append(gen, token), says)
<1> DEFINE new == Append(gen, token)
<1>1. /\ SequenceOfEntries(new) /\ Len(new) = Len(gen) + 1 /\ Len(gen) \in Nat
      /\ \A i \in 1 .. Len(gen) : new[i] = gen[i]
      /\ new[Len(gen) + 1] = token
  BY EntriesAppend DEF Heard
<1> HIDE DEF new
<1>2. Len(says) \in Nat /\ Len(new) <= Len(says)
  BY <1>1 DEF Heard, SequenceOfEntries
<1>3. ASSUME NEW i \in 1 .. Len(new) PROVE new[i] = says[i] /\ new[i] # "eos"
  <2>1. i \in 1 .. Len(gen) \/ i = Len(gen) + 1
    BY <1>1
  <2> QED BY <1>1, <2>1 DEF Heard
<1>4. Heard(new, says)
  BY <1>1, <1>2, <1>3 DEF Heard
<1> QED BY <1>4 DEF new

LEMMA StopHeard ==
  ASSUME NEW gen, SequenceOfEntries(gen), NEW says, SequenceOfEntries(says),
         Len(says) = Len(gen) + 1, says[Len(gen) + 1] = "eos",
         \A i \in 1 .. Len(gen) : gen[i] = says[i]
  PROVE  gen = Generated(says)
<1>1. Len(gen) \in Nat /\ Len(gen) \in 0 .. Len(says) /\ Len(says) - 1 = Len(gen)
  BY DEF SequenceOfEntries
<1>2. says # <<>>
  <2>1. Len(says) # 0
    BY <1>1
  <2>2. Len(<<>>) = 0
    OBVIOUS
  <2> QED BY <2>1, <2>2
<1> DEFINE cut == SubSeq(says, 1, Len(gen))
<1>3. Generated(says) = cut
  BY <1>1, <1>2 DEF Generated
<1>4. SequenceOfEntries(cut) /\ Len(cut) = Len(gen) /\ \A i \in 1 .. Len(gen) : cut[i] = says[i]
  BY <1>1, EntriesCut
<1> HIDE DEF cut
<1>5. gen = cut
  BY <1>4, SameEntries
<1> QED BY <1>3, <1>5

\* When all has come that the engine says, it is the answer of the other path; so it is
\* when the stop token comes.
LEMMA AllHeard ==
  ASSUME NEW gen, NEW says, Heard(gen, says),
         \/ Len(gen) = Len(says)
         \/ Len(gen) < Len(says) /\ says[Len(gen) + 1] = "eos"
  PROVE  /\ gen = Generated(says)
         /\ Len(gen) = Len(says) => gen = says /\ "eos" \notin Range(says)
         /\ Len(gen) < Len(says) => Len(says) = Len(gen) + 1 /\ "eos" \in Range(says)
<1>1. /\ Len(gen) \in Nat /\ Len(says) \in Nat
      /\ DOMAIN gen = 1 .. Len(gen) /\ DOMAIN says = 1 .. Len(says)
      /\ SequenceOfEntries(gen) /\ SequenceOfEntries(says)
  BY DEF Heard, SequenceOfEntries
<1> DEFINE l == Len(gen)
           n == Len(says)
<1> HIDE DEF l, n
<1>2. l \in Nat /\ n \in Nat
  BY <1>1 DEF l, n
<1>3. (n # 0 => n \in 1 .. n) /\ (l < n => l + 1 \in 1 .. n)
  BY <1>2
<1>4. CASE Len(gen) = Len(says)
  <2>1. gen = says
    BY <1>1, <1>4, SameEntries DEF Heard
  <2>2. "eos" \notin Range(says)
    BY <1>1, <1>4 DEF Heard, Range
  <2>3. says # <<>> => Len(says) \in DOMAIN says
    <3>1. Len(says) = 0 => says = <<>>
      BY <1>1
    <3> QED BY <1>1, <1>3, <3>1 DEF n
  <2>4. Generated(says) = says
    BY <2>2, <2>3 DEF Generated, Range
  <2> QED BY <1>4, <2>1, <2>2, <2>4
<1>5. CASE Len(gen) < Len(says) /\ says[Len(gen) + 1] = "eos"
  <2>1. Len(gen) + 1 \in 1 .. Len(says)
    BY <1>3, <1>5 DEF l, n
  <2>2. Len(gen) + 1 = Len(says)
    BY <1>5, <2>1 DEF Heard
  <2>3. "eos" \in Range(says)
    BY <1>1, <1>5, <2>1 DEF Range
  <2>4. gen = Generated(says)
    BY <1>1, <2>2, <1>5, StopHeard DEF Heard
  <2>5. Len(gen) # Len(says)
    BY <1>2, <1>5 DEF l, n
  <2> QED BY <2>2, <2>3, <2>4, <2>5
<1> QED BY <1>4, <1>5

LEMMA NoPlace ==
  ASSUME NEW text, NEW unit
  PROVE  Places(text, unit) = {} <=> unit \notin Range(text)
BY DEF Places, Range

\* What a token adds to what was sent.
LEMMA OneMoreDelta ==
  ASSUME NEW gen, SequenceOfEntries(gen), NEW token, NEW think \in BOOLEAN,
         ~think => token # "te" /\ "te" \notin Range(gen),
         chShim.thinking <=> think /\ "te" \notin Range(gen)
  PROVE  LET old == Streamed(think, gen)
             new == Streamed(think, Append(gen, token))
             deltas == StreamDeltas(gen, Append(gen, token)) IN
         /\ new.reasoning = old.reasoning \o deltas.reasoning
         /\ new.content = old.content \o deltas.content
<1> DEFINE text == Append(gen, token)
           n == Len(gen)
           old == Places(gen, "te")
           ends == Places(text, "te")
           was == Streamed(think, gen)
           new == Streamed(think, text)
           deltas == StreamDeltas(gen, text)
<1> SUFFICES /\ new.reasoning = was.reasoning \o deltas.reasoning
             /\ new.content = was.content \o deltas.content
  OBVIOUS
<1>1. n \in Nat /\ n \in 0 .. n
  BY DEF SequenceOfEntries
<1>2. /\ old # {} => ends # {} /\ First(ends) = First(old) /\ First(old) \in 1 .. n
      /\ old = {} /\ token = "te" => ends # {} /\ First(ends) = n + 1
      /\ old = {} /\ token # "te" => ends = {}
  BY FirstStays
<1>3. /\ After(text, n) = <<token>> /\ gen \o <<token>> = text
      /\ SubSeq(text, n + 1, n) = <<>> /\ SubSeq(gen, 1, n) = gen
      /\ SubSeq(text, 1, n) = SubSeq(gen, 1, n)
  BY <1>1, LastUnit
<1>4. old = {} <=> "te" \notin Range(gen)
  BY NoPlace
<1>5. After(text, n + 1) = <<>>
  <2>1. SequenceOfEntries(text) /\ Len(text) = n + 1
    BY EntriesAppend
  <2>2. n + 1 \in 0 .. Len(text) /\ n + 1 = Len(text)
    BY <1>1, <2>1
  <2> QED BY <2>1, <2>2, AfterIs
<1>6. gen \o <<>> = gen /\ <<>> \o <<>> = <<>>
  BY NothingJoined, NothingPrinted
<1> HIDE DEF text, n, old, ends, was, new, deltas
<1>7. deltas = IF ~chShim.thinking THEN [reasoning |-> <<>>, content |-> <<token>>]
               ELSE IF ends = {} THEN [reasoning |-> <<token>>, content |-> <<>>]
               ELSE [reasoning |-> SubSeq(text, n + 1, First(ends) - 1),
                     content |-> After(text, First(ends))]
  BY <1>3 DEF StreamDeltas, deltas, ends, n
<1>8. new = IF ~think THEN [reasoning |-> <<>>, content |-> text]
            ELSE IF ends = {} THEN [reasoning |-> text, content |-> <<>>]
            ELSE [reasoning |-> SubSeq(text, 1, First(ends) - 1), content |-> After(text, First(ends))]
  BY DEF Streamed, ends, new
<1>9. was = IF ~think THEN [reasoning |-> <<>>, content |-> gen]
            ELSE IF old = {} THEN [reasoning |-> gen, content |-> <<>>]
            ELSE [reasoning |-> SubSeq(gen, 1, First(old) - 1), content |-> After(gen, First(old))]
  BY DEF Streamed, old, was
<1>10. CASE ~think
  BY <1>3, <1>6, <1>7, <1>8, <1>9, <1>10
<1>11. CASE think /\ old = {} /\ token # "te"
  BY <1>2, <1>3, <1>4, <1>6, <1>7, <1>8, <1>9, <1>11
<1>12. CASE think /\ old = {} /\ token = "te"
  <2>1. First(ends) = n + 1 /\ ends # {} /\ First(ends) - 1 = n
    BY <1>1, <1>2, <1>12
  <2>2. deltas = [reasoning |-> <<>>, content |-> <<>>]
    BY <1>3, <1>4, <1>5, <1>7, <1>12, <2>1
  <2>3. new = [reasoning |-> gen, content |-> <<>>]
    BY <1>3, <1>5, <1>8, <1>12, <2>1
  <2>4. was = [reasoning |-> gen, content |-> <<>>]
    BY <1>9, <1>12
  <2> QED BY <1>6, <2>2, <2>3, <2>4
<1>13. CASE think /\ old # {}
  <2> DEFINE f == First(old)
             m == f - 1
  <2>1. f \in 1 .. n /\ ends # {} /\ First(ends) = f /\ f \in 0 .. n /\ m \in 0 .. n
    BY <1>1, <1>2, <1>13
  <2>2. new = [reasoning |-> SubSeq(text, 1, m), content |-> After(text, f)]
    BY <1>8, <1>13, <2>1
  <2>3. was = [reasoning |-> SubSeq(gen, 1, m), content |-> After(gen, f)]
    BY <1>9, <1>13
  <2>4. deltas = [reasoning |-> <<>>, content |-> <<token>>]
    BY <1>4, <1>7, <1>13
  <2> HIDE DEF f, m
  <2>5. After(text, f) = After(gen, f) \o <<token>>
    BY <2>1, LastUnit DEF text, n
  <2>6. SubSeq(text, 1, m) = SubSeq(gen, 1, m) /\ SequenceOfEntries(SubSeq(gen, 1, m))
    BY <2>1, LastUnit, EntriesCut DEF text, n
  <2>7. SubSeq(gen, 1, m) \o <<>> = SubSeq(gen, 1, m)
    BY <2>6, NothingJoined
  <2> QED BY <2>2, <2>3, <2>4, <2>5, <2>6, <2>7
<1> QED BY <1>10, <1>11, <1>12, <1>13

\* Without tool blocks a message is a text, split at the boundary.
LEMMA Toolless ==
  ASSUME NEW text, SequenceOfEntries(text), "tool" \notin Range(text)
  PROVE  LET ends == Places(text, "te")
             parsed == parse_completion(text) IN
         /\ parsed.reasoning = IF ends = {} THEN <<>> ELSE Strip(SubSeq(text, 1, First(ends) - 1))
         /\ parsed.content = Strip(IF ends = {} THEN text ELSE After(text, First(ends)))
         /\ ~parsed.tools
<1> DEFINE ends == Places(text, "te")
           body == IF ends = {} THEN text ELSE After(text, First(ends))
           calls == Places(body, "tool")
<1>1. ends # {} => First(ends) \in 0 .. Len(text)
  <2>1. SUFFICES ASSUME ends # {} PROVE First(ends) \in 0 .. Len(text)
    OBVIOUS
  <2>2. First(ends) \in ends /\ ends \subseteq 1 .. Len(text) /\ Len(text) \in Nat
    BY <2>1, FirstFinal
  <2> HIDE DEF ends
  <2>3. First(ends) \in 1 .. Len(text)
    BY <2>2
  <2> QED BY <2>2, <2>3
<1>2. calls = {}
  <2>1. CASE ends = {}
    BY <2>1, NoPlace
  <2>2. CASE ends # {}
    <3> DEFINE f == First(ends)
    <3>1. f \in 0 .. Len(text) /\ Len(text) \in Nat /\ DOMAIN text = 1 .. Len(text)
      BY <1>1, <2>2 DEF SequenceOfEntries
    <3> HIDE DEF f
    <3>2. /\ SequenceOfEntries(After(text, f)) /\ Len(After(text, f)) = Len(text) - f
          /\ \A i \in 1 .. Len(text) - f : After(text, f)[i] = text[f + i]
      BY <3>1, AfterIs
    <3>3. ASSUME NEW i \in DOMAIN After(text, f) PROVE After(text, f)[i] # "tool"
      <4>1. i \in 1 .. Len(text) - f
        BY <3>2 DEF SequenceOfEntries
      <4>2. f + i \in DOMAIN text
        BY <3>1, <4>1
      <4> QED BY <3>2, <4>1, <4>2 DEF Range
    <3>4. body = After(text, f)
      BY <2>2 DEF f
    <3> QED BY <3>3, <3>4 DEF Places
  <2> QED BY <2>1, <2>2
<1> QED BY <1>2 DEF parse_completion

LEMMA DecodedToolless ==
  ASSUME NEW ids, SequenceOfEntries(ids), "tool" \notin Range(ids)
  PROVE  "tool" \notin Range(decode(ids))
<1> DEFINE units == [i \in DOMAIN ids |-> Glyph(ids, i)]
           places == {i \in DOMAIN units : units[i] # ""}
           V == Range(units)
<1>1. \A i \in DOMAIN ids : Glyph(ids, i) # "tool"
  BY DEF Glyph, Range
<1>2. units \in Seq(V) /\ \A i \in DOMAIN units : units[i] # "tool"
  <2>1. DOMAIN ids = 1 .. Len(ids) /\ Len(ids) \in Nat
    BY DEF SequenceOfEntries
  <2>2. \A i \in DOMAIN units : units[i] \in V
    BY DEF Range
  <2>3. units = [i \in 1 .. Len(ids) |-> units[i]]
    BY <2>1
  <2>4. \A i \in DOMAIN units : units[i] # "tool"
    BY <1>1
  <2> HIDE DEF units, V
  <2> QED BY <2>1, <2>2, <2>3, <2>4
<1>3. places \subseteq DOMAIN units /\ decode(ids) = Pick(units, places)
  BY DEF decode
<1> HIDE DEF units, places, V
<1>4. \A k \in DOMAIN Pick(units, places) : \E i \in places : Pick(units, places)[k] = units[i]
  <2>1. units \in Seq(V)
    BY <1>2
  <2>2. places \subseteq DOMAIN units
    BY <1>3
  <2> QED BY <2>1, <2>2, PickSome
<1>5. \A k \in DOMAIN decode(ids) : decode(ids)[k] # "tool"
  BY <1>2, <1>3, <1>4
<1> QED BY <1>5 DEF Range

LEMMA PrefixOfAppend ==
  ASSUME NEW s, SequenceOfEntries(s), NEW e
  PROVE  IsPrefix(s, Append(s, e))
<1> DEFINE t == Append(s, e)
<1>1. /\ SequenceOfEntries(t) /\ Len(t) = Len(s) + 1 /\ Len(s) \in Nat
      /\ \A k \in 1 .. Len(s) : t[k] = s[k]
  BY EntriesAppend
<1> HIDE DEF t
<1>2. Len(s) <= Len(t)
  BY <1>1
<1>3. IsPrefix(s, t)
  BY <1>1, <1>2, PrefixIs
<1> QED BY <1>3 DEF t

LEMMA NothingStreamed ==
  ASSUME NEW think
  PROVE  Streamed(think, <<>>) = [reasoning |-> <<>>, content |-> <<>>]
<1>1. Places(<<>>, "te") = {}
  BY NothingPrinted, NoPlace
<1> QED BY <1>1 DEF Streamed

LEMMA NoExchangeYet ==
  ASSUME chShim = NoExchange
  PROVE  ShimInv /\ chShim.think \in BOOLEAN
<1>1. /\ DOMAIN chShim = ShimFields /\ chShim.pc = "idle" /\ chShim.stream = FALSE
      /\ chShim.think = TRUE
  BY DEF NoExchange, ShimFields
<1>2. SequenceOfEntries(<<>>) /\ Len(<<>>) = 0
  BY NothingSaid DEF SameExchanges
<1>3. chShim.max = 1 /\ chShim.says = <<>> /\ chShim.gen = <<>>
  BY DEF NoExchange
<1>4. Len(chShim.says) <= chShim.max /\ chShim.max \in Nat
  BY <1>2, <1>3
<1>5. Heard(<<>>, <<>>)
  <2>1. Printable(<<>>)
    BY NothingPrinted DEF Printable
  <2> QED BY <1>2, <2>1, NothingHeard
<1>6. Answering /\ StreamInv
  BY <1>1 DEF Answering, StreamInv
<1>7. Heard(chShim.gen, chShim.says) /\ chShim.think \in BOOLEAN
  BY <1>1, <1>5, <1>3
<1> QED BY <1>1, <1>6, <1>4, <1>7 DEF ShimInv

LEMMA PostStep ==
  ASSUME do_POST
  PROVE  ShimInv' /\ chShim'.think \in BOOLEAN
<1>1. PICK stream \in BOOLEAN, think \in BOOLEAN, tools \in BOOLEAN, max \in 1 .. MaxNewTokens :
        \E says \in EngineAnswers(max) :
            chShim' = [NoExchange EXCEPT
                !.pc = "engine", !.stream = stream /\ ~tools, !.think = think,
                !.thinking = think, !.max = max, !.says = says]
  BY DEF do_POST
<1>2. PICK says \in EngineAnswers(max) :
        chShim' = [NoExchange EXCEPT
            !.pc = "engine", !.stream = stream /\ ~tools, !.think = think,
            !.thinking = think, !.max = max, !.says = says]
  BY <1>1
<1>3. /\ DOMAIN chShim' = ShimFields /\ chShim'.pc = "engine"
      /\ chShim'.think = think /\ chShim'.thinking = think /\ chShim'.max = max /\ chShim'.says = says
      /\ chShim'.gen = <<>> /\ chShim'.printed = <<>> /\ chShim'.sent = NoMessage
  BY <1>2 DEF NoExchange, ShimFields
<1>4. /\ DOMAIN NoMessage = MessageFields
      /\ NoMessage.reasoning = <<>> /\ NoMessage.content = <<>>
  BY DEF NoMessage, MessageFields
<1>5. SequenceOfEntries(says) /\ Len(says) <= max /\ Printable(says)
      /\ \A i \in 1 .. Len(says) : says[i] = "eos" => i = Len(says)
  <2>1. says \in SeqOf(ShimTokens, max) /\ \A i \in DOMAIN says : says[i] = "eos" => i = Len(says)
    BY DEF EngineAnswers
  <2>2. PICK m \in 0 .. max : says \in [1 .. m -> ShimTokens]
    BY <2>1 DEF SeqOf
  <2>3. says \in Seq(ShimTokens) /\ Len(says) = m /\ DOMAIN says = 1 .. m
    <3>1. m \in Nat
      BY <2>2
    <3> QED BY <2>2, <3>1
  <2>4. SequenceOfEntries(says) /\ \A i \in 1 .. Len(says) : says[i] \in ShimTokens
    BY <2>3, AsEntries
  <2>5. Printable(says)
    <3>1. Range(says) \subseteq ShimTokens
      BY <2>3, <2>4 DEF Range
    <3>2. "" \notin ShimTokens
      BY ClientsAssumption DEF ClientsAssumption
    <3> QED BY <3>1, <3>2 DEF Printable
  <2> QED BY <2>1, <2>2, <2>3, <2>4, <2>5
<1>6. Heard(<<>>, says) /\ max \in Nat
  BY <1>5, NothingHeard
<1>7. StreamInv'
  BY <1>3, <1>4, NothingPrinted, NothingStreamed DEF StreamInv
<1> QED BY <1>3, <1>5, <1>6, <1>7 DEF ShimInv, Answering

LEMMA StreamTokenStep ==
  ASSUME ShimInv, chShim.think \in BOOLEAN, StreamToken
  PROVE  ShimInv'
<1>1. chShim.stream
  BY DEF StreamToken
<1>2. PICK token \in ShimTokens :
        /\ EngineSays(token)
        /\ IF token = "eos" \/ (token = "te" /\ ~chShim.think)
           THEN chShim' = [chShim EXCEPT !.pc = "closing", !.finish = "stop"]
           ELSE LET gen == Append(chShim.gen, token)
                    text == decode(gen)
                    printed == IF IsPrefix(chShim.printed, text) THEN chShim.printed ELSE <<>>
                IN  chShim' = [chShim EXCEPT !.gen = gen, !.printed = text,
                       !.sent = Joined(@, StreamDeltas(printed, text)),
                       !.thinking = @ /\ Places(text, "te") = {}]
  BY DEF StreamToken
<1>3. chShim.pc = "engine" /\ Len(chShim.gen) < Len(chShim.says) /\ token = chShim.says[Len(chShim.gen) + 1]
  BY <1>2 DEF EngineSays
<1>4. CASE token = "eos" \/ (token = "te" /\ ~chShim.think)
  <2>1. /\ DOMAIN chShim' = ShimFields /\ chShim'.pc = "closing" /\ chShim'.finish = "stop"
        /\ chShim'.stream = chShim.stream /\ chShim'.think = chShim.think /\ chShim'.max = chShim.max
        /\ chShim'.says = chShim.says /\ chShim'.gen = chShim.gen /\ chShim'.printed = chShim.printed
        /\ chShim'.thinking = chShim.thinking /\ chShim'.sent = chShim.sent
    BY <1>2, <1>4 DEF ShimInv, ShimFields
  <2>2. Answering'
    BY <1>1, <1>3, <1>4, <2>1 DEF Answering
  <2>3. StreamInv'
    BY <2>1 DEF ShimInv, StreamInv
  <2> QED BY <2>1, <2>2, <2>3 DEF ShimInv
<1>5. CASE ~(token = "eos" \/ (token = "te" /\ ~chShim.think))
  <2> DEFINE old == chShim.gen
             gen == Append(old, token)
             text == decode(gen)
             printed == IF IsPrefix(chShim.printed, text) THEN chShim.printed ELSE <<>>
             deltas == StreamDeltas(printed, text)
             sent == Joined(chShim.sent, deltas)
             thinking == chShim.thinking /\ Places(text, "te") = {}
  <2>1. chShim' = [chShim EXCEPT !.gen = gen, !.printed = text, !.sent = sent, !.thinking = thinking]
    BY <1>2, <1>5
  <2> HIDE DEF gen, text, printed, sent, thinking
  <2>2. /\ DOMAIN chShim' = ShimFields /\ chShim'.pc = chShim.pc /\ chShim'.finish = chShim.finish
        /\ chShim'.stream = chShim.stream /\ chShim'.think = chShim.think /\ chShim'.max = chShim.max
        /\ chShim'.says = chShim.says /\ chShim'.gen = gen /\ chShim'.printed = text
        /\ chShim'.thinking = thinking /\ chShim'.sent = sent
    BY <2>1 DEF ShimInv, ShimFields
  <2>3. Heard(gen, chShim.says) /\ SequenceOfEntries(old)
    <3>1. Heard(old, chShim.says) /\ token # "eos"
      BY <1>5 DEF ShimInv
    <3>2. Len(old) < Len(chShim.says) /\ token = chShim.says[Len(old) + 1]
      BY <1>3
    <3> HIDE DEF old
    <3>3. Heard(Append(old, token), chShim.says)
      BY <3>1, <3>2, MoreHeard
    <3> QED BY <3>1, <3>3 DEF Heard, gen
  <2>4. SequenceOfEntries(gen) /\ Range(gen) = Range(old) \cup {token}
    BY <2>3, EntriesAppend DEF gen
  <2>5. "" \notin Range(gen)
    <3>1. Range(gen) \subseteq Range(chShim.says)
      BY <2>3, HeardPart
    <3>2. Printable(chShim.says)
      BY <2>3 DEF Heard
    <3> QED BY <3>1, <3>2 DEF Printable
  <2>6. ~chShim.think => token # "te" /\ "te" \notin Range(old) /\ "te" \notin Range(gen)
    BY <1>1, <1>5, <2>4 DEF ShimInv, StreamInv
  <2>7. DOMAIN sent = MessageFields
        /\ sent.reasoning = chShim.sent.reasoning \o deltas.reasoning
        /\ sent.content = chShim.sent.content \o deltas.content
    <3>1. DOMAIN chShim.sent = MessageFields
      BY <1>1 DEF ShimInv, StreamInv
    <3> HIDE DEF deltas
    <3> QED BY <3>1 DEF sent, Joined, MessageFields
  <2>8. ASSUME Halves \cap Range(gen) = {}
        PROVE  /\ text = gen
               /\ thinking <=> chShim.think /\ "te" \notin Range(gen)
               /\ sent.reasoning = Streamed(chShim.think, gen).reasoning
               /\ sent.content = Streamed(chShim.think, gen).content
    <3>1. /\ chShim.printed = old
          /\ chShim.thinking <=> chShim.think /\ "te" \notin Range(old)
          /\ chShim.sent.reasoning = Streamed(chShim.think, old).reasoning
          /\ chShim.sent.content = Streamed(chShim.think, old).content
      <4>1. Halves \cap Range(old) = {}
        BY <2>4, <2>8
      <4> QED BY <1>1, <4>1 DEF ShimInv, StreamInv, old
    <3>2. text = gen
      BY <2>4, <2>5, <2>8, WordsDecode DEF text
    <3>3. printed = old
      BY <2>3, <3>1, <3>2, PrefixOfAppend DEF printed, gen
    <3>4. thinking <=> chShim.think /\ "te" \notin Range(gen)
      BY <2>4, <3>1, <3>2, NoPlace DEF thinking
    <3>5. /\ Streamed(chShim.think, gen).reasoning = Streamed(chShim.think, old).reasoning \o deltas.reasoning
          /\ Streamed(chShim.think, gen).content = Streamed(chShim.think, old).content \o deltas.content
      <4> DEFINE think == chShim.think
      <4>1. /\ SequenceOfEntries(old) /\ think \in BOOLEAN
            /\ ~think => token # "te" /\ "te" \notin Range(old)
            /\ chShim.thinking <=> think /\ "te" \notin Range(old)
        BY <2>3, <2>6, <3>1
      <4>2. deltas = StreamDeltas(old, Append(old, token))
        BY <3>2, <3>3 DEF gen
      <4> HIDE DEF think, old, deltas
      <4>3. LET new == Streamed(think, Append(old, token))
                d == StreamDeltas(old, Append(old, token)) IN
            /\ new.reasoning = Streamed(think, old).reasoning \o d.reasoning
            /\ new.content = Streamed(think, old).content \o d.content
        BY <4>1, OneMoreDelta
      <4> QED BY <4>2, <4>3 DEF think, gen
    <3> HIDE DEF deltas
    <3> QED BY <2>7, <3>1, <3>2, <3>4, <3>5
  <2>9. StreamInv'
    BY <1>1, <2>2, <2>6, <2>7, <2>8 DEF StreamInv
  <2>10. Answering'
    BY <1>3, <2>2 DEF Answering
  <2> QED BY <2>2, <2>3, <2>9, <2>10 DEF ShimInv
<1> QED BY <1>4, <1>5

LEMMA FullStep ==
  ASSUME ShimInv, chShim.think \in BOOLEAN, FullToken \/ FullEnd
  PROVE  ShimInv' /\ chShim'.think \in BOOLEAN
<1>0. ~chShim.stream
  BY DEF FullToken, FullEnd
<1>1. CASE FullToken
  <2>1. PICK token \in ShimTokens \ {"eos"} :
          EngineSays(token) /\ chShim' = [chShim EXCEPT !.gen = Append(@, token)]
    BY <1>1 DEF FullToken
  <2>2. /\ DOMAIN chShim' = ShimFields /\ chShim'.pc = chShim.pc /\ chShim'.max = chShim.max
        /\ chShim'.stream = chShim.stream /\ chShim'.think = chShim.think
        /\ chShim'.says = chShim.says /\ chShim'.gen = Append(chShim.gen, token)
    BY <2>1 DEF ShimInv, ShimFields
  <2>3. chShim.pc = "engine" /\ Len(chShim.gen) < Len(chShim.says) /\ token = chShim.says[Len(chShim.gen) + 1]
    BY <2>1 DEF EngineSays
  <2>4. Heard(Append(chShim.gen, token), chShim.says)
    BY <2>1, <2>3, MoreHeard DEF ShimInv
  <2> QED BY <1>0, <2>2, <2>3, <2>4 DEF ShimInv, Answering, StreamInv
<1>2. CASE FullEnd
  <2> DEFINE answer == FullAnswer(chShim.gen, chShim.max)
  <2>1. chShim' = [chShim EXCEPT !.pc = "done", !.sent = answer.message, !.finish = answer.finish]
    BY <1>2 DEF FullEnd
  <2> HIDE DEF answer
  <2>2. /\ DOMAIN chShim' = ShimFields /\ chShim'.pc = "done" /\ chShim'.max = chShim.max
        /\ chShim'.stream = chShim.stream /\ chShim'.think = chShim.think
        /\ chShim'.says = chShim.says /\ chShim'.gen = chShim.gen
        /\ chShim'.sent = answer.message /\ chShim'.finish = answer.finish
    BY <2>1 DEF ShimInv, ShimFields
  <2>3. chShim.gen = Generated(chShim.says)
    <3>1. \/ Len(chShim.gen) = Len(chShim.says)
          \/ Len(chShim.gen) < Len(chShim.says) /\ chShim.says[Len(chShim.gen) + 1] = "eos"
      BY <1>2 DEF FullEnd, EngineEnds, EngineSays
    <3> QED BY <3>1, AllHeard DEF ShimInv
  <2>4. Answering'
    BY <1>0, <2>2, <2>3 DEF Answering, answer
  <2> QED BY <1>0, <2>2, <2>4 DEF ShimInv, StreamInv
<1> QED BY <1>1, <1>2

LEMMA ShimStep ==
  ASSUME ShimInv, chShim.think \in BOOLEAN, [ClientsNext]_chVars
  PROVE  ShimInv' /\ chShim'.think \in BOOLEAN
<1>1. CASE do_POST
  BY <1>1, PostStep
<1>2. CASE FullToken \/ FullEnd
  BY <1>2, FullStep
<1>3. CASE StreamToken
  <2>1. chShim'.think = chShim.think
    BY <1>3 DEF StreamToken, ShimInv, ShimFields
  <2> QED BY <1>3, <2>1, StreamTokenStep
<1>4. CASE StreamEnd \/ StreamClose \/ StreamDropped
  <2>1. /\ DOMAIN chShim' = ShimFields
        /\ chShim'.stream = chShim.stream /\ chShim'.think = chShim.think /\ chShim'.max = chShim.max
        /\ chShim'.says = chShim.says /\ chShim'.gen = chShim.gen /\ chShim'.printed = chShim.printed
        /\ chShim'.thinking = chShim.thinking /\ chShim'.sent = chShim.sent
        /\ chShim'.pc \in {"closing", "done"} /\ (chShim'.pc = "closing" => chShim.stream)
        /\ \/ chShim'.finish = "length" /\ chShim.stream /\ Len(chShim.gen) = Len(chShim.says)
           \/ chShim.pc = "closing" /\ chShim'.finish = chShim.finish /\ chShim'.gone = chShim.gone
           \/ chShim'.gone
    <3>1. CASE StreamEnd
      BY <3>1 DEF StreamEnd, EngineEnds, ShimInv, ShimFields
    <3>2. CASE StreamClose
      BY <3>2 DEF StreamClose, ShimInv, ShimFields
    <3>3. CASE StreamDropped
      BY <3>3 DEF StreamDropped, ShimInv, ShimFields
    <3> QED BY <1>4, <3>1, <3>2, <3>3
  <2>3. StreamInv'
    BY <2>1 DEF ShimInv, StreamInv
  <2>4. Answering'
    BY <2>1 DEF ShimInv, Answering
  <2> QED BY <2>1, <2>3, <2>4 DEF ShimInv
<1>5. CASE NextRequest
  <2>1. /\ DOMAIN chShim' = ShimFields /\ chShim'.pc = "idle" /\ chShim'.stream = FALSE
        /\ chShim'.think = TRUE
    BY <1>5 DEF NextRequest, NoExchange, ShimFields
  <2>2. SequenceOfEntries(<<>>) /\ Len(<<>>) = 0
    BY NothingSaid DEF SameExchanges
  <2>3. chShim'.max = 1 /\ chShim'.says = <<>> /\ chShim'.gen = <<>>
    BY <1>5 DEF NextRequest, NoExchange
  <2>4. Heard(<<>>, <<>>)
    <3>1. Printable(<<>>)
      BY NothingPrinted DEF Printable
    <3> QED BY <2>2, <3>1, NothingHeard
  <2>5. Answering' /\ StreamInv'
    BY <2>1 DEF Answering, StreamInv
  <2>6. Len(chShim'.says) <= chShim'.max /\ chShim'.max \in Nat
    BY <2>2, <2>3
  <2>7. Heard(chShim'.gen, chShim'.says) /\ chShim'.think \in BOOLEAN
    BY <2>1, <2>4, <2>3
  <2> QED BY <2>1, <2>5, <2>6, <2>7 DEF ShimInv
<1>6. CASE UNCHANGED chShim
  BY <1>6 DEF ShimInv, Answering, StreamInv
<1> QED BY <1>1, <1>2, <1>3, <1>4, <1>5, <1>6
        DEF ClientsNext, Shim, Repl, interactive_loop, _full_response, _stream_response, chVars

LEMMA ShimAgrees ==
  ASSUME ShimInv, chShim.think \in BOOLEAN
  PROVE  StreamedIsFull
<1> DEFINE gen == chShim.gen
           says == chShim.says
           think == chShim.think
           max == chShim.max
           all == Generated(says)
           full == FullAnswer(all, max)
<1>1. SUFFICES ASSUME chShim.pc = "done", ~chShim.gone
      PROVE  /\ ~chShim.stream => chShim.sent = full.message /\ chShim.finish = full.finish
             /\ chShim.stream /\ "tool" \notin Range(says) =>
                   /\ FinishAgrees(full.finish)
                   /\ {"half1", "half2"} \cap Range(says) = {} => TextsAgree(full.message)
  BY DEF StreamedIsFull
<1>2. CASE ~chShim.stream
  BY <1>1, <1>2 DEF ShimInv, Answering
<1>3. CASE chShim.stream /\ "tool" \notin Range(says)
  <2>0. /\ Heard(gen, says) /\ Len(says) <= max /\ max \in Nat /\ think \in BOOLEAN
        /\ ~think => "te" \notin Range(gen)
        /\ DOMAIN gen = 1 .. Len(gen) /\ DOMAIN says = 1 .. Len(says)
        /\ Len(gen) \in Nat /\ Len(says) \in Nat
        /\ SequenceOfEntries(gen) /\ SequenceOfEntries(says)
    BY <1>3 DEF ShimInv, StreamInv, Heard, SequenceOfEntries
  <2>1. \/ /\ chShim.finish = "stop" /\ Len(gen) < Len(says)
           /\ says[Len(gen) + 1] = "eos" \/ (says[Len(gen) + 1] = "te" /\ ~think)
        \/ chShim.finish = "length" /\ Len(gen) = Len(says)
    BY <1>1, <1>3 DEF ShimInv, Answering
  <2>2. WholeAnswer(all, says)
    BY <2>0, GeneratedIs
  <2>3. Halves \cap Range(gen) = {} =>
          /\ chShim.sent.reasoning = Streamed(think, gen).reasoning
          /\ chShim.sent.content = Streamed(think, gen).content
    BY <1>3 DEF ShimInv, StreamInv
  <2> HIDE DEF gen, says, think, max, all
  <2>4. full.finish = IF Len(all) < max THEN "stop" ELSE "length"
    <3>1. SequenceOfEntries(all) /\ "tool" \notin Range(all)
      BY <1>3, <2>2 DEF WholeAnswer
    <3>2. SequenceOfEntries(decode(all)) /\ "tool" \notin Range(decode(all))
      BY <3>1, Decoded, DecodedToolless
    <3>3. ~parse_completion(decode(all)).tools
      BY <3>2, Toolless
    <3> QED BY <3>3 DEF FullAnswer
  <2>5. FinishAgrees(full.finish)
    <3> HIDE DEF full
    <3> DEFINE early == ~think /\ "te" \in Range(says)
               cut == Len(says) < max /\ "eos" \notin Range(says)
    <3>1. ASSUME early PROVE chShim.finish = "stop"
      <4>1. Len(gen) # Len(says)
        <5>1. SUFFICES ASSUME Len(gen) = Len(says) PROVE FALSE
          OBVIOUS
        <5>2. gen = says
          BY <2>0, <5>1, AllHeard DEF all
        <5> QED BY <2>0, <3>1, <5>2
      <4> QED BY <2>1, <4>1
    <3>2. ASSUME ~early
          PROVE  /\ cut => chShim.finish = "length" /\ full.finish = "stop"
                 /\ ~cut => chShim.finish = full.finish
      <4>1. CASE Len(gen) = Len(says)
        <5>1. gen = says /\ gen = all /\ "eos" \notin Range(says)
          BY <2>0, <4>1, AllHeard DEF all
        <5> QED BY <2>0, <2>1, <2>4, <4>1, <5>1
      <4>2. CASE Len(gen) # Len(says)
        <5>1. Len(gen) < Len(says) /\ chShim.finish = "stop"
          BY <2>1, <4>2
        <5>2. says[Len(gen) + 1] = "eos"
          <6>1. Len(gen) + 1 \in DOMAIN says
            BY <2>0, <5>1
          <6> QED BY <2>1, <3>2, <4>2, <6>1 DEF Range
        <5>3. gen = all /\ Len(says) = Len(gen) + 1 /\ "eos" \in Range(says)
          BY <2>0, <5>1, <5>2, AllHeard DEF all
        <5> QED BY <2>0, <2>4, <5>1, <5>3
      <4> QED BY <4>1, <4>2
    <3> QED BY <3>1, <3>2 DEF FinishAgrees, think, says, max
  <2>6. ASSUME {"half1", "half2"} \cap Range(says) = {} PROVE TextsAgree(full.message)
    <3> DEFINE ends == Places(all, "te")
               ended == "te" \in Range(says)
               sent == [reasoning |-> Strip(chShim.sent.reasoning), content |-> Strip(chShim.sent.content)]
    <3>1. SequenceOfEntries(all) /\ "tool" \notin Range(all) /\ Halves \cap Range(all) = {}
      BY <1>3, <2>2, <2>6 DEF WholeAnswer, Halves
    <3>2. /\ full.message.reasoning = IF ends = {} THEN <<>> ELSE Strip(SubSeq(all, 1, First(ends) - 1))
          /\ full.message.content = Strip(IF ends = {} THEN all ELSE After(all, First(ends)))
      <4>1. decode(all) = all
        <5>1. "" \notin Range(all)
          BY <2>0, <2>2 DEF WholeAnswer, Heard, Printable
        <5> QED BY <3>1, <5>1, WordsDecode
      <4>2. LET parsed == parse_completion(all) IN
            /\ parsed.reasoning = IF ends = {} THEN <<>> ELSE Strip(SubSeq(all, 1, First(ends) - 1))
            /\ parsed.content = Strip(IF ends = {} THEN all ELSE After(all, First(ends)))
            /\ ~parsed.tools
        BY <3>1, Toolless
      <4> HIDE DEF ends
      <4>3. full.message = parse_completion(all)
        BY <4>1, <4>2 DEF FullAnswer
      <4> QED BY <4>2, <4>3
    <3>3. ended <=> ends # {}
      BY <2>2, NoPlace DEF WholeAnswer
    <3>4. Strip(<<>>) = <<>>
      <4>1. SequenceOfEntries(<<>>) /\ Len(<<>>) = 0
        BY NothingSaid DEF SameExchanges
      <4> QED BY <4>1, StripWhole
    <3>5. /\ chShim.sent.reasoning = Streamed(think, gen).reasoning
          /\ chShim.sent.content = Streamed(think, gen).content
      <4>1. Range(gen) \subseteq Range(says)
        BY <2>0, HeardPart
      <4> QED BY <2>3, <2>6, <4>1 DEF Halves
    <3> HIDE DEF full
    <3>6. CASE think
      <4>1. gen = all
        <5>1. \/ Len(gen) = Len(says)
              \/ Len(gen) < Len(says) /\ says[Len(gen) + 1] = "eos"
          BY <2>1, <3>6
        <5> QED BY <2>0, <5>1, AllHeard DEF all
      <4>2. CASE ended
        <5>1. Streamed(think, gen) = [reasoning |-> SubSeq(all, 1, First(ends) - 1), content |-> After(all, First(ends))]
          BY <3>3, <3>6, <4>1, <4>2 DEF Streamed
        <5>2. sent.reasoning = full.message.reasoning /\ sent.content = full.message.content
          <6> HIDE DEF ends
          <6> QED BY <3>2, <3>3, <3>5, <4>2, <5>1
        <5> QED BY <3>6, <4>2, <5>2 DEF TextsAgree, think, says
      <4>3. CASE ~ended
        <5>1. Streamed(think, gen) = [reasoning |-> all, content |-> <<>>]
          BY <3>3, <3>6, <4>1, <4>3 DEF Streamed
        <5>2. sent.reasoning = full.message.content /\ sent.content = full.message.reasoning
          <6> HIDE DEF ends
          <6> QED BY <3>2, <3>3, <3>4, <3>5, <4>3, <5>1
        <5> QED BY <3>6, <4>3, <5>2 DEF TextsAgree, think, says
      <4> QED BY <4>2, <4>3
    <3>7. CASE ~think
      <4>1. Streamed(think, gen) = [reasoning |-> <<>>, content |-> gen]
        BY <3>7 DEF Streamed
      <4>2. chShim.sent.reasoning = <<>> /\ sent.content = Strip(gen)
        BY <3>5, <4>1
      <4>3. Strip(gen) = IF ended THEN full.message.reasoning ELSE full.message.content
        <5>1. CASE ~ended
          <6>1. gen = all
            <7>1. \/ Len(gen) = Len(says)
                  \/ Len(gen) < Len(says) /\ says[Len(gen) + 1] = "eos"
              <8>1. Len(gen) < Len(says) => Len(gen) + 1 \in DOMAIN says
                BY <2>0
              <8> QED BY <2>1, <5>1, <8>1 DEF Range
            <7> QED BY <2>0, <7>1, AllHeard DEF all
          <6> QED BY <3>2, <3>3, <5>1, <6>1
        <5>2. CASE ended
          <6>1. Len(gen) < Len(says) /\ says[Len(gen) + 1] = "te"
            <7>1. PICK k \in 1 .. Len(says) : says[k] = "te"
              BY <2>0, <5>2 DEF Range
            <7>2. k \notin 1 .. Len(gen)
              BY <2>0, <3>7, <7>1 DEF Heard, Range
            <7>3. Len(gen) < Len(says)
              BY <2>0, <7>1, <7>2
            <7>4. says[Len(gen) + 1] # "eos"
              <8>1. SUFFICES ASSUME says[Len(gen) + 1] = "eos" PROVE FALSE
                OBVIOUS
              <8>2. Len(says) = Len(gen) + 1
                BY <2>0, <7>3, <8>1, AllHeard DEF all
              <8>3. k = Len(gen) + 1
                BY <2>0, <7>1, <7>2, <8>2
              <8> QED BY <7>1, <8>1, <8>3
            <7> QED BY <2>1, <7>3, <7>4
          <6> DEFINE f == Len(gen) + 1
          <6>2. f \in 1 .. Len(all) /\ all[f] = "te" /\ \A i \in 1 .. Len(gen) : all[i] = gen[i] /\ all[i] # "te"
            <7>1. f \in 1 .. Len(says)
              BY <2>0, <6>1
            <7>2. f <= Len(all) /\ Len(all) \in Nat
              BY <2>0, <2>2, <6>1, <7>1 DEF WholeAnswer
            <7>3. ASSUME NEW i \in 1 .. Len(gen) PROVE all[i] = gen[i] /\ all[i] # "te"
              <8>0. i \in DOMAIN gen /\ i \in 1 .. Len(all)
                BY <2>0, <7>2 DEF f
              <8>1. gen[i] = says[i] /\ gen[i] # "te"
                BY <2>0, <3>7, <8>0 DEF Heard, Range
              <8> QED BY <2>2, <8>0, <8>1 DEF WholeAnswer
            <7> QED BY <2>0, <2>2, <6>1, <7>2, <7>3 DEF WholeAnswer
          <6> HIDE DEF f
          <6>3. First(ends) = f /\ ends # {}
            <7>1. DOMAIN all = 1 .. Len(all) /\ Len(all) \in Nat
              BY <3>1 DEF SequenceOfEntries
            <7>2. f \in ends /\ \A j \in ends : j \in 1 .. Len(all) /\ all[j] = "te"
              BY <6>2, <7>1 DEF Places
            <7> HIDE DEF ends
            <7>3. First(ends) \in ends /\ \A j \in ends : First(ends) <= j
              BY <7>1, <7>2, Ends
            <7>4. First(ends) \notin 1 .. Len(gen)
              BY <6>2, <7>2, <7>3
            <7> QED BY <2>0, <7>1, <7>2, <7>3, <7>4 DEF f
          <6>4. SubSeq(all, 1, f - 1) = gen
            <7> DEFINE start == SubSeq(all, 1, Len(gen))
            <7>1. Len(gen) \in 0 .. Len(all) /\ f - 1 = Len(gen)
              BY <2>0, <6>2 DEF f
            <7>2. SequenceOfEntries(start) /\ Len(start) = Len(gen) /\ \A i \in 1 .. Len(gen) : start[i] = all[i]
              BY <3>1, <7>1, EntriesCut
            <7> HIDE DEF start
            <7>3. start = gen
              BY <2>0, <6>2, <7>2, SameEntries
            <7> QED BY <7>1, <7>3 DEF start
          <6> QED BY <3>2, <3>3, <5>2, <6>3, <6>4
        <5> QED BY <5>1, <5>2
      <4> QED BY <3>7, <4>2, <4>3 DEF TextsAgree, think, says
    <3> QED BY <2>0, <3>6, <3>7
  <2> QED BY <1>3, <2>5, <2>6 DEF says, max, all
<1> QED BY <1>2, <1>3

\* What the three clients keep of an answer.
ClientsInv == ShimInv /\ chShim.think \in BOOLEAN /\ ReplInv /\ ChatInv

LEMMA ClientsStart ==
  ASSUME ClientsInit
  PROVE  ClientsInv
<1>1. ShimInv /\ chShim.think \in BOOLEAN
  <2>1. chShim = NoExchange
    BY DEF ClientsInit
  <2> QED BY <2>1, NoExchangeYet
<1>2. ReplInv
  BY NothingSaid DEF ClientsInit, ReplInv
<1>3. ChatInv
  <2>1. PICK n \in HistoryMessages :
          chChat = [pc |-> "ask", limit |-> n, history |-> <<>>, log |-> <<>>, question |-> "none",
                    tokens |-> <<>>, text |-> <<>>, mixed |-> FALSE]
    BY DEF ClientsInit
  <2>2. /\ DOMAIN chChat = ChatFields /\ chChat.pc = "ask" /\ chChat.limit = n
        /\ chChat.history = <<>> /\ chChat.log = <<>> /\ chChat.tokens = <<>> /\ chChat.text = <<>>
    BY <2>1 DEF ChatFields
  <2>3. n \in Nat
    BY ClientsAssumption DEF ClientsAssumption
  <2> QED BY <2>2, <2>3, NothingPrinted, NothingRemembered DEF ChatInv, ChatShape, TextInv
<1> QED BY <1>1, <1>2, <1>3 DEF ClientsInv

\* What a client shows agrees with what the engine said, for any answers, any stop sequence
\* and any number of turns. Of the shim: a streamed answer and the answer at once to the
\* same request have the same texts up to the blanks at their ends and the same reason to
\* finish, but for the differences StreamedIsFull spells out (thoughts without an end, a
\* </think> nobody asked for, an answer that is cut off, tool blocks, split characters). Of
\* the REPL: its history and its transcript are the same exchanges. Of the loop: it prints
\* every character of an answer before the stop sequence (the beginning of that sequence
\* may follow) and remembers the last messages of what it printed.
THEOREM AnswersAlwaysAgree == ClientsSpec => []AnswersAgree
<1>1. ClientsInit => ClientsInv
  BY ClientsStart
<1>2. ClientsInv /\ [ClientsNext]_chVars => ClientsInv'
  BY ShimStep, ReplStep, ChatStep DEF ClientsInv
<1>3. ClientsInv => AnswersAgree
  BY ShimAgrees, ReplAgrees, ChatAgrees DEF ClientsInv, AnswersAgree
<1> QED BY <1>1, <1>2, <1>3, PTL DEF ClientsSpec

---------------------------------------------------------------------------
(* Lists of lists, joined *)

\* f joins the first n lists of ss, one after another.
Flattens(f, ss, n) == f[1] = ss[1] /\ \A i \in 2 .. n : f[i] = f[i - 1] \o ss[i]

LEMMA FlatExists ==
  ASSUME NEW V, NEW ss \in Seq(Seq(V)), NEW n \in Nat, 1 <= n, n <= Len(ss)
  PROVE  \E f \in [1 .. n -> Seq(V)] : Flattens(f, ss, n)
<1> DEFINE S == {m \in Nat : m + 1 <= Len(ss) =>
                    \E f \in [1 .. m + 1 -> Seq(V)] : Flattens(f, ss, m + 1)}
<1>0. \A i \in 1 .. Len(ss) : ss[i] \in Seq(V)
  OBVIOUS
<1>1. 0 \in S
  <2> SUFFICES ASSUME 1 <= Len(ss) PROVE \E f \in [1 .. 1 -> Seq(V)] : Flattens(f, ss, 1)
    OBVIOUS
  <2> DEFINE g == [i \in 1 .. 1 |-> ss[1]]
  <2>1. ss[1] \in Seq(V)
    BY <1>0
  <2>2. g \in [1 .. 1 -> Seq(V)] /\ Flattens(g, ss, 1)
    BY <2>1 DEF Flattens
  <2> QED BY <2>2
<1>2. ASSUME NEW m \in Nat, m \in S PROVE m + 1 \in S
  <2> SUFFICES ASSUME m + 2 <= Len(ss)
               PROVE  \E f \in [1 .. m + 2 -> Seq(V)] : Flattens(f, ss, m + 2)
    OBVIOUS
  <2>1. PICK f \in [1 .. m + 1 -> Seq(V)] : Flattens(f, ss, m + 1)
    BY <1>2
  <2> DEFINE last == f[m + 1] \o ss[m + 2]
             g == [i \in 1 .. m + 2 |-> IF i = m + 2 THEN last ELSE f[i]]
  <2>2. last \in Seq(V)
    <3>1. ss[m + 2] \in Seq(V) /\ f[m + 1] \in Seq(V)
      BY <1>0
    <3> QED BY <3>1
  <2> HIDE DEF last
  <2>3. g \in [1 .. m + 2 -> Seq(V)]
    BY <2>2
  <2>4. Flattens(g, ss, m + 2)
    <3>1. g[1] = ss[1]
      BY <2>1 DEF Flattens
    <3>2. ASSUME NEW i \in 2 .. m + 2 PROVE g[i] = g[i - 1] \o ss[i]
      <4>1. CASE i = m + 2
        <5>1. g[i] = last /\ g[i - 1] = f[m + 1]
          BY <4>1
        <5> QED BY <4>1, <5>1 DEF last
      <4>2. CASE i # m + 2
        <5>1. i \in 2 .. m + 1
          BY <4>2
        <5>2. g[i] = f[i] /\ g[i - 1] = f[i - 1]
          BY <5>1
        <5>3. f[i] = f[i - 1] \o ss[i]
          BY <2>1, <5>1 DEF Flattens
        <5> QED BY <5>2, <5>3
      <4> QED BY <4>1, <4>2
    <3> HIDE DEF g
    <3> QED BY <3>1, <3>2 DEF Flattens
  <2> QED BY <2>3, <2>4
<1>3. Nat \subseteq S
  <2> HIDE DEF S
  <2> QED BY <1>1, <1>2, SetInduction
<1>4. n - 1 \in Nat /\ (n - 1) + 1 = n /\ (n - 1) + 1 <= Len(ss)
  OBVIOUS
<1>5. \E f \in [1 .. (n - 1) + 1 -> Seq(V)] : Flattens(f, ss, (n - 1) + 1)
  BY <1>3, <1>4
<1> QED BY <1>4, <1>5

LEMMA FlatAlike ==
  ASSUME NEW ss, NEW n \in Nat, 1 <= n, NEW f, NEW g, Flattens(f, ss, n), Flattens(g, ss, n)
  PROVE  \A m \in 1 .. n : f[m] = g[m]
<1> DEFINE S == {m \in Nat : m + 1 <= n => f[m + 1] = g[m + 1]}
<1>1. 0 \in S
  BY DEF Flattens
<1>2. ASSUME NEW m \in Nat, m \in S PROVE m + 1 \in S
  <2> SUFFICES ASSUME m + 2 <= n PROVE f[m + 2] = g[m + 2]
    OBVIOUS
  <2>1. m + 2 \in 2 .. n /\ (m + 2) - 1 = m + 1
    OBVIOUS
  <2>2. f[m + 2] = f[m + 1] \o ss[m + 2] /\ g[m + 2] = g[m + 1] \o ss[m + 2]
    BY <2>1 DEF Flattens
  <2>3. f[m + 1] = g[m + 1]
    BY <1>2
  <2> QED BY <2>2, <2>3
<1>3. Nat \subseteq S
  <2> HIDE DEF S
  <2> QED BY <1>1, <1>2, SetInduction
<1>4. ASSUME NEW m \in 1 .. n PROVE f[m] = g[m]
  <2>1. m - 1 \in S /\ (m - 1) + 1 = m
    BY <1>3
  <2> QED BY <2>1
<1> QED BY <1>4

LEMMA FlattenIs ==
  ASSUME NEW V, NEW ss \in Seq(Seq(V)), Len(ss) >= 1, NEW f, Flattens(f, ss, Len(ss))
  PROVE  FlattenSeq(ss) = f[Len(ss)]
<1> DEFINE n == Len(ss)
           Joins(g) == g = [i \in 1 .. n |-> IF i = 1 THEN ss[i] ELSE g[i - 1] \o ss[i]]
           h == CHOOSE g : Joins(g)
<1>0. n \in Nat /\ n >= 1
  OBVIOUS
<1>1. PICK e \in [1 .. n -> Seq(V)] : Flattens(e, ss, n)
  <2>1. Len(ss) \in Nat /\ 1 <= Len(ss) /\ Len(ss) <= Len(ss)
    OBVIOUS
  <2> QED BY <2>1, FlatExists
<1>2. Joins(e)
  <2>1. ASSUME NEW i \in 1 .. n PROVE e[i] = IF i = 1 THEN ss[i] ELSE e[i - 1] \o ss[i]
    <3>1. CASE i = 1
      BY <1>1, <3>1 DEF Flattens
    <3>2. CASE i # 1
      <4>1. i \in 2 .. n
        BY <1>0, <3>2
      <4> QED BY <1>1, <3>2, <4>1 DEF Flattens
    <3> QED BY <3>1, <3>2
  <2>2. e = [i \in 1 .. n |-> e[i]]
    OBVIOUS
  <2> QED BY <2>1, <2>2
<1>3. Joins(h)
  BY <1>2
<1>4. FlattenSeq(ss) = h[n]
  BY <1>0 DEF FlattenSeq
<1> HIDE DEF h
<1>5. Flattens(h, ss, n)
  <2>1. h[1] = ss[1]
    BY <1>0, <1>3
  <2>2. ASSUME NEW i \in 2 .. n PROVE h[i] = h[i - 1] \o ss[i]
    <3>1. i \in 1 .. n /\ i # 1
      BY <1>0
    <3>2. h[i] = IF i = 1 THEN ss[i] ELSE h[i - 1] \o ss[i]
      BY <1>3, <3>1
    <3> QED BY <3>1, <3>2
  <2> QED BY <2>1, <2>2 DEF Flattens
<1>6. \A m \in 1 .. n : h[m] = f[m]
  <2> HIDE DEF n
  <2> QED BY <1>0, <1>5, FlatAlike DEF n
<1> QED BY <1>0, <1>4, <1>6

\* The first m lists joined, and where they end.
UpTo(ss, m) == FlattenSeq(SubSeq(ss, 1, m))
EndOf(ss, m) == Len(UpTo(ss, m))

LEMMA FlattenStep ==
  ASSUME NEW V, NEW ss \in Seq(Seq(V))
  PROVE  /\ UpTo(ss, 0) = <<>>
         /\ \A m \in 1 .. Len(ss) : UpTo(ss, m) = UpTo(ss, m - 1) \o ss[m] /\ UpTo(ss, m) \in Seq(V)
         /\ UpTo(ss, Len(ss)) = FlattenSeq(ss)
<1>1. UpTo(ss, 0) = <<>>
  <2>1. SubSeq(ss, 1, 0) = <<>>
    OBVIOUS
  <2>2. Len(<<>>) = 0
    OBVIOUS
  <2> QED BY <2>1, <2>2 DEF UpTo, FlattenSeq
<1>2. UpTo(ss, Len(ss)) = FlattenSeq(ss)
  <2>1. SubSeq(ss, 1, Len(ss)) = ss
    OBVIOUS
  <2> QED BY <2>1 DEF UpTo
<1>3. ASSUME NEW m \in 1 .. Len(ss)
      PROVE  UpTo(ss, m) = UpTo(ss, m - 1) \o ss[m] /\ UpTo(ss, m) \in Seq(V)
  <2> DEFINE s == SubSeq(ss, 1, m)
             t == SubSeq(ss, 1, m - 1)
  <2>1. /\ s \in Seq(Seq(V)) /\ Len(s) = m /\ m \in Nat /\ 1 <= m
        /\ \A i \in 1 .. m : s[i] = ss[i]
    OBVIOUS
  <2>2. /\ t \in Seq(Seq(V)) /\ Len(t) = m - 1
        /\ \A i \in 1 .. m - 1 : t[i] = ss[i]
    OBVIOUS
  <2> HIDE DEF s, t
  <2>3. PICK f \in [1 .. m -> Seq(V)] : Flattens(f, s, m)
    <3>1. s \in Seq(Seq(V)) /\ m \in Nat /\ 1 <= m /\ m <= Len(s)
      BY <2>1
    <3> QED BY <3>1, FlatExists
  <2>4. FlattenSeq(s) = f[m] /\ f[m] \in Seq(V)
    <3>1. s \in Seq(Seq(V)) /\ Len(s) >= 1 /\ Flattens(f, s, Len(s))
      BY <2>1, <2>3
    <3>2. FlattenSeq(s) = f[Len(s)]
      BY <3>1, FlattenIs
    <3>3. f[m] \in Seq(V)
      BY <2>1
    <3> QED BY <2>1, <3>2, <3>3
  <2>5. CASE m = 1
    <3>1. f[m] = ss[m] /\ ss[m] \in Seq(V)
      BY <2>1, <2>3, <2>5 DEF Flattens
    <3>2. <<>> \o ss[m] = ss[m]
      BY <3>1
    <3>3. UpTo(ss, m - 1) = <<>>
      BY <1>1, <2>5
    <3> QED BY <2>4, <3>1, <3>2, <3>3 DEF UpTo, s
  <2>6. CASE m # 1
    <3>1. m \in 2 .. m /\ m - 1 \in Nat /\ 1 <= m - 1
      BY <2>1, <2>6
    <3>2. f[m] = f[m - 1] \o ss[m]
      <4>1. f[m] = f[m - 1] \o s[m]
        BY <2>3, <3>1 DEF Flattens
      <4>2. s[m] = ss[m]
        BY <2>1
      <4> QED BY <4>1, <4>2
    <3>3. Flattens(f, t, m - 1)
      <4>1. f[1] = t[1]
        <5>1. 1 \in 1 .. m /\ 1 \in 1 .. m - 1
          BY <2>1, <3>1
        <5>2. s[1] = ss[1] /\ t[1] = ss[1]
          BY <2>1, <2>2, <5>1
        <5>3. f[1] = s[1]
          BY <2>3 DEF Flattens
        <5> QED BY <5>2, <5>3
      <4>2. ASSUME NEW i \in 2 .. m - 1 PROVE f[i] = f[i - 1] \o t[i]
        <5>1. i \in 2 .. m /\ i \in 1 .. m /\ i \in 1 .. m - 1
          BY <2>1
        <5> QED BY <2>1, <2>2, <2>3, <5>1 DEF Flattens
      <4> QED BY <4>1, <4>2 DEF Flattens
    <3>4. FlattenSeq(t) = f[m - 1]
      BY <2>2, <3>1, <3>3, FlattenIs
    <3> QED BY <2>4, <3>2, <3>4 DEF UpTo, s, t
  <2> QED BY <2>5, <2>6
<1> QED BY <1>1, <1>2, <1>3

LEMMA EndsAt ==
  ASSUME NEW V, NEW ss \in Seq(Seq(V))
  PROVE  /\ EndOf(ss, 0) = 0
         /\ \A m \in 0 .. Len(ss) : UpTo(ss, m) \in Seq(V) /\ EndOf(ss, m) \in Nat
         /\ \A m \in 1 .. Len(ss) : /\ EndOf(ss, m) = EndOf(ss, m - 1) + Len(ss[m])
                                    /\ Len(ss[m]) \in Nat
                                    /\ \A k \in 1 .. EndOf(ss, m - 1) : UpTo(ss, m)[k] = UpTo(ss, m - 1)[k]
                                    /\ \A k \in 1 .. Len(ss[m]) : UpTo(ss, m)[EndOf(ss, m - 1) + k] = ss[m][k]
<1>1. /\ UpTo(ss, 0) = <<>>
      /\ \A m \in 1 .. Len(ss) : UpTo(ss, m) = UpTo(ss, m - 1) \o ss[m] /\ UpTo(ss, m) \in Seq(V)
  BY FlattenStep
<1>2. EndOf(ss, 0) = 0
  BY <1>1 DEF EndOf
<1>3. ASSUME NEW m \in 0 .. Len(ss) PROVE UpTo(ss, m) \in Seq(V) /\ EndOf(ss, m) \in Nat
  <2>1. UpTo(ss, m) \in Seq(V)
    <3>1. CASE m = 0
      <4>1. <<>> \in Seq(V)
        OBVIOUS
      <4>2. UpTo(ss, m) = UpTo(ss, 0)
        BY <3>1
      <4> QED BY <1>1, <4>1, <4>2
    <3>2. CASE m # 0
      <4>1. Len(ss) \in Nat
        OBVIOUS
      <4>2. m \in 1 .. Len(ss)
        BY <3>2, <4>1
      <4> QED BY <1>1, <4>2
    <3> QED BY <3>1, <3>2
  <2> QED BY <2>1 DEF EndOf
<1>4. ASSUME NEW m \in 1 .. Len(ss)
      PROVE  /\ EndOf(ss, m) = EndOf(ss, m - 1) + Len(ss[m]) /\ Len(ss[m]) \in Nat
             /\ \A k \in 1 .. EndOf(ss, m - 1) : UpTo(ss, m)[k] = UpTo(ss, m - 1)[k]
             /\ \A k \in 1 .. Len(ss[m]) : UpTo(ss, m)[EndOf(ss, m - 1) + k] = ss[m][k]
  <2> DEFINE a == UpTo(ss, m - 1)
             b == ss[m]
  <2>1. m - 1 \in 0 .. Len(ss) /\ b \in Seq(V)
    OBVIOUS
  <2>2. a \in Seq(V)
    BY <1>3, <2>1
  <2>3. UpTo(ss, m) = a \o b
    BY <1>1
  <2> HIDE DEF a, b
  <2>4. /\ Len(a \o b) = Len(a) + Len(b) /\ Len(a) \in Nat /\ Len(b) \in Nat
        /\ \A k \in 1 .. Len(a) : (a \o b)[k] = a[k]
        /\ \A k \in 1 .. Len(b) : (a \o b)[Len(a) + k] = b[k]
    BY <2>1, <2>2
  <2> QED BY <2>3, <2>4 DEF EndOf, a, b
<1> QED BY <1>2, <1>3, <1>4

\* The lists keep their order, and every element is of one of them.
LEMMA Cells ==
  ASSUME NEW V, NEW ss \in Seq(Seq(V))
  PROVE  \A m \in 0 .. Len(ss) :
           /\ \A i \in 0 .. m : /\ EndOf(ss, i) <= EndOf(ss, m)
                                /\ \A k \in 1 .. EndOf(ss, i) : UpTo(ss, m)[k] = UpTo(ss, i)[k]
           /\ \A j \in 1 .. EndOf(ss, m) : \E i \in 1 .. m : EndOf(ss, i - 1) < j /\ j <= EndOf(ss, i)
<1> DEFINE n == Len(ss)
           Stays(m) == \A i \in 0 .. m : /\ EndOf(ss, i) <= EndOf(ss, m)
                                        /\ \A k \in 1 .. EndOf(ss, i) : UpTo(ss, m)[k] = UpTo(ss, i)[k]
           Covered(m) == \A j \in 1 .. EndOf(ss, m) : \E i \in 1 .. m : EndOf(ss, i - 1) < j /\ j <= EndOf(ss, i)
           S == {m \in Nat : m <= n => Stays(m) /\ Covered(m)}
<1>0. n \in Nat
  OBVIOUS
<1>a. /\ EndOf(ss, 0) = 0
      /\ \A m \in 0 .. n : EndOf(ss, m) \in Nat
      /\ \A m \in 1 .. n : /\ EndOf(ss, m) = EndOf(ss, m - 1) + Len(ss[m]) /\ Len(ss[m]) \in Nat
                           /\ \A k \in 1 .. EndOf(ss, m - 1) : UpTo(ss, m)[k] = UpTo(ss, m - 1)[k]
  BY EndsAt
<1> HIDE DEF n
<1>1. 0 \in S
  <2>1. Stays(0)
    BY <1>0, <1>a
  <2>2. Covered(0)
    BY <1>a
  <2> QED BY <2>1, <2>2
<1>2. ASSUME NEW m \in Nat, m \in S PROVE m + 1 \in S
  <2> SUFFICES ASSUME m + 1 <= n PROVE Stays(m + 1) /\ Covered(m + 1)
    OBVIOUS
  <2>0. m + 1 \in 1 .. n /\ (m + 1) - 1 = m /\ m \in 0 .. n /\ m + 1 \in 0 .. n
    BY <1>0
  <2>1. Stays(m) /\ Covered(m)
    BY <1>2, <2>0
  <2>2. /\ EndOf(ss, m + 1) = EndOf(ss, m) + Len(ss[m + 1]) /\ Len(ss[m + 1]) \in Nat
        /\ EndOf(ss, m) \in Nat
        /\ \A k \in 1 .. EndOf(ss, m) : UpTo(ss, m + 1)[k] = UpTo(ss, m)[k]
    BY <1>a, <2>0
  <2>3. EndOf(ss, m) <= EndOf(ss, m + 1) /\ EndOf(ss, m + 1) \in Nat
    BY <2>2
  <2>4. ASSUME NEW i \in 0 .. m + 1
        PROVE  /\ EndOf(ss, i) <= EndOf(ss, m + 1)
               /\ \A k \in 1 .. EndOf(ss, i) : UpTo(ss, m + 1)[k] = UpTo(ss, i)[k]
    <3>1. CASE i = m + 1
      BY <2>3, <3>1
    <3>2. CASE i # m + 1
      <4>0. i \in 0 .. m
        BY <3>2
      <4>1. i \in 0 .. m /\ i \in 0 .. n
        BY <1>0, <4>0
      <4>2. EndOf(ss, i) <= EndOf(ss, m) /\ EndOf(ss, i) \in Nat
            /\ \A k \in 1 .. EndOf(ss, i) : UpTo(ss, m)[k] = UpTo(ss, i)[k]
        BY <1>a, <2>1, <4>1
      <4>3. EndOf(ss, i) <= EndOf(ss, m + 1)
        BY <2>2, <2>3, <4>2
      <4>4. ASSUME NEW k \in 1 .. EndOf(ss, i) PROVE UpTo(ss, m + 1)[k] = UpTo(ss, i)[k]
        <5>1. k \in 1 .. EndOf(ss, m)
          BY <2>2, <4>2
        <5> QED BY <2>2, <4>2, <5>1
      <4> QED BY <4>3, <4>4
    <3> QED BY <3>1, <3>2
  <2>5. ASSUME NEW j \in 1 .. EndOf(ss, m + 1)
        PROVE  \E i \in 1 .. m + 1 : EndOf(ss, i - 1) < j /\ j <= EndOf(ss, i)
    <3>1. CASE j <= EndOf(ss, m)
      <4>1. j \in 1 .. EndOf(ss, m)
        BY <2>2, <3>1
      <4>2. PICK i \in 1 .. m : EndOf(ss, i - 1) < j /\ j <= EndOf(ss, i)
        BY <2>1, <4>1
      <4>3. i \in 1 .. m + 1
        OBVIOUS
      <4> QED BY <4>2, <4>3
    <3>2. CASE ~(j <= EndOf(ss, m))
      <4>1. EndOf(ss, (m + 1) - 1) < j /\ j <= EndOf(ss, m + 1) /\ m + 1 \in 1 .. m + 1
        BY <2>0, <2>2, <3>2
      <4> QED BY <4>1
    <3> QED BY <3>1, <3>2
  <2> QED BY <2>4, <2>5
<1>3. Nat \subseteq S
  <2> HIDE DEF S
  <2> QED BY <1>1, <1>2, SetInduction
<1>4. ASSUME NEW m \in 0 .. n PROVE Stays(m) /\ Covered(m)
  BY <1>0, <1>3
<1> QED BY <1>4 DEF n

---------------------------------------------------------------------------
(* The windows of a manifest *)

\* The layers whose window has place k.
Holders(layers, k) == {i \in DOMAIN layers : k \in Window(layers[i])}

\* The window of an entry of made begins where the list before ends; globals have none.
Consecutive(experts, globals, made) ==
  /\ SequenceOfEntries(globals) /\ \A i \in 1 .. Len(globals) : Window(globals[i]) = {}
  /\ SequenceOfEntries(made) /\ Len(made) = Len(experts)
  /\ \A i \in 1 .. Len(made) : made[i].first = EndOf(experts, i - 1) /\ made[i].num = Len(experts[i])

\* Entries whose windows follow each other cut the joined lists into these lists.
LEMMA WindowsCut ==
  ASSUME NEW V, NEW experts \in Seq(Seq(V)),
         NEW globals, NEW made, Consecutive(experts, globals, made)
  PROVE  LET layers == globals \o made
             all == FlattenSeq(experts)
         IN  /\ all \in Seq(V)
             /\ \A k \in DOMAIN all : Cardinality(Holders(layers, k)) = 1
             /\ \A i \in 1 .. Len(made) : \A k \in Window(made[i]) :
                   k \in DOMAIN all /\ \E j \in DOMAIN experts[i] : all[k] = experts[i][j]
<1> DEFINE layers == globals \o made
           all == FlattenSeq(experts)
           n == Len(experts)
           g == Len(globals)
           end(i) == EndOf(experts, i)
<1>0. /\ SequenceOfEntries(globals) /\ \A i \in 1 .. Len(globals) : Window(globals[i]) = {}
      /\ SequenceOfEntries(made) /\ Len(made) = Len(experts)
      /\ \A i \in 1 .. Len(made) : made[i].first = EndOf(experts, i - 1) /\ made[i].num = Len(experts[i])
  BY DEF Consecutive
<1>1. /\ n \in Nat /\ g \in Nat /\ Len(made) = n
      /\ SequenceOfEntries(layers) /\ Len(layers) = g + n /\ DOMAIN layers = 1 .. g + n
      /\ \A i \in 1 .. g : layers[i] = globals[i]
      /\ \A i \in 1 .. n : layers[g + i] = made[i]
  <2>1. /\ SequenceOfEntries(globals \o made) /\ Len(globals \o made) = Len(globals) + Len(made)
        /\ \A i \in 1 .. Len(globals) : (globals \o made)[i] = globals[i]
        /\ \A i \in 1 .. Len(made) : (globals \o made)[Len(globals) + i] = made[i]
        /\ Len(globals) \in Nat /\ Len(made) \in Nat
    BY <1>0, EntriesJoined
  <2>2. DOMAIN (globals \o made) = 1 .. Len(globals \o made)
    BY <2>1, AsEntries DEF SequenceOfEntries
  <2> QED BY <1>0, <2>1, <2>2
<1>2. /\ end(0) = 0
      /\ \A m \in 0 .. n : end(m) \in Nat
      /\ \A m \in 1 .. n : /\ end(m) = end(m - 1) + Len(experts[m]) /\ Len(experts[m]) \in Nat
                           /\ \A k \in 1 .. Len(experts[m]) : UpTo(experts, m)[end(m - 1) + k] = experts[m][k]
  BY EndsAt
<1>3. /\ \A i \in 0 .. n : /\ end(i) <= end(n)
                           /\ \A k \in 1 .. end(i) : UpTo(experts, n)[k] = UpTo(experts, i)[k]
      /\ \A j \in 1 .. end(n) : \E i \in 1 .. n : end(i - 1) < j /\ j <= end(i)
  <2>1. Len(experts) \in 0 .. Len(experts)
    BY <1>1
  <2> QED BY <2>1, Cells
<1>4. all = UpTo(experts, n) /\ all \in Seq(V) /\ Len(all) = end(n) /\ DOMAIN all = 1 .. end(n)
  <2>1. UpTo(experts, n) = all
    BY FlattenStep
  <2>2. n \in 0 .. n
    BY <1>1
  <2>3. UpTo(experts, n) \in Seq(V)
    BY <2>2, EndsAt
  <2> HIDE DEF all
  <2>4. Len(all) = end(n)
    BY <2>1 DEF EndOf
  <2> QED BY <2>1, <2>3, <2>4
<1>5. \A i, j \in 0 .. n : i <= j => end(i) <= end(j)
  <2> SUFFICES ASSUME NEW i \in 0 .. n, NEW j \in 0 .. n, i <= j PROVE end(i) <= end(j)
    OBVIOUS
  <2>1. j \in 0 .. Len(experts) /\ i \in 0 .. j
    OBVIOUS
  <2> QED BY <2>1, Cells
<1>6. \A i \in 1 .. n : Window(made[i]) = end(i - 1) + 1 .. end(i)
  <2> SUFFICES ASSUME NEW i \in 1 .. n PROVE Window(made[i]) = end(i - 1) + 1 .. end(i)
    OBVIOUS
  <2>1. made[i].first = end(i - 1) /\ made[i].num = Len(experts[i])
    BY <1>0, <1>1
  <2>2. end(i) = end(i - 1) + Len(experts[i])
    BY <1>2
  <2> HIDE DEF end, n
  <2> QED BY <2>1, <2>2 DEF Window
<1> HIDE DEF layers, all, n, g, end
<1>7. ASSUME NEW k \in DOMAIN all PROVE Cardinality(Holders(layers, k)) = 1
  <2>1. PICK i \in 1 .. n : end(i - 1) < k /\ k <= end(i)
    BY <1>3, <1>4
  <2>2. k \in Int
    BY <1>4
  <2>3. g + i \in DOMAIN layers /\ k \in Window(layers[g + i])
    <3>1. i \in 0 .. n /\ i - 1 \in 0 .. n /\ end(i) \in Nat /\ end(i - 1) \in Nat
      BY <1>1, <1>2
    <3>2. k \in end(i - 1) + 1 .. end(i)
      BY <2>1, <2>2, <3>1
    <3>3. g + i \in 1 .. g + n
      BY <1>1
    <3> QED BY <1>1, <1>6, <3>2, <3>3
  <2>4. ASSUME NEW h \in DOMAIN layers, k \in Window(layers[h]) PROVE h = g + i
    <3>1. h \notin 1 .. g
      BY <1>0, <1>1, <2>4 DEF g
    <3> DEFINE j == h - g
    <3>2. j \in 1 .. n /\ h = g + j
      BY <1>1, <3>1
    <3> HIDE DEF j
    <3>3. k \in end(j - 1) + 1 .. end(j)
      BY <1>1, <1>6, <2>4, <3>2
    <3>4. /\ i \in 0 .. n /\ i - 1 \in 0 .. n /\ end(i) \in Nat /\ end(i - 1) \in Nat
          /\ j \in 0 .. n /\ j - 1 \in 0 .. n /\ end(j) \in Nat /\ end(j - 1) \in Nat
      BY <1>1, <1>2, <3>2
    <3>5. ~(i < j)
      <4>1. SUFFICES ASSUME i < j PROVE FALSE
        OBVIOUS
      <4>2. i <= j - 1
        BY <3>2, <4>1
      <4>3. end(i) <= end(j - 1)
        BY <1>5, <3>4, <4>2
      <4> QED BY <2>1, <2>2, <3>3, <3>4, <4>3
    <3>6. ~(j < i)
      <4>1. SUFFICES ASSUME j < i PROVE FALSE
        OBVIOUS
      <4>2. j <= i - 1
        BY <3>2, <4>1
      <4>3. end(j) <= end(i - 1)
        BY <1>5, <3>4, <4>2
      <4> QED BY <2>1, <2>2, <3>3, <3>4, <4>3
    <3>7. i = j
      BY <3>2, <3>5, <3>6
    <3> QED BY <3>2, <3>7
  <2>5. Holders(layers, k) = {g + i}
    BY <2>3, <2>4 DEF Holders
  <2> QED BY <2>5, FS_Singleton
<1>8. ASSUME NEW i \in 1 .. n, NEW k \in Window(made[i])
      PROVE  k \in DOMAIN all /\ \E j \in DOMAIN experts[i] : all[k] = experts[i][j]
  <2>1. k \in end(i - 1) + 1 .. end(i)
    BY <1>6
  <2>2. /\ i \in 0 .. n /\ i - 1 \in 0 .. n /\ end(i) \in Nat /\ end(i - 1) \in Nat
        /\ n \in 0 .. n /\ end(n) \in Nat
    BY <1>1, <1>2
  <2>3. end(i) <= end(n)
    BY <1>3, <2>2
  <2>4. k \in 1 .. end(i) /\ k \in 1 .. end(n)
    BY <2>1, <2>2, <2>3
  <2> DEFINE j == k - end(i - 1)
             l == Len(experts[i])
  <2>5. end(i) = end(i - 1) + l /\ l \in Nat
        /\ \A m \in 1 .. l : UpTo(experts, i)[end(i - 1) + m] = experts[i][m]
    BY <1>2
  <2>6. DOMAIN experts[i] = 1 .. l
    BY DEF n
  <2> HIDE DEF l
  <2>7. j \in 1 .. l /\ k = end(i - 1) + j
    BY <2>1, <2>2, <2>5
  <2> HIDE DEF j
  <2>8. all[k] = UpTo(experts, i)[k]
    BY <1>3, <1>4, <2>2, <2>4
  <2>9. UpTo(experts, i)[k] = experts[i][j]
    BY <2>5, <2>7
  <2> QED BY <1>4, <2>4, <2>6, <2>7, <2>8, <2>9
<1> QED BY <1>0, <1>1, <1>4, <1>7, <1>8 DEF layers, all

\* Joined lists have the elements of all lists, and no others.
LEMMA FlattenElements ==
  ASSUME NEW V, NEW ss \in Seq(Seq(V))
  PROVE  /\ FlattenSeq(ss) \in Seq(V)
         /\ \A k \in DOMAIN FlattenSeq(ss) :
               \E i \in 1 .. Len(ss) : \E j \in DOMAIN ss[i] : FlattenSeq(ss)[k] = ss[i][j]
         /\ \A i \in 1 .. Len(ss) : \A j \in DOMAIN ss[i] :
               \E k \in DOMAIN FlattenSeq(ss) : FlattenSeq(ss)[k] = ss[i][j]
<1> DEFINE all == FlattenSeq(ss)
           n == Len(ss)
           end(i) == EndOf(ss, i)
<1>1. n \in Nat /\ n \in 0 .. n
  OBVIOUS
<1>2. /\ \A m \in 0 .. n : UpTo(ss, m) \in Seq(V) /\ end(m) \in Nat
      /\ \A m \in 1 .. n : /\ end(m) = end(m - 1) + Len(ss[m]) /\ Len(ss[m]) \in Nat
                           /\ \A k \in 1 .. Len(ss[m]) : UpTo(ss, m)[end(m - 1) + k] = ss[m][k]
  BY EndsAt
<1>3. /\ \A i \in 0 .. n : /\ end(i) <= end(n)
                           /\ \A k \in 1 .. end(i) : UpTo(ss, n)[k] = UpTo(ss, i)[k]
      /\ \A j \in 1 .. end(n) : \E i \in 1 .. n : end(i - 1) < j /\ j <= end(i)
  <2>1. Len(ss) \in 0 .. Len(ss)
    BY <1>1
  <2> QED BY <2>1, Cells
<1>4. all = UpTo(ss, n) /\ all \in Seq(V) /\ DOMAIN all = 1 .. end(n)
  <2>1. UpTo(ss, n) = all
    BY FlattenStep
  <2>2. UpTo(ss, n) \in Seq(V)
    BY <1>1, <1>2
  <2> HIDE DEF all
  <2>3. Len(all) = end(n)
    BY <2>1 DEF EndOf
  <2> QED BY <2>1, <2>2, <2>3
<1>5. \A i \in 1 .. n : DOMAIN ss[i] = 1 .. Len(ss[i])
  OBVIOUS
<1> HIDE DEF all, n, end
<1>6. ASSUME NEW i \in 1 .. n, NEW k, k \in end(i - 1) + 1 .. end(i)
      PROVE  k \in DOMAIN all /\ k - end(i - 1) \in DOMAIN ss[i] /\ all[k] = ss[i][k - end(i - 1)]
  <2>1. i \in 0 .. n /\ i - 1 \in 0 .. n
    BY <1>1
  <2>2. end(i) \in Nat /\ end(i - 1) \in Nat /\ end(n) \in Nat /\ end(i) <= end(n)
    BY <1>1, <1>2, <1>3, <2>1
  <2> DEFINE j == k - end(i - 1)
             l == Len(ss[i])
  <2>3. end(i) = end(i - 1) + l /\ l \in Nat
    BY <1>2
  <2> HIDE DEF l
  <2>4. j \in 1 .. l /\ k = end(i - 1) + j /\ k \in 1 .. end(i) /\ k \in 1 .. end(n)
    BY <1>6, <2>2, <2>3
  <2> HIDE DEF j
  <2>5. all[k] = UpTo(ss, i)[k]
    BY <1>3, <1>4, <2>1, <2>4
  <2>6. UpTo(ss, i)[k] = ss[i][j]
    BY <1>2, <2>4 DEF l
  <2> QED BY <1>4, <1>5, <2>4, <2>5, <2>6 DEF j, l
<1>7. ASSUME NEW k \in DOMAIN all PROVE \E i \in 1 .. n : \E j \in DOMAIN ss[i] : all[k] = ss[i][j]
  <2>1. PICK i \in 1 .. n : end(i - 1) < k /\ k <= end(i)
    BY <1>3, <1>4
  <2>2. i \in 0 .. n /\ i - 1 \in 0 .. n
    BY <1>1
  <2>3. end(i) \in Nat /\ end(i - 1) \in Nat /\ k \in Int
    BY <1>2, <1>4, <2>2
  <2>4. k \in end(i - 1) + 1 .. end(i)
    BY <2>1, <2>3
  <2> QED BY <1>6, <2>4
<1>8. ASSUME NEW i \in 1 .. n, NEW j \in DOMAIN ss[i] PROVE \E k \in DOMAIN all : all[k] = ss[i][j]
  <2>1. i \in 0 .. n /\ i - 1 \in 0 .. n
    BY <1>1
  <2>2. end(i - 1) \in Nat /\ end(i) = end(i - 1) + Len(ss[i]) /\ Len(ss[i]) \in Nat /\ j \in 1 .. Len(ss[i])
    BY <1>2, <1>5, <2>1
  <2> DEFINE k == end(i - 1) + j
  <2>3. k \in end(i - 1) + 1 .. end(i) /\ k - end(i - 1) = j
    <3> DEFINE e == end(i - 1)
               f == end(i)
               w == Len(ss[i])
    <3>1. e \in Nat /\ f = e + w /\ w \in Nat /\ j \in 1 .. w
      BY <2>2
    <3> HIDE DEF e, f, w
    <3>2. e + j \in e + 1 .. f /\ (e + j) - e = j
      BY <3>1
    <3> QED BY <3>2 DEF e, f
  <2> HIDE DEF k
  <2> QED BY <1>6, <2>3
<1> QED BY <1>4, <1>7, <1>8 DEF all, n

---------------------------------------------------------------------------
(* What a merge takes *)

LEMMA StableSort ==
  ASSUME NEW V, NEW s \in Seq(V), \A i \in DOMAIN s : s[i].layer.id \in Int
  PROVE  StableByLayer(s) \in Seq(V)
<1> DEFINE S == DOMAIN s
           before == {p \in S \X S :
                        \/ s[p[1]].layer.id < s[p[2]].layer.id
                        \/ s[p[1]].layer.id = s[p[2]].layer.id /\ p[1] < p[2]}
           o == InOrder(S, before)
<1>1. S = 1 .. Len(s) /\ Len(s) \in Nat /\ \A i \in S : s[i] \in V
  OBVIOUS
<1>2. IsFiniteSet(S)
  BY <1>1, FS_Interval
<1>3. Lines(S, before)
  <2>1. \A x, y \in S : <<x, y>> \in before <=>
            \/ s[x].layer.id < s[y].layer.id
            \/ s[x].layer.id = s[y].layer.id /\ x < y
    OBVIOUS
  <2>2. \A x \in S : x \in Int /\ s[x].layer.id \in Int
    BY <1>1
  <2> HIDE DEF before, S
  <2>3. \A x \in S : <<x, x>> \notin before
    BY <2>1, <2>2
  <2>4. ASSUME NEW x \in S, NEW y \in S, NEW z \in S, <<x, y>> \in before, <<y, z>> \in before
        PROVE  <<x, z>> \in before
    <3> DEFINE a == s[x].layer.id
               b == s[y].layer.id
               c == s[z].layer.id
    <3>1. /\ a \in Int /\ b \in Int /\ c \in Int /\ x \in Int /\ y \in Int /\ z \in Int
          /\ (a < b \/ (a = b /\ x < y)) /\ (b < c \/ (b = c /\ y < z))
      BY <2>1, <2>2, <2>4
    <3>2. <<x, z>> \in before <=> a < c \/ (a = c /\ x < z)
      BY <2>1
    <3> HIDE DEF a, b, c
    <3> QED BY <3>1, <3>2
  <2>5. ASSUME NEW x \in S, NEW y \in S PROVE x = y \/ <<x, y>> \in before \/ <<y, x>> \in before
    <3> DEFINE a == s[x].layer.id
               b == s[y].layer.id
    <3>1. x \in Int /\ y \in Int /\ a \in Int /\ b \in Int
      BY <2>2
    <3>2. (<<x, y>> \in before <=> a < b \/ (a = b /\ x < y)) /\ (<<y, x>> \in before <=> b < a \/ (b = a /\ y < x))
      BY <2>1
    <3> HIDE DEF a, b
    <3> QED BY <3>1, <3>2
  <2> QED BY <2>3, <2>4, <2>5 DEF Lines
<1> HIDE DEF before, S
<1>4. o \in Seq(S)
  BY <1>2, <1>3, InOrderSorts
<1>5. StableByLayer(s) = [k \in DOMAIN o |-> s[o[k]]]
  BY DEF StableByLayer, before, S
<1> HIDE DEF o
<1>6. DOMAIN o = 1 .. Len(o) /\ Len(o) \in Nat /\ \A k \in DOMAIN o : o[k] \in S
  BY <1>4
<1>7. [k \in 1 .. Len(o) |-> s[o[k]]] \in [1 .. Len(o) -> V]
  BY <1>1, <1>6
<1> QED BY <1>5, <1>6, <1>7, SeqDef

\* A layer of one of the named cores, with the name of the core.
LayerChoice(names) ==
  UNION {{[core |-> n, layer |-> l] : l \in Range(Cores[n].layers)} : n \in Range(names)}

LEMMA ChosenLayers ==
  ASSUME CoresAssumption, NEW names \in Seq(DOMAIN Cores), NEW wanted
  PROVE  choose_compute_layers(names, wanted) \in Seq(LayerChoice(names))
<1> DEFINE V == LayerChoice(names)
           ss == [i \in DOMAIN names |-> ComputeOf(names[i], wanted)]
           all == FlattenSeq(ss)
<1>1. ASSUME NEW i \in DOMAIN names PROVE ComputeOf(names[i], wanted) \in Seq(V)
  <2> DEFINE n == names[i]
             layers == Cores[n].layers
             places == {k \in DOMAIN layers : IF wanted = {} THEN layers[k].id # 0
                                              ELSE layers[k].id \in wanted}
             picked == Pick(layers, places)
  <2>1. n \in Range(names) /\ n \in DOMAIN Cores
    BY DEF Range
  <2>2. layers \in Seq(Range(layers))
    BY <2>1 DEF CoresAssumption
  <2>3. places \subseteq DOMAIN layers
    OBVIOUS
  <2> HIDE DEF layers, places, n
  <2>4. picked \in Seq(Range(layers))
    BY <2>2, <2>3, PickSome
  <2>5. ComputeOf(n, wanted) = [k \in DOMAIN picked |-> [core |-> n, layer |-> picked[k]]]
    BY DEF ComputeOf, layers, places
  <2> HIDE DEF picked
  <2>6. DOMAIN picked = 1 .. Len(picked) /\ Len(picked) \in Nat /\ \A k \in DOMAIN picked : picked[k] \in Range(layers)
    BY <2>4
  <2>7. \A k \in 1 .. Len(picked) : [core |-> n, layer |-> picked[k]] \in V
    <3>1. \A l \in Range(layers) : [core |-> n, layer |-> l] \in {[core |-> n, layer |-> m] : m \in Range(layers)}
      OBVIOUS
    <3>2. \A l \in Range(layers) : [core |-> n, layer |-> l] \in V
      BY <2>1, <3>1 DEF LayerChoice, layers
    <3> QED BY <2>6, <3>2
  <2> HIDE DEF V
  <2>8. [k \in 1 .. Len(picked) |-> [core |-> n, layer |-> picked[k]]] \in [1 .. Len(picked) -> V]
    BY <2>7
  <2>9. ComputeOf(n, wanted) \in Seq(V)
    BY <2>5, <2>6, <2>8, SeqDef
  <2> QED BY <2>9 DEF n
<1>2. ss \in Seq(Seq(V))
  <2>1. DOMAIN names = 1 .. Len(names) /\ Len(names) \in Nat
    OBVIOUS
  <2> HIDE DEF V
  <2>2. [i \in 1 .. Len(names) |-> ComputeOf(names[i], wanted)] \in [1 .. Len(names) -> Seq(V)]
    BY <1>1, <2>1
  <2> QED BY <2>1, <2>2, SeqDef
<1> HIDE DEF V, ss
<1>3. all \in Seq(V)
  BY <1>2, FlattenElements
<1>4. \A x \in V : x.layer.id \in Int
  <2> SUFFICES ASSUME NEW n \in Range(names), NEW l \in Range(Cores[n].layers)
               PROVE  l.id \in Int
    BY DEF V, LayerChoice
  <2>1. n \in DOMAIN Cores
    BY DEF Range
  <2>2. l.id \in Nat
    BY <2>1 DEF CoresAssumption
  <2> QED BY <2>2
<1>5. choose_compute_layers(names, wanted) \in {StableByLayer(all), <<>>}
  BY DEF choose_compute_layers, ss
<1> HIDE DEF all
<1>6. \A i \in DOMAIN all : all[i].layer.id \in Int
  BY <1>3, <1>4
<1>7. StableByLayer(all) \in Seq(V)
  BY <1>3, <1>6, StableSort
<1>8. <<>> \in Seq(V)
  OBVIOUS
<1> QED BY <1>5, <1>7, <1>8 DEF V

LEMMA LayersExperts ==
  ASSUME CoresAssumption, NEW n \in DOMAIN Cores, NEW l \in Range(Cores[n].layers)
  PROVE  experts_for_layer(Cores[n], l) \in Seq({x \in Range(Cores[n].experts) : x.layer = l.id})
<1> DEFINE xs == Cores[n].experts
           V == {x \in Range(xs) : x.layer = l.id}
           a == l.first + 1
           b == IF l.first + l.num < Len(xs) THEN l.first + l.num ELSE Len(xs)
<1>1. /\ xs \in Seq(Range(xs)) /\ l.first \in Nat /\ l.num \in Nat
      /\ \A k \in Window(l) \cap DOMAIN xs : xs[k].layer = l.id
  BY DEF CoresAssumption
<1>2. DOMAIN xs = 1 .. Len(xs) /\ Len(xs) \in Nat /\ \A k \in 1 .. Len(xs) : xs[k] \in Range(xs)
  BY <1>1
<1>3. experts_for_layer(Cores[n], l) = SubSeq(xs, a, b)
  BY DEF experts_for_layer
<1> HIDE DEF xs
<1>4. a \in Nat /\ a >= 1 /\ b \in 0 .. Len(xs) /\ b <= l.first + l.num
  BY <1>1, <1>2
<1> HIDE DEF b
<1>5. CASE a > b
  <2>1. SubSeq(xs, a, b) = <<>>
    BY <1>1, <1>4, <1>5
  <2>2. <<>> \in Seq(V)
    OBVIOUS
  <2> QED BY <1>3, <2>1, <2>2 DEF xs
<1>6. CASE a <= b
  <2>0. SequenceOfEntries(xs) /\ a \in 1 .. Len(xs) + 1 /\ a <= b + 1
    BY <1>1, <1>2, <1>4, <1>6 DEF SequenceOfEntries
  <2>1. /\ SequenceOfEntries(SubSeq(xs, a, b)) /\ Len(SubSeq(xs, a, b)) = b - a + 1
        /\ \A k \in 1 .. b - a + 1 : SubSeq(xs, a, b)[k] = xs[a + k - 1]
    BY <1>4, <2>0, EntriesMiddle
  <2> DEFINE t == SubSeq(xs, a, b)
  <2>2. \A k \in 1 .. b - a + 1 : xs[a + k - 1] \in V
    <3> SUFFICES ASSUME NEW k \in 1 .. b - a + 1 PROVE xs[a + k - 1] \in V
      OBVIOUS
    <3> DEFINE f == l.first
               w == l.num
               m == Len(xs)
    <3>0. a = f + 1 /\ f \in Nat /\ w \in Nat /\ m \in Nat /\ b \in 0 .. m /\ b <= f + w
      BY <1>1, <1>2, <1>4
    <3> HIDE DEF a, f, w, m
    <3>1. a + k - 1 \in f + 1 .. f + w /\ a + k - 1 \in 1 .. m
      BY <3>0
    <3> QED BY <1>1, <1>2, <3>1 DEF Window, f, w, m
  <2>3. t = [k \in 1 .. Len(t) |-> t[k]] /\ Len(t) \in Nat
    <3>1. SequenceOfEntries(t)
      BY <2>1
    <3> HIDE DEF t
    <3> QED BY <3>1 DEF SequenceOfEntries
  <2> HIDE DEF t, V
  <2>4. \A k \in 1 .. Len(t) : t[k] \in V
    BY <2>1, <2>2 DEF t
  <2>5. t \in Seq(V)
    BY <2>3, <2>4, SeqDef
  <2> QED BY <1>3, <2>5 DEF t, V, xs
<1> QED BY <1>4, <1>5, <1>6

---------------------------------------------------------------------------
(* The manifest a tool writes *)

CutExactly(layers, experts) ==
  /\ \A k \in DOMAIN experts : Cardinality(Holders(layers, k)) = 1
  /\ \A i \in DOMAIN layers : \A k \in Window(layers[i]) :
        k \in DOMAIN experts /\ experts[k].layer = layers[i].id

IsFrom(l, names) ==
  /\ l.block \in Seq(Range(l.block))
  /\ \E n \in names : \E k \in DOMAIN Cores[n].layers :
        Cores[n].layers[k].id = l.id /\ Cores[n].layers[k].block = l.block

LEMMA ManifestExact ==
  ASSUME NEW V, NEW experts \in Seq(Seq(V)), NEW chosen, SequenceOfEntries(chosen),
         Len(experts) = Len(chosen), NEW names,
         \A i \in 1 .. Len(chosen) : IsFrom(chosen[i].layer, names),
         \A i \in 1 .. Len(chosen) : \A j \in DOMAIN experts[i] :
            experts[i][j].layer = chosen[i].layer.id,
         NEW globals, SequenceOfEntries(globals),
         \A i \in 1 .. Len(globals) : Window(globals[i]) = {} /\ IsFrom(globals[i], names)
  PROVE  LET made == Entries(chosen, experts)
             layers == globals \o made.layers
         IN  /\ made.experts = FlattenSeq(experts) /\ made.experts \in Seq(V)
             /\ SequenceOfEntries(layers) /\ CutExactly(layers, made.experts)
             /\ \A i \in DOMAIN layers : IsFrom(layers[i], names)
<1> DEFINE before(i) == FlattenSeq(SubSeq(experts, 1, i - 1))
           n == Len(chosen)
           entry(i) == [id |-> chosen[i].layer.id, type |-> Compute,
                        block |-> chosen[i].layer.block, first |-> Len(before(i)),
                        num |-> Len(experts[i])]
           made == [i \in DOMAIN chosen |-> entry(i)]
           g == Len(globals)
           layers == globals \o made
           all == FlattenSeq(experts)
<1>1. DOMAIN chosen = 1 .. n /\ n \in Nat /\ DOMAIN experts = 1 .. n
  BY AsEntries DEF SequenceOfEntries
<1>2. Entries(chosen, experts).layers = made
  BY DEF Entries
<1>3. Entries(chosen, experts).experts = all
  <2>1. before(n + 1) = FlattenSeq(experts)
    <3>1. SubSeq(experts, 1, n) = experts /\ (n + 1) - 1 = n
      BY <1>1
    <3> QED BY <3>1
  <2> QED BY <2>1 DEF Entries
<1>4. \A i \in 1 .. n : Len(before(i)) = EndOf(experts, i - 1)
  BY DEF EndOf, UpTo
<1>5. \A i \in 1 .. n : /\ made[i].id = chosen[i].layer.id /\ made[i].block = chosen[i].layer.block
                        /\ made[i].first = EndOf(experts, i - 1) /\ made[i].num = Len(experts[i])
  <2> HIDE DEF before
  <2> QED BY <1>1, <1>4
<1>6. SequenceOfEntries(made) /\ Len(made) = n
  <2>1. made = [i \in 1 .. n |-> entry(i)]
    BY <1>1
  <2>2. made \in Seq({entry(i) : i \in 1 .. n}) /\ Len(made) = n
    <3> HIDE DEF entry, made
    <3>1. [i \in 1 .. n |-> entry(i)] \in [1 .. n -> {entry(i) : i \in 1 .. n}]
      OBVIOUS
    <3> QED BY <1>1, <2>1, <3>1, SeqDef, LenProperties
  <2> HIDE DEF made
  <2> QED BY <2>2, AsEntries
<1> HIDE DEF made, before, n, g
<1>7. /\ all \in Seq(V)
      /\ \A k \in DOMAIN all : Cardinality(Holders(layers, k)) = 1
      /\ \A i \in 1 .. n : \A k \in Window(made[i]) :
            k \in DOMAIN all /\ \E j \in DOMAIN experts[i] : all[k] = experts[i][j]
  <2>1. Consecutive(experts, globals, made)
    BY <1>5, <1>6 DEF n, Consecutive
  <2>2. n = Len(made)
    BY <1>6
  <2>3. /\ all \in Seq(V)
        /\ \A k \in DOMAIN all : Cardinality(Holders(layers, k)) = 1
        /\ \A i \in 1 .. Len(made) : \A k \in Window(made[i]) :
              k \in DOMAIN all /\ \E j \in DOMAIN experts[i] : all[k] = experts[i][j]
    BY <2>1, WindowsCut, SMTT(40)
  <2> QED BY <2>2, <2>3
<1>8. /\ SequenceOfEntries(layers) /\ DOMAIN layers = 1 .. g + n
      /\ g \in Nat
      /\ \A i \in 1 .. g : layers[i] = globals[i]
      /\ \A i \in 1 .. n : layers[g + i] = made[i]
  <2>1. /\ SequenceOfEntries(layers) /\ Len(layers) = Len(globals) + Len(made)
        /\ \A i \in 1 .. Len(globals) : layers[i] = globals[i]
        /\ \A i \in 1 .. Len(made) : layers[Len(globals) + i] = made[i]
        /\ Len(globals) \in Nat /\ Len(made) \in Nat
    BY <1>6, EntriesJoined
  <2> HIDE DEF layers
  <2>2. DOMAIN layers = 1 .. Len(layers)
    BY <2>1, AsEntries DEF SequenceOfEntries
  <2> QED BY <1>6, <2>1, <2>2 DEF g
<1> HIDE DEF layers, all
<1>9. ASSUME NEW i \in DOMAIN layers
      PROVE  /\ IsFrom(layers[i], names)
             /\ \A k \in Window(layers[i]) : k \in DOMAIN all /\ all[k].layer = layers[i].id
  <2>1. CASE i \in 1 .. g
    BY <1>8, <2>1 DEF g
  <2>2. CASE i \notin 1 .. g
    <3> DEFINE j == i - g
    <3>1. j \in 1 .. n /\ i = g + j
      BY <1>1, <1>8, <2>2
    <3> HIDE DEF j
    <3>2. layers[i] = made[j]
      BY <1>8, <3>1
    <3>3. made[j].id = chosen[j].layer.id /\ made[j].block = chosen[j].layer.block
      BY <1>5, <3>1
    <3>4. IsFrom(made[j], names)
      <4>1. IsFrom(chosen[j].layer, names)
        BY <3>1 DEF n
      <4> QED BY <3>3, <4>1 DEF IsFrom
    <3>5. ASSUME NEW k \in Window(made[j]) PROVE k \in DOMAIN all /\ all[k].layer = made[j].id
      <4>1. k \in DOMAIN all
        BY <1>7, <3>1
      <4>2. PICK m \in DOMAIN experts[j] : all[k] = experts[j][m]
        BY <1>7, <3>1
      <4>3. experts[j][m].layer = chosen[j].layer.id
        BY <3>1 DEF n
      <4> QED BY <3>3, <4>1, <4>2, <4>3
    <3> QED BY <3>2, <3>4, <3>5
  <2> QED BY <2>1, <2>2
<1>10. CutExactly(layers, all)
  BY <1>7, <1>9 DEF CutExactly
<1>11. /\ all = FlattenSeq(experts) /\ all \in Seq(V)
       /\ SequenceOfEntries(layers) /\ \A i \in DOMAIN layers : IsFrom(layers[i], names)
  BY <1>7, <1>8, <1>9 DEF all
<1> QED BY <1>2, <1>3, <1>10, <1>11 DEF layers

LEMMA EntryOfLayer ==
  ASSUME CoresAssumption, NEW names, names \subseteq DOMAIN Cores, NEW n \in names,
         NEW l \in Range(Cores[n].layers)
  PROVE  /\ IsFrom(l, names)
         /\ Window(GlobalEntry(l)) = {} /\ IsFrom(GlobalEntry(l), names)
<1>1. l.block \in Seq(Range(l.block))
  BY DEF CoresAssumption
<1>2. PICK k \in DOMAIN Cores[n].layers : Cores[n].layers[k] = l
  BY DEF Range
<1>3. IsFrom(l, names)
  BY <1>1, <1>2 DEF IsFrom
<1>4. GlobalEntry(l).id = l.id /\ GlobalEntry(l).block = l.block
      /\ GlobalEntry(l).first = 0 /\ GlobalEntry(l).num = 0
  BY DEF GlobalEntry
<1>5. Window(GlobalEntry(l)) = {}
  BY <1>4 DEF Window
<1>6. IsFrom(GlobalEntry(l), names)
  BY <1>3, <1>4 DEF IsFrom
<1> QED BY <1>3, <1>5, <1>6

---------------------------------------------------------------------------
(* A merge: the manifest and the files to copy *)

TakenExperts(chosen) ==
  [i \in DOMAIN chosen |-> experts_for_layer(Cores[chosen[i].core], chosen[i].layer)]

TaggedExperts(chosen) ==
  LET experts == TakenExperts(chosen)
  IN  FlattenSeq([i \in DOMAIN chosen |->
         [k \in DOMAIN experts[i] |-> [core |-> chosen[i].core, expert |-> experts[i][k]]]])

\* What is known of a chosen layer and of the experts taken with it.
LEMMA TakenLayers ==
  ASSUME CoresAssumption, NEW names \in Seq(DOMAIN Cores), NEW chosen \in Seq(LayerChoice(names))
  PROVE  LET experts == TakenExperts(chosen)
         IN  /\ DOMAIN chosen = 1 .. Len(chosen) /\ Len(chosen) \in Nat
             /\ \A i \in 1 .. Len(chosen) :
                   /\ chosen[i].core \in Range(names) /\ chosen[i].core \in DOMAIN Cores
                   /\ chosen[i].layer \in Range(Cores[chosen[i].core].layers)
                   /\ experts[i] \in Seq({x \in Range(Cores[chosen[i].core].experts) :
                                              x.layer = chosen[i].layer.id})
             /\ experts \in Seq(Seq(UNION {Range(Cores[n].experts) : n \in Range(names)}))
             /\ Len(experts) = Len(chosen)
<1> DEFINE experts == TakenExperts(chosen)
           n == Len(chosen)
           V == UNION {Range(Cores[m].experts) : m \in Range(names)}
           Own(i) == {x \in Range(Cores[chosen[i].core].experts) : x.layer = chosen[i].layer.id}
<1>1. DOMAIN chosen = 1 .. n /\ n \in Nat /\ \A i \in 1 .. n : chosen[i] \in LayerChoice(names)
  OBVIOUS
<1>2. ASSUME NEW i \in 1 .. n
      PROVE  /\ chosen[i].core \in Range(names) /\ chosen[i].core \in DOMAIN Cores
             /\ chosen[i].layer \in Range(Cores[chosen[i].core].layers)
  <2>1. PICK m \in Range(names) : chosen[i] \in {[core |-> m, layer |-> l] : l \in Range(Cores[m].layers)}
    BY <1>1 DEF LayerChoice
  <2>2. PICK l \in Range(Cores[m].layers) : chosen[i] = [core |-> m, layer |-> l]
    BY <2>1
  <2>3. chosen[i].core = m /\ chosen[i].layer = l
    BY <2>2
  <2>4. m \in DOMAIN Cores
    BY DEF Range
  <2> QED BY <2>2, <2>3, <2>4
<1>3. \A i \in 1 .. n : experts[i] = experts_for_layer(Cores[chosen[i].core], chosen[i].layer)
  BY <1>1 DEF TakenExperts
<1>4. ASSUME NEW i \in 1 .. n PROVE experts[i] \in Seq(Own(i))
  <2>1. chosen[i].core \in DOMAIN Cores /\ chosen[i].layer \in Range(Cores[chosen[i].core].layers)
    BY <1>2
  <2>2. experts_for_layer(Cores[chosen[i].core], chosen[i].layer)
           \in Seq({x \in Range(Cores[chosen[i].core].experts) : x.layer = chosen[i].layer.id})
    BY <2>1, LayersExperts
  <2> QED BY <1>3, <2>2
<1>5. ASSUME NEW i \in 1 .. n PROVE experts[i] \in Seq(V)
  <2>1. Own(i) \subseteq V
    BY <1>2
  <2>2. experts[i] \in Seq(Own(i))
    BY <1>4
  <2> HIDE DEF Own, V, experts
  <2> QED BY <2>1, <2>2
<1>6. experts = [i \in 1 .. n |-> experts[i]]
  BY <1>1 DEF TakenExperts
<1>7. experts \in Seq(Seq(V)) /\ Len(experts) = n
  <2> HIDE DEF experts, V
  <2>1. experts \in [1 .. n -> Seq(V)]
    BY <1>5, <1>6
  <2> QED BY <1>1, <2>1, SeqDef, LenProperties
<1> HIDE DEF V, experts
<1>8. \A i \in 1 .. n : experts[i] \in Seq(Own(i))
  BY <1>4
<1> QED BY <1>1, <1>2, <1>7, <1>8 DEF V, experts

AreGlobals(entries, names) ==
  /\ SequenceOfEntries(entries)
  /\ \A i \in 1 .. Len(entries) :
        \E n \in Range(names) : \E l \in Range(Cores[n].layers) : entries[i] = GlobalEntry(l)

LEMMA MergedManifest ==
  ASSUME CoresAssumption, NEW names \in Seq(DOMAIN Cores), NEW more \in Seq(DOMAIN Cores),
         NEW chosen \in Seq(LayerChoice(names)),
         NEW globals, AreGlobals(globals, more)
  PROVE  LET made == Entries(chosen, TakenExperts(chosen))
             layers == globals \o made.layers
         IN  /\ SequenceOfEntries(layers) /\ CutExactly(layers, made.experts)
             /\ \A i \in DOMAIN layers : IsFrom(layers[i], Range(names) \cup Range(more))
             /\ made.experts = FlattenSeq(TakenExperts(chosen))
<1> DEFINE experts == TakenExperts(chosen)
           V == UNION {Range(Cores[m].experts) : m \in Range(names)}
           all == Range(names) \cup Range(more)
<1>1. /\ DOMAIN chosen = 1 .. Len(chosen) /\ Len(chosen) \in Nat
      /\ \A i \in 1 .. Len(chosen) :
            /\ chosen[i].core \in Range(names) /\ chosen[i].core \in DOMAIN Cores
            /\ chosen[i].layer \in Range(Cores[chosen[i].core].layers)
            /\ experts[i] \in Seq({x \in Range(Cores[chosen[i].core].experts) :
                                       x.layer = chosen[i].layer.id})
      /\ experts \in Seq(Seq(V)) /\ Len(experts) = Len(chosen)
  BY TakenLayers
<1>2. all \subseteq DOMAIN Cores
  BY DEF Range
<1>3. ASSUME NEW i \in 1 .. Len(chosen) PROVE IsFrom(chosen[i].layer, all)
  <2>1. chosen[i].core \in all /\ chosen[i].layer \in Range(Cores[chosen[i].core].layers)
    BY <1>1
  <2> HIDE DEF all
  <2> QED BY <1>2, <2>1, EntryOfLayer
<1>4. ASSUME NEW i \in 1 .. Len(chosen), NEW j \in DOMAIN experts[i]
      PROVE  experts[i][j].layer = chosen[i].layer.id
  <2> DEFINE S == {x \in Range(Cores[chosen[i].core].experts) : x.layer = chosen[i].layer.id}
             t == experts[i]
  <2>1. t \in Seq(S)
    BY <1>1
  <2>2. t[j] \in S
    <3> HIDE DEF S, t
    <3>1. DOMAIN t = 1 .. Len(t) /\ \A m \in 1 .. Len(t) : t[m] \in S
      BY <2>1
    <3>2. j \in DOMAIN t
      BY DEF t
    <3> QED BY <3>1, <3>2
  <2> QED BY <2>2
<1>5. ASSUME NEW i \in 1 .. Len(globals) PROVE Window(globals[i]) = {} /\ IsFrom(globals[i], all)
  <2>1. PICK n \in Range(more) : \E l \in Range(Cores[n].layers) : globals[i] = GlobalEntry(l)
    BY DEF AreGlobals
  <2>2. n \in all
    OBVIOUS
  <2> HIDE DEF all
  <2> QED BY <1>2, <2>1, <2>2, EntryOfLayer
<1>6. SequenceOfEntries(chosen)
  BY AsEntries
<1> HIDE DEF experts, V, all
<1>7. /\ experts \in Seq(Seq(V)) /\ Len(experts) = Len(chosen)
      /\ \A i \in 1 .. Len(chosen) : IsFrom(chosen[i].layer, all)
      /\ \A i \in 1 .. Len(chosen) : \A j \in DOMAIN experts[i] :
            experts[i][j].layer = chosen[i].layer.id
      /\ \A i \in 1 .. Len(globals) : Window(globals[i]) = {} /\ IsFrom(globals[i], all)
  BY <1>1, <1>3, <1>4, <1>5
<1>8. SequenceOfEntries(globals)
  BY DEF AreGlobals
<1> DEFINE made == Entries(chosen, experts)
           layers == globals \o made.layers
<1>9. /\ made.experts = FlattenSeq(experts)
      /\ SequenceOfEntries(layers) /\ CutExactly(layers, made.experts)
      /\ \A i \in DOMAIN layers : IsFrom(layers[i], all)
  BY <1>6, <1>7, <1>8, ManifestExact
<1> QED BY <1>9 DEF all, experts

LEMMA FilesToCopy ==
  ASSUME CoresAssumption, NEW names \in Seq(DOMAIN Cores), NEW chosen \in Seq(LayerChoice(names))
  PROVE  LET all == FlattenSeq(TakenExperts(chosen))
             tagged == TaggedExperts(chosen)
         IN  /\ SequenceOfEntries(all) /\ SequenceOfEntries(tagged)
             /\ \A x \in Range(all) : \E i \in DOMAIN chosen : x \in Range(Cores[chosen[i].core].experts)
             /\ \A j \in DOMAIN tagged : /\ tagged[j].core \in Range(names)
                                         /\ tagged[j].expert \in Range(Cores[tagged[j].core].experts)
                                         /\ tagged[j].expert \in Range(all)
             /\ \A x \in Range(all) : \E j \in DOMAIN tagged : tagged[j].expert = x
<1> DEFINE experts == TakenExperts(chosen)
           n == Len(chosen)
           V == UNION {Range(Cores[m].experts) : m \in Range(names)}
           Own(i) == {x \in Range(Cores[chosen[i].core].experts) : x.layer = chosen[i].layer.id}
           mark(i) == [k \in DOMAIN experts[i] |-> [core |-> chosen[i].core, expert |-> experts[i][k]]]
           marks == [i \in DOMAIN chosen |-> mark(i)]
           Y == [core : Range(names), expert : V]
           all == FlattenSeq(experts)
           tagged == FlattenSeq(marks)
<1>1. /\ DOMAIN chosen = 1 .. n /\ n \in Nat
      /\ \A i \in 1 .. n : /\ chosen[i].core \in Range(names)
                           /\ experts[i] \in Seq({x \in Range(Cores[chosen[i].core].experts) :
                                                      x.layer = chosen[i].layer.id})
      /\ experts \in Seq(Seq(V)) /\ Len(experts) = n
  BY TakenLayers
<1>2. tagged = TaggedExperts(chosen)
  BY DEF TaggedExperts
<1>3. ASSUME NEW i \in 1 .. n
      PROVE  /\ DOMAIN experts[i] = 1 .. Len(experts[i]) /\ Len(experts[i]) \in Nat
             /\ \A k \in DOMAIN experts[i] : experts[i][k] \in Own(i) /\ experts[i][k] \in V
  <2> DEFINE t == experts[i]
  <2>1. t \in Seq(Own(i))
    BY <1>1
  <2>2. Own(i) \subseteq V
    BY <1>1
  <2> HIDE DEF t, Own, V
  <2>3. DOMAIN t = 1 .. Len(t) /\ Len(t) \in Nat /\ \A k \in DOMAIN t : t[k] \in Own(i)
    BY <2>1
  <2> QED BY <2>2, <2>3 DEF t
<1> HIDE DEF experts, V
<1>4. ASSUME NEW i \in 1 .. n PROVE mark(i) \in Seq(Y) /\ DOMAIN mark(i) = DOMAIN experts[i]
  <2>1. /\ DOMAIN experts[i] = 1 .. Len(experts[i]) /\ Len(experts[i]) \in Nat
        /\ \A k \in DOMAIN experts[i] : experts[i][k] \in V
    BY <1>3
  <2>2. \A k \in DOMAIN experts[i] : [core |-> chosen[i].core, expert |-> experts[i][k]] \in Y
    BY <1>1, <2>1
  <2> HIDE DEF Y
  <2>3. mark(i) \in [1 .. Len(experts[i]) -> Y]
    BY <2>1, <2>2
  <2>4. mark(i) \in Seq(Y)
    <3> DEFINE r == mark(i)
               w == Len(experts[i])
    <3>1. w \in Nat /\ r \in [1 .. w -> Y]
      BY <2>1, <2>3
    <3> HIDE DEF r, w
    <3>2. r \in Seq(Y)
      BY <3>1, SeqDef
    <3> QED BY <3>2 DEF r
  <2> QED BY <2>4
<1>5. marks \in Seq(Seq(Y)) /\ Len(marks) = n
  <2> HIDE DEF mark, Y
  <2>1. marks \in [1 .. n -> Seq(Y)]
    BY <1>1, <1>4
  <2> QED BY <1>1, <2>1, SeqDef, LenProperties
<1>6. \A i \in 1 .. n : marks[i] = mark(i)
  BY <1>1
<1> HIDE DEF marks, Y
<1>7. /\ all \in Seq(V)
      /\ \A k \in DOMAIN all : \E i \in 1 .. n : \E j \in DOMAIN experts[i] : all[k] = experts[i][j]
      /\ \A i \in 1 .. n : \A j \in DOMAIN experts[i] : \E k \in DOMAIN all : all[k] = experts[i][j]
  <2>1. /\ all \in Seq(V)
        /\ \A k \in DOMAIN all : \E i \in 1 .. Len(experts) : \E j \in DOMAIN experts[i] : all[k] = experts[i][j]
        /\ \A i \in 1 .. Len(experts) : \A j \in DOMAIN experts[i] : \E k \in DOMAIN all : all[k] = experts[i][j]
    BY <1>1, FlattenElements
  <2> HIDE DEF all, n
  <2> QED BY <1>1, <2>1
<1>8. /\ tagged \in Seq(Y)
      /\ \A k \in DOMAIN tagged : \E i \in 1 .. n : \E j \in DOMAIN marks[i] : tagged[k] = marks[i][j]
      /\ \A i \in 1 .. n : \A j \in DOMAIN marks[i] : \E k \in DOMAIN tagged : tagged[k] = marks[i][j]
  <2>1. /\ tagged \in Seq(Y)
        /\ \A k \in DOMAIN tagged : \E i \in 1 .. Len(marks) : \E j \in DOMAIN marks[i] : tagged[k] = marks[i][j]
        /\ \A i \in 1 .. Len(marks) : \A j \in DOMAIN marks[i] : \E k \in DOMAIN tagged : tagged[k] = marks[i][j]
    BY <1>5, FlattenElements
  <2> HIDE DEF tagged, n
  <2> QED BY <1>5, <2>1
<1>9. \A i \in 1 .. n : /\ DOMAIN marks[i] = DOMAIN experts[i]
                        /\ \A j \in DOMAIN experts[i] : marks[i][j].core = chosen[i].core
                                                        /\ marks[i][j].expert = experts[i][j]
  <2> SUFFICES ASSUME NEW i \in 1 .. n
               PROVE  /\ DOMAIN marks[i] = DOMAIN experts[i]
                      /\ \A j \in DOMAIN experts[i] : marks[i][j].core = chosen[i].core
                                                        /\ marks[i][j].expert = experts[i][j]
    OBVIOUS
  <2>1. marks[i] = [k \in DOMAIN experts[i] |-> [core |-> chosen[i].core, expert |-> experts[i][k]]]
    BY <1>6
  <2> QED BY <2>1
<1> HIDE DEF all, tagged, mark, n
<1>10. SequenceOfEntries(all) /\ SequenceOfEntries(tagged)
  BY <1>7, <1>8, AsEntries
<1>11. ASSUME NEW x \in Range(all) PROVE \E i \in DOMAIN chosen : x \in Range(Cores[chosen[i].core].experts)
  <2>1. PICK k \in DOMAIN all : x = all[k]
    BY DEF Range
  <2>2. PICK i \in 1 .. n : \E j \in DOMAIN experts[i] : all[k] = experts[i][j]
    BY <1>7
  <2>3. x \in Own(i)
    BY <1>3, <2>1, <2>2
  <2> QED BY <1>1, <2>3
<1>12. ASSUME NEW m \in DOMAIN tagged
       PROVE  /\ tagged[m].core \in Range(names)
              /\ tagged[m].expert \in Range(Cores[tagged[m].core].experts)
              /\ tagged[m].expert \in Range(all)
  <2>1. PICK i \in 1 .. n : \E j \in DOMAIN marks[i] : tagged[m] = marks[i][j]
    BY <1>8
  <2>2. PICK j \in DOMAIN experts[i] : tagged[m].core = chosen[i].core /\ tagged[m].expert = experts[i][j]
    BY <1>9, <2>1
  <2>3. experts[i][j] \in Own(i)
    BY <1>3
  <2>4. PICK k \in DOMAIN all : all[k] = experts[i][j]
    BY <1>7
  <2>5. experts[i][j] \in Range(all)
    BY <2>4 DEF Range
  <2> QED BY <1>1, <2>2, <2>3, <2>5
<1>13. ASSUME NEW x \in Range(all) PROVE \E j \in DOMAIN tagged : tagged[j].expert = x
  <2>1. PICK k \in DOMAIN all : x = all[k]
    BY DEF Range
  <2>2. PICK i \in 1 .. n : \E j \in DOMAIN experts[i] : all[k] = experts[i][j]
    BY <1>7
  <2>3. PICK j \in DOMAIN experts[i] : all[k] = experts[i][j]
    BY <2>2
  <2>4. PICK m \in DOMAIN tagged : tagged[m] = marks[i][j]
    BY <1>8, <1>9
  <2> QED BY <1>9, <2>1, <2>3, <2>4
<1> QED BY <1>2, <1>10, <1>11, <1>12, <1>13 DEF all, experts

---------------------------------------------------------------------------
(* What the tools keep *)

SourcePath(n, x) ==
  IF ShardOf(Cores[n], x) # <<>> THEN Resolve(Cores[n].dir, Last(ShardOf(Cores[n], x)).path)
  ELSE <<Cores[n].dir, x.layer, x.expert>>

Given == IF moCmd.tool = "merge" THEN Range(moCmd.cores) \cup Range(moCmd.globals) ELSE {moCmd.base}

\* The experts of the new core, each with the cores on the command line that have it.
Pairs == {y \in Range(moCmd.cores) \X Range(moOut.experts) : y[2] \in Range(Cores[y[1]].experts)}

OutputFields == {"layers", "experts", "index", "dense", "plan", "tensors"}

OpsTyped ==
  /\ moCmd \in OpCommands
  /\ moPc \in [at : {"start", "copy", "index", "end"}, exit : {"none", "ok", "error"}]
  /\ DOMAIN moOut = OutputFields
  /\ moPc.at = "start" => moOut = NoOutput /\ moTodo = <<>> /\ moFile = CoreFiles
  /\ moPc.at # "end" => moPc.exit = "none"
  /\ moPc.at \in {"copy", "index"} => moCmd.tool = "merge"
  /\ moPc.at = "copy" => moCmd.out # NoDir
  /\ moPc.exit # "ok" => moOut.tensors = "none"
  /\ moCmd.tool # "merge" => moFile = CoreFiles

ManifestInv ==
  moCmd.tool # "plan" =>
    /\ SequenceOfEntries(moOut.layers)
    /\ CutExactly(moOut.layers, moOut.experts)
    /\ \A i \in DOMAIN moOut.layers : IsFrom(moOut.layers[i], Given)
    /\ moOut.dense \in {<<>>, moOut.layers}

\* The files that still have to be read are as they were, and what was copied is in place.
CopiesSound ==
  /\ \A y \in Pairs : /\ SourcePath(y[1], y[2]) \in DOMAIN moFile
                      /\ moFile[SourcePath(y[1], y[2])] = y[2].sum
  /\ \A x \in Range(moOut.experts) :
        \/ \E j \in DOMAIN moTodo : moTodo[j].expert = x
        \/ /\ <<moCmd.out, x.layer, x.expert>> \in DOMAIN moFile
           /\ moFile[<<moCmd.out, x.layer, x.expert>>] = x.sum

MergeInv ==
  moCmd.tool = "merge" =>
    /\ SequenceOfEntries(moOut.experts) /\ SequenceOfEntries(moTodo)
    /\ \A x \in Range(moOut.experts) :
          \E n \in Range(moCmd.cores) :
             /\ x \in Range(Cores[n].experts)
             /\ \E i \in DOMAIN choose_compute_layers(moCmd.cores, moCmd.wanted) :
                   choose_compute_layers(moCmd.cores, moCmd.wanted)[i].core = n
    /\ \A j \in DOMAIN moTodo : /\ moTodo[j].core \in Range(moCmd.cores)
                                /\ moTodo[j].expert \in Range(Cores[moTodo[j].core].experts)
                                /\ moTodo[j].expert \in Range(moOut.experts)
    /\ IF moCmd.out # NoDir THEN SourcesSound => CopiesSound ELSE moFile = CoreFiles
    /\ moCmd.out # NoDir /\ moPc.at \in {"index", "end"} => moTodo = <<>>

IndexSound == SourcesSound => IndexRight

TablesThere ==
  moOut.tensors = "ready" =>
    \A n \in {"embed.weight", "head.weight"} :
      \E i \in DOMAIN moOut.layers : \E k \in DOMAIN moOut.layers[i].block :
        moOut.layers[i].block[k].name = n

EndInv ==
  moPc.exit = "ok" => IF moCmd.tool = "plan" THEN PlanAccepted ELSE IndexSound /\ TablesThere

OpsInv == OpsTyped /\ ManifestInv /\ MergeInv /\ EndInv

LEMMA OpsShows == OpsInv => MergedServable
<1> SUFFICES ASSUME OpsInv, moPc.exit = "ok" PROVE MergedServable
  BY DEF MergedServable
<1>1. CASE moCmd.tool = "plan"
  BY <1>1 DEF OpsInv, EndInv, MergedServable
<1>2. CASE moCmd.tool # "plan"
  <2>1. IndexSound /\ TablesThere
    BY <1>2 DEF OpsInv, EndInv
  <2>2. WindowsExact
    <3>1. /\ CutExactly(moOut.layers, moOut.experts)
          /\ \A i \in DOMAIN moOut.layers : IsFrom(moOut.layers[i], Given)
      BY <1>2 DEF OpsInv, ManifestInv
    <3> QED BY <3>1 DEF WindowsExact, CutExactly, Holders, IsFrom, Given
  <2>3. ASSUME SourcesSound PROVE CopiesRight
    <3> SUFFICES ASSUME moCmd.tool = "merge", moCmd.out # NoDir, NEW x \in Range(moOut.experts)
                 PROVE  RightFile(<<moCmd.out, x.layer, x.expert>>, x)
      BY DEF CopiesRight
    <3>1. moTodo = <<>> /\ CopiesSound
      BY <2>3 DEF OpsInv, OpsTyped, MergeInv
    <3>2. ~ \E j \in DOMAIN moTodo : moTodo[j].expert = x
      BY <3>1
    <3> QED BY <3>1, <3>2 DEF CopiesSound, RightFile
  <2> QED BY <1>2, <2>1, <2>2, <2>3 DEF MergedServable, IndexSound, TablesThere
<1> QED BY <1>1, <1>2

LEMMA OpsStarts == OpsInit => OpsInv
<1> SUFFICES ASSUME OpsInit PROVE OpsInv
  OBVIOUS
<1>0. /\ moOut.layers = <<>> /\ moOut.experts = <<>> /\ moOut.dense = <<>> /\ moTodo = <<>>
      /\ moPc.exit = "none" /\ moPc.at = "start" /\ moFile = CoreFiles
  BY DEF OpsInit, NoOutput
<1>1. OpsTyped
  BY <1>0 DEF OpsTyped, OpsInit, NoOutput, OutputFields
<1>2. DOMAIN <<>> = {} /\ Range(<<>>) = {} /\ SequenceOfEntries(<<>>)
  BY DEF Range, SequenceOfEntries
<1>3. ManifestInv
  BY <1>0, <1>2 DEF ManifestInv, CutExactly
<1>4. CopiesSound <=> TRUE
  BY <1>0, <1>2 DEF CopiesSound, Pairs
<1>5. MergeInv
  BY <1>0, <1>2, <1>4 DEF MergeInv
<1> QED BY <1>0, <1>1, <1>3, <1>5 DEF OpsInv, EndInv

---------------------------------------------------------------------------
(* Paths *)

LEMMA ShardFound ==
  ASSUME CoresAssumption, NEW n \in DOMAIN Cores, NEW x, ShardOf(Cores[n], x) # <<>>
  PROVE  LET s == Last(ShardOf(Cores[n], x))
         IN  /\ s \in Range(Cores[n].shards) /\ s.layer = x.layer /\ s.expert = x.expert
             /\ s.path = <<s.path[1], x.layer, x.expert>>
<1> DEFINE shards == Cores[n].shards
           places == {i \in DOMAIN shards : shards[i].layer = x.layer /\ shards[i].expert = x.expert}
           picked == Pick(shards, places)
           s == Last(picked)
<1>1. ShardOf(Cores[n], x) = picked
  BY DEF ShardOf
<1>2. shards \in Seq(Range(shards)) /\ places \subseteq DOMAIN shards
  BY DEF CoresAssumption
<1> HIDE DEF shards, places
<1>3. /\ picked \in Seq(Range(shards))
      /\ \A k \in DOMAIN picked : \E i \in places : picked[k] = shards[i]
  BY <1>2, PickSome
<1> HIDE DEF picked
<1>4. Len(picked) \in DOMAIN picked
  BY <1>1, <1>3
<1>5. PICK i \in places : s = shards[i]
  BY <1>3, <1>4 DEF Last
<1>6. s \in Range(shards) /\ s.layer = x.layer /\ s.expert = x.expert
  BY <1>2, <1>5 DEF places, Range
<1>7. s.path = <<s.path[1], s.layer, s.expert>>
  <2> HIDE DEF s
  <2> QED BY <1>6 DEF CoresAssumption, shards
<1> QED BY <1>1, <1>6, <1>7 DEF shards

LEMMA SourceNamed ==
  ASSUME CoresAssumption, NEW n \in DOMAIN Cores, NEW x
  PROVE  /\ SourcePath(n, x) = <<SourcePath(n, x)[1], x.layer, x.expert>>
         /\ SourcePath(n, x)[1] # Here
<1>0. Cores[n].dir # Here
  BY DEF CoresAssumption
<1>1. CASE ShardOf(Cores[n], x) = <<>>
  <2>1. SourcePath(n, x) = <<Cores[n].dir, x.layer, x.expert>>
    BY <1>1 DEF SourcePath
  <2> QED BY <1>0, <2>1
<1>2. CASE ShardOf(Cores[n], x) # <<>>
  <2> DEFINE s == Last(ShardOf(Cores[n], x))
             p == s.path
  <2>1. p = <<p[1], x.layer, x.expert>>
    BY <1>2, ShardFound
  <2>2. SourcePath(n, x) = Resolve(Cores[n].dir, p)
    BY <1>2 DEF SourcePath
  <2> HIDE DEF p
  <2>3. CASE p[1] = Here
    <3>1. SourcePath(n, x) = <<Cores[n].dir, p[2], p[3]>>
      BY <2>2, <2>3 DEF Resolve
    <3>2. p[2] = x.layer /\ p[3] = x.expert
      BY <2>1
    <3> QED BY <1>0, <3>1, <3>2
  <2>4. CASE p[1] # Here
    <3>1. SourcePath(n, x) = p
      BY <2>2, <2>4 DEF Resolve
    <3> QED BY <2>1, <2>4, <3>1
  <2> QED BY <2>3, <2>4
<1> QED BY <1>1, <1>2

---------------------------------------------------------------------------
(* The steps of a merge *)

LEMMA SoundSame ==
  ASSUME moCmd' = moCmd, moOut'.experts = moOut.experts
  PROVE  (SourcesSound' <=> SourcesSound) /\ Pairs' = Pairs
<1>1. Pairs' = Pairs
  BY DEF Pairs
<1>2. SourcesSound' <=> SourcesSound
  BY DEF SourcesSound, Kept
<1> QED BY <1>1, <1>2

\* What sound sources give a merge.
SourcesRight ==
  /\ \A y \in Pairs : /\ SourcePath(y[1], y[2]) \in DOMAIN CoreFiles
                      /\ CoreFiles[SourcePath(y[1], y[2])] = y[2].sum
  /\ \A y, z \in Pairs : y[2].layer = z[2].layer /\ y[2].expert = z[2].expert => y[2] = z[2]
  /\ moCmd.out # NoDir \/ \A y \in Pairs : Cores[y[1]].dir = moCmd.dir

LEMMA MergeSources == moCmd.tool = "merge" /\ SourcesSound => SourcesRight
<1> SUFFICES ASSUME moCmd.tool = "merge", SourcesSound PROVE SourcesRight
  OBVIOUS
<1>1. /\ \A y \in Pairs : Kept(y[1], y[2])
      /\ \A y, z \in Pairs : y[2].layer = z[2].layer /\ y[2].expert = z[2].expert => y[2] = z[2]
      /\ moCmd.out # NoDir \/ \A y \in Pairs : Cores[y[1]].dir = moCmd.dir
  BY DEF SourcesSound, Pairs
<1>2. ASSUME NEW y \in Pairs
      PROVE  /\ SourcePath(y[1], y[2]) \in DOMAIN CoreFiles
             /\ CoreFiles[SourcePath(y[1], y[2])] = y[2].sum
  <2>1. Kept(y[1], y[2])
    BY <1>1
  <2> QED BY <2>1 DEF Kept, SourcePath
<1> QED BY <1>1, <1>2 DEF SourcesRight

LEMMA MergeCommand ==
  ASSUME moCmd \in OpCommands, moCmd.tool = "merge"
  PROVE  /\ moCmd.cores \in Seq(DOMAIN Cores) /\ moCmd.globals \in Seq(DOMAIN Cores)
         /\ choose_compute_layers(moCmd.cores, moCmd.wanted) \in Seq(LayerChoice(moCmd.cores))
         /\ \A n \in Range(moCmd.cores) : n \in DOMAIN Cores
<1>1. moCmd.cores \in Seq(DOMAIN Cores) /\ moCmd.globals \in Seq(DOMAIN Cores)
  BY OpsAssumption DEF CommandsAssumption
<1>2. choose_compute_layers(moCmd.cores, moCmd.wanted) \in Seq(LayerChoice(moCmd.cores))
  BY <1>1, OpsAssumption, ChosenLayers
<1>3. \A n \in Range(moCmd.cores) : n \in DOMAIN Cores
  BY <1>1 DEF Range
<1> QED BY <1>1, <1>2, <1>3

LEMMA GlobalLayers ==
  ASSUME CoresAssumption, NEW n \in DOMAIN Cores
  PROVE  /\ SequenceOfEntries(choose_single_layer(Cores[n]))
         /\ \A k \in DOMAIN choose_single_layer(Cores[n]) :
               choose_single_layer(Cores[n])[k] \in Range(Cores[n].layers)
<1> DEFINE layers == Cores[n].layers
           places == {i \in DOMAIN layers : layers[i].id = 0}
           picked == Pick(layers, places)
<1>1. layers \in Seq(Range(layers)) /\ places \subseteq DOMAIN layers
  BY DEF CoresAssumption
<1> HIDE DEF places, layers
<1>2. picked \in Seq(Range(layers))
  BY <1>1, PickSome
<1>3. choose_single_layer(Cores[n]) = picked
  BY DEF choose_single_layer, layers, places
<1> HIDE DEF picked
<1>4. SequenceOfEntries(picked) /\ DOMAIN picked = 1 .. Len(picked)
      /\ \A k \in 1 .. Len(picked) : picked[k] \in Range(layers)
  BY <1>2, AsEntries
<1> QED BY <1>3, <1>4 DEF layers

LEMMA MergeCoreKeeps == OpsInv /\ MergeCore => OpsInv'
<1> SUFFICES ASSUME OpsInv, MergeCore PROVE OpsInv'
  OBVIOUS
<1> DEFINE chosen == choose_compute_layers(moCmd.cores, moCmd.wanted)
           experts == TakenExperts(chosen)
           made == Entries(chosen, experts)
           globals == [i \in DOMAIN moCmd.globals |-> choose_single_layer(Cores[moCmd.globals[i]])]
           entries == [i \in DOMAIN globals |-> GlobalEntry(Head(globals[i]))]
<1>1. /\ moPc.at = "start" /\ moCmd.tool = "merge" /\ moCmd' = moCmd /\ moFile' = moFile
      /\ moCmd \in OpCommands /\ moOut = NoOutput /\ moTodo = <<>> /\ moFile = CoreFiles
      /\ moPc \in [at : {"start", "copy", "index", "end"}, exit : {"none", "ok", "error"}]
      /\ moPc.exit = "none"
  BY DEF MergeCore, OpsInv, OpsTyped
<1>2. /\ moCmd.cores \in Seq(DOMAIN Cores) /\ moCmd.globals \in Seq(DOMAIN Cores)
      /\ chosen \in Seq(LayerChoice(moCmd.cores))
      /\ \A n \in Range(moCmd.cores) : n \in DOMAIN Cores
  BY <1>1, MergeCommand
<1>3. CASE moPc' = [at |-> "end", exit |-> "error"] /\ UNCHANGED <<moOut, moTodo>>
  <2>1. moOut' = NoOutput /\ moTodo' = <<>> /\ moPc'.at = "end" /\ moPc'.exit = "error"
    BY <1>1, <1>3
  <2>2. OpsTyped'
    BY <1>1, <1>3, <2>1 DEF OpsTyped, NoOutput, OutputFields
  <2>3. ManifestInv'
    BY <1>1, <1>3 DEF OpsInv, ManifestInv, Given
  <2>4. (SourcesSound' <=> SourcesSound) /\ Pairs' = Pairs
    BY <1>1, <1>3, SoundSame
  <2>5. CopiesSound' <=> CopiesSound
    BY <1>1, <1>3, <2>4 DEF CopiesSound
  <2>6. MergeInv'
    BY <1>1, <1>3, <2>1, <2>4, <2>5 DEF OpsInv, MergeInv
  <2>7. EndInv'
    BY <2>1 DEF EndInv
  <2> QED BY <2>2, <2>3, <2>6, <2>7 DEF OpsInv
<1>4. CASE ~(moPc' = [at |-> "end", exit |-> "error"] /\ UNCHANGED <<moOut, moTodo>>)
  <2>1. /\ ~(chosen = <<>> \/ <<>> \in Range(globals))
        /\ moPc' = [moPc EXCEPT !.at = IF moCmd.out = NoDir THEN "index" ELSE "copy"]
        /\ moOut' = [moOut EXCEPT !.layers = entries \o made.layers, !.experts = made.experts]
        /\ moTodo' = TaggedExperts(chosen)
    BY <1>4 DEF MergeCore, OpsEnd, TakenExperts, TaggedExperts
  <2> HIDE DEF made
  <2>2. /\ moOut'.layers = entries \o made.layers /\ moOut'.experts = made.experts
        /\ moOut'.dense = <<>> /\ moOut'.tensors = "none" /\ DOMAIN moOut' = OutputFields
    BY <1>1, <2>1 DEF NoOutput, OutputFields
  <2>3. /\ moPc' \in [at : {"start", "copy", "index", "end"}, exit : {"none", "ok", "error"}]
        /\ moPc'.at = (IF moCmd.out = NoDir THEN "index" ELSE "copy") /\ moPc'.exit = "none"
    BY <1>1, <2>1
  <2>4. OpsTyped'
    BY <1>1, <2>2, <2>3 DEF OpsTyped
  <2>5. /\ DOMAIN moCmd.globals = 1 .. Len(moCmd.globals) /\ Len(moCmd.globals) \in Nat
        /\ \A i \in DOMAIN moCmd.globals : moCmd.globals[i] \in Range(moCmd.globals)
                                           /\ moCmd.globals[i] \in DOMAIN Cores
    BY <1>2 DEF Range
  <2>6. ASSUME NEW i \in 1 .. Len(moCmd.globals)
        PROVE  \E n \in Range(moCmd.globals) : \E l \in Range(Cores[n].layers) : entries[i] = GlobalEntry(l)
    <3> DEFINE n == moCmd.globals[i]
               g == choose_single_layer(Cores[n])
    <3>1. n \in DOMAIN Cores /\ n \in Range(moCmd.globals) /\ i \in DOMAIN moCmd.globals
      BY <2>5
    <3>2. entries[i] = GlobalEntry(Head(g)) /\ globals[i] = g
      BY <3>1
    <3>3. g # <<>>
      BY <2>1, <3>1, <3>2 DEF Range
    <3> HIDE DEF g
    <3>4. SequenceOfEntries(g) /\ \A k \in DOMAIN g : g[k] \in Range(Cores[n].layers)
      BY <3>1, OpsAssumption, GlobalLayers DEF g
    <3>5. Head(g) = g[1] /\ 1 \in DOMAIN g
      BY <3>3, <3>4 DEF SequenceOfEntries
    <3> QED BY <3>1, <3>2, <3>4, <3>5
  <2>7. SequenceOfEntries(entries) /\ Len(entries) = Len(moCmd.globals)
    <3> DEFINE S == {GlobalEntry(Head(globals[i])) : i \in 1 .. Len(moCmd.globals)}
    <3>1. DOMAIN entries = 1 .. Len(moCmd.globals)
      BY <2>5
    <3>2. entries = [i \in 1 .. Len(moCmd.globals) |-> GlobalEntry(Head(globals[i]))]
      BY <2>5
    <3>3. [i \in 1 .. Len(moCmd.globals) |-> GlobalEntry(Head(globals[i]))] \in [1 .. Len(moCmd.globals) -> S]
      <4> HIDE DEF globals
      <4> QED OBVIOUS
    <3> DEFINE m == Len(moCmd.globals)
    <3> HIDE DEF entries, S, globals
    <3>4. entries \in [1 .. m -> S] /\ m \in Nat
      BY <2>5, <3>2, <3>3
    <3> HIDE DEF m
    <3>5. entries \in Seq(S) /\ Len(entries) = m
      BY <3>4, SeqDef, LenProperties
    <3> QED BY <3>5, AsEntries DEF m
  <2> HIDE DEF entries, globals, chosen
  <2>8. \A i \in 1 .. Len(entries) :
           \E n \in Range(moCmd.globals) : \E l \in Range(Cores[n].layers) : entries[i] = GlobalEntry(l)
    BY <2>6, <2>7
  <2>9. /\ SequenceOfEntries(entries \o made.layers) /\ CutExactly(entries \o made.layers, made.experts)
        /\ \A i \in DOMAIN (entries \o made.layers) :
              IsFrom((entries \o made.layers)[i], Range(moCmd.cores) \cup Range(moCmd.globals))
        /\ made.experts = FlattenSeq(experts)
    <3>1. /\ CoresAssumption /\ moCmd.cores \in Seq(DOMAIN Cores) /\ moCmd.globals \in Seq(DOMAIN Cores)
          /\ chosen \in Seq(LayerChoice(moCmd.cores))
      BY <1>2, OpsAssumption
    <3>2. AreGlobals(entries, moCmd.globals)
      BY <2>7, <2>8 DEF AreGlobals
    <3> QED BY <3>1, <3>2, MergedManifest DEF made
  <2>10. ManifestInv'
    <3>1. Given' = Range(moCmd.cores) \cup Range(moCmd.globals)
      BY <1>1 DEF Given
    <3> QED BY <2>2, <2>9, <3>1 DEF ManifestInv
  <2> DEFINE all == FlattenSeq(TakenExperts(chosen))
             tagged == TaggedExperts(chosen)
  <2>11. /\ SequenceOfEntries(all) /\ SequenceOfEntries(tagged)
         /\ \A x \in Range(all) : \E i \in DOMAIN chosen : x \in Range(Cores[chosen[i].core].experts)
         /\ \A j \in DOMAIN tagged : /\ tagged[j].core \in Range(moCmd.cores)
                                     /\ tagged[j].expert \in Range(Cores[tagged[j].core].experts)
                                     /\ tagged[j].expert \in Range(all)
         /\ \A x \in Range(all) : \E j \in DOMAIN tagged : tagged[j].expert = x
    BY <1>2, OpsAssumption, FilesToCopy
  <2> HIDE DEF all, tagged
  <2>12. moOut'.experts = all /\ moTodo' = tagged
    BY <2>1, <2>2, <2>9 DEF all, tagged
  <2>13. ASSUME SourcesSound' PROVE CopiesSound'
    <3>1. (moCmd.tool = "merge")'
      BY <1>1
    <3>2. SourcesRight'
      BY <2>13, <3>1, MergeSources, PTL
    <3>3. moFile' = CoreFiles
      BY <1>1
    <3>4. \A x \in Range(moOut'.experts) : \E j \in DOMAIN moTodo' : moTodo'[j].expert = x
      BY <2>11, <2>12
    <3> QED BY <3>2, <3>3, <3>4 DEF CopiesSound, SourcesRight
  <2>14. \A x \in Range(all) :
            \E n \in Range(moCmd.cores) : /\ x \in Range(Cores[n].experts)
                                          /\ \E i \in DOMAIN chosen : chosen[i].core = n
    <3> SUFFICES ASSUME NEW x \in Range(all)
                 PROVE  \E n \in Range(moCmd.cores) : /\ x \in Range(Cores[n].experts)
                                                      /\ \E i \in DOMAIN chosen : chosen[i].core = n
      OBVIOUS
    <3>1. PICK i \in DOMAIN chosen : x \in Range(Cores[chosen[i].core].experts)
      BY <2>11
    <3>2. /\ DOMAIN chosen = 1 .. Len(chosen)
          /\ \A k \in 1 .. Len(chosen) : chosen[k].core \in Range(moCmd.cores)
      BY <1>2, OpsAssumption, TakenLayers
    <3> QED BY <3>1, <3>2
  <2>15. MergeInv'
    <3>1. chosen' = chosen
      BY <1>1 DEF chosen
    <3>2. moCmd'.out = moCmd.out /\ moCmd'.cores = moCmd.cores
      BY <1>1
    <3>3. moCmd.out = NoDir => moFile' = CoreFiles
      BY <1>1
    <3>4. ~(moCmd.out # NoDir /\ moPc'.at \in {"index", "end"})
      BY <2>3
    <3>5. /\ SequenceOfEntries(moOut'.experts) /\ SequenceOfEntries(moTodo')
          /\ \A x \in Range(moOut'.experts) :
                \E n \in Range(moCmd.cores) : /\ x \in Range(Cores[n].experts)
                                              /\ \E i \in DOMAIN chosen : chosen[i].core = n
          /\ \A j \in DOMAIN moTodo' : /\ moTodo'[j].core \in Range(moCmd.cores)
                                       /\ moTodo'[j].expert \in Range(Cores[moTodo'[j].core].experts)
                                       /\ moTodo'[j].expert \in Range(moOut'.experts)
      BY <2>11, <2>12, <2>14
    <3> QED BY <1>1, <2>13, <3>2, <3>3, <3>4, <3>5 DEF MergeInv, chosen
  <2>16. EndInv'
    BY <2>3 DEF EndInv
  <2> QED BY <2>4, <2>10, <2>15, <2>16 DEF OpsInv
<1> QED BY <1>3, <1>4

LEMMA ManifestSame ==
  ASSUME moCmd' = moCmd, ManifestInv,
         moOut'.layers = moOut.layers /\ moOut'.experts = moOut.experts /\ moOut'.dense = moOut.dense
  PROVE  ManifestInv'
  BY DEF ManifestInv, Given

LEMMA CopyKeeps == OpsInv /\ CopyExpertShard => OpsInv'
<1> SUFFICES ASSUME OpsInv, CopyExpertShard PROVE OpsInv'
  OBVIOUS
<1> DEFINE job == Head(moTodo)
           n == job.core
           x == job.expert
           from == resolve_expert_path(Cores[n], x)
           to == <<moCmd.out, x.layer, x.expert>>
<1>1. /\ moPc.at = "copy" /\ moTodo # <<>> /\ moTodo' = Tail(moTodo)
      /\ moCmd' = moCmd /\ moPc' = moPc /\ moOut' = moOut
      /\ moCmd.tool = "merge" /\ moCmd \in OpCommands /\ moPc.exit = "none"
  BY DEF CopyExpertShard, OpsInv, OpsTyped
<1>2. from \in DOMAIN moFile => moFile' = [p \in DOMAIN moFile \cup {to} |-> moFile[IF p = to THEN from ELSE p]]
  BY DEF CopyExpertShard
<1>3. /\ SequenceOfEntries(moOut.experts) /\ SequenceOfEntries(moTodo)
      /\ \A y \in Range(moOut.experts) :
            \E m \in Range(moCmd.cores) :
               /\ y \in Range(Cores[m].experts)
               /\ \E i \in DOMAIN choose_compute_layers(moCmd.cores, moCmd.wanted) :
                     choose_compute_layers(moCmd.cores, moCmd.wanted)[i].core = m
      /\ \A j \in DOMAIN moTodo : /\ moTodo[j].core \in Range(moCmd.cores)
                                  /\ moTodo[j].expert \in Range(Cores[moTodo[j].core].experts)
                                  /\ moTodo[j].expert \in Range(moOut.experts)
      /\ IF moCmd.out # NoDir THEN SourcesSound => CopiesSound ELSE moFile = CoreFiles
  BY <1>1 DEF OpsInv, MergeInv
<1>4. moCmd.out # NoDir
  BY <1>1 DEF OpsInv, OpsTyped
<1>5. \A m \in Range(moCmd.cores) : m \in DOMAIN Cores
  BY <1>1, MergeCommand
<1>6. moTodo = <<job>> \o Tail(moTodo) /\ SequenceOfEntries(Tail(moTodo))
      /\ DOMAIN moTodo = 1 .. Len(moTodo) /\ Len(moTodo) \in Nat /\ Len(moTodo) >= 1
      /\ DOMAIN Tail(moTodo) = 1 .. Len(moTodo) - 1
      /\ \A j \in 1 .. Len(moTodo) - 1 : Tail(moTodo)[j] = moTodo[j + 1]
      /\ job = moTodo[1]
  <2> DEFINE V == Range(moTodo)
             s == moTodo
  <2>1. s \in Seq(V) /\ s # <<>>
    BY <1>1, <1>3 DEF SequenceOfEntries
  <2> HIDE DEF V, s
  <2>2. /\ s = <<Head(s)>> \o Tail(s) /\ Tail(s) \in Seq(V)
        /\ DOMAIN s = 1 .. Len(s) /\ Len(s) \in Nat /\ Len(s) >= 1
        /\ DOMAIN Tail(s) = 1 .. Len(s) - 1 /\ \A j \in 1 .. Len(s) - 1 : Tail(s)[j] = s[j + 1]
        /\ Head(s) = s[1]
    <3>1. DOMAIN s = 1 .. Len(s) /\ Len(s) \in Nat /\ Len(s) >= 1
      BY <2>1
    <3>2. Tail(s) \in Seq(V) /\ Len(Tail(s)) = Len(s) - 1 /\ Head(s) = s[1]
          /\ \A j \in 1 .. Len(s) - 1 : Tail(s)[j] = s[j + 1]
      BY <2>1
    <3>3. s = <<Head(s)>> \o Tail(s)
      BY <2>1
    <3> QED BY <3>1, <3>2, <3>3
  <2>3. SequenceOfEntries(Tail(s))
    BY <2>2, AsEntries
  <2> QED BY <2>2, <2>3 DEF s
<1>7. /\ n \in Range(moCmd.cores) /\ n \in DOMAIN Cores
      /\ x \in Range(Cores[n].experts) /\ x \in Range(moOut.experts) /\ <<n, x>> \in Pairs
  <2>1. 1 \in DOMAIN moTodo
    BY <1>6
  <2>2. n \in Range(moCmd.cores) /\ x \in Range(Cores[n].experts) /\ x \in Range(moOut.experts)
    BY <1>3, <1>6, <2>1
  <2> HIDE DEF n, x
  <2> QED BY <1>5, <2>2 DEF Pairs
<1>8. (SourcesSound' <=> SourcesSound) /\ Pairs' = Pairs
  BY <1>1, SoundSame
<1> HIDE DEF n, x, job, from, to
<1>9. OpsTyped' /\ ManifestInv' /\ EndInv'
  <2>1. OpsTyped'
    BY <1>1 DEF OpsInv, OpsTyped
  <2>2. ManifestInv'
    BY <1>1, ManifestSame DEF OpsInv
  <2>3. EndInv'
    BY <1>1 DEF EndInv
  <2> QED BY <2>1, <2>2, <2>3
<1>10. ASSUME SourcesSound' PROVE CopiesSound'
  <2>1. SourcesSound /\ CopiesSound
    BY <1>3, <1>4, <1>8, <1>10
  <2>2. /\ \A y \in Pairs : /\ SourcePath(y[1], y[2]) \in DOMAIN moFile
                             /\ moFile[SourcePath(y[1], y[2])] = y[2].sum
        /\ \A y \in Range(moOut.experts) :
              \/ \E j \in DOMAIN moTodo : moTodo[j].expert = y
              \/ /\ <<moCmd.out, y.layer, y.expert>> \in DOMAIN moFile
                 /\ moFile[<<moCmd.out, y.layer, y.expert>>] = y.sum
    BY <2>1 DEF CopiesSound
  <2>3. \A y, z \in Pairs : y[2].layer = z[2].layer /\ y[2].expert = z[2].expert => y[2] = z[2]
    BY <1>1, <2>1, MergeSources DEF SourcesRight
  <2>4. SourcePath(n, x) \in DOMAIN moFile /\ moFile[SourcePath(n, x)] = x.sum
    BY <1>7, <2>2
  <2>5. from = SourcePath(n, x)
    BY <2>4 DEF from, resolve_expert_path, SourcePath
  <2>6. moFile' = [p \in DOMAIN moFile \cup {to} |-> moFile[IF p = to THEN from ELSE p]]
    BY <1>2, <2>4, <2>5
  <2>7. /\ DOMAIN moFile' = DOMAIN moFile \cup {to} /\ moFile'[to] = x.sum
        /\ \A p \in DOMAIN moFile : p # to => moFile'[p] = moFile[p]
    BY <2>4, <2>5, <2>6
  \* A file with the name that is written holds the same expert.
  <2>8. ASSUME NEW m \in Range(moCmd.cores), NEW y \in Range(moOut.experts),
               y \in Range(Cores[m].experts), y.layer = x.layer, y.expert = x.expert
        PROVE  y = x
    <3>1. <<m, y>> \in Pairs
      BY <2>8 DEF Pairs
    <3> QED BY <1>7, <2>3, <2>8, <3>1
  <2>9. ASSUME NEW y \in Pairs
        PROVE  /\ SourcePath(y[1], y[2]) \in DOMAIN moFile'
               /\ moFile'[SourcePath(y[1], y[2])] = y[2].sum
    <3> DEFINE p == SourcePath(y[1], y[2])
    <3>1. p \in DOMAIN moFile /\ moFile[p] = y[2].sum
      BY <2>2
    <3>2. CASE p # to
      BY <2>7, <3>1, <3>2
    <3>3. CASE p = to
      <4>1. /\ y[1] \in Range(moCmd.cores) /\ y[2] \in Range(moOut.experts)
            /\ y[2] \in Range(Cores[y[1]].experts)
        BY DEF Pairs
      <4>2. y[1] \in DOMAIN Cores
        BY <1>5, <4>1
      <4>3. p = <<p[1], y[2].layer, y[2].expert>>
        BY <4>2, OpsAssumption, SourceNamed
      <4> HIDE DEF p
      <4>4. y[2].layer = x.layer /\ y[2].expert = x.expert
        BY <3>3, <4>3 DEF to
      <4>5. y[2] = x
        BY <2>8, <4>1, <4>4
      <4> QED BY <2>7, <3>1, <3>3, <4>5 DEF p
    <3> QED BY <3>2, <3>3
  <2>10. ASSUME NEW y \in Range(moOut.experts)
         PROVE  \/ \E j \in DOMAIN moTodo' : moTodo'[j].expert = y
                \/ /\ <<moCmd.out, y.layer, y.expert>> \in DOMAIN moFile'
                   /\ moFile'[<<moCmd.out, y.layer, y.expert>>] = y.sum
    <3> DEFINE q == <<moCmd.out, y.layer, y.expert>>
    <3>0. PICK m \in Range(moCmd.cores) : y \in Range(Cores[m].experts)
      BY <1>3
    <3>1. CASE y = x
      BY <2>7, <3>1 DEF to
    <3>2. CASE y # x /\ \E j \in DOMAIN moTodo : moTodo[j].expert = y
      <4>1. PICK j \in DOMAIN moTodo : moTodo[j].expert = y
        BY <3>2
      <4>2. j # 1
        BY <1>6, <3>2, <4>1 DEF x
      <4>3. j - 1 \in 1 .. Len(moTodo) - 1 /\ (j - 1) + 1 = j
        BY <1>6, <4>2
      <4>4. j - 1 \in DOMAIN moTodo' /\ moTodo'[j - 1] = moTodo[j]
        BY <1>1, <1>6, <4>3
      <4> QED BY <4>1, <4>4
    <3>3. CASE y # x /\ q \in DOMAIN moFile /\ moFile[q] = y.sum
      <4>1. q # to
        <5>1. SUFFICES ASSUME q = to PROVE FALSE
          OBVIOUS
        <5>2. y.layer = x.layer /\ y.expert = x.expert
          BY <5>1 DEF to
        <5> QED BY <2>8, <3>0, <3>3, <5>2
      <4> QED BY <2>7, <3>3, <4>1
    <3> QED BY <2>2, <3>1, <3>2, <3>3
  <2>11. moOut'.experts = moOut.experts /\ moCmd'.out = moCmd.out
    BY <1>1
  <2> QED BY <1>8, <2>9, <2>10, <2>11 DEF CopiesSound
<1>11. MergeInv'
  <2>1. \A j \in DOMAIN moTodo' : \E i \in DOMAIN moTodo : moTodo'[j] = moTodo[i]
    <3> SUFFICES ASSUME NEW j \in 1 .. Len(moTodo) - 1 PROVE \E i \in DOMAIN moTodo : moTodo'[j] = moTodo[i]
      BY <1>1, <1>6
    <3>1. j + 1 \in DOMAIN moTodo /\ moTodo'[j] = moTodo[j + 1]
      BY <1>1, <1>6
    <3> QED BY <3>1
  <2>2. \A j \in DOMAIN moTodo' : /\ moTodo'[j].core \in Range(moCmd.cores)
                                 /\ moTodo'[j].expert \in Range(Cores[moTodo'[j].core].experts)
                                 /\ moTodo'[j].expert \in Range(moOut.experts)
    BY <1>3, <2>1
  <2>3. SequenceOfEntries(moTodo')
    BY <1>1, <1>6
  <2>4. moPc'.at \notin {"index", "end"}
    BY <1>1
  <2> QED BY <1>1, <1>3, <1>4, <1>10, <2>2, <2>3, <2>4 DEF MergeInv
<1> QED BY <1>9, <1>11 DEF OpsInv

LEMMA CopiedKeeps == OpsInv /\ AllCopied => OpsInv'
<1> SUFFICES ASSUME OpsInv, AllCopied PROVE OpsInv'
  OBVIOUS
<1>1. /\ moPc.at = "copy" /\ moTodo = <<>> /\ moPc' = [moPc EXCEPT !.at = "index"]
      /\ moCmd' = moCmd /\ moOut' = moOut /\ moTodo' = moTodo /\ moFile' = moFile
      /\ moCmd.tool = "merge" /\ moPc.exit = "none"
      /\ moPc \in [at : {"start", "copy", "index", "end"}, exit : {"none", "ok", "error"}]
  BY DEF AllCopied, OpsInv, OpsTyped
<1>2. moPc' \in [at : {"start", "copy", "index", "end"}, exit : {"none", "ok", "error"}]
      /\ moPc'.at = "index" /\ moPc'.exit = "none"
  BY <1>1
<1>3. OpsTyped'
  BY <1>1, <1>2 DEF OpsInv, OpsTyped
<1>4. ManifestInv'
  BY <1>1, ManifestSame DEF OpsInv
<1>5. (SourcesSound' <=> SourcesSound) /\ Pairs' = Pairs
  BY <1>1, SoundSame
<1>6. CopiesSound' <=> CopiesSound
  BY <1>1, <1>5 DEF CopiesSound
<1>7. MergeInv'
  BY <1>1, <1>5, <1>6 DEF OpsInv, MergeInv
<1>8. EndInv'
  BY <1>2 DEF EndInv
<1> QED BY <1>3, <1>4, <1>7, <1>8 DEF OpsInv

LEMMA MergeIndexKeeps == OpsInv /\ MergeIndex => OpsInv'
<1> SUFFICES ASSUME OpsInv, MergeIndex PROVE OpsInv'
  OBVIOUS
<1> DEFINE PathOf(x) == LET s == ShardOf(Cores[SourceOf(x)], x)
                        IN  IF moCmd.out # NoDir \/ s = <<>> THEN <<Here, x.layer, x.expert>> ELSE Last(s).path
           xs == moOut.experts
           index == [i \in DOMAIN xs |-> [layer |-> xs[i].layer, expert |-> xs[i].expert,
                                          path |-> PathOf(xs[i]), sum |-> xs[i].sum]]
           chosen == choose_compute_layers(moCmd.cores, moCmd.wanted)
<1>1. /\ moPc.at = "index" /\ moPc' = [at |-> "end", exit |-> "ok"]
      /\ moCmd' = moCmd /\ moTodo' = moTodo /\ moFile' = moFile
      /\ moCmd.tool = "merge" /\ moCmd \in OpCommands /\ DOMAIN moOut = OutputFields
      /\ moPc \in [at : {"start", "copy", "index", "end"}, exit : {"none", "ok", "error"}]
  BY DEF MergeIndex, OpsInv, OpsTyped, OpsEnd
<1>2. moOut' = [moOut EXCEPT !.index = index]
  BY DEF MergeIndex
<1> HIDE DEF index
<1>3. /\ moOut'.index = index /\ moOut'.layers = moOut.layers /\ moOut'.experts = moOut.experts
      /\ moOut'.dense = moOut.dense /\ moOut'.tensors = moOut.tensors /\ DOMAIN moOut' = OutputFields
  BY <1>1, <1>2 DEF OutputFields
<1>4. moPc' \in [at : {"start", "copy", "index", "end"}, exit : {"none", "ok", "error"}]
      /\ moPc'.at = "end" /\ moPc'.exit = "ok"
  BY <1>1
<1>5. OpsTyped'
  BY <1>1, <1>3, <1>4 DEF OpsInv, OpsTyped
<1>6. ManifestInv'
  BY <1>1, <1>3, ManifestSame DEF OpsInv
<1>7. (SourcesSound' <=> SourcesSound) /\ Pairs' = Pairs
  BY <1>1, <1>3, SoundSame
<1>8. CopiesSound' <=> CopiesSound
  BY <1>1, <1>3, <1>7 DEF CopiesSound
<1>9. MergeInv'
  BY <1>1, <1>3, <1>4, <1>7, <1>8 DEF OpsInv, MergeInv
<1>10. /\ SequenceOfEntries(xs)
       /\ \A x \in Range(xs) :
             \E n \in Range(moCmd.cores) : x \in Range(Cores[n].experts) /\ \E i \in DOMAIN chosen : chosen[i].core = n
       /\ IF moCmd.out # NoDir THEN (SourcesSound => CopiesSound) /\ moTodo = <<>> ELSE moFile = CoreFiles
  BY <1>1 DEF OpsInv, MergeInv
<1>11. \A n \in Range(moCmd.cores) : n \in DOMAIN Cores
  BY <1>1, MergeCommand
<1>12. ASSUME NEW x \in Range(xs)
       PROVE  SourceOf(x) \in Range(moCmd.cores) /\ <<SourceOf(x), x>> \in Pairs
  <2> DEFINE names == {chosen[i].core : i \in DOMAIN chosen}
             n == SourceOf(x)
  <2>1. \E m \in names : x \in Range(Cores[m].experts)
    BY <1>10
  <2>2. n = CHOOSE m \in names : x \in Range(Cores[m].experts)
    BY DEF SourceOf
  <2>3. n \in names /\ x \in Range(Cores[n].experts)
    <3> HIDE DEF names, n
    <3> QED BY <2>1, <2>2
  <2>4. names \subseteq Range(moCmd.cores)
    <3>1. /\ DOMAIN chosen = 1 .. Len(chosen)
          /\ \A i \in 1 .. Len(chosen) : chosen[i].core \in Range(moCmd.cores)
      BY <1>1, MergeCommand, OpsAssumption, TakenLayers
    <3> HIDE DEF chosen
    <3> QED BY <3>1
  <2> HIDE DEF n, names
  <2> QED BY <2>3, <2>4 DEF Pairs, n
<1>13. ASSUME SourcesSound, moCmd.out \in {NoDir, moCmd.dir}, NEW x \in Range(xs)
       PROVE  LET path == Resolve(moCmd.dir, PathOf(x))
              IN  path \in DOMAIN moFile /\ moFile[path] = x.sum
  <2> DEFINE n == SourceOf(x)
             s == ShardOf(Cores[n], x)
             path == Resolve(moCmd.dir, PathOf(x))
             usual == <<moCmd.dir, x.layer, x.expert>>
  <2>1. n \in Range(moCmd.cores) /\ <<n, x>> \in Pairs
    BY <1>12
  <2>2. Resolve(moCmd.dir, <<Here, x.layer, x.expert>>) = usual
    BY DEF Resolve
  <2>3. CASE moCmd.out # NoDir
    <3>1. path = usual /\ moCmd.out = moCmd.dir
      BY <1>13, <2>2, <2>3
    <3>2. moTodo = <<>> /\ CopiesSound
      BY <1>10, <1>13, <2>3
    <3>3. usual \in DOMAIN moFile /\ moFile[usual] = x.sum
      <4>1. ~ \E j \in DOMAIN moTodo : moTodo[j].expert = x
        BY <3>2
      <4> QED BY <3>1, <3>2, <4>1 DEF CopiesSound
    <3> HIDE DEF path, usual
    <3> QED BY <3>1, <3>3 DEF path
  <2>4. CASE moCmd.out = NoDir
    <3>1. SourcesRight
      BY <1>1, <1>13, MergeSources
    <3>2. /\ moFile = CoreFiles /\ Cores[n].dir = moCmd.dir
          /\ SourcePath(n, x) \in DOMAIN CoreFiles /\ CoreFiles[SourcePath(n, x)] = x.sum
      <4>1. moFile = CoreFiles
        BY <1>10, <2>4
      <4> HIDE DEF n
      <4>2. Cores[n].dir = moCmd.dir
        BY <2>1, <2>4, <3>1 DEF SourcesRight
      <4>3. SourcePath(n, x) \in DOMAIN CoreFiles /\ CoreFiles[SourcePath(n, x)] = x.sum
        BY <2>1, <3>1 DEF SourcesRight
      <4> QED BY <4>1, <4>2, <4>3
    <3>3. path = SourcePath(n, x)
      <4>1. CASE s = <<>>
        <5>1. PathOf(x) = <<Here, x.layer, x.expert>>
          BY <4>1
        <5> HIDE DEF PathOf
        <5> QED BY <2>2, <3>2, <4>1, <5>1 DEF SourcePath
      <4>2. CASE s # <<>>
        <5>1. PathOf(x) = Last(s).path
          BY <2>4, <4>2
        <5> HIDE DEF PathOf
        <5> QED BY <3>2, <4>2, <5>1 DEF SourcePath
      <4> QED BY <4>1, <4>2
    <3> HIDE DEF path, n
    <3> QED BY <3>2, <3>3 DEF path
  <2> QED BY <2>3, <2>4
<1>14. ASSUME SourcesSound', moCmd.out \in {NoDir, moCmd.dir}, NEW i \in DOMAIN moOut'.index
       PROVE  LET path == Resolve(moCmd.dir, moOut'.index[i].path)
              IN  path \in DOMAIN moFile' /\ moFile'[path] = moOut'.index[i].sum
  <2>1. SourcesSound
    BY <1>7, <1>14
  <2>2. DOMAIN index = DOMAIN xs
    BY DEF index
  <2>3. i \in DOMAIN xs /\ xs[i] \in Range(xs)
    BY <1>3, <1>14, <2>2 DEF Range
  <2>4. index[i].path = PathOf(xs[i]) /\ index[i].sum = xs[i].sum
    BY <2>3 DEF index
  <2> HIDE DEF PathOf
  <2>5. LET path == Resolve(moCmd.dir, PathOf(xs[i]))
        IN  path \in DOMAIN moFile /\ moFile[path] = xs[i].sum
    BY <1>13, <1>14, <2>1, <2>3
  <2> QED BY <1>1, <1>3, <2>4, <2>5
<1>15. IndexSound'
  BY <1>1, <1>14 DEF IndexSound, IndexRight, RightFile
<1>16. TablesThere'
  <2>1. moOut.tensors # "ready"
    BY <1>1 DEF OpsInv, OpsTyped
  <2> QED BY <1>3, <2>1 DEF TablesThere
<1>17. EndInv'
  BY <1>1, <1>15, <1>16 DEF EndInv
<1> QED BY <1>5, <1>6, <1>9, <1>17 DEF OpsInv

---------------------------------------------------------------------------
(* A core for another catalog *)

LEMMA PickHas ==
  ASSUME NEW V, NEW s \in Seq(V), NEW places, places \subseteq DOMAIN s, NEW i \in places
  PROVE  \E k \in DOMAIN Pick(s, places) : Pick(s, places)[k] = s[i]
<1> DEFINE o == Increasing(places)
<1>1. IsFiniteSet(places) /\ places \subseteq Int
  <2>1. DOMAIN s = 1 .. Len(s) /\ Len(s) \in Nat
    OBVIOUS
  <2>2. IsFiniteSet(1 .. Len(s))
    BY <2>1, FS_Interval
  <2> QED BY <2>1, <2>2, FS_Subset
<1>2. o \in Seq(places) /\ \E k \in 1 .. Len(o) : o[k] = i
  BY <1>1, IncreasingSorts
<1> HIDE DEF o
<1>3. DOMAIN o = 1 .. Len(o)
  BY <1>2
<1>4. Pick(s, places) = [k \in DOMAIN o |-> s[o[k]]]
  BY DEF Pick, o
<1> QED BY <1>2, <1>3, <1>4

LEMMA ShardThere ==
  ASSUME CoresAssumption, NEW n \in DOMAIN Cores, NEW x \in Range(Cores[n].shards)
  PROVE  ShardOf(Cores[n], x) # <<>>
<1> DEFINE shards == Cores[n].shards
           places == {i \in DOMAIN shards : shards[i].layer = x.layer /\ shards[i].expert = x.expert}
<1>1. shards \in Seq(Range(shards)) /\ places \subseteq DOMAIN shards
  BY DEF CoresAssumption
<1>2. \E i \in places : TRUE
  BY DEF Range
<1>3. ShardOf(Cores[n], x) = Pick(shards, places)
  BY DEF ShardOf
<1> HIDE DEF shards, places
<1>4. PICK i \in places : TRUE
  BY <1>2
<1>5. \E k \in DOMAIN Pick(shards, places) : Pick(shards, places)[k] = shards[i]
  BY <1>1, PickHas
<1> QED BY <1>3, <1>5

\* Where a rebased path leads from the directory of the new core.
LEMMA RebasedLeads ==
  ASSUME NEW p, p = <<p[1], p[2], p[3]>>, p[1] # Here, NEW dir
  PROVE  Resolve(dir, IF p[1] = dir THEN <<Here, p[2], p[3]>> ELSE p) = p
<1>1. CASE p[1] = dir
  <2>1. Resolve(dir, <<Here, p[2], p[3]>>) = <<dir, p[2], p[3]>>
    BY DEF Resolve
  <2> QED BY <1>1, <2>1
<1>2. CASE p[1] # dir
  BY <1>2 DEF Resolve
<1> QED BY <1>1, <1>2

LEMMA CatalogShards ==
  ASSUME CoresAssumption, NEW n \in DOMAIN Cores
  PROVE  LET shards == load_expert_shards(Cores[n])
         IN  /\ IsFiniteSet(shards)
             /\ \A s \in shards : s.expert \in Int
             /\ \A s, t \in shards : s.layer = t.layer /\ s.expert = t.expert => s = t
             /\ (\A x \in Range(Cores[n].shards) : Kept(n, x)) =>
                   \A s \in shards : /\ Resolve(moCmd.dir, s.path) \in DOMAIN CoreFiles
                                     /\ CoreFiles[Resolve(moCmd.dir, s.path)] = s.sum
<1> DEFINE core == Cores[n]
           S == Range(core.shards)
           last(s) == Last(ShardOf(core, s))
           full(s) == Resolve(core.dir, last(s).path)
           path(s) == IF full(s)[1] = moCmd.dir THEN <<Here, full(s)[2], full(s)[3]>> ELSE full(s)
           made(s) == [layer |-> s.layer, expert |-> s.expert, path |-> path(s), sum |-> last(s).sum]
           shards == load_expert_shards(core)
<1>1. shards = {made(s) : s \in S}
  BY DEF load_expert_shards
<1>2. \A s \in S : ShardOf(core, s) # <<>> /\ s.expert \in Int
  <2>1. \A s \in S : ShardOf(core, s) # <<>>
    BY ShardThere
  <2>2. \A s \in S : s.expert \in Int
    BY DEF CoresAssumption
  <2> QED BY <2>1, <2>2
<1>3. IsFiniteSet(S)
  <2> DEFINE list == core.shards
  <2>1. list \in Seq(Range(list))
    BY DEF CoresAssumption
  <2> HIDE DEF list
  <2>2. DOMAIN list = 1 .. Len(list) /\ Len(list) \in Nat
    BY <2>1
  <2>3. IsFiniteSet(1 .. Len(list))
    BY <2>2, FS_Interval
  <2>4. list \in Surjection(1 .. Len(list), Range(list))
    BY <2>1, <2>2 DEF Surjection, Range
  <2>5. IsFiniteSet(Range(list))
    BY <2>3, <2>4, FS_Surjection
  <2> QED BY <2>5 DEF list
<1> HIDE DEF made, shards, S, core
<1>4. IsFiniteSet(shards)
  <2> DEFINE m == [s \in S |-> made(s)]
  <2>1. m \in Surjection(S, shards)
    BY <1>1 DEF Surjection
  <2> HIDE DEF m
  <2> QED BY <1>3, <2>1, FS_Surjection
<1>5. \A s \in shards : s.expert \in Int
  BY <1>1, <1>2 DEF made
<1>6. ASSUME NEW a \in S, NEW b \in S, a.layer = b.layer, a.expert = b.expert PROVE made(a) = made(b)
  <2>1. ShardOf(core, a) = ShardOf(core, b)
    BY <1>6 DEF ShardOf
  <2> QED BY <1>6, <2>1 DEF made
<1>7. \A s, t \in shards : s.layer = t.layer /\ s.expert = t.expert => s = t
  <2> SUFFICES ASSUME NEW s \in shards, NEW t \in shards, s.layer = t.layer, s.expert = t.expert
               PROVE  s = t
    OBVIOUS
  <2>1. PICK a \in S : s = made(a)
    BY <1>1
  <2>2. PICK b \in S : t = made(b)
    BY <1>1
  <2>3. a.layer = b.layer /\ a.expert = b.expert
    BY <2>1, <2>2 DEF made
  <2> QED BY <1>6, <2>1, <2>2, <2>3
<1>8. ASSUME \A x \in S : Kept(n, x), NEW a \in S
      PROVE  /\ Resolve(moCmd.dir, made(a).path) \in DOMAIN CoreFiles
             /\ CoreFiles[Resolve(moCmd.dir, made(a).path)] = made(a).sum
  <2> DEFINE y == last(a)
             p == full(a)
  <2>1. y \in S /\ y.layer = a.layer /\ y.expert = a.expert
    BY <1>2, ShardFound DEF S, core
  <2>2. ShardOf(core, y) = ShardOf(core, a)
    <3> HIDE DEF y
    <3> QED BY <2>1 DEF ShardOf
  <2>3. Kept(n, y)
    <3> HIDE DEF y
    <3> QED BY <1>8, <2>1
  <2>4. ShardOf(core, y) # <<>> /\ Last(ShardOf(core, y)) = y
    BY <1>2, <2>2
  <2> HIDE DEF y
  <2>5. p = Resolve(core.dir, y.path) /\ p = SourcePath(n, y)
    BY <2>4 DEF y, SourcePath, core
  <2> HIDE DEF p
  <2>6. p \in DOMAIN CoreFiles /\ CoreFiles[p] = y.sum
    BY <2>3, <2>4, <2>5 DEF Kept, core
  <2>7. p = <<p[1], y.layer, y.expert>> /\ p[1] # Here
    BY <2>5, SourceNamed
  <2>8. p = <<p[1], p[2], p[3]>> /\ p[1] # Here
    BY <2>7
  <2>9. Resolve(moCmd.dir, IF p[1] = moCmd.dir THEN <<Here, p[2], p[3]>> ELSE p) = p
    BY <2>8, RebasedLeads
  <2>10. made(a).path = (IF p[1] = moCmd.dir THEN <<Here, p[2], p[3]>> ELSE p) /\ made(a).sum = y.sum
    BY DEF made, p, y
  <2> QED BY <2>6, <2>9, <2>10
<1>9. (\A x \in S : Kept(n, x)) =>
         \A s \in shards : /\ Resolve(moCmd.dir, s.path) \in DOMAIN CoreFiles
                           /\ CoreFiles[Resolve(moCmd.dir, s.path)] = s.sum
  BY <1>1, <1>8
<1> QED BY <1>4, <1>5, <1>7, <1>9 DEF shards, S, core

LEMMA ComputeLayers ==
  ASSUME CoresAssumption, NEW n \in DOMAIN Cores, NEW wanted
  PROVE  selected_compute_layers(Cores[n], wanted) \in Seq(Range(Cores[n].layers))
<1> DEFINE layers == Cores[n].layers
           places == {i \in DOMAIN layers :
                        LET l == layers[i].id IN l # 0 /\ (wanted = {} \/ l \in wanted)}
           picked == Pick(layers, places)
<1>1. layers \in Seq(Range(layers)) /\ places \subseteq DOMAIN layers
  BY DEF CoresAssumption
<1>2. selected_compute_layers(Cores[n], wanted) \in {picked, <<>>}
  BY DEF selected_compute_layers
<1> HIDE DEF places, layers
<1>3. picked \in Seq(Range(layers))
  BY <1>1, PickSome
<1>4. <<>> \in Seq(Range(layers))
  OBVIOUS
<1> HIDE DEF picked
<1> QED BY <1>2, <1>3, <1>4 DEF layers

LEMMA ByExpert ==
  ASSUME NEW shards, IsFiniteSet(shards), \A s \in shards : s.expert \in Int,
         \A s, t \in shards : s.layer = t.layer /\ s.expert = t.expert => s = t, NEW l
  PROVE  InOrder({s \in shards : s.layer = l}, {p \in shards \X shards : p[1].expert < p[2].expert})
            \in Seq({s \in shards : s.layer = l})
<1> DEFINE S == {s \in shards : s.layer = l}
           before == {p \in shards \X shards : p[1].expert < p[2].expert}
<1>1. IsFiniteSet(S)
  BY FS_Subset
<1>2. \A x, y \in S : <<x, y>> \in before <=> x.expert < y.expert
  OBVIOUS
<1>3. \A x \in S : x.expert \in Int
  OBVIOUS
<1>4. \A x, y \in S : x.expert = y.expert => x = y
  OBVIOUS
<1> HIDE DEF S, before
<1>5. Lines(S, before)
  <2>1. \A x \in S : <<x, x>> \notin before
    BY <1>2, <1>3
  <2>2. \A x, y, z \in S : <<x, y>> \in before /\ <<y, z>> \in before => <<x, z>> \in before
    BY <1>2, <1>3
  <2>3. ASSUME NEW x \in S, NEW y \in S PROVE x = y \/ <<x, y>> \in before \/ <<y, x>> \in before
    <3> DEFINE a == x.expert
               b == y.expert
    <3>1. a \in Int /\ b \in Int /\ (a = b => x = y)
          /\ (<<x, y>> \in before <=> a < b) /\ (<<y, x>> \in before <=> b < a)
      BY <1>2, <1>3, <1>4
    <3> HIDE DEF a, b
    <3> QED BY <3>1
  <2> QED BY <2>1, <2>2, <2>3 DEF Lines
<1>6. InOrder(S, before) \in Seq(S)
  BY <1>1, <1>5, InOrderSorts
<1> QED BY <1>6 DEF S, before

LEMMA RetargetKeeps == OpsInv /\ Retarget => OpsInv'
<1> SUFFICES ASSUME OpsInv, Retarget PROVE OpsInv'
  OBVIOUS
<1> DEFINE base == Cores[moCmd.base]
           shards == load_expert_shards(Cores[moCmd.catalog])
           compute == selected_compute_layers(base, moCmd.wanted)
           globals == choose_single_layer(base)
           chosen == [i \in DOMAIN compute |-> [layer |-> compute[i]]]
           own(i) == {s \in shards : s.layer = compute[i].id}
           before == {p \in shards \X shards : p[1].expert < p[2].expert}
           experts == [i \in DOMAIN compute |-> InOrder(own(i), before)]
           made == Entries(chosen, experts)
           entries == [i \in DOMAIN globals |-> GlobalEntry(globals[i])]
           layers == entries \o made.layers
           listed == [i \in DOMAIN made.experts |->
                        [layer |-> made.experts[i].layer, expert |-> made.experts[i].expert,
                         sum |-> made.experts[i].sum]]
<1>1. /\ moPc.at = "start" /\ moCmd.tool = "retarget" /\ moCmd' = moCmd /\ moFile' = moFile
      /\ moTodo' = moTodo /\ moCmd \in OpCommands /\ moOut = NoOutput /\ moFile = CoreFiles
      /\ moPc.exit = "none"
  BY DEF Retarget, OpsInv, OpsTyped
<1>2. moCmd.base \in DOMAIN Cores /\ moCmd.catalog \in DOMAIN Cores /\ CoresAssumption
  BY <1>1, OpsAssumption DEF CommandsAssumption
<1>3. MergeInv'
  BY <1>1 DEF MergeInv
<1>4. CASE OpsEnd("error") /\ UNCHANGED moOut
  <2>1. moPc' = [at |-> "end", exit |-> "error"] /\ moOut' = NoOutput
    BY <1>1, <1>4 DEF OpsEnd
  <2>2. moPc' \in [at : {"start", "copy", "index", "end"}, exit : {"none", "ok", "error"}]
        /\ moPc'.at = "end" /\ moPc'.exit = "error"
    BY <2>1
  <2>3. OpsTyped'
    BY <1>1, <2>1, <2>2 DEF OpsTyped, NoOutput, OutputFields
  <2>4. ManifestInv'
    BY <1>1, <1>4 DEF OpsInv, ManifestInv, Given
  <2>5. EndInv'
    BY <2>2 DEF EndInv
  <2> QED BY <1>3, <2>3, <2>4, <2>5 DEF OpsInv
<1>5. CASE ~(OpsEnd("error") /\ UNCHANGED moOut)
  <2>1. /\ moPc' = [at |-> "end", exit |-> "ok"]
        /\ moOut' = [NoOutput EXCEPT !.layers = layers, !.dense = layers, !.index = made.experts,
                                     !.experts = listed]
    BY <1>5 DEF Retarget, OpsEnd
  <2> HIDE DEF layers, listed, made
  <2>2. /\ moOut'.layers = layers /\ moOut'.dense = layers /\ moOut'.index = made.experts
        /\ moOut'.experts = listed /\ moOut'.tensors = "none" /\ DOMAIN moOut' = OutputFields
    BY <2>1 DEF NoOutput, OutputFields
  <2>3. moPc' \in [at : {"start", "copy", "index", "end"}, exit : {"none", "ok", "error"}]
        /\ moPc'.at = "end" /\ moPc'.exit = "ok"
    BY <2>1
  <2>4. OpsTyped'
    BY <1>1, <2>2, <2>3 DEF OpsTyped
  <2>5. /\ IsFiniteSet(shards)
        /\ \A s \in shards : s.expert \in Int
        /\ \A s, t \in shards : s.layer = t.layer /\ s.expert = t.expert => s = t
        /\ (\A x \in Range(Cores[moCmd.catalog].shards) : Kept(moCmd.catalog, x)) =>
              \A s \in shards : /\ Resolve(moCmd.dir, s.path) \in DOMAIN CoreFiles
                                /\ CoreFiles[Resolve(moCmd.dir, s.path)] = s.sum
    BY <1>2, CatalogShards
  <2>6. /\ compute \in Seq(Range(base.layers))
        /\ SequenceOfEntries(globals) /\ \A k \in DOMAIN globals : globals[k] \in Range(base.layers)
    BY <1>2, ComputeLayers, GlobalLayers
  <2> HIDE DEF shards, compute, globals
  <2>7. /\ DOMAIN compute = 1 .. Len(compute) /\ Len(compute) \in Nat
        /\ \A i \in 1 .. Len(compute) : compute[i] \in Range(base.layers)
    <3> HIDE DEF base
    <3> QED BY <2>6
  <2>8. /\ SequenceOfEntries(chosen) /\ Len(chosen) = Len(compute)
        /\ \A i \in 1 .. Len(chosen) : chosen[i].layer = compute[i]
    <3> DEFINE n == Len(compute)
               T == {[layer |-> compute[i]] : i \in 1 .. n}
    <3>1. chosen = [i \in 1 .. n |-> [layer |-> compute[i]]]
      BY <2>7
    <3>2. chosen \in [1 .. n -> T] /\ n \in Nat
      BY <2>7, <3>1
    <3>3. \A i \in 1 .. n : chosen[i].layer = compute[i]
      BY <3>1
    <3> HIDE DEF chosen, T, n
    <3>4. chosen \in Seq(T) /\ Len(chosen) = n
      BY <3>2, SeqDef, LenProperties
    <3>5. SequenceOfEntries(chosen)
      BY <3>4, AsEntries
    <3> QED BY <3>3, <3>4, <3>5 DEF n
  <2>9. ASSUME NEW i \in DOMAIN compute PROVE experts[i] \in Seq(own(i)) /\ experts[i] \in Seq(shards)
    <3> DEFINE l == compute[i].id
    <3>1. InOrder({s \in shards : s.layer = l}, {p \in shards \X shards : p[1].expert < p[2].expert})
             \in Seq({s \in shards : s.layer = l})
      <4> HIDE DEF l
      <4> QED BY <2>5, ByExpert
    <3>2. experts[i] \in Seq(own(i))
      BY <3>1
    <3>3. own(i) \subseteq shards
      OBVIOUS
    <3> HIDE DEF experts, own
    <3> QED BY <3>2, <3>3
  <2>10. experts \in Seq(Seq(shards)) /\ Len(experts) = Len(chosen)
    <3> DEFINE n == Len(compute)
    <3>1. experts \in [1 .. n -> Seq(shards)] /\ n \in Nat
      <4>1. experts = [i \in 1 .. n |-> experts[i]]
        BY <2>7
      <4> HIDE DEF experts
      <4> QED BY <2>7, <2>9, <4>1
    <3>2. Len(chosen) = n
      BY <2>8
    <3> HIDE DEF experts, chosen, n
    <3> QED BY <3>1, <3>2, SeqDef, LenProperties
  <2>11. ASSUME NEW i \in 1 .. Len(chosen), NEW j \in DOMAIN experts[i]
         PROVE  experts[i][j].layer = chosen[i].layer.id
    <3> DEFINE t == experts[i]
               id == compute[i].id
    <3>1. i \in DOMAIN compute /\ chosen[i].layer = compute[i]
      BY <2>7, <2>8
    <3>2. t \in Seq(own(i))
      BY <2>9, <3>1
    <3>3. t[j] \in own(i)
      <4> HIDE DEF t, own
      <4>1. DOMAIN t = 1 .. Len(t) /\ \A m \in 1 .. Len(t) : t[m] \in own(i)
        BY <3>2
      <4>2. j \in DOMAIN t
        BY DEF t
      <4> QED BY <4>1, <4>2
    <3> QED BY <3>1, <3>3
  <2>12. \A i \in 1 .. Len(chosen) : IsFrom(chosen[i].layer, {moCmd.base})
    <3> SUFFICES ASSUME NEW i \in 1 .. Len(chosen) PROVE IsFrom(chosen[i].layer, {moCmd.base})
      OBVIOUS
    <3>1. chosen[i].layer \in Range(Cores[moCmd.base].layers)
      BY <2>7, <2>8
    <3> HIDE DEF chosen
    <3>2. {moCmd.base} \subseteq DOMAIN Cores /\ moCmd.base \in {moCmd.base}
      BY <1>2
    <3> QED BY <1>2, <3>1, <3>2, EntryOfLayer
  <2>13. /\ SequenceOfEntries(entries)
         /\ \A i \in 1 .. Len(entries) : Window(entries[i]) = {} /\ IsFrom(entries[i], {moCmd.base})
    <3> DEFINE n == Len(globals)
               T == {GlobalEntry(globals[i]) : i \in 1 .. n}
    <3>1. DOMAIN globals = 1 .. n /\ n \in Nat
      BY <2>6, AsEntries DEF SequenceOfEntries
    <3>2. entries \in [1 .. n -> T] /\ \A i \in 1 .. n : entries[i] = GlobalEntry(globals[i])
      BY <3>1
    <3>3. \A i \in 1 .. n : Window(GlobalEntry(globals[i])) = {}
                            /\ IsFrom(GlobalEntry(globals[i]), {moCmd.base})
      <4> SUFFICES ASSUME NEW i \in 1 .. n
                   PROVE  Window(GlobalEntry(globals[i])) = {}
                          /\ IsFrom(GlobalEntry(globals[i]), {moCmd.base})
        OBVIOUS
      <4>1. globals[i] \in Range(Cores[moCmd.base].layers)
        BY <2>6, <3>1
      <4>2. {moCmd.base} \subseteq DOMAIN Cores /\ moCmd.base \in {moCmd.base}
        BY <1>2
      <4> QED BY <1>2, <4>1, <4>2, EntryOfLayer
    <3> HIDE DEF entries, T, n
    <3>4. entries \in Seq(T) /\ Len(entries) = n
      BY <3>1, <3>2, SeqDef, LenProperties
    <3>5. SequenceOfEntries(entries)
      BY <3>4, AsEntries
    <3> QED BY <3>2, <3>3, <3>4, <3>5
  <2> HIDE DEF chosen, experts, entries
  <2>14. /\ made.experts \in Seq(shards)
         /\ SequenceOfEntries(layers) /\ CutExactly(layers, made.experts)
         /\ \A i \in DOMAIN layers : IsFrom(layers[i], {moCmd.base})
    <3>1. \A i \in 1 .. Len(chosen) : \A j \in DOMAIN experts[i] : experts[i][j].layer = chosen[i].layer.id
      BY <2>11
    <3> QED BY <2>8, <2>10, <2>12, <2>13, <3>1, ManifestExact DEF made, layers
  <2>15. CutExactly(layers, listed)
    <3>1. DOMAIN listed = DOMAIN made.experts /\ \A i \in DOMAIN listed : listed[i].layer = made.experts[i].layer
      BY DEF listed
    <3> QED BY <2>14, <3>1 DEF CutExactly
  <2>16. ManifestInv'
    <3>1. Given' = {moCmd.base}
      BY <1>1 DEF Given
    <3> QED BY <2>2, <2>14, <2>15, <3>1 DEF ManifestInv
  <2>17. IndexSound'
    <3> SUFFICES ASSUME SourcesSound', NEW i \in DOMAIN moOut'.index
                 PROVE  LET path == Resolve(moCmd.dir, moOut'.index[i].path)
                        IN  path \in DOMAIN CoreFiles /\ CoreFiles[path] = moOut'.index[i].sum
      BY <1>1 DEF IndexSound, IndexRight, RightFile
    <3>1. \A x \in Range(Cores[moCmd.catalog].shards) : Kept(moCmd.catalog, x)
      BY <1>1 DEF SourcesSound
    <3> DEFINE t == made.experts
    <3>2. moOut'.index[i] \in shards
      <4>1. t \in Seq(shards) /\ i \in DOMAIN t /\ moOut'.index = t
        BY <2>2, <2>14
      <4> HIDE DEF t
      <4>2. DOMAIN t = 1 .. Len(t) /\ \A m \in 1 .. Len(t) : t[m] \in shards
        BY <4>1
      <4> QED BY <4>1, <4>2
    <3> QED BY <2>5, <3>1, <3>2
  <2>18. TablesThere'
    BY <2>2 DEF TablesThere
  <2>19. EndInv'
    BY <1>1, <2>17, <2>18 DEF EndInv
  <2> QED BY <1>3, <2>4, <2>16, <2>19 DEF OpsInv
<1> QED BY <1>4, <1>5

---------------------------------------------------------------------------
(* The row tables of a core *)

LEMMA StatusMeans ==
  ASSUME NEW dense, SequenceOfEntries(dense),
         \A i \in DOMAIN dense : dense[i].block \in Seq(Range(dense[i].block)),
         tensor_index_status(dense) = "ready", NEW n \in {"embed.weight", "head.weight"}
  PROVE  \E i \in DOMAIN dense : \E k \in DOMAIN dense[i].block : dense[i].block[k].name = n
<1> DEFINE blocks == [i \in DOMAIN dense |-> dense[i].block]
           all == FlattenSeq(blocks)
           places(m) == {i \in DOMAIN all : all[i].name = m}
           V == UNION {Range(dense[i].block) : i \in DOMAIN dense}
           l == Len(dense)
<1>1. DOMAIN dense = 1 .. l /\ l \in Nat
  BY AsEntries DEF SequenceOfEntries
<1>2. ASSUME NEW i \in 1 .. l PROVE dense[i].block \in Seq(V)
  <2> DEFINE b == dense[i].block
  <2>1. b \in Seq(Range(b)) /\ Range(b) \subseteq V
    BY <1>1
  <2> HIDE DEF b, V
  <2>2. b \in Seq(V)
    BY <2>1
  <2> QED BY <2>2 DEF b
<1>3. blocks \in Seq(Seq(V)) /\ Len(blocks) = l /\ \A i \in 1 .. l : blocks[i] = dense[i].block
  <2>1. blocks = [i \in 1 .. l |-> dense[i].block]
    BY <1>1
  <2>2. \A i \in 1 .. l : blocks[i] = dense[i].block
    BY <2>1
  <2> HIDE DEF blocks, V, l
  <2>3. blocks \in [1 .. l -> Seq(V)]
    BY <1>2, <2>1
  <2> QED BY <1>1, <2>2, <2>3, SeqDef, LenProperties
<1>4. Pick(all, places(n)) # <<>>
  <2>1. "ready" # "blocked"
    OBVIOUS
  <2> QED BY <2>1 DEF tensor_index_status
<1> HIDE DEF blocks, V
<1>5. /\ all \in Seq(V)
      /\ \A k \in DOMAIN all : \E i \in 1 .. Len(blocks) : \E j \in DOMAIN blocks[i] : all[k] = blocks[i][j]
  BY <1>3, FlattenElements
<1> DEFINE picked == Pick(all, places(n))
<1> HIDE DEF all
<1>6. picked \in Seq(V) /\ \A k \in DOMAIN picked : \E i \in places(n) : picked[k] = all[i]
  <2>1. places(n) \subseteq DOMAIN all
    OBVIOUS
  <2> HIDE DEF places
  <2> QED BY <1>5, <2>1, PickSome
<1> HIDE DEF picked
<1>7. 1 \in DOMAIN picked
  BY <1>4, <1>6 DEF picked
<1>8. PICK m \in DOMAIN all : all[m].name = n
  BY <1>6, <1>7
<1>9. PICK i \in 1 .. l : \E j \in DOMAIN blocks[i] : all[m] = blocks[i][j]
  BY <1>3, <1>5
<1> HIDE DEF l
<1> QED BY <1>1, <1>3, <1>8, <1>9

LEMMA TablesKeep == OpsInv /\ BuildTensorIndex => OpsInv'
<1> SUFFICES ASSUME OpsInv, BuildTensorIndex PROVE OpsInv'
  OBVIOUS
<1> DEFINE status == tensor_index_status(moOut.dense)
<1>1. /\ moPc.exit = "ok" /\ moCmd.tool # "plan" /\ moOut' = [moOut EXCEPT !.tensors = status]
      /\ moCmd' = moCmd /\ moPc' = moPc /\ moTodo' = moTodo /\ moFile' = moFile
      /\ DOMAIN moOut = OutputFields /\ moPc.at = "end"
  BY DEF BuildTensorIndex, OpsInv, OpsTyped
<1> HIDE DEF status
<1>2. /\ moOut'.layers = moOut.layers /\ moOut'.experts = moOut.experts /\ moOut'.index = moOut.index
      /\ moOut'.dense = moOut.dense /\ moOut'.tensors = status /\ DOMAIN moOut' = OutputFields
  BY <1>1 DEF OutputFields
<1>3. OpsTyped'
  BY <1>1, <1>2 DEF OpsInv, OpsTyped
<1>4. ManifestInv'
  BY <1>1, <1>2, ManifestSame DEF OpsInv
<1>5. (SourcesSound' <=> SourcesSound) /\ Pairs' = Pairs
  BY <1>1, <1>2, SoundSame
<1>6. CopiesSound' <=> CopiesSound
  BY <1>1, <1>2, <1>5 DEF CopiesSound
<1>7. MergeInv'
  BY <1>1, <1>2, <1>5, <1>6 DEF OpsInv, MergeInv
<1>8. IndexSound'
  <2>1. IndexSound
    BY <1>1 DEF OpsInv, EndInv
  <2> QED BY <1>1, <1>2, <1>5, <2>1 DEF IndexSound, IndexRight, RightFile
<1>9. TablesThere'
  <2> DEFINE dense == moOut.dense
  <2> SUFFICES ASSUME status = "ready", NEW n \in {"embed.weight", "head.weight"}
               PROVE  \E i \in DOMAIN moOut.layers : \E k \in DOMAIN moOut.layers[i].block :
                         moOut.layers[i].block[k].name = n
    BY <1>2 DEF TablesThere
  <2>1. /\ SequenceOfEntries(moOut.layers) /\ dense \in {<<>>, moOut.layers}
        /\ \A i \in DOMAIN moOut.layers : moOut.layers[i].block \in Seq(Range(moOut.layers[i].block))
    BY <1>1 DEF OpsInv, ManifestInv, IsFrom
  <2>2. SequenceOfEntries(<<>>) /\ DOMAIN <<>> = {}
    BY DEF SequenceOfEntries
  <2> HIDE DEF dense
  <2>3. SequenceOfEntries(dense) /\ \A i \in DOMAIN dense : dense[i].block \in Seq(Range(dense[i].block))
    BY <2>1, <2>2
  <2>4. tensor_index_status(dense) = "ready"
    BY DEF status, dense
  <2>5. \E i \in DOMAIN dense : \E k \in DOMAIN dense[i].block : dense[i].block[k].name = n
    BY <2>3, <2>4, StatusMeans
  <2> QED BY <2>1, <2>2, <2>5
<1>10. EndInv'
  BY <1>1, <1>8, <1>9 DEF EndInv
<1> QED BY <1>3, <1>4, <1>7, <1>10 DEF OpsInv

---------------------------------------------------------------------------
(* The plan of the experts to convert *)

IsProbe(p) ==
  /\ p.perLayer \in Nat /\ p.top \in Int /\ p.rank \in Int /\ IsFiniteSet(p.include)
  /\ p.rows \in Seq(Seq(0 .. p.perLayer - 1) \ {<<>>})

SeenIds(p) == UNION {{p.rows[i][k] : k \in DOMAIN p.rows[i] \cap 1 .. p.rank} : i \in DOMAIN p.rows}

LEMMA Probe ==
  ASSUME NEW p, IsProbe(p)
  PROVE  /\ DOMAIN p.rows = 1 .. Len(p.rows) /\ Len(p.rows) \in Nat
         /\ \A i \in DOMAIN p.rows :
               /\ DOMAIN p.rows[i] = 1 .. Len(p.rows[i]) /\ Len(p.rows[i]) \in Nat \ {0}
               /\ \A k \in DOMAIN p.rows[i] : p.rows[i][k] \in 0 .. p.perLayer - 1
<1> DEFINE R == Seq(0 .. p.perLayer - 1) \ {<<>>}
           rows == p.rows
<1>1. rows \in Seq(R)
  BY DEF IsProbe
<1> HIDE DEF R
<1>2. DOMAIN rows = 1 .. Len(rows) /\ Len(rows) \in Nat /\ \A i \in DOMAIN rows : rows[i] \in R
  <2> HIDE DEF rows
  <2> QED BY <1>1
<1>3. ASSUME NEW r \in R
      PROVE  /\ DOMAIN r = 1 .. Len(r) /\ Len(r) \in Nat \ {0}
             /\ \A k \in DOMAIN r : r[k] \in 0 .. p.perLayer - 1
  <2> DEFINE E == 0 .. p.perLayer - 1
  <2>1. r \in Seq(E) /\ r # <<>>
    BY DEF R
  <2> HIDE DEF E
  <2>2. DOMAIN r = 1 .. Len(r) /\ Len(r) \in Nat /\ \A k \in DOMAIN r : r[k] \in E
    BY <2>1
  <2>3. Len(r) # 0
    BY <2>1, EmptySeq
  <2> QED BY <2>2, <2>3 DEF E
<1> QED BY <1>2, <1>3

LEMMA HitsCount ==
  ASSUME NEW p, IsProbe(p), NEW e
  PROVE  Hits(p, e) \in Nat /\ (e \notin SeenIds(p) => Hits(p, e) = 0)
<1> DEFINE S == {x \in (DOMAIN p.rows) \X (1 .. p.rank) :
                     x[2] \in DOMAIN p.rows[x[1]] /\ p.rows[x[1]][x[2]] = e}
<1>1. IsFiniteSet(S)
  <2>1. IsFiniteSet(1 .. Len(p.rows)) /\ IsFiniteSet(1 .. p.rank) /\ DOMAIN p.rows = 1 .. Len(p.rows)
    <3>1. 1 \in Int /\ Len(p.rows) \in Int /\ p.rank \in Int /\ DOMAIN p.rows = 1 .. Len(p.rows)
      BY Probe DEF IsProbe
    <3> QED BY <3>1, FS_Interval
  <2>2. IsFiniteSet((DOMAIN p.rows) \X (1 .. p.rank))
    BY <2>1, FS_Product
  <2> QED BY <2>2, FS_Subset
<1>2. Hits(p, e) = Cardinality(S)
  BY DEF Hits
<1>3. Cardinality(S) \in Nat
  <2> HIDE DEF S
  <2> QED BY <1>1, FS_CardinalityType
<1>4. ASSUME NEW x \in S PROVE e \in SeenIds(p)
  <2>1. x[1] \in DOMAIN p.rows /\ x[2] \in DOMAIN p.rows[x[1]] \cap 1 .. p.rank /\ p.rows[x[1]][x[2]] = e
    OBVIOUS
  <2> QED BY <2>1 DEF SeenIds
<1>5. e \notin SeenIds(p) => Cardinality(S) = 0
  <2> SUFFICES ASSUME e \notin SeenIds(p) PROVE Cardinality(S) = 0
    OBVIOUS
  <2>1. S = {}
    BY <1>4
  <2> HIDE DEF S
  <2> QED BY <2>1, FS_EmptySet
<1> QED BY <1>2, <1>3, <1>5

LEMMA RankedExperts ==
  ASSUME NEW p, IsProbe(p)
  PROVE  LET S == SeenIds(p) \ p.include
             before == {x \in SeenIds(p) \X SeenIds(p) :
                          \/ Hits(p, x[1]) > Hits(p, x[2])
                          \/ Hits(p, x[1]) = Hits(p, x[2]) /\ x[1] < x[2]}
             ranked == InOrder(S, before)
         IN  /\ SeenIds(p) \subseteq 0 .. p.perLayer - 1
             /\ ranked \in Seq(S) /\ \A x \in S : \E k \in 1 .. Len(ranked) : ranked[k] = x
             /\ \A i, j \in 1 .. Len(ranked) : i < j => Hits(p, ranked[j]) <= Hits(p, ranked[i])
<1> DEFINE ids == SeenIds(p)
           S == ids \ p.include
           before == {x \in ids \X ids :
                        \/ Hits(p, x[1]) > Hits(p, x[2])
                        \/ Hits(p, x[1]) = Hits(p, x[2]) /\ x[1] < x[2]}
           ranked == InOrder(S, before)
<1>1. ids \subseteq 0 .. p.perLayer - 1
  <2> SUFFICES ASSUME NEW i \in DOMAIN p.rows, NEW k \in DOMAIN p.rows[i] PROVE p.rows[i][k] \in 0 .. p.perLayer - 1
    BY DEF SeenIds
  <2> QED BY Probe
<1>2. p.perLayer \in Nat
  BY DEF IsProbe
<1>3. IsFiniteSet(S)
  <2>1. IsFiniteSet(0 .. p.perLayer - 1)
    BY <1>2, FS_Interval
  <2> QED BY <1>1, <2>1, FS_Subset
<1>4. \A x \in ids : x \in Int /\ Hits(p, x) \in Nat
  BY <1>1, <1>2, HitsCount
<1>5. \A x, y \in ids : <<x, y>> \in before <=>
          Hits(p, x) > Hits(p, y) \/ (Hits(p, x) = Hits(p, y) /\ x < y)
  OBVIOUS
<1>6. S \subseteq ids
  OBVIOUS
<1> HIDE DEF ids, S, before
<1>7. Lines(S, before)
  <2>1. \A x \in S : <<x, x>> \notin before
    BY <1>4, <1>5, <1>6
  <2>2. ASSUME NEW x \in S, NEW y \in S, NEW z \in S, <<x, y>> \in before, <<y, z>> \in before
        PROVE  <<x, z>> \in before
    <3> DEFINE a == Hits(p, x)
               b == Hits(p, y)
               c == Hits(p, z)
    <3>1. /\ a \in Nat /\ b \in Nat /\ c \in Nat /\ x \in Int /\ y \in Int /\ z \in Int
          /\ x \in ids /\ z \in ids
          /\ (a > b \/ (a = b /\ x < y)) /\ (b > c \/ (b = c /\ y < z))
      BY <1>4, <1>5, <1>6, <2>2
    <3> HIDE DEF a, b, c
    <3>2. a > c \/ (a = c /\ x < z)
      BY <3>1
    <3> QED BY <1>5, <3>1, <3>2 DEF a, c
  <2>3. ASSUME NEW x \in S, NEW y \in S PROVE x = y \/ <<x, y>> \in before \/ <<y, x>> \in before
    <3> DEFINE a == Hits(p, x)
               b == Hits(p, y)
    <3>1. /\ a \in Nat /\ b \in Nat /\ x \in Int /\ y \in Int
          /\ (<<x, y>> \in before <=> a > b \/ (a = b /\ x < y))
          /\ (<<y, x>> \in before <=> b > a \/ (b = a /\ y < x))
      BY <1>4, <1>5, <1>6
    <3> HIDE DEF a, b
    <3> QED BY <3>1
  <2> QED BY <2>1, <2>2, <2>3 DEF Lines
<1>8. /\ ranked \in Seq(S) /\ \A x \in S : \E k \in 1 .. Len(ranked) : ranked[k] = x
      /\ \A i, j \in 1 .. Len(ranked) : i < j => <<ranked[i], ranked[j]>> \in before
  BY <1>3, <1>7, InOrderSorts
<1> HIDE DEF ranked
<1>9. ASSUME NEW i \in 1 .. Len(ranked), NEW j \in 1 .. Len(ranked), i < j
      PROVE  Hits(p, ranked[j]) <= Hits(p, ranked[i])
  <2>1. ranked[i] \in S /\ ranked[j] \in S
    <3>1. ranked \in Seq(S)
      BY <1>8
    <3> QED BY <3>1
  <2>2. <<ranked[i], ranked[j]>> \in before
    BY <1>8, <1>9
  <2>3. ranked[i] \in ids /\ ranked[j] \in ids
    BY <1>6, <2>1
  <2> DEFINE a == Hits(p, ranked[i])
             b == Hits(p, ranked[j])
  <2>4. a \in Nat /\ b \in Nat /\ (a > b \/ a = b)
    BY <1>4, <1>5, <2>2, <2>3
  <2> HIDE DEF a, b
  <2>5. b <= a
    BY <2>4
  <2> QED BY <2>5 DEF a, b
<1> QED BY <1>1, <1>8, <1>9 DEF ids, S, before, ranked

LEMMA ChosenExperts ==
  ASSUME NEW p, IsProbe(p), p.rows # <<>>, p.top > 0, p.rank > 0
  PROVE  LET chosen == choose_experts(p)
         IN  /\ chosen # {}
             /\ chosen \subseteq p.include \cup 0 .. p.perLayer - 1
             /\ \A e \in chosen \ p.include, f \in (0 .. p.perLayer - 1) \ chosen :
                   Hits(p, f) <= Hits(p, e)
<1> DEFINE ids == SeenIds(p)
           S == ids \ p.include
           before == {x \in ids \X ids : \/ Hits(p, x[1]) > Hits(p, x[2])
                                         \/ Hits(p, x[1]) = Hits(p, x[2]) /\ x[1] < x[2]}
           ranked == InOrder(S, before)
           c == Cardinality(p.include)
           room == Max({0, p.top - c})
           n == Len(ranked)
           m == IF room < n THEN room ELSE n
           taken == Range(SubSeq(ranked, 1, m))
           chosen == p.include \cup taken
<1>1. choose_experts(p) = chosen
  BY DEF choose_experts, SeenIds
<1>2. /\ ids \subseteq 0 .. p.perLayer - 1
      /\ ranked \in Seq(S) /\ \A x \in S : \E k \in 1 .. n : ranked[k] = x
      /\ \A i, j \in 1 .. n : i < j => Hits(p, ranked[j]) <= Hits(p, ranked[i])
  BY RankedExperts
<1>3. c \in Nat /\ (p.include = {} => c = 0)
  BY FS_CardinalityType, FS_EmptySet DEF IsProbe
<1>4. room \in Nat /\ room >= p.top - c
  <2> DEFINE top == p.top - c
  <2>1. top \in Int
    BY <1>3 DEF IsProbe
  <2> HIDE DEF top
  <2>2. \E x \in {0, top} : \A y \in {0, top} : x >= y
    BY <2>1
  <2>3. Max({0, top}) = CHOOSE x \in {0, top} : \A y \in {0, top} : x >= y
    BY DEF Max
  <2>4. Max({0, top}) \in {0, top} /\ Max({0, top}) >= 0 /\ Max({0, top}) >= top
    BY <2>2, <2>3
  <2> QED BY <2>1, <2>4 DEF top
<1> HIDE DEF ids, before, ranked, room, c
<1>5. n \in Nat /\ DOMAIN ranked = 1 .. n /\ \A k \in 1 .. n : ranked[k] \in S
  BY <1>2
<1>6. m \in 0 .. n /\ (m = n \/ m = room)
  BY <1>4, <1>5
<1> HIDE DEF n, m
<1>7. taken = {ranked[k] : k \in 1 .. m}
  <2> DEFINE t == SubSeq(ranked, 1, m)
  <2>1. SequenceOfEntries(ranked)
    BY <1>2, AsEntries
  <2>2. SequenceOfEntries(t) /\ Len(t) = m /\ \A i \in 1 .. m : t[i] = ranked[i]
    BY <1>6, <2>1, EntriesCut DEF n
  <2>3. DOMAIN t = 1 .. m
    BY <2>2, AsEntries DEF SequenceOfEntries
  <2> HIDE DEF t
  <2>4. Range(t) = {ranked[k] : k \in 1 .. m}
    BY <2>2, <2>3 DEF Range
  <2> QED BY <2>4 DEF t
<1>8. chosen # {}
  <2> SUFFICES ASSUME p.include = {} PROVE taken # {}
    OBVIOUS
  <2>1. room >= 1
    <3>1. c = 0 /\ p.top \in Int /\ p.top > 0
      BY <1>3 DEF IsProbe
    <3> QED BY <1>4, <3>1
  <2>2. S # {}
    <3>1. /\ 1 \in DOMAIN p.rows /\ DOMAIN p.rows[1] = 1 .. Len(p.rows[1]) /\ Len(p.rows[1]) \in Nat \ {0}
      <4>1. p.rows \in Seq(Seq(0 .. p.perLayer - 1) \ {<<>>})
        BY DEF IsProbe
      <4>2. Len(p.rows) # 0
        BY <4>1, EmptySeq
      <4>3. 1 \in DOMAIN p.rows
        BY <4>2, Probe
      <4> QED BY <4>3, Probe
    <3>2. 1 \in DOMAIN p.rows[1] /\ 1 \in 1 .. p.rank
      <4>1. 1 \in DOMAIN p.rows[1]
        BY <3>1
      <4>2. p.rank \in Int /\ p.rank > 0
        BY DEF IsProbe
      <4>3. 1 \in 1 .. p.rank
        BY <4>2
      <4> QED BY <4>1, <4>3
    <3>3. p.rows[1][1] \in ids
      BY <3>1, <3>2 DEF ids, SeenIds
    <3> QED BY <3>3
  <2>3. n >= 1
    <3>1. PICK x \in S : TRUE
      BY <2>2
    <3>2. PICK k \in 1 .. n : ranked[k] = x
      BY <1>2, <3>1 DEF n
    <3> QED BY <1>5, <3>2
  <2>4. 1 \in 1 .. m
    BY <1>4, <1>6, <2>1, <2>3
  <2> QED BY <1>7, <2>4
<1>9. taken \subseteq ids \ p.include
  <2> HIDE DEF taken
  <2> SUFFICES ASSUME NEW x \in taken PROVE x \in S
    OBVIOUS
  <2>1. PICK k \in 1 .. m : x = ranked[k]
    BY <1>7
  <2>2. k \in 1 .. n
    BY <1>5, <1>6
  <2> QED BY <1>5, <2>1, <2>2
<1>10. chosen \subseteq p.include \cup 0 .. p.perLayer - 1
  BY <1>2, <1>9
<1>11. ASSUME NEW e \in chosen \ p.include, NEW f \in (0 .. p.perLayer - 1) \ chosen
       PROVE  Hits(p, f) <= Hits(p, e)
  <2> HIDE DEF taken
  <2>1. PICK k \in 1 .. m : e = ranked[k]
    BY <1>7
  <2>2. k \in 1 .. n /\ Hits(p, e) \in Nat
    BY <1>5, <1>6, HitsCount
  <2>3. CASE f \in ids
    <3>1. f \in S
      BY <2>3
    <3>2. PICK j \in 1 .. n : ranked[j] = f
      BY <1>2, <3>1 DEF n
    <3>3. j \notin 1 .. m
      BY <1>7, <3>2
    <3>4. k < j
      BY <1>5, <1>6, <3>2, <3>3
    <3> QED BY <1>2, <2>1, <2>2, <3>2, <3>4 DEF n
  <2>4. CASE f \notin ids
    <3>1. Hits(p, f) = 0
      BY <2>4, HitsCount DEF ids
    <3> QED BY <2>2, <3>1
  <2> QED BY <2>3, <2>4
<1> HIDE DEF chosen
<1> QED BY <1>1, <1>8, <1>10, <1>11

LEMMA PlanKeeps == OpsInv /\ PlanCoverage => OpsInv'
<1> SUFFICES ASSUME OpsInv, PlanCoverage PROVE OpsInv'
  OBVIOUS
<1> DEFINE p == moCmd.probe
<1>1. /\ moPc.at = "start" /\ moCmd.tool = "plan" /\ moCmd' = moCmd /\ moFile' = moFile
      /\ moTodo' = moTodo /\ moCmd \in OpCommands /\ moOut = NoOutput /\ moFile = CoreFiles
      /\ DOMAIN moOut = OutputFields
  BY DEF PlanCoverage, OpsInv, OpsTyped
<1>2. ManifestInv' /\ MergeInv'
  BY <1>1 DEF ManifestInv, MergeInv
<1>3. CASE OpsEnd("error") /\ UNCHANGED moOut
  <2>1. moPc' = [at |-> "end", exit |-> "error"] /\ moOut' = NoOutput
    BY <1>1, <1>3 DEF OpsEnd
  <2>2. moPc' \in [at : {"start", "copy", "index", "end"}, exit : {"none", "ok", "error"}]
        /\ moPc'.at = "end" /\ moPc'.exit = "error"
    BY <2>1
  <2>3. OpsTyped'
    BY <1>1, <2>1, <2>2 DEF OpsTyped, NoOutput, OutputFields
  <2>4. EndInv'
    BY <2>2 DEF EndInv
  <2> QED BY <1>2, <2>3, <2>4 DEF OpsInv
<1>4. CASE ~(OpsEnd("error") /\ UNCHANGED moOut)
  <2>1. /\ ~(p.rows = <<>> \/ p.top <= 0 \/ p.rank <= 0)
        /\ moPc' = [at |-> "end", exit |-> "ok"]
        /\ moOut' = [moOut EXCEPT !.plan = [l \in {0} |-> choose_experts(p)]]
    BY <1>4 DEF PlanCoverage, OpsEnd
  <2> DEFINE plan == [l \in {0} |-> choose_experts(p)]
  <2> HIDE DEF plan, p
  <2>2. moOut'.plan = plan /\ moOut'.tensors = moOut.tensors /\ DOMAIN moOut' = OutputFields
    BY <1>1, <2>1 DEF OutputFields, plan
  <2>3. moPc' \in [at : {"start", "copy", "index", "end"}, exit : {"none", "ok", "error"}]
        /\ moPc'.at = "end" /\ moPc'.exit = "ok"
    BY <2>1
  <2>4. OpsTyped'
    BY <1>1, <2>2, <2>3 DEF OpsTyped
  <2>5. IsProbe(p)
    BY <1>1, OpsAssumption DEF CommandsAssumption, IsProbe, p
  <2>6. p.rows # <<>> /\ p.top > 0 /\ p.rank > 0
    <3>1. p.top \in Int /\ p.rank \in Int
      BY <2>5 DEF IsProbe
    <3> QED BY <2>1, <3>1
  <2>7. /\ choose_experts(p) # {}
        /\ choose_experts(p) \subseteq p.include \cup 0 .. p.perLayer - 1
        /\ \A e \in choose_experts(p) \ p.include, f \in (0 .. p.perLayer - 1) \ choose_experts(p) :
              Hits(p, f) <= Hits(p, e)
    BY <2>5, <2>6, ChosenExperts
  <2>8. p' = p
    BY <1>1 DEF p
  <2>9. DOMAIN plan = {0} /\ plan[0] = choose_experts(p) /\ plan = [l \in {0} |-> plan[l]]
    BY DEF plan
  <2>10. ASSUME p.include \subseteq 0 .. p.perLayer - 1
         PROVE  /\ load_expert_plan(plan, {0}, p.perLayer) = plan
                /\ \A e \in plan[0] \ p.include, f \in (0 .. p.perLayer - 1) \ plan[0] :
                      Hits(p, f) <= Hits(p, e)
    <3>1. plan[0] \subseteq 0 .. p.perLayer - 1
      BY <2>7, <2>9, <2>10
    <3>2. p.perLayer \in Nat
      BY <2>5 DEF IsProbe
    <3>3. ~ \E e \in plan[0] : e < 0 \/ e >= p.perLayer
      BY <3>1, <3>2
    <3>4. load_expert_plan(plan, {0}, p.perLayer) = [l \in {0} |-> plan[l]]
      BY <2>7, <2>9, <3>3 DEF load_expert_plan
    <3> QED BY <2>7, <2>9, <3>4
  <2>11. PlanAccepted'
    BY <1>1, <2>2, <2>10 DEF PlanAccepted, p
  <2>12. EndInv'
    BY <1>1, <2>11 DEF EndInv
  <2> QED BY <1>2, <2>4, <2>12 DEF OpsInv
<1> QED BY <1>3, <1>4

---------------------------------------------------------------------------

LEMMA OpsUnchanged == OpsInv /\ UNCHANGED moVars => OpsInv'
<1> SUFFICES ASSUME OpsInv, UNCHANGED moVars PROVE OpsInv'
  OBVIOUS
<1>1. moCmd' = moCmd /\ moPc' = moPc /\ moOut' = moOut /\ moTodo' = moTodo /\ moFile' = moFile
  BY DEF moVars
<1>2. (SourcesSound' <=> SourcesSound) /\ Pairs' = Pairs
  BY <1>1, SoundSame
<1>3. OpsTyped' /\ ManifestInv'
  BY <1>1, ManifestSame DEF OpsInv, OpsTyped
<1>4. (CopiesSound' <=> CopiesSound) /\ (IndexSound' <=> IndexSound) /\ (TablesThere' <=> TablesThere)
  BY <1>1, <1>2 DEF CopiesSound, IndexSound, IndexRight, RightFile, TablesThere
<1>5. PlanAccepted' <=> PlanAccepted
  BY <1>1 DEF PlanAccepted
<1>6. MergeInv' /\ EndInv'
  BY <1>1, <1>2, <1>4, <1>5 DEF OpsInv, MergeInv, EndInv
<1> QED BY <1>3, <1>6 DEF OpsInv

\* A model that merge_smoke_models.py or retarget_expert_plan_model.py has finished can be
\* served, and a plan of the coverage tool is one the converter takes, for any cores, any
\* command line and any log of the router (OpsAssumption says what a readable core is).
THEOREM MergedAlwaysServable == OpsSpec => []MergedServable
<1>1. OpsInv /\ [OpsNext]_moVars => OpsInv'
  BY MergeCoreKeeps, CopyKeeps, CopiedKeeps, MergeIndexKeeps, RetargetKeeps, PlanKeeps, TablesKeep,
     OpsUnchanged DEF OpsNext, merge_smoke_models
<1> QED BY <1>1, OpsStarts, OpsShows, PTL DEF OpsSpec
=============================================================================
