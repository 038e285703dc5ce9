-------------------------- MODULE ExpertFileProofs --------------------------
(***************************************************************************)
(* The experts on disk and on the wire: the pack, the catalog of files,    *)
(* fetched copies, the relay.                                              *)
(*                                                                         *)
(* build_experts_pack.py loses no expert, for any number of experts, any   *)
(* chunk size and any number of power losses. Everything the builder keeps *)
(* is an interval of expert numbers: the pack and the entries begin at the *)
(* first expert, the pending files end at the last entry, and the deleted  *)
(* files are a prefix of all. The invariant (Known) says how the ends of   *)
(* these intervals lie to each other.                                      *)
(*                                                                         *)
(* The jobs that materialize experts into a catalog record only files that *)
(* are whole and lose no record, for any set of jobs and any interleaving  *)
(* of them, while nobody removes another's lock. That is one exclusion     *)
(* (Locked) and what it protects: the memory of the job that has the lock  *)
(* holds all that was ever reported (Remembered), and a file is whole      *)
(* unless that job is filling it (FilesWhole).                             *)
(*                                                                         *)
(* The storage server and the engine's cache: an expert that is computed   *)
(* from is whole, for any uploads, any batches and any cache size, while   *)
(* no two uploads of one expert overlap. A name leads to a file, and only  *)
(* a file that the .part name leads to is written to (StorageSound); so    *)
(* the file a fetch has open stays as it is (FilesKept), and a cached file *)
(* is a beginning of the expert, whole if it has the right size.           *)
(*                                                                         *)
(* The relay of zc_reverse_storage_master.py: exclusion and exact bodies.  *)
(* No two requests use one worker connection at a time, for any number of  *)
(* handler threads, attempts and connections and however they break. The   *)
(* handlers' local copies of the socket outlive the connection, so the     *)
(* argument is about the flag: whoever uses the current connection keeps   *)
(* it busy, a connection that is not the current one is never taken again, *)
(* and a new connection is one nobody has a copy of (ConnectionNumbers).   *)
(*                                                                         *)
(* On that rests what travels: while no connection was given back in the   *)
(* middle of an exchange, every exchange is in a phase (Phase) in which the *)
(* handler and what is under way on its connection agree, and between two  *)
(* exchanges nothing is under way (Between). The worker may still read from *)
(* a connection its handler has left, so what it finds there has a shape of *)
(* its own (Streams), and a phase on a closed connection no longer depends *)
(* on the worker (ClosedPhase).                                            *)
(***************************************************************************)
EXTENDS ExpertsPack, Catalog, ExpertCache, Relay, TLAPS, FiniteSetTheorems, SequenceTheorems,
        WellFoundedInduction, NaturalsInduction

---------------------------------------------------------------------------
(* The experts pack *)

Counts == 0 .. PackExperts

\* The experts after a, up to b.
Run(a, b) == [i \in 1 .. b - a |-> a + i]

Failures == {"none", "died", "refused", "short", "missing", "mismatch"}

Builder == [pc : {"halted", "pack", "delete", "index"}, entries : Seq(Nat), pending : Seq(Nat),
            exit : Failures \cup {"done"}, died : Nat, bare : BOOLEAN]

PackState == pkKeep \in BOOLEAN /\ pkProc \in Builder /\ pkSynced \in Nat

\* d files are deleted; n experts have entries, and those after a are pending.
Intervals(d, a, n) ==
  /\ a <= n
  /\ pkShards = (d + 1) .. PackExperts
  /\ pkProc.entries = Run(0, n) /\ pkProc.pending = Run(a, n)

\* A running process works on the pack its entries describe; when it deletes files
\* they are those the pack has.
Working(d, a, n) ==
  /\ pkProc.pc = "halted" => n = 0
  /\ pkProc.pc # "halted" => pkPack = Run(0, n) /\ pkProc.exit # "done"
  /\ pkProc.pc = "delete" => ~pkKeep /\ a < n /\ pkSynced = n
  /\ pkProc.pc = "index" => a = n /\ n = PackExperts
  /\ a < n => pkProc.pc \in {"pack", "delete"}
  /\ IF pkKeep THEN d = 0
     ELSE pkProc.pc # "halted" => a <= d /\ (a < n => d = a)

\* What is on the disk, whoever is running.
OnDisk(d) ==
  /\ \/ pkPack = NoPack /\ pkSynced = 0 /\ d = 0 /\ pkProc.pc = "halted"
     \/ \E m \in Counts : pkPack = Run(0, m) /\ pkSynced <= m
  /\ ~pkProc.bare => d <= pkSynced
  /\ pkProc.pc \in {"pack", "delete"} => pkIndex = <<"absent">>
  /\ IF pkProc.exit = "done" THEN pkPack = Run(0, PackExperts) /\ pkIndex = pkPack
     ELSE pkIndex \in {<<"absent">>, <<"partial">>}

Known(d, a, n) == PackState /\ Intervals(d, a, n) /\ Working(d, a, n) /\ OnDisk(d)

PackInv == \E d, a, n \in Counts : Known(d, a, n)

---------------------------------------------------------------------------
(* Intervals *)

LEMMA RunIsSeq ==
  ASSUME NEW a \in Nat, NEW b \in Nat, a <= b
  PROVE /\ Run(a, b) \in Seq(Nat) /\ Len(Run(a, b)) = b - a
        /\ \A i \in 1 .. b - a : Run(a, b)[i] = a + i
  BY DEF Run

LEMMA FromFirst ==
  ASSUME NEW n \in Nat
  PROVE Run(0, n) \in Seq(Nat) /\ Len(Run(0, n)) = n /\ \A i \in 1 .. n : Run(0, n)[i] = i
<1>1. 0 \in Nat /\ 0 <= n /\ n - 0 = n /\ \A i \in 1 .. n : 0 + i = i
  OBVIOUS
<1> QED BY <1>1, RunIsSeq

LEMMA RunEmpty ==
  ASSUME NEW a \in Nat PROVE Run(a, a) = <<>>
  BY DEF Run

LEMMA RunAppend ==
  ASSUME NEW a \in Nat, NEW b \in Nat, a <= b
  PROVE Append(Run(a, b), b + 1) = Run(a, b + 1)
  BY RunIsSeq DEF Run

LEMMA RunHeadTail ==
  ASSUME NEW a \in Nat, NEW b \in Nat, a < b
  PROVE Run(a, b) # <<>> /\ Head(Run(a, b)) = a + 1 /\ Tail(Run(a, b)) = Run(a + 1, b)
  BY RunIsSeq DEF Run

LEMMA RunPrefix ==
  ASSUME NEW b \in Nat, NEW m \in Nat, m <= b
  PROVE SubSeq(Run(0, b), 1, m) = Run(0, m)
  BY RunIsSeq DEF Run

LEMMA NumbersIsRun ==
  ASSUME NEW n \in Nat PROVE Numbers(n) = Run(0, n)
  BY DEF Numbers, Run

LEMMA SkipIsDeleted ==
  ASSUME NEW d \in Counts, pkShards = (d + 1) .. PackExperts
  PROVE ResumeSkip = d
<1>1. d \in Nat /\ d <= PackExperts /\ PackExperts \in Nat
  BY PackAssumption DEF Counts
<1>2. LeadingGone = 1 .. d
  BY <1>1 DEF LeadingGone
<1>3. Cardinality(1 .. d) = d
  BY <1>1, FS_Interval
<1> QED BY <1>2, <1>3 DEF ResumeSkip

---------------------------------------------------------------------------
(* The steps *)

LEMMA Numerals ==
  /\ PackExperts \in Nat
  /\ \A d \in Counts : d \in Nat /\ d <= PackExperts
  BY PackAssumption DEF Counts

LEMMA ExitKeepsInv ==
  ASSUME NEW d \in Counts, NEW a \in Counts, NEW n \in Counts, Known(d, a, n),
         NEW status \in Failures, PackExit(status), pkProc.exit # "done",
         UNCHANGED <<pkKeep, pkDisk>>
  PROVE PackInv'
<1>1. /\ pkProc'.pc = "halted" /\ pkProc'.entries = <<>> /\ pkProc'.pending = <<>>
      /\ pkProc'.exit = status /\ pkProc'.bare = pkProc.bare
  BY DEF PackExit, Halted, Failures
<1>2. PackState'
  BY DEF Known, PackState, Builder, PackExit, Halted, Failures, pkDisk
<1>3. 0 \in Counts /\ Run(0, 0) = <<>>
  BY Numerals, RunEmpty DEF Counts
<1>4. Intervals(d, 0, 0)'
  BY <1>1, <1>3 DEF Known, Intervals, pkDisk
<1>5. Working(d, 0, 0)'
  BY <1>1 DEF Known, Working, pkDisk
<1>6. OnDisk(d)'
  <2>1. status # "done"
    BY DEF Failures
  <2> QED BY <1>1, <2>1 DEF Known, OnDisk, pkDisk
<1> QED BY <1>2, <1>3, <1>4, <1>5, <1>6 DEF PackInv, Known

LEMMA ResumeKeepsInv ==
  ASSUME NEW d \in Counts, NEW a \in Counts, NEW n \in Counts, Known(d, a, n), ResumePack
  PROVE PackInv'
<1>1. ResumeSkip = d
  BY SkipIsDeleted DEF Known, Intervals
<1>2. PICK m \in Counts : pkPack = Run(0, m) /\ pkSynced <= m
  <2>1. pkPack # NoPack
    BY DEF ResumePack, CanResume
  <2> QED BY <2>1 DEF Known, OnDisk
<1>3. d <= m /\ d \in Nat /\ m \in Nat
  <2>1. d \in Nat /\ m \in Nat
    BY Numerals
  <2> QED BY <1>1, <1>2, <2>1, FromFirst DEF ResumePack
<1>4. pkPack' = Run(0, d) /\ Numbers(ResumeSkip) = Run(0, d) /\ Run(0, d) \in Seq(Nat)
  <2>1. SubSeq(Run(0, m), 1, d) = Run(0, d)
    BY <1>3, RunPrefix
  <2>2. Numbers(d) = Run(0, d) /\ Run(0, d) \in Seq(Nat)
    BY <1>3, NumbersIsRun, FromFirst
  <2> QED BY <1>1, <1>2, <2>1, <2>2 DEF ResumePack
<1>5. /\ pkProc.pending = <<>>
      /\ pkProc.pc = "halted" /\ pkProc.exit # "done" /\ pkIndex = <<"absent">>
      /\ UNCHANGED <<pkKeep, pkShards, pkIndex>>
  <2>1. pkProc.pc = "halted" /\ n = 0 /\ a \in Nat
    BY Numerals DEF Known, Working, ResumePack, CanResume, PackAt
  <2>2. a = n
    BY <2>1 DEF Known, Intervals
  <2> QED BY <2>1, <2>2, RunEmpty DEF Known, Intervals, ResumePack, CanResume
<1>6. /\ pkProc' = [pkProc EXCEPT !.pc = "pack", !.exit = "none", !.entries = Run(0, d)]
      /\ pkSynced' = IF d > pkSynced THEN pkSynced ELSE d
  BY <1>1, <1>4 DEF ResumePack
<1>7. /\ pkProc'.pc = "pack" /\ pkProc'.entries = Run(0, d) /\ pkProc'.pending = <<>>
      /\ pkProc'.exit = "none" /\ pkProc'.bare = pkProc.bare
  BY <1>5, <1>6 DEF Known, PackState, Builder
<1>8. PackState'
  <2>1. pkSynced' \in Nat
    BY <1>3, <1>6 DEF Known, PackState, Builder
  <2>2. pkProc' \in Builder
    BY <1>4, <1>6 DEF Known, PackState, Builder, Failures
  <2> QED BY <1>5, <2>1, <2>2 DEF Known, PackState, Builder
<1>9. Intervals(d, d, d)'
  BY <1>3, <1>5, <1>7, RunEmpty DEF Known, Intervals
<1>10. Working(d, d, d)'
  BY <1>3, <1>4, <1>5, <1>7 DEF Known, Working
<1>11. OnDisk(d)'
  BY <1>3, <1>4, <1>5, <1>6, <1>7 DEF Known, PackState, OnDisk
<1> QED BY <1>8, <1>9, <1>10, <1>11 DEF PackInv, Known

LEMMA FreshKeepsInv ==
  ASSUME NEW d \in Counts, NEW a \in Counts, NEW n \in Counts, Known(d, a, n), FreshPack
  PROVE PackInv'
<1>1. /\ pkProc.pc = "halted" /\ pkProc.exit # "done" /\ pkIndex = <<"absent">>
      /\ UNCHANGED <<pkKeep, pkShards, pkIndex>> /\ pkPack' = <<>> /\ pkSynced' = 0
  BY DEF FreshPack, PackAt
<1>2. 0 \in Counts /\ Run(0, 0) = <<>> /\ d \in Nat
  BY Numerals, RunEmpty DEF Counts
<1>3. pkProc.entries = <<>> /\ pkProc.pending = <<>>
  <2>1. n = 0 /\ a = 0
    BY <1>1, Numerals DEF Known, Working, Intervals
  <2> QED BY <1>2, <2>1 DEF Known, Intervals
<1> DEFINE bare == pkProc.bare \/ pkPack # NoPack
<1>4. /\ pkProc' = [pkProc EXCEPT !.pc = "pack", !.exit = "none", !.bare = bare]
      /\ bare \in BOOLEAN
      /\ ~bare => ~pkProc.bare /\ pkPack = NoPack
  BY DEF FreshPack
<1> HIDE DEF bare
<1>5. /\ PackState'
      /\ pkProc'.pc = "pack" /\ pkProc'.exit = "none" /\ pkProc'.bare = bare
      /\ pkProc'.entries = <<>> /\ pkProc'.pending = <<>>
  <2>1. pkProc \in Builder /\ pkKeep \in BOOLEAN
    BY DEF Known, PackState
  <2>2. pkProc' \in Builder
    BY <1>4, <2>1 DEF Builder, Failures
  <2>3. /\ pkProc'.pc = "pack" /\ pkProc'.exit = "none" /\ pkProc'.bare = bare
        /\ pkProc'.entries = pkProc.entries /\ pkProc'.pending = pkProc.pending
    BY <1>4, <2>1 DEF Builder
  <2> QED BY <1>1, <1>3, <2>1, <2>2, <2>3 DEF PackState
<1>6. Intervals(d, 0, 0)'
  BY <1>1, <1>2, <1>5 DEF Known, Intervals
<1>7. Working(d, 0, 0)'
  BY <1>1, <1>2, <1>5 DEF Known, Working
<1>8. OnDisk(d)'
  <2>1. \A m \in Counts : Run(0, m) # NoPack
    <3>1. \A m \in Nat : 1 \in 1 .. m => Run(0, m)[1] = 1
      BY FromFirst
    <3>2. \A m \in Nat : Len(Run(0, m)) = m
      BY FromFirst
    <3> QED BY <3>1, <3>2, Numerals DEF NoPack
  <2>2. ~bare => d = 0
    BY <1>4, <2>1 DEF Known, OnDisk
  <2> QED BY <1>1, <1>2, <1>5, <2>2 DEF OnDisk
<1> QED BY <1>2, <1>5, <1>6, <1>7, <1>8 DEF PackInv, Known

LEMMA AppendKeepsInv ==
  ASSUME NEW d \in Counts, NEW a \in Counts, NEW n \in Counts, Known(d, a, n), AppendShard
  PROVE PackInv'
<1>1. /\ n \in Nat /\ a \in Nat /\ d \in Nat /\ a <= n /\ PackExperts \in Nat
      /\ pkProc.pc = "pack" /\ NextExpert = n + 1
  <2>1. n \in Nat /\ a \in Nat /\ d \in Nat
    BY Numerals
  <2> QED BY <2>1, Numerals, FromFirst DEF Known, Intervals, AppendShard, PackAt, NextExpert
<1>2. n + 1 \in Counts /\ d < n + 1
  BY <1>1 DEF Known, Intervals, AppendShard, Counts
<1>3. pkPack = Run(0, n) /\ pkProc.entries = Run(0, n) /\ pkProc.pending = Run(a, n)
  BY <1>1 DEF Known, Intervals, Working
<1>4. /\ pkPack' = Run(0, n + 1)
      /\ pkProc' = [pkProc EXCEPT !.entries = Run(0, n + 1), !.pending = Run(a, n + 1)]
      /\ UNCHANGED <<pkKeep, pkShards, pkSynced, pkIndex>>
  <2>1. Append(Run(a, n), n + 1) = Run(a, n + 1)
    BY <1>1, RunAppend
  <2>2. Append(Run(0, n), n + 1) = Run(0, n + 1)
    <3>1. 0 \in Nat /\ 0 <= n
      BY <1>1
    <3> QED BY <1>1, <3>1, RunAppend
  <2> QED BY <1>1, <1>3, <2>1, <2>2 DEF AppendShard
<1>5. /\ pkProc'.pc = "pack" /\ pkProc'.entries = Run(0, n + 1)
      /\ pkProc'.pending = Run(a, n + 1)
      /\ pkProc'.exit = pkProc.exit /\ pkProc'.bare = pkProc.bare
  BY <1>1, <1>4 DEF Known, PackState, Builder
<1>6. PackState'
  <2>1. Run(0, n + 1) \in Seq(Nat) /\ Run(a, n + 1) \in Seq(Nat)
    <3>1. n + 1 \in Nat /\ a <= n + 1
      BY <1>1
    <3> QED BY <1>1, <3>1, FromFirst, RunIsSeq
  <2> QED BY <1>4, <2>1 DEF Known, PackState, Builder
<1>7. Intervals(d, a, n + 1)'
  BY <1>1, <1>4, <1>5 DEF Known, Intervals
<1>8. Working(d, a, n + 1)'
  BY <1>1, <1>2, <1>4, <1>5 DEF Known, Working
<1>9. OnDisk(d)'
  <2>1. pkSynced <= n
    <3>1. PICK m \in Counts : pkPack = Run(0, m) /\ pkSynced <= m
      BY <1>1 DEF Known, OnDisk
    <3>2. m = n
      BY <1>1, <1>3, <3>1, Numerals, FromFirst
    <3> QED BY <3>1, <3>2
  <2>2. pkSynced \in Nat /\ pkProc.exit # "done"
    BY <1>1 DEF Known, PackState, Working
  <2> QED BY <1>1, <1>2, <1>4, <1>5, <2>1, <2>2 DEF Known, OnDisk
<1> QED BY <1>2, <1>6, <1>7, <1>8, <1>9 DEF PackInv, Known

\* The place of the compared file in the pack is its own: no run ends with a mismatch.
LEMMA SyncKeepsInv ==
  ASSUME NEW d \in Counts, NEW a \in Counts, NEW n \in Counts, Known(d, a, n), SyncAndVerify
  PROVE PackInv'
<1>1. /\ n \in Nat /\ a \in Nat /\ d \in Nat /\ a <= n /\ PackExperts \in Nat
      /\ pkProc.pc = "pack" /\ pkProc.exit # "done" /\ pkProc.pending # <<>>
  BY Numerals DEF Known, Intervals, Working, SyncAndVerify, PackAt
<1>2. pkPack = Run(0, n) /\ pkProc.entries = Run(0, n) /\ pkProc.pending = Run(a, n)
  BY <1>1 DEF Known, Intervals, Working
<1>3. a < n
  BY <1>1, <1>2, RunEmpty
<1>4. \A i \in Range(pkProc.pending) : pkPack[i] = i
  <2>1. Len(Run(a, n)) = n - a /\ \A k \in 1 .. n - a : Run(a, n)[k] = a + k
    BY <1>1, RunIsSeq
  <2>2. Range(pkProc.pending) \subseteq 1 .. n
    BY <1>1, <1>2, <2>1 DEF Range, Run
  <2>3. \A i \in 1 .. n : Run(0, n)[i] = i
    BY <1>1 DEF Run
  <2> QED BY <1>2, <2>2, <2>3
<1>5. /\ pkSynced' = n
      /\ pkProc' = IF pkKeep THEN [pkProc EXCEPT !.pending = <<>>]
                             ELSE [pkProc EXCEPT !.pc = "delete"]
      /\ UNCHANGED <<pkKeep, pkShards, pkPack, pkIndex>>
  <2>1. pkSynced' = n
    BY <1>1, <1>2, FromFirst DEF SyncAndVerify
  <2> QED BY <1>4, <2>1 DEF SyncAndVerify
<1>6. PackState'
  <2>1. pkProc \in Builder /\ pkKeep \in BOOLEAN
    BY DEF Known, PackState
  <2>2. [pkProc EXCEPT !.pending = <<>>] \in Builder
    <3>1. <<>> \in Seq(Nat)
      OBVIOUS
    <3> QED BY <2>1, <3>1 DEF Builder
  <2>3. [pkProc EXCEPT !.pc = "delete"] \in Builder
    BY <2>1 DEF Builder
  <2> QED BY <1>1, <1>5, <2>1, <2>2, <2>3 DEF PackState
<1>7. /\ pkProc'.entries = Run(0, n) /\ pkProc'.exit = pkProc.exit /\ pkProc'.bare = pkProc.bare
      /\ pkProc'.pc = IF pkKeep THEN "pack" ELSE "delete"
      /\ pkProc'.pending = IF pkKeep THEN <<>> ELSE Run(a, n)
  BY <1>1, <1>2, <1>5 DEF Known, PackState, Builder
<1>8. OnDisk(d)'
  <2>1. d <= n
    BY <1>1, <1>3 DEF Known, Working
  <2> QED BY <1>1, <1>2, <1>5, <1>7, <2>1 DEF Known, OnDisk
<1>9. CASE pkKeep
  <2>1. Intervals(d, n, n)' /\ Working(d, n, n)'
    BY <1>1, <1>2, <1>5, <1>7, <1>9, RunEmpty DEF Known, Intervals, Working
  <2> QED BY <1>6, <1>8, <2>1 DEF PackInv, Known
<1>10. CASE ~pkKeep
  <2>1. Intervals(d, a, n)' /\ Working(d, a, n)'
    BY <1>1, <1>2, <1>3, <1>5, <1>7, <1>10 DEF Known, Intervals, Working
  <2> QED BY <1>6, <1>8, <2>1 DEF PackInv, Known
<1> QED BY <1>9, <1>10

LEMMA DeleteKeepsInv ==
  ASSUME NEW d \in Counts, NEW a \in Counts, NEW n \in Counts, Known(d, a, n), DeleteShard
  PROVE PackInv'
<1>1. /\ n \in Nat /\ a \in Nat /\ d \in Nat /\ PackExperts \in Nat /\ n <= PackExperts
      /\ pkProc.pc = "delete" /\ pkProc.exit # "done" /\ ~pkKeep
      /\ a < n /\ d = a /\ pkSynced = n /\ pkPack = Run(0, n)
  BY Numerals DEF Known, Working, DeleteShard, PackAt
<1>2. /\ pkProc.entries = Run(0, n) /\ pkProc.pending = Run(a, n)
      /\ pkShards = (a + 1) .. PackExperts
  BY <1>1 DEF Known, Intervals
<1>3. Head(Run(a, n)) = a + 1 /\ Tail(Run(a, n)) = Run(a + 1, n)
  BY <1>1, RunHeadTail
<1>4. a + 1 \in Counts /\ a + 1 \in Nat /\ a + 1 <= n
  BY <1>1 DEF Counts
<1>5. Run(a + 1, n) \in Seq(Nat) /\ Len(Run(a + 1, n)) = n - (a + 1)
  BY <1>1, <1>4, RunIsSeq
<1>6. Run(a + 1, n) = <<>> <=> a + 1 = n
  BY <1>1, <1>4, <1>5
<1> DEFINE pc == IF a + 1 = n THEN "pack" ELSE "delete"
<1>7. /\ pkProc' = [pkProc EXCEPT !.pending = Run(a + 1, n), !.pc = pc]
      /\ UNCHANGED <<pkKeep, pkPack, pkSynced, pkIndex>>
  BY <1>2, <1>3, <1>6 DEF DeleteShard
<1>8. pkShards' = (a + 2) .. PackExperts
  BY <1>1, <1>2, <1>3 DEF DeleteShard
<1>9. /\ PackState'
      /\ pkProc'.pc = pc /\ pkProc'.entries = Run(0, n) /\ pkProc'.pending = Run(a + 1, n)
      /\ pkProc'.exit = pkProc.exit /\ pkProc'.bare = pkProc.bare
  <2>1. pkProc \in Builder
    BY DEF Known, PackState
  <2>2. pkProc' \in Builder
    BY <1>5, <1>7, <2>1 DEF Builder
  <2>3. /\ pkProc'.pc = pc /\ pkProc'.entries = pkProc.entries
        /\ pkProc'.pending = Run(a + 1, n)
        /\ pkProc'.exit = pkProc.exit /\ pkProc'.bare = pkProc.bare
    BY <1>7, <2>1 DEF Builder
  <2> QED BY <1>2, <1>7, <2>2, <2>3 DEF Known, PackState
<1>10. Intervals(a + 1, a + 1, n)'
  BY <1>1, <1>4, <1>8, <1>9 DEF Intervals
<1>11. Working(a + 1, a + 1, n)'
  BY <1>1, <1>4, <1>7, <1>9 DEF Working
<1>12. OnDisk(a + 1)'
  BY <1>1, <1>4, <1>7, <1>9 DEF Known, OnDisk
<1> QED BY <1>4, <1>9, <1>10, <1>11, <1>12 DEF PackInv, Known

LEMMA IndexKeepsInv ==
  ASSUME NEW d \in Counts, NEW a \in Counts, NEW n \in Counts, Known(d, a, n), OpenPackIndex
  PROVE PackInv'
<1>1. /\ n \in Nat /\ a \in Nat /\ d \in Nat /\ PackExperts \in Nat /\ n <= PackExperts
      /\ a <= n /\ pkProc.pc = "pack" /\ pkProc.exit # "done"
      /\ pkProc.entries = Run(0, n) /\ pkProc.pending = Run(a, n) /\ pkPack = Run(0, n)
  BY Numerals DEF Known, Intervals, Working, OpenPackIndex, PackAt
<1>2. n = PackExperts
  <2>1. Len(pkProc.entries) = n
    BY <1>1, FromFirst
  <2> QED BY <1>1, <2>1 DEF OpenPackIndex, NextExpert
<1>3. a = n
  <2>1. a < n => Run(a, n) # <<>>
    BY <1>1, RunHeadTail
  <2> QED BY <1>1, <2>1 DEF OpenPackIndex
<1>4. /\ pkProc' = [pkProc EXCEPT !.pc = "index"] /\ pkIndex' = <<"partial">>
      /\ UNCHANGED <<pkKeep, pkShards, pkPack, pkSynced>>
  BY DEF OpenPackIndex, PackGoto
<1>5. /\ PackState'
      /\ pkProc'.pc = "index" /\ pkProc'.entries = pkProc.entries
      /\ pkProc'.pending = pkProc.pending
      /\ pkProc'.exit = pkProc.exit /\ pkProc'.bare = pkProc.bare
  BY <1>4 DEF Known, PackState, Builder
<1>6. Intervals(d, a, n)'
  BY <1>4, <1>5 DEF Known, Intervals
<1>7. Working(d, a, n)'
  BY <1>1, <1>2, <1>3, <1>4, <1>5 DEF Known, Working
<1>8. OnDisk(d)'
  BY <1>1, <1>4, <1>5 DEF Known, OnDisk
<1> QED BY <1>5, <1>6, <1>7, <1>8 DEF PackInv, Known

LEMMA WriteIndexKeepsInv ==
  ASSUME NEW d \in Counts, NEW a \in Counts, NEW n \in Counts, Known(d, a, n), WritePackIndex
  PROVE PackInv'
<1>1. /\ pkPack = Run(0, PackExperts) /\ pkProc.entries = Run(0, PackExperts)
      /\ pkProc.pc = "index"
  BY DEF Known, Intervals, Working, WritePackIndex, PackAt
<1>2. /\ pkProc' = Halted("done", pkProc.died, pkProc.bare) /\ pkIndex' = pkPack
      /\ UNCHANGED <<pkKeep, pkShards, pkPack, pkSynced>>
  BY <1>1 DEF WritePackIndex, PackExit
<1>3. /\ PackState'
      /\ pkProc'.pc = "halted" /\ pkProc'.entries = <<>> /\ pkProc'.pending = <<>>
      /\ pkProc'.exit = "done" /\ pkProc'.bare = pkProc.bare
  BY <1>2 DEF Known, PackState, Builder, Halted
<1>4. 0 \in Counts /\ Run(0, 0) = <<>>
  BY Numerals, RunEmpty DEF Counts
<1>5. Intervals(d, 0, 0)'
  BY <1>2, <1>3, <1>4 DEF Known, Intervals
<1>6. Working(d, 0, 0)'
  BY <1>2, <1>3 DEF Known, Working
<1>7. OnDisk(d)'
  BY <1>1, <1>2, <1>3 DEF Known, OnDisk
<1> QED BY <1>3, <1>4, <1>5, <1>6, <1>7 DEF PackInv, Known

\* Power loss: what is left of the pack is a prefix with at least the synced experts.
LEMMA DeathKeepsInv ==
  ASSUME NEW d \in Counts, NEW a \in Counts, NEW n \in Counts, Known(d, a, n), PackDies
  PROVE PackInv'
<1>1. n \in Nat /\ pkPack = Run(0, n) /\ pkSynced \in Nat /\ pkProc.pc # "halted"
  BY Numerals DEF Known, PackState, Working, PackDies, PackAt
<1>2. /\ pkProc' = Halted("died", pkProc.died + 1, pkProc.bare)
      /\ UNCHANGED <<pkKeep, pkShards, pkSynced, pkIndex>>
  BY DEF PackDies
<1>3. \E m \in Counts : pkPack' = Run(0, m) /\ pkSynced <= m
  <2>1. Len(pkPack) = n
    BY <1>1, FromFirst
  <2>2. PICK m \in pkSynced .. n : pkPack' = SubSeq(pkPack, 1, m)
    BY <2>1 DEF PackDies
  <2>3. m \in Nat /\ m <= n /\ pkSynced <= m
    BY <1>1, <2>2
  <2>4. pkPack' = Run(0, m)
    BY <1>1, <2>2, <2>3, RunPrefix
  <2>5. m \in Counts
    BY <1>1, <2>3, Numerals DEF Counts
  <2> QED BY <2>3, <2>4, <2>5
<1>4. /\ PackState'
      /\ pkProc'.pc = "halted" /\ pkProc'.entries = <<>> /\ pkProc'.pending = <<>>
      /\ pkProc'.exit = "died" /\ pkProc'.bare = pkProc.bare
  BY <1>2 DEF Known, PackState, Builder, Failures, Halted
<1>5. 0 \in Counts /\ Run(0, 0) = <<>>
  BY Numerals, RunEmpty DEF Counts
<1>6. Intervals(d, 0, 0)'
  BY <1>2, <1>4, <1>5 DEF Known, Intervals
<1>7. Working(d, 0, 0)'
  BY <1>2, <1>4 DEF Known, Working
<1>8. OnDisk(d)'
  BY <1>1, <1>2, <1>3, <1>4 DEF Known, Working, OnDisk
<1> QED BY <1>4, <1>5, <1>6, <1>7, <1>8 DEF PackInv, Known

LEMMA PackNextKeepsInv == PackInv /\ [PackNext]_pkVars => PackInv'
<1> SUFFICES ASSUME PackInv, [PackNext]_pkVars PROVE PackInv'
  OBVIOUS
<1>1. PICK d, a, n \in Counts : Known(d, a, n)
  BY DEF PackInv
<1>2. CASE ResumePack \/ FreshPack \/ AppendShard
  BY <1>1, <1>2, ResumeKeepsInv, FreshKeepsInv, AppendKeepsInv
<1>3. CASE SyncAndVerify \/ DeleteShard
  BY <1>1, <1>3, SyncKeepsInv, DeleteKeepsInv
<1>4. CASE OpenPackIndex \/ WritePackIndex \/ PackDies
  BY <1>1, <1>4, IndexKeepsInv, WriteIndexKeepsInv, DeathKeepsInv
<1>5. CASE RefuseIndexed \/ RefuseShort \/ ShardMissing
  <2>1. pkProc.exit # "done" /\ UNCHANGED <<pkKeep, pkDisk>>
    BY <1>1, <1>5 DEF Known, Working, RefuseIndexed, RefuseShort, CanResume, ShardMissing, PackAt
  <2>2. \E status \in Failures : PackExit(status)
    BY <1>5 DEF RefuseIndexed, RefuseShort, ShardMissing, Failures
  <2> QED BY <1>1, <2>1, <2>2, ExitKeepsInv
<1>6. CASE UNCHANGED pkVars
  BY <1>1, <1>6 DEF PackInv, Known, PackState, Intervals, Working, OnDisk, pkVars, pkDisk
<1> QED
  BY <1>2, <1>3, <1>4, <1>5, <1>6 DEF PackNext, build_experts_pack, flush_chunk

\* build_experts_pack.py loses no expert and writes no wrong index: for any number of
\* experts and any chunks, whatever runs lose power at whatever step.
THEOREM PackAlwaysSound == PackSpec => []PackSound
<1>1. PackInit => PackInv
  <2> SUFFICES ASSUME PackInit PROVE PackInv
    OBVIOUS
  <2>1. 0 \in Counts /\ Run(0, 0) = <<>>
    BY Numerals, RunEmpty DEF Counts
  <2>2. PackState /\ Intervals(0, 0, 0) /\ Working(0, 0, 0) /\ OnDisk(0)
    BY <2>1, PackAssumption
    DEF PackInit, PackState, Builder, Failures, Halted, Intervals, Working, OnDisk
  <2> QED BY <2>1, <2>2 DEF PackInv, Known
<1>2. PackInv => PackSound
  <2> SUFFICES ASSUME PackInv PROVE PackSound
    OBVIOUS
  <2>1. PICK d, a, n \in Counts : Known(d, a, n)
    BY DEF PackInv
  <2>2. d \in Nat /\ PackExperts \in Nat
    BY Numerals
  <2>3. NoExpertLost
    <3> SUFFICES ASSUME ~pkProc.bare, NEW i \in 1 .. PackExperts, i \notin pkShards
                 PROVE i <= pkSynced /\ pkPack[i] = i
      BY DEF NoExpertLost
    <3>1. i <= d /\ d <= pkSynced /\ pkSynced \in Nat /\ 1 <= d
      BY <2>1, <2>2 DEF Known, PackState, Intervals, OnDisk
    <3>2. PICK m \in Counts : pkPack = Run(0, m) /\ pkSynced <= m
      BY <2>1, <3>1 DEF Known, OnDisk
    <3>3. m \in Nat /\ i \in 1 .. m
      BY <2>2, <3>1, <3>2, Numerals
    <3>4. Run(0, m)[i] = i
      BY <3>3, FromFirst
    <3> QED BY <2>2, <3>1, <3>2, <3>4
  <2>4. PackIndexExact
    BY <2>1, <2>2, NumbersIsRun DEF Known, OnDisk, PackIndexExact
  <2> QED BY <2>3, <2>4 DEF PackSound
<1> QED BY <1>1, <1>2, PackNextKeepsInv, PTL DEF PackSpec

---------------------------------------------------------------------------
(* The catalog: the inductive invariant *)

JobRecord ==
    [kind : JobKinds,
     pc : {"start", "read", "work", "fill", "index", "release", "end", "dead"},
     memory : SUBSET Experts, todo : SUBSET Nat,
     exit : {"none", "error", "blocked", "dry_run_ready", "ready", "catalog_lock_exists"}]

CatalogTyped ==
    /\ ctJob \in [Jobs -> JobRecord]
    /\ ctLock \in BOOLEAN /\ ctDryRelease \in BOOLEAN
    /\ ctFile \in [Experts -> {"absent", "partial", "whole", "linked"}]
    /\ ctSource \in [SourceModel -> {"partial", "whole"}]
    /\ ctIndex \in [state : {"partial", "whole"}, experts : SUBSET Experts]

\* Only a job that executes gets to work, on experts that its tool can make.
AtWork(j) == ctJob[j].pc \in {"work", "fill", "index"}

\* A file of the source model that is not whole is one that jobs write to by a link.
LinksSound ==
    /\ \A e \in Experts : ctFile[e] = "linked" => e \in SourceModel
    /\ \A e \in SourceModel : ctFile[e] # "linked" => ctSource[e] = "whole"

JobsSound ==
    /\ \A j \in Jobs : AtWork(j) =>
          /\ Kind(j).execute
          /\ ctJob[j].todo \subseteq Experts
          /\ Kind(j).tool = "reuse" => ctJob[j].todo \subseteq SourceModel
    /\ \A j \in Jobs : JobAt(j, "fill") => ctJob[j].todo # {}
    /\ LinksSound

\* While it is trusted, the lock exists as long as a job works, and only one does.
Locked ==
    \A j \in Jobs : Holds(j) => ctLock /\ \A k \in Jobs : Holds(k) => k = j

\* What the working job has in memory is all that was ever reported.
Remembered ==
    /\ NoLostRecord
    /\ \A j \in Jobs : AtWork(j) => ctReported \subseteq ctJob[j].memory

\* As long as no job died, a file that exists is whole but for the one that is being
\* filled, and the records speak of files that exist.
Exists(e) == ctFile[e] # "absent"

FilesWhole ==
    /\ \A e \in Experts : Exists(e) => FileBytes(e) = "whole" \/ Rewriting(e)
    /\ \A e \in ctIndex.experts : Exists(e)
    /\ \A j \in Jobs : AtWork(j) => \A e \in ctJob[j].memory : Exists(e)
    /\ \A j \in Jobs : JobAt(j, "fill") => Exists(Next1(j))

CatalogInv ==
    /\ CatalogTyped /\ JobsSound
    /\ ~ctDryRelease => Locked /\ Remembered
    /\ ~ctDryRelease /\ Dead = {} => FilesWhole

---------------------------------------------------------------------------
(* A job moves *)

LEMMA LeastExpert ==
  ASSUME NEW S, S \subseteq Nat, S # {}
  PROVE Smallest(S) \in S
<1> DEFINE below == OpToRel(<, Nat)
<1>1. \A x, y \in Nat : y < x => <<y, x>> \in below
  BY DEF OpToRel
<1>2. IsWellFoundedOn(below, Nat)
  BY NatLessThanWellFounded
<1> HIDE DEF below
<1>3. \E x \in S : \A y \in S : ~(<<y, x>> \in below)
  BY <1>2, WFMin
<1>4. PICK x \in S : \A y \in S : ~(<<y, x>> \in below)
  BY <1>3
<1>5. \A y \in S : ~(y < x)
  BY <1>1, <1>4
<1>6. \A y \in S : x <= y
  BY <1>5
<1> QED BY <1>6 DEF Smallest

LEMMA ExpertsAreNumbers == Experts \subseteq Nat
  BY CatalogAssumption DEF Experts

LEMMA JobMoved ==
  ASSUME CatalogTyped, NEW j \in Jobs, NEW r \in JobRecord, ctJob' = [ctJob EXCEPT ![j] = r]
  PROVE /\ ctJob' \in [Jobs -> JobRecord] /\ ctJob'[j] = r
        /\ \A k \in Jobs \ {j} : ctJob'[k] = ctJob[k]
  BY DEF CatalogTyped

\* A step of a job that does not touch the lock and the index, and that brings it to
\* work only with experts it can make and with everything reported in memory.
JobStep(j, r) ==
  /\ ctJob' = [ctJob EXCEPT ![j] = r]
  /\ r \in JobRecord /\ r.kind = Kind(j)
  /\ ctJob[j].pc \notin {"end", "dead"}
  /\ r.pc # "start"
  /\ Kind(j).execute => ctJob[j].pc # "start" \/ r.pc = "end"
  /\ r.pc \in {"work", "fill", "index"} =>
        /\ Kind(j).execute
        /\ r.todo \subseteq Experts
        /\ Kind(j).tool = "reuse" => r.todo \subseteq SourceModel
        /\ ~ctDryRelease => ctReported \subseteq r.memory
  /\ r.pc = "fill" => r.todo # {}
  /\ UNCHANGED <<ctLock, ctReported, ctDryRelease>>

LEMMA JobStepKeeps ==
  ASSUME CatalogInv, NEW j \in Jobs, NEW r, JobStep(j, r)
  PROVE /\ ctJob' \in [Jobs -> JobRecord] /\ ctJob'[j] = r
        /\ \A k \in Jobs \ {j} : ctJob'[k] = ctJob[k]
        /\ \A k \in Jobs : AtWork(k)' =>
             /\ Kind(k)'.execute
             /\ ctJob'[k].todo \subseteq Experts
             /\ Kind(k)'.tool = "reuse" => ctJob'[k].todo \subseteq SourceModel
             /\ ~ctDryRelease' => ctReported' \subseteq ctJob'[k].memory
        /\ \A k \in Jobs : JobAt(k, "fill")' => ctJob'[k].todo # {}
        /\ ~ctDryRelease' => Locked'
        /\ Dead' = {} => Dead = {}
<1>1. /\ ctJob' \in [Jobs -> JobRecord] /\ ctJob'[j] = r
      /\ \A k \in Jobs \ {j} : ctJob'[k] = ctJob[k]
  BY JobMoved DEF CatalogInv, JobStep
<1>2. \A k \in Jobs : Holds(k)' => Holds(k)
  BY <1>1 DEF JobStep, Holds, Kind
<1>3. ~ctDryRelease' => Locked'
  BY <1>2 DEF JobStep, CatalogInv, Locked
<1>4. \A k \in Jobs : AtWork(k)' =>
             /\ Kind(k)'.execute
             /\ ctJob'[k].todo \subseteq Experts
             /\ Kind(k)'.tool = "reuse" => ctJob'[k].todo \subseteq SourceModel
             /\ ~ctDryRelease' => ctReported' \subseteq ctJob'[k].memory
  BY <1>1 DEF JobStep, CatalogInv, JobsSound, Remembered, AtWork, Kind
<1>5. \A k \in Jobs : JobAt(k, "fill")' => ctJob'[k].todo # {}
  BY <1>1 DEF JobStep, CatalogInv, JobsSound, JobAt
<1>6. Dead' = {} => Dead = {}
  BY <1>1 DEF JobStep, Dead, JobAt
<1> QED BY <1>1, <1>3, <1>4, <1>5, <1>6

\* The same for a step that changes no file either, of a job that was at work on
\* what it is still at work on.
LEMMA QuietStepKeeps ==
  ASSUME CatalogInv, NEW j \in Jobs, NEW r, JobStep(j, r),
         UNCHANGED <<ctFile, ctSource, ctIndex>>,
         ctJob[j].pc # "fill" \/ r.pc = "dead", r.pc # "fill",
         ~ctDryRelease /\ Dead = {} /\ r.pc \in {"work", "index"}
            => \A e \in r.memory : Exists(e)
  PROVE CatalogInv'
<1>1. CatalogTyped'
  BY JobStepKeeps DEF CatalogInv, CatalogTyped, JobStep
<1>2. JobsSound'
  BY JobStepKeeps DEF CatalogInv, JobsSound, LinksSound, AtWork, JobAt, Kind
<1>3. ~ctDryRelease' => Locked' /\ Remembered'
  BY JobStepKeeps DEF CatalogInv, Remembered, NoLostRecord, JobStep
<1>4. ASSUME ~ctDryRelease', Dead' = {} PROVE FilesWhole'
  <2>1. FilesWhole /\ ~ctDryRelease /\ Dead = {}
    BY <1>4, JobStepKeeps DEF CatalogInv, JobStep
  <2>a. ctJob[j].pc # "fill"
    BY <1>4, JobStepKeeps DEF Dead, JobAt
  <2>2. \A k \in Jobs : JobAt(k, "fill")' <=> JobAt(k, "fill")
    BY <2>a, JobStepKeeps DEF JobAt
  <2>3. \A k \in Jobs : JobAt(k, "fill") => Next1(k)' = Next1(k)
    BY <2>a, JobStepKeeps DEF JobAt, Next1
  <2>4. \A e : Rewriting(e)' <=> Rewriting(e)
    BY <2>2, <2>3 DEF Rewriting
  <2>5. \A e : Exists(e)' <=> Exists(e)
    BY DEF Exists
  <2>6. \A e : FileBytes(e)' = FileBytes(e)
    BY DEF FileBytes
  <2>7. \A k \in Jobs : AtWork(k)' => \A e \in ctJob'[k].memory : Exists(e)
    BY <2>1, JobStepKeeps DEF AtWork, FilesWhole
  <2>8. \A e \in Experts : Exists(e)' => FileBytes(e)' = "whole" \/ Rewriting(e)'
    BY <2>1, <2>4, <2>5, <2>6 DEF FilesWhole
  <2>9. \A e \in ctIndex'.experts : Exists(e)'
    BY <2>1, <2>5 DEF FilesWhole
  <2>10. \A k \in Jobs : JobAt(k, "fill")' => Exists(Next1(k))'
    BY <2>1, <2>2, <2>3 DEF FilesWhole, Exists
  <2> QED BY <2>5, <2>7, <2>8, <2>9, <2>10 DEF FilesWhole
<1> QED BY <1>1, <1>2, <1>3, <1>4 DEF CatalogInv

---------------------------------------------------------------------------
(* Files *)

\* A job at work has an expert in hand.
LEMMA InHand ==
  ASSUME CatalogInv, NEW j \in Jobs, AtWork(j), ctJob[j].todo # {}
  PROVE Next1(j) \in ctJob[j].todo /\ Next1(j) \in Experts
<1>1. ctJob[j].todo \subseteq Experts
  BY DEF CatalogInv, JobsSound
<1>2. Next1(j) \in ctJob[j].todo
  BY <1>1, ExpertsAreNumbers, LeastExpert DEF Next1
<1> QED BY <1>1, <1>2

\* While the lock is trusted nobody else is at work.
LEMMA Alone ==
  ASSUME CatalogInv, ~ctDryRelease, NEW j \in Jobs, AtWork(j), NEW k \in Jobs, AtWork(k)
  PROVE k = j
  BY DEF CatalogInv, Locked, Holds, AtWork, JobsSound

\* A job at work changes the file of the expert in hand: either it begins to fill it,
\* or the file is whole after the step.
LEMMA FileStepKeeps ==
  ASSUME CatalogInv, NEW j \in Jobs, NEW r, JobStep(j, r), UNCHANGED ctIndex,
         AtWork(j), NEW x \in Experts, x = Next1(j),
         ctFile' \in [Experts -> {"absent", "partial", "whole", "linked"}],
         ctSource' \in [SourceModel -> {"partial", "whole"}],
         LinksSound',
         \A e \in Experts : Exists(e) => Exists(e)',
         \A e \in Experts \ {x} : Exists(e)' => Exists(e),
         \A e \in Experts \ {x} : FileBytes(e)' = FileBytes(e),
         Exists(x)',
         r.pc \in {"work", "fill"},
         IF r.pc = "fill" THEN r.todo = ctJob[j].todo ELSE FileBytes(x)' = "whole",
         r.memory \subseteq ctJob[j].memory \cup {x}
  PROVE CatalogInv'
<1>1. CatalogTyped'
  BY JobStepKeeps DEF CatalogInv, CatalogTyped, JobStep
<1>2. JobsSound'
  BY JobStepKeeps DEF CatalogInv, JobsSound, AtWork, JobAt, Kind
<1>3. ~ctDryRelease' => Locked' /\ Remembered'
  BY JobStepKeeps DEF CatalogInv, Remembered, NoLostRecord, JobStep
<1>4. ASSUME ~ctDryRelease', Dead' = {} PROVE FilesWhole'
  <2>1. FilesWhole /\ ~ctDryRelease /\ Dead = {}
    BY <1>4, JobStepKeeps DEF CatalogInv, JobStep
  <2>2. \A k \in Jobs : AtWork(k)' => k = j
    BY <2>1, JobStepKeeps, Alone DEF AtWork
  <2>3. \A e : Rewriting(e) => e = x
    BY <2>1, Alone DEF Rewriting, AtWork, JobAt
  <2>4. r.pc = "fill" => Rewriting(x)' /\ Next1(j)' = x
    BY JobStepKeeps DEF Rewriting, JobAt, Next1
  <2>5. \A e \in Experts : Exists(e)' => FileBytes(e)' = "whole" \/ Rewriting(e)'
    <3> SUFFICES ASSUME NEW e \in Experts, Exists(e)'
                 PROVE FileBytes(e)' = "whole" \/ Rewriting(e)'
      OBVIOUS
    <3>1. CASE e = x
      BY <2>4, <3>1
    <3>2. CASE e # x
      BY <2>1, <2>3, <3>2 DEF FilesWhole
    <3> QED BY <3>1, <3>2
  <2>6. \A e \in ctIndex'.experts : Exists(e)'
    BY <2>1 DEF FilesWhole, CatalogInv, CatalogTyped
  <2>7. \A k \in Jobs : AtWork(k)' => \A e \in ctJob'[k].memory : Exists(e)'
    <3>1. \A e \in ctJob[j].memory : e \in Experts /\ Exists(e)
      BY <2>1 DEF FilesWhole, CatalogInv, CatalogTyped, JobRecord
    <3>2. \A e \in r.memory : Exists(e)'
      BY <3>1
    <3> QED BY <2>2, <3>2, JobStepKeeps
  <2>8. \A k \in Jobs : JobAt(k, "fill")' => Exists(Next1(k))'
    <3> SUFFICES ASSUME NEW k \in Jobs, JobAt(k, "fill")' PROVE Exists(Next1(k))'
      OBVIOUS
    <3>1. k = j /\ r.pc = "fill"
      BY <2>2, JobStepKeeps DEF AtWork, JobAt
    <3> QED BY <2>4, <3>1
  <2> QED BY <2>5, <2>6, <2>7, <2>8 DEF FilesWhole
<1> QED BY <1>1, <1>2, <1>3, <1>4 DEF CatalogInv

\* What SetBytes does to the files.
LEMMA BytesSet ==
  ASSUME CatalogInv, NEW x \in Experts, NEW s \in {"partial", "whole"}, SetBytes(x, s)
  PROVE /\ ctFile' \in [Experts -> {"absent", "partial", "whole", "linked"}]
        /\ ctSource' \in [SourceModel -> {"partial", "whole"}]
        /\ LinksSound'
        /\ \A e \in Experts : Exists(e) => Exists(e)'
        /\ \A e \in Experts \ {x} : Exists(e)' => Exists(e)
        /\ \A e \in Experts \ {x} : FileBytes(e)' = FileBytes(e)
        /\ Exists(x)' /\ FileBytes(x)' = s
<1>1. CASE ctFile[x] = "linked"
  BY <1>1 DEF SetBytes, CatalogInv, CatalogTyped, JobsSound, LinksSound, Experts, Exists, FileBytes
<1>2. CASE ctFile[x] # "linked"
  BY <1>2 DEF SetBytes, CatalogInv, CatalogTyped, JobsSound, LinksSound, Experts, Exists, FileBytes
<1> QED BY <1>1, <1>2

LEMMA JobRecordAt ==
  ASSUME CatalogInv, NEW j \in Jobs
  PROVE ctJob[j] \in JobRecord /\ Kind(j) \in JobKinds /\ Kind(j).execute \in BOOLEAN
  BY CatalogAssumption DEF CatalogInv, CatalogTyped, Kind, JobRecord

LEMMA OpenMaterializedKeeps ==
  ASSUME CatalogInv, NEW j \in Jobs, OpenMaterialized(j)
  PROVE CatalogInv'
<1> DEFINE r == [ctJob[j] EXCEPT !.pc = "fill"]
<1>1. AtWork(j) /\ Next1(j) \in Experts
  BY InHand DEF OpenMaterialized, AtWork, JobAt
<1>2. /\ r \in JobRecord /\ r.kind = Kind(j) /\ r.pc = "fill"
      /\ r.todo = ctJob[j].todo /\ r.memory = ctJob[j].memory
  BY JobRecordAt DEF JobRecord, Kind
<1>3. ctJob' = [ctJob EXCEPT ![j] = r]
  BY DEF OpenMaterialized, JobGoto
<1> HIDE DEF r
<1>4. JobStep(j, r)
  BY <1>1, <1>2, <1>3 DEF JobStep, OpenMaterialized, JobAt, CatalogInv, JobsSound, Remembered
<1> QED BY <1>1, <1>2, <1>4, BytesSet, FileStepKeeps DEF OpenMaterialized

\* The expert in hand is done.
LEMMA Did ==
  ASSUME CatalogInv, NEW j \in Jobs, AtWork(j), ctJob[j].todo # {}, DidExpert(j),
         UNCHANGED <<ctLock, ctReported, ctDryRelease>>
  PROVE \E r : /\ JobStep(j, r) /\ r.pc = "work"
               /\ r.memory = ctJob[j].memory \cup {Next1(j)}
<1> DEFINE m == ctJob[j].memory \cup {Next1(j)}
           t == ctJob[j].todo \ {Next1(j)}
           r == [ctJob[j] EXCEPT !.pc = "work", !.memory = m, !.todo = t]
<1>1. Next1(j) \in Experts
  BY InHand
<1>2. ctJob[j] \in JobRecord
  BY JobRecordAt
<1>3. m \in SUBSET Experts /\ t \in SUBSET Nat
  BY <1>1, <1>2 DEF JobRecord
<1>4. ctJob' = [ctJob EXCEPT ![j] = r]
  BY DEF DidExpert
<1>5. ctJob[j].memory \subseteq m /\ t \subseteq ctJob[j].todo
  OBVIOUS
<1>m. m = ctJob[j].memory \cup {Next1(j)}
  OBVIOUS
<1> HIDE DEF m, t
<1>6. /\ r \in JobRecord /\ r.kind = Kind(j) /\ r.pc = "work"
      /\ r.todo = t /\ r.memory = m
  BY <1>2, <1>3 DEF JobRecord, Kind
<1> HIDE DEF r
<1>7. JobStep(j, r)
  BY <1>4, <1>5, <1>6 DEF JobStep, AtWork, CatalogInv, JobsSound, Remembered
<1> QED BY <1>6, <1>7, <1>m

LEMMA FillFileKeeps ==
  ASSUME CatalogInv, NEW j \in Jobs, FillFile(j)
  PROVE CatalogInv'
<1>1. AtWork(j) /\ ctJob[j].todo # {}
  BY DEF FillFile, AtWork, JobAt, CatalogInv, JobsSound
<1>2. PICK r : /\ JobStep(j, r) /\ r.pc = "work"
               /\ r.memory = ctJob[j].memory \cup {Next1(j)}
  BY <1>1, Did DEF FillFile
<1>3. Next1(j) \in Experts
  BY <1>1, InHand
<1> QED BY <1>1, <1>2, <1>3, BytesSet, FileStepKeeps DEF FillFile

LEMMA LinkFileKeeps ==
  ASSUME CatalogInv, NEW j \in Jobs, LinkFile(j)
  PROVE CatalogInv'
<1>1. AtWork(j) /\ ctJob[j].todo # {}
  BY DEF LinkFile, AtWork, JobAt
<1>2. PICK r : /\ JobStep(j, r) /\ r.pc = "work"
               /\ r.memory = ctJob[j].memory \cup {Next1(j)}
  BY <1>1, Did DEF LinkFile
<1>3. PICK x \in Experts : x = Next1(j) /\ x \in SourceModel
  BY <1>1, InHand DEF CatalogInv, JobsSound, LinkFile
<1>4. ctFile[x] = "absent" /\ ctFile' = [ctFile EXCEPT ![x] = "linked"] /\ ctSource' = ctSource
  BY <1>3 DEF LinkFile
<1>5. ctSource[x] = "whole"
  BY <1>3, <1>4 DEF CatalogInv, JobsSound, LinksSound
<1>6. /\ ctFile' \in [Experts -> {"absent", "partial", "whole", "linked"}]
      /\ ctSource' \in [SourceModel -> {"partial", "whole"}]
      /\ LinksSound'
  BY <1>3, <1>4, <1>5 DEF CatalogInv, CatalogTyped, JobsSound, LinksSound, Experts
<1>7. /\ \A e \in Experts : Exists(e) => Exists(e)'
      /\ \A e \in Experts \ {x} : Exists(e)' => Exists(e)
      /\ \A e \in Experts \ {x} : FileBytes(e)' = FileBytes(e)
      /\ Exists(x)' /\ FileBytes(x)' = "whole"
  BY <1>3, <1>4, <1>5 DEF CatalogInv, CatalogTyped, Exists, FileBytes
<1>8. r.memory = ctJob[j].memory \cup {x} /\ x = Next1(j)
  BY <1>2, <1>3
<1> QED BY <1>1, <1>2, <1>3, <1>6, <1>7, <1>8, FileStepKeeps DEF LinkFile

\* A copy begins as a file of which a part is there.
LEMMA CannotLinkKeeps ==
  ASSUME CatalogInv, NEW j \in Jobs, CannotLink(j)
  PROVE CatalogInv'
<1>1. AtWork(j) /\ ctJob[j].pc = "work" /\ ctJob[j].todo # {}
  BY DEF CannotLink, AtWork, JobAt
<1>2. ctJob[j] \in JobRecord
  BY JobRecordAt
<1>3. PICK x \in Experts : x = Next1(j) /\ ctFile[x] = "absent" /\ ctSource' = ctSource
  BY <1>1, InHand DEF CannotLink
<1>4. CASE Kind(j).copy
  <2> DEFINE r == [ctJob[j] EXCEPT !.pc = "fill"]
  <2>1. ctJob' = [ctJob EXCEPT ![j] = r] /\ ctFile' = [ctFile EXCEPT ![x] = "partial"]
    BY <1>3, <1>4 DEF CannotLink, JobGoto
  <2>2. /\ r \in JobRecord /\ r.kind = Kind(j) /\ r.pc = "fill"
        /\ r.todo = ctJob[j].todo /\ r.memory = ctJob[j].memory
    BY <1>2 DEF JobRecord, Kind
  <2> HIDE DEF r
  <2>3. JobStep(j, r)
    BY <1>1, <2>1, <2>2 DEF JobStep, CannotLink, AtWork, CatalogInv, JobsSound, Remembered
  <2>5. /\ ctFile' \in [Experts -> {"absent", "partial", "whole", "linked"}]
        /\ ctSource' \in [SourceModel -> {"partial", "whole"}]
        /\ LinksSound'
    BY <1>3, <2>1 DEF CatalogInv, CatalogTyped, JobsSound, LinksSound, Experts
  <2>6. /\ \A e \in Experts : Exists(e) => Exists(e)'
        /\ \A e \in Experts \ {x} : Exists(e)' => Exists(e)
        /\ \A e \in Experts \ {x} : FileBytes(e)' = FileBytes(e)
        /\ Exists(x)'
    BY <1>3, <2>1 DEF CatalogInv, CatalogTyped, Exists, FileBytes
  <2> QED BY <1>1, <1>3, <2>2, <2>3, <2>5, <2>6, FileStepKeeps DEF CannotLink
<1>5. CASE ~Kind(j).copy
  <2> DEFINE r == [ctJob[j] EXCEPT !.pc = "release", !.exit = "error"]
  <2>1. ctJob' = [ctJob EXCEPT ![j] = r] /\ ctFile' = ctFile
    BY <1>5 DEF CannotLink
  <2>2. r \in JobRecord /\ r.kind = Kind(j) /\ r.pc = "release"
    BY <1>2 DEF JobRecord, Kind
  <2> HIDE DEF r
  <2>3. JobStep(j, r)
    BY <1>1, <2>1, <2>2 DEF JobStep, CannotLink
  <2> QED BY <1>1, <1>3, <2>1, <2>2, <2>3, QuietStepKeeps DEF CannotLink
<1> QED BY <1>4, <1>5

LEMMA TakeExistingKeeps ==
  ASSUME CatalogInv, NEW j \in Jobs, TakeExisting(j)
  PROVE CatalogInv'
<1>1. AtWork(j) /\ ctJob[j].pc = "work" /\ ctJob[j].todo # {}
  BY DEF TakeExisting, AtWork, JobAt
<1>2. PICK r : /\ JobStep(j, r) /\ r.pc = "work"
               /\ r.memory = ctJob[j].memory \cup {Next1(j)}
  BY <1>1, Did DEF TakeExisting
<1>3. ~ctDryRelease /\ Dead = {} => \A e \in r.memory : Exists(e)
  BY <1>1, <1>2 DEF CatalogInv, FilesWhole, TakeExisting, Exists
<1> QED BY <1>1, <1>2, <1>3, QuietStepKeeps DEF TakeExisting

---------------------------------------------------------------------------
(* The index *)

\* The least job that can read the index: what it will write is what it has read.
LEMMA ReadCatalogKeeps ==
  ASSUME CatalogInv, NEW j \in Jobs, ReadCatalog(j)
  PROVE CatalogInv'
<1> DEFINE wanted == IF Kind(j).tool = "materialize" THEN Kind(j).ids ELSE SourceModel
           todo == IF Kind(j).overwrite THEN wanted ELSE wanted \ ctIndex.experts
           blocked == Kind(j).tool = "materialize" /\ ~(todo \subseteq SourceTensors)
           exit == IF ctIndex.state # "whole" THEN "error"
                   ELSE IF blocked THEN "blocked"
                   ELSE IF Kind(j).execute THEN "none" ELSE "dry_run_ready"
           p == IF exit = "none" THEN "work" ELSE "release"
           r == [ctJob[j] EXCEPT !.pc = p, !.exit = exit, !.memory = ctIndex.experts, !.todo = todo]
<1>1. ctJob[j] \in JobRecord /\ Kind(j) \in JobKinds /\ ctJob[j].pc = "read"
  BY JobRecordAt DEF ReadCatalog, JobAt
<1>2. /\ Kind(j).tool \in {"materialize", "reuse"} /\ Kind(j).execute \in BOOLEAN
      /\ Kind(j).ids \in SUBSET Nat
  BY <1>1, CatalogAssumption
<1>3. todo \in SUBSET Nat
  BY <1>2, CatalogAssumption
<1>4. exit \in {"none", "error", "blocked", "dry_run_ready"} /\ ctIndex.experts \in SUBSET Experts
  BY DEF CatalogInv, CatalogTyped
<1>5. exit = "none" => ctIndex.state = "whole" /\ ~blocked /\ Kind(j).execute
  BY <1>2
<1>6. ctJob' = [ctJob EXCEPT ![j] = r]
  <2>1. ctJob' = [ctJob EXCEPT ![j].pc = p, ![j].exit = exit, ![j].memory = ctIndex.experts,
                               ![j].todo = todo]
    BY Zenon DEF ReadCatalog
  <2> HIDE DEF p, exit, todo
  <2> QED BY <2>1
<1>7. exit = "none" => /\ todo \subseteq Experts
                       /\ Kind(j).tool = "reuse" => todo \subseteq SourceModel
  BY <1>2, <1>5 DEF Experts
<1>8. p \in {"work", "release"} /\ (p = "work" => exit = "none")
  OBVIOUS
<1> HIDE DEF wanted, todo, blocked, exit, p
<1>9. /\ r \in JobRecord /\ r.kind = Kind(j) /\ r.pc = p
      /\ r.todo = todo /\ r.memory = ctIndex.experts
  BY <1>1, <1>3, <1>4, <1>8 DEF JobRecord, Kind
<1> HIDE DEF r
<1>10. JobStep(j, r)
  BY <1>1, <1>5, <1>6, <1>7, <1>8, <1>9 DEF JobStep, ReadCatalog, CatalogInv, Remembered, NoLostRecord
<1>11. ~ctDryRelease /\ Dead = {} => \A e \in r.memory : Exists(e)
  BY <1>9 DEF CatalogInv, FilesWhole
<1> QED BY <1>1, <1>8, <1>9, <1>10, <1>11, QuietStepKeeps DEF ReadCatalog

LEMMA OpenCatalogKeeps ==
  ASSUME CatalogInv, NEW j \in Jobs, OpenCatalog(j)
  PROVE CatalogInv'
<1> DEFINE r == [ctJob[j] EXCEPT !.pc = "index"]
<1>1. AtWork(j) /\ ctJob[j].pc = "work" /\ ctJob[j] \in JobRecord
  BY JobRecordAt DEF OpenCatalog, AtWork, JobAt
<1>2. /\ r \in JobRecord /\ r.kind = Kind(j) /\ r.pc = "index"
      /\ r.todo = ctJob[j].todo /\ r.memory = ctJob[j].memory
  BY <1>1 DEF JobRecord, Kind
<1>3. /\ ctJob' = [ctJob EXCEPT ![j] = r]
      /\ ctIndex' = [state |-> "partial", experts |-> {}]
      /\ UNCHANGED <<ctLock, ctFile, ctSource, ctReported, ctDryRelease>>
  BY DEF OpenCatalog, JobGoto
<1> HIDE DEF r
<1>4. JobStep(j, r)
  BY <1>1, <1>2, <1>3 DEF JobStep, AtWork, CatalogInv, JobsSound, Remembered
<1>5. CatalogTyped'
  BY <1>3, <1>4, JobStepKeeps DEF CatalogInv, CatalogTyped
<1>6. JobsSound'
  BY <1>3, <1>4, JobStepKeeps DEF CatalogInv, JobsSound, LinksSound, AtWork, JobAt, Kind
<1>7. ~ctDryRelease' => Locked' /\ Remembered'
  BY <1>3, <1>4, JobStepKeeps DEF Remembered, NoLostRecord
<1>8. ASSUME ~ctDryRelease', Dead' = {} PROVE FilesWhole'
  <2>1. FilesWhole /\ ~ctDryRelease
    BY <1>3, <1>4, <1>8, JobStepKeeps DEF CatalogInv
  <2>2. \A k \in Jobs : AtWork(k)' => AtWork(k) /\ ctJob'[k].memory = ctJob[k].memory
    BY <1>1, <1>2, <1>4, JobStepKeeps DEF AtWork
  <2>3. \A k \in Jobs : JobAt(k, "fill")' <=> JobAt(k, "fill")
    BY <1>1, <1>2, <1>4, JobStepKeeps DEF JobAt
  <2>4. \A k \in Jobs : Next1(k)' = Next1(k)
    BY <1>2, <1>4, JobStepKeeps DEF Next1
  <2>5. \A e : /\ Exists(e)' <=> Exists(e)
               /\ FileBytes(e)' = FileBytes(e)
               /\ Rewriting(e)' <=> Rewriting(e)
    BY <1>3, <2>3, <2>4 DEF Exists, FileBytes, Rewriting
  <2>6. ctIndex'.experts = {}
    BY <1>3
  <2>7. \A k \in Jobs : Exists(Next1(k))' <=> Exists(Next1(k))
    BY <1>3, <2>4 DEF Exists
  <2> QED BY <2>1, <2>2, <2>3, <2>5, <2>6, <2>7 DEF FilesWhole
<1> QED BY <1>5, <1>6, <1>7, <1>8 DEF CatalogInv

\* What it writes is all that was reported, and with that it is reported.
LEMMA WriteCatalogKeeps ==
  ASSUME CatalogInv, NEW j \in Jobs, WriteCatalog(j)
  PROVE CatalogInv'
<1> DEFINE m == ctJob[j].memory
           r == [ctJob[j] EXCEPT !.pc = "release", !.exit = "ready"]
<1>1. AtWork(j) /\ ctJob[j].pc = "index" /\ ctJob[j] \in JobRecord
  BY JobRecordAt DEF WriteCatalog, AtWork, JobAt
<1>2. r \in JobRecord /\ r.kind = Kind(j) /\ r.pc = "release"
  BY <1>1 DEF JobRecord, Kind
<1>3. /\ ctJob' = [ctJob EXCEPT ![j] = r]
      /\ ctIndex' = [state |-> "whole", experts |-> m]
      /\ ctReported' = ctReported \cup m
      /\ UNCHANGED <<ctLock, ctFile, ctSource, ctDryRelease>>
  BY DEF WriteCatalog
<1>4. m \in SUBSET Experts
  BY <1>1 DEF JobRecord
<1> HIDE DEF r
<1>5. /\ ctJob' \in [Jobs -> JobRecord] /\ ctJob'[j] = r
      /\ \A k \in Jobs \ {j} : ctJob'[k] = ctJob[k]
  BY <1>2, <1>3, JobMoved DEF CatalogInv
<1>6. CatalogTyped'
  BY <1>3, <1>4, <1>5 DEF CatalogInv, CatalogTyped
<1>7. JobsSound'
  BY <1>2, <1>3, <1>5 DEF CatalogInv, JobsSound, LinksSound, AtWork, JobAt, Kind
<1>8. \A k \in Jobs : Holds(k)' => Holds(k)
  BY <1>1, <1>2, <1>5 DEF Holds, Kind
<1>9. ASSUME ~ctDryRelease' PROVE Locked' /\ Remembered'
  <2>1. Locked /\ Remembered /\ ~ctDryRelease
    BY <1>3, <1>9 DEF CatalogInv
  <2>2. Locked'
    BY <1>3, <1>8, <2>1 DEF Locked
  <2>3. ctReported' \subseteq m
    BY <1>1, <1>3, <2>1 DEF Remembered
  <2>4. \A k \in Jobs : ~AtWork(k)'
    BY <1>1, <1>2, <1>5, <2>1, Alone DEF AtWork
  <2> HIDE DEF m
  <2> QED BY <1>3, <2>2, <2>3, <2>4 DEF Remembered, NoLostRecord
<1>10. ASSUME ~ctDryRelease', Dead' = {} PROVE FilesWhole'
  <2>1. Dead = {} /\ ~ctDryRelease
    BY <1>1, <1>3, <1>5, <1>10 DEF Dead, JobAt
  <2>2. FilesWhole
    BY <2>1 DEF CatalogInv
  <2>3. \A k \in Jobs : ~AtWork(k)' /\ ~JobAt(k, "fill")' /\ ~JobAt(k, "fill")
    BY <1>1, <1>2, <1>5, <2>1, Alone DEF AtWork, JobAt
  <2>4. \A e : /\ Exists(e)' <=> Exists(e)
               /\ FileBytes(e)' = FileBytes(e)
               /\ ~Rewriting(e)
    BY <1>3, <2>3 DEF Exists, FileBytes, Rewriting
  <2>5. \A e \in m : Exists(e)
    BY <1>1, <2>2 DEF FilesWhole
  <2> HIDE DEF m
  <2> QED BY <1>3, <2>2, <2>3, <2>4, <2>5 DEF FilesWhole
<1> QED BY <1>6, <1>7, <1>9, <1>10 DEF CatalogInv

---------------------------------------------------------------------------
(* The lock *)

\* A job that gets the lock finds nobody else holding it.
LEMMA AcquireKeeps ==
  ASSUME CatalogInv, NEW j \in Jobs, acquire_catalog_lock(j)
  PROVE CatalogInv'
<1> DEFINE r == [ctJob[j] EXCEPT !.pc = "read"]
<1>1. ctJob[j] \in JobRecord /\ ctJob[j].pc = "start" /\ ~ctLock
  BY JobRecordAt DEF acquire_catalog_lock, JobAt
<1>2. r \in JobRecord /\ r.kind = Kind(j) /\ r.pc = "read"
  BY <1>1 DEF JobRecord, Kind
<1>3. /\ ctJob' = [ctJob EXCEPT ![j] = r] /\ ctLock' = TRUE
      /\ UNCHANGED <<ctFile, ctSource, ctIndex, ctReported, ctDryRelease>>
  BY DEF acquire_catalog_lock, JobGoto
<1> HIDE DEF r
<1>4. /\ ctJob' \in [Jobs -> JobRecord] /\ ctJob'[j] = r
      /\ \A k \in Jobs \ {j} : ctJob'[k] = ctJob[k]
  BY <1>2, <1>3, JobMoved DEF CatalogInv
<1>5. \A k \in Jobs : /\ AtWork(k)' <=> AtWork(k)
                      /\ JobAt(k, "fill")' <=> JobAt(k, "fill")
                      /\ JobAt(k, "dead")' <=> JobAt(k, "dead")
                      /\ AtWork(k) => ctJob'[k] = ctJob[k] /\ Next1(k)' = Next1(k)
  BY <1>1, <1>2, <1>4 DEF AtWork, JobAt, Next1
<1>6. CatalogTyped'
  BY <1>3, <1>4 DEF CatalogInv, CatalogTyped
<1>7. JobsSound'
  BY <1>3, <1>5 DEF CatalogInv, JobsSound, LinksSound, AtWork, JobAt, Kind
<1>8. ASSUME ~ctDryRelease' PROVE Locked' /\ Remembered'
  <2>1. Locked /\ Remembered
    BY <1>3, <1>8 DEF CatalogInv
  <2>2. \A k \in Jobs : ~Holds(k)
    BY <1>1, <2>1 DEF Locked
  <2>3. \A k \in Jobs : Holds(k)' => k = j
    BY <1>4, <2>2 DEF Holds, Kind
  <2> QED BY <1>3, <1>5, <2>1, <2>3 DEF Locked, Remembered, NoLostRecord
<1>9. ASSUME ~ctDryRelease', Dead' = {} PROVE FilesWhole'
  <2>1. FilesWhole
    BY <1>3, <1>5, <1>9 DEF CatalogInv, Dead
  <2>2. \A e : /\ Exists(e)' <=> Exists(e)
               /\ FileBytes(e)' = FileBytes(e)
               /\ Rewriting(e)' <=> Rewriting(e)
    BY <1>3, <1>5 DEF Exists, FileBytes, Rewriting, AtWork, JobAt
  <2>3. \A k \in Jobs : JobAt(k, "fill") => AtWork(k)
    BY DEF AtWork, JobAt
  <2>4. \A k \in Jobs : JobAt(k, "fill") => (Exists(Next1(k))' <=> Exists(Next1(k)))
    BY <1>3, <1>5, <2>3 DEF Exists
  <2> QED BY <1>3, <1>5, <2>1, <2>2, <2>4 DEF FilesWhole
<1> QED BY <1>6, <1>7, <1>8, <1>9 DEF CatalogInv

\* A step that ends a job that is not at work, or removes the lock when nobody needs
\* it: the lock is trusted afterwards only if it was nobody else's.
LEMMA LockGoneKeeps ==
  ASSUME CatalogInv, ctJob' \in [Jobs -> JobRecord],
         \A k \in Jobs : \/ ctJob'[k] = ctJob[k]
                         \/ /\ ctJob[k].pc = "release" /\ ctJob'[k].pc = "end"
                            /\ ctJob'[k].kind = ctJob[k].kind,
         ctLock' \in BOOLEAN, ctDryRelease' \in BOOLEAN,
         ~ctDryRelease' => ~ctDryRelease /\ \A k \in Jobs : ~Holds(k)',
         UNCHANGED <<ctFile, ctSource, ctIndex, ctReported>>
  PROVE CatalogInv'
<1>1. \A k \in Jobs : /\ AtWork(k)' <=> AtWork(k)
                      /\ JobAt(k, "fill")' <=> JobAt(k, "fill")
                      /\ JobAt(k, "dead")' <=> JobAt(k, "dead")
                      /\ AtWork(k) => ctJob'[k] = ctJob[k] /\ Next1(k)' = Next1(k)
  BY DEF AtWork, JobAt, Next1
<1>2. CatalogTyped'
  BY DEF CatalogInv, CatalogTyped
<1>3. JobsSound'
  BY <1>1 DEF CatalogInv, JobsSound, LinksSound, AtWork, JobAt, Kind
<1>4. ~ctDryRelease' => Locked' /\ Remembered'
  BY <1>1 DEF CatalogInv, Locked, Remembered, NoLostRecord
<1>5. ASSUME ~ctDryRelease', Dead' = {} PROVE FilesWhole'
  <2>1. FilesWhole
    BY <1>1, <1>5 DEF CatalogInv, Dead
  <2>2. \A e : /\ Exists(e)' <=> Exists(e)
               /\ FileBytes(e)' = FileBytes(e)
               /\ Rewriting(e)' <=> Rewriting(e)
    BY <1>1 DEF Exists, FileBytes, Rewriting, AtWork, JobAt
  <2>3. \A k \in Jobs : JobAt(k, "fill") => AtWork(k)
    BY DEF AtWork, JobAt
  <2>4. \A k \in Jobs : JobAt(k, "fill") => (Exists(Next1(k))' <=> Exists(Next1(k)))
    BY <1>1, <2>3 DEF Exists
  <2> QED BY <1>1, <2>1, <2>2, <2>4 DEF FilesWhole
<1> QED BY <1>2, <1>3, <1>4, <1>5 DEF CatalogInv

LEMMA ReleaseKeeps ==
  ASSUME CatalogInv, NEW j \in Jobs, release_catalog_lock(j)
  PROVE CatalogInv'
<1> DEFINE r == [ctJob[j] EXCEPT !.pc = "end"]
<1>1. ctJob[j] \in JobRecord /\ ctJob[j].pc = "release" /\ Kind(j).execute \in BOOLEAN
  BY JobRecordAt DEF release_catalog_lock, JobAt
<1>2. r \in JobRecord /\ r.kind = ctJob[j].kind /\ r.pc = "end"
  BY <1>1 DEF JobRecord
<1>3. /\ ctJob' = [ctJob EXCEPT ![j] = r] /\ ctLock' = FALSE
      /\ ctDryRelease' = (ctDryRelease \/ (ctLock /\ ~Kind(j).execute))
      /\ UNCHANGED <<ctFile, ctSource, ctIndex, ctReported>>
  BY DEF release_catalog_lock, JobGoto
<1> HIDE DEF r
<1>4. /\ ctJob' \in [Jobs -> JobRecord] /\ ctJob'[j] = r
      /\ \A k \in Jobs \ {j} : ctJob'[k] = ctJob[k]
  BY <1>2, <1>3, JobMoved DEF CatalogInv
<1>5. ctDryRelease \in BOOLEAN /\ ctLock \in BOOLEAN
  BY DEF CatalogInv, CatalogTyped
<1>6. ASSUME ~ctDryRelease' PROVE ~ctDryRelease /\ \A k \in Jobs : ~Holds(k)'
  <2>1. ~ctDryRelease /\ (ctLock => Kind(j).execute)
    BY <1>3, <1>5, <1>6
  <2>2. Locked
    BY <2>1 DEF CatalogInv
  <2>3. \A k \in Jobs : Holds(k) => k = j
    BY <1>1, <2>1, <2>2 DEF Locked, Holds
  <2>4. \A k \in Jobs : Holds(k)' => Holds(k) /\ k # j
    BY <1>2, <1>4 DEF Holds, Kind
  <2> QED BY <2>1, <2>3, <2>4
<1>7. \A k \in Jobs : \/ ctJob'[k] = ctJob[k]
                      \/ /\ ctJob[k].pc = "release" /\ ctJob'[k].pc = "end"
                         /\ ctJob'[k].kind = ctJob[k].kind
  BY <1>1, <1>2, <1>4
<1> QED BY <1>3, <1>4, <1>5, <1>6, <1>7, LockGoneKeeps

LEMMA RemoveStaleLockKeeps ==
  ASSUME CatalogInv, RemoveStaleLock
  PROVE CatalogInv'
<1>1. \A k \in Jobs : ~Holds(k)'
  BY DEF RemoveStaleLock, Holds, Kind
<1> QED BY <1>1, LockGoneKeeps DEF RemoveStaleLock, CatalogInv, CatalogTyped

---------------------------------------------------------------------------
(* A job that gives up, starts without the lock, or dies *)

LEMMA OtherStepsKeep ==
  ASSUME CatalogInv, NEW j \in Jobs, LockTimeout(j) \/ DryStart(j) \/ JobDies(j)
  PROVE CatalogInv'
<1>1. ctJob[j] \in JobRecord /\ Kind(j).execute \in BOOLEAN
  BY JobRecordAt
<1>2. CASE LockTimeout(j)
  <2> DEFINE r == [ctJob[j] EXCEPT !.pc = "end", !.exit = "catalog_lock_exists"]
  <2>1. r \in JobRecord /\ r.kind = Kind(j) /\ r.pc = "end"
    BY <1>1 DEF JobRecord, Kind
  <2>2. ctJob' = [ctJob EXCEPT ![j] = r] /\ ctJob[j].pc = "start"
    BY <1>2 DEF LockTimeout, JobAt
  <2> HIDE DEF r
  <2>3. JobStep(j, r)
    BY <1>2, <2>1, <2>2 DEF JobStep, LockTimeout
  <2> QED BY <1>2, <2>1, <2>2, <2>3, QuietStepKeeps DEF LockTimeout
<1>3. CASE DryStart(j)
  <2> DEFINE r == [ctJob[j] EXCEPT !.pc = "read"]
  <2>1. r \in JobRecord /\ r.kind = Kind(j) /\ r.pc = "read"
    BY <1>1 DEF JobRecord, Kind
  <2>2. ctJob' = [ctJob EXCEPT ![j] = r] /\ ctJob[j].pc = "start" /\ ~Kind(j).execute
    BY <1>3 DEF DryStart, JobAt, JobGoto
  <2> HIDE DEF r
  <2>3. JobStep(j, r)
    BY <1>3, <2>1, <2>2 DEF JobStep, DryStart
  <2> QED BY <1>3, <2>1, <2>2, <2>3, QuietStepKeeps DEF DryStart
<1>4. CASE JobDies(j)
  <2> DEFINE r == [ctJob[j] EXCEPT !.pc = "dead"]
  <2>1. r \in JobRecord /\ r.kind = Kind(j) /\ r.pc = "dead"
    BY <1>1 DEF JobRecord, Kind
  <2>2. ctJob' = [ctJob EXCEPT ![j] = r] /\ ctJob[j].pc \notin {"start", "end", "dead"}
    BY <1>4 DEF JobDies, JobGoto
  <2> HIDE DEF r
  <2>3. JobStep(j, r)
    BY <1>4, <2>1, <2>2 DEF JobStep, JobDies
  <2> QED BY <1>4, <2>1, <2>2, <2>3, QuietStepKeeps DEF JobDies
<1> QED BY <1>2, <1>3, <1>4

---------------------------------------------------------------------------
(* The theorem *)

LEMMA CatalogInvariance == CatalogSpec => []CatalogInv
<1>1. CatalogInit => CatalogInv
  <2> SUFFICES ASSUME CatalogInit PROVE CatalogInv
    OBVIOUS
  <2>1. \A j \in Jobs : ctJob[j] \in JobRecord /\ ctJob[j].pc = "start"
    BY DEF CatalogInit, JobRecord
  <2>2. ctJob \in [Jobs -> JobRecord]
    BY <2>1 DEF CatalogInit
  <2>3. CatalogTyped
    BY <2>2 DEF CatalogInit, CatalogTyped
  <2>4. \A j \in Jobs : ~AtWork(j) /\ ~JobAt(j, "fill") /\ ~Holds(j)
    BY <2>1 DEF AtWork, JobAt, Holds
  <2>5. JobsSound
    BY <2>4 DEF JobsSound, LinksSound, CatalogInit
  <2>6. Locked /\ Remembered
    BY <2>4 DEF Locked, Remembered, NoLostRecord, CatalogInit
  <2>7. FilesWhole
    BY <2>4 DEF FilesWhole, Exists, CatalogInit
  <2> QED BY <2>3, <2>5, <2>6, <2>7 DEF CatalogInv
<1>2. CatalogInv /\ [CatalogNext]_ctVars => CatalogInv'
  <2> SUFFICES ASSUME CatalogInv, [CatalogNext]_ctVars PROVE CatalogInv'
    OBVIOUS
  <2>1. CASE UNCHANGED ctVars
    <3>1. \A k \in Jobs : Holds(k)' <=> Holds(k)
      BY <2>1 DEF ctVars, Holds, Kind
    <3>2. Dead' = Dead
      BY <2>1 DEF ctVars, Dead, JobAt
    <3>3. CatalogTyped' /\ JobsSound'
      BY <2>1 DEF CatalogInv, ctVars, CatalogTyped, JobsSound, LinksSound, AtWork, JobAt, Kind
    <3>4. ~ctDryRelease' => Locked' /\ Remembered'
      BY <2>1, <3>1 DEF CatalogInv, ctVars, Locked, Remembered, NoLostRecord, AtWork
    <3>5. ~ctDryRelease' /\ Dead' = {} => FilesWhole'
      BY <2>1, <3>2 DEF CatalogInv, ctVars, FilesWhole, Exists, FileBytes, Rewriting, AtWork,
                        JobAt, Next1
    <3> QED BY <3>3, <3>4, <3>5 DEF CatalogInv
  <2>2. CASE \E j \in Jobs : materialize(j) \/ reuse(j) \/ JobDies(j)
    BY <2>2, AcquireKeeps, OtherStepsKeep, ReadCatalogKeeps, OpenMaterializedKeeps, FillFileKeeps,
       TakeExistingKeeps, LinkFileKeeps, CannotLinkKeeps, OpenCatalogKeeps, WriteCatalogKeeps,
       ReleaseKeeps
       DEF materialize, reuse
  <2>3. CASE RemoveStaleLock
    BY <2>3, RemoveStaleLockKeeps
  <2> QED BY <2>1, <2>2, <2>3 DEF CatalogNext
<1> QED BY <1>1, <1>2, PTL DEF CatalogSpec

\* No record is lost and no record speaks of a file that is not whole, for any number
\* of jobs of any kind, as long as no dry run has removed another job's lock.
THEOREM CatalogAlwaysSound == CatalogSpec => []CatalogSound
<1>1. CatalogInv => CatalogSound
  BY DEF CatalogInv, CatalogSound, Remembered, FilesWhole, CatalogTyped
<1> QED BY <1>1, CatalogInvariance, PTL

---------------------------------------------------------------------------
(* The expert storage and the cache: the inductive invariant *)

Ones(k) == [i \in 1 .. k |-> 1]
Beginnings == {Ones(k) : k \in 0 .. FileUnits}

PutRecord ==
    [expert : StoredExperts, pc : {"start", "body", "cut", "raised", "created"},
     node : Nat, written : 0 .. FileUnits]

\* A file that is being written leads to its writer alone: no other handler and no name
\* but the .part name of the writer's expert has it.
StorageSound ==
    /\ esNode \in Seq(Beginnings)
    /\ esFile \in [StoredExperts -> 0 .. Len(esNode)]
    /\ esPart \in [StoredExperts -> 0 .. Len(esNode)]
    /\ esPut \in [Puts -> PutRecord]
    /\ \A p \in Puts : PutAt(p, "start") => Put(p).written = 0
    /\ \A p \in Puts : PutAt(p, "body") =>
          /\ Put(p).node # Absent /\ esPart[Put(p).expert] = Put(p).node
          /\ esNode[Put(p).node] = Ones(Put(p).written)
          /\ \A q \in Puts \ {p} : PutAt(q, "body") => Put(q).expert # Put(p).expert
    /\ \A e, f \in StoredExperts : esPart[e] # Absent =>
          /\ esPart[e] = esPart[f] => e = f
          /\ esFile[f] # esPart[e]
    /\ \A e \in StoredExperts : esFile[e] # Absent => esNode[esFile[e]] = Complete
    /\ \A p \in Puts : PutAt(p, "created") => esFile[Put(p).expert] # Absent

Entry == [expert : StoredExperts, bytes : Nat, used : Nat]

ReqRecord ==
    [pc : {"idle", "resolve", "fetch", "load", "served"}, batch : Nat, next : Nat,
     index : SUBSET Entry, clock : Nat,
     fetch : [node : Nat, got : Beginnings], loaded : SUBSET {Complete}]

\* What is fetched is a file that nobody writes to any more, also after its name leads
\* to another; what has arrived of it is the beginning of the expert.
CacheSound ==
    /\ xcSetup \in CacheSetups
    /\ xcReq \in ReqRecord
    /\ xcReq.batch \in 1 .. Len(xcSetup.batches)
    /\ xcReq.next \in 1 .. Len(Batch)
    /\ xcDir \in [StoredExperts -> Beginnings \cup {NotCached}]
    /\ CacheAt("load") => xcReq.next = 1
    /\ CacheAt("fetch") =>
          /\ xcReq.fetch.node \in 1 .. Len(esNode)
          /\ Served = Complete
          /\ \A e \in StoredExperts : esPart[e] # xcReq.fetch.node

CacheInv ==
    /\ esOverlap \in BOOLEAN
    /\ ~esOverlap => StorageSound /\ CacheSound

---------------------------------------------------------------------------
(* The handlers of the server *)

\* What a handler does to the files leaves those alone that no .part name leads to.
FilesKept ==
    /\ Len(esNode) <= Len(esNode')
    /\ \A n \in 1 .. Len(esNode) : (\A e \in StoredExperts : esPart[e] # n) =>
          esNode'[n] = esNode[n] /\ \A e \in StoredExperts : esPart'[e] # n

LEMMA StorageNumbers ==
  ASSUME StorageSound
  PROVE /\ Len(esNode) \in Nat /\ DOMAIN esNode = 1 .. Len(esNode)
        /\ \A n \in 1 .. Len(esNode) : esNode[n] \in Beginnings
        /\ FileUnits \in Nat /\ FileUnits > 0
  BY StorageAssumption DEF StorageSound

LEMMA OnesFacts ==
  ASSUME NEW k \in Nat
  PROVE /\ Ones(k) \in Seq({1}) /\ Len(Ones(k)) = k /\ DOMAIN Ones(k) = 1 .. k
        /\ k \in 0 .. FileUnits => Ones(k) \in Beginnings
        /\ k = FileUnits => Ones(k) = Complete
<1>1. Ones(k) \in [1 .. k -> {1}]
  BY DEF Ones
<1>2. Ones(k) \in Seq({1})
  BY <1>1
<1>3. Len(Ones(k)) = k /\ DOMAIN Ones(k) = 1 .. k
  BY <1>1, <1>2
<1> QED BY <1>2, <1>3 DEF Beginnings, Ones, Complete

\* One handler moves.
LEMMA PutMoved ==
  ASSUME StorageSound, NEW p \in Puts, NEW r \in PutRecord, esPut' = [esPut EXCEPT ![p] = r]
  PROVE /\ esPut' \in [Puts -> PutRecord] /\ esPut'[p] = r
        /\ \A q \in Puts \ {p} : esPut'[q] = esPut[q]
  BY DEF StorageSound

LEMMA OpenPartKeeps ==
  ASSUME esOverlap \in BOOLEAN, StorageSound, NEW p \in Puts, OpenPart(p), ~esOverlap'
  PROVE StorageSound' /\ FilesKept
<1> DEFINE x == Put(p).expert
           fresh == esPart[x] = Absent
           n == IF fresh THEN Len(esNode) + 1 ELSE esPart[x]
           r == [esPut[p] EXCEPT !.pc = "body", !.node = n]
<1>1. /\ Len(esNode) \in Nat /\ DOMAIN esNode = 1 .. Len(esNode)
      /\ \A m \in 1 .. Len(esNode) : esNode[m] \in Beginnings
  BY StorageNumbers
<1>2. esPut[p] \in PutRecord /\ esPut[p].pc = "start" /\ x \in StoredExperts
  BY DEF StorageSound, OpenPart, PutAt, Put, PutRecord
<1>3. /\ esNode' = IF fresh THEN Append(esNode, <<>>) ELSE [esNode EXCEPT ![n] = <<>>]
      /\ esPart' = [esPart EXCEPT ![x] = n]
      /\ esPut' = [esPut EXCEPT ![p] = r]
      /\ ~(\E q \in Puts : Writes(q, n))
      /\ esFile' = esFile
  BY DEF OpenPart, Put
<1>4. n \in 1 .. Len(esNode) + 1 /\ (~fresh => n \in 1 .. Len(esNode))
  BY <1>1, <1>2 DEF StorageSound, Absent
<1>5. \A e \in StoredExperts : e # x => esPart[e] # n
  BY <1>1, <1>2, <1>4 DEF StorageSound, Absent
<1>6. \A e \in StoredExperts : esFile[e] # n
  BY <1>1, <1>2, <1>4 DEF StorageSound, Absent
<1>7. /\ n \in Nat /\ n # Absent
      /\ fresh => n = Len(esNode) + 1
      /\ ~fresh => n = esPart[x]
  BY <1>1, <1>4 DEF Absent
<1>r. r = [esPut[p] EXCEPT !.pc = "body", !.node = n]
  OBVIOUS
<1> HIDE DEF n, r
<1>8. /\ r \in PutRecord /\ r.pc = "body" /\ r.node = n
      /\ r.expert = esPut[p].expert /\ r.written = esPut[p].written
  BY <1>2, <1>7, <1>r DEF PutRecord
<1>9. esPut[p].written = 0
  BY DEF StorageSound, OpenPart, PutAt, Put
<1>10. /\ esPut' \in [Puts -> PutRecord] /\ esPut'[p] = r
       /\ \A q \in Puts \ {p} : esPut'[q] = esPut[q]
  BY <1>3, <1>8, PutMoved
<1>11. <<>> = Ones(0) /\ <<>> \in Beginnings
  BY OnesFacts, StorageNumbers DEF Ones, Beginnings
<1>12. /\ esNode' \in Seq(Beginnings) /\ Len(esNode) <= Len(esNode') /\ Len(esNode') \in Nat
       /\ n \in 1 .. Len(esNode') /\ esNode'[n] = Ones(0)
       /\ \A m \in 1 .. Len(esNode) : m # n => esNode'[m] = esNode[m]
  <2>1. CASE fresh
    <3>1. esNode' = Append(esNode, <<>>) /\ n = Len(esNode) + 1
      BY <1>3, <1>7, <2>1
    <3>2. esNode \in Seq(Beginnings)
      BY DEF StorageSound
    <3> QED BY <1>1, <1>11, <3>1, <3>2
  <2>2. CASE ~fresh
    <3>1. esNode' = [esNode EXCEPT ![n] = <<>>] /\ n \in 1 .. Len(esNode)
      BY <1>3, <1>4, <2>2
    <3>2. esNode \in Seq(Beginnings)
      BY DEF StorageSound
    <3> QED BY <1>1, <1>11, <3>1, <3>2
  <2> QED BY <2>1, <2>2
<1>13. /\ esPart' \in [StoredExperts -> 0 .. Len(esNode')] /\ esPart'[x] = n
       /\ \A e \in StoredExperts \ {x} : esPart'[e] = esPart[e]
  BY <1>1, <1>2, <1>3, <1>12 DEF StorageSound
<1>14. esFile' \in [StoredExperts -> 0 .. Len(esNode')]
  BY <1>1, <1>3, <1>12 DEF StorageSound
<1>15. \A q \in Puts \ {p} : PutAt(q, "body") => Put(q).node # n /\ Put(q).expert # x
  BY <1>2, <1>3, <1>7 DEF StorageSound, Writes, PutAt, Put
<1>16. \A q \in Puts : PutAt(q, "body")' =>
          /\ Put(q)'.node # Absent /\ esPart'[Put(q)'.expert] = Put(q)'.node
          /\ esNode'[Put(q)'.node] = Ones(Put(q)'.written)
          /\ \A o \in Puts \ {q} : PutAt(o, "body")' => Put(o)'.expert # Put(q)'.expert
  <2> SUFFICES ASSUME NEW q \in Puts, PutAt(q, "body")'
               PROVE  /\ Put(q)'.node # Absent /\ esPart'[Put(q)'.expert] = Put(q)'.node
                      /\ esNode'[Put(q)'.node] = Ones(Put(q)'.written)
                      /\ \A o \in Puts \ {q} : PutAt(o, "body")' => Put(o)'.expert # Put(q)'.expert
    OBVIOUS
  <2>1. CASE q = p
    BY <1>7, <1>8, <1>9, <1>10, <1>12, <1>13, <1>15, <2>1 DEF Put, PutAt
  <2>2. CASE q # p
    <3>1. PutAt(q, "body") /\ Put(q)' = Put(q)
      BY <1>10, <2>2 DEF Put, PutAt
    <3>2. /\ Put(q).node # Absent /\ esPart[Put(q).expert] = Put(q).node
          /\ esNode[Put(q).node] = Ones(Put(q).written)
          /\ Put(q).node # n /\ Put(q).expert # x /\ Put(q).expert \in StoredExperts
      BY <1>15, <2>2, <3>1 DEF StorageSound, Put, PutRecord
    <3>3. Put(q).node \in 1 .. Len(esNode)
      BY <1>1, <3>2 DEF StorageSound, Absent
    <3>4. \A o \in Puts \ {q} : PutAt(o, "body")' => Put(o)'.expert # Put(q).expert
      <4> SUFFICES ASSUME NEW o \in Puts \ {q}, PutAt(o, "body")'
                   PROVE Put(o)'.expert # Put(q).expert
        OBVIOUS
      <4>1. CASE o = p
        BY <1>8, <1>10, <3>2, <4>1 DEF Put
      <4>2. CASE o # p
        BY <1>10, <3>1, <4>2 DEF StorageSound, Put, PutAt
      <4> QED BY <4>1, <4>2
    <3> QED BY <1>12, <1>13, <3>1, <3>2, <3>3, <3>4
  <2> QED BY <2>1, <2>2
<1>17. \A e, f \in StoredExperts : esPart'[e] # Absent =>
          /\ esPart'[e] = esPart'[f] => e = f
          /\ esFile'[f] # esPart'[e]
  BY <1>3, <1>5, <1>6, <1>13 DEF StorageSound
<1>18. \A e \in StoredExperts : esFile'[e] # Absent => esNode'[esFile'[e]] = Complete
  BY <1>1, <1>3, <1>6, <1>12 DEF StorageSound, Absent
<1>19. \A q \in Puts : /\ PutAt(q, "created")' => esFile'[Put(q)'.expert] # Absent
                       /\ PutAt(q, "start")' => Put(q)'.written = 0
  BY <1>3, <1>8, <1>10 DEF StorageSound, Put, PutAt
<1>20. StorageSound'
  BY <1>10, <1>12, <1>13, <1>14, <1>16, <1>17, <1>18, <1>19 DEF StorageSound
<1>21. FilesKept
  BY <1>1, <1>2, <1>4, <1>7, <1>12, <1>13 DEF FilesKept
<1> QED BY <1>20, <1>21

\* A handler writes the next unit of the file that is its own.
LEMMA WriteUnitKeeps ==
  ASSUME StorageSound, NEW p \in Puts, WriteUnit(p)
  PROVE StorageSound' /\ FilesKept
<1> DEFINE x == Put(p).expert
           n == Put(p).node
           at == Put(p).written + 1
           r == [esPut[p] EXCEPT !.written = at]
           c == [i \in 1 .. (IF Len(esNode[n]) < at THEN at ELSE Len(esNode[n])) |->
                   IF i = at THEN 1 ELSE IF i <= Len(esNode[n]) THEN esNode[n][i] ELSE 0]
<1>1. /\ Len(esNode) \in Nat /\ DOMAIN esNode = 1 .. Len(esNode)
      /\ FileUnits \in Nat
  BY StorageNumbers
<1>2. /\ esPut[p] \in PutRecord /\ esPut[p].pc = "body" /\ x \in StoredExperts
      /\ at \in 1 .. FileUnits
  BY <1>1 DEF StorageSound, WriteUnit, PutAt, Put, PutRecord
<1>3. /\ n # Absent /\ esPart[x] = n /\ esNode[n] = Ones(at - 1)
      /\ \A q \in Puts \ {p} : PutAt(q, "body") => Put(q).expert # x
  <2>1. at - 1 = Put(p).written
    BY <1>2 DEF PutRecord, Put
  <2> HIDE DEF at
  <2> QED BY <1>2, <2>1 DEF StorageSound, PutAt, Put
<1>4. n \in 1 .. Len(esNode)
  BY <1>1, <1>2, <1>3 DEF StorageSound, Absent
<1>5. c = Ones(at)
  <2>1. at - 1 \in Nat /\ Len(Ones(at - 1)) = at - 1
    BY <1>2, OnesFacts
  <2> QED BY <1>2, <1>3, <2>1 DEF Ones
<1>6. /\ esNode' = [esNode EXCEPT ![n] = c] /\ esPut' = [esPut EXCEPT ![p] = r]
      /\ esFile' = esFile /\ esPart' = esPart
  BY DEF WriteUnit, Put
<1> HIDE DEF c
<1>7. r \in PutRecord /\ r.pc = "body" /\ r.node = n /\ r.expert = x /\ r.written = at
  BY <1>1, <1>2 DEF PutRecord, Put
<1> HIDE DEF r, at
<1>8. /\ esPut' \in [Puts -> PutRecord] /\ esPut'[p] = r
      /\ \A q \in Puts \ {p} : esPut'[q] = esPut[q]
  BY <1>6, <1>7, PutMoved
<1>9. Ones(at) \in Beginnings
  BY <1>2 DEF Beginnings
<1>10. /\ esNode' \in Seq(Beginnings) /\ Len(esNode') = Len(esNode) /\ esNode'[n] = Ones(at)
       /\ \A m \in 1 .. Len(esNode) : m # n => esNode'[m] = esNode[m]
  <2>1. esNode \in Seq(Beginnings)
    BY DEF StorageSound
  <2> QED BY <1>1, <1>4, <1>5, <1>6, <1>9, <2>1
<1>11. \A q \in Puts : PutAt(q, "body")' =>
          /\ Put(q)'.node # Absent /\ esPart'[Put(q)'.expert] = Put(q)'.node
          /\ esNode'[Put(q)'.node] = Ones(Put(q)'.written)
          /\ \A o \in Puts \ {q} : PutAt(o, "body")' => Put(o)'.expert # Put(q)'.expert
  <2> SUFFICES ASSUME NEW q \in Puts, PutAt(q, "body")'
               PROVE  /\ Put(q)'.node # Absent /\ esPart'[Put(q)'.expert] = Put(q)'.node
                      /\ esNode'[Put(q)'.node] = Ones(Put(q)'.written)
                      /\ \A o \in Puts \ {q} : PutAt(o, "body")' => Put(o)'.expert # Put(q)'.expert
    OBVIOUS
  <2>1. CASE q = p
    BY <1>3, <1>6, <1>7, <1>8, <1>10, <2>1 DEF Put, PutAt
  <2>2. CASE q # p
    <3>1. PutAt(q, "body") /\ Put(q)' = Put(q)
      BY <1>8, <2>2 DEF Put, PutAt
    <3>2. /\ Put(q).node # Absent /\ esPart[Put(q).expert] = Put(q).node
          /\ esNode[Put(q).node] = Ones(Put(q).written)
          /\ Put(q).expert # x /\ Put(q).expert \in StoredExperts
      BY <1>3, <2>2, <3>1 DEF StorageSound, Put, PutRecord
    <3>3. Put(q).node \in 1 .. Len(esNode) /\ Put(q).node # n
      BY <1>1, <1>2, <1>3, <3>2 DEF StorageSound, Absent
    <3>4. \A o \in Puts \ {q} : PutAt(o, "body")' => Put(o)'.expert # Put(q).expert
      <4> SUFFICES ASSUME NEW o \in Puts \ {q}, PutAt(o, "body")'
                   PROVE Put(o)'.expert # Put(q).expert
        OBVIOUS
      <4>1. CASE o = p
        BY <1>7, <1>8, <3>2, <4>1 DEF Put
      <4>2. CASE o # p
        BY <1>8, <3>1, <4>2 DEF StorageSound, Put, PutAt
      <4> QED BY <4>1, <4>2
    <3> QED BY <1>6, <1>10, <3>1, <3>2, <3>3, <3>4
  <2> QED BY <2>1, <2>2
<1>12. \A e \in StoredExperts : esFile[e] # n
  BY <1>2, <1>3 DEF StorageSound
<1>13. \A e \in StoredExperts : esFile'[e] # Absent => esNode'[esFile'[e]] = Complete
  BY <1>1, <1>6, <1>10, <1>12 DEF StorageSound, Absent
<1>14. \A q \in Puts : /\ PutAt(q, "created")' => esFile'[Put(q)'.expert] # Absent
                       /\ PutAt(q, "start")' => Put(q)'.written = 0
  BY <1>6, <1>7, <1>8 DEF StorageSound, Put, PutAt
<1>15. StorageSound'
  BY <1>6, <1>8, <1>10, <1>11, <1>13, <1>14 DEF StorageSound
<1>16. FilesKept
  BY <1>1, <1>2, <1>3, <1>6, <1>10 DEF FilesKept
<1> QED BY <1>15, <1>16

\* A handler ends, and its .part name goes, is kept or becomes the name of the file.
LEMMA HandlerEnds ==
  ASSUME StorageSound, NEW p \in Puts, ClientClosed(p) \/ \E reading : ReplaceTarget(p, reading)
  PROVE StorageSound' /\ FilesKept
<1> DEFINE x == Put(p).expert
           n == Put(p).node
<1>1. /\ Len(esNode) \in Nat /\ DOMAIN esNode = 1 .. Len(esNode) /\ FileUnits \in Nat
      /\ esNode' = esNode
  BY StorageNumbers DEF ClientClosed, ReplaceTarget
<1>2. esPut[p] \in PutRecord /\ esPut[p].pc = "body" /\ x \in StoredExperts
  BY DEF StorageSound, ClientClosed, ReplaceTarget, PutAt, Put, PutRecord
<1>3. /\ n # Absent /\ esPart[x] = n /\ esNode[n] = Ones(Put(p).written)
      /\ \A q \in Puts \ {p} : PutAt(q, "body") => Put(q).expert # x
  BY <1>2 DEF StorageSound, PutAt, Put
<1>4. n \in 1 .. Len(esNode)
  BY <1>1, <1>2, <1>3 DEF StorageSound, Absent
<1>5. PICK end \in {"cut", "raised", "created"} :
        /\ esPut' = [esPut EXCEPT ![p].pc = end]
        /\ esPart' = esPart \/ esPart' = [esPart EXCEPT ![x] = Absent]
        /\ IF end = "created"
           THEN /\ esFile' = [esFile EXCEPT ![x] = n] /\ esPart' = [esPart EXCEPT ![x] = Absent]
                /\ esNode[n] = Complete
           ELSE esFile' = esFile
  <2>1. CASE ClientClosed(p)
    BY <2>1 DEF ClientClosed, PutGoto
  <2>2. CASE \E reading : ReplaceTarget(p, reading)
    <3>1. Put(p).written = FileUnits => esNode[n] = Complete
      BY <1>1, <1>3, OnesFacts
    <3> QED BY <1>3, <2>2, <3>1 DEF ReplaceTarget, PutGoto
  <2> QED BY <2>1, <2>2
<1> DEFINE r == [esPut[p] EXCEPT !.pc = end]
<1>6. r \in PutRecord /\ r.pc = end /\ r.expert = x /\ esPut' = [esPut EXCEPT ![p] = r]
  BY <1>2, <1>5 DEF PutRecord, Put
<1> HIDE DEF r
<1>7. /\ esPut' \in [Puts -> PutRecord] /\ esPut'[p] = r
      /\ \A q \in Puts \ {p} : esPut'[q] = esPut[q]
  BY <1>6, PutMoved
<1>8. /\ esPart' \in [StoredExperts -> 0 .. Len(esNode)]
      /\ esPart'[x] \in {esPart[x], Absent}
      /\ \A e \in StoredExperts \ {x} : esPart'[e] = esPart[e]
  <2>1. esPart \in [StoredExperts -> 0 .. Len(esNode)] /\ Absent \in 0 .. Len(esNode)
    BY <1>1 DEF StorageSound, Absent
  <2>2. esPart' = esPart \/ esPart' = [esPart EXCEPT ![x] = Absent]
    BY <1>5
  <2> HIDE DEF x
  <2> QED BY <1>2, <2>1, <2>2
<1>9. esFile' \in [StoredExperts -> 0 .. Len(esNode)]
  <2>1. esFile \in [StoredExperts -> 0 .. Len(esNode)] /\ n \in 0 .. Len(esNode)
    BY <1>1, <1>4 DEF StorageSound
  <2>2. esFile' = esFile \/ esFile' = [esFile EXCEPT ![x] = n]
    BY <1>5
  <2> HIDE DEF x, n
  <2> QED BY <1>2, <2>1, <2>2
<1>10. \A q \in Puts : PutAt(q, "body")' => q # p /\ PutAt(q, "body") /\ Put(q)' = Put(q)
  BY <1>5, <1>6, <1>7 DEF PutAt, Put
<1>11. \A q \in Puts : PutAt(q, "body")' =>
          /\ Put(q)'.node # Absent /\ esPart'[Put(q)'.expert] = Put(q)'.node
          /\ esNode'[Put(q)'.node] = Ones(Put(q)'.written)
          /\ \A o \in Puts \ {q} : PutAt(o, "body")' => Put(o)'.expert # Put(q)'.expert
  <2> SUFFICES ASSUME NEW q \in Puts, PutAt(q, "body")'
               PROVE  /\ Put(q)'.node # Absent /\ esPart'[Put(q)'.expert] = Put(q)'.node
                      /\ esNode'[Put(q)'.node] = Ones(Put(q)'.written)
                      /\ \A o \in Puts \ {q} : PutAt(o, "body")' => Put(o)'.expert # Put(q)'.expert
    OBVIOUS
  <2>1. q # p /\ PutAt(q, "body") /\ Put(q)' = Put(q)
    BY <1>10
  <2>2. Put(q).expert # x /\ Put(q).expert \in StoredExperts
    BY <1>3, <2>1 DEF StorageSound, Put, PutRecord
  <2>3. \A o \in Puts \ {q} : PutAt(o, "body")' => Put(o)'.expert # Put(q).expert
    BY <1>10, <2>1 DEF StorageSound
  <2> QED BY <1>1, <1>8, <2>1, <2>2, <2>3 DEF StorageSound
<1>12. \A e, f \in StoredExperts : esPart'[e] # Absent =>
          /\ esPart'[e] = esPart'[f] => e = f
          /\ esFile'[f] # esPart'[e]
  <2> SUFFICES ASSUME NEW e \in StoredExperts, NEW f \in StoredExperts, esPart'[e] # Absent
               PROVE /\ esPart'[e] = esPart'[f] => e = f
                     /\ esFile'[f] # esPart'[e]
    OBVIOUS
  <2>1. esPart'[e] = esPart[e]
    BY <1>8
  <2>2. esPart'[e] = esPart'[f] => e = f
    BY <1>8, <2>1 DEF StorageSound
  <2>3. esFile'[f] # esPart'[e]
    <3>1. CASE esFile'[f] = esFile[f]
      BY <2>1, <3>1 DEF StorageSound
    <3>2. CASE esFile'[f] # esFile[f]
      <4>1. f = x /\ esFile'[f] = n /\ end = "created"
        BY <1>2, <1>5, <3>2 DEF StorageSound
      <4>2. esPart'[x] = Absent
        BY <1>2, <1>5, <4>1 DEF StorageSound
      <4>3. e # x
        BY <4>2
      <4> QED BY <1>2, <1>3, <2>1, <4>1, <4>3 DEF StorageSound
    <3> QED BY <3>1, <3>2
  <2> QED BY <2>2, <2>3
<1>13. \A e \in StoredExperts : esFile'[e] # Absent => esNode'[esFile'[e]] = Complete
  BY <1>1, <1>2, <1>5 DEF StorageSound
<1>14. \A q \in Puts : /\ PutAt(q, "created")' => esFile'[Put(q)'.expert] # Absent
                       /\ PutAt(q, "start")' => Put(q)'.written = 0
  <2> SUFFICES ASSUME NEW q \in Puts
               PROVE /\ PutAt(q, "created")' => esFile'[Put(q)'.expert] # Absent
                     /\ PutAt(q, "start")' => Put(q)'.written = 0
    OBVIOUS
  <2>1. \A e \in StoredExperts : esFile[e] # Absent => esFile'[e] # Absent
    BY <1>2, <1>3, <1>5 DEF StorageSound
  <2>2. CASE q = p
    BY <1>2, <1>3, <1>5, <1>6, <1>7, <2>2 DEF StorageSound, Put, PutAt
  <2>3. CASE q # p
    BY <1>7, <2>1, <2>3 DEF StorageSound, Put, PutAt, PutRecord
  <2> QED BY <2>2, <2>3
<1>15. StorageSound'
  BY <1>1, <1>7, <1>8, <1>9, <1>11, <1>12, <1>13, <1>14 DEF StorageSound
<1>16. FilesKept
  <2>1. \A m \in 1 .. Len(esNode) : m # Absent
    BY DEF Absent
  <2> QED BY <1>1, <1>8, <2>1 DEF FilesKept
<1> QED BY <1>15, <1>16

LEMMA ServerKeeps ==
  ASSUME esOverlap \in BOOLEAN, StorageSound, NEW p \in Puts, NEW reading,
         _write_expert(p, reading), ~esOverlap'
  PROVE StorageSound' /\ FilesKept
  BY OpenPartKeeps, WriteUnitKeeps, HandlerEnds DEF _write_expert

---------------------------------------------------------------------------
(* The engine *)

LEMMA BatchFacts ==
  ASSUME CacheSound
  PROVE /\ Len(xcSetup.batches) \in Nat \ {0}
        /\ \A b \in 1 .. Len(xcSetup.batches) :
              /\ xcSetup.batches[b] \in Seq(StoredExperts)
              /\ Len(xcSetup.batches[b]) \in Nat \ {0}
        /\ Batch \in Seq(StoredExperts) /\ Len(Batch) \in Nat \ {0}
        /\ Expert \in StoredExperts
<1>1. xcSetup.batches \in Seq(Seq(StoredExperts) \ {<<>>}) /\ xcSetup.batches # <<>>
  BY CacheAssumption DEF CacheSound
<1>2. Len(xcSetup.batches) \in Nat \ {0}
  BY <1>1
<1>3. \A b \in 1 .. Len(xcSetup.batches) :
         xcSetup.batches[b] \in Seq(StoredExperts) /\ xcSetup.batches[b] # <<>>
  BY <1>1
<1>4. \A s \in Seq(StoredExperts) : s # <<>> => Len(s) \in Nat \ {0}
  OBVIOUS
<1>5. Batch \in Seq(StoredExperts) /\ Len(Batch) \in Nat \ {0}
  BY <1>3, <1>4 DEF CacheSound, Batch
<1>6. Expert \in StoredExperts
  BY <1>5 DEF CacheSound, Expert
<1> QED BY <1>2, <1>3, <1>4, <1>5, <1>6

LEMMA NothingIsBeginning == <<>> \in Beginnings /\ NoFetch \in [node : Nat, got : Beginnings]
<1>1. <<>> = Ones(0) /\ 0 \in 0 .. FileUnits
  BY StorageAssumption DEF Ones
<1> QED BY <1>1 DEF Beginnings, NoFetch, Absent

LEMMA BeginningFacts ==
  ASSUME NEW s \in Beginnings
  PROVE /\ Len(s) \in 0 .. FileUnits /\ s = Ones(Len(s))
        /\ Len(s) = FileUnits => s = Complete
<1>1. PICK k \in 0 .. FileUnits : s = Ones(k)
  BY DEF Beginnings
<1>2. k \in Nat
  BY StorageAssumption
<1> QED BY <1>1, <1>2, OnesFacts

\* A failed request is forgotten.
LEMMA FailKeeps ==
  ASSUME CacheSound, Fail, UNCHANGED xcSetup,
         xcDir' \in [StoredExperts -> Beginnings \cup {NotCached}]
  PROVE CacheSound'
<1>1. xcReq' = NoRequest
  BY DEF Fail
<1>2. NoRequest \in ReqRecord
  BY NothingIsBeginning DEF NoRequest, ReqRecord
<1>3. /\ NoRequest.batch = 1 /\ NoRequest.next = 1 /\ NoRequest.pc = "idle"
  BY DEF NoRequest
<1>4. 1 \in 1 .. Len(xcSetup.batches) /\ 1 \in 1 .. Len(xcSetup.batches[1])
  BY BatchFacts
<1> QED BY <1>1, <1>2, <1>3, <1>4 DEF CacheSound, Batch, CacheAt

LEMMA ResolvedKeeps ==
  ASSUME CacheSound, NEW index \in SUBSET Entry, NEW now \in Nat, Resolved(index, now),
         UNCHANGED xcSetup, xcDir' \in [StoredExperts -> Beginnings \cup {NotCached}]
  PROVE CacheSound'
<1> DEFINE last == xcReq.next = Len(Batch)
           p == IF last THEN "load" ELSE "resolve"
           n == IF last THEN 1 ELSE xcReq.next + 1
<1>1. xcReq' = [xcReq EXCEPT !.index = index, !.clock = now, !.fetch = NoFetch,
                             !.pc = p, !.next = n]
  BY DEF Resolved
<1>2. n \in 1 .. Len(Batch) /\ p \in {"load", "resolve"} /\ (p = "load" => n = 1)
  BY BatchFacts DEF CacheSound
<1>3. xcReq \in ReqRecord /\ n \in Nat
  BY <1>2, BatchFacts DEF CacheSound
<1> HIDE DEF n, p
<1>4. /\ xcReq' \in ReqRecord /\ xcReq'.pc = p /\ xcReq'.next = n
      /\ xcReq'.batch = xcReq.batch
  BY <1>1, <1>2, <1>3, NothingIsBeginning DEF ReqRecord
<1> QED BY <1>2, <1>4 DEF CacheSound, Batch, CacheAt

LEMMA TouchedIndex ==
  ASSUME NEW index \in SUBSET Entry, NEW e \in StoredExperts, NEW bytes \in Nat, NEW now \in Nat
  PROVE touch(index, e, bytes, now) \in SUBSET Entry
<1>1. [expert |-> e, bytes |-> bytes, used |-> now] \in Entry
  BY DEF Entry
<1> QED BY <1>1 DEF touch

LEMMA InstallKeeps ==
  ASSUME CacheSound, NEW e \in StoredExperts, NEW file \in Beginnings, Install(e, file),
         UNCHANGED xcSetup
  PROVE CacheSound'
<1> DEFINE now == xcReq.clock + 1
           index == touch(xcReq.index, e, Len(file), now)
<1>1. now \in Nat /\ xcReq.index \in SUBSET Entry /\ Len(file) \in Nat
  BY BeginningFacts, StorageAssumption DEF CacheSound, ReqRecord
<1>2. PICK kept \in prune_if_needed(index) :
         /\ xcDir' = [x \in StoredExperts |->
                        IF x \in {y.expert : y \in index \ kept} THEN NotCached
                        ELSE IF x = e THEN file ELSE xcDir[x]]
         /\ Resolved(kept, now)
  BY DEF Install
<1> HIDE DEF now
<1>3. index \in SUBSET Entry
  BY <1>1, TouchedIndex
<1> HIDE DEF index
<1>4. kept \in SUBSET Entry
  BY <1>2, <1>3 DEF prune_if_needed
<1>5. xcDir \in [StoredExperts -> Beginnings \cup {NotCached}]
  BY DEF CacheSound
<1>6. xcDir' \in [StoredExperts -> Beginnings \cup {NotCached}]
  BY <1>2, <1>5
<1> QED BY <1>1, <1>2, <1>4, <1>6, ResolvedKeeps

LEMMA EnsureKeeps ==
  ASSUME StorageSound, CacheSound, ensure_expert
  PROVE CacheSound'
<1>0. /\ xcDir \in [StoredExperts -> Beginnings \cup {NotCached}]
      /\ Expert \in StoredExperts /\ xcReq \in ReqRecord /\ FileUnits \in Nat
  BY BatchFacts, StorageAssumption DEF CacheSound
<1>1. CASE FindCached
  <2>1. /\ Resolved(touch(xcReq.index, Expert, FileUnits, xcReq.clock), xcReq.clock)
        /\ xcSetup' = xcSetup /\ xcDir' = xcDir
    BY <1>1 DEF FindCached
  <2>2. xcReq.index \in SUBSET Entry /\ xcReq.clock \in Nat
    BY <1>0 DEF ReqRecord
  <2>3. touch(xcReq.index, Expert, FileUnits, xcReq.clock) \in SUBSET Entry
    BY <1>0, <2>2, TouchedIndex
  <2> QED BY <1>0, <2>1, <2>2, <2>3, ResolvedKeeps
<1>2. CASE CopyLocal
  <2>1. Install(Expert, Complete) /\ xcSetup' = xcSetup
    BY <1>2 DEF CopyLocal
  <2>2. Complete \in Beginnings
    BY <1>0, OnesFacts
  <2> QED BY <1>0, <2>1, <2>2, InstallKeeps
<1>3. CASE StartFetch
  <2>1. /\ xcDir' = [xcDir EXCEPT ![Expert] = NotCached] /\ xcSetup' = xcSetup
        /\ esNode' = esNode /\ esPart' = esPart
    BY <1>3 DEF StartFetch, esVars
  <2>2. xcDir' \in [StoredExperts -> Beginnings \cup {NotCached}]
    BY <1>0, <2>1
  <2>3. CASE Fail
    BY <2>1, <2>2, <2>3, FailKeeps
  <2>4. CASE ~Fail
    <3> DEFINE n == esFile[Expert]
    <3>1. /\ esFile[Expert] # Absent
          /\ xcReq' = [xcReq EXCEPT !.pc = "fetch", !.fetch.node = n]
      BY <1>3, <2>4 DEF StartFetch
    <3>2. /\ n \in 1 .. Len(esNode) /\ n \in Nat /\ esNode[n] = Complete
          /\ \A e \in StoredExperts : esPart[e] # n
      BY <1>0, <3>1, StorageNumbers DEF StorageSound, Absent
    <3>3. xcReq.fetch \in [node : Nat, got : Beginnings]
      BY <1>0 DEF ReqRecord
    <3> DEFINE f == [xcReq.fetch EXCEPT !.node = n]
    <3>4. xcReq' = [xcReq EXCEPT !.pc = "fetch", !.fetch = f]
      BY <3>1
    <3> HIDE DEF n
    <3>5. f \in [node : Nat, got : Beginnings] /\ f.node = n
      BY <3>2, <3>3
    <3> HIDE DEF f
    <3>6. /\ xcReq' \in ReqRecord /\ xcReq'.fetch = f /\ xcReq'.pc = "fetch"
          /\ xcReq'.batch = xcReq.batch /\ xcReq'.next = xcReq.next
      BY <1>0, <3>4, <3>5 DEF ReqRecord
    <3> QED BY <2>1, <2>2, <3>2, <3>5, <3>6 DEF CacheSound, Batch, Served, CacheAt
  <2> QED BY <2>3, <2>4
<1>4. CASE ReceiveUnit
  <2>1. /\ xcReq.pc = "fetch" /\ Len(Got) < Len(Served)
        /\ xcReq' = [xcReq EXCEPT !.fetch.got = Append(@, Served[Len(Got) + 1])]
        /\ xcSetup' = xcSetup /\ xcDir' = xcDir /\ esNode' = esNode /\ esPart' = esPart
    BY <1>4 DEF ReceiveUnit, CacheAt, esVars
  <2>2. Served = Complete /\ Got \in Beginnings
    BY <1>0, <2>1 DEF CacheSound, CacheAt, ReqRecord, Got
  <2>3. PICK k \in 0 .. FileUnits : Got = Ones(k)
    BY <2>2 DEF Beginnings
  <2>4. k \in Nat /\ Len(Got) = k /\ Complete = Ones(FileUnits) /\ Len(Complete) = FileUnits
    BY <1>0, <2>3, OnesFacts DEF Ones, Complete
  <2>5. k + 1 \in 0 .. FileUnits /\ k + 1 \in 1 .. FileUnits
    BY <1>0, <2>1, <2>2, <2>4
  <2>6. Complete[k + 1] = 1
    BY <2>5 DEF Complete
  <2>7. Append(Got, 1) = Ones(k + 1)
    <3>1. Ones(k) \in Seq({1}) /\ Len(Ones(k)) = k
      BY <2>4, OnesFacts
    <3>2. Append(Ones(k), 1) \in Seq({1}) /\ Len(Append(Ones(k), 1)) = k + 1
      BY <3>1
    <3>3. Ones(k + 1) \in Seq({1}) /\ Len(Ones(k + 1)) = k + 1
      BY <2>4, OnesFacts
    <3>4. \A i \in 1 .. k + 1 : Append(Ones(k), 1)[i] = Ones(k + 1)[i]
      BY <2>4, <3>1 DEF Ones
    <3> QED BY <2>3, <2>4, <3>2, <3>3, <3>4
  <2> DEFINE g == Append(Got, 1)
             f == [xcReq.fetch EXCEPT !.got = g]
  <2>8. xcReq' = [xcReq EXCEPT !.fetch = f]
    BY <2>1, <2>2, <2>4, <2>6 DEF Got
  <2>9. g \in Beginnings
    BY <2>5, <2>7 DEF Beginnings
  <2> HIDE DEF g
  <2>10. f \in [node : Nat, got : Beginnings] /\ f.node = xcReq.fetch.node
    BY <1>0, <2>9 DEF ReqRecord
  <2> HIDE DEF f
  <2>11. /\ xcReq' \in ReqRecord /\ xcReq'.fetch = f /\ xcReq'.pc = "fetch"
         /\ xcReq'.batch = xcReq.batch /\ xcReq'.next = xcReq.next
    BY <1>0, <2>1, <2>8, <2>10 DEF ReqRecord
  <2> QED BY <2>1, <2>10, <2>11 DEF CacheSound, Batch, Served, CacheAt
<1>5. CASE EndOfBody
  <2>1. Install(Expert, Got) /\ xcSetup' = xcSetup
    BY <1>5 DEF EndOfBody
  <2>2. Got \in Beginnings
    BY <1>0 DEF ReqRecord, Got
  <2> QED BY <1>0, <2>1, <2>2, InstallKeeps
<1> QED BY <1>1, <1>2, <1>3, <1>4, <1>5 DEF ensure_expert

\* A file that has the expected size is whole, so what is loaded is.
LEMMA LoadBatchKeeps ==
  ASSUME CacheSound, LoadBatch
  PROVE CacheSound'
<1>0. /\ xcDir \in [StoredExperts -> Beginnings \cup {NotCached}]
      /\ xcReq \in ReqRecord /\ xcSetup' = xcSetup /\ xcDir' = xcDir
      /\ Len(xcSetup.batches) \in Nat \ {0} /\ xcReq.batch \in 1 .. Len(xcSetup.batches)
  BY BatchFacts DEF CacheSound, LoadBatch
<1>1. CASE \A e \in Range(Batch) : RightSize(e)
  <2> DEFINE new == xcReq.loaded \cup {xcDir[e] : e \in Range(Batch)}
             last == xcReq.batch = Len(xcSetup.batches)
             p == IF last THEN "served" ELSE "resolve"
             b == IF last THEN 1 ELSE xcReq.batch + 1
  <2>1. xcReq' = [xcReq EXCEPT !.loaded = new, !.pc = p, !.batch = b]
    BY <1>1 DEF LoadBatch
  <2>2. Range(Batch) \subseteq StoredExperts
    BY BatchFacts DEF Range
  <2>3. \A e \in Range(Batch) : xcDir[e] = Complete
    <3> SUFFICES ASSUME NEW e \in Range(Batch) PROVE xcDir[e] = Complete
      OBVIOUS
    <3>1. xcDir[e] \in Beginnings /\ Len(xcDir[e]) = FileUnits
      BY <1>0, <1>1, <2>2 DEF RightSize, Cached
    <3> QED BY <3>1, BeginningFacts
  <2>4. xcReq.loaded \subseteq {Complete}
    BY <1>0 DEF ReqRecord
  <2>5. new \in SUBSET {Complete}
    BY <2>3, <2>4
  <2>6. b \in 1 .. Len(xcSetup.batches) /\ b \in Nat /\ p \in {"served", "resolve"}
    BY <1>0
  <2>7. CacheAt("load")
    BY DEF LoadBatch
  <2> HIDE DEF new, last, p, b
  <2>8. /\ xcReq' \in ReqRecord /\ xcReq'.batch = b /\ xcReq'.next = xcReq.next
        /\ xcReq'.pc = p
    BY <1>0, <2>1, <2>5, <2>6 DEF ReqRecord
  <2>9. xcReq.next = 1 /\ 1 \in 1 .. Len(xcSetup.batches[b])
    BY <2>6, <2>7, BatchFacts DEF CacheSound
  <2> QED BY <1>0, <2>6, <2>8, <2>9 DEF CacheSound, Batch, CacheAt
<1>2. CASE ~(\A e \in Range(Batch) : RightSize(e))
  BY <1>0, <1>2, FailKeeps DEF LoadBatch
<1> QED BY <1>1, <1>2

---------------------------------------------------------------------------
(* The composition *)

LEMMA EngineKeeps ==
  ASSUME StorageSound, CacheSound, EngineWork \/ FetchCut \/ EngineDies
  PROVE CacheSound'
<1>0. xcReq \in ReqRecord /\ xcDir \in [StoredExperts -> Beginnings \cup {NotCached}]
  BY DEF CacheSound
<1>1. CASE StartRequest
  <2>1. /\ xcReq' = [xcReq EXCEPT !.pc = "resolve"]
        /\ xcSetup' = xcSetup /\ xcDir' = xcDir
    BY <1>1 DEF StartRequest
  <2>2. /\ xcReq' \in ReqRecord /\ xcReq'.pc = "resolve"
        /\ xcReq'.batch = xcReq.batch /\ xcReq'.next = xcReq.next
    BY <1>0, <2>1 DEF ReqRecord
  <2> QED BY <2>1, <2>2 DEF CacheSound, Batch, CacheAt
<1>2. CASE ensure_expert
  BY <1>2, EnsureKeeps
<1>3. CASE LoadBatch
  BY <1>3, LoadBatchKeeps
<1>4. CASE FetchCut
  <2>1. /\ (Fail /\ UNCHANGED xcDir) \/ Install(Expert, Got)
        /\ UNCHANGED xcSetup
    BY <1>4 DEF FetchCut
  <2>2. Expert \in StoredExperts /\ Got \in Beginnings
    BY <1>0, BatchFacts DEF ReqRecord, Got
  <2>3. CASE Fail /\ UNCHANGED xcDir
    BY <1>0, <2>1, <2>3, FailKeeps
  <2>4. CASE Install(Expert, Got)
    BY <2>1, <2>2, <2>4, InstallKeeps
  <2> QED BY <2>1, <2>3, <2>4
<1>5. CASE EngineDies
  BY <1>0, <1>5, FailKeeps DEF EngineDies
<1> QED BY <1>1, <1>2, <1>3, <1>4, <1>5 DEF EngineWork

\* The file that is being fetched stays what it is, whatever the server's handlers do.
LEMMA ServerWorkKeeps ==
  ASSUME esOverlap \in BOOLEAN, StorageSound, CacheSound, ServerWork, ~esOverlap'
  PROVE StorageSound' /\ CacheSound'
<1>1. UNCHANGED <<xcSetup, xcReq, xcDir>>
  BY DEF ServerWork, xcVars
<1>2. StorageSound' /\ FilesKept
  <2>1. PICK p \in Puts : _write_expert(p, IF CacheAt("fetch") THEN {xcReq.fetch.node} ELSE {})
    BY DEF ServerWork
  <2> QED BY <2>1, ServerKeeps
<1>3. CASE CacheAt("fetch")
  <2>1. /\ xcReq.fetch.node \in 1 .. Len(esNode) /\ esNode[xcReq.fetch.node] = Complete
        /\ \A e \in StoredExperts : esPart[e] # xcReq.fetch.node
    BY <1>3 DEF CacheSound, Served
  <2>2. /\ esNode'[xcReq.fetch.node] = Complete
        /\ \A e \in StoredExperts : esPart'[e] # xcReq.fetch.node
    BY <1>2, <2>1 DEF FilesKept
  <2>3. xcReq.fetch.node \in 1 .. Len(esNode')
    <3>1. Len(esNode) \in Nat /\ Len(esNode') \in Nat /\ Len(esNode) <= Len(esNode')
      BY <1>2 DEF StorageSound, FilesKept
    <3> QED BY <2>1, <3>1
  <2> QED BY <1>1, <1>2, <2>2, <2>3 DEF CacheSound, CacheAt, Batch, Served, Complete
<1>4. CASE ~CacheAt("fetch")
  BY <1>1, <1>2, <1>4 DEF CacheSound, CacheAt, Batch
<1> QED BY <1>2, <1>3, <1>4

LEMMA CacheStep ==
  ASSUME CacheInv, [CacheNext]_cacheVars
  PROVE CacheInv'
<1>1. CASE UNCHANGED cacheVars
  BY <1>1 DEF cacheVars, xcVars, esVars, CacheInv, StorageSound, CacheSound, Put, PutAt,
              CacheAt, Batch, Served
<1>2. CASE EngineWork \/ FetchCut \/ EngineDies
  <2>1. UNCHANGED esVars
    BY <1>2 DEF EngineWork, FetchCut, EngineDies, StartRequest, ensure_expert, LoadBatch,
                FindCached, CopyLocal, StartFetch, ReceiveUnit, EndOfBody
  <2>2. StorageSound => StorageSound'
    BY <2>1 DEF StorageSound, esVars, Put, PutAt
  <2> QED BY <1>2, <2>1, <2>2, EngineKeeps DEF CacheInv, esVars
<1>3. CASE ServerWork
  <2>1. esOverlap' \in BOOLEAN /\ (esOverlap => esOverlap')
    <3>1. PICK p \in Puts : \E reading : _write_expert(p, reading)
      BY <1>3 DEF ServerWork
    <3>2. CASE OpenPart(p)
      <4>1. \E b \in BOOLEAN : esOverlap' = (esOverlap \/ b)
        BY <3>2 DEF OpenPart
      <4> QED BY <4>1 DEF CacheInv
    <3>3. CASE esOverlap' = esOverlap
      BY <3>3 DEF CacheInv
    <3>4. WriteUnit(p) => esOverlap' = esOverlap
      BY DEF WriteUnit
    <3>5. ClientClosed(p) => esOverlap' = esOverlap
      BY DEF ClientClosed
    <3>6. \A reading : ReplaceTarget(p, reading) => esOverlap' = esOverlap
      BY DEF ReplaceTarget
    <3> QED BY <3>1, <3>2, <3>3, <3>4, <3>5, <3>6 DEF _write_expert
  <2> QED BY <1>3, <2>1, ServerWorkKeeps DEF CacheInv
<1> QED BY <1>1, <1>2, <1>3 DEF CacheNext

\* The server may start with any experts stored, each in a file of its own.
LEMMA StorageStarts ==
  ASSUME StorageInit
  PROVE StorageSound
<1>1. PICK stored \in SUBSET StoredExperts :
         LET order == SetToSeq(stored)
         IN  /\ esNode = [i \in DOMAIN order |-> Complete]
             /\ esFile = [e \in StoredExperts |->
                   IF e \in stored THEN CHOOSE i \in DOMAIN order : order[i] = e ELSE Absent]
  BY DEF StorageInit
<1> DEFINE n == Cardinality(stored)
           order == SetToSeq(stored)
<1>2. IsFiniteSet(stored) /\ n \in Nat
  BY <1>1, StorageAssumption, FS_Subset, FS_CardinalityType
<1>3. \E f \in [1 .. n -> stored] : IsInjective(f)
  <2>1. ExistsBijection(1 .. n, stored)
    BY <1>2, FS_CardinalityType
  <2>2. PICK f \in Bijection(1 .. n, stored) : TRUE
    BY <2>1 DEF ExistsBijection
  <2> QED BY <2>2 DEF Bijection, Injection, IsInjective
<1>4. order \in [1 .. n -> stored] /\ IsInjective(order)
  BY <1>3 DEF SetToSeq
<1>5. \A e \in stored : \E i \in 1 .. n : order[i] = e
  <2>1. order \in Injection(1 .. n, stored)
    BY <1>4 DEF Injection, IsInjective
  <2>2. IsFiniteSet(1 .. n) /\ Cardinality(1 .. n) = n
    BY <1>2, FS_Interval
  <2> QED BY <1>2, <2>1, <2>2, FS_Injection DEF Surjection
<1> HIDE DEF n, order
<1>6. DOMAIN order = 1 .. n /\ esNode = [i \in 1 .. n |-> Complete]
  BY <1>1, <1>4 DEF order
<1>7. Complete \in Beginnings
  BY OnesFacts, StorageAssumption
<1>8. esNode \in Seq(Beginnings) /\ Len(esNode) = n
  BY <1>2, <1>6, <1>7
<1>9. esFile = [e \in StoredExperts |->
         IF e \in stored THEN CHOOSE i \in 1 .. n : order[i] = e ELSE Absent]
  BY <1>1, <1>6 DEF order
<1>10. \A e \in StoredExperts : esFile[e] \in 0 .. n
  BY <1>2, <1>5, <1>9 DEF Absent
<1>11. esFile \in [StoredExperts -> 0 .. n]
  BY <1>9, <1>10
<1>12. \A e \in StoredExperts : esFile[e] # Absent => esNode[esFile[e]] = Complete
  BY <1>2, <1>6, <1>10 DEF Absent
<1>13. \A e \in StoredExperts : esPart[e] = Absent
  BY DEF StorageInit
<1>14. esPart \in [StoredExperts -> 0 .. n]
  BY <1>2 DEF StorageInit, Absent
<1>15. /\ esPut \in [Puts -> PutRecord]
       /\ \A p \in Puts : esPut[p].pc = "start" /\ esPut[p].written = 0
  <2>1. PICK target \in [Puts -> StoredExperts] :
           esPut = [p \in Puts |-> [expert |-> target[p], pc |-> "start", node |-> Absent,
                                    written |-> 0]]
    BY DEF StorageInit
  <2>2. 0 \in 0 .. FileUnits
    BY StorageAssumption
  <2> QED BY <2>1, <2>2 DEF PutRecord, Absent
<1> QED BY <1>8, <1>11, <1>12, <1>13, <1>14, <1>15 DEF StorageSound, Put, PutAt

LEMMA CacheStarts == CacheInit => CacheInv
<1> SUFFICES ASSUME CacheInit PROVE CacheInv
  OBVIOUS
<1>1. esOverlap = FALSE /\ StorageSound
  BY StorageStarts DEF CacheInit, StorageInit
<1>2. xcSetup \in CacheSetups /\ xcReq = NoRequest
      /\ xcDir = [e \in StoredExperts |-> NotCached]
  BY DEF CacheInit
<1>3. xcSetup.batches \in Seq(Seq(StoredExperts) \ {<<>>}) /\ xcSetup.batches # <<>>
  BY <1>2, CacheAssumption
<1>4. 1 \in 1 .. Len(xcSetup.batches)
  BY <1>3
<1>5. xcSetup.batches[1] \in Seq(StoredExperts) /\ xcSetup.batches[1] # <<>>
  BY <1>3, <1>4
<1>6. 1 \in 1 .. Len(xcSetup.batches[1])
  BY <1>5
<1>7. /\ NoRequest \in ReqRecord /\ NoRequest.batch = 1 /\ NoRequest.next = 1
      /\ NoRequest.pc = "idle"
  BY NothingIsBeginning DEF NoRequest, ReqRecord
<1> QED BY <1>1, <1>2, <1>4, <1>6, <1>7 DEF CacheInv, CacheSound, CacheAt, Batch

LEMMA CacheInvariance == CacheSpec => []CacheInv
<1>1. CacheInit => CacheInv
  BY CacheStarts
<1>2. CacheInv /\ [CacheNext]_cacheVars => CacheInv'
  BY CacheStep
<1> QED BY <1>1, <1>2, PTL DEF CacheSpec

\* Whatever becomes of connections, uploads and engines: while no two uploads of one
\* expert overlap, the server's files are whole, an upload answered 201 is there, and
\* the engine computes from whole experts only.
THEOREM ExpertsAlwaysArrive == CacheSpec => []ExpertsArrive
<1>1. CacheInv => ExpertsArrive
  BY DEF CacheInv, StorageSound, CacheSound, ReqRecord, ExpertsArrive
<1> QED BY <1>1, CacheInvariance, PTL

---------------------------------------------------------------------------
(* What is known of the handlers and connections *)

\* The fields of a handler are always the same.
IsRequest(r) ==
  r = [method |-> r.method, expert |-> r.expert, pc |-> r.pc, attempt |-> r.attempt,
       worker |-> r.worker, unread |-> r.unread, need |-> r.need, gone |-> r.gone,
       answer |-> r.answer]

\* rlConn is a list of connections, each with its fields.
Connections == \E S : rlConn \in Seq(S)

\* Nobody knows a connection that has not been accepted yet.
ConnectionNumbers ==
  /\ rlSock \in [sock : 0 .. Len(rlConn), busy : BOOLEAN]
  /\ rlReq = [h \in Handlers |-> rlReq[h]]
  /\ \A h \in Handlers : IsRequest(Req(h)) /\ Req(h).worker \in 0 .. Len(rlConn)

RelayInv == Connections /\ ConnectionNumbers /\ ConnectionExclusive

---------------------------------------------------------------------------
(* The list of connections *)

LEMMA SameDomain ==
  ASSUME NEW S, NEW s \in Seq(S), NEW t, t = [i \in DOMAIN s |-> t[i]]
  PROVE (\E T : t \in Seq(T)) /\ Len(t) = Len(s)
  <1> DEFINE T == {t[i] : i \in 1 .. Len(s)}
  <1>1. Len(s) \in Nat /\ DOMAIN s = 1 .. Len(s)
    OBVIOUS
  <1>2. \A i \in 1 .. Len(s) : t[i] \in T
    OBVIOUS
  <1> HIDE DEF T
  <1>3. t \in [1 .. Len(s) -> T]
    BY <1>1, <1>2
  <1>4. t \in Seq(T)
    BY <1>1, <1>3
  <1>5. Len(t) = Len(s)
    BY <1>1, <1>3, <1>4
  <1> QED BY <1>4, <1>5

LEMMA GrownSeq ==
  ASSUME NEW S, NEW s \in Seq(S), NEW e
  PROVE (\E T : Append(s, e) \in Seq(T)) /\ Len(Append(s, e)) = Len(s) + 1
  <1>1. s \in Seq(S \cup {e}) /\ e \in S \cup {e}
    OBVIOUS
  <1> QED BY <1>1

LEMMA ConnNumbers ==
  ASSUME Connections
  PROVE Len(rlConn) \in Nat /\ DOMAIN rlConn = 1 .. Len(rlConn)
  BY DEF Connections

---------------------------------------------------------------------------
(* What every step but two does to the users of a connection *)

\* The connections stay the connections they are, nobody comes to use one, and the
\* current one is forgotten or given back only if nobody uses it.
ConnKept == rlConn' = [i \in DOMAIN rlConn |-> rlConn'[i]]

ReqKept ==
  /\ rlReq' = [h \in Handlers |-> rlReq'[h]]
  /\ \A h \in Handlers :
        /\ IsRequest(rlReq'[h]) /\ rlReq'[h].worker = Req(h).worker
        /\ rlReq'[h].pc \in {"send", "send_body", "read", "headers", "copy"}
              => Req(h).pc \in {"send", "send_body", "read", "headers", "copy"}

SockKept ==
  \/ rlSock' = rlSock
  \/ rlSock' = [sock |-> None, busy |-> FALSE]
  \/ /\ rlSock' = [sock |-> rlSock.sock, busy |-> FALSE]
     /\ \A h \in Handlers :
          ~(/\ rlReq'[h].pc \in {"send", "send_body", "read", "headers", "copy"}
            /\ Req(h).worker = rlSock.sock)

LEMMA KeptKeepsInv ==
  ASSUME RelayInv, ConnKept, ReqKept, SockKept
  PROVE RelayInv'
  <1>1. Len(rlConn) \in Nat /\ DOMAIN rlConn = 1 .. Len(rlConn)
    BY ConnNumbers DEF RelayInv
  <1>2. Connections' /\ Len(rlConn') = Len(rlConn)
    <2>1. PICK S : rlConn \in Seq(S)
      BY DEF RelayInv, Connections
    <2> QED BY <2>1, SameDomain DEF ConnKept, Connections
  <1>3. DOMAIN rlConn' = DOMAIN rlConn
    BY DEF ConnKept
  <1>4. ConnectionNumbers'
    <2>1. rlSock' \in [sock : 0 .. Len(rlConn), busy : BOOLEAN]
      <3>1. CASE rlSock' = rlSock
        BY <3>1 DEF RelayInv, ConnectionNumbers
      <3>2. CASE rlSock' = [sock |-> None, busy |-> FALSE]
        BY <1>1, <3>2 DEF None
      <3>3. CASE rlSock' = [sock |-> rlSock.sock, busy |-> FALSE]
        BY <3>3 DEF RelayInv, ConnectionNumbers
      <3> QED BY <3>1, <3>2, <3>3 DEF SockKept
    <2> QED BY <1>2, <2>1 DEF RelayInv, ConnectionNumbers, ReqKept, Req
  <1>5. \A h \in Handlers : \A c : Uses(h, c)' => Uses(h, c)
    BY DEF ReqKept, Uses, Req
  <1>6. ConnectionExclusive'
    <2> SUFFICES ASSUME NEW c \in DOMAIN rlConn, NEW h \in Handlers, Uses(h, c)'
                 PROVE /\ \A k \in Handlers \ {h} : ~Uses(k, c)'
                       /\ rlSock'.sock = c => rlSock'.busy
      BY <1>3 DEF ConnectionExclusive
    <2>1. /\ \A k \in Handlers \ {h} : ~Uses(k, c)
          /\ rlSock.sock = c => rlSock.busy
      BY <1>5 DEF RelayInv, ConnectionExclusive
    <2>2. rlSock'.sock = c => rlSock'.busy
      BY <1>1, <2>1 DEF SockKept, None, Uses, Req, ReqKept
    <2> QED BY <1>5, <2>1, <2>2
  <1> QED BY <1>2, <1>4, <1>6 DEF RelayInv

LEMMA TakeWorkerKeepsInv ==
  ASSUME RelayInv, NEW h \in Handlers, TakeWorker(h)
  PROVE RelayInv'
  <1>0. rlReq'[h] = [Req(h) EXCEPT !.pc = "send", !.worker = rlSock.sock]
    BY DEF RelayInv, ConnectionNumbers, TakeWorker, Req
  <1>1. ConnectionNumbers'
    <2>1. rlSock' \in [sock : 0 .. Len(rlConn), busy : BOOLEAN] /\ rlConn' = rlConn
      BY DEF RelayInv, ConnectionNumbers, TakeWorker
    <2>2. rlReq' = [k \in Handlers |-> rlReq'[k]]
      BY DEF RelayInv, ConnectionNumbers, TakeWorker
    <2>3. \A k \in Handlers : IsRequest(rlReq'[k]) /\ rlReq'[k].worker \in 0 .. Len(rlConn)
      <3> SUFFICES ASSUME NEW k \in Handlers
                   PROVE IsRequest(rlReq'[k]) /\ rlReq'[k].worker \in 0 .. Len(rlConn)
        OBVIOUS
      <3>1. CASE k # h
        BY <3>1 DEF RelayInv, ConnectionNumbers, TakeWorker, Req
      <3>2. CASE k = h
        BY <1>0, <3>2 DEF RelayInv, ConnectionNumbers, IsRequest, Req
      <3> QED BY <3>1, <3>2
    <2> QED BY <2>1, <2>2, <2>3 DEF ConnectionNumbers, Req
  <1>2. \A k \in Handlers \ {h} : \A c : Uses(k, c)' <=> Uses(k, c)
    BY DEF RelayInv, ConnectionNumbers, TakeWorker, Uses, Req
  <1>3. \A c : Uses(h, c)' => c = rlSock.sock
    <2>1. rlReq'[h].worker = rlSock.sock
      BY <1>0 DEF RelayInv, ConnectionNumbers, IsRequest
    <2> QED BY <2>1 DEF Uses, Req
  <1>4. \A k \in Handlers, c \in DOMAIN rlConn : Uses(k, c) => c # rlSock.sock
    BY DEF RelayInv, ConnectionExclusive, TakeWorker
  <1>5. rlSock'.busy
    BY DEF RelayInv, ConnectionNumbers, TakeWorker
  <1>6. ConnectionExclusive'
    BY <1>2, <1>3, <1>4, <1>5 DEF RelayInv, ConnectionExclusive, TakeWorker
  <1> QED BY <1>1, <1>6 DEF RelayInv, Connections, TakeWorker

\* A new connection has a number no handler has seen.
LEMMA AcceptKeepsInv ==
  ASSUME RelayInv, worker_accept_loop
  PROVE RelayInv'
  <1> DEFINE closed == IF rlSock.sock = None THEN rlConn
                       ELSE [rlConn EXCEPT ![rlSock.sock].open = FALSE, ![rlSock.sock].up = <<>>]
  <1>1. Len(rlConn) \in Nat /\ DOMAIN rlConn = 1 .. Len(rlConn)
    BY ConnNumbers DEF RelayInv
  <1>2. (\E S : closed \in Seq(S)) /\ Len(closed) = Len(rlConn)
    <2>1. PICK S : rlConn \in Seq(S)
      BY DEF RelayInv, Connections
    <2>2. CASE rlSock.sock = None
      BY <2>1, <2>2
    <2>3. CASE rlSock.sock # None
      <3> DEFINE d == [rlConn[rlSock.sock] EXCEPT !.open = FALSE, !.up = <<>>]
      <3>1. closed = [rlConn EXCEPT ![rlSock.sock] = d]
        BY <2>3
      <3> HIDE DEF closed, d
      <3>2. closed = [i \in DOMAIN rlConn |-> closed[i]]
        BY <3>1
      <3> QED BY <2>1, <3>2, SameDomain
    <2> QED BY <2>2, <2>3
  <1>3. rlConn' = Append(closed, [open |-> TRUE, down |-> <<>>, up |-> <<>>])
    BY DEF worker_accept_loop, SetSock
  <1> HIDE DEF closed
  <1>4. Connections' /\ Len(rlConn') = Len(rlConn) + 1
    BY <1>2, <1>3, GrownSeq DEF Connections
  <1>5. DOMAIN rlConn' = 1 .. Len(rlConn) + 1
    BY <1>1, <1>4 DEF Connections
  <1>6. rlReq' = rlReq /\ rlSock' = [sock |-> Len(rlConn) + 1, busy |-> FALSE]
    BY DEF worker_accept_loop, SetSock
  <1>7. ConnectionNumbers'
    BY <1>1, <1>4, <1>6 DEF RelayInv, ConnectionNumbers, Req
  <1>8. \A k \in Handlers : \A c : Uses(k, c)' <=> Uses(k, c)
    BY <1>6 DEF Uses, Req
  <1>9. \A k \in Handlers : ~Uses(k, Len(rlConn) + 1)
    BY <1>1 DEF RelayInv, ConnectionNumbers, Uses
  <1>10. \A k \in Handlers, c \in DOMAIN rlConn' : Uses(k, c) => c \in DOMAIN rlConn
    BY <1>1, <1>5, <1>9
  <1>11. ConnectionExclusive'
    <2> SUFFICES ASSUME NEW c \in DOMAIN rlConn', NEW k \in Handlers, Uses(k, c)
                 PROVE /\ \A g \in Handlers \ {k} : ~Uses(g, c)
                       /\ rlSock'.sock = c => rlSock'.busy
      BY <1>8 DEF ConnectionExclusive
    <2>1. c \in DOMAIN rlConn /\ c # Len(rlConn) + 1
      BY <1>1, <1>10
    <2>2. rlSock'.sock # c
      BY <1>6, <2>1
    <2> QED BY <2>1, <2>2 DEF RelayInv, ConnectionExclusive
  <1> QED BY <1>4, <1>7, <1>11 DEF RelayInv

---------------------------------------------------------------------------
(* The steps of a handler *)

\* A handler that goes on keeps its worker; one that ends its attempt is no user.
LEMMA OneHandlerMoves ==
  ASSUME RelayInv, NEW h \in Handlers, NEW r, rlReq' = [rlReq EXCEPT ![h] = r],
         IsRequest(r), r.worker = Req(h).worker,
         r.pc \in {"send", "send_body", "read", "headers", "copy"}
            => Req(h).pc \in {"send", "send_body", "read", "headers", "copy"}
  PROVE ReqKept
  <1>1. rlReq' = [k \in Handlers |-> rlReq'[k]] /\ rlReq'[h] = r
    BY DEF RelayInv, ConnectionNumbers
  <1>2. \A k \in Handlers \ {h} : rlReq'[k] = rlReq[k]
    BY DEF RelayInv, ConnectionNumbers
  <1> QED BY <1>1, <1>2 DEF RelayInv, ConnectionNumbers, ReqKept, Req

LEMMA RetriedIsNoUser ==
  ASSUME RelayInv, NEW h \in Handlers
  PROVE /\ IsRequest(Retried(h)) /\ Retried(h).worker = Req(h).worker
        /\ Retried(h).pc \in {"enter", "done"}
  <1> DEFINE r == Req(h)
             a == r.attempt + 1
             w == Append(r.answer, 502)
             again1 == [r EXCEPT !.pc = "enter"]
             again == [again1 EXCEPT !.attempt = a]
             over1 == [r EXCEPT !.pc = "done"]
             over == [over1 EXCEPT !.answer = w]
  <1>1. Retried(h) = IF r.attempt < MaxAttempts THEN again ELSE over
    BY DEF Retried
  <1>2. IsRequest(r)
    BY DEF RelayInv, ConnectionNumbers
  <1> HIDE DEF a, w, r
  <1>3. /\ IsRequest(again1) /\ again1.worker = r.worker /\ again1.pc = "enter"
        /\ IsRequest(over1) /\ over1.worker = r.worker /\ over1.pc = "done"
    BY <1>2 DEF IsRequest
  <1> HIDE DEF again1, over1
  <1>4. /\ IsRequest(again) /\ again.worker = r.worker /\ again.pc = "enter"
        /\ IsRequest(over) /\ over.worker = r.worker /\ over.pc = "done"
    BY <1>3 DEF IsRequest
  <1> QED BY <1>1, <1>4 DEF r

\* What the handler's own connection has in common with the current one decides
\* whether giving it back frees that: its only user has just stopped to use it.
LEMMA GivenBack ==
  ASSUME RelayInv, NEW h \in Handlers, ReqKept, ReleaseSock(Req(h).worker),
         rlReq'[h].pc \in {"enter", "done"},
         rlSock.sock # None =>
            Req(h).pc \in {"send", "send_body", "read", "headers", "copy"}
  PROVE SockKept
  <1>1. CASE rlSock.sock # Req(h).worker
    BY <1>1 DEF ReleaseSock, SockKept
  <1>2. CASE rlSock.sock = Req(h).worker
    <2>1. rlSock' = [sock |-> rlSock.sock, busy |-> FALSE]
      BY <1>2 DEF ReleaseSock, RelayInv, ConnectionNumbers
    <2>2. CASE rlSock.sock = None
      BY <2>1, <2>2 DEF SockKept
    <2>3. CASE rlSock.sock # None
      <3>1. rlSock.sock \in DOMAIN rlConn
        BY <2>3, ConnNumbers DEF RelayInv, ConnectionNumbers, None
      <3>2. Uses(h, rlSock.sock)
        BY <1>2, <2>3 DEF Uses
      <3>3. \A k \in Handlers \ {h} : ~Uses(k, rlSock.sock)
        BY <3>1, <3>2 DEF RelayInv, ConnectionExclusive
      <3> QED BY <2>1, <3>3 DEF SockKept, ReqKept, Uses, Req
    <2> QED BY <2>2, <2>3
  <1> QED BY <1>1, <1>2

LEMMA DropKept ==
  ASSUME RelayInv, NEW c, DropSock(c)
  PROVE ConnKept /\ SockKept
  <1>1. SockKept
    BY DEF DropSock, SockKept
  <1>2. rlConn = [i \in DOMAIN rlConn |-> rlConn[i]]
    BY DEF RelayInv, Connections
  <1>3. ConnKept
    BY <1>2 DEF DropSock, ConnKept
  <1> QED BY <1>1, <1>3

LEMMA SameConn ==
  ASSUME RelayInv, rlConn' = rlConn
  PROVE ConnKept
  BY DEF RelayInv, Connections, ConnKept

\* One queue of one connection changes.
LEMMA OneConnChanges ==
  ASSUME RelayInv, NEW c, NEW r, rlConn' = [rlConn EXCEPT ![c] = r]
  PROVE ConnKept
  <1>1. rlConn = [i \in DOMAIN rlConn |-> rlConn[i]]
    BY DEF RelayInv, Connections
  <1> QED BY <1>1 DEF ConnKept

LEMMA ProxyKeepsInv ==
  ASSUME RelayInv, NEW h \in Handlers, _proxy(h)
  PROVE RelayInv'
  <1> DEFINE r == Req(h)
  <1>0. IsRequest(r) /\ rlSock = [sock |-> rlSock.sock, busy |-> rlSock.busy]
    BY DEF RelayInv, ConnectionNumbers
  <1>r. ASSUME rlReq' = [rlReq EXCEPT ![h] = Retried(h)]
        PROVE ReqKept /\ rlReq'[h].pc \in {"enter", "done"}
    <2>1. ReqKept
      BY <1>r, RetriedIsNoUser, OneHandlerMoves
    <2>2. rlReq'[h] = Retried(h)
      BY <1>r DEF RelayInv, ConnectionNumbers
    <2> QED BY <2>1, <2>2, RetriedIsNoUser
  <1>g. ASSUME GiveBackAndRetry(h),
               Req(h).pc \in {"send", "send_body", "read", "headers", "copy"}
        PROVE ReqKept /\ SockKept
    BY <1>r, <1>g, GivenBack DEF GiveBackAndRetry
  <1>1. CASE EnterRequest(h)
    <2> DEFINE q == [r EXCEPT !.pc = "wait"]
    <2>1. rlReq' = [rlReq EXCEPT ![h] = q] /\ rlConn' = rlConn /\ rlSock' = rlSock
      BY <1>1 DEF EnterRequest, RqGoto, Req
    <2>2. IsRequest(q) /\ q.worker = r.worker /\ q.pc = "wait"
      BY <1>0 DEF IsRequest
    <2> HIDE DEF q
    <2>3. ReqKept
      BY <2>1, <2>2, OneHandlerMoves
    <2> QED BY <2>1, <2>3, SameConn, KeptKeepsInv DEF SockKept
  <1>2. CASE NoWorkerConnected(h)
    <2>1. ReqKept /\ SockKept
      BY <1>r, <1>2, GivenBack DEF NoWorkerConnected
    <2> QED BY <1>2, <2>1, SameConn, KeptKeepsInv DEF NoWorkerConnected
  <1>3. CASE TakeWorker(h)
    BY <1>3, TakeWorkerKeepsInv
  <1>4. CASE SendFrame(h)
    <2> DEFINE p == IF r.method = "PUT" THEN "send_body" ELSE "read"
               p1 == [r EXCEPT !.pc = p]
               q == [p1 EXCEPT !.need = BodyUnits]
    <2>1. rlReq' = [rlReq EXCEPT ![h] = q] /\ rlSock' = rlSock
      BY <1>4 DEF SendFrame, Req
    <2> HIDE DEF p
    <2>p. IsRequest(p1) /\ p1.worker = r.worker
      BY <1>0 DEF IsRequest
    <2> HIDE DEF p1
    <2>2. IsRequest(q) /\ q.worker = r.worker /\ r.pc = "send"
      BY <1>4, <2>p DEF SendFrame, RqAt, IsRequest
    <2> HIDE DEF q
    <2>3. ReqKept
      BY <2>1, <2>2, OneHandlerMoves
    <2>4. ConnKept
      BY <1>4, OneConnChanges DEF SendFrame
    <2> QED BY <2>1, <2>3, <2>4, KeptKeepsInv DEF SockKept
  <1>5. CASE SendFails(h)
    BY <1>r, <1>5, DropKept, KeptKeepsInv DEF SendFails
  <1>6. CASE SendBodyUnit(h)
    <2> DEFINE n == r.need - 1
               u == r.unread - 1
               p1 == [r EXCEPT !.need = n]
               q == [p1 EXCEPT !.unread = u]
    <2>1. rlReq' = [rlReq EXCEPT ![h] = q] /\ rlSock' = rlSock
      BY <1>6 DEF SendBodyUnit, Req
    <2> HIDE DEF n, u
    <2>p. IsRequest(p1) /\ p1.worker = r.worker /\ p1.pc = r.pc
      BY <1>0 DEF IsRequest
    <2> HIDE DEF p1
    <2>2. IsRequest(q) /\ q.worker = r.worker /\ q.pc = r.pc
      BY <2>p DEF IsRequest
    <2> HIDE DEF q
    <2>3. ReqKept
      BY <2>1, <2>2, OneHandlerMoves
    <2>4. ConnKept
      BY <1>6, OneConnChanges DEF SendBodyUnit
    <2> QED BY <2>1, <2>3, <2>4, KeptKeepsInv DEF SockKept
  <1>7. CASE BodySent(h)
    <2> DEFINE q == [r EXCEPT !.pc = "read"]
    <2>1. rlReq' = [rlReq EXCEPT ![h] = q] /\ rlConn' = rlConn /\ rlSock' = rlSock
      BY <1>7 DEF BodySent, RqGoto, Req
    <2>2. IsRequest(q) /\ q.worker = r.worker /\ r.pc = "send_body"
      BY <1>0, <1>7 DEF IsRequest, BodySent, RqAt
    <2> HIDE DEF q
    <2>3. ReqKept
      BY <2>1, <2>2, OneHandlerMoves
    <2> QED BY <2>1, <2>3, SameConn, KeptKeepsInv DEF SockKept
  <1>8. CASE BodyFails(h)
    <2>1. ReqKept /\ SockKept
      BY <1>g, <1>8 DEF BodyFails, RqAt
    <2> QED BY <1>8, <2>1, SameConn, KeptKeepsInv DEF BodyFails
  <1>9. CASE ReadResponse(h)
    <2> DEFINE n == Head(Answers(h))[3]
               u == IF r.gone THEN r.answer ELSE Append(r.answer, Head(Answers(h))[2])
               p1 == [r EXCEPT !.pc = "headers"]
               p2 == [p1 EXCEPT !.need = n]
               q == [p2 EXCEPT !.answer = u]
    <2>1. rlReq' = [rlReq EXCEPT ![h] = q] /\ rlSock' = rlSock
      BY <1>9 DEF ReadResponse, Req
    <2> HIDE DEF n, u
    <2>p. IsRequest(p1) /\ p1.worker = r.worker
      BY <1>0 DEF IsRequest
    <2> HIDE DEF p1
    <2>q. IsRequest(p2) /\ p2.worker = r.worker
      BY <2>p DEF IsRequest
    <2> HIDE DEF p2
    <2>2. IsRequest(q) /\ q.worker = r.worker /\ r.pc = "read"
      BY <1>9, <2>q DEF ReadResponse, RqAt, IsRequest
    <2> HIDE DEF q
    <2>3. ReqKept
      BY <2>1, <2>2, OneHandlerMoves
    <2>4. ConnKept
      BY <1>9, OneConnChanges DEF ReadResponse
    <2> QED BY <2>1, <2>3, <2>4, KeptKeepsInv DEF SockKept
  <1>10. CASE ReadFails(h)
    <2>1. CASE Req(h).method = "PUT"
      <3>1. ReqKept /\ SockKept
        BY <1>g, <1>10, <2>1 DEF ReadFails, RqAt
      <3> QED BY <1>10, <2>1, <3>1, SameConn, KeptKeepsInv DEF ReadFails
    <2>2. CASE Req(h).method # "PUT"
      BY <1>r, <1>10, <2>2, DropKept, KeptKeepsInv DEF ReadFails
    <2> QED BY <2>1, <2>2
  <1>11. CASE HeadersSent(h)
    <2> DEFINE q == [r EXCEPT !.pc = IF r.method = "HEAD" THEN "done" ELSE "copy"]
    <2>1. rlReq' = [rlReq EXCEPT ![h] = q] /\ rlConn' = rlConn
      BY <1>11 DEF HeadersSent, RqGoto, Req
    <2>2. /\ IsRequest(q) /\ q.worker = r.worker /\ r.pc = "headers"
          /\ q.pc = IF r.method = "HEAD" THEN "done" ELSE "copy"
      BY <1>0, <1>11 DEF IsRequest, HeadersSent, RqAt
    <2> HIDE DEF q
    <2>3. ReqKept
      BY <2>1, <2>2, OneHandlerMoves
    <2>4. rlReq'[h] = q
      BY <2>1 DEF RelayInv, ConnectionNumbers
    <2>5. SockKept
      <3>1. CASE r.method = "HEAD"
        BY <1>11, <2>2, <2>3, <2>4, <3>1, GivenBack DEF HeadersSent
      <3>2. CASE r.method # "HEAD"
        BY <1>11, <3>2 DEF HeadersSent, SockKept
      <3> QED BY <3>1, <3>2
    <2> QED BY <2>1, <2>3, <2>5, SameConn, KeptKeepsInv
  <1>12. CASE CopyUnit(h)
    <2> DEFINE n == r.need - 1
               u == Append(r.answer, Head(Answers(h)))
               p1 == [r EXCEPT !.need = n]
               q == [p1 EXCEPT !.answer = u]
    <2>1. rlReq' = [rlReq EXCEPT ![h] = q] /\ rlSock' = rlSock
      BY <1>12 DEF CopyUnit, Req
    <2> HIDE DEF n, u
    <2>p. IsRequest(p1) /\ p1.worker = r.worker /\ p1.pc = r.pc
      BY <1>0 DEF IsRequest
    <2> HIDE DEF p1
    <2>2. IsRequest(q) /\ q.worker = r.worker /\ q.pc = r.pc
      BY <2>p DEF IsRequest
    <2> HIDE DEF q
    <2>3. ReqKept
      BY <2>1, <2>2, OneHandlerMoves
    <2>4. ConnKept
      BY <1>12, OneConnChanges DEF CopyUnit
    <2> QED BY <2>1, <2>3, <2>4, KeptKeepsInv DEF SockKept
  <1>13. CASE CopyDone(h)
    <2> DEFINE q == [r EXCEPT !.pc = "done"]
    <2>1. rlReq' = [rlReq EXCEPT ![h] = q] /\ rlConn' = rlConn
      BY <1>13 DEF CopyDone, RqGoto, Req
    <2>2. IsRequest(q) /\ q.worker = r.worker /\ r.pc = "copy" /\ q.pc = "done"
      BY <1>0, <1>13 DEF IsRequest, CopyDone, RqAt
    <2> HIDE DEF q
    <2>3. ReqKept
      BY <2>1, <2>2, OneHandlerMoves
    <2>4. rlReq'[h] = q
      BY <2>1 DEF RelayInv, ConnectionNumbers
    <2>5. SockKept
      BY <1>13, <2>2, <2>3, <2>4, GivenBack DEF CopyDone
    <2> QED BY <2>1, <2>3, <2>5, SameConn, KeptKeepsInv
  <1>14. CASE CopyFails(h)
    <2>1. ReqKept /\ SockKept
      BY <1>g, <1>14 DEF CopyFails, RqAt
    <2> QED BY <1>14, <2>1, SameConn, KeptKeepsInv DEF CopyFails
  <1> QED BY <1>1, <1>2, <1>3, <1>4, <1>5, <1>6, <1>7, <1>8, <1>9, <1>10, <1>11, <1>12,
             <1>13, <1>14 DEF _proxy

---------------------------------------------------------------------------
(* The others *)

LEMMA ClientGoneKeepsInv ==
  ASSUME RelayInv, NEW h \in Handlers, ClientGone(h)
  PROVE RelayInv'
  <1> DEFINE g == TRUE
             q == [Req(h) EXCEPT !.gone = g]
  <1>1. rlReq' = [rlReq EXCEPT ![h] = q] /\ rlConn' = rlConn /\ rlSock' = rlSock
    BY DEF ClientGone, Req
  <1> HIDE DEF g
  <1>2. IsRequest(q) /\ q.worker = Req(h).worker /\ q.pc = Req(h).pc
    BY DEF RelayInv, ConnectionNumbers, IsRequest
  <1> HIDE DEF q
  <1>3. ReqKept
    BY <1>1, <1>2, OneHandlerMoves
  <1> QED BY <1>1, <1>3, SameConn, KeptKeepsInv DEF SockKept

LEMMA SameReq ==
  ASSUME RelayInv, rlReq' = rlReq
  PROVE ReqKept
  BY DEF RelayInv, ConnectionNumbers, ReqKept, Req

\* The worker has no part in the flag, and what it does to a connection is done to
\* its queues.
LEMMA WorkerKeepsInv ==
  ASSUME RelayInv, serve_forever \/ ConnectionLost
  PROVE RelayInv'
  <1>1. rlReq' = rlReq /\ rlSock' = rlSock
    BY DEF serve_forever, ServeRequest, OpenPut, TakeUnit, StorePut, PutFails, LeaveConnection,
           ConnectionLost
  <1>2. ConnKept
    <2>1. CASE ServeRequest
      <3>0. PICK answer :
               rlConn' = [rlConn EXCEPT ![rlWorker.conn].down = Tail(@),
                             ![rlWorker.conn].up = IF IsOpen(rlWorker.conn) THEN @ \o answer ELSE @]
        BY <2>1 DEF ServeRequest
      <3> DEFINE c == rlConn[rlWorker.conn]
                 u == IF IsOpen(rlWorker.conn) THEN c.up \o answer ELSE c.up
                 d == Tail(c.down)
      <3>1. rlConn' = [rlConn EXCEPT ![rlWorker.conn] = [[c EXCEPT !.down = d] EXCEPT !.up = u]]
        BY <3>0
      <3> QED BY <3>1, OneConnChanges
    <2>2. CASE OpenPut
      BY <2>2, OneConnChanges DEF OpenPut
    <2>3. CASE TakeUnit
      BY <2>3, OneConnChanges DEF TakeUnit
    <2>4. CASE StorePut
      BY <2>4, OneConnChanges DEF StorePut
    <2>5. CASE LeaveConnection
      BY <2>5, OneConnChanges DEF LeaveConnection
    <2>7. CASE PutFails
      BY <2>7, OneConnChanges DEF PutFails
    <2>6. CASE ConnectionLost
      <3>1. PICK n \in 0 .. Len(rlConn[rlWorker.conn].up) :
               rlConn' = [rlConn EXCEPT ![rlWorker.conn] =
                            [open |-> FALSE, down |-> <<>>, up |-> SubSeq(@.up, 1, n)]]
        BY <2>6 DEF ConnectionLost
      <3> QED BY <3>1, OneConnChanges
    <2> QED BY <2>1, <2>2, <2>3, <2>4, <2>5, <2>6, <2>7 DEF serve_forever
  <1> QED BY <1>1, <1>2, SameReq, KeptKeepsInv DEF SockKept

---------------------------------------------------------------------------
(* The theorem *)

LEMMA RelayStarts ==
  ASSUME RelayInit
  PROVE RelayInv
<1>1. rlConn = <<>> /\ rlSock = [sock |-> None, busy |-> FALSE]
  BY DEF RelayInit
<1>2. rlConn \in Seq({}) /\ Len(rlConn) = 0 /\ DOMAIN rlConn = {}
  BY <1>1
<1>3. Connections /\ ConnectionExclusive
  BY <1>2 DEF Connections, ConnectionExclusive
<1>4. \A h \in Handlers : IsRequest(Req(h)) /\ Req(h).worker = None
  BY DEF RelayInit, IsRequest, Req
<1>5. rlReq = [h \in Handlers |-> rlReq[h]]
  BY DEF RelayInit
<1>6. rlSock \in [sock : 0 .. Len(rlConn), busy : BOOLEAN]
  BY <1>1, <1>2 DEF None
<1> QED BY <1>2, <1>3, <1>4, <1>5, <1>6 DEF RelayInv, ConnectionNumbers, None

LEMMA RelayStep ==
  ASSUME RelayInv, [RelayNext]_rlVars
  PROVE RelayInv'
<1>1. CASE UNCHANGED rlVars
  BY <1>1, SameConn, SameReq, KeptKeepsInv DEF rlVars, SockKept
<1>2. CASE RelayNext
  BY <1>2, ProxyKeepsInv, ClientGoneKeepsInv, AcceptKeepsInv, WorkerKeepsInv DEF RelayNext
<1> QED BY <1>1, <1>2

\* However connections break, are replaced, dropped and given back by threads that
\* hold an old one, no two handlers use the same connection, and the current one is
\* busy while it is used.
THEOREM RelayExclusive ==
  RelaySpec => []ConnectionExclusive
<1>1. RelayInit => RelayInv
  BY RelayStarts
<1>2. RelayInv /\ [RelayNext]_rlVars => RelayInv'
  BY RelayStep
<1>3. RelayInv => ConnectionExclusive
  BY DEF RelayInv
<1> QED BY <1>1, <1>2, <1>3, PTL DEF RelaySpec

---------------------------------------------------------------------------
(* Sequences of units *)

Unit(e, i) == <<"unit", e, i>>

Slice(e, k, n) == [i \in 1 .. n |-> Unit(e, k + i)]

\* A frame and n units
Framed(f, e, k, n) == <<f>> \o Slice(e, k, n)

LEMMA SameSeq ==
  ASSUME NEW S, NEW s \in Seq(S), NEW t \in Seq(S), Len(s) = Len(t),
         \A i \in 1 .. Len(s) : s[i] = t[i]
  PROVE  s = t
  BY SeqEqual

LEMMA SliceIsSeq ==
  ASSUME NEW e, NEW k \in Nat, NEW n \in Nat, NEW S, \A i \in Nat : Unit(e, i) \in S
  PROVE  /\ Slice(e, k, n) \in Seq(S) /\ Len(Slice(e, k, n)) = n
         /\ \A i \in 1 .. n : Slice(e, k, n)[i] = Unit(e, k + i)
<1>1. Slice(e, k, n) \in [1 .. n -> S]
  BY DEF Slice
<1>2. Slice(e, k, n) \in Seq(S)
  BY <1>1, SeqDef
<1> QED BY <1>1, <1>2, LenProperties DEF Slice

LEMMA EmptySlice ==
  ASSUME NEW e, NEW k
  PROVE  Slice(e, k, 0) = <<>>
  BY DEF Slice

LEMMA SliceGrows ==
  ASSUME NEW e, NEW k \in Nat, NEW n \in Nat
  PROVE  Append(Slice(e, k, n), Unit(e, k + n + 1)) = Slice(e, k, n + 1)
<1> DEFINE S == {Unit(e, i) : i \in Nat}
           x == Unit(e, k + n + 1)
           s == Slice(e, k, n)
           t == Slice(e, k, n + 1)
<1>1. x \in S /\ (\A i \in Nat : Unit(e, i) \in S)
  OBVIOUS
<1> HIDE DEF S
<1>2. /\ s \in Seq(S) /\ Len(s) = n /\ \A i \in 1 .. n : s[i] = Unit(e, k + i)
      /\ t \in Seq(S) /\ Len(t) = n + 1 /\ \A i \in 1 .. n + 1 : t[i] = Unit(e, k + i)
  <2>1. n + 1 \in Nat
    OBVIOUS
  <2>2. s \in Seq(S) /\ Len(s) = n /\ \A i \in 1 .. n : s[i] = Unit(e, k + i)
    BY <1>1, SliceIsSeq
  <2>3. t \in Seq(S) /\ Len(t) = n + 1 /\ \A i \in 1 .. n + 1 : t[i] = Unit(e, k + i)
    BY <1>1, <2>1, SliceIsSeq
  <2> QED BY <2>2, <2>3
<1> HIDE DEF s, t, x
<1>3. /\ Append(s, x) \in Seq(S) /\ Len(Append(s, x)) = n + 1
      /\ \A i \in 1 .. n : Append(s, x)[i] = s[i]
      /\ Append(s, x)[n + 1] = x
  BY <1>1, <1>2, AppendProperties
<1>x. x = Unit(e, k + (n + 1))
  BY DEF x
<1>4. \A i \in 1 .. n + 1 : Append(s, x)[i] = t[i]
  <2> SUFFICES ASSUME NEW i \in 1 .. n + 1 PROVE Append(s, x)[i] = t[i]
    OBVIOUS
  <2>1. CASE i = n + 1
    BY <1>2, <1>3, <1>x, <2>1
  <2>2. CASE i \in 1 .. n
    BY <1>2, <1>3, <2>2
  <2>3. i = n + 1 \/ i \in 1 .. n
    OBVIOUS
  <2> QED BY <2>1, <2>2, <2>3
<1> QED BY <1>2, <1>3, <1>4, SameSeq DEF s, t, x

LEMMA SliceShrinks ==
  ASSUME NEW e, NEW k \in Nat, NEW n \in Nat \ {0}
  PROVE  /\ Slice(e, k, n) # <<>>
         /\ Head(Slice(e, k, n)) = Unit(e, k + 1)
         /\ Tail(Slice(e, k, n)) = Slice(e, k + 1, n - 1)
<1> DEFINE S == {Unit(e, i) : i \in Nat}
           s == Slice(e, k, n)
           t == Slice(e, k + 1, n - 1)
<1>1. \A i \in Nat : Unit(e, i) \in S
  OBVIOUS
<1> HIDE DEF S
<1>2. /\ s \in Seq(S) /\ Len(s) = n /\ \A i \in 1 .. n : s[i] = Unit(e, k + i)
      /\ t \in Seq(S) /\ Len(t) = n - 1 /\ \A i \in 1 .. n - 1 : t[i] = Unit(e, k + 1 + i)
  <2>1. n - 1 \in Nat /\ k + 1 \in Nat
    OBVIOUS
  <2> QED BY <1>1, <2>1, SliceIsSeq
<1> HIDE DEF s, t
<1>3. s # <<>>
  BY <1>2, EmptySeq
<1>4. /\ Head(s) = s[1] /\ Tail(s) \in Seq(S) /\ Len(Tail(s)) = n - 1
      /\ \A i \in 1 .. n - 1 : Tail(s)[i] = s[i + 1]
  BY <1>2, <1>3, HeadTailProperties
<1>5. \A i \in 1 .. n - 1 : Tail(s)[i] = t[i]
  <2> SUFFICES ASSUME NEW i \in 1 .. n - 1 PROVE Tail(s)[i] = t[i]
    OBVIOUS
  <2>1. i + 1 \in 1 .. n /\ k + (i + 1) = k + 1 + i
    OBVIOUS
  <2> QED BY <1>2, <1>4, <2>1
<1>6. Tail(s) = t
  BY <1>2, <1>4, <1>5, SameSeq
<1>7. Head(s) = Unit(e, k + 1)
  <2>1. 1 \in 1 .. n
    OBVIOUS
  <2> QED BY <1>2, <1>4, <2>1
<1> QED BY <1>3, <1>6, <1>7 DEF s, t

\* t is f followed by the units k + 1 .. k + n of e.
IsFramed(t, f, e, k, n, S) ==
  /\ t \in Seq(S) /\ Len(t) = n + 1
  /\ t[1] = f
  /\ \A i \in 1 .. n : t[i + 1] = Unit(e, k + i)
  /\ \A i \in 2 .. n + 1 : t[i] = Unit(e, k + i - 1)

LEMMA FramedIsSeq ==
  ASSUME NEW f, NEW e, NEW k \in Nat, NEW n \in Nat, NEW S,
         f \in S, \A i \in Nat : Unit(e, i) \in S
  PROVE  IsFramed(Framed(f, e, k, n), f, e, k, n, S)
<1> DEFINE s == Slice(e, k, n)
           a == <<f>>
<1>1. /\ s \in Seq(S) /\ Len(s) = n /\ \A i \in 1 .. n : s[i] = Unit(e, k + i)
  BY SliceIsSeq
<1>2. a \in Seq(S) /\ Len(a) = 1 /\ a[1] = f
  OBVIOUS
<1> HIDE DEF s, a
<1>3. /\ a \o s \in Seq(S) /\ Len(a \o s) = n + 1
      /\ \A i \in 1 .. Len(a) + Len(s) : (a \o s)[i] = IF i <= Len(a) THEN a[i] ELSE s[i - Len(a)]
  <2>1. /\ a \o s \in Seq(S) /\ Len(a \o s) = Len(a) + Len(s)
        /\ \A i \in 1 .. Len(a) + Len(s) : (a \o s)[i] = IF i <= Len(a) THEN a[i] ELSE s[i - Len(a)]
    BY <1>1, <1>2, ConcatProperties
  <2>2. Len(a) + Len(s) = n + 1
    BY <1>1, <1>2
  <2> QED BY <2>1, <2>2
<1>4. \A i \in 1 .. n : (a \o s)[i + 1] = s[i]
  <2> SUFFICES ASSUME NEW i \in 1 .. n PROVE (a \o s)[i + 1] = s[i]
    OBVIOUS
  <2>1. i + 1 \in 1 .. Len(a) + Len(s) /\ ~(i + 1 <= Len(a)) /\ (i + 1) - Len(a) = i
    BY <1>1, <1>2
  <2> QED BY <1>3, <2>1
<1>5. \A i \in 2 .. n + 1 : (a \o s)[i] = Unit(e, k + i - 1)
  <2> SUFFICES ASSUME NEW i \in 2 .. n + 1 PROVE (a \o s)[i] = Unit(e, k + i - 1)
    OBVIOUS
  <2>1. i - 1 \in 1 .. n /\ (i - 1) + 1 = i /\ k + (i - 1) = k + i - 1
    OBVIOUS
  <2> QED BY <1>1, <1>4, <2>1
<1>6. (a \o s)[1] = f
  BY <1>1, <1>2, <1>3
<1> QED BY <1>1, <1>3, <1>4, <1>5, <1>6 DEF IsFramed, Framed, s, a

LEMMA FramedParts ==
  ASSUME NEW f, NEW e, NEW k \in Nat, NEW n \in Nat
  PROVE  /\ Framed(f, e, k, n) # <<>>
         /\ Head(Framed(f, e, k, n)) = f
         /\ Tail(Framed(f, e, k, n)) = Slice(e, k, n)
         /\ Framed(f, e, k, 0) = <<f>>
<1> DEFINE S == {Unit(e, i) : i \in Nat} \cup {f}
           s == Slice(e, k, n)
           t == Framed(f, e, k, n)
<1>1. f \in S /\ \A i \in Nat : Unit(e, i) \in S
  OBVIOUS
<1> HIDE DEF S
<1>2. /\ s \in Seq(S) /\ Len(s) = n /\ \A i \in 1 .. n : s[i] = Unit(e, k + i)
      /\ t \in Seq(S) /\ Len(t) = n + 1 /\ t[1] = f
      /\ \A i \in 1 .. n : t[i + 1] = Unit(e, k + i)
  <2>1. s \in Seq(S) /\ Len(s) = n /\ \A i \in 1 .. n : s[i] = Unit(e, k + i)
    BY <1>1, SliceIsSeq
  <2>2. IsFramed(t, f, e, k, n, S)
    BY <1>1, FramedIsSeq
  <2> HIDE DEF s, t
  <2> QED BY <2>1, <2>2 DEF IsFramed
<1>3. Framed(f, e, k, 0) = <<f>>
  <2> DEFINE a == <<f>>
  <2>1. a \in Seq(S)
    BY <1>1
  <2> HIDE DEF a
  <2>2. a \o <<>> = a
    BY <2>1, ConcatEmptySeq
  <2>3. Framed(f, e, k, 0) = a \o <<>>
    BY EmptySlice DEF Framed, a
  <2> QED BY <2>2, <2>3 DEF a
<1> HIDE DEF s, t
<1>4. t # <<>>
  BY <1>2, EmptySeq
<1>5. /\ Head(t) = t[1] /\ Tail(t) \in Seq(S) /\ Len(Tail(t)) = n
      /\ \A i \in 1 .. n : Tail(t)[i] = t[i + 1]
  BY <1>2, <1>4, HeadTailProperties
<1>6. Tail(t) = s
  BY <1>2, <1>5, SameSeq
<1> QED BY <1>2, <1>3, <1>4, <1>5, <1>6 DEF s, t

LEMMA FramedGrows ==
  ASSUME NEW f, NEW e, NEW k \in Nat, NEW n \in Nat
  PROVE  Append(Framed(f, e, k, n), Unit(e, k + n + 1)) = Framed(f, e, k, n + 1)
<1> DEFINE S == {Unit(e, i) : i \in Nat} \cup {f}
           x == Unit(e, k + n + 1)
           s == Framed(f, e, k, n)
           t == Framed(f, e, k, n + 1)
<1>1. x \in S /\ f \in S /\ (\A i \in Nat : Unit(e, i) \in S)
  OBVIOUS
<1> HIDE DEF S
<1>2. /\ s \in Seq(S) /\ Len(s) = n + 1 /\ s[1] = f
      /\ \A i \in 2 .. n + 1 : s[i] = Unit(e, k + i - 1)
      /\ t \in Seq(S) /\ Len(t) = n + 2 /\ t[1] = f
      /\ \A i \in 2 .. n + 2 : t[i] = Unit(e, k + i - 1)
  <2>1. n + 1 \in Nat /\ (n + 1) + 1 = n + 2
    OBVIOUS
  <2>2. IsFramed(s, f, e, k, n, S)
    BY <1>1, FramedIsSeq
  <2>3. IsFramed(t, f, e, k, n + 1, S)
    BY <1>1, <2>1, FramedIsSeq
  <2> HIDE DEF s, t
  <2> QED BY <2>1, <2>2, <2>3 DEF IsFramed
<1> HIDE DEF s, t, x
<1>3. /\ Append(s, x) \in Seq(S) /\ Len(Append(s, x)) = n + 2
      /\ \A i \in 1 .. n + 1 : Append(s, x)[i] = s[i]
      /\ Append(s, x)[n + 2] = x
  BY <1>1, <1>2, AppendProperties
<1>4. \A i \in 1 .. n + 2 : Append(s, x)[i] = t[i]
  <2> SUFFICES ASSUME NEW i \in 1 .. n + 2 PROVE Append(s, x)[i] = t[i]
    OBVIOUS
  <2>1. CASE i = n + 2
    <3>1. k + (n + 2) - 1 = k + n + 1 /\ n + 2 \in 2 .. n + 2
      OBVIOUS
    <3> QED BY <1>2, <1>3, <2>1, <3>1 DEF x
  <2>2. CASE i = 1
    BY <1>2, <1>3, <2>2
  <2>3. CASE i \in 2 .. n + 1
    BY <1>2, <1>3, <2>3
  <2>4. i = n + 2 \/ i = 1 \/ i \in 2 .. n + 1
    OBVIOUS
  <2> QED BY <2>1, <2>2, <2>3, <2>4
<1> QED BY <1>2, <1>3, <1>4, SameSeq DEF s, t, x

\* What is left of a sequence when a connection breaks.
LEMMA SlicePrefix ==
  ASSUME NEW e, NEW k \in Nat, NEW n \in Nat, NEW j \in 0 .. n
  PROVE  SubSeq(Slice(e, k, n), 1, j) = Slice(e, k, j)
<1> DEFINE S == {Unit(e, i) : i \in Nat}
           s == Slice(e, k, n)
           t == Slice(e, k, j)
<1>1. \A i \in Nat : Unit(e, i) \in S
  OBVIOUS
<1> HIDE DEF S
<1>2. /\ s \in Seq(S) /\ Len(s) = n /\ \A i \in 1 .. n : s[i] = Unit(e, k + i)
      /\ t \in Seq(S) /\ Len(t) = j /\ \A i \in 1 .. j : t[i] = Unit(e, k + i)
  <2>1. s \in Seq(S) /\ Len(s) = n /\ \A i \in 1 .. n : s[i] = Unit(e, k + i)
    BY <1>1, SliceIsSeq
  <2>2. t \in Seq(S) /\ Len(t) = j /\ \A i \in 1 .. j : t[i] = Unit(e, k + i)
    <3>1. j \in Nat
      OBVIOUS
    <3> QED BY <1>1, <3>1, SliceIsSeq
  <2> QED BY <2>1, <2>2
<1> HIDE DEF s, t
<1>3. /\ SubSeq(s, 1, j) \in Seq(S) /\ Len(SubSeq(s, 1, j)) = j
      /\ \A i \in 1 .. j : SubSeq(s, 1, j)[i] = s[i]
  BY <1>2
<1>4. \A i \in 1 .. j : SubSeq(s, 1, j)[i] = t[i]
  BY <1>2, <1>3
<1> QED BY <1>2, <1>3, <1>4, SameSeq DEF s, t

LEMMA FramedPrefix ==
  ASSUME NEW f, NEW e, NEW k \in Nat, NEW n \in Nat, NEW j \in 0 .. n + 1
  PROVE  SubSeq(Framed(f, e, k, n), 1, j) = IF j = 0 THEN <<>> ELSE Framed(f, e, k, j - 1)
<1> DEFINE S == {Unit(e, i) : i \in Nat} \cup {f}
           s == Framed(f, e, k, n)
           t == Framed(f, e, k, j - 1)
<1>1. f \in S /\ \A i \in Nat : Unit(e, i) \in S
  OBVIOUS
<1> HIDE DEF S
<1>2. /\ s \in Seq(S) /\ Len(s) = n + 1 /\ s[1] = f
      /\ \A i \in 2 .. n + 1 : s[i] = Unit(e, k + i - 1)
  <2>1. IsFramed(s, f, e, k, n, S)
    BY <1>1, FramedIsSeq
  <2> HIDE DEF s
  <2> QED BY <2>1 DEF IsFramed
<1>3. j # 0 =>
      /\ t \in Seq(S) /\ Len(t) = j /\ t[1] = f
      /\ \A i \in 2 .. j : t[i] = Unit(e, k + i - 1)
  <2> SUFFICES ASSUME j # 0
               PROVE  /\ t \in Seq(S) /\ Len(t) = j /\ t[1] = f
                      /\ \A i \in 2 .. j : t[i] = Unit(e, k + i - 1)
    OBVIOUS
  <2>1. j - 1 \in Nat /\ (j - 1) + 1 = j
    OBVIOUS
  <2>2. IsFramed(t, f, e, k, j - 1, S)
    BY <1>1, <2>1, FramedIsSeq
  <2> HIDE DEF t
  <2> QED BY <2>1, <2>2 DEF IsFramed
<1> HIDE DEF s, t
<1>4. /\ SubSeq(s, 1, j) \in Seq(S) /\ Len(SubSeq(s, 1, j)) = j
      /\ \A i \in 1 .. j : SubSeq(s, 1, j)[i] = s[i]
  BY <1>2
<1>5. CASE j = 0
  BY <1>4, <1>5, EmptySeq DEF s
<1>6. CASE j # 0
  <2>1. \A i \in 1 .. j : SubSeq(s, 1, j)[i] = t[i]
    <3> SUFFICES ASSUME NEW i \in 1 .. j PROVE SubSeq(s, 1, j)[i] = t[i]
      OBVIOUS
    <3>1. CASE i = 1
      BY <1>2, <1>3, <1>4, <1>6, <3>1
    <3>2. CASE i \in 2 .. j
      <4>1. i \in 2 .. n + 1
        BY <3>2
      <4> QED BY <1>2, <1>3, <1>4, <1>6, <3>2, <4>1
    <3> QED BY <3>1, <3>2
  <2> QED BY <1>3, <1>4, <1>6, <2>1, SameSeq DEF s, t
<1> QED BY <1>5, <1>6

---------------------------------------------------------------------------
(* Exchanges *)

Using == {"send", "send_body", "read", "headers", "copy"}
Ask(m, e) == <<"frame", m, e>>
Reply(s, n) == <<"frame", s, n>>

\* The fields of a connection are always the same.
IsWire(w) == w = [open |-> w.open, down |-> w.down, up |-> w.up] /\ w.open \in BOOLEAN

Wired ==
  /\ \A c \in DOMAIN rlConn : IsWire(rlConn[c])
  /\ rlWorker = [conn |-> rlWorker.conn, body |-> rlWorker.body]
  /\ rlWorker.conn \in 0 .. Len(rlConn)
  /\ rlWorker.conn = None => rlWorker.body = NoBody
  /\ rlFile = [e \in ExpertFiles |-> rlFile[e]]
  /\ \A h \in Handlers :
        /\ Req(h).method \in {"GET", "HEAD", "PUT"} /\ Req(h).expert \in ExpertFiles
        /\ Req(h).unread \in 0 .. BodyUnits

\* Only one connection is open at a time: the current one, which is the worker's.
OnlyCurrentOpen ==
  \A c \in DOMAIN rlConn : rlConn[c].open => rlSock.sock = c /\ rlWorker.conn = c

\* Nothing is on its way over connection w to the worker, which has body b in hand ...
Drained(w, b) == w.down = <<>> /\ b = NoBody

\* ... nor back.
Quiet(w, b) == Drained(w, b) /\ w.up = <<>>

\* A PUT of expert e of whose body n units were sent, those that follow the first k.
Arriving(w, b, e, k, n) ==
  \/ b = NoBody /\ w.down = Framed(Ask("PUT", e), e, k, n)
  \/ \E g \in 0 .. n : b = [expert |-> e, got |-> Slice(e, k, g)] /\ w.down = Slice(e, k + g, n - g)

\* What may have come back of the answer to a GET or HEAD.
CameBack(r) ==
  {<<>>, <<Reply(404, 0)>>, <<Reply(502, 0)>>}
    \cup (IF r.method = "HEAD" THEN {<<Reply(200, 0)>>}
          ELSE {Framed(Reply(200, BodyUnits), r.expert, 0, m) : m \in 0 .. BodyUnits})

PutPhase(r, w, b, f) ==
  /\ r.need \in 0 .. BodyUnits /\ r.unread \in 0 .. r.need
  /\ r.pc = "read" => r.need = 0
  /\ \/ /\ w.up = <<>>
        /\ w.open => Arriving(w, b, r.expert, r.need - r.unread, BodyUnits - r.need)
     \/ /\ r.need = 0
        /\ \/ w.up = <<Reply(201, 0)>> /\ f[r.expert] = Body(r.expert)
           \/ w.up = <<Reply(502, 0)>>
        /\ w.open => Drained(w, b)

GetPhase(r, w, b) ==
  /\ w.up \in CameBack(r)
  /\ w.open => \/ Drained(w, b)
               \/ b = NoBody /\ w.down = <<Ask(r.method, r.expert)>> /\ w.up = <<>>

CopyPhase(r, w, b) ==
  /\ w.open => Drained(w, b)
  /\ r.need \in 0 .. BodyUnits
  /\ \E m \in 0 .. r.need : w.up = Slice(r.expert, BodyUnits - r.need, m)
  /\ r.method # "GET" => r.need = 0

\* How far an exchange is: the handler's side r and the connection w agree.
Phase(r, w, b, f) ==
  /\ r.pc = "send" => (w.open => Quiet(w, b))
  /\ r.pc \in {"send_body", "read"} /\ r.method = "PUT" => PutPhase(r, w, b, f)
  /\ r.pc = "read" /\ r.method # "PUT" => GetPhase(r, w, b)
  /\ r.pc \in {"headers", "copy"} => CopyPhase(r, w, b)

Sensible(r) == (r.pc # "send" => r.worker # None) /\ (r.pc = "send_body" => r.method = "PUT")

Exchanges ==
  \A h \in Handlers : Req(h).pc \in Using =>
     /\ Sensible(Req(h))
     /\ Req(h).worker # None
          => Phase(Req(h), rlConn[Req(h).worker], rlWorker.body, rlFile)

\* Between two exchanges nothing is on its way.
Between ==
  \A c \in DOMAIN rlConn :
     rlConn[c].open /\ (\A h \in Handlers : ~Uses(h, c)) => Quiet(rlConn[c], rlWorker.body)

\* What the worker finds, also on a connection that is closed at the other end.
Stream(w, b) ==
  \/ Drained(w, b)
  \/ \E e \in ExpertFiles, m \in {"GET", "HEAD"} : b = NoBody /\ w.down = <<Ask(m, e)>>
  \/ \E e \in ExpertFiles, k \in Nat, n \in Nat :
        k + n <= BodyUnits /\ Arriving(w, b, e, k, n)

Streams == rlWorker.conn # None => Stream(rlConn[rlWorker.conn], rlWorker.body)

\* What has been answered so far.
GoodAnswer(r, f) ==
  /\ r.pc \in {"enter", "wait", "send", "send_body", "read"} => r.answer = <<>>
  /\ r.pc \in {"headers", "copy"} =>
       /\ r.method = "GET" => \/ r.answer = Framed(200, r.expert, 0, BodyUnits - r.need)
                              \/ r.answer \in {<<404>>, <<502>>} /\ r.need = 0
       /\ r.method = "HEAD" => r.answer \in {<<200>>, <<404>>, <<502>>}
       /\ r.method = "PUT" => \/ r.answer = <<502>>
                              \/ r.answer = <<201>> /\ f[r.expert] = Body(r.expert)
  /\ r.pc = "done" =>
       /\ r.method = "GET" => r.answer \in {<<404>>, <<502>>, <<200>> \o Body(r.expert)}
       /\ r.method = "HEAD" => r.answer \in {<<200>>, <<404>>, <<502>>}
       /\ r.method = "PUT" => \/ r.answer = <<502>>
                              \/ r.answer = <<201>> /\ f[r.expert] = Body(r.expert)

Answered == \A h \in Handlers : ~Req(h).gone => GoodAnswer(Req(h), rlFile)

StoredWhole == \A e \in ExpertFiles : rlFile[e] \in {<<>>, Body(e)}

Exact == Exchanges /\ Between /\ Streams /\ Answered /\ StoredWhole

ExactInv == RelayInv /\ (~rlDesync => Wired /\ OnlyCurrentOpen /\ Exact)

---------------------------------------------------------------------------
(* One handler moves *)

\* The step is one of handler h: it changes its own record and its own connection.
HandlerMoves(h) ==
  LET c == Req(h).worker IN
  /\ \A k \in Handlers \ {h} : rlReq'[k] = rlReq[k]
  /\ rlReq'[h].worker = c /\ rlReq'[h].method = Req(h).method
  /\ rlReq'[h].expert = Req(h).expert /\ rlReq'[h].unread \in 0 .. BodyUnits
  /\ DOMAIN rlConn' = DOMAIN rlConn
  /\ \A d \in DOMAIN rlConn : d # c => rlConn'[d] = rlConn[d]
  /\ c # None => IsWire(rlConn'[c]) /\ (rlConn'[c].open => rlConn[c].open)
  /\ \/ rlSock'.sock = rlSock.sock
     \/ rlSock.sock = c /\ (c # None => ~rlConn'[c].open)
  /\ rlWorker' = rlWorker /\ rlFile' = rlFile

LEMMA SameLength ==
  ASSUME RelayInv, RelayInv', DOMAIN rlConn' = DOMAIN rlConn
  PROVE  Len(rlConn') = Len(rlConn)
<1>1. /\ Len(rlConn) \in Nat /\ DOMAIN rlConn = 1 .. Len(rlConn)
      /\ Len(rlConn') \in Nat /\ DOMAIN rlConn' = 1 .. Len(rlConn')
  BY ConnNumbers DEF RelayInv, Connections
<1>2. \A a, b \in Nat : 1 .. a = 1 .. b => a = b
  <2> SUFFICES ASSUME NEW a \in Nat, NEW b \in Nat, 1 .. a = 1 .. b, a < b PROVE FALSE
    OBVIOUS
  <2>1. b \in 1 .. b /\ b \notin 1 .. a
    OBVIOUS
  <2> QED BY <2>1
<1> QED BY <1>1, <1>2

LEMMA WorkerOfHandler ==
  ASSUME RelayInv, NEW h \in Handlers
  PROVE  Req(h).worker # None => Req(h).worker \in DOMAIN rlConn
  BY ConnNumbers DEF RelayInv, ConnectionNumbers, None

LEMMA HandlerWired ==
  ASSUME RelayInv, RelayInv', Wired, OnlyCurrentOpen, NEW h \in Handlers, HandlerMoves(h)
  PROVE  Wired' /\ OnlyCurrentOpen'
<1> DEFINE c == Req(h).worker
<1>0. Len(rlConn') = Len(rlConn)
  BY SameLength DEF HandlerMoves
<1>1. \A d \in DOMAIN rlConn : IsWire(rlConn'[d]) /\ (rlConn'[d].open => rlConn[d].open)
  <2> SUFFICES ASSUME NEW d \in DOMAIN rlConn
               PROVE  IsWire(rlConn'[d]) /\ (rlConn'[d].open => rlConn[d].open)
    OBVIOUS
  <2>1. CASE d # c
    BY <2>1 DEF HandlerMoves, Wired
  <2>2. CASE d = c
    <3>1. d # None
      BY ConnNumbers DEF RelayInv, None
    <3> QED BY <2>2, <3>1 DEF HandlerMoves
  <2> QED BY <2>1, <2>2
<1>2. \A k \in Handlers :
         /\ rlReq'[k].method \in {"GET", "HEAD", "PUT"} /\ rlReq'[k].expert \in ExpertFiles
         /\ rlReq'[k].unread \in 0 .. BodyUnits
  BY DEF HandlerMoves, Wired, Req
<1>3. Wired'
  BY <1>0, <1>1, <1>2 DEF Wired, HandlerMoves, Req
<1>4. OnlyCurrentOpen'
  <2> SUFFICES ASSUME NEW d \in DOMAIN rlConn, rlConn'[d].open
               PROVE  rlSock'.sock = d /\ rlWorker'.conn = d
    BY DEF OnlyCurrentOpen, HandlerMoves
  <2>1. rlSock.sock = d /\ rlWorker.conn = d
    BY <1>1 DEF OnlyCurrentOpen
  <2>2. d # None
    BY ConnNumbers DEF RelayInv, None
  <2> QED BY <2>1, <2>2 DEF HandlerMoves
<1> QED BY <1>3, <1>4

HandlerKeepsTrack(h) ==
  LET c == Req(h).worker
      b == rlWorker.body
  IN
  /\ Req(h).pc \notin Using => rlConn' = rlConn
  /\ rlReq'[h].pc \in Using =>
       /\ Req(h).pc \in Using
       /\ Sensible(rlReq'[h])
       /\ c # None => Phase(rlReq'[h], rlConn'[c], b, rlFile)
  /\ rlReq'[h].pc \notin Using /\ Req(h).pc \in Using /\ c # None =>
       (rlConn'[c].open => Quiet(rlConn'[c], b))
  /\ c # None /\ rlWorker.conn = c => Stream(rlConn'[c], b)
  /\ ~rlReq'[h].gone => GoodAnswer(rlReq'[h], rlFile)

LEMMA HandlerExact ==
  ASSUME RelayInv, Wired, OnlyCurrentOpen, Exact, NEW h \in Handlers, HandlerMoves(h),
         HandlerKeepsTrack(h)
  PROVE  Exact'
<1> DEFINE c == Req(h).worker
<1>0. rlWorker' = rlWorker /\ rlFile' = rlFile /\ DOMAIN rlConn' = DOMAIN rlConn
  BY DEF HandlerMoves
<1>1. Exchanges'
  <2> SUFFICES ASSUME NEW k \in Handlers, rlReq'[k].pc \in Using
               PROVE  /\ Sensible(rlReq'[k])
                      /\ rlReq'[k].worker # None
                           => Phase(rlReq'[k], rlConn'[rlReq'[k].worker], rlWorker.body, rlFile)
    BY <1>0 DEF Exchanges, Req
  <2>1. CASE k = h
    BY <2>1 DEF HandlerMoves, HandlerKeepsTrack
  <2>2. CASE k # h
    <3>1. rlReq'[k] = Req(k)
      BY <2>2 DEF HandlerMoves, Req
    <3>2. Sensible(Req(k))
      BY <3>1 DEF Exact, Exchanges
    <3>3. ASSUME Req(k).worker # None
          PROVE  rlConn'[Req(k).worker] = rlConn[Req(k).worker]
      <4>1. Req(k).worker \in DOMAIN rlConn
        BY <3>3, WorkerOfHandler
      <4>2. CASE Req(k).worker # c
        BY <4>1, <4>2 DEF HandlerMoves
      <4>3. CASE Req(k).worker = c /\ Req(h).pc \in Using
        <5>1. Uses(h, c) /\ Uses(k, c)
          BY <3>1, <4>3 DEF Uses, Using
        <5> QED BY <2>2, <4>1, <4>3, <5>1 DEF RelayInv, ConnectionExclusive
      <4>4. CASE Req(h).pc \notin Using
        BY <4>4 DEF HandlerKeepsTrack
      <4> QED BY <4>2, <4>3, <4>4
    <3> QED BY <3>1, <3>2, <3>3 DEF Exact, Exchanges
  <2> QED BY <2>1, <2>2
<1>2. Between'
  <2> SUFFICES ASSUME NEW d \in DOMAIN rlConn, rlConn'[d].open,
                      \A k \in Handlers : ~(rlReq'[k].pc \in Using /\ rlReq'[k].worker = d)
               PROVE  Quiet(rlConn'[d], rlWorker.body)
    BY <1>0 DEF Between, Uses, Using, Req
  <2>0. d # None
    BY ConnNumbers DEF RelayInv, None
  <2>1. \A k \in Handlers \ {h} : ~Uses(k, d)
    BY DEF HandlerMoves, Uses, Using, Req
  <2>2. CASE rlConn'[d] = rlConn[d] /\ ~Uses(h, d)
    BY <2>1, <2>2 DEF Exact, Between
  <2>3. CASE d # c
    BY <2>2, <2>3 DEF HandlerMoves, Uses
  <2>4. CASE d = c
    <3>1. rlReq'[h].pc \notin Using
      BY <2>4 DEF HandlerMoves
    <3>2. CASE Req(h).pc \in Using
      BY <2>0, <2>4, <3>1, <3>2 DEF HandlerKeepsTrack
    <3>3. CASE Req(h).pc \notin Using
      BY <2>2, <3>3 DEF HandlerKeepsTrack, Uses, Using
    <3> QED BY <3>2, <3>3
  <2> QED BY <2>3, <2>4
<1>3. Streams'
  <2> SUFFICES ASSUME rlWorker.conn # None PROVE Stream(rlConn'[rlWorker.conn], rlWorker.body)
    BY <1>0 DEF Streams
  <2>1. rlWorker.conn \in DOMAIN rlConn
    BY ConnNumbers DEF RelayInv, Wired, None
  <2>2. CASE rlWorker.conn = c
    BY <2>2 DEF HandlerKeepsTrack
  <2>3. CASE rlWorker.conn # c
    BY <2>1, <2>3 DEF HandlerMoves, Exact, Streams
  <2> QED BY <2>2, <2>3
<1>4. Answered'
  BY <1>0 DEF Exact, Answered, HandlerMoves, HandlerKeepsTrack, Req
<1> QED BY <1>0, <1>1, <1>2, <1>3, <1>4 DEF Exact, StoredWhole

---------------------------------------------------------------------------
(* The steps that change no queue, and failed attempts *)

\* A failed attempt leaves the request what it was.
LEMMA FieldsOfRetried ==
  ASSUME RelayInv, NEW h \in Handlers
  PROVE  LET r == Req(h)
             q == Retried(h)
         IN  /\ q.worker = r.worker /\ q.method = r.method /\ q.expert = r.expert
             /\ q.unread = r.unread /\ q.gone = r.gone
             /\ \/ q.pc = "enter" /\ q.answer = r.answer
                \/ q.pc = "done" /\ q.answer = Append(r.answer, 502)
  <1> DEFINE r == Req(h)
             a == r.attempt + 1
             w == Append(r.answer, 502)
             again1 == [r EXCEPT !.pc = "enter"]
             again == [again1 EXCEPT !.attempt = a]
             over1 == [r EXCEPT !.pc = "done"]
             over == [over1 EXCEPT !.answer = w]
  <1>1. Retried(h) = IF r.attempt < MaxAttempts THEN again ELSE over
    BY DEF Retried
  <1>2. IsRequest(r)
    BY DEF RelayInv, ConnectionNumbers
  <1> HIDE DEF a, w, r
  <1>3. /\ IsRequest(again1) /\ again1.worker = r.worker /\ again1.pc = "enter"
        /\ again1.method = r.method /\ again1.expert = r.expert /\ again1.unread = r.unread
        /\ again1.gone = r.gone /\ again1.answer = r.answer
        /\ IsRequest(over1) /\ over1.worker = r.worker /\ over1.pc = "done"
        /\ over1.method = r.method /\ over1.expert = r.expert /\ over1.unread = r.unread
        /\ over1.gone = r.gone
    BY <1>2 DEF IsRequest
  <1> HIDE DEF again1, over1
  <1>4. /\ again.worker = r.worker /\ again.pc = "enter"
        /\ again.method = r.method /\ again.expert = r.expert /\ again.unread = r.unread
        /\ again.gone = r.gone /\ again.answer = r.answer
        /\ over.worker = r.worker /\ over.pc = "done"
        /\ over.method = r.method /\ over.expert = r.expert /\ over.unread = r.unread
        /\ over.gone = r.gone /\ over.answer = w
    BY <1>3 DEF IsRequest
  <1> QED BY <1>1, <1>4 DEF r, w

LEMMA OneRequestChanges ==
  ASSUME RelayInv, NEW h \in Handlers, NEW q, rlReq' = [rlReq EXCEPT ![h] = q]
  PROVE  rlReq'[h] = q /\ \A k \in Handlers \ {h} : rlReq'[k] = rlReq[k]
  BY DEF RelayInv, ConnectionNumbers

\* A step of a handler that leaves its connection alone.
LEMMA QueuesKept ==
  ASSUME RelayInv, Wired, NEW h \in Handlers, NEW q, rlReq' = [rlReq EXCEPT ![h] = q],
         q.worker = Req(h).worker, q.method = Req(h).method, q.expert = Req(h).expert,
         q.unread \in 0 .. BodyUnits,
         rlConn' = rlConn, rlSock'.sock = rlSock.sock, rlWorker' = rlWorker, rlFile' = rlFile
  PROVE  HandlerMoves(h)
<1>1. rlReq'[h] = q /\ \A k \in Handlers \ {h} : rlReq'[k] = rlReq[k]
  BY OneRequestChanges
<1>2. Req(h).worker # None => IsWire(rlConn[Req(h).worker])
  BY WorkerOfHandler DEF Wired
<1> QED BY <1>1, <1>2 DEF HandlerMoves

\* A step that changes one of its queues.
LEMMA QueueChanged ==
  ASSUME RelayInv, Wired, NEW h \in Handlers, NEW q, rlReq' = [rlReq EXCEPT ![h] = q],
         q.worker = Req(h).worker, q.method = Req(h).method, q.expert = Req(h).expert,
         q.unread \in 0 .. BodyUnits,
         NEW w, rlConn' = [rlConn EXCEPT ![Req(h).worker] = w], Req(h).worker # None,
         IsWire(w), w.open = rlConn[Req(h).worker].open,
         rlSock'.sock = rlSock.sock, rlWorker' = rlWorker, rlFile' = rlFile
  PROVE  HandlerMoves(h) /\ rlConn'[Req(h).worker] = w
<1>1. rlReq'[h] = q /\ \A k \in Handlers \ {h} : rlReq'[k] = rlReq[k]
  BY OneRequestChanges
<1>2. rlConn = [i \in DOMAIN rlConn |-> rlConn[i]]
  BY DEF RelayInv, Connections
<1>3. /\ rlConn'[Req(h).worker] = w /\ DOMAIN rlConn' = DOMAIN rlConn
      /\ \A d \in DOMAIN rlConn : d # Req(h).worker => rlConn'[d] = rlConn[d]
  BY <1>2, WorkerOfHandler
<1> QED BY <1>1, <1>3 DEF HandlerMoves

LEMMA ReleasedSame ==
  ASSUME RelayInv, NEW c, ReleaseSock(c)
  PROVE  rlSock'.sock = rlSock.sock
  BY DEF RelayInv, ConnectionNumbers, ReleaseSock

LEMMA Dropped ==
  ASSUME RelayInv, Wired, NEW h \in Handlers, DropSock(Req(h).worker)
  PROVE  LET c == Req(h).worker IN
         /\ DOMAIN rlConn' = DOMAIN rlConn
         /\ \A d \in DOMAIN rlConn : d # c => rlConn'[d] = rlConn[d]
         /\ c # None => /\ IsWire(rlConn'[c]) /\ ~rlConn'[c].open
                        /\ rlConn'[c].down = rlConn[c].down
         /\ rlSock'.sock = rlSock.sock \/ rlSock.sock = c
<1> DEFINE c == Req(h).worker
           w == [rlConn[c] EXCEPT !.open = FALSE]
<1>1. CASE c = None
  BY <1>1 DEF DropSock
<1>2. CASE c # None
  <2>1. rlConn' = [rlConn EXCEPT ![c] = w] /\ c \in DOMAIN rlConn
    BY <1>2, WorkerOfHandler DEF DropSock
  <2>2. IsWire(rlConn[c])
    BY <2>1 DEF Wired
  <2>3. IsWire(w) /\ ~w.open /\ w.down = rlConn[c].down
    <3> DEFINE v == rlConn[c]
               closed == FALSE
    <3>0. w = [v EXCEPT !.open = closed] /\ closed \in BOOLEAN /\ ~closed
      OBVIOUS
    <3> HIDE DEF v, w, closed
    <3>1. v = [open |-> v.open, down |-> v.down, up |-> v.up]
      BY <2>2 DEF IsWire, v
    <3>2. w = [open |-> closed, down |-> v.down, up |-> v.up]
      BY <3>0, <3>1
    <3>3. w.open = closed /\ w.down = v.down /\ w.up = v.up
      BY <3>2
    <3> QED BY <3>0, <3>2, <3>3 DEF IsWire, v
  <2> HIDE DEF w
  <2>4. rlConn'[c] = w /\ DOMAIN rlConn' = DOMAIN rlConn
        /\ \A d \in DOMAIN rlConn : d # c => rlConn'[d] = rlConn[d]
    BY <2>1 DEF RelayInv, Connections
  <2> QED BY <1>2, <2>3, <2>4 DEF DropSock
<1> QED BY <1>1, <1>2

LEMMA StreamOfHandler ==
  ASSUME RelayInv, Wired, Exact, NEW c, c # None, rlWorker.conn = c, NEW w, w.down = rlConn[c].down
  PROVE  Stream(w, rlWorker.body)
  BY DEF Exact, Streams, Stream, Drained, Arriving

\* The attempt is over: nothing was answered, and the connection is closed, by this
\* step or before.
LEMMA AttemptEnds ==
  ASSUME RelayInv, Wired, NEW h \in Handlers,
         rlReq' = [rlReq EXCEPT ![h] = Retried(h)],
         \/ rlConn' = rlConn /\ ReleaseSock(Req(h).worker)
         \/ DropSock(Req(h).worker) /\ Req(h).pc \in Using,
         rlWorker' = rlWorker, rlFile' = rlFile
  PROVE  /\ HandlerMoves(h)
         /\ /\ Exact
            /\ Req(h).pc \in Using =>
                 ~IsOpen(Req(h).worker) \/ DropSock(Req(h).worker)
            /\ ~Req(h).gone => Req(h).answer = <<>>
            => HandlerKeepsTrack(h)
<1> DEFINE c == Req(h).worker
           q == Retried(h)
<1>1. /\ q.worker = c /\ q.method = Req(h).method /\ q.expert = Req(h).expert
      /\ q.unread = Req(h).unread /\ q.gone = Req(h).gone
      /\ \/ q.pc = "enter" /\ q.answer = Req(h).answer
         \/ q.pc = "done" /\ q.answer = Append(Req(h).answer, 502)
  BY FieldsOfRetried
<1> HIDE DEF q
<1>2. rlReq'[h] = q /\ \A k \in Handlers \ {h} : rlReq'[k] = rlReq[k]
  BY OneRequestChanges DEF q
<1>3. HandlerMoves(h)
  <2>1. CASE rlConn' = rlConn /\ ReleaseSock(c)
    BY <1>1, <2>1, QueuesKept, ReleasedSame DEF Wired, q
  <2>2. CASE DropSock(c)
    BY <1>1, <1>2, <2>2, Dropped DEF HandlerMoves, Wired
  <2> QED BY <2>1, <2>2
<1>4. ASSUME Exact,
             Req(h).pc \in Using => ~IsOpen(c) \/ DropSock(c),
             ~Req(h).gone => Req(h).answer = <<>>
      PROVE  HandlerKeepsTrack(h)
  <2>1. Req(h).pc \notin Using => rlConn' = rlConn
    OBVIOUS
  <2>2. q.pc \notin Using
    BY <1>1 DEF Using
  <2>3. c # None => rlConn'[c].down = rlConn[c].down
    BY Dropped
  <2>4. Req(h).pc \in Using /\ c # None => ~rlConn'[c].open
    BY <1>4, Dropped DEF IsOpen
  <2>5. c # None /\ rlWorker.conn = c => Stream(rlConn'[c], rlWorker.body)
    BY <1>4, <2>3, StreamOfHandler
  <2>6. ~q.gone => GoodAnswer(q, rlFile)
    <3> SUFFICES ASSUME ~q.gone PROVE GoodAnswer(q, rlFile)
      OBVIOUS
    <3>1. \/ q.pc = "enter" /\ q.answer = <<>>
          \/ q.pc = "done" /\ q.answer = Append(<<>>, 502)
      BY <1>1, <1>4
    <3>2. Append(<<>>, 502) = <<502>>
      OBVIOUS
    <3> QED BY <3>1, <3>2 DEF GoodAnswer
  <2> QED BY <1>2, <2>1, <2>2, <2>4, <2>5, <2>6 DEF HandlerKeepsTrack
<1> QED BY <1>3, <1>4

---------------------------------------------------------------------------
(* The steps that only change where a handler stands *)

LEMMA EnterTrack ==
  ASSUME RelayInv, Wired, NEW h \in Handlers, EnterRequest(h)
  PROVE  HandlerMoves(h) /\ (Exact => HandlerKeepsTrack(h))
<1> DEFINE r == Req(h)
           q == [r EXCEPT !.pc = "wait"]
<1>1. rlReq' = [rlReq EXCEPT ![h] = q] /\ rlConn' = rlConn /\ rlSock' = rlSock
      /\ rlWorker' = rlWorker /\ rlFile' = rlFile /\ r.pc = "enter"
  BY DEF EnterRequest, RqGoto, RqAt, Req
<1>2. /\ q.worker = r.worker /\ q.method = r.method /\ q.expert = r.expert
      /\ q.unread = r.unread /\ q.gone = r.gone /\ q.answer = r.answer /\ q.pc = "wait"
  BY DEF RelayInv, ConnectionNumbers, IsRequest
<1> HIDE DEF q
<1>3. HandlerMoves(h)
  BY <1>1, <1>2, QueuesKept DEF Wired
<1>4. rlReq'[h] = q
  BY <1>1, OneRequestChanges
<1>5. Exact => HandlerKeepsTrack(h)
  BY <1>1, <1>2, <1>4, StreamOfHandler
     DEF HandlerKeepsTrack, Using, Exact, Answered, GoodAnswer
<1> QED BY <1>3, <1>5

LEMMA NoWorkerTrack ==
  ASSUME RelayInv, Wired, NEW h \in Handlers, NoWorkerConnected(h)
  PROVE  HandlerMoves(h) /\ (Exact => HandlerKeepsTrack(h))
  BY AttemptEnds DEF NoWorkerConnected, RqAt, Using, Exact, Answered, GoodAnswer

LEMMA SendFailsTrack ==
  ASSUME RelayInv, Wired, NEW h \in Handlers, SendFails(h)
  PROVE  HandlerMoves(h) /\ (Exact => HandlerKeepsTrack(h))
  BY AttemptEnds DEF SendFails, RqAt, Using, Exact, Answered, GoodAnswer

LEMMA GiveBackTrack ==
  ASSUME RelayInv, Wired, NEW h \in Handlers, GiveBackAndRetry(h),
         UNCHANGED <<rlConn, rlWorker, rlFile>>
  PROVE  HandlerMoves(h) /\ (Exact /\ ~rlDesync' => HandlerKeepsTrack(h))
  BY AttemptEnds DEF GiveBackAndRetry

LEMMA ReadFailsTrack ==
  ASSUME RelayInv, Wired, NEW h \in Handlers, ReadFails(h)
  PROVE  HandlerMoves(h) /\ (Exact /\ ~rlDesync' => HandlerKeepsTrack(h))
<1>1. CASE Req(h).method = "PUT"
  BY <1>1, GiveBackTrack DEF ReadFails
<1>2. CASE Req(h).method # "PUT"
  BY <1>2, AttemptEnds DEF ReadFails, RqAt, Using, Exact, Answered, GoodAnswer
<1> QED BY <1>1, <1>2

LEMMA SamePhase ==
  ASSUME NEW r, NEW q, q.pc = r.pc, q.method = r.method, q.expert = r.expert,
         q.unread = r.unread, q.need = r.need, NEW w, NEW b, NEW f, Phase(r, w, b, f)
  PROVE  Phase(q, w, b, f)
  BY DEF Phase, PutPhase, GetPhase, CopyPhase, CameBack

LEMMA GoneTrack ==
  ASSUME RelayInv, Wired, NEW h \in Handlers, ClientGone(h)
  PROVE  HandlerMoves(h) /\ (Exact => HandlerKeepsTrack(h))
<1> DEFINE r == Req(h)
           g == TRUE
           q == [r EXCEPT !.gone = g]
<1>1. rlReq' = [rlReq EXCEPT ![h] = q] /\ rlConn' = rlConn /\ rlSock' = rlSock
      /\ rlWorker' = rlWorker /\ rlFile' = rlFile
  BY DEF ClientGone, Req
<1> HIDE DEF g
<1>2. /\ q.worker = r.worker /\ q.method = r.method /\ q.expert = r.expert
      /\ q.unread = r.unread /\ q.gone = g /\ q.need = r.need /\ q.pc = r.pc
  BY DEF RelayInv, ConnectionNumbers, IsRequest
<1> HIDE DEF q
<1>3. HandlerMoves(h)
  BY <1>1, <1>2, QueuesKept DEF Wired
<1>4. rlReq'[h] = q
  BY <1>1, OneRequestChanges
<1>5. Exact => HandlerKeepsTrack(h)
  <2> SUFFICES ASSUME Exact PROVE HandlerKeepsTrack(h)
    OBVIOUS
  <2>1. r.pc \in Using => Sensible(q)
                       /\ (r.worker # None => Phase(q, rlConn[r.worker], rlWorker.body, rlFile))
    BY <1>2, SamePhase DEF Exact, Exchanges, Sensible
  <2>2. q.gone
    BY <1>2 DEF g
  <2> QED BY <1>1, <1>2, <1>4, <2>1, <2>2, StreamOfHandler DEF HandlerKeepsTrack
<1> QED BY <1>3, <1>5

---------------------------------------------------------------------------
(* A request is sent *)

\* What is stored is a slice like any other.
LEMMA BodyIsSlice ==
  ASSUME NEW e
  PROVE  /\ Body(e) = Slice(e, 0, BodyUnits)
         /\ \A i \in 1 .. BodyUnits : Body(e)[i] = Unit(e, i)
<1>1. \A i \in 1 .. BodyUnits : <<"unit", e, i>> = Unit(e, 0 + i)
  BY RelayAssumption DEF Unit
<1>2. Body(e) = Slice(e, 0, BodyUnits)
  BY <1>1 DEF Body, Slice
<1>3. \A i \in 1 .. BodyUnits : Body(e)[i] = Unit(e, i)
  BY DEF Body, Unit
<1> QED BY <1>2, <1>3

LEMMA InExchange ==
  ASSUME RelayInv, Wired, Exact, NEW h \in Handlers, Req(h).pc \in Using \ {"send"}
  PROVE  /\ Req(h).worker # None /\ Req(h).worker \in DOMAIN rlConn
         /\ IsWire(rlConn[Req(h).worker])
         /\ Sensible(Req(h))
         /\ Phase(Req(h), rlConn[Req(h).worker], rlWorker.body, rlFile)
  BY WorkerOfHandler DEF Exact, Exchanges, Sensible, Wired

LEMMA ArrivingGrows ==
  ASSUME NEW w, NEW v, NEW b, NEW e, NEW k \in Nat, NEW n \in Nat, Arriving(w, b, e, k, n),
         v.down = Append(w.down, Unit(e, k + n + 1))
  PROVE  Arriving(v, b, e, k, n + 1)
<1>1. CASE b = NoBody /\ w.down = Framed(Ask("PUT", e), e, k, n)
  BY <1>1, FramedGrows DEF Arriving
<1>2. ASSUME NEW g \in 0 .. n,
             b = [expert |-> e, got |-> Slice(e, k, g)], w.down = Slice(e, k + g, n - g)
      PROVE  Arriving(v, b, e, k, n + 1)
  <2>1. k + g \in Nat /\ n - g \in Nat /\ (k + g) + (n - g) + 1 = k + n + 1
        /\ (n - g) + 1 = (n + 1) - g /\ g \in 0 .. n + 1
    OBVIOUS
  <2>2. v.down = Slice(e, k + g, (n - g) + 1)
    BY <1>2, <2>1, SliceGrows
  <2>3. v.down = Slice(e, k + g, (n + 1) - g)
    BY <2>1, <2>2
  <2> QED BY <1>2, <2>1, <2>3 DEF Arriving
<1> QED BY <1>1, <1>2 DEF Arriving

LEMMA DownChanged ==
  ASSUME NEW v, IsWire(v), NEW d
  PROVE  LET w == [v EXCEPT !.down = d] IN
         IsWire(w) /\ w.open = v.open /\ w.up = v.up /\ w.down = d
<1> DEFINE w == [v EXCEPT !.down = d]
<1>1. v = [open |-> v.open, down |-> v.down, up |-> v.up]
  BY DEF IsWire
<1>2. w = [open |-> v.open, down |-> d, up |-> v.up]
  BY <1>1
<1> HIDE DEF w
<1>3. w.open = v.open /\ w.up = v.up /\ w.down = d
  BY <1>2
<1>4. IsWire(w)
  BY <1>2, <1>3 DEF IsWire
<1> QED BY <1>3, <1>4 DEF w

LEMMA UpChanged ==
  ASSUME NEW v, IsWire(v), NEW u
  PROVE  LET w == [v EXCEPT !.up = u] IN
         IsWire(w) /\ w.open = v.open /\ w.down = v.down /\ w.up = u
<1> DEFINE w == [v EXCEPT !.up = u]
<1>1. v = [open |-> v.open, down |-> v.down, up |-> v.up]
  BY DEF IsWire
<1>2. w = [open |-> v.open, down |-> v.down, up |-> u]
  BY <1>1
<1> HIDE DEF w
<1>3. w.open = v.open /\ w.down = v.down /\ w.up = u
  BY <1>2
<1>4. IsWire(w)
  BY <1>2, <1>3 DEF IsWire
<1> QED BY <1>3, <1>4 DEF w

LEMMA StreamOfPut ==
  ASSUME NEW w, NEW b, NEW e \in ExpertFiles, NEW k \in Nat, NEW n \in Nat,
         k + n <= BodyUnits, Arriving(w, b, e, k, n)
  PROVE  Stream(w, b)
  BY DEF Stream

LEMMA SendFrameTrack ==
  ASSUME RelayInv, Wired, NEW h \in Handlers, SendFrame(h)
  PROVE  HandlerMoves(h) /\ (Exact => HandlerKeepsTrack(h))
<1> DEFINE r == Req(h)
           c == r.worker
           d == Append(rlConn[c].down, Ask(r.method, r.expert))
           w == [rlConn[c] EXCEPT !.down = d]
           p == IF r.method = "PUT" THEN "send_body" ELSE "read"
           p1 == [r EXCEPT !.pc = p]
           q == [p1 EXCEPT !.need = BodyUnits]
<1>0. c # None /\ c \in DOMAIN rlConn /\ IsWire(rlConn[c]) /\ rlConn[c].open /\ r.pc = "send"
  BY WorkerOfHandler DEF SendFrame, IsOpen, Wired, RqAt, Req
<1>1. /\ rlReq' = [rlReq EXCEPT ![h] = q] /\ rlConn' = [rlConn EXCEPT ![c] = w]
      /\ rlSock' = rlSock /\ rlWorker' = rlWorker /\ rlFile' = rlFile
  BY DEF SendFrame, Req, Ask
<1>2. IsRequest(r)
  BY DEF RelayInv, ConnectionNumbers
<1>3. IsWire(w) /\ w.open = rlConn[c].open /\ w.up = rlConn[c].up /\ w.down = d
  BY <1>0, DownChanged
<1> HIDE DEF p, d, w
<1>4. /\ IsRequest(p1) /\ p1.pc = p /\ p1.worker = c /\ p1.method = r.method
      /\ p1.expert = r.expert /\ p1.unread = r.unread /\ p1.gone = r.gone
      /\ p1.answer = r.answer
  BY <1>2 DEF IsRequest
<1> HIDE DEF p1
<1>5. /\ q.pc = p /\ q.worker = c /\ q.method = r.method
      /\ q.expert = r.expert /\ q.unread = r.unread /\ q.gone = r.gone
      /\ q.answer = r.answer /\ q.need = BodyUnits
  BY <1>4 DEF IsRequest
<1> HIDE DEF q
<1>6. r.unread \in 0 .. BodyUnits /\ r.method \in {"GET", "HEAD", "PUT"} /\ r.expert \in ExpertFiles
  BY DEF Wired
<1>7. HandlerMoves(h) /\ rlConn'[c] = w
  <2> HIDE DEF r
  <2>1. HandlerMoves(h) /\ rlConn'[Req(h).worker] = w
    BY <1>0, <1>1, <1>3, <1>5, <1>6, QueueChanged DEF r
  <2> QED BY <2>1 DEF r
<1>8. rlReq'[h] = q
  BY <1>1, OneRequestChanges
<1>9. ASSUME Exact PROVE HandlerKeepsTrack(h)
  <2> DEFINE b == rlWorker.body
  <2>1. rlConn[c].down = <<>> /\ b = NoBody /\ w.up = <<>>
    BY <1>0, <1>3, <1>9 DEF Exact, Exchanges, Phase, Quiet, Drained, Using
  <2>2. w.down = <<Ask(r.method, r.expert)>>
    <3> DEFINE x == Ask(r.method, r.expert)
    <3> HIDE DEF x
    <3>1. Append(<<>>, x) = <<x>>
      OBVIOUS
    <3> QED BY <1>3, <2>1, <3>1 DEF d, x
  <2> HIDE DEF b
  <2>3. CASE r.method = "PUT"
    <3> DEFINE k == BodyUnits - r.unread
    <3>1. k \in Nat /\ BodyUnits - BodyUnits = 0 /\ k + 0 <= BodyUnits
          /\ BodyUnits \in 0 .. BodyUnits
      BY <1>6, RelayAssumption
    <3> HIDE DEF k
    <3>2. Arriving(w, b, r.expert, k, 0)
      BY <2>1, <2>2, <2>3, <3>1, FramedParts DEF Arriving
    <3>3. PutPhase(q, w, b, rlFile)
      BY <1>5, <1>6, <2>1, <2>3, <3>1, <3>2 DEF PutPhase, k, p
    <3>4. Phase(q, w, b, rlFile) /\ Sensible(q) /\ q.pc \in Using
      BY <1>0, <1>5, <2>3, <3>3 DEF Phase, Sensible, Using, p
    <3>5. Stream(w, b)
      <4>1. 0 \in Nat
        OBVIOUS
      <4> HIDE DEF r, w
      <4> QED BY <1>6, <3>1, <3>2, <4>1, StreamOfPut
    <3>6. ~q.gone => GoodAnswer(q, rlFile)
      BY <1>0, <1>5, <1>9, <2>3 DEF Exact, Answered, GoodAnswer, p
    <3> QED BY <1>0, <1>7, <1>8, <3>4, <3>5, <3>6 DEF HandlerKeepsTrack, Using, b
  <2>4. CASE r.method # "PUT"
    <3>1. GetPhase(q, w, b)
      BY <1>5, <2>1, <2>2 DEF GetPhase, CameBack
    <3>2. Phase(q, w, b, rlFile) /\ Sensible(q) /\ q.pc \in Using
      BY <1>0, <1>5, <2>4, <3>1 DEF Phase, Sensible, Using, p
    <3>3. Stream(w, b)
      BY <1>6, <2>1, <2>2, <2>4 DEF Stream
    <3>4. ~q.gone => GoodAnswer(q, rlFile)
      BY <1>0, <1>5, <1>9, <2>4 DEF Exact, Answered, GoodAnswer, p
    <3> QED BY <1>0, <1>7, <1>8, <3>2, <3>3, <3>4 DEF HandlerKeepsTrack, Using, b
  <2> QED BY <2>3, <2>4
<1> QED BY <1>7, <1>9

LEMMA SendBodyTrack ==
  ASSUME RelayInv, Wired, NEW h \in Handlers, SendBodyUnit(h)
  PROVE  HandlerMoves(h) /\ (Exact => HandlerKeepsTrack(h))
<1> DEFINE r == Req(h)
           c == r.worker
           d == Append(rlConn[c].down, Body(r.expert)[BodyUnits - r.unread + 1])
           w == [rlConn[c] EXCEPT !.down = d]
           n == r.need - 1
           u == r.unread - 1
           p1 == [r EXCEPT !.need = n]
           q == [p1 EXCEPT !.unread = u]
<1>0. /\ c # None /\ c \in DOMAIN rlConn /\ IsWire(rlConn[c]) /\ rlConn[c].open
      /\ r.pc = "send_body" /\ r.need > 0 /\ r.unread > 0
  BY WorkerOfHandler DEF SendBodyUnit, IsOpen, Wired, RqAt, Req
<1>1. /\ rlReq' = [rlReq EXCEPT ![h] = q] /\ rlConn' = [rlConn EXCEPT ![c] = w]
      /\ rlSock' = rlSock /\ rlWorker' = rlWorker /\ rlFile' = rlFile
  BY DEF SendBodyUnit, Req
<1>2. IsRequest(r)
  BY DEF RelayInv, ConnectionNumbers
<1>3. IsWire(w) /\ w.open = rlConn[c].open /\ w.up = rlConn[c].up /\ w.down = d
  BY <1>0, DownChanged
<1> HIDE DEF n, u, d, w
<1>4. /\ IsRequest(p1) /\ p1.pc = r.pc /\ p1.worker = c /\ p1.method = r.method
      /\ p1.expert = r.expert /\ p1.need = n /\ p1.gone = r.gone
      /\ p1.answer = r.answer
  BY <1>2 DEF IsRequest
<1> HIDE DEF p1
<1>5. /\ q.pc = r.pc /\ q.worker = c /\ q.method = r.method
      /\ q.expert = r.expert /\ q.unread = u /\ q.gone = r.gone
      /\ q.answer = r.answer /\ q.need = n
  BY <1>4 DEF IsRequest
<1> HIDE DEF q
<1>6. r.unread \in 0 .. BodyUnits /\ r.expert \in ExpertFiles /\ u \in 0 .. BodyUnits
  <2>1. r.unread \in 0 .. BodyUnits /\ r.expert \in ExpertFiles /\ r.unread > 0
    BY <1>0 DEF Wired
  <2> HIDE DEF r
  <2> QED BY <2>1, RelayAssumption DEF u
<1>7. HandlerMoves(h) /\ rlConn'[c] = w
  <2> HIDE DEF r
  <2>1. HandlerMoves(h) /\ rlConn'[Req(h).worker] = w
    BY <1>0, <1>1, <1>3, <1>5, <1>6, QueueChanged DEF r
  <2> QED BY <2>1 DEF r
<1>8. rlReq'[h] = q
  BY <1>1, OneRequestChanges
<1>9. ASSUME Exact PROVE HandlerKeepsTrack(h)
  <2> DEFINE b == rlWorker.body
             e == r.expert
             k == r.need - r.unread
             m == BodyUnits - r.need
  <2>1. r.method = "PUT" /\ PutPhase(r, rlConn[c], b, rlFile)
    BY <1>0, <1>9, InExchange DEF Phase, Sensible, Using
  <2>2. /\ r.need \in 1 .. BodyUnits /\ r.unread \in 0 .. r.need
        /\ rlConn[c].up = <<>> /\ Arriving(rlConn[c], b, e, k, m)
    BY <1>0, <2>1, RelayAssumption DEF PutPhase
  <2>3. /\ k \in Nat /\ m \in Nat /\ k + (m + 1) <= BodyUnits /\ k = n - u /\ m + 1 = BodyUnits - n
        /\ n \in 0 .. BodyUnits /\ u \in 0 .. n
        /\ BodyUnits - r.unread + 1 \in 1 .. BodyUnits /\ k + m + 1 = BodyUnits - r.unread + 1
        /\ m + 1 \in Nat
    <3>1. r.need > 0 /\ r.unread > 0
      BY <1>0
    <3> HIDE DEF r
    <3>2. BodyUnits \in Nat /\ r.need \in 1 .. BodyUnits /\ r.unread \in 1 .. r.need
      BY <2>2, <3>1, RelayAssumption
    <3>3. k \in Nat /\ m \in Nat /\ k + (m + 1) <= BodyUnits /\ k = n - u
          /\ m + 1 = BodyUnits - n
      BY <3>2 DEF n, u
    <3>4. n \in 0 .. BodyUnits /\ u \in 0 .. n
      BY <3>2 DEF n, u
    <3>5. BodyUnits - r.unread + 1 \in 1 .. BodyUnits /\ k + m + 1 = BodyUnits - r.unread + 1
          /\ m + 1 \in Nat
      BY <3>2
    <3> QED BY <3>3, <3>4, <3>5
  <2>4. d = Append(rlConn[c].down, Unit(e, k + m + 1))
    BY <2>3, BodyIsSlice DEF d
  <2> HIDE DEF b, e, k, m
  <2>5. Arriving(w, b, e, k, m + 1)
    BY <1>3, <2>2, <2>3, <2>4, ArrivingGrows
  <2>6. PutPhase(q, w, b, rlFile)
    <3>1. q.need \in 0 .. BodyUnits /\ q.unread \in 0 .. q.need /\ q.pc # "read"
      BY <1>0, <1>5, <2>3
    <3>2. w.up = <<>> /\ Arriving(w, b, q.expert, q.need - q.unread, BodyUnits - q.need)
      BY <1>3, <1>5, <2>2, <2>3, <2>5 DEF e
    <3> QED BY <3>1, <3>2 DEF PutPhase
  <2>7. Phase(q, w, b, rlFile) /\ Sensible(q) /\ q.pc \in Using
    BY <1>0, <1>5, <2>1, <2>6 DEF Phase, Sensible, Using
  <2>8. Stream(w, b)
    BY <1>6, <2>3, <2>5, StreamOfPut DEF e
  <2>9. ~q.gone => GoodAnswer(q, rlFile)
    BY <1>0, <1>5, <1>9 DEF Exact, Answered, GoodAnswer
  <2> QED BY <1>0, <1>7, <1>8, <2>7, <2>8, <2>9 DEF HandlerKeepsTrack, Using, b
<1> QED BY <1>7, <1>9

LEMMA BodySentTrack ==
  ASSUME RelayInv, Wired, NEW h \in Handlers, BodySent(h)
  PROVE  HandlerMoves(h) /\ (Exact => HandlerKeepsTrack(h))
<1> DEFINE r == Req(h)
           c == r.worker
           q == [r EXCEPT !.pc = "read"]
<1>1. rlReq' = [rlReq EXCEPT ![h] = q] /\ rlConn' = rlConn /\ rlSock' = rlSock
      /\ rlWorker' = rlWorker /\ rlFile' = rlFile /\ r.pc = "send_body" /\ r.need = 0
  BY DEF BodySent, RqGoto, RqAt, Req
<1>2. /\ q.worker = r.worker /\ q.method = r.method /\ q.expert = r.expert /\ q.need = r.need
      /\ q.unread = r.unread /\ q.gone = r.gone /\ q.answer = r.answer /\ q.pc = "read"
  BY DEF RelayInv, ConnectionNumbers, IsRequest
<1> HIDE DEF q
<1>3. HandlerMoves(h)
  BY <1>1, <1>2, QueuesKept DEF Wired
<1>4. rlReq'[h] = q
  BY <1>1, OneRequestChanges
<1>5. ASSUME Exact PROVE HandlerKeepsTrack(h)
  <2>1. /\ c # None /\ r.method = "PUT" /\ PutPhase(r, rlConn[c], rlWorker.body, rlFile)
    BY <1>1, <1>5, InExchange DEF Phase, Sensible, Using
  <2>2. PutPhase(q, rlConn[c], rlWorker.body, rlFile)
    BY <1>1, <1>2, <2>1 DEF PutPhase
  <2>3. Phase(q, rlConn[c], rlWorker.body, rlFile) /\ Sensible(q) /\ q.pc \in Using
    BY <1>2, <2>1, <2>2 DEF Phase, Sensible, Using
  <2>4. ~q.gone => GoodAnswer(q, rlFile)
    BY <1>1, <1>2, <1>5 DEF Exact, Answered, GoodAnswer
  <2>5. rlWorker.conn = c => Stream(rlConn[c], rlWorker.body)
    BY <1>5, <2>1 DEF Exact, Streams
  <2> QED BY <1>1, <1>4, <2>3, <2>4, <2>5 DEF HandlerKeepsTrack, Using
<1> QED BY <1>3, <1>5

---------------------------------------------------------------------------
(* An answer comes back *)

\* What the status s, the length n and the rest t of an answer to r can be.
AnswerBegins(r, f, s, n, t) ==
  \/ r.method = "PUT" /\ s = 201 /\ n = 0 /\ t = <<>> /\ f[r.expert] = Body(r.expert)
  \/ r.method = "HEAD" /\ s \in {200, 404} /\ n = 0 /\ t = <<>>
  \/ r.method = "GET" /\ s = 404 /\ n = 0 /\ t = <<>>
  \/ s = 502 /\ n = 0 /\ t = <<>>
  \/ r.method = "GET" /\ s = 200 /\ n = BodyUnits
     /\ \E m \in 0 .. BodyUnits : t = Slice(r.expert, 0, m)

LEMMA OneReply ==
  ASSUME NEW s, NEW n
  PROVE  /\ Head(<<Reply(s, n)>>)[2] = s /\ Head(<<Reply(s, n)>>)[3] = n
         /\ Tail(<<Reply(s, n)>>) = <<>> /\ <<Reply(s, n)>> # <<>>
<1> DEFINE x == Reply(s, n)
<1>1. x[2] = s /\ x[3] = n
  BY DEF Reply
<1> HIDE DEF x
<1>2. Head(<<x>>) = x /\ Tail(<<x>>) = <<>> /\ <<x>> # <<>>
  OBVIOUS
<1> QED BY <1>1, <1>2 DEF x

LEMMA HeadOfAnswer ==
  ASSUME NEW r, NEW w, NEW b, NEW f, Phase(r, w, b, f), r.pc = "read",
         r.method \in {"GET", "HEAD", "PUT"}, w.up # <<>>
  PROVE  /\ w.open => Drained(w, b)
         /\ AnswerBegins(r, f, Head(w.up)[2], Head(w.up)[3], Tail(w.up))
<1>1. CASE r.method = "PUT"
  <2>1. PutPhase(r, w, b, f)
    BY <1>1 DEF Phase
  <2>2. /\ w.open => Drained(w, b)
        /\ \/ w.up = <<Reply(201, 0)>> /\ f[r.expert] = Body(r.expert)
           \/ w.up = <<Reply(502, 0)>>
    BY <2>1 DEF PutPhase
  <2>3. CASE w.up = <<Reply(502, 0)>>
    BY <2>2, <2>3, OneReply DEF AnswerBegins
  <2>4. CASE w.up = <<Reply(201, 0)>> /\ f[r.expert] = Body(r.expert)
    BY <1>1, <2>2, <2>4, OneReply DEF AnswerBegins
  <2> QED BY <2>2, <2>3, <2>4
<1>2. CASE r.method # "PUT"
  <2>1. w.up \in CameBack(r) /\ (w.open => Drained(w, b))
    BY <1>2 DEF Phase, GetPhase
  <2>2. CASE w.up = <<Reply(404, 0)>>
    BY <1>2, <2>1, <2>2, OneReply DEF AnswerBegins
  <2>5. CASE w.up = <<Reply(502, 0)>>
    BY <2>1, <2>5, OneReply DEF AnswerBegins
  <2>3. CASE r.method = "HEAD" /\ w.up = <<Reply(200, 0)>>
    BY <1>2, <2>1, <2>3, OneReply DEF AnswerBegins
  <2>4. CASE r.method = "GET" /\ \E m \in 0 .. BodyUnits :
                w.up = Framed(Reply(200, BodyUnits), r.expert, 0, m)
    <3>1. PICK m \in 0 .. BodyUnits : w.up = Framed(Reply(200, BodyUnits), r.expert, 0, m)
      BY <2>4
    <3> DEFINE x == Reply(200, BodyUnits)
    <3>2. x[2] = 200 /\ x[3] = BodyUnits
      BY DEF Reply
    <3> HIDE DEF x
    <3>3. m \in Nat /\ 0 \in Nat
      BY <3>1
    <3>4. Head(Framed(x, r.expert, 0, m)) = x
          /\ Tail(Framed(x, r.expert, 0, m)) = Slice(r.expert, 0, m)
      <4> DEFINE e == r.expert
      <4> HIDE DEF e
      <4>1. Head(Framed(x, e, 0, m)) = x
        BY <3>3, FramedParts
      <4>2. Tail(Framed(x, e, 0, m)) = Slice(e, 0, m)
        BY <3>3, FramedParts
      <4> QED BY <4>1, <4>2 DEF e
    <3>5. Head(w.up) = x /\ Tail(w.up) = Slice(r.expert, 0, m)
      BY <3>1, <3>4 DEF x
    <3> QED BY <2>1, <2>4, <3>1, <3>2, <3>5 DEF AnswerBegins
  <2> QED BY <1>2, <2>1, <2>2, <2>3, <2>4, <2>5 DEF CameBack
<1> QED BY <1>1, <1>2

LEMMA ReadResponseTrack ==
  ASSUME RelayInv, Wired, NEW h \in Handlers, ReadResponse(h), Exact
  PROVE  HandlerMoves(h) /\ HandlerKeepsTrack(h)
<1> DEFINE r == Req(h)
           c == r.worker
           t == Tail(rlConn[c].up)
           w == [rlConn[c] EXCEPT !.up = t]
           s == Head(rlConn[c].up)[2]
           n == Head(rlConn[c].up)[3]
           a == IF r.gone THEN r.answer ELSE Append(r.answer, s)
           q1 == [r EXCEPT !.pc = "headers"]
           q2 == [q1 EXCEPT !.need = n]
           q == [q2 EXCEPT !.answer = a]
<1>0. /\ c # None /\ c \in DOMAIN rlConn /\ IsWire(rlConn[c])
      /\ r.pc = "read" /\ rlConn[c].up # <<>>
      /\ Phase(r, rlConn[c], rlWorker.body, rlFile)
  BY InExchange DEF ReadResponse, Answers, RqAt, Using
<1>1. /\ rlReq' = [rlReq EXCEPT ![h] = q] /\ rlConn' = [rlConn EXCEPT ![c] = w]
      /\ rlSock' = rlSock /\ rlWorker' = rlWorker /\ rlFile' = rlFile
  BY DEF ReadResponse, Req, Answers
<1>2. IsRequest(r)
  BY DEF RelayInv, ConnectionNumbers
<1>3. IsWire(w) /\ w.open = rlConn[c].open /\ w.down = rlConn[c].down /\ w.up = t
  BY <1>0, UpChanged
<1>4. r.method \in {"GET", "HEAD", "PUT"} /\ r.expert \in ExpertFiles /\ r.unread \in 0 .. BodyUnits
  BY DEF Wired
<1>5. /\ rlConn[c].open => Drained(rlConn[c], rlWorker.body)
      /\ AnswerBegins(r, rlFile, s, n, t)
  <2> HIDE DEF r
  <2> QED BY <1>0, <1>4, HeadOfAnswer
<1> HIDE DEF t, w, s, n, a
<1>6. /\ IsRequest(q1) /\ q1.pc = "headers" /\ q1.worker = c /\ q1.method = r.method
      /\ q1.expert = r.expert /\ q1.unread = r.unread /\ q1.gone = r.gone
  BY <1>2 DEF IsRequest
<1> HIDE DEF q1
<1>7. /\ IsRequest(q2) /\ q2.pc = "headers" /\ q2.worker = c /\ q2.method = r.method
      /\ q2.expert = r.expert /\ q2.unread = r.unread /\ q2.gone = r.gone /\ q2.need = n
  BY <1>6 DEF IsRequest
<1> HIDE DEF q2
<1>8. /\ q.pc = "headers" /\ q.worker = c /\ q.method = r.method
      /\ q.expert = r.expert /\ q.unread = r.unread /\ q.gone = r.gone
      /\ q.answer = a /\ q.need = n
  BY <1>7 DEF IsRequest
<1> HIDE DEF q
<1>9. HandlerMoves(h) /\ rlConn'[c] = w
  <2> HIDE DEF r
  <2>1. HandlerMoves(h) /\ rlConn'[Req(h).worker] = w
    BY <1>0, <1>1, <1>3, <1>4, <1>8, QueueChanged DEF r
  <2> QED BY <2>1 DEF r
<1>10. rlReq'[h] = q
  BY <1>1, OneRequestChanges
<1> DEFINE b == rlWorker.body
<1>11. CopyPhase(q, w, b)
  <2>0. w.open => Drained(w, b)
    BY <1>3, <1>5 DEF Drained
  <2>e. \A k : Slice(r.expert, k, 0) = <<>>
    BY EmptySlice
  <2>1. CASE n = 0 /\ t = <<>>
    <3> HIDE DEF r, b
    <3>1. 0 \in 0 .. BodyUnits /\ 0 \in 0 .. n
      BY <2>1, RelayAssumption
    <3>2. w.up = Slice(q.expert, BodyUnits - q.need, 0)
      BY <1>3, <1>8, <2>1, <2>e
    <3> QED BY <1>8, <2>0, <2>1, <3>1, <3>2 DEF CopyPhase
  <2>2. CASE r.method = "GET" /\ n = BodyUnits
             /\ \E m \in 0 .. BodyUnits : t = Slice(r.expert, 0, m)
    <3> HIDE DEF r, b
    <3>1. BodyUnits \in 0 .. BodyUnits /\ BodyUnits - n = 0
      BY <2>2, RelayAssumption
    <3> QED BY <1>3, <1>8, <2>0, <2>2, <3>1 DEF CopyPhase
  <2> QED BY <1>5, <2>1, <2>2 DEF AnswerBegins
<1>12. Phase(q, w, b, rlFile) /\ Sensible(q) /\ q.pc \in Using
  BY <1>0, <1>8, <1>11 DEF Phase, Sensible, Using
<1>13. rlWorker.conn = c => Stream(w, b)
  BY <1>0, <1>3, StreamOfHandler
<1>14. ~q.gone => GoodAnswer(q, rlFile)
  <2> SUFFICES ASSUME ~q.gone PROVE GoodAnswer(q, rlFile)
    OBVIOUS
  <2>1. r.answer = <<>>
    BY <1>0, <1>8 DEF Exact, Answered, GoodAnswer
  <2>2. Append(<<>>, s) = <<s>>
    OBVIOUS
  <2>3. q.answer = <<s>>
    BY <1>8, <2>1, <2>2 DEF a
  <2>4. Framed(200, r.expert, 0, 0) = <<200>> /\ BodyUnits - BodyUnits = 0
    BY RelayAssumption, FramedParts
  <2> HIDE DEF r
  <2> QED BY <1>5, <1>8, <2>3, <2>4 DEF AnswerBegins, GoodAnswer
<1> QED BY <1>0, <1>9, <1>10, <1>12, <1>13, <1>14 DEF HandlerKeepsTrack, Using

---------------------------------------------------------------------------
(* The answer is copied to the client *)

\* The answer has been copied: nothing is left of the exchange.
LEMMA CopiedIsQuiet ==
  ASSUME NEW r, NEW w, NEW b, NEW f, CopyPhase(r, w, b), r.need = 0
  PROVE  w.open => Quiet(w, b)
<1>1. PICK m \in 0 .. 0 : w.up = Slice(r.expert, BodyUnits - r.need, m)
  BY DEF CopyPhase
<1>2. m = 0
  BY <1>1
<1>3. w.up = <<>>
  BY <1>1, <1>2, EmptySlice
<1> QED BY <1>3 DEF CopyPhase, Quiet

LEMMA WholeAnswer ==
  ASSUME NEW e
  PROVE  Framed(200, e, 0, BodyUnits) = <<200>> \o Body(e)
  BY BodyIsSlice DEF Framed

\* The steps that only move a handler on, and may give its connection back.
LEMMA HandlerGoesTo ==
  ASSUME RelayInv, Wired, NEW h \in Handlers, NEW p, RqGoto(h, p),
         \/ rlSock' = rlSock
         \/ ReleaseSock(Req(h).worker),
         UNCHANGED <<rlConn, rlWorker, rlFile>>
  PROVE  LET r == Req(h)
             q == rlReq'[h]
         IN  /\ HandlerMoves(h)
             /\ q.worker = r.worker /\ q.method = r.method /\ q.expert = r.expert
             /\ q.need = r.need /\ q.unread = r.unread /\ q.gone = r.gone
             /\ q.answer = r.answer /\ q.pc = p
<1> DEFINE r == Req(h)
           q == [r EXCEPT !.pc = p]
<1>1. rlReq' = [rlReq EXCEPT ![h] = q] /\ rlConn' = rlConn /\ rlSock'.sock = rlSock.sock
      /\ rlWorker' = rlWorker /\ rlFile' = rlFile
  BY ReleasedSame DEF RqGoto, Req
<1>2. /\ q.worker = r.worker /\ q.method = r.method /\ q.expert = r.expert /\ q.need = r.need
      /\ q.unread = r.unread /\ q.gone = r.gone /\ q.answer = r.answer /\ q.pc = p
  BY DEF RelayInv, ConnectionNumbers, IsRequest
<1> HIDE DEF q
<1>3. HandlerMoves(h)
  BY <1>1, <1>2, QueuesKept DEF Wired
<1>4. rlReq'[h] = q
  BY <1>1, OneRequestChanges
<1> QED BY <1>2, <1>3, <1>4

\* The end of an exchange that went well.
LEMMA ExchangeEnds ==
  ASSUME RelayInv, Wired, Exact, NEW h \in Handlers, RqGoto(h, "done"),
         ReleaseSock(Req(h).worker), UNCHANGED <<rlConn, rlWorker, rlFile>>,
         Req(h).pc \in {"headers", "copy"}, Req(h).need = 0
  PROVE  HandlerMoves(h) /\ HandlerKeepsTrack(h)
<1> DEFINE r == Req(h)
           c == r.worker
           q == rlReq'[h]
           b == rlWorker.body
<1>1. /\ HandlerMoves(h) /\ q.worker = c /\ q.method = r.method /\ q.expert = r.expert
      /\ q.gone = r.gone /\ q.answer = r.answer /\ q.pc = "done"
  BY HandlerGoesTo
<1>2. /\ c # None /\ c \in DOMAIN rlConn /\ CopyPhase(r, rlConn[c], b)
  BY InExchange DEF Phase, Using
<1>3. rlConn[c].open => Quiet(rlConn[c], b)
  BY <1>2, CopiedIsQuiet
<1>4. rlWorker.conn = c => Stream(rlConn[c], b)
  BY <1>2 DEF Exact, Streams
<1>5. ~q.gone => GoodAnswer(q, rlFile)
  <2> SUFFICES ASSUME ~r.gone PROVE GoodAnswer(q, rlFile)
    BY <1>1
  <2>1. GoodAnswer(r, rlFile)
    BY DEF Exact, Answered
  <2>2. BodyUnits - 0 = BodyUnits
    BY RelayAssumption
  <2>3. /\ r.method = "GET" => r.answer \in {<<404>>, <<502>>, <<200>> \o Body(r.expert)}
        /\ r.method = "HEAD" => r.answer \in {<<200>>, <<404>>, <<502>>}
        /\ r.method = "PUT" => \/ r.answer = <<502>>
                               \/ r.answer = <<201>> /\ rlFile[r.expert] = Body(r.expert)
    BY <2>1, <2>2, WholeAnswer DEF GoodAnswer
  <2> QED BY <1>1, <2>3 DEF GoodAnswer
<1> QED BY <1>1, <1>2, <1>3, <1>4, <1>5 DEF HandlerKeepsTrack, Using

LEMMA HeadersSentTrack ==
  ASSUME RelayInv, Wired, NEW h \in Handlers, HeadersSent(h), Exact
  PROVE  HandlerMoves(h) /\ HandlerKeepsTrack(h)
<1> DEFINE r == Req(h)
           c == r.worker
           q == rlReq'[h]
           b == rlWorker.body
<1>0. r.pc = "headers" /\ UNCHANGED <<rlConn, rlWorker, rlFile>>
  BY DEF HeadersSent, RqAt
<1>1. /\ c # None /\ c \in DOMAIN rlConn /\ CopyPhase(r, rlConn[c], b)
  BY <1>0, InExchange DEF Phase, Using
<1>2. CASE r.method = "HEAD"
  <2>1. r.need = 0
    BY <1>1, <1>2 DEF CopyPhase
  <2> QED BY <1>0, <1>2, <2>1, ExchangeEnds DEF HeadersSent
<1>3. CASE r.method # "HEAD"
  <2>1. /\ HandlerMoves(h) /\ q.worker = c /\ q.method = r.method /\ q.expert = r.expert
        /\ q.need = r.need /\ q.gone = r.gone /\ q.answer = r.answer /\ q.pc = "copy"
    BY <1>0, <1>3, HandlerGoesTo DEF HeadersSent
  <2>2. CopyPhase(q, rlConn[c], b)
    BY <1>1, <2>1 DEF CopyPhase
  <2>3. Phase(q, rlConn[c], b, rlFile) /\ Sensible(q) /\ q.pc \in Using
    BY <1>1, <2>1, <2>2 DEF Phase, Sensible, Using
  <2>4. ~q.gone => GoodAnswer(q, rlFile)
    BY <1>0, <2>1 DEF Exact, Answered, GoodAnswer
  <2>5. rlWorker.conn = c => Stream(rlConn[c], b)
    BY <1>1 DEF Exact, Streams
  <2> QED BY <1>0, <2>1, <2>3, <2>4, <2>5 DEF HandlerKeepsTrack, Using
<1> QED BY <1>2, <1>3

LEMMA CopyDoneTrack ==
  ASSUME RelayInv, Wired, NEW h \in Handlers, CopyDone(h), Exact
  PROVE  HandlerMoves(h) /\ HandlerKeepsTrack(h)
  BY ExchangeEnds DEF CopyDone, RqAt

LEMMA CopyUnitTrack ==
  ASSUME RelayInv, Wired, NEW h \in Handlers, CopyUnit(h), Exact
  PROVE  HandlerMoves(h) /\ HandlerKeepsTrack(h)
<1> DEFINE r == Req(h)
           c == r.worker
           t == Tail(rlConn[c].up)
           w == [rlConn[c] EXCEPT !.up = t]
           n == r.need - 1
           a == Append(r.answer, Head(rlConn[c].up))
           q1 == [r EXCEPT !.need = n]
           q == [q1 EXCEPT !.answer = a]
           b == rlWorker.body
<1>0. /\ c # None /\ c \in DOMAIN rlConn /\ IsWire(rlConn[c])
      /\ r.pc = "copy" /\ rlConn[c].up # <<>> /\ r.need > 0 /\ ~r.gone
      /\ CopyPhase(r, rlConn[c], b)
  BY InExchange DEF CopyUnit, Answers, RqAt, Using, Phase
<1>1. /\ rlReq' = [rlReq EXCEPT ![h] = q] /\ rlConn' = [rlConn EXCEPT ![c] = w]
      /\ rlSock' = rlSock /\ rlWorker' = rlWorker /\ rlFile' = rlFile
  BY DEF CopyUnit, Req, Answers
<1>2. IsRequest(r)
  BY DEF RelayInv, ConnectionNumbers
<1>3. IsWire(w) /\ w.open = rlConn[c].open /\ w.down = rlConn[c].down /\ w.up = t
  BY <1>0, UpChanged
<1>4. r.expert \in ExpertFiles /\ r.unread \in 0 .. BodyUnits
  BY DEF Wired
<1>a. GoodAnswer(r, rlFile)
  BY <1>0 DEF Exact, Answered
<1> DEFINE k == BodyUnits - r.need
<1>5. PICK m \in 0 .. r.need : rlConn[c].up = Slice(r.expert, k, m)
  BY <1>0 DEF CopyPhase
<1>6. r.need \in 1 .. BodyUnits /\ r.method = "GET"
  BY <1>0, RelayAssumption DEF CopyPhase
<1>7. m # 0
  BY <1>0, <1>5, EmptySlice
<1> DEFINE l == m - 1
<1>8. /\ k \in Nat /\ m \in Nat \ {0} /\ l \in 0 .. n /\ n \in 0 .. BodyUnits
      /\ k + 1 = BodyUnits - n /\ 0 + k + 1 = k + 1
  <2> DEFINE need == r.need
  <2>1. need \in 1 .. BodyUnits /\ m \in 0 .. need
    BY <1>5, <1>6
  <2> HIDE DEF need
  <2>2. /\ BodyUnits - need \in Nat /\ m \in Nat \ {0} /\ m - 1 \in 0 .. need - 1
        /\ need - 1 \in 0 .. BodyUnits
        /\ BodyUnits - need + 1 = BodyUnits - (need - 1)
        /\ 0 + (BodyUnits - need) + 1 = BodyUnits - need + 1
    BY <1>7, <2>1, RelayAssumption
  <2> QED BY <2>2 DEF need
<1> HIDE DEF r, b, k, l
<1>9. Head(rlConn[c].up) = Unit(r.expert, k + 1) /\ t = Slice(r.expert, k + 1, l)
  BY <1>5, <1>8, SliceShrinks DEF l
<1>10. a = Framed(200, r.expert, 0, BodyUnits - n)
  <2>1. r.answer = Framed(200, r.expert, 0, k)
    BY <1>0, <1>6, <1>a DEF GoodAnswer, k
  <2>2. Append(Framed(200, r.expert, 0, k), Unit(r.expert, 0 + k + 1))
        = Framed(200, r.expert, 0, k + 1)
    BY <1>8, FramedGrows
  <2> QED BY <1>8, <1>9, <2>1, <2>2
<1> HIDE DEF t, w, n, a
<1>11. /\ IsRequest(q1) /\ q1.pc = "copy" /\ q1.worker = c /\ q1.method = r.method
       /\ q1.expert = r.expert /\ q1.unread = r.unread /\ q1.gone = r.gone /\ q1.need = n
  BY <1>0, <1>2 DEF IsRequest
<1> HIDE DEF q1
<1>12. /\ q.pc = "copy" /\ q.worker = c /\ q.method = r.method
       /\ q.expert = r.expert /\ q.unread = r.unread /\ q.gone = r.gone
       /\ q.answer = a /\ q.need = n
  BY <1>11 DEF IsRequest
<1> HIDE DEF q
<1>13. HandlerMoves(h) /\ rlConn'[c] = w
  <2>1. HandlerMoves(h) /\ rlConn'[Req(h).worker] = w
    BY <1>0, <1>1, <1>3, <1>4, <1>12, QueueChanged DEF r
  <2> QED BY <2>1 DEF r
<1>14. rlReq'[h] = q
  BY <1>1, OneRequestChanges
<1>15. CopyPhase(q, w, b)
  <2>1. w.open => Drained(w, b)
    BY <1>0, <1>3 DEF CopyPhase, Drained
  <2>2. w.up = Slice(q.expert, BodyUnits - q.need, l)
    BY <1>3, <1>8, <1>9, <1>12
  <2> QED BY <1>6, <1>8, <1>12, <2>1, <2>2 DEF CopyPhase
<1>16. Phase(q, w, b, rlFile) /\ Sensible(q) /\ q.pc \in Using
  BY <1>0, <1>12, <1>15 DEF Phase, Sensible, Using
<1>17. rlWorker.conn = c => Stream(w, b)
  BY <1>0, <1>3, StreamOfHandler DEF b
<1>18. GoodAnswer(q, rlFile)
  BY <1>6, <1>10, <1>12 DEF GoodAnswer
<1> QED BY <1>0, <1>13, <1>14, <1>16, <1>17, <1>18 DEF HandlerKeepsTrack, Using, r, b

---------------------------------------------------------------------------
(* A worker is taken; what the worker's steps have in common *)

\* The connection is the current one and was not busy, so nothing is under way on it.
LEMMA TakeWorkerExact ==
  ASSUME RelayInv, Wired, OnlyCurrentOpen, NEW h \in Handlers, TakeWorker(h)
  PROVE  Wired' /\ OnlyCurrentOpen' /\ (Exact => Exact')
<1> DEFINE r == Req(h)
           s == rlSock.sock
           q1 == [r EXCEPT !.pc = "send"]
           q == [q1 EXCEPT !.worker = s]
<1>0. r.pc = "wait" /\ ~rlSock.busy
  BY DEF TakeWorker, RqAt
<1>1. /\ rlReq' = [rlReq EXCEPT ![h] = q] /\ rlConn' = rlConn /\ rlSock'.sock = s
      /\ rlWorker' = rlWorker /\ rlFile' = rlFile
  <2>1. rlSock'.sock = s
    BY DEF TakeWorker, RelayInv, ConnectionNumbers
  <2> QED BY <2>1 DEF TakeWorker, Req
<1>2. IsRequest(r)
  BY DEF RelayInv, ConnectionNumbers
<1> HIDE DEF s
<1>3. /\ IsRequest(q1) /\ q1.pc = "send" /\ q1.method = r.method
      /\ q1.expert = r.expert /\ q1.unread = r.unread /\ q1.gone = r.gone
      /\ q1.answer = r.answer
  BY <1>2 DEF IsRequest
<1> HIDE DEF q1
<1>4. /\ q.pc = "send" /\ q.worker = s /\ q.method = r.method
      /\ q.expert = r.expert /\ q.unread = r.unread /\ q.gone = r.gone
      /\ q.answer = r.answer
  BY <1>3 DEF IsRequest
<1> HIDE DEF q
<1>5. rlReq'[h] = q /\ \A k \in Handlers \ {h} : rlReq'[k] = Req(k)
  BY <1>1, OneRequestChanges DEF Req
<1>6. Wired'
  BY <1>1, <1>4, <1>5 DEF Wired, Req
<1>7. OnlyCurrentOpen'
  BY <1>1 DEF OnlyCurrentOpen, s
<1>8. ASSUME Exact PROVE Exact'
  <2>1. \A k \in Handlers, d \in DOMAIN rlConn : Uses(k, d) => d # s
    BY <1>0 DEF RelayInv, ConnectionExclusive, s
  <2>2. s # None => s \in DOMAIN rlConn
    BY ConnNumbers DEF RelayInv, ConnectionNumbers, None, s
  <2>3. Exchanges'
    <3> SUFFICES ASSUME NEW k \in Handlers, rlReq'[k].pc \in Using
                 PROVE  /\ Sensible(rlReq'[k])
                        /\ rlReq'[k].worker # None
                             => Phase(rlReq'[k], rlConn[rlReq'[k].worker], rlWorker.body, rlFile)
      BY <1>1 DEF Exchanges, Req
    <3>1. CASE k # h
      BY <1>5, <1>8, <3>1 DEF Exact, Exchanges
    <3>2. CASE k = h
      <4>1. Sensible(q)
        BY <1>4 DEF Sensible
      <4>2. ASSUME s # None PROVE rlConn[s].open => Quiet(rlConn[s], rlWorker.body)
        BY <1>8, <2>1, <2>2, <4>2 DEF Exact, Between
      <4>3. s # None => Phase(q, rlConn[s], rlWorker.body, rlFile)
        BY <1>4, <4>2 DEF Phase
      <4> QED BY <1>4, <1>5, <3>2, <4>1, <4>3
    <3> QED BY <3>1, <3>2
  <2>4. Between'
    <3> SUFFICES ASSUME NEW d \in DOMAIN rlConn, rlConn[d].open,
                        \A k \in Handlers : ~(rlReq'[k].pc \in Using /\ rlReq'[k].worker = d)
                 PROVE  Quiet(rlConn[d], rlWorker.body)
      BY <1>1 DEF Between, Uses, Using, Req
    <3>1. \A k \in Handlers : ~Uses(k, d)
      BY <1>0, <1>5 DEF Uses, Using
    <3> QED BY <1>8, <3>1 DEF Exact, Between
  <2>5. Streams'
    BY <1>1, <1>8 DEF Exact, Streams
  <2>6. Answered'
    <3>1. ~q.gone => GoodAnswer(q, rlFile)
      BY <1>0, <1>4, <1>8 DEF Exact, Answered, GoodAnswer
    <3> QED BY <1>1, <1>5, <1>8, <3>1 DEF Exact, Answered, Req
  <2> QED BY <1>1, <1>8, <2>3, <2>4, <2>5, <2>6 DEF Exact, StoredWhole
<1> QED BY <1>6, <1>7, <1>8

---------------------------------------------------------------------------
(* Closed connections *)

\* Nothing more can be said to the worker over a closed connection, so its part does
\* not matter any more.
LEMMA ClosedPhase ==
  ASSUME NEW r, NEW w, NEW v, ~v.open, v.up = w.up, NEW b, NEW b2, NEW f, NEW f2,
         Phase(r, w, b, f), f[r.expert] = Body(r.expert) => f2[r.expert] = Body(r.expert)
  PROVE  Phase(r, v, b2, f2)
  BY DEF Phase, PutPhase, GetPhase, CopyPhase

\* The answer that was begun is lost.
LEMMA EmptiedPhase ==
  ASSUME NEW r, NEW w, NEW v, ~v.open, v.up = <<>>, NEW b, NEW b2, NEW f, Phase(r, w, b, f)
  PROVE  Phase(r, v, b2, f)
<1>1. ASSUME CopyPhase(r, w, b) PROVE CopyPhase(r, v, b2)
  <2>1. r.need \in Nat
    BY <1>1 DEF CopyPhase
  <2>2. 0 \in 0 .. r.need
    BY <2>1
  <2>3. v.up = Slice(r.expert, BodyUnits - r.need, 0)
    BY EmptySlice
  <2> QED BY <1>1, <2>2, <2>3 DEF CopyPhase
<1>2. PutPhase(r, w, b, f) => PutPhase(r, v, b2, f)
  BY DEF PutPhase
<1>3. GetPhase(r, w, b) => GetPhase(r, v, b2)
  BY DEF GetPhase, CameBack
<1> QED BY <1>1, <1>2, <1>3 DEF Phase

---------------------------------------------------------------------------
(* The worker moves *)

\* The step is the worker's: it changes its connection, its body and the files.
WorkerMoves ==
  LET c == rlWorker.conn IN
  /\ c # None
  /\ rlReq' = rlReq /\ rlSock' = rlSock
  /\ DOMAIN rlConn' = DOMAIN rlConn
  /\ \A d \in DOMAIN rlConn : d # c => rlConn'[d] = rlConn[d]
  /\ IsWire(rlConn'[c]) /\ (rlConn'[c].open => rlConn[c].open /\ rlWorker'.conn = c)
  /\ rlWorker' = [conn |-> rlWorker'.conn, body |-> rlWorker'.body]
  /\ rlWorker'.conn = c \/ (rlWorker'.conn = None /\ rlWorker'.body = NoBody)
  /\ rlFile' = [e \in ExpertFiles |-> rlFile'[e]]

WorkerKeepsTrack ==
  LET c == rlWorker.conn
      w == rlConn[c]
      v == rlConn'[c]
      b == rlWorker.body
      b2 == rlWorker'.body
  IN
  /\ \A h \in Handlers :
        Req(h).pc \in Using /\ Sensible(Req(h)) /\ Phase(Req(h), w, b, rlFile)
          => Phase(Req(h), v, b2, rlFile')
  /\ v.open /\ Quiet(w, b) => Quiet(v, b2)
  /\ rlWorker'.conn # None => Stream(v, b2)
  /\ \A e \in ExpertFiles : rlFile'[e] \in {rlFile[e], Body(e)}

LEMMA WorkerWired ==
  ASSUME RelayInv, RelayInv', Wired, OnlyCurrentOpen, WorkerMoves
  PROVE  Wired' /\ OnlyCurrentOpen'
<1> DEFINE c == rlWorker.conn
<1>0. Len(rlConn') = Len(rlConn) /\ Len(rlConn) \in Nat /\ DOMAIN rlConn = 1 .. Len(rlConn)
  BY SameLength, ConnNumbers DEF WorkerMoves, RelayInv
<1>1. c \in DOMAIN rlConn
  BY <1>0 DEF WorkerMoves, Wired, None
<1>2. \A d \in DOMAIN rlConn : IsWire(rlConn'[d])
  BY <1>1 DEF WorkerMoves, Wired
<1>3. rlWorker'.conn \in 0 .. Len(rlConn) /\ (rlWorker'.conn = None => rlWorker'.body = NoBody)
  BY <1>0, <1>1 DEF WorkerMoves, None
<1>4. Wired'
  BY <1>0, <1>2, <1>3 DEF Wired, WorkerMoves, Req
<1>5. OnlyCurrentOpen'
  <2> SUFFICES ASSUME NEW d \in DOMAIN rlConn, rlConn'[d].open
               PROVE  rlSock.sock = d /\ rlWorker'.conn = d
    BY DEF OnlyCurrentOpen, WorkerMoves
  <2>1. CASE d = c
    BY <2>1 DEF OnlyCurrentOpen, WorkerMoves
  <2>2. CASE d # c
    BY <2>2 DEF OnlyCurrentOpen, WorkerMoves
  <2> QED BY <2>1, <2>2
<1> QED BY <1>4, <1>5

LEMMA WorkerExact ==
  ASSUME RelayInv, Wired, OnlyCurrentOpen, Exact, WorkerMoves, WorkerKeepsTrack
  PROVE  Exact'
<1> DEFINE c == rlWorker.conn
<1>0. DOMAIN rlConn' = DOMAIN rlConn /\ rlReq' = rlReq /\ c # None /\ c \in DOMAIN rlConn
  BY ConnNumbers DEF WorkerMoves, RelayInv, Wired, None
<1>f. \A e \in ExpertFiles : rlFile[e] = Body(e) => rlFile'[e] = Body(e)
  BY DEF WorkerKeepsTrack
<1>1. Exchanges'
  <2> SUFFICES ASSUME NEW k \in Handlers, Req(k).pc \in Using
               PROVE  /\ Sensible(Req(k))
                      /\ Req(k).worker # None
                           => Phase(Req(k), rlConn'[Req(k).worker], rlWorker'.body, rlFile')
    BY <1>0 DEF Exchanges, Req
  <2>1. /\ Sensible(Req(k))
        /\ Req(k).worker # None => Phase(Req(k), rlConn[Req(k).worker], rlWorker.body, rlFile)
    BY DEF Exact, Exchanges
  <2>2. CASE Req(k).worker = c
    BY <1>0, <2>1, <2>2 DEF WorkerKeepsTrack
  <2>3. CASE Req(k).worker # c /\ Req(k).worker # None
    <3>1. Req(k).worker \in DOMAIN rlConn
      BY <2>3, WorkerOfHandler
    <3>2. rlConn'[Req(k).worker] = rlConn[Req(k).worker] /\ ~rlConn[Req(k).worker].open
      BY <2>3, <3>1 DEF WorkerMoves, OnlyCurrentOpen
    <3>3. Req(k).expert \in ExpertFiles
      BY DEF Wired
    <3> QED BY <1>f, <2>1, <2>3, <3>2, <3>3, ClosedPhase
  <2> QED BY <2>1, <2>2, <2>3
<1>2. Between'
  <2> SUFFICES ASSUME NEW d \in DOMAIN rlConn, rlConn'[d].open, \A k \in Handlers : ~Uses(k, d)
               PROVE  Quiet(rlConn'[d], rlWorker'.body)
    BY <1>0 DEF Between, Uses, Req
  <2>1. d = c /\ rlConn[d].open
    BY DEF WorkerMoves, OnlyCurrentOpen
  <2>2. Quiet(rlConn[d], rlWorker.body)
    BY <2>1 DEF Exact, Between
  <2> QED BY <2>1, <2>2 DEF WorkerKeepsTrack
<1>3. Streams'
  BY DEF Streams, WorkerMoves, WorkerKeepsTrack
<1>4. Answered'
  <2> SUFFICES ASSUME NEW k \in Handlers, ~Req(k).gone PROVE GoodAnswer(Req(k), rlFile')
    BY <1>0 DEF Answered, Req
  <2>1. GoodAnswer(Req(k), rlFile) /\ Req(k).expert \in ExpertFiles
    BY DEF Exact, Answered, Wired
  <2> QED BY <1>f, <2>1 DEF GoodAnswer
<1>5. StoredWhole'
  BY DEF Exact, StoredWhole, WorkerKeepsTrack
<1> QED BY <1>1, <1>2, <1>3, <1>4, <1>5 DEF Exact

---------------------------------------------------------------------------
(* The worker changes its connection *)

\* The worker puts v in the place of its connection.
LEMMA WorkerChanges ==
  ASSUME RelayInv, Wired, rlWorker.conn # None, NEW v,
         rlConn' = [rlConn EXCEPT ![rlWorker.conn] = v], IsWire(v),
         v.open => rlConn[rlWorker.conn].open /\ rlWorker'.conn = rlWorker.conn,
         rlReq' = rlReq, rlSock' = rlSock,
         \/ rlWorker' = rlWorker
         \/ rlWorker' = [conn |-> None, body |-> NoBody]
         \/ \E b : rlWorker' = [conn |-> rlWorker.conn, body |-> b],
         \/ rlFile' = rlFile
         \/ \E e, x : rlFile' = [rlFile EXCEPT ![e] = x]
  PROVE  WorkerMoves /\ rlConn'[rlWorker.conn] = v
<1>1. rlConn = [i \in DOMAIN rlConn |-> rlConn[i]] /\ rlWorker.conn \in DOMAIN rlConn
  BY ConnNumbers DEF RelayInv, Connections, Wired, None
<1>2. /\ rlConn'[rlWorker.conn] = v /\ DOMAIN rlConn' = DOMAIN rlConn
      /\ \A d \in DOMAIN rlConn : d # rlWorker.conn => rlConn'[d] = rlConn[d]
  BY <1>1
<1>3. /\ rlWorker' = [conn |-> rlWorker'.conn, body |-> rlWorker'.body]
      /\ rlWorker'.conn = rlWorker.conn \/ (rlWorker'.conn = None /\ rlWorker'.body = NoBody)
  BY DEF Wired
<1>4. rlFile' = [e \in ExpertFiles |-> rlFile'[e]]
  BY DEF Wired
<1> QED BY <1>2, <1>3, <1>4 DEF WorkerMoves

LEMMA WorkersWire ==
  ASSUME RelayInv, Wired, rlWorker.conn # None
  PROVE  rlWorker.conn \in DOMAIN rlConn /\ IsWire(rlConn[rlWorker.conn])
  BY ConnNumbers DEF RelayInv, Wired, None

LEMMA BodyInHand ==
  ASSUME NEW e \in ExpertFiles, NEW g
  PROVE  [expert |-> e, got |-> g] # NoBody
<1>1. [expert |-> e, got |-> g].expert = e /\ NoBody.expert = "none"
  BY DEF NoBody
<1> QED BY <1>1, RelayAssumption

---------------------------------------------------------------------------
(* The worker loses its connection: LeaveConnection, ConnectionLost *)

\* The connection is over for the worker, and what it had sent has lost its end.
Cut(w, v) == ~v.open /\ \E n \in 0 .. Len(w.up) : v.up = SubSeq(w.up, 1, n)

LEMMA CutOne ==
  ASSUME NEW s, NEW k, NEW n \in 0 .. Len(<<Reply(s, k)>>)
  PROVE  SubSeq(<<Reply(s, k)>>, 1, n) \in {<<>>, <<Reply(s, k)>>}
<1> DEFINE x == Reply(s, k)
<1> HIDE DEF x
<1>1. Len(<<x>>) = 1 /\ <<x>> \in Seq({x})
  OBVIOUS
<1>2. CASE n = 0
  BY <1>1, <1>2
<1>3. CASE n = 1
  <2> DEFINE t == <<x>>
  <2>1. t \in Seq({x}) /\ Len(t) = 1
    BY <1>1
  <2> HIDE DEF t
  <2>2. /\ SubSeq(t, 1, 1) \in Seq({x}) /\ Len(SubSeq(t, 1, 1)) = 1
        /\ \A i \in 1 .. 1 : SubSeq(t, 1, 1)[i] = t[i]
    BY <2>1
  <2>3. SubSeq(t, 1, 1) = t
    BY <2>1, <2>2, SameSeq
  <2> QED BY <1>3, <2>3 DEF t, x
<1>4. n = 0 \/ n = 1
  BY <1>1 DEF x
<1> QED BY <1>2, <1>3, <1>4 DEF x

LEMMA CutPhase ==
  ASSUME NEW r, r.method \in {"GET", "HEAD", "PUT"}, NEW w, NEW v, Cut(w, v), NEW b, NEW b2, NEW f,
         Phase(r, w, b, f)
  PROVE  Phase(r, v, b2, f)
<1>n. PICK n \in 0 .. Len(w.up) : v.up = SubSeq(w.up, 1, n)
  BY DEF Cut
<1>o. ~v.open
  BY DEF Cut
<1>e. SubSeq(<<>>, 1, 0) = <<>> /\ Len(<<>>) = 0
  OBVIOUS
<1>0. ASSUME w.up = <<>> PROVE v.up = <<>>
  BY <1>n, <1>e, <1>0
<1>1. ASSUME PutPhase(r, w, b, f) PROVE PutPhase(r, v, b2, f)
  <2>1. CASE w.up = <<>>
    BY <1>0, <1>1, <1>o, <2>1 DEF PutPhase
  <2>2. CASE r.need = 0 /\ w.up = <<Reply(201, 0)>> /\ f[r.expert] = Body(r.expert)
    <3>1. v.up \in {<<>>, <<Reply(201, 0)>>}
      BY <1>n, <2>2, CutOne
    <3> QED BY <1>1, <1>o, <2>2, <3>1 DEF PutPhase
  <2>3. CASE r.need = 0 /\ w.up = <<Reply(502, 0)>>
    <3>1. v.up \in {<<>>, <<Reply(502, 0)>>}
      BY <1>n, <2>3, CutOne
    <3> QED BY <1>1, <1>o, <2>3, <3>1 DEF PutPhase
  <2> QED BY <1>1, <2>1, <2>2, <2>3 DEF PutPhase
<1>2. ASSUME GetPhase(r, w, b) PROVE GetPhase(r, v, b2)
  <2>1. CASE w.up = <<>>
    BY <1>0, <1>o, <2>1 DEF GetPhase, CameBack
  <2>2. CASE w.up = <<Reply(404, 0)>>
    <3>1. v.up \in {<<>>, <<Reply(404, 0)>>}
      BY <1>n, <2>2, CutOne
    <3> QED BY <1>o, <3>1 DEF GetPhase, CameBack
  <2>5. CASE w.up = <<Reply(502, 0)>>
    <3>1. v.up \in {<<>>, <<Reply(502, 0)>>}
      BY <1>n, <2>5, CutOne
    <3> QED BY <1>o, <3>1 DEF GetPhase, CameBack
  <2>3. CASE r.method = "HEAD" /\ w.up = <<Reply(200, 0)>>
    <3>1. v.up \in {<<>>, <<Reply(200, 0)>>}
      BY <1>n, <2>3, CutOne
    <3> QED BY <1>o, <2>3, <3>1 DEF GetPhase, CameBack
  <2>4. CASE r.method # "HEAD" /\ \E m \in 0 .. BodyUnits :
               w.up = Framed(Reply(200, BodyUnits), r.expert, 0, m)
    <3> DEFINE x == Reply(200, BodyUnits)
               e == r.expert
               S == {Unit(e, i) : i \in Nat} \cup {x}
    <3>1. PICK m \in 0 .. BodyUnits : w.up = Framed(x, e, 0, m)
      BY <2>4
    <3>2. x \in S /\ \A i \in Nat : Unit(e, i) \in S
      OBVIOUS
    <3> HIDE DEF S, x, e
    <3>3. m \in Nat /\ 0 \in Nat
      BY <3>1
    <3>4. IsFramed(w.up, x, e, 0, m, S)
      BY <3>1, <3>2, <3>3, FramedIsSeq
    <3>5. n \in 0 .. m + 1
      BY <1>n, <3>4 DEF IsFramed
    <3>6. v.up = IF n = 0 THEN <<>> ELSE Framed(x, e, 0, n - 1)
      <4>1. v.up = SubSeq(Framed(x, e, 0, m), 1, n)
        BY <1>n, <3>1
      <4>2. SubSeq(Framed(x, e, 0, m), 1, n) = IF n = 0 THEN <<>> ELSE Framed(x, e, 0, n - 1)
        BY <3>3, <3>5, FramedPrefix
      <4> QED BY <4>1, <4>2
    <3>7. n # 0 => n - 1 \in 0 .. BodyUnits
      BY <3>1, <3>5, RelayAssumption
    <3>8. v.up \in CameBack(r)
      BY <2>4, <3>6, <3>7 DEF CameBack, x, e
    <3> QED BY <1>o, <3>8 DEF GetPhase
  <2> QED BY <1>2, <2>1, <2>2, <2>3, <2>4, <2>5 DEF GetPhase, CameBack
<1>3. ASSUME CopyPhase(r, w, b) PROVE CopyPhase(r, v, b2)
  <2> DEFINE e == r.expert
             k == BodyUnits - r.need
             S == {Unit(e, i) : i \in Nat}
  <2>1. PICK m \in 0 .. r.need : w.up = Slice(e, k, m)
    BY <1>3 DEF CopyPhase
  <2>2. r.need \in 0 .. BodyUnits
    BY <1>3 DEF CopyPhase
  <2>3. k \in Nat /\ m \in Nat
    BY <2>1, <2>2, RelayAssumption
  <2>4. \A i \in Nat : Unit(e, i) \in S
    OBVIOUS
  <2> HIDE DEF S, e, k
  <2>5. n \in 0 .. m
    <3>1. Len(Slice(e, k, m)) = m
      BY <2>3, <2>4, SliceIsSeq
    <3> QED BY <1>n, <2>1, <3>1
  <2>6. v.up = Slice(e, k, n)
    BY <1>n, <2>1, <2>3, <2>5, SlicePrefix
  <2>7. n \in 0 .. r.need
    BY <2>1, <2>2, <2>5
  <2> QED BY <1>3, <1>o, <2>6, <2>7 DEF CopyPhase, e, k
<1> QED BY <1>1, <1>2, <1>3, <1>o DEF Phase

LEMMA ConnectionLostTrack ==
  ASSUME RelayInv, Wired, ConnectionLost
  PROVE  WorkerMoves /\ (Exact => WorkerKeepsTrack)
<1> DEFINE c == rlWorker.conn
           w == rlConn[c]
<1>1. PICK n \in 0 .. Len(w.up) :
         rlConn' = [rlConn EXCEPT ![c] = [open |-> FALSE, down |-> <<>>, up |-> SubSeq(w.up, 1, n)]]
  BY DEF ConnectionLost
<1> DEFINE u == SubSeq(w.up, 1, n)
           closed == FALSE
           v == [open |-> closed, down |-> <<>>, up |-> u]
<1>2. /\ rlReq' = rlReq /\ rlSock' = rlSock /\ rlFile' = rlFile
      /\ rlWorker' = [conn |-> None, body |-> NoBody] /\ c # None
  BY DEF ConnectionLost
<1>3. rlConn' = [rlConn EXCEPT ![c] = v]
  BY <1>1
<1>c. closed = FALSE
  OBVIOUS
<1> HIDE DEF u, closed
<1>4. IsWire(v) /\ ~v.open /\ v.up = u
  BY <1>c DEF IsWire
<1> HIDE DEF v
<1>5. WorkerMoves /\ rlConn'[c] = v
  BY <1>2, <1>3, <1>4, WorkerChanges
<1>6. Cut(w, v)
  BY <1>1, <1>4 DEF Cut, u
<1> HIDE DEF w
<1>7. \A h \in Handlers : Phase(Req(h), w, rlWorker.body, rlFile)
      => Phase(Req(h), v, rlWorker'.body, rlFile')
  BY <1>2, <1>6, CutPhase DEF Wired
<1> QED BY <1>2, <1>4, <1>5, <1>7 DEF WorkerKeepsTrack, w, None

LEMMA LeaveTrack ==
  ASSUME RelayInv, Wired, LeaveConnection
  PROVE  WorkerMoves /\ (Exact => WorkerKeepsTrack)
<1> DEFINE c == rlWorker.conn
           w == rlConn[c]
           closed == FALSE
           v == [w EXCEPT !.open = closed]
<1>1. /\ rlReq' = rlReq /\ rlSock' = rlSock /\ rlFile' = rlFile
      /\ rlWorker' = [conn |-> None, body |-> NoBody] /\ c # None
      /\ rlConn' = [rlConn EXCEPT ![c] = v]
  BY DEF LeaveConnection
<1>2. IsWire(w)
  BY <1>1, WorkersWire
<1>3. IsWire(v) /\ ~v.open /\ v.up = w.up
  <2>1. w = [open |-> w.open, down |-> w.down, up |-> w.up]
    BY <1>2 DEF IsWire
  <2> HIDE DEF w, closed
  <2>2. v = [open |-> closed, down |-> w.down, up |-> w.up]
    BY <2>1
  <2>3. closed \in BOOLEAN /\ ~closed
    BY DEF closed
  <2>4. v.open = closed /\ v.down = w.down /\ v.up = w.up
    BY <2>2
  <2> QED BY <2>2, <2>3, <2>4 DEF IsWire
<1> HIDE DEF v
<1>4. WorkerMoves /\ rlConn'[c] = v
  BY <1>1, <1>3, WorkerChanges
<1>5. ASSUME Exact, NEW h \in Handlers, Phase(Req(h), w, rlWorker.body, rlFile)
      PROVE  Phase(Req(h), v, rlWorker'.body, rlFile')
  BY <1>1, <1>3, <1>5, ClosedPhase
<1> QED BY <1>1, <1>3, <1>4, <1>5 DEF WorkerKeepsTrack, None

---------------------------------------------------------------------------
(* The worker answers a GET or HEAD: ServeRequest *)

LEMMA OneItem ==
  ASSUME NEW x
  PROVE  Head(<<x>>) = x /\ Tail(<<x>>) = <<>> /\ <<x>> # <<>> /\ <<>> \o <<x>> = <<x>>
         /\ Append(<<>>, x) = <<x>>
  OBVIOUS

LEMMA AskParts ==
  ASSUME NEW m, NEW e
  PROVE  Ask(m, e)[1] = "frame" /\ Ask(m, e)[2] = m /\ Ask(m, e)[3] = e
  BY DEF Ask

LEMMA ArrivingAtFrame ==
  ASSUME NEW w, NEW e \in ExpertFiles, NEW k \in Nat, NEW n \in Nat, Arriving(w, NoBody, e, k, n)
  PROVE  /\ w.down # <<>> /\ Head(w.down) = Ask("PUT", e)
         /\ Tail(w.down) = Slice(e, k, n)
<1> DEFINE x == Ask("PUT", e)
<1>1. w.down = Framed(x, e, k, n)
  BY BodyInHand DEF Arriving
<1> HIDE DEF x
<1>2. Framed(x, e, k, n) # <<>> /\ Head(Framed(x, e, k, n)) = x
      /\ Tail(Framed(x, e, k, n)) = Slice(e, k, n)
  BY FramedParts
<1> QED BY <1>1, <1>2 DEF x

\* The worker's next frame is a request without a body.
LEMMA AskAtHead ==
  ASSUME NEW w, Stream(w, NoBody), w.down # <<>>, Head(w.down)[2] # "PUT"
  PROVE  Tail(w.down) = <<>>
<1>1. ASSUME NEW e \in ExpertFiles, NEW k \in Nat, NEW n \in Nat, Arriving(w, NoBody, e, k, n)
      PROVE  FALSE
  BY <1>1, ArrivingAtFrame, AskParts
<1>2. ASSUME NEW e \in ExpertFiles, NEW m \in {"GET", "HEAD"}, w.down = <<Ask(m, e)>>
      PROVE  Tail(w.down) = <<>>
  BY <1>2, OneItem
<1> QED BY <1>1, <1>2 DEF Stream, Drained

\* What a PUT that is not over yet has done.
LEMMA PutArrives ==
  ASSUME NEW r, NEW w, NEW b, NEW f, PutPhase(r, w, b, f), w.open, ~Drained(w, b)
  PROVE  /\ w.up = <<>>
         /\ Arriving(w, b, r.expert, r.need - r.unread, BodyUnits - r.need)
         /\ r.need - r.unread \in Nat /\ BodyUnits - r.need \in Nat
         /\ (r.need - r.unread) + (BodyUnits - r.need) <= BodyUnits
<1>1. r.need \in 0 .. BodyUnits /\ r.unread \in 0 .. r.need
  BY DEF PutPhase
<1> DEFINE need == r.need
           unread == r.unread
<1>2. /\ w.up = <<>> /\ Arriving(w, b, r.expert, need - unread, BodyUnits - need)
  BY DEF PutPhase
<1> HIDE DEF need, unread
<1>3. need \in 0 .. BodyUnits /\ unread \in 0 .. need
  BY <1>1 DEF need, unread
<1>4. need - unread \in Nat /\ BodyUnits - need \in Nat
      /\ (need - unread) + (BodyUnits - need) <= BodyUnits
  BY <1>3, RelayAssumption
<1> QED BY <1>2, <1>4 DEF need, unread

LEMMA AskedPhase ==
  ASSUME NEW r, r.pc \in Using, Sensible(r), r.expert \in ExpertFiles, NEW w, NEW f,
         Phase(r, w, NoBody, f), w.open, w.down # <<>>, Head(w.down)[2] # "PUT"
  PROVE  r.pc = "read" /\ r.method # "PUT" /\ w.down = <<Ask(r.method, r.expert)>> /\ w.up = <<>>
<1>0. ~Drained(w, NoBody)
  BY DEF Drained
<1>1. ASSUME PutPhase(r, w, NoBody, f) PROVE FALSE
  BY <1>0, <1>1, PutArrives, ArrivingAtFrame, AskParts
<1>2. r.pc = "read" /\ r.method # "PUT"
  BY <1>0, <1>1 DEF Phase, Using, Sensible, Quiet, CopyPhase
<1> QED BY <1>0, <1>2 DEF Phase, GetPhase

LEMMA ServedAnswer ==
  ASSUME NEW r, r.method \in {"GET", "HEAD"}, rlFile[r.expert] \in {<<>>, Body(r.expert)}
  PROVE  <<>> \o ServeExpert(r.method, r.expert) \in CameBack(r)
<1>1. CASE rlFile[r.expert] = <<>>
  <2> DEFINE x == Reply(404, 0)
  <2>1. ServeExpert(r.method, r.expert) = <<x>>
    BY <1>1 DEF ServeExpert, Reply
  <2> HIDE DEF x
  <2>2. <<>> \o ServeExpert(r.method, r.expert) = <<x>>
    BY <2>1, OneItem
  <2> QED BY <2>2 DEF CameBack, x
<1>2. CASE rlFile[r.expert] # <<>> /\ r.method = "HEAD"
  <2> DEFINE x == Reply(200, 0)
  <2>1. ServeExpert(r.method, r.expert) = <<x>>
    BY <1>2 DEF ServeExpert, Reply
  <2> HIDE DEF x
  <2>2. <<>> \o ServeExpert(r.method, r.expert) = <<x>>
    BY <2>1, OneItem
  <2> QED BY <1>2, <2>2 DEF CameBack, x
<1>3. CASE rlFile[r.expert] # <<>> /\ r.method = "GET"
  <2> DEFINE e == r.expert
             f == Body(e)
             x == Reply(200, BodyUnits)
             t == Framed(x, e, 0, BodyUnits)
             S == {Unit(e, i) : i \in Nat} \cup {x}
  <2>1. f = Slice(e, 0, BodyUnits)
    BY BodyIsSlice
  <2>2. x \in S /\ \A i \in Nat : Unit(e, i) \in S
    OBVIOUS
  <2>3. rlFile[e] = f
    BY <1>3
  <2>x. Reply(200, Len(f)) = <<"frame", 200, Len(f)>>
    BY DEF Reply
  <2>s. ServeExpert(r.method, e) = <<Reply(200, Len(f))>> \o f
    <3> HIDE DEF e, f
    <3> QED BY <1>3, <2>3, <2>x DEF ServeExpert, e
  <2> HIDE DEF S, f, e
  <2>4. Len(f) = BodyUnits
    BY <2>1, <2>2, RelayAssumption, SliceIsSeq
  <2>5. ServeExpert(r.method, e) = t
    BY <2>1, <2>s, <2>4 DEF Framed
  <2> HIDE DEF x
  <2>6. IsFramed(t, x, e, 0, BodyUnits, S)
    BY <2>2, RelayAssumption, FramedIsSeq
  <2> HIDE DEF t
  <2>7. <<>> \o t = t
    BY <2>6, ConcatEmptySeq DEF IsFramed
  <2>8. BodyUnits \in 0 .. BodyUnits
    BY RelayAssumption
  <2>9. <<>> \o ServeExpert(r.method, e) = Framed(Reply(200, BodyUnits), r.expert, 0, BodyUnits)
    BY <2>5, <2>7 DEF t, x, e
  <2>10. <<>> \o ServeExpert(r.method, r.expert)
         = Framed(Reply(200, BodyUnits), r.expert, 0, BodyUnits)
    BY <2>9 DEF e
  <2>11. r.method # "HEAD"
    BY <1>3
  <2> QED BY <2>8, <2>10, <2>11 DEF CameBack
<1> QED BY <1>1, <1>2, <1>3

LEMMA ErrorAnswer ==
  ASSUME NEW r
  PROVE  <<>> \o StorageError \in CameBack(r)
<1> DEFINE x == Reply(502, 0)
<1>1. StorageError = <<x>>
  BY DEF StorageError, Reply
<1> HIDE DEF x
<1>2. <<>> \o StorageError = <<x>>
  BY <1>1, OneItem
<1> QED BY <1>2 DEF CameBack, x

LEMMA ServeTrack ==
  ASSUME RelayInv, Wired, ServeRequest
  PROVE  WorkerMoves /\ (Exact => WorkerKeepsTrack)
<1> DEFINE c == rlWorker.conn
           w == rlConn[c]
           d == Tail(w.down)
           s == ServeExpert(Head(w.down)[2], Head(w.down)[3])
<1>a. PICK answer \in {s, StorageError} :
         rlConn' = [rlConn EXCEPT ![c].down = Tail(@),
                        ![c].up = IF IsOpen(c) THEN @ \o answer ELSE @]
  BY DEF ServeRequest, Down
<1> DEFINE u == IF w.open THEN w.up \o answer ELSE w.up
           v1 == [w EXCEPT !.down = d]
           v == [v1 EXCEPT !.up = u]
<1>1. /\ rlReq' = rlReq /\ rlSock' = rlSock /\ rlFile' = rlFile /\ rlWorker' = rlWorker
      /\ c # None /\ rlWorker.body = NoBody /\ w.down # <<>> /\ Head(w.down)[2] # "PUT"
  BY DEF ServeRequest, Down
<1>2. IsWire(w) /\ c \in DOMAIN rlConn
  BY <1>1, WorkersWire
<1>3. rlConn' = [rlConn EXCEPT ![c] = v]
  BY <1>1, <1>2, <1>a DEF IsOpen
<1>4. IsWire(v1) /\ v1.open = w.open /\ v1.up = w.up /\ v1.down = d
  <2> HIDE DEF w, d
  <2> QED BY <1>2, DownChanged
<1>5. IsWire(v) /\ v.open = w.open /\ v.up = u /\ v.down = d
  <2> HIDE DEF v1, w, d, u
  <2> QED BY <1>4, UpChanged
<1> HIDE DEF v, v1
<1>6. WorkerMoves /\ rlConn'[c] = v
  BY <1>1, <1>3, <1>5, WorkerChanges
<1>7. ASSUME Exact PROVE WorkerKeepsTrack
  <2>1. Stream(w, NoBody)
    BY <1>1, <1>7 DEF Exact, Streams
  <2>2. d = <<>>
    <3> HIDE DEF w
    <3> QED BY <1>1, <2>1, AskAtHead
  <2>3. Stream(v, NoBody)
    BY <1>5, <2>2 DEF Stream, Drained
  <2>4. ASSUME NEW h \in Handlers, Req(h).pc \in Using, Sensible(Req(h)),
               Phase(Req(h), w, NoBody, rlFile)
        PROVE  Phase(Req(h), v, NoBody, rlFile)
    <3> DEFINE r == Req(h)
    <3>0. r.expert \in ExpertFiles /\ r.method \in {"GET", "HEAD", "PUT"}
      BY DEF Wired
    <3>1. CASE ~w.open
      <4>1. ~v.open /\ v.up = w.up
        BY <1>5, <3>1
      <4> HIDE DEF w
      <4> QED BY <2>4, <4>1, ClosedPhase
    <3>2. CASE w.open
      <4>1. r.pc = "read" /\ r.method # "PUT" /\ w.down = <<Ask(r.method, r.expert)>> /\ w.up = <<>>
        <5> HIDE DEF w, r
        <5> QED BY <1>1, <2>4, <3>0, <3>2, AskedPhase DEF r
      <4>2. Head(w.down)[2] = r.method /\ Head(w.down)[3] = r.expert
        <5> HIDE DEF w, r
        <5> QED BY <4>1, OneItem, AskParts
      <4>3. rlFile[r.expert] \in {<<>>, Body(r.expert)}
        BY <1>7, <3>0 DEF Exact, StoredWhole
      <4>4. u = <<>> \o answer /\ answer \in {ServeExpert(r.method, r.expert), StorageError}
        BY <1>a, <3>2, <4>1, <4>2
      <4> HIDE DEF w, r, u
      <4>5. u \in CameBack(r)
        <5>1. CASE answer = ServeExpert(r.method, r.expert)
          BY <3>0, <4>1, <4>3, <4>4, <5>1, ServedAnswer
        <5>2. CASE answer = StorageError
          BY <4>4, <5>2, ErrorAnswer
        <5> QED BY <4>4, <5>1, <5>2
      <4> QED BY <1>5, <2>2, <4>1, <4>5 DEF Phase, GetPhase, Drained, r
    <3> QED BY <3>1, <3>2
  <2>5. ~Quiet(w, NoBody)
    BY <1>1 DEF Quiet, Drained
  <2> QED BY <1>1, <1>6, <2>3, <2>4, <2>5 DEF WorkerKeepsTrack
<1> QED BY <1>6, <1>7

---------------------------------------------------------------------------
(* The worker begins to store: OpenPut *)

\* From here on the request's expert is the one in hand, with nothing received yet.
LEMMA ArrivingOpens ==
  ASSUME NEW w, NEW v, NEW e \in ExpertFiles, NEW k \in Nat, NEW n \in Nat,
         Arriving(w, NoBody, e, k, n), v.down = Tail(w.down)
  PROVE  Arriving(v, [expert |-> Head(w.down)[3], got |-> <<>>], e, k, n)
<1>1. Head(w.down)[3] = e /\ v.down = Slice(e, k, n)
  <2>1. Head(w.down) = Ask("PUT", e) /\ Tail(w.down) = Slice(e, k, n)
    BY ArrivingAtFrame
  <2>2. Ask("PUT", e)[3] = e
    BY AskParts
  <2> QED BY <2>1, <2>2
<1>2. k + 0 = k /\ n - 0 = n /\ 0 \in 0 .. n
  OBVIOUS
<1>3. Slice(e, k, 0) = <<>>
  BY EmptySlice
<1>4. [expert |-> Head(w.down)[3], got |-> <<>>] = [expert |-> e, got |-> Slice(e, k, 0)]
      /\ v.down = Slice(e, k + 0, n - 0)
  BY <1>1, <1>2, <1>3
<1> QED BY <1>2, <1>4 DEF Arriving

LEMMA OpenTrack ==
  ASSUME RelayInv, Wired, OpenPut
  PROVE  WorkerMoves /\ (Exact => WorkerKeepsTrack)
<1> DEFINE c == rlWorker.conn
           w == rlConn[c]
           d == Tail(w.down)
           v == [w EXCEPT !.down = d]
           b2 == [expert |-> Head(w.down)[3], got |-> <<>>]
<1>1. /\ rlReq' = rlReq /\ rlSock' = rlSock /\ rlFile' = rlFile
      /\ c # None /\ rlWorker.body = NoBody /\ w.down # <<>> /\ Head(w.down)[2] = "PUT"
      /\ rlConn' = [rlConn EXCEPT ![c] = v]
  BY DEF OpenPut, Down
<1>2. rlWorker' = [conn |-> c, body |-> b2]
  <2> HIDE DEF b2
  <2>1. rlWorker' = [rlWorker EXCEPT !.body = b2]
    BY DEF OpenPut, Down, b2
  <2>2. rlWorker = [conn |-> rlWorker.conn, body |-> rlWorker.body]
    BY DEF Wired
  <2> QED BY <2>1, <2>2
<1>3. IsWire(w)
  BY <1>1, WorkersWire
<1>4. IsWire(v) /\ v.open = w.open /\ v.up = w.up /\ v.down = d
  <2> HIDE DEF w, d
  <2> QED BY <1>3, DownChanged
<1> HIDE DEF v, b2
<1>5. WorkerMoves /\ rlConn'[c] = v /\ rlWorker'.body = b2 /\ rlWorker'.conn = c
  BY <1>1, <1>2, <1>4, WorkerChanges
<1>6. ASSUME Exact PROVE WorkerKeepsTrack
  <2> HIDE DEF w
  <2>1. Stream(w, NoBody)
    BY <1>1, <1>6 DEF Exact, Streams, w
  <2>2. ASSUME NEW e \in ExpertFiles, NEW k \in Nat, NEW n \in Nat, Arriving(w, NoBody, e, k, n)
        PROVE  Arriving(v, b2, e, k, n)
    BY <1>4, <2>2, ArrivingOpens DEF b2
  <2>3. ASSUME NEW e, NEW m, w.down = <<Ask(m, e)>> PROVE m = "PUT"
    BY <1>1, <2>3, OneItem, AskParts
  <2>4. Stream(v, b2)
    <3>1. PICK e \in ExpertFiles, k \in Nat, n \in Nat : k + n <= BodyUnits
               /\ Arriving(w, NoBody, e, k, n)
      BY <1>1, <2>1, <2>3 DEF Stream, Drained
    <3> QED BY <2>2, <3>1, StreamOfPut
  <2>5. ASSUME NEW h \in Handlers, Req(h).pc \in Using, Sensible(Req(h)),
               Phase(Req(h), w, NoBody, rlFile)
        PROVE  Phase(Req(h), v, b2, rlFile)
    <3> DEFINE r == Req(h)
    <3>0. r.expert \in ExpertFiles
      BY DEF Wired
    <3> HIDE DEF r
    <3>r. r.pc \in Using /\ Sensible(r) /\ Phase(r, w, NoBody, rlFile)
      BY <2>5 DEF r
    <3>1. CASE ~w.open
      BY <1>4, <3>1, <3>r, ClosedPhase DEF r
    <3>2. CASE w.open
      <4>1. ~Drained(w, NoBody)
        BY <1>1 DEF Drained
      <4>2. r.method = "PUT" /\ r.pc \in {"send_body", "read"} /\ PutPhase(r, w, NoBody, rlFile)
        BY <2>3, <3>2, <3>r, <4>1 DEF Phase, Using, Sensible, Quiet, CopyPhase, GetPhase
      <4>3. /\ w.up = <<>>
            /\ Arriving(w, NoBody, r.expert, r.need - r.unread, BodyUnits - r.need)
            /\ r.need - r.unread \in Nat /\ BodyUnits - r.need \in Nat
        BY <3>2, <4>1, <4>2, PutArrives
      <4>4. Arriving(v, b2, r.expert, r.need - r.unread, BodyUnits - r.need)
        BY <2>2, <3>0, <4>3
      <4>5. PutPhase(r, v, b2, rlFile)
        BY <1>4, <4>2, <4>3, <4>4 DEF PutPhase
      <4> QED BY <4>2, <4>5 DEF Phase, r
    <3> QED BY <3>1, <3>2
  <2>6. ~Quiet(w, NoBody)
    BY <1>1 DEF Quiet, Drained
  <2> QED BY <1>1, <1>5, <2>4, <2>5, <2>6 DEF WorkerKeepsTrack, w
<1> QED BY <1>5, <1>6

---------------------------------------------------------------------------
(* The worker takes a unit of the body: TakeUnit *)

\* Received and coming units are together the ones that were sent.
LEMMA ArrivingInHand ==
  ASSUME NEW w, NEW b, b # NoBody, NEW e, NEW k, NEW n, Arriving(w, b, e, k, n)
  PROVE  \E g \in 0 .. n : b = [expert |-> e, got |-> Slice(e, k, g)]
                           /\ w.down = Slice(e, k + g, n - g)
  BY DEF Arriving

LEMMA ArrivingMoves ==
  ASSUME NEW w, NEW v, NEW b, b # NoBody, NEW e, NEW k \in Nat, NEW n \in Nat,
         Arriving(w, b, e, k, n),
         w.down # <<>>, v.down = Tail(w.down)
  PROVE  /\ Head(w.down)[1] = "unit"
         /\ Arriving(v, [b EXCEPT !.got = Append(@, Head(w.down))], e, k, n)
<1>1. PICK g \in 0 .. n : b = [expert |-> e, got |-> Slice(e, k, g)]
           /\ w.down = Slice(e, k + g, n - g)
  BY ArrivingInHand
<1> DEFINE s == Slice(e, k, g)
           x == Unit(e, k + g + 1)
<1>2. /\ g \in Nat /\ k + g \in Nat /\ n - g \in Nat /\ g + 1 \in Nat
      /\ (k + g) + 1 = k + (g + 1) /\ (n - g) - 1 = n - (g + 1)
  BY <1>1
<1>3. n - g # 0
  BY <1>1, EmptySlice
<1>4. Head(w.down) = x /\ v.down = Slice(e, k + (g + 1), n - (g + 1)) /\ g + 1 \in 0 .. n
  <2>1. n - g \in Nat \ {0} /\ g + 1 \in 0 .. n
    BY <1>2, <1>3
  <2>2. /\ Head(Slice(e, k + g, n - g)) = Unit(e, (k + g) + 1)
        /\ Tail(Slice(e, k + g, n - g)) = Slice(e, (k + g) + 1, (n - g) - 1)
    <3> DEFINE from == k + g
               rest == n - g
    <3>1. from \in Nat /\ rest \in Nat \ {0}
      BY <1>2, <2>1
    <3> HIDE DEF from, rest
    <3>2. /\ Head(Slice(e, from, rest)) = Unit(e, from + 1)
          /\ Tail(Slice(e, from, rest)) = Slice(e, from + 1, rest - 1)
      BY <3>1, SliceShrinks
    <3> QED BY <3>2 DEF from, rest
  <2> QED BY <1>1, <1>2, <2>1, <2>2
<1>5. Append(s, x) = Slice(e, k, g + 1)
  BY <1>2, SliceGrows
<1>6. x[1] = "unit"
  BY DEF Unit
<1> HIDE DEF s, x
<1>7. [b EXCEPT !.got = Append(@, x)] = [expert |-> e, got |-> Append(s, x)]
  <2> DEFINE y == Append(s, x)
  <2>1. b.got = s /\ b = [expert |-> e, got |-> s]
    BY <1>1 DEF s
  <2> HIDE DEF y
  <2>2. [b EXCEPT !.got = y] = [expert |-> e, got |-> y]
    BY <2>1
  <2> QED BY <2>1, <2>2 DEF y
<1>8. Arriving(v, [b EXCEPT !.got = Append(@, x)], e, k, n)
  BY <1>4, <1>5, <1>7 DEF Arriving
<1> QED BY <1>4, <1>6, <1>8

LEMMA TakeTrack ==
  ASSUME RelayInv, Wired, TakeUnit
  PROVE  WorkerMoves /\ (Exact => WorkerKeepsTrack)
<1> DEFINE c == rlWorker.conn
           w == rlConn[c]
           b == rlWorker.body
           d == Tail(w.down)
           v == [w EXCEPT !.down = d]
           x == IF Head(w.down)[1] = "unit" THEN Head(w.down) ELSE Junk
           b2 == [b EXCEPT !.got = Append(@, x)]
<1>1. /\ rlReq' = rlReq /\ rlSock' = rlSock /\ rlFile' = rlFile
      /\ b # NoBody /\ w.down # <<>>
      /\ rlConn' = [rlConn EXCEPT ![c] = v]
  BY DEF TakeUnit, Down
<1>0. c # None
  BY <1>1 DEF Wired
<1>2. rlWorker' = [conn |-> c, body |-> b2]
  <2>1. rlWorker' = [rlWorker EXCEPT !.body = b2]
    BY DEF TakeUnit, Down
  <2> HIDE DEF b2
  <2>2. rlWorker = [conn |-> rlWorker.conn, body |-> rlWorker.body]
    BY DEF Wired
  <2> QED BY <2>1, <2>2
<1>3. IsWire(w)
  BY <1>0, WorkersWire
<1>4. IsWire(v) /\ v.open = w.open /\ v.up = w.up /\ v.down = d
  <2> HIDE DEF w, d
  <2> QED BY <1>3, DownChanged
<1> HIDE DEF v, b2
<1>5. WorkerMoves /\ rlConn'[c] = v /\ rlWorker'.body = b2 /\ rlWorker'.conn = c
  BY <1>0, <1>1, <1>2, <1>4, WorkerChanges
<1>6. ASSUME Exact PROVE WorkerKeepsTrack
  <2> HIDE DEF w, b
  <2>1. Stream(w, b)
    BY <1>0, <1>6 DEF Exact, Streams, w, b
  <2>2. ASSUME NEW e, NEW k \in Nat, NEW n \in Nat, Arriving(w, b, e, k, n)
        PROVE  Arriving(v, b2, e, k, n)
    <3>1. /\ Head(w.down)[1] = "unit"
          /\ Arriving(v, [b EXCEPT !.got = Append(@, Head(w.down))], e, k, n)
      BY <1>1, <1>4, <2>2, ArrivingMoves
    <3> QED BY <3>1 DEF b2
  <2>3. Stream(v, b2)
    <3>1. PICK e \in ExpertFiles, k \in Nat, n \in Nat : k + n <= BodyUnits
               /\ Arriving(w, b, e, k, n)
      BY <1>1, <2>1 DEF Stream, Drained
    <3> QED BY <2>2, <3>1, StreamOfPut
  <2>4. ASSUME NEW h \in Handlers, Req(h).pc \in Using, Sensible(Req(h)),
               Phase(Req(h), w, b, rlFile)
        PROVE  Phase(Req(h), v, b2, rlFile)
    <3> DEFINE r == Req(h)
    <3> HIDE DEF r
    <3>r. r.pc \in Using /\ Sensible(r) /\ Phase(r, w, b, rlFile)
      BY <2>4 DEF r
    <3>1. CASE ~w.open
      BY <1>4, <3>1, <3>r, ClosedPhase DEF r
    <3>2. CASE w.open
      <4>1. ~Drained(w, b)
        BY <1>1 DEF Drained
      <4>2. r.method = "PUT" /\ r.pc \in {"send_body", "read"} /\ PutPhase(r, w, b, rlFile)
        BY <1>1, <3>2, <3>r, <4>1 DEF Phase, Using, Sensible, Quiet, CopyPhase, GetPhase, b
      <4>3. /\ w.up = <<>>
            /\ Arriving(w, b, r.expert, r.need - r.unread, BodyUnits - r.need)
            /\ r.need - r.unread \in Nat /\ BodyUnits - r.need \in Nat
        BY <3>2, <4>1, <4>2, PutArrives
      <4>4. Arriving(v, b2, r.expert, r.need - r.unread, BodyUnits - r.need)
        BY <2>2, <4>3
      <4>5. PutPhase(r, v, b2, rlFile)
        BY <1>4, <4>2, <4>3, <4>4 DEF PutPhase
      <4> QED BY <4>2, <4>5 DEF Phase, r
    <3> QED BY <3>1, <3>2
  <2>5. ~Quiet(w, b)
    BY <1>1 DEF Quiet, Drained, b
  <2> QED BY <1>1, <1>5, <2>3, <2>4, <2>5 DEF WorkerKeepsTrack, w, b
<1> QED BY <1>5, <1>6

---------------------------------------------------------------------------
(* The worker has the whole body: StorePut *)

\* A body as long as the file is the file.
LEMMA ArrivingStored ==
  ASSUME NEW w, NEW b, b # NoBody, NEW e, NEW k \in Nat, NEW n \in Nat, k + n <= BodyUnits,
         Arriving(w, b, e, k, n), ~(Len(b.got) < BodyUnits)
  PROVE  n = BodyUnits /\ b.expert = e /\ b.got = Body(e) /\ w.down = <<>>
<1>1. PICK g \in 0 .. n : b = [expert |-> e, got |-> Slice(e, k, g)]
           /\ w.down = Slice(e, k + g, n - g)
  BY DEF Arriving
<1> DEFINE S == {Unit(e, i) : i \in Nat}
<1>2. \A i \in Nat : Unit(e, i) \in S
  OBVIOUS
<1> HIDE DEF S
<1>3. g \in Nat
  BY <1>1
<1>4. Len(Slice(e, k, g)) = g
  BY <1>2, <1>3, SliceIsSeq
<1>5. g = BodyUnits
  <2>1. ~(g < BodyUnits) /\ g <= n /\ n <= BodyUnits
    BY <1>1, <1>3, <1>4, RelayAssumption
  <2> QED BY <1>3, <2>1, RelayAssumption
<1>6. n = BodyUnits /\ k = 0 /\ n - g = 0
  BY <1>1, <1>5, RelayAssumption
<1> QED BY <1>1, <1>5, <1>6, BodyIsSlice, EmptySlice

LEMMA StoreTrack ==
  ASSUME RelayInv, Wired, StorePut
  PROVE  WorkerMoves /\ (Exact => WorkerKeepsTrack)
<1> DEFINE c == rlWorker.conn
           w == rlConn[c]
           b == rlWorker.body
           x == Reply(201, 0)
           u == IF w.open THEN Append(w.up, x) ELSE w.up
           v == [w EXCEPT !.up = u]
<1>1. /\ rlReq' = rlReq /\ rlSock' = rlSock
      /\ rlFile' = [rlFile EXCEPT ![b.expert] = b.got]
      /\ b # NoBody /\ Len(b.got) = BodyUnits /\ ~(Len(b.got) < BodyUnits)
  BY RelayAssumption DEF StorePut
<1>0. c # None
  BY <1>1 DEF Wired
<1>2. rlWorker' = [conn |-> c, body |-> NoBody]
  BY DEF StorePut, Wired
<1>3. IsWire(w)
  BY <1>0, WorkersWire
<1>c. rlConn' = [rlConn EXCEPT ![c] = v]
  BY <1>0 DEF StorePut, IsOpen, Reply
<1>4. IsWire(v) /\ v.open = w.open /\ v.up = u /\ v.down = w.down
  <2> HIDE DEF w, u
  <2> QED BY <1>3, UpChanged
<1> HIDE DEF v
<1>5. WorkerMoves /\ rlConn'[c] = v /\ rlWorker'.body = NoBody /\ rlWorker'.conn = c
  BY <1>0, <1>1, <1>2, <1>4, <1>c, WorkerChanges
<1>6. ASSUME Exact PROVE WorkerKeepsTrack
  <2> HIDE DEF w, b
  <2>1. Stream(w, b)
    BY <1>0, <1>6 DEF Exact, Streams, w, b
  <2>2. PICK e \in ExpertFiles, k \in Nat, n \in Nat : k + n <= BodyUnits /\ Arriving(w, b, e, k, n)
    BY <1>1, <2>1 DEF Stream, Drained
  <2>3. b.expert = e /\ b.got = Body(e) /\ w.down = <<>>
    BY <1>1, <2>2, ArrivingStored
  <2>4. Stream(v, NoBody)
    BY <1>4, <2>3 DEF Stream, Drained
  <2>5. \A i \in ExpertFiles : rlFile'[i] = IF i = e THEN Body(e) ELSE rlFile[i]
    <3> HIDE DEF b
    <3> QED BY <1>1, <2>3 DEF Wired
  <2>6. ASSUME NEW h \in Handlers, Req(h).pc \in Using, Sensible(Req(h)),
               Phase(Req(h), w, b, rlFile)
        PROVE  Phase(Req(h), v, NoBody, rlFile')
    <3> DEFINE r == Req(h)
    <3>0. r.expert \in ExpertFiles
      BY DEF Wired
    <3> HIDE DEF r
    <3>r. r.pc \in Using /\ Sensible(r) /\ Phase(r, w, b, rlFile)
      BY <2>6 DEF r
    <3>1. CASE ~w.open
      <4>1. ~v.open /\ v.up = w.up
        BY <1>4, <3>1
      <4>2. rlFile[r.expert] = Body(r.expert) => rlFile'[r.expert] = Body(r.expert)
        BY <2>5, <3>0
      <4> QED BY <3>r, <4>1, <4>2, ClosedPhase DEF r
    <3>2. CASE w.open
      <4>1. ~Drained(w, b)
        BY <1>1 DEF Drained
      <4>2. r.method = "PUT" /\ r.pc \in {"send_body", "read"} /\ PutPhase(r, w, b, rlFile)
        BY <1>1, <3>2, <3>r, <4>1 DEF Phase, Using, Sensible, Quiet, CopyPhase, GetPhase, b
      <4>3. /\ w.up = <<>>
            /\ Arriving(w, b, r.expert, r.need - r.unread, BodyUnits - r.need)
            /\ r.need - r.unread \in Nat /\ BodyUnits - r.need \in Nat
            /\ (r.need - r.unread) + (BodyUnits - r.need) <= BodyUnits
        BY <3>2, <4>1, <4>2, PutArrives
      <4>4. BodyUnits - r.need = BodyUnits /\ b.expert = r.expert
        BY <1>1, <4>3, ArrivingStored
      <4>5. r.need = 0
        BY <4>2, <4>4, RelayAssumption DEF PutPhase
      <4>6. v.up = <<Reply(201, 0)>>
        <5> HIDE DEF x
        <5>1. u = Append(<<>>, x)
          BY <3>2, <4>3
        <5> QED BY <1>4, <5>1, OneItem DEF x
      <4>7. rlFile'[r.expert] = Body(r.expert)
        BY <2>3, <2>5, <3>0, <4>4
      <4>8. Drained(v, NoBody)
        BY <1>4, <2>3 DEF Drained
      <4>9. PutPhase(r, v, NoBody, rlFile')
        BY <4>2, <4>5, <4>6, <4>7, <4>8 DEF PutPhase
      <4> QED BY <4>2, <4>9 DEF Phase, r
    <3> QED BY <3>1, <3>2
  <2>7. ~Quiet(w, b)
    BY <1>1 DEF Quiet, Drained, b
  <2>8. \A i \in ExpertFiles : rlFile'[i] \in {rlFile[i], Body(i)}
    BY <2>5
  <2> QED BY <1>1, <1>5, <2>4, <2>6, <2>7, <2>8 DEF WorkerKeepsTrack, w, b
<1> QED BY <1>5, <1>6

\* The disk fails the worker when it has the whole body: the file is what it was.
LEMMA PutFailsTrack ==
  ASSUME RelayInv, Wired, PutFails, ~rlDesync'
  PROVE  WorkerMoves /\ (Exact => WorkerKeepsTrack)
<1> DEFINE c == rlWorker.conn
           w == rlConn[c]
           b == rlWorker.body
           x == Reply(502, 0)
           u == IF w.open THEN w.up \o <<x>> ELSE w.up
           v == [w EXCEPT !.up = u]
<1>1. /\ rlReq' = rlReq /\ rlSock' = rlSock /\ rlFile' = rlFile
      /\ b # NoBody /\ ~(Len(b.got) < BodyUnits)
  BY DEF PutFails
<1>0. c # None
  BY <1>1 DEF Wired
<1>2. rlWorker' = [conn |-> c, body |-> NoBody]
  BY DEF PutFails, Wired
<1>3. IsWire(w)
  BY <1>0, WorkersWire
<1>c. rlConn' = [rlConn EXCEPT ![c] = v]
  BY <1>0 DEF PutFails, IsOpen, Reply, StorageError
<1>4. IsWire(v) /\ v.open = w.open /\ v.up = u /\ v.down = w.down
  <2> HIDE DEF w, u
  <2> QED BY <1>3, UpChanged
<1> HIDE DEF v
<1>5. WorkerMoves /\ rlConn'[c] = v /\ rlWorker'.body = NoBody /\ rlWorker'.conn = c
  BY <1>0, <1>1, <1>2, <1>4, <1>c, WorkerChanges
<1>6. ASSUME Exact PROVE WorkerKeepsTrack
  <2> HIDE DEF w, b
  <2>1. Stream(w, b)
    BY <1>0, <1>6 DEF Exact, Streams, w, b
  <2>2. PICK e \in ExpertFiles, k \in Nat, n \in Nat : k + n <= BodyUnits /\ Arriving(w, b, e, k, n)
    BY <1>1, <2>1 DEF Stream, Drained
  <2>3. w.down = <<>>
    BY <1>1, <2>2, ArrivingStored
  <2>4. Stream(v, NoBody)
    BY <1>4, <2>3 DEF Stream, Drained
  <2>6. ASSUME NEW h \in Handlers, Req(h).pc \in Using, Sensible(Req(h)),
               Phase(Req(h), w, b, rlFile)
        PROVE  Phase(Req(h), v, NoBody, rlFile)
    <3> DEFINE r == Req(h)
    <3>0. r.expert \in ExpertFiles
      BY DEF Wired
    <3> HIDE DEF r
    <3>r. r.pc \in Using /\ Sensible(r) /\ Phase(r, w, b, rlFile)
      BY <2>6 DEF r
    <3>1. CASE ~w.open
      <4>1. ~v.open /\ v.up = w.up
        BY <1>4, <3>1
      <4> QED BY <3>r, <4>1, ClosedPhase DEF r
    <3>2. CASE w.open
      <4>1. ~Drained(w, b)
        BY <1>1 DEF Drained
      <4>2. r.method = "PUT" /\ r.pc \in {"send_body", "read"} /\ PutPhase(r, w, b, rlFile)
        BY <1>1, <3>2, <3>r, <4>1 DEF Phase, Using, Sensible, Quiet, CopyPhase, GetPhase, b
      <4>3. /\ w.up = <<>>
            /\ Arriving(w, b, r.expert, r.need - r.unread, BodyUnits - r.need)
            /\ r.need - r.unread \in Nat /\ BodyUnits - r.need \in Nat
            /\ (r.need - r.unread) + (BodyUnits - r.need) <= BodyUnits
        BY <3>2, <4>1, <4>2, PutArrives
      <4>4. BodyUnits - r.need = BodyUnits
        BY <1>1, <4>3, ArrivingStored
      <4>5. r.need = 0
        BY <4>2, <4>4, RelayAssumption DEF PutPhase
      <4>6. v.up = <<Reply(502, 0)>>
        <5> HIDE DEF x
        <5>1. u = <<>> \o <<x>>
          BY <3>2, <4>3
        <5> QED BY <1>4, <5>1, OneItem DEF x
      <4>7. Drained(v, NoBody)
        BY <1>4, <2>3 DEF Drained
      <4>8. PutPhase(r, v, NoBody, rlFile)
        BY <4>2, <4>5, <4>6, <4>7 DEF PutPhase
      <4> QED BY <4>2, <4>8 DEF Phase, r
    <3> QED BY <3>1, <3>2
  <2>7. ~Quiet(w, b)
    BY <1>1 DEF Quiet, Drained, b
  <2> QED BY <1>1, <1>5, <2>4, <2>6, <2>7 DEF WorkerKeepsTrack, w, b
<1> QED BY <1>5, <1>6

---------------------------------------------------------------------------
(* A new connection, and all steps together *)

LEMMA AcceptExact ==
  ASSUME RelayInv, RelayInv', Wired, OnlyCurrentOpen, worker_accept_loop
  PROVE  Wired' /\ OnlyCurrentOpen' /\ (Exact => Exact')
<1> DEFINE s == rlSock.sock
           n == Len(rlConn)
           closed == FALSE
           empty == <<>>
           w1 == [rlConn[s] EXCEPT !.open = closed]
           w == [w1 EXCEPT !.up = empty]
           conns == IF s = None THEN rlConn ELSE [rlConn EXCEPT ![s] = w]
           new == [open |-> TRUE, down |-> <<>>, up |-> <<>>]
<1>0. /\ rlConn' = Append(conns, new)
      /\ rlSock'.sock = n + 1 /\ rlWorker' = [conn |-> n + 1, body |-> NoBody]
      /\ rlReq' = rlReq /\ rlFile' = rlFile /\ rlWorker.conn = None
  BY DEF worker_accept_loop, SetSock
<1>1. n \in Nat /\ DOMAIN rlConn = 1 .. n /\ s \in 0 .. n /\ n + 1 # None
  BY ConnNumbers DEF RelayInv, ConnectionNumbers, None
<1>2. \A d \in 1 .. n : IsWire(rlConn[d]) /\ ~rlConn[d].open
  <2> SUFFICES ASSUME NEW d \in 1 .. n PROVE IsWire(rlConn[d]) /\ ~rlConn[d].open
    OBVIOUS
  <2>1. d # None
    BY <1>1 DEF None
  <2> QED BY <1>0, <1>1, <2>1 DEF Wired, OnlyCurrentOpen
<1>3. s # None => IsWire(w) /\ ~w.open /\ w.up = <<>>
  <2> SUFFICES ASSUME s # None PROVE IsWire(w) /\ ~w.open /\ w.up = <<>>
    OBVIOUS
  <2> DEFINE z == rlConn[s]
  <2>1. IsWire(z)
    BY <1>1, <1>2 DEF None
  <2>2. closed \in BOOLEAN /\ ~closed /\ empty = <<>>
    OBVIOUS
  <2>3. w = [[z EXCEPT !.open = closed] EXCEPT !.up = empty]
    OBVIOUS
  <2> HIDE DEF w, z, closed, empty
  <2>4. z = [open |-> z.open, down |-> z.down, up |-> z.up]
    BY <2>1 DEF IsWire
  <2>5. w = [open |-> closed, down |-> z.down, up |-> empty]
    BY <2>3, <2>4
  <2>6. w.open = closed /\ w.down = z.down /\ w.up = empty
    BY <2>5
  <2> QED BY <2>2, <2>5, <2>6 DEF IsWire
<1>4. IsWire(new) /\ Quiet(new, NoBody)
  BY DEF IsWire, Quiet, Drained
<1> HIDE DEF w, new
<1>5. /\ (\E S : conns \in Seq(S)) /\ Len(conns) = n
      /\ \A d \in 1 .. n : conns[d] = rlConn[d] \/ (s # None /\ d = s /\ conns[d] = w)
  <2>0. PICK S : rlConn \in Seq(S)
    BY DEF RelayInv, Connections
  <2>1. CASE s = None
    BY <2>0, <2>1
  <2>2. CASE s # None
    <3>1. conns = [rlConn EXCEPT ![s] = w]
      BY <2>2
    <3> HIDE DEF conns
    <3>2. conns = [i \in DOMAIN rlConn |-> conns[i]]
      BY <2>0, <3>1
    <3>3. (\E T : conns \in Seq(T)) /\ Len(conns) = Len(rlConn)
      BY <2>0, <3>2, SameDomain
    <3>4. \A d \in 1 .. n : conns[d] = rlConn[d] \/ (d = s /\ conns[d] = w)
      BY <1>1, <2>0, <3>1
    <3> QED BY <2>2, <3>3, <3>4
  <2> QED BY <2>1, <2>2
<1> HIDE DEF conns, n, s
<1>6. /\ Len(rlConn') = n + 1 /\ DOMAIN rlConn' = 1 .. n + 1
      /\ rlConn'[n + 1] = new
      /\ \A d \in 1 .. n : rlConn'[d] = conns[d]
  <2>1. PICK S : conns \in Seq(S)
    BY <1>5
  <2>2. conns \in Seq(S \cup {new}) /\ new \in S \cup {new}
    BY <2>1
  <2>3. /\ Len(Append(conns, new)) = Len(conns) + 1
        /\ Append(conns, new) \in Seq(S \cup {new})
        /\ \A i \in 1 .. Len(conns) : Append(conns, new)[i] = conns[i]
        /\ Append(conns, new)[Len(conns) + 1] = new
    BY <2>2, AppendProperties
  <2> QED BY <1>0, <1>5, <2>3
<1>7. \A d \in 1 .. n + 1 : d \in 1 .. n \/ d = n + 1
  BY <1>1
<1>8. \A d \in 1 .. n : IsWire(rlConn'[d]) /\ ~rlConn'[d].open
  BY <1>2, <1>3, <1>5, <1>6
<1>9. Wired'
  <2>1. \A d \in DOMAIN rlConn' : IsWire(rlConn'[d])
    BY <1>4, <1>6, <1>7, <1>8
  <2>2. rlWorker' = [conn |-> rlWorker'.conn, body |-> rlWorker'.body] /\ rlWorker'.conn = n + 1
        /\ n + 1 \in 0 .. n + 1
    BY <1>0, <1>1
  <2> QED BY <1>0, <1>1, <1>6, <2>1, <2>2 DEF Wired, Req
<1>10. OnlyCurrentOpen'
  BY <1>0, <1>6, <1>7, <1>8 DEF OnlyCurrentOpen
<1>11. ASSUME Exact PROVE Exact'
  <2>1. \A k \in Handlers : Req(k).worker # None => Req(k).worker \in 1 .. n
    BY <1>1, WorkerOfHandler
  <2>2. Exchanges'
    <3> SUFFICES ASSUME NEW k \in Handlers, Req(k).pc \in Using
                 PROVE  /\ Sensible(Req(k))
                        /\ Req(k).worker # None
                             => Phase(Req(k), rlConn'[Req(k).worker], rlWorker'.body, rlFile)
      BY <1>0 DEF Exchanges, Req
    <3> DEFINE r == Req(k)
               c == r.worker
    <3>1. Sensible(r) /\ (c # None => Phase(r, rlConn[c], rlWorker.body, rlFile))
      BY <1>11 DEF Exact, Exchanges
    <3>2. ASSUME c # None PROVE Phase(r, rlConn'[c], rlWorker'.body, rlFile)
      <4>1. c \in 1 .. n /\ ~rlConn'[c].open /\ ~rlConn[c].open
        BY <1>2, <1>8, <2>1, <3>2
      <4>2. CASE rlConn'[c] = rlConn[c]
        <5> HIDE DEF r
        <5> QED BY <3>1, <3>2, <4>1, <4>2, ClosedPhase
      <4>3. CASE rlConn'[c].up = <<>>
        <5> HIDE DEF r
        <5> QED BY <3>1, <3>2, <4>1, <4>3, EmptiedPhase
      <4> QED BY <1>3, <1>5, <1>6, <4>1, <4>2, <4>3
    <3> QED BY <3>1, <3>2
  <2>3. Between'
    <3> SUFFICES ASSUME NEW d \in DOMAIN rlConn', rlConn'[d].open
                 PROVE  Quiet(rlConn'[d], rlWorker'.body)
      BY DEF Between
    <3>1. d = n + 1
      BY <1>6, <1>7, <1>8
    <3> QED BY <1>0, <1>4, <1>6, <3>1
  <2>4. Streams'
    <3>1. Stream(new, NoBody)
      BY <1>4 DEF Quiet, Stream
    <3> QED BY <1>0, <1>6, <3>1 DEF Streams
  <2>5. Answered' /\ StoredWhole'
    BY <1>0, <1>11 DEF Exact, Answered, StoredWhole, Req
  <2> QED BY <2>2, <2>3, <2>4, <2>5 DEF Exact
<1> QED BY <1>9, <1>10, <1>11

---------------------------------------------------------------------------
LEMMA ProxyExact ==
  ASSUME RelayInv, RelayInv', Wired, OnlyCurrentOpen, Exact, ~rlDesync',
         NEW h \in Handlers, _proxy(h) \/ ClientGone(h)
  PROVE  Wired' /\ OnlyCurrentOpen' /\ Exact'
<1>1. CASE TakeWorker(h)
  BY <1>1, TakeWorkerExact
<1>2. ASSUME HandlerMoves(h), HandlerKeepsTrack(h)
      PROVE  Wired' /\ OnlyCurrentOpen' /\ Exact'
  BY <1>2, HandlerWired, HandlerExact
<1>3. CASE EnterRequest(h) \/ NoWorkerConnected(h) \/ SendFrame(h) \/ SendFails(h)
  BY <1>2, <1>3, EnterTrack, NoWorkerTrack, SendFrameTrack, SendFailsTrack
<1>4. CASE SendBodyUnit(h) \/ BodySent(h) \/ ReadFails(h) \/ ClientGone(h)
  BY <1>2, <1>4, SendBodyTrack, BodySentTrack, ReadFailsTrack, GoneTrack
<1>5. CASE BodyFails(h) \/ CopyFails(h)
  BY <1>2, <1>5, GiveBackTrack DEF BodyFails, CopyFails
<1>6. CASE ReadResponse(h) \/ HeadersSent(h) \/ CopyUnit(h) \/ CopyDone(h)
  BY <1>2, <1>6, ReadResponseTrack, HeadersSentTrack, CopyUnitTrack, CopyDoneTrack
<1> QED BY <1>1, <1>3, <1>4, <1>5, <1>6 DEF _proxy

LEMMA RemoteExact ==
  ASSUME RelayInv, RelayInv', Wired, OnlyCurrentOpen, Exact, ~rlDesync',
         serve_forever \/ ConnectionLost
  PROVE  Wired' /\ OnlyCurrentOpen' /\ Exact'
<1>1. WorkerMoves /\ WorkerKeepsTrack
  BY ServeTrack, OpenTrack, TakeTrack, StoreTrack, PutFailsTrack, LeaveTrack, ConnectionLostTrack
     DEF serve_forever
<1> QED BY <1>1, WorkerWired, WorkerExact

\* Once out of step, always out of step.
LEMMA DesyncStays ==
  ASSUME RelayNext, ~rlDesync'
  PROVE  ~rlDesync
  BY DEF RelayNext, _proxy, EnterRequest, NoWorkerConnected, TakeWorker, SendFrame, SendFails,
         SendBodyUnit, BodySent, BodyFails, ReadResponse, ReadFails, HeadersSent, CopyUnit,
         CopyDone, CopyFails, ClientGone, GiveBackAndRetry, worker_accept_loop, serve_forever,
         ServeRequest, OpenPut, TakeUnit, StorePut, PutFails, StorageMayFail, LeaveConnection,
         ConnectionLost

LEMMA RelayStartsExact ==
  ASSUME RelayInit
  PROVE  Wired /\ OnlyCurrentOpen /\ Exact
<1>1. /\ rlConn = <<>> /\ rlWorker = [conn |-> None, body |-> NoBody]
      /\ \A h \in Handlers :
            /\ Req(h).pc = "enter" /\ Req(h).answer = <<>> /\ Req(h).unread = BodyUnits
            /\ Req(h).method \in {"GET", "HEAD", "PUT"} /\ Req(h).expert \in ExpertFiles
      /\ rlFile = [e \in ExpertFiles |-> rlFile[e]]
      /\ \A e \in ExpertFiles : rlFile[e] \in {<<>>, Body(e)}
  BY DEF RelayInit, Req, Requests
<1>2. Len(rlConn) = 0 /\ DOMAIN rlConn = {}
  BY <1>1
<1>3. Wired
  BY <1>1, <1>2, RelayAssumption DEF Wired, None
<1>4. OnlyCurrentOpen /\ Between
  BY <1>2 DEF OnlyCurrentOpen, Between
<1>5. Exchanges /\ Answered
  BY <1>1 DEF Exchanges, Using, Answered, GoodAnswer
<1> QED BY <1>1, <1>3, <1>4, <1>5 DEF Exact, Streams, StoredWhole

\* As long as no exchange was left in its middle, by a handler or by the worker, and no
\* answer was begun twice, a client that stayed has exactly one answer with the whole file or none,
\* 201 means the file is stored, and no file on the storage machine is anything but whole.
THEOREM RelayAlwaysExact ==
  RelaySpec => []RelayExact
<1>1. RelayInit => ExactInv
  BY RelayStarts, RelayStartsExact DEF ExactInv
<1>2. ExactInv /\ [RelayNext]_rlVars => ExactInv'
  <2> SUFFICES ASSUME ExactInv, [RelayNext]_rlVars PROVE ExactInv'
    OBVIOUS
  <2>1. RelayInv'
    BY RelayStep DEF ExactInv
  <2>2. CASE UNCHANGED rlVars
    BY <2>1, <2>2 DEF rlVars, ExactInv, Wired, OnlyCurrentOpen, Exact, Exchanges, Between, Streams,
       Answered, StoredWhole, Uses, Req
  <2>3. CASE RelayNext /\ ~rlDesync'
    <3>1. RelayInv /\ Wired /\ OnlyCurrentOpen /\ Exact
      BY <2>3, DesyncStays DEF ExactInv
    <3>2. Wired' /\ OnlyCurrentOpen' /\ Exact'
      BY <2>1, <2>3, <3>1, ProxyExact, AcceptExact, RemoteExact DEF RelayNext
    <3> QED BY <2>1, <3>2 DEF ExactInv
  <2>4. CASE rlDesync'
    BY <2>1, <2>4 DEF ExactInv
  <2> QED BY <2>2, <2>3, <2>4
<1>3. ExactInv => RelayExact
  <2> SUFFICES ASSUME ExactInv, ~rlDesync PROVE RelayExact
    BY DEF RelayExact
  <2>1. \A e \in ExpertFiles : rlFile[e] \in {<<>>, Body(e)}
    BY DEF ExactInv, Exact, StoredWhole
  <2>2. ASSUME NEW h \in Handlers, RqAt(h, "done"), ~Req(h).gone
        PROVE  /\ GoodAnswer(Req(h), rlFile) /\ Req(h).pc = "done"
               /\ Req(h).method \in {"GET", "HEAD", "PUT"}
    BY <2>2 DEF ExactInv, Exact, Answered, Wired, RqAt
  <2>3. ASSUME NEW h \in Handlers, RqAt(h, "done"), ~Req(h).gone
        PROVE  CASE Req(h).method = "GET" ->
                      Req(h).answer \in {<<404>>, <<502>>, <<200>> \o Body(Req(h).expert)}
                 [] Req(h).method = "HEAD" -> Req(h).answer \in {<<200>>, <<404>>, <<502>>}
                 [] Req(h).method = "PUT" ->
                      \/ Req(h).answer = <<502>>
                      \/ Req(h).answer = <<201>> /\ rlFile[Req(h).expert] = Body(Req(h).expert)
    <3> DEFINE r == Req(h)
    <3>1. /\ r.method = "GET" => r.answer \in {<<404>>, <<502>>, <<200>> \o Body(r.expert)}
          /\ r.method = "HEAD" => r.answer \in {<<200>>, <<404>>, <<502>>}
          /\ r.method = "PUT" => \/ r.answer = <<502>>
                                 \/ r.answer = <<201>> /\ rlFile[r.expert] = Body(r.expert)
          /\ r.method \in {"GET", "HEAD", "PUT"}
      BY <2>2, <2>3 DEF GoodAnswer
    <3> HIDE DEF r
    <3>2. CASE r.method = "GET"
      BY <3>1, <3>2 DEF r
    <3>3. CASE r.method = "HEAD"
      BY <3>1, <3>3 DEF r
    <3>4. CASE r.method = "PUT"
      BY <3>1, <3>4 DEF r
    <3> QED BY <3>1, <3>2, <3>3, <3>4
  <2> QED BY <2>1, <2>3 DEF RelayExact
<1> QED BY <1>1, <1>2, <1>3, PTL DEF RelaySpec
=============================================================================
