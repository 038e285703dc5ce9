--------------------------- MODULE ExpertStorage ---------------------------
(***************************************************************************)
(* zc_expert_storage_server.py: a threaded HTTP server over one directory  *)
(* of expert files. A PUT writes <name>.part and renames it; all handlers  *)
(* of one expert use the same .part name, and an open file stays open when *)
(* its name is replaced or removed. So names (esFile, esPart) are kept     *)
(* apart from the files they lead to (esNode).                             *)
(*                                                                         *)
(* A file is a sequence of units, each 1 (the expert's own bytes) or 0    *)
(* (a hole, where a handler wrote behind the end of the file).             *)
(***************************************************************************)
EXTENDS Integers, Sequences, FiniteSets, SequencesExt

CONSTANTS
    Puts,           \* the PUT requests, one handler thread each
    StoredExperts,  \* experts that may be uploaded or fetched
    FileUnits,      \* units of an expert file
    MaxPutCuts      \* bound: how many uploads lose their client

ASSUME StorageAssumption ==
    /\ FileUnits \in Nat \ {0} /\ MaxPutCuts \in Nat
    /\ IsFiniteSet(Puts) /\ IsFiniteSet(StoredExperts)

VARIABLES
    esFile,    \* the file behind layerN_expertM.zcblk; 0 if there is none
    esPart,    \* the file behind its .part name
    esNode,    \* the contents of all files, in the order they were created
    esPut,     \* the handlers
    esWindows, \* whether the server runs on Windows: no rename or removal of a
               \* file that somebody else has open
    esOverlap  \* whether two handlers had one .part file open at a time

esVars == <<esFile, esPart, esNode, esPut, esWindows, esOverlap>>

Absent == 0
Complete == [i \in 1 .. FileUnits |-> 1]

Put(p) == esPut[p]
PutAt(p, pc) == Put(p).pc = pc
PutGoto(p, pc) == esPut' = [esPut EXCEPT ![p].pc = pc]
Writes(p, n) == PutAt(p, "body") /\ Put(p).node = n

---------------------------------------------------------------------------
(* _write_expert *)

OpenTarget(p) ==   \* mutant: the body goes into the file itself
    /\ PutAt(p, "start")
    /\ LET e == Put(p).expert
           n == IF esFile[e] = Absent THEN Len(esNode) + 1 ELSE esFile[e]
       IN  /\ esNode' = IF esFile[e] = Absent THEN Append(esNode, <<>>)
                        ELSE [esNode EXCEPT ![n] = <<>>]
           /\ esFile' = [esFile EXCEPT ![e] = n]
           /\ esPart' = [esPart EXCEPT ![e] = n]
           /\ esPut' = [esPut EXCEPT ![p].pc = "body", ![p].node = n]
           /\ esOverlap' = (esOverlap \/ \E q \in Puts : Writes(q, n))
    /\ UNCHANGED esWindows

\* open("wb") creates the .part file, or empties the one another handler writes.
OpenPart(p) ==
    /\ PutAt(p, "start")
    /\ LET e == Put(p).expert
           n == IF esPart[e] = Absent THEN Len(esNode) + 1 ELSE esPart[e]
       IN  /\ esNode' = IF esPart[e] = Absent THEN Append(esNode, <<>>)
                        ELSE [esNode EXCEPT ![n] = <<>>]
           /\ esPart' = [esPart EXCEPT ![e] = n]
           /\ esPut' = [esPut EXCEPT ![p].pc = "body", ![p].node = n]
           /\ esOverlap' = (esOverlap \/ \E q \in Puts : Writes(q, n))
    /\ UNCHANGED <<esFile, esWindows>>

\* Each handler writes at its own position, whatever the file's length is by then.
WriteUnit(p) ==
    /\ PutAt(p, "body") /\ Put(p).written < FileUnits
    /\ LET at == Put(p).written + 1
       IN  /\ esNode' = [esNode EXCEPT ![Put(p).node] =
                  [i \in 1 .. (IF Len(@) < at THEN at ELSE Len(@)) |->
                      IF i = at THEN 1 ELSE IF i <= Len(@) THEN @[i] ELSE 0]]
           /\ esPut' = [esPut EXCEPT ![p].written = at]
    /\ UNCHANGED <<esFile, esPart, esWindows, esOverlap>>

\* A handler closes the file after its last write.
OthersHave(p, n) == \E q \in Puts \ {p} : Writes(q, n) /\ Put(q).written < FileUnits

\* The client closes before its body is complete: the .part name is removed, if it is
\* still there, and 400 is answered. On Windows the handler itself has it open, the
\* removal fails, and the name stays.
ClientClosed(p) ==
    /\ PutAt(p, "body") /\ Put(p).written < FileUnits
    /\ Cardinality({q \in Puts : PutAt(q, "cut")}) < MaxPutCuts
    /\ PutGoto(p, "cut")
    /\ esPart' = IF esWindows THEN esPart ELSE [esPart EXCEPT ![Put(p).expert] = Absent]
    /\ UNCHANGED <<esFile, esNode, esWindows, esOverlap>>

\* os.replace: the .part name may be gone, renamed or removed by another handler; on
\* Windows it may not be renamed while others have it open, nor the target while a
\* GET reads it ("reading"). The exception ends the handler without an answer.
ReplaceTarget(p, reading) ==
    LET e == Put(p).expert
        refused == esWindows /\ (OthersHave(p, esPart[e]) \/ esFile[e] \in reading)
    IN  /\ PutAt(p, "body") /\ Put(p).written = FileUnits
        /\ IF esPart[e] = Absent \/ refused
           THEN PutGoto(p, "raised") /\ UNCHANGED <<esFile, esPart>>
           ELSE /\ PutGoto(p, "created")
                /\ esFile' = [esFile EXCEPT ![e] = esPart[e]]
                /\ esPart' = [esPart EXCEPT ![e] = Absent]
        /\ UNCHANGED <<esNode, esWindows, esOverlap>>

_write_expert(p, reading) ==
    OpenPart(p) \/ WriteUnit(p) \/ ClientClosed(p) \/ ReplaceTarget(p, reading)

StorageInit ==
    /\ \E stored \in SUBSET StoredExperts :
          LET order == SetToSeq(stored)
          IN  /\ esNode = [i \in DOMAIN order |-> Complete]
              /\ esFile = [e \in StoredExperts |->
                    IF e \in stored THEN CHOOSE i \in DOMAIN order : order[i] = e ELSE Absent]
    /\ esPart = [e \in StoredExperts |-> Absent]
    /\ \E target \in [Puts -> StoredExperts] :
          esPut = [p \in Puts |-> [expert |-> target[p], pc |-> "start", node |-> Absent, written |-> 0]]
    /\ esWindows \in BOOLEAN
    /\ esOverlap = FALSE
=============================================================================
