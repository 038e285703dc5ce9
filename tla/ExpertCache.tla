---------------------------- MODULE ExpertCache ----------------------------
(***************************************************************************)
(* The engine's disk cache of experts (ExpertLruCache in compute.rs) as    *)
(* the scheduler uses it: the experts of a batch are resolved to paths one *)
(* after another - found in the cache, copied from a local shard, or       *)
(* fetched over HTTP from the storage server - and then loaded from these  *)
(* paths. The directory survives the request, the index of its files does  *)
(* not. A client repeats a request until it is served.                     *)
(*                                                                         *)
(* The cached files are sequences of units, as in ExpertStorage.           *)
(***************************************************************************)
EXTENDS ExpertStorage, FiniteSetsExt

CONSTANTS
    CacheSetups,    \* [max, local, remote, batches]: the budget in units, the experts
                    \* with a local shard, whether there is a remote endpoint,
                    \* and the batches of experts the request needs
    MaxCacheFaults  \* bound: how often the engine dies or a connection breaks

ASSUME CacheAssumption ==
    /\ MaxCacheFaults \in Nat
    /\ CacheSetups \subseteq
          [max : Nat, local : SUBSET StoredExperts, remote : BOOLEAN,
           batches : Seq(Seq(StoredExperts) \ {<<>>}) \ {<<>>}]

VARIABLES
    xcSetup,   \* the configuration
    xcReq,     \* the request: pc, batch, next expert of it, the index, a clock, the
               \* file of the server that is being fetched, and what was loaded
    xcDir,     \* the cache directory: expert -> its file, or NotCached
    xcFaults

xcVars == <<xcSetup, xcReq, xcDir, xcFaults>>
cacheVars == <<xcVars, esVars>>

NotCached == <<-1>>
NoFetch == [node |-> Absent, got |-> <<>>]

\* Before a request, and after it failed: "MoEIoScheduler::new" has an empty index.
NoRequest ==
    [pc |-> "idle", batch |-> 1, next |-> 1, index |-> {}, clock |-> 1,
     fetch |-> NoFetch, loaded |-> {}]

Batch == xcSetup.batches[xcReq.batch]
Expert == Batch[xcReq.next]
CacheAt(pc) == xcReq.pc = pc

CacheInit ==
    /\ StorageInit
    /\ xcSetup \in CacheSetups
    /\ xcReq = NoRequest
    /\ xcDir = [e \in StoredExperts |-> NotCached]
    /\ xcFaults = 0

Fail == xcReq' = NoRequest

---------------------------------------------------------------------------
(* The index: entries [expert, bytes, used] *)

touch(index, e, bytes, now) ==
    {x \in index : x.expert # e} \cup {[expert |-> e, bytes |-> bytes, used |-> now]}

total_bytes(index) == LET BytesOf(x) == x.bytes IN MapThenSumSet(BytesOf, index)

\* prune_if_needed: entries go, the least recently used first, until the rest fits; among
\* entries used in the same millisecond the order is that of a hash map. What may remain:
prune_if_needed(index) ==
    {kept \in SUBSET index :
        LET gone == index \ kept
        IN  /\ total_bytes(kept) <= xcSetup.max
            /\ \A x \in gone, y \in kept : x.used <= y.used
            /\ gone = {} \/ \E x \in gone : /\ \A y \in gone : y.used <= x.used
                                            /\ total_bytes(kept \cup {x}) > xcSetup.max}

\* The expert is resolved; after the last one of the batch the paths are loaded.
Resolved(index, now) ==
    xcReq' = [xcReq EXCEPT !.index = index, !.clock = now, !.fetch = NoFetch,
                  !.pc = IF xcReq.next = Len(Batch) THEN "load" ELSE "resolve",
                  !.next = IF xcReq.next = Len(Batch) THEN 1 ELSE @ + 1]

\* A new file gets its name by rename and enters the index; then the cache is pruned.
\* Writing it takes longer than a millisecond.
Install(e, file) ==
    LET now == xcReq.clock + 1
        index == touch(xcReq.index, e, Len(file), now)
    IN  \E kept \in prune_if_needed(index) :
           /\ xcDir' = [x \in StoredExperts |->
                          IF x \in {y.expert : y \in index \ kept} THEN NotCached
                          ELSE IF x = e THEN file ELSE xcDir[x]]
           /\ Resolved(kept, now)

---------------------------------------------------------------------------
(* ensure_expert *)

Cached(e) == xcDir[e] # NotCached
RightSize(e) == Cached(e) /\ Len(xcDir[e]) = FileUnits

FindAny ==   \* mutant: the size of a cached file is not compared
    /\ CacheAt("resolve") /\ Cached(Expert)
    /\ Resolved(touch(xcReq.index, Expert, Len(xcDir[Expert]), xcReq.clock), xcReq.clock)
    /\ UNCHANGED <<xcSetup, xcDir, xcFaults, esVars>>

\* A file of the expected size is used, and is then the latest used; nothing is pruned.
FindCached ==
    /\ CacheAt("resolve") /\ RightSize(Expert)
    /\ Resolved(touch(xcReq.index, Expert, FileUnits, xcReq.clock), xcReq.clock)
    /\ UNCHANGED <<xcSetup, xcDir, xcFaults, esVars>>

\* A file of another size is removed. A local shard is copied ...
CopyLocal ==
    /\ CacheAt("resolve") /\ ~RightSize(Expert) /\ Expert \in xcSetup.local
    /\ Install(Expert, Complete)
    /\ UNCHANGED <<xcSetup, xcFaults, esVars>>

\* ... otherwise the expert is fetched: the server opens its file, or there is no
\* server, or it answers 404.
StartFetch ==
    /\ CacheAt("resolve") /\ ~RightSize(Expert) /\ Expert \notin xcSetup.local
    /\ xcDir' = [xcDir EXCEPT ![Expert] = NotCached]
    /\ IF xcSetup.remote /\ esFile[Expert] # Absent
       THEN xcReq' = [xcReq EXCEPT !.pc = "fetch", !.fetch.node = esFile[Expert]]
       ELSE Fail
    /\ UNCHANGED <<xcSetup, xcFaults, esVars>>

Got == xcReq.fetch.got
Served == esNode[xcReq.fetch.node]

ReceiveUnit ==
    /\ CacheAt("fetch") /\ Len(Got) < Len(Served)
    /\ xcReq' = [xcReq EXCEPT !.fetch.got = Append(@, Served[Len(Got) + 1])]
    /\ UNCHANGED <<xcSetup, xcDir, xcFaults, esVars>>

\* The body ends when the connection does, whatever Content-Length said.
EndOfBody ==
    /\ CacheAt("fetch") /\ Len(Got) >= Len(Served)
    /\ Install(Expert, Got)
    /\ UNCHANGED <<xcSetup, xcFaults, esVars>>

\* The connection is lost: with an error the request fails, without one the part that
\* has arrived is taken for the file.
FetchCut ==
    /\ CacheAt("fetch") /\ xcFaults < MaxCacheFaults
    /\ xcFaults' = xcFaults + 1
    /\ (Fail /\ UNCHANGED xcDir) \/ Install(Expert, Got)
    /\ UNCHANGED <<xcSetup, esVars>>

ensure_expert == FindCached \/ CopyLocal \/ StartFetch \/ ReceiveUnit \/ EndOfBody

---------------------------------------------------------------------------
(* The request *)

StartRequest ==
    /\ CacheAt("idle")
    /\ xcReq' = [xcReq EXCEPT !.pc = "resolve"]
    /\ UNCHANGED <<xcSetup, xcDir, xcFaults, esVars>>

\* load_external_files_into_buffers: a file that an expert resolved later has pushed out
\* is missing by now, and one that is too short is an error; both fail the request.
LoadBatch ==
    /\ CacheAt("load")
    /\ IF \A e \in Range(Batch) : RightSize(e)
       THEN xcReq' = [xcReq EXCEPT
                !.loaded = @ \cup {xcDir[e] : e \in Range(Batch)},
                !.pc = IF xcReq.batch = Len(xcSetup.batches) THEN "served" ELSE "resolve",
                !.batch = IF xcReq.batch = Len(xcSetup.batches) THEN 1 ELSE @ + 1]
       ELSE Fail
    /\ UNCHANGED <<xcSetup, xcDir, xcFaults, esVars>>

EngineDies ==
    /\ ~CacheAt("idle") /\ ~CacheAt("served") /\ xcFaults < MaxCacheFaults
    /\ xcFaults' = xcFaults + 1
    /\ Fail
    /\ UNCHANGED <<xcSetup, xcDir, esVars>>

EngineWork == StartRequest \/ ensure_expert \/ LoadBatch

ServerWork ==
    /\ \E p \in Puts : _write_expert(p, IF CacheAt("fetch") THEN {xcReq.fetch.node} ELSE {})
    /\ UNCHANGED xcVars

CacheNext == EngineWork \/ FetchCut \/ EngineDies \/ ServerWork

\* Clients repeat a request that failed; a fetch is answered or broken.
CacheSpec == CacheInit /\ [][CacheNext]_cacheVars /\ WF_cacheVars(EngineWork)

---------------------------------------------------------------------------
(* Properties *)

\* Whatever connections end early, uploads lose their client, files are pushed out of the
\* cache and engines die: as long as no two uploads of one expert overlap, a file the
\* server has under its final name is whole, one it has answered 201 for is there, and
\* a block the engine computes from is whole. Files in the cache may be short.
ExpertsArrive ==
    ~esOverlap =>
        /\ \A e \in StoredExperts : esFile[e] # Absent => esNode[esFile[e]] = Complete
        /\ \A p \in Puts : PutAt(p, "created") => esFile[Put(p).expert] # Absent
        /\ xcReq.loaded \subseteq {Complete}

\* A request is served in the end when it is repeated, if every expert of it can be had
\* and the budget has room for one: a batch larger than the budget pushes out its own
\* files and fails, but what the failed request left behind is not in the next one's
\* index and no longer pushed out, so that each try gets further than the one before.
RequestServed ==
    (/\ xcSetup.max >= FileUnits
     /\ \A i \in DOMAIN xcSetup.batches : \A e \in Range(xcSetup.batches[i]) :
            e \in xcSetup.local \/ (xcSetup.remote /\ esFile[e] # Absent))
    => <>(CacheAt("served") \/ esOverlap)
=============================================================================
