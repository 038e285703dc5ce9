# A TLA+ verification of wohper

wohper runs large mixture-of-experts models from disk: a Rust engine
(`src/engine/zc_infer_core`) streams the dense blocks and the experts of every
layer through a few fixed I/O buffers, and Python tools build packs, serve
files and translate the OpenAI protocol. This directory holds TLA+ models of
the parts in which state outlives a single step, TLC runs that check them on
small instances, and proofs (TLAPS) of the most important properties for every
instance.

Paths below are relative to `src/`; `generation.rs`, `scheduler.rs`,
`direct_io.rs`, `compute.rs` and `api.rs` are the files of
`engine/zc_infer_core/src` (`generation.rs` and `api.rs` in `server/`); Python
files without a directory are those of `tools/`.

## 1. The system

### Components, their state and their operations

| Component | State | Operations | What makes it correct |
|---|---|---|---|
| Short-context compressor (`compute.rs`) | one process-global map layer -> pending rows, previous half, finalized blocks, last fed position, undo stack; the speculation flag | feed a position, begin/commit/roll back a speculation, export, import | the state is a function of the inputs it reflects; a rollback restores exactly the state before the rejected position |
| Generation loop and session cache (`generation.rs`) | per request: tokens, KV rows, hidden state, draft chain; across requests: session slots | restore, prefill, sample, forward, draft, verify, store | every token is sampled from a hidden state computed from exactly the tokens before it; slots are usable for the turn that restores them; every request ends |
| I/O scheduler and buffers (`scheduler.rs`, `direct_io.rs`) | buffer states, pending requests, reads in flight, completions, ready blocks | enqueue, submit until full, pump, pop, release | every occupied buffer has exactly one owner |
| Layer pass (`generation.rs`) | layer, collected / parked / used blocks, predicted and routed experts, dense RAM cache | for each layer: dense block, prediction, routing, reads, waits, compute, release | a layer is computed from all its experts; no buffer leaks; no wait starves |
| MTP draft module (`generation.rs`) | its own KV cache | draft a chain | only proposes tokens; verification decides |
| Request server (`api.rs`) | none between requests | accept, parse, serve, report | one request at a time, a failed one does not take the server down |
| Expert disk cache (`compute.rs`) | a directory of files that survives, an index that does not | look up, copy, fetch over HTTP, prune by least recent use | what is computed from is whole; a request that can be served is served in the end |
| KV cache and kernels (`compute.rs`, `deepseek_v4.rs`, `glm_dsa_indexer.rs`) | numbers | arithmetic | numeric |
| Model format, row index | immutable files | parse | - |
| Cluster forwarding (`server/cluster.rs`) | one connection per frame | send, acknowledge | - |
| Reverse storage relay (`zc_reverse_storage_*.py`) | one worker connection, its busy flag, HTTP threads that hold copies of the socket | set, begin, request, release, drop; proxy with retries; the worker's frame loop | one exchange at a time on a connection; answers are exact; every request is answered |
| Expert storage server (`zc_expert_storage_server.py`) | expert files and their `.part` names | GET, PUT through a temporary file | a file that has its name is complete |
| Converters (`convert_safetensors.py`, `stream_convert_deepseek_v4.py`, `zc_format_v2.py`) | core, expert files, shard index, progress file | plan, reserve the manifest, write blocks, patch the manifest, write the index | the manifest leads to the right blocks, nothing is dropped silently, "ready" means whole |
| Streamed conversion (`stream_convert_glm52.py`) | ledger, local files, the worker's files, core, index | convert, upload, delete, record, finish; resume | what the ledger calls completed has a copy; exit 0 means servable |
| Experts pack builder (`build_experts_pack.py`) | pack, index, shards | append, sync, verify, delete, resume | no expert is in neither place after a crash |
| Downloads and gates (`download_hf_*.py`, readiness, inventory, estimate, dry run) | files, `.part` files, reports | probe, resume, install, judge | a named file is the remote one; the verdicts chain |
| Catalog jobs (`materialize_*.py`, `reuse_*.py`) | shard index, lock file | read, work, write back | no record is lost |
| Model operations (`merge_smoke_models.py`, `retarget_expert_plan_model.py`, tensor index, coverage plan) | the new core and index | cut layers and experts out of others | every entry leads to its expert's bytes |
| Clients (`zc_openai_server.py`, `deepseek_chat_repl.py`, `chat_interface.py`) | a conversation in two forms, a lock | request, stream, regenerate, cut at a stop sequence | the answer streamed and the answer at once differ only where the two paths do; the two records agree |
| Benchmarks, smoke tests of the arithmetic, setup scripts | - | - | - |

### Interaction

The server hands one request at a time to the generation loop. The loop opens a
scheduler for the request, and every forward pass runs its layers over that
scheduler: it enqueues reads, submits them, waits for blocks of the layer,
computes and releases. The kernel completes reads meanwhile. Computing a
position feeds the global compressor of each layer; the speculative loop
brackets its passes with begin and commit or rollback. At the end of a request
the KV rows and an export of the compressor go into a session slot, which a
later request of the same conversation restores.

The scheduler resolves an expert to a file through the disk cache, which asks
the storage server, or the relay in front of a storage machine behind NAT.
Those files are produced offline: downloads feed the converters, the streamed
conversion uploads experts to the same storage server, the pack builder
replaces expert files by one pack, and catalog jobs and model operations extend
or recombine what is there. These tools share nothing with a running engine but
files; they are run by an operator who repeats a command that failed.

### What is hard

* Global state that survives the request that filled it, also a request that
  failed part-way through the layers.
* Speculation: a rejected chain is undone in every layer, across block flushes
  that happened in some layers and not in others.
* Session restore: three things with different extents - tokens, valid KV
  rows, compressor positions - are put together again.
* Reads that complete in any order, of which some are for layers other than
  the one that waits, twelve buffers for all of them, and no code that submits
  again while a wait is running.
* Failures at every call.
* Tools that work for hours and die in the middle: what each leaves behind is
  what its next run, and the next tool, takes for granted.
* Threads that hold a socket which has been replaced, retries after half an
  answer, two uploads through one temporary name.

`PROJECT.json` lists each hazard with its line and the properties that cover
it, or the reason why none does.

## 2. The modules

    CompressorState ---- CompressorStateProofs
          |   |                 |        |
          |   Compressor -- CompressorProofs |                 MCCompressor
          |                                  |
      Generation ---------------- GenerationProofs             MCGeneration
          |
          +--implements--> GreedyDecode

      LayerPass --implements--> IoScheduler                    MCLayerPass
          |                          |
    LayerPassProofs --uses-- IoSchedulerProofs

      Lists -- ConvertPlan -- Convert, StreamConvert, Download -- ConversionProofs
        |         |                                                      |
      ChatClients, ModelOps ------------------------------------- ToolProofs

      ExpertsPack, Catalog, Relay, ExpertStorage -- ExpertCache
                     all of these ----------------------- ExpertFileProofs
                     Catalog ---------------------------- MCCatalog

      MCTools: all of these from Convert on, one at a time

**CompressorState** has the record of one layer and the pure functions on it:
`FeedLayer` (position 0 clears the layer; a position at or below `last_fed_pos`
is only read; snapshot; absorb; flush of a whole group), `VisibleBlocks`,
`RollbackLayer`, `CommitLayer`, `FromCore`. The numbers a position contributes
are an opaque input, and a block is the pair of input groups its numbers are
computed from. `Ideal(l, t)` is the reference: the state after the inputs `t`.

**Compressor** is the global map with the speculation flag, one action for each
operation the generation loop calls, and a saved export standing for a session
slot. The caller's discipline is in the guards; Generation uses the functions
of CompressorState directly and needs no such guards. `hist` is a history
variable: for each position fed, its input and the layer's state before it.

**GreedyDecode** is the promise to a client: a request yields, token by token,
the continuation of its own prompt, and finishes only when that is complete.

**Generation** has one action for each step of `generate_stream` and
`run_decode_speculative` that can be told apart from outside or can fail:
`StartRequest`, `RestoreSession` / `NothingToRestore`, `Prefill` (layer-major or
one position at a time), `Sample`, `ForwardToken`, `Draft`, `SpeculativePass`,
`VerifyHit`, `VerifyMiss`, `StoreSession`, `Finish`, and the failing ones. A KV
row or hidden state is the token context it was computed from, or `Stale` when
anything that entered its computation (a KV row below, a compressor block) did
not belong to that context; sampling from a hidden state that is not that of
the tokens so far may yield any token. A pass that fails on I/O leaves the
compressor of some lowest layers fed and the others not.

**IoScheduler** has the buffers, the pending queue, the ring, its completion
queue and the ready queue, with one operator per call, and `Next` as the
protocol of its client: release only what was popped, forget only by
releasing. Queues of completed reads are sets, because the pass always empties
them and sorts by layer.

**LayerPass** is that client: one action per step of
`run_model_for_one_token`, `run_positions_batch` and the dense-block scans.
`got`, `parking` and `mine` are the blocks of the running wait, those set aside
for other layers and those the layer is computed from. `Next` includes the kernel
(`Complete`) and the failure of a request (`RequestFails`), after which the
next request opens its own scheduler.

**Lists** has what the Python tools do with lists: `sorted`, a comprehension with
a condition, `sum`. The library's `SortSeq` and `SelectSeq` say the same, but take
an operator or are RECURSIVE, so no prover can unfold them; here an order is a set of
pairs and a selection a set of positions.

**ConvertPlan** holds the pure decisions of the converters and of the tools
that reuse their code: the layers and experts a command selects, the parts of a
block and their offsets (`BlockLayout`), the room for header and manifest
(`ManifestBytes`), the estimate of the output (`plan_payload`). A tensor is its
rank among the names, its layer and expert, its size and number of dimensions.

**Convert** runs a conversion of a downloaded checkpoint, one durable write per
action: `convert_safetensors.py` with one file or with shards, and the raw
converter with its progress file, its check of free space and its validator.
A run may die between any two writes and is repeated over the leftovers.

**StreamConvert** is the conversion from a remote checkpoint. It writes a ledger
after each expert, uploads to a worker, deletes what was uploaded, and with
`--skip-existing` believes the ledger. Ledger, files, worker, core and index
are separate durable states, so that each order of a crash between two of them
is a behaviour.

**ExpertsPack** appends chunks of expert files to the pack, syncs, compares a
file, deletes the chunk's files, and writes the index at the end. A power loss
cuts an unsynced pack anywhere above `pkSynced`. A rerun has `--resume` or not
(`bare`), and `--keep-shards` is fixed per behaviour.

**Download** has the two downloaders and the gates after them. The server may
not tell sizes, may ignore a Range, may stop early; the process may die. A file
is its length and whether its content is that of the remote file.

**Catalog** has several jobs on one shard index, each of which locks (or, as a
dry run, does not), reads, writes expert files, writes the index and removes
the lock. A linked file is the source model's own.

**Relay** has the HTTP threads of the relay, each with its own copy of the
worker's socket, the object `WorkerConnection`, connections as two queues of
frames and body units, and the worker with its file store. Whatever is left on
a connection is read by the next who reads it. The storage behind the worker may
fail it at any request and at any point of a body: it answers 502 and leaves what is
still to come of the body on the connection.

**ModelOps** has the merge, the retargeting, the tensor index and the coverage
plan over a few small cores.

**ChatClients** has the shim's two ways to answer a request, the REPL's turn
with its two records of the conversation, and the interactive loop with stop
sequences and a history limit, over an engine stream that ends anywhere. A
request to the shim carries all that the engine will say to it, so that the
stream, which may stop before the engine does, can be compared with the answer
the same request would have got at once.

**ExpertStorage** has the PUT handlers of the storage server. Names and files
are kept apart, because handlers of one expert share a `.part` name and a file
that is open survives the loss of its name (or, on Windows, may not lose it).

**ExpertCache** has the engine's requests over that server: a batch of experts
is first resolved to paths, one by one, by which the cache may prune the path
of an earlier one, and then loaded. A fetch takes units until the connection
ends. The directory survives requests and crashes, the index of it does not.

**MCTools** instantiates all of these. `tool` says which part runs in a
behaviour; the others are parked in a state in which they are done, so the
state spaces add up instead of multiplying. That loses no interleaving: the
parts share no variable except where a module already composes them
(ExpertCache with ExpertStorage).

| State variable | Code |
|---|---|
| `comp`, `spec_min` | the compressor statics of `compute.rs` (3473-3506, 3630-3640) |
| `slots` | `sessions` of the runtime, `SessionSlot` (`generation.rs`) |
| `tokens`, `kv`, `hidden`, `chain`, `hiddens`, `accepted` | locals of `generate_stream` and `run_decode_speculative` |
| `buf` | the states of the fixed buffers (`direct_io.rs`) |
| `pending`, `ring`, `cq`, `ready` | `pending` and `ready` of `MoEIoScheduler`, the io_uring |
| `got`, `parking`, `mine` | `ready` of a wait, `parking`, the blocks passed to phase 2 |
| `cached` | `DenseRamCache` |
| `cvCmd`, `cvProc`, `cvDisk` | arguments, locals and output files of `convert_safetensors.py` and `stream_convert_deepseek_v4.py` |
| `scLedger`, `scFile`, `scWorker`, `scCore`, `scIndex`, `scProc` | the ledger JSON, the expert files, the worker's store, `dense_core.bin`, the shard index, `main` of `stream_convert_glm52.py` |
| `pkPack`, `pkShards`, `pkIndex`, `pkSynced`, `pkProc` | the pack, the expert files, the pack index, what `fsync` has reached, `main` of `build_experts_pack.py` |
| `dlRepo`, `dlFile`, `dlPart`, `dlMeta`, `dlReport`, `dlProc` | the remote repository and the disk, files, `.part` files, metadata, JSON reports, `download_one` and its caller |
| `ctJob`, `ctLock`, `ctFile`, `ctSource`, `ctIndex` | the running jobs, the lock file, target and source files, the shard index |
| `rlSock`, `rlReq`, `rlConn`, `rlWorker`, `rlFile` | `WorkerConnection`, the handler threads, TCP connections, the worker, its storage root |
| `moCmd`, `moPc`, `moOut`, `moTodo`, `moFile` | arguments, progress, the model written, files to copy, expert files |
| `chShim`, `chRepl`, `chChat` | the request that holds `ENGINE_LOCK`, the REPL's `main`, `DecodeState` and history |
| `esFile`, `esPart`, `esNode`, `esPut` | names, `.part` names, files, the threads in `do_PUT` |
| `xcSetup`, `xcReq`, `xcDir` | configuration, the scheduler's batch and `ExpertLruCache`, the cache directory |

`ctReported`, `ctDryRelease`, `rlDesync`, `esOverlap`, the run counters and the
fault counters are history variables: no code reads them.

Each mutant (an operator marked "mutant") is a plausible bug of the operator
after it, and is used only to show that a property notices it.

## 3. The runs

| Run | Instance | Properties | States |
|---|---|---|---|
| `compressor` | layers of ratio 2 (overlapping) and 3, positions 0..3, two inputs | `TypeOK`, `StateIsFunctionOfInputs`, `UndoExact`, `RollbackExact` | 123,964 |
| `generation_sessions` | 3 conversations, 2 slots, chains of 2, up to 9 positions, speculative | `TypeOK`, `HiddenExact`, `CompressorAgrees`, `SlotSound`, `OneSlotPerConversation`, `PassInKv`, `Promise` | 75,840 |
| `generation_modes` | 2 conversations, 1 slot, all three decode modes, empty answers | `Promise`, `RequestEnds` | 47,717 |
| `io_batch` | 4 buffers, 4 experts through the ring, 4 layers, one auxiliary and one cached; batches, named experts, scans; failing and late reads | `ExpertsComplete`, `WaitCanEnd`, `PassEnds` | 8,444 |
| `io_tokens` | 8 buffers, 3 experts loaded synchronously, 4 layers, one auxiliary; predicting passes, batches, scans | `BuffersSound`, `ExpertsComplete`, `WaitCanEnd`, `DenseFound`, `UsesScheduler`, `PassEnds` | 177,994 |
| `tools` | the modules from Convert on, one at a time | `CoreReadable`, `NothingDropped`, `ReadyIsWhole`, `CompletedHasCopy`, `SuccessIsServable`, `PackSound`, `DownloadSound`, `CatalogSound`, `ConnectionExclusive`, `RelayExact`, `MergedServable`, `AnswersAgree`, `ExpertsArrive`; `EventuallySucceeds`, `PackReachesIndex`, `DownloadCompletes`, `RelayAnswers`, `RequestServed` | 410,250 |
| `generation_regenerate` | as `generation_sessions`, shortened conversations too | `HiddenExact` (violated) | - |
| `generation_slots` | the same | `OneSlotPerConversation` (violated) | - |
| `io_lost_expert` | 7 buffers, experts through the ring | `ExpertsComplete` (violated) | - |
| `io_wait_starves` | 6 buffers, 2 active experts, 5 layers | `WaitCanEnd` (violated) | - |
| `io_failed_read` | ring reads may fail | `UsedBlocksWhole` (violated) | - |
| `catalog_lock` | three jobs, no deaths | `NoLostRecord` (violated) | - |

Deadlock is checked in every run of the engine: it always has a next step. The
tools end, so the runs `tools` and `catalog_lock` do not check it.

### What the run `tools` shows

* *Converters* (`CoreReadable`, `NothingDropped`, `ReadyIsWhole`): the room for
  the manifest is reserved before any expert is counted and is exact; blocks
  neither overlap nor leave gaps; a layer's window of the expert table holds
  its experts only; checkpoints with gaps are refused; "ready" is taken back
  before a rerun touches the core.
* *Streamed conversion* (`CompletedHasCopy`, `SuccessIsServable`,
  `EventuallySucceeds`): through two crashes, what the ledger completes exists,
  success is servable, and repeating the command gets there.
* *Pack* (`PackSound`, `PackReachesIndex`): through three power losses.
* *Download* (`DownloadSound`, `DownloadCompletes`), *catalog* (`CatalogSound`),
  *model operations* (`MergedServable`).
* *Clients* (`AnswersAgree`): for every request and everything the engine may say to
  it, the streamed answer is compared with the one given at once. They agree but for
  the differences the property names (section 6 lists them); a tool call is compared
  in neither its text nor its reason to finish. The REPL's two records stay in step, and
  what the interactive loop prints is the text up to the stop sequence.
* *Relay* (`ConnectionExclusive`, `RelayExact`, `RelayAnswers`): connections that
  break and are replaced under a request never carry two exchanges; until an
  exchange is left in its middle, answers and stored files are exact and
  every request is answered, also when the storage fails.
* *Expert cache* (`ExpertsArrive`, `RequestServed`): short downloads and pruned
  files are noticed by the length check before anything is computed, and
  repeating a request serves it, also if its batch is larger than the cache.

### Why the bounds are enough

* *Compressor.* Ratios 2 and 3 stand for 4 and 128: four positions cross two
  flushes of one layer and one of the other, so a speculation can contain a
  flush in one layer, in the other or in neither. What the
  bounds leave open for rollbacks is proved (section 5).
* *Generation.* Nine positions cross several flushes, allow three turns of a
  conversation, and one request too long for a session. Two slots and three
  conversations make the store evict; a layer finalizes more blocks than
  `BlockCap`. Chains of two contain hit-hit, hit-miss
  and miss, and the cut of the chain at `max_new_tokens`.
* *Layer pass.* Two active experts of three (four in `io_batch`) allow a
  prediction to hit, miss and do both; four buffers make chunks of two and keep
  requests pending; three or more layers let a prefetch be two layers old.
* *Converters.* Checkpoints of two layers and two or three experts: complete,
  with a layer or an expert missing, with a gap, uneven, and without experts;
  all layers or one; no, one or all experts asked for; little and enough free space;
  each command run twice.
* *Streamed conversion and pack.* Three experts of which two go to the worker,
  and two crashes (three runs); four experts in chunks of two and three power
  losses: a first, a middle and a last expert or chunk can be the one the crash
  hits, and a leftover of a leftover occurs.
* *Download and catalog.* Two files of two units, so that a file can be absent,
  started and complete; two faults; servers with and without sizes and ranges
  and a disk that is too small. Two jobs, one death; experts that only the
  source model has, only the tensors give, and both.
* *Relay.* Two handlers, two attempts, two connections, one client that leaves,
  bodies of two units: enough for a thread with an old socket beside one with a
  new, and for half a body. A store starts without the file. The storage may fail
  on the first connection, as often as it is asked, until an exchange was left in its
  middle. Of two HEADs the run has none, nor a HEAD beside a PUT: a HEAD takes the
  steps of a GET without its body.
* *Clients.* Answers of up to three tokens out of a word, a blank, the end of the
  thoughts, a tool block, the stop token and two halves of a character: enough for
  text before, between and after the marks, for blanks to strip at both ends, for a
  split character whole and half, and for an answer that stops, is cut off or
  is as long as it may be.
* *Model operations.* Merges of one or two of four small cores without copies and with
  copies, next to the index or elsewhere.
* *Cache.* Three experts of two units; budgets of none, one, two and three
  experts against batches of up to three; two uploads of one expert, one cut
  off; one connection that ends early or engine that dies.

### Assumptions of the passing runs

* `Regenerate = FALSE`: clients extend a conversation and resend all of it, as
  the REPL and the shim do, except for `/regen` and for the one answer token of the
  REPL's prewarming (`deepseek_chat_repl.py:146-166`), which is not resent. Without the
  assumption the two findings on sessions apply.
* `io_tokens` lets no dense read outlive its pass (`LateReads = FALSE`), has no
  cached layer, and loads experts synchronously (the default configuration with an
  experts pack). With reads of one pass that arrive in the next, or with a layer
  found in the cache while its prefetch is in flight, a duplicate dense block
  can stand in for an expert also there: the finding `io_lost_expert` in
  another setting.
* `io_batch` has no predicting pass; that is what produces late and duplicate
  dense blocks of the wrong layer.
* The experts named in a request are distinct.
* `tools`: `--skip-existing` of the streamed conversion only with
  `--experts-only` (section 6 says what happens otherwise); `CatalogSound` only
  until a dry run has removed another job's lock (`catalog_lock` is the
  counterexample); `PackSound` and `PackReachesIndex` only until a build is
  started over without `--resume`; `RelayExact` and `RelayAnswers` until
  an exchange is left in its middle, by a handler that gives its connection back or by
  a worker whose disk fails, or an answer is begun twice (`rlDesync`);
  `DownloadSound` says nothing of installed files if the server ignores ranges
  (`dlRepo.ranges`); `ExpertsArrive` until two uploads of one expert overlap
  (`esOverlap`), `RequestServed` also only if the budget has room for one expert. But
  for the first, each premise is reachable and false in other behaviours of the same
  run: the model has the behaviours the properties except.

The cases these premises except are themselves hazards of the code, and no property
says that they end well, because they do not: a connection left in the middle of an
exchange, a pack begun again without `--resume`, two uploads of one expert, a server that
ignores ranges. What becomes of them is described in section 6, and the notes of
these hazards in `PROJECT.json` say which part is covered. Full conversions with
`--skip-existing` are covered by no run.

### Fairness

* *Generation* assumes that the thread serving a request keeps taking steps.
  There is one thread and no lock, and every wait for reads is bounded
  (`scheduler_wait_timeout`); a step that fails is a step as well. Writing an
  event blocks as long as a client neither reads nor closes the socket
  (`api.rs` sets no time-out): the assumption is that clients do one of the
  two, and that a remote expert source answers or closes. `RequestEnds` then says
  that the loops terminate: each round of the speculative loop emits a token even
  if every draft is rejected. Fairness is written out, since the serving step is
  enabled exactly when `pc # "idle"`.
* *LayerPass* assumes weak fairness of the pass's own steps and of the kernel
  completing reads that are in flight. No fairness is assumed of
  `RequestFails`: `PassEnds` says that a pass ends without using the 300 s
  budget of a wait.
* *Tools.* A process that runs takes its next step, and the operator (or the
  client of the engine) repeats a command that did not succeed: that is how
  `--resume`, `--skip-existing` and the `.part` files are meant to be used.
  Crashes, faults, clients that leave and lost connections are never fair and
  their number is bounded; the worker need not connect again for `RelayAnswers`,
  because a relay without a worker answers 502. A relay connection that breaks is
  noticed at both ends. That is more than the code ensures: it sets no timeout
  (`zc_reverse_storage_worker.py:91`) and no keepalive, so that a connection that is
  lost in silence leaves the handler, or the worker, waiting. `MCTools` repeats the fairness
  of each part for the part that runs.

## 4. Findings

1. **Restored compressor ahead of the restored prefix**
   (`generation_regenerate`, `generation.rs:527`). A slot that matches a prompt
   only in part restores that part of the KV but the compressor of its end.
2. **Two slots for one conversation** (`generation_slots`,
   `generation.rs:411`), against the comment above it. Harmless for answers,
   wasteful for the store.
3. **A layer computed without an expert** (`io_lost_expert`,
   `generation.rs:3080`). Waits count blocks of the layer, not the blocks asked
   for; an overtaken dense prefetch is counted as an expert.
4. **A wait that cannot end** (`io_wait_starves`, `scheduler.rs:432`). A
   request left pending for want of a buffer is submitted by nobody while the
   pass waits.
5. **Failed and short reads are used** (`io_failed_read`,
   `direct_io.rs:752`), against the specification in `docs/`.
6. **A dry run removes another job's lock** (`catalog_lock`,
   `materialize_deepseek_v4_expert_shards.py:220`). Dry runs never take the
   catalog lock, but their `finally` unlinks it; a third job then works beside
   the first, and the index written last drops the other's records.

Findings 3 and 4 come about by a dense prefetch that is still in flight when
its layer begins.

## 5. The proofs

All proofs hold for every value of the constants under the named assumptions
(`FeedAssumption`, `CompressorAssumption`, `GenerationAssumption`,
`PassAssumption`, `StreamAssumption`, `PackAssumption`, `DownloadAssumption`,
`CatalogAssumption`, `StorageAssumption`, `CacheAssumption`, `RelayAssumption`,
`ConvertAssumption`, `OpsAssumption`, `ClientsAssumption`). Most only give the
constants their types. The last three also say what inputs are, and the code
justifies it:

* `ConvertAssumption`: no two tensors of a checkpoint have one name, layer and expert
  numbers and sizes are not negative, and a layer range is not empty
  (`parse_layer_range`). A layer count of 0 is left out, though the code does not refuse it
  (section 6).
* `OpsAssumption`: a core that is to be merged is readable - a layer's window of the
  expert table holds experts of that layer only, which `CoreAlwaysReadable` proves of
  the cores the converters write (the window may reach beyond the table), and an expert
  file is named for its layer and expert. A row of the router's log is a choice among
  the experts a layer has, and not empty (`parse_probe`).
* `ClientsAssumption`: no token is an empty text, the stop sequence is not empty
  (`parse_stop_sequences` leaves empty ones out, `chat_interface.py:117-120`), and the
  number of messages to keep is not negative.

A theorem that holds only in some settings names them as a hypothesis
(`~Regenerate`, `Unpredicted`, `SkipIsExpertOnly`, `LongPrompts`). Each but the last
is the setting of the passing run that checks the same property; `LongPrompts` is
explained below. The runs evaluate the assumptions.

**CompressorStateProofs** are the lemmas about one layer on which the next two
modules rest: what `FeedLayer`, `RollbackLayer`, `CommitLayer` and `FromCore` do
to a layer that was fed exactly the first `n` entries of a list of inputs
(`FedTo`). They show that after a feed, with or without a flush, with or
without overlap, the state is again `Ideal` of those inputs, and that a rollback
leads back to `Ideal` of any earlier point the snapshots cover. The arithmetic is
that of groups: the pending rows are the inputs since the last multiple of the
ratio, the finalized blocks are the whole groups before it.

**CompressorProofs.** Three properties of the global map for all ratios, all
lengths of pass and all flushes in between: `StateAlwaysIdeal` (a layer is a
function of the inputs it reflects), `UndoAlwaysExact` and `RollbackCorrect` (a
rollback restores the exact earlier state). None is inductive: a rollback restores
what snapshots and history say, and a restore what was saved. `IInv` therefore
says of the running map, of the history and of the saved export that each is
`Ideal` of the same list of inputs.

**GenerationProofs.** For every vocabulary, model, compressor, slot count, chain
length and prompt: types, `HiddenAlwaysExact`, `CompressorAlwaysAgrees`,
`SlotsAlwaysSound`, `PassAlwaysInKv`, and `PromiseKept`: the engine implements
GreedyDecode. The hypothesis of all of them is `~Regenerate`, that clients only
extend their conversations; finding 1 is the counterexample without it.

* The invariant `IInv` has one part per place of the loop (`PrefillInv`,
  `SampleInv`, `TokenInv`, `PassInv`, `VerifyInv`, `StoreInv`). Each says which
  prefix of the tokens, extended by the drafts of a running pass, the KV rows
  (`RowsOf`), the compressor (`LayersFed`) and the hidden states are computed
  from. `SlotExact` says the same of a stored conversation, whose compressor may
  be one position ahead of its rows, and it is what a restore turns back
  into `PrefillInv`; a conversation that only grows never sees that position
  with another token.
* `Input`, what the compressor is fed with, is a constant that has to contain
  every context a request can reach (`GenerationAssumption`); the runs give it
  exactly those.
* A forward pass is a function of the positions, defined by recursion
  (`RunStates`). Its lemmas go by induction over positions, written as "the set
  of positions where it fails has a least element", because the induction
  theorems of the library take an operator that no prover here instantiates.
* `PromiseKept` maps every step to a step of GreedyDecode or a stutter. The
  steps that matter are `Sample`, `VerifyHit` and `VerifyMiss`: the token they
  emit is `Greedy` of exactly the tokens so far because the hidden state is exact,
  and a request finishes only after the last of them.

* `OneSlotAlways`: the store finds at most one slot of the conversation it stores. The
  invariant `OneInv` says that no stored conversation is the beginning of another
  (`Apart`) and that a stored conversation the running prompt matches is a beginning of
  it (`Continued`); two such slots would be beginnings of one list, hence one of the
  other. The hypothesis `LongPrompts` is that a conversation opens with more than one
  token. It does: the templates put a BOS and a role in front of the first message
  (`zc_openai_server.py:108-117`, `deepseek_chat_repl.py:400`) and prewarming skips a
  bare BOS (`deepseek_chat_repl.py:148`). The last token of a prompt is never restored,
  so a prompt of one token matches no slot, whatever conversations begin with it, and
  its answer would belong to all of those. The run has such prompts, but never two
  stored conversations that begin with one of them, so there the property holds
  without the hypothesis.

**IoSchedulerProofs.** For any client that keeps to the protocol, any buffers,
layers and experts: buffers have at most one owner, none leaks, and a popped
block is readable exactly when its read was whole. The strengthening is
`InFlight`: the buffer of a read in flight or just completed is in state
`in_flight`, which is what makes the pump's transition right.

**LayerPassProofs.** Every step of a pass is a step of that protocol or leaves
the scheduler and its blocks alone (`NextStep`), hence `UsesSchedulerAlways`:
LayerPass implements IoScheduler. With the scheduler's own invariant,
`BuffersAlwaysSound` carries over to the pass. The invariant adds `Placed` (the
place a step overwrites is empty: nothing collected outside of a wait, nothing
in use when a dense block arrives) and `Apart` (no block in two places, so
releasing one place takes no block from another). The proof makes no use of the
number of buffers, of a cache policy or of the order of completions, so it
also covers the settings of findings 3 to 5: those lose blocks and time, never
buffers.

The second half is about passes that predict nothing (`Unpredicted`: batches,
requests that name their experts, and scans; and more buffers than active
experts, of which the code has twelve and eight by default). Then
`ExpertsAlwaysComplete`, `WaitsAlwaysEnd` and `DenseAlwaysFound` hold. The code counts blocks where it should know them; the
invariant `Orderly` says when that is the same: the scheduler holds exactly the
reads of the running wait, one per block asked for, nothing is parked, and
outside of waits it is empty. A chunk or a set of active experts fits the
buffers, so everything is submitted before the pass waits (a counting argument
over buffers, tickets and blocks), and a full count is a full set. Findings 3 and 4
are what becomes of these properties when a prefetch outlives its layer.

**ConversionProofs** begins with lemmas about Lists (a sorted list contains each
element once and in order, a selection is where it was, a sum grows by what is added)
and has one part for each of three tools.

* *Streamed conversion*: `CompletedHasCopy` (theorem `LedgerIsTrue`) for any
  plan, any commands and any number of crashes. The invariant `LedgerInv` adds
  what the process knows between two durable writes (`Mem`: the ledger in memory
  is the one on disk; `Turn`: what has become of the file and the upload of the
  expert in hand at each step). `SuccessServes` proves `SuccessIsServable` under
  the explicit hypothesis `SkipIsExpertOnly`, the assumption of the run: the
  invariant `ServedInv` adds that every expert behind the process has its copy
  (`Behind`) and that an exit status of 0 and a finished ledger only appear when
  all is done (`Signs`).
* *Download*: `DownloadSound` (`DownloadAlwaysSound`) for any shards, limits,
  repositories and faults. `Fetching` is what the downloader knows of the
  transfer in hand (above all that an appended body starts where the `.part` file
  ends if the server honours ranges), `Installed` that every installed or
  partial file is a beginning of the remote one, and `Reported` that a report
  stays true because installed files stay. The work left is a set of
  positions in the list of shards, so that no step needs induction over a list.
* *Conversion*: `ReadyIsWhole` (`ReadyAlwaysWhole`) for any checkpoint, any
  commands and any number of dead runs. What makes it inductive is `Filled` (the
  expert files listed so far are whole, but for the one in hand), `Written` (what
  the steps behind the process have left on disk) and `Promised`: the word "ready"
  is only out while no process works on the core. A run takes the word back
  before it touches the core, and only the raw converter says it.
* *Conversion, the core itself*: `CoreReadable` (`CoreAlwaysReadable`) and
  `NothingDropped` (`NothingEverDropped`) for any checkpoint, sizes, alignment and
  range. The invariant `CoreInv` follows the loop over the layers: `Course` (which
  layers are behind, which expert of the current one is in hand), `Tables` (the entries
  so far are those of the layers behind, and a layer's window begins where the table
  ended), `Holdings` (what the blocks and the listed experts contain), `Spent` (the end
  of the last block is header, reserved manifest and the payloads so far, each aligned)
  and `Phase` (what the steps after the loop have written). That the room reserved
  before any expert is counted is what the tables take in the end needs that the
  checkpoint has no gaps, and `NoOthers` says why it has none: a layer that has all
  experts up to the largest number any layer has can have no other.

**ToolProofs**

* *Model operations*: `MergedServable` (`MergedAlwaysServable`) for any readable cores,
  command lines and logs. A manifest or a plan is written in one step, so most of the
  proof is about what the functions behind it return: choosing and sorting the layers
  and filling the expert table leave windows that cut the table exactly
  (`CutExactly`), and the experts of the coverage plan are those included and those hit
  most often. `ManifestInv` keeps this through the later steps, and `MergeInv` adds the
  copying: what is still to be copied comes from a core of the command, and as long
  as the sources are sound every expert of the new table is on that list or has its
  file, with the right bytes, in the directory of the copies, while the sources keep
  theirs (`CopiesSound`; a copy may go to a path that another source reads from). From
  this the index follows when it is written next to the copies (`IndexSound`), and the
  report of the two row tables (`TablesThere`).
* *Clients*: `AnswersAgree` (`AnswersAlwaysAgree`) for any tokens, stop sequence and
  number of turns. The streamed part compares with what the other path makes of *all*
  that the engine says, which the stream may stop before. `StreamInv` says what has been
  sent after each token: what has come is a beginning of what the engine says, without
  its stop token, and the deltas are its text split at the first boundary of the
  reasoning, if the model was to think, and all of it as content otherwise; a stream
  that has ended had all of it or stopped where the property says.
  `ReplInv` is the property itself for the REPL. `TextInv` says of the
  interactive loop that what is printed is the decoded text, or that text up to where
  the stop sequence begins followed by a proper beginning of it. Proving it showed
  that `AnswerIsText` had to except characters that are split over two tokens: the sign
  printed for the first half is never taken back (section 6).

**ExpertFileProofs.** `PackSound` for any number of experts, any chunk size and
any number of power losses (`PackAlwaysSound`). Everything the builder keeps is
an interval of expert numbers; the invariant `Known` relates the three ends -
files deleted, entries, pending - to the pack and to what is synced. The
order sync, verify, delete is what keeps `d <= pkSynced`.

`CatalogSound` for any number of concurrent jobs of both catalog tools
(`CatalogAlwaysSound`). `Locked` is mutual exclusion while no dry run has removed
the lock, `Remembered` that what the working job holds in memory is all that was
ever reported, which is why its write loses nothing, and `FilesWhole` that what
is recorded exists and that at most the file in hand is in part.

`ExpertsArrive` for the storage server and the engine's cache together
(`ExpertsAlwaysArrive`), for any experts, uploads, budgets and requests. The
server's files are nodes that names lead to: `StorageSound` says that a node being
written is led to by one upload and one `.part` name only, so that what a final name
leads to is complete, and `CacheSound` that a fetch reads a node nobody writes any
more, also when an upload replaces the name meanwhile, and has a beginning of it.

`ConnectionExclusive` for any number of handlers, attempts and
connections of the relay (`RelayExclusive`). The property is almost inductive; what has to be
added (`ConnectionNumbers`) is that no handler holds the number of a connection not yet
accepted, so that a new connection has no users. All steps but two are covered
by one lemma (`KeptKeepsInv`): nobody comes to use a connection, and the flag is
cleared only if the current connection has no user left - which is what
comparing sockets in `release` and `drop` achieves.

`RelayExact` for any number of handlers, attempts, connections and units of a
file (`RelayAlwaysExact`), until an exchange is left in its middle, by a handler
or by the worker, or an answer is begun twice (`rlDesync`, which is never taken back).
The handlers and the worker only share queues, so the invariant relates them
there:

* `Exchanges`: the handler that uses a connection is in a `Phase` with it - in
  `PutPhase` what the worker has received and what is under way are together the
  units this attempt has sent (a second attempt sends only what is left of the
  client's body, which is never a whole file); in `GetPhase` either the question or
  a beginning of the answer is under way, and never both; in `CopyPhase` the units
  under way follow those the client has. A phase allows the answer to end early, as
  it does when the connection is lost.
  A 502 of the storage is an answer as any other as long as the worker had the whole
  body; otherwise it sets `rlDesync`.
* `Between`: on an open connection that nobody uses nothing is under way, and the
  worker has no body in hand. This is why a retry or the next request on the same
  connection reads its own answer.
* `OnlyCurrentOpen`: a connection that was replaced is closed. A handler may still
  hold it, but what happens there ends in a failed attempt.
* `Streams`: what the worker finds on its connection is a question or a slice of one
  body, also after the handler has gone. So a body that is cut off is never as long
  as the file, and every stored file is whole. On a closed connection the phase no
  longer says anything of the worker (`ClosedPhase`): it may still store a body whose
  handler is already asking again elsewhere.

### What is only model-checked

* Liveness (`RequestEnds`, `PassEnds`, `EventuallySucceeds`,
  `PackReachesIndex`, `DownloadCompletes`, `RelayAnswers`, `RequestServed`):
  outside the prover's reach, like ENABLED.
* `ExpertsComplete`, `WaitCanEnd`, `DenseFound` for passes that predict: true only
  under the assumptions of section 3, which exclude reads the code does not. A theorem
  would need one more hypothesis: a duplicate of each layer's dense block may come late
  and keep its buffer, parked, until the pass ends, so there would have to be more
  buffers than layers. The run has that (eight and four); the code, with twelve buffers
  and some forty layers, has not, and a theorem about it would say nothing of it.
* `OneSlotPerConversation` for prompts of one token (see `LongPrompts` above); for
  clients that do not resend their conversation it is false (finding 2).
* What the remaining runs violate is false, and not proved: section 4.

All other invariants of the passing runs are stated by a theorem.

## 6. What is abstracted or not modelled

* Numbers: attention, quantization, routing scores and sampling. `Greedy(ctx)`
  is any function of the context; routes and predictions are any sets.
* A KV row requires every row below it to be exact. The code's sliding window
  attends to fewer rows, so the model is the stricter one.
* A layer without compressor tensors and errors about shapes end the request
  or the layer before any state changes; they are left out.
* The expert RAM cache: an expert found there is one that is not among those
  predicted or selected. Which experts it holds is not tracked.
* Ticket numbers, statistics, logging, formats.
* `ZC_PROGRESSIVE`, the MTP module's own KV cache, `wohper_cli.py`, the cluster,
  the benchmarks and the setup scripts.
* The tools: JSON, paths, checksums (an expert's bytes are whole, short or
  another's), quantization, HTTP headers, prompts and chat templates. A file is
  a few units.

### Behaviour found while modelling that no run is about

The models contain these; no document says otherwise, or the statement that
would contradict them is too vague to be a property.

* Conversion: with `--skip-existing` and the dense core wanted, the streamed
  conversion takes any existing output for done and reports success on a partial
  one (`stream_convert_glm52.py:800`). The raw validator accepts a core whose
  manifest is still missing. The single-file converter of a checkpoint without experts
  writes everything and then fails in its summary (`convert_safetensors.py:1211`); this
  is modelled. A `--num-layers 0`, which is not, is noticed only after the output has
  been truncated.
* Pack: an index that was half written blocks every later run, though the build
  is described as resumable; a build without `--resume` truncates the only copy
  of experts already deleted.
* Download: a `.part` file that is complete is asked for beyond its end and
  refused (416) for ever; two bodies cut short by a server without ranges add up
  to the right length; the own `.part` file is counted twice against free space.
* Catalog: the index is rewritten in place; `--overwrite` of a hardlinked file
  changes the source model; a killed job leaves its lock; what an interrupted
  job wrote in part is recorded by a later reuse job
  (`reuse_deepseek_v4_expert_catalog.py:158`).
* Relay: a PUT through a worker without `--storage-root` stores an empty file and
  answers 201 (`zc_reverse_storage_worker.py:109-117`); a PUT that fails half-way
  leaves a connection on which the next frame is taken for its body
  (`zc_reverse_storage_master.py:144-147`), and so does a worker that answers 502 before
  it has read the body; an attempt is repeated after headers
  were sent (159-181); a connection lost in silence is waited for without end.
* Storage server: two PUTs of one expert share the `.part` file
  (`zc_expert_storage_server.py:114`): the first to finish renames the file the
  second has emptied, and answers 201.
* Cache: with a budget of 0 and a remote source every fetched file is pruned
  before it is loaded and every request fails; a batch larger than the budget
  fails first and gets through when repeated; the directory can outgrow
  `max_bytes`, since the index is empty at the start of each request.
* Model operations: without `--experts-out-dir` a merge keeps paths relative to
  its sources (`merge_smoke_models.py:354`), and with one that is not next to the index
  the index names `experts/...` all the same and does not lead to the copies (327-335,
  354); its index has no `dense_layers`, so
  the tensor index refuses it; experts inside a single `MODEL.bin` are not merged.
* Clients: the interactive loop prints a sign for the first half of a character that is
  split over two tokens and does not print the character once it has both (it compares
  lengths only, `chat_interface.py`, `print_decoded_token`); reasoning cut off before `</think>` is streamed as reasoning and
  returned as content; the tool-call format is recognised only in the buffered
  path; an answer that the engine cuts off ends with "length" when it is streamed (399)
  and with "stop" when it is not (`zc_openai_server.py:310`); for a model that was not to
  think the stream ends at a `</think>` (406-408), while the other path goes on, makes
  what came before it reasoning and may end with "length" (302-311); only the
  buffered path strips blanks (178-182); a receive without time-out holds `ENGINE_LOCK`;
  `/regen` after a failed answer drops the exchange
  (`deepseek_chat_repl.py:486-503`); `--history-messages 0` keeps everything
  (`chat_interface.py:452`).

## 7. Plan

In order of importance:

1. The progressive mode of LayerPass, the contents of the expert RAM cache, and
   the layer pass composed with the disk cache (a pruned path failing a batch in
   the middle of a pass).
2. Proofs: a bound on the duplicates a pass that predicts can collect, from the order
   in which its reads complete, as a hypothesis the code could satisfy.
3. `wohper_cli.py`, the parsing limits of the request server, the cluster once it
   continues a pass remotely.
