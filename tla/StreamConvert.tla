---------------------------- MODULE StreamConvert ----------------------------
(***************************************************************************)
(* stream_convert_glm52.py: experts are converted one by one from a remote *)
(* checkpoint, some are uploaded to a worker's expert store and may then   *)
(* be deleted locally; a ledger records what is done, and --skip-existing  *)
(* uses it after a crash. Each durable write is an action of its own, and  *)
(* the process may end between any two of them. The operator repeats the   *)
(* same command until it exits with 0.                                     *)
(*                                                                         *)
(* A command is [expertsOnly, skip, worker, delete, keepLedger, sent]:     *)
(* "sent" is the set of experts should_send_to_worker holds for.           *)
(***************************************************************************)
EXTENDS Integers, Sequences, FiniteSets, SequencesExt

CONSTANTS
    Plan,             \* the experts to convert, in the order of the loops
    StreamCommands,   \* the command lines considered
    MaxStreamCrashes  \* bound: how often a run dies or is refused

\* load_expert_plan reads sets of ids: no expert is planned twice.
ASSUME StreamAssumption ==
    /\ Plan \in Seq(Range(Plan))
    /\ \A i, j \in DOMAIN Plan : Plan[i] = Plan[j] => i = j
    /\ StreamCommands \subseteq
          [expertsOnly : BOOLEAN, skip : BOOLEAN, worker : BOOLEAN, delete : BOOLEAN,
           keepLedger : BOOLEAN, sent : SUBSET Range(Plan)]
    /\ MaxStreamCrashes \in Nat

VARIABLES
    scCmd,      \* the command line, the same for every run
    scProc,     \* the process: pc, next expert, ledger in memory, exit status;
                \* and how many runs have died or were refused
    scLedger,   \* the ledger file: experts completed, uploaded; finished
    scFile,     \* local expert files: absent, partial or whole
    scWorker,   \* the experts the worker stores
    scCore,     \* dense_core.bin: absent, partial or whole
    scIndex     \* the shard index: its state, and whether remote_fetch is on

scDisk == <<scLedger, scFile, scWorker, scCore, scIndex>>
scVars == <<scCmd, scProc, scDisk>>

Wanted == Range(Plan)

EmptyLedger == [done |-> {}, uploaded |-> {}, finished |-> FALSE]

\* Between two runs: the status of the last one, and how many runs have died.
Stopped(status, died) ==
    [pc |-> "stopped", next |-> 1, mem |-> EmptyLedger, exit |-> status, died |-> died]

StreamInit ==
    /\ scCmd \in StreamCommands
    /\ scProc = Stopped("none", 0)
    /\ scLedger = EmptyLedger
    /\ scFile = [x \in Wanted |-> "absent"]
    /\ scWorker = {}
    /\ scCore = "absent"
    /\ scIndex = [state |-> "absent", remote |-> FALSE]

In(pc) == scProc.pc = pc
Step(pc) == scProc' = [scProc EXCEPT !.pc = pc]
X == Plan[scProc.next]

\* ledger_event and save_ledger: the event enters the ledger in memory, which
\* is saved by rename; without --resume-ledger nothing is saved.
Log(ledger, pc) ==
    /\ scProc' = [scProc EXCEPT !.mem = ledger, !.pc = pc]
    /\ scLedger' = IF scCmd.keepLedger THEN ledger ELSE scLedger

---------------------------------------------------------------------------
\* --skip-existing looks for the output of an earlier run: a full conversion
\* for the two files, an expert-only one for the index and the ledger's word.
OutputPresent(ledger) ==
    /\ scCmd.skip /\ scIndex.state # "absent"
    /\ IF scCmd.expertsOnly THEN ledger.finished ELSE scCore # "absent"

StartRefusing ==   \* mutant: the index of an unfinished run is not overwritten
    /\ In("stopped") /\ scProc.exit # "ok"
    /\ LET started == [scProc EXCEPT !.mem = scLedger, !.exit = "none"]
       IN  scProc' = IF OutputPresent(scLedger) \/ scIndex.state # "absent"
                     THEN [started EXCEPT !.mem = EmptyLedger,
                                          !.exit = IF OutputPresent(scLedger) THEN "ok" ELSE "failed"]
                     ELSE [started EXCEPT !.pc = IF scCmd.expertsOnly THEN "expert" ELSE "core"]
    /\ UNCHANGED <<scCmd, scDisk>>

\* The start of convert_stream and of convert_experts_only up to the ledger's
\* conversion_started event, which leaves the finished flag alone.
StartStream ==
    /\ In("stopped") /\ scProc.exit # "ok"
    /\ LET ledger == IF scCmd.keepLedger THEN scLedger ELSE EmptyLedger
           started == [scProc EXCEPT !.mem = ledger, !.exit = "none"]
       IN  scProc' = IF OutputPresent(ledger)
                     THEN [started EXCEPT !.mem = EmptyLedger, !.exit = "ok"]
                     ELSE [started EXCEPT !.pc = IF scCmd.expertsOnly THEN "expert" ELSE "core"]
    /\ UNCHANGED <<scCmd, scDisk>>

\* The core is truncated before the first dense block is written to it.
OpenCore ==
    /\ In("core")
    /\ Step("expert")
    /\ scCore' = "partial"
    /\ UNCHANGED <<scCmd, scLedger, scFile, scWorker, scIndex>>

MustUpload == scCmd.worker /\ X \in scCmd.sent

\* A completed expert is skipped when its file has the recorded size, or when it
\* was uploaded and the worker answers the HEAD request with that size. The
\* worker may not answer: then the expert is converted again.
SkipLocal ==
    /\ scCmd.skip /\ X \in scProc.mem.done
    /\ scFile[X] = "whole"

SkipWorker ==
    /\ scCmd.skip /\ X \in scProc.mem.done
    /\ scFile[X] # "whole"
    /\ MustUpload /\ X \in scProc.mem.uploaded
    /\ X \in scWorker

SkipExisting ==
    /\ In("expert") /\ scProc.next <= Len(Plan)
    /\ \/ SkipLocal /\ Step(IF MustUpload THEN "upload" ELSE "log")
       \/ SkipWorker /\ Step("log")
    /\ UNCHANGED <<scCmd, scDisk>>

OpenExpertLogged ==   \* mutant: the expert is recorded before it is written
    /\ In("expert") /\ scProc.next <= Len(Plan)
    /\ ~SkipLocal
    /\ Step("log")
    /\ scFile' = [scFile EXCEPT ![X] = "partial"]
    /\ UNCHANGED <<scCmd, scLedger, scWorker, scCore, scIndex>>

\* write_stream_block_payload fills a temporary file; write_aligned_file then
\* opens the expert under its final name ...
OpenExpert ==
    /\ In("expert") /\ scProc.next <= Len(Plan)
    /\ ~SkipLocal
    /\ Step("write")
    /\ scFile' = [scFile EXCEPT ![X] = "partial"]
    /\ UNCHANGED <<scCmd, scLedger, scWorker, scCore, scIndex>>

\* ... and copies it there.
WriteExpert ==
    /\ In("write")
    /\ Step(IF MustUpload THEN "upload" ELSE "log")
    /\ scFile' = [scFile EXCEPT ![X] = "whole"]
    /\ UNCHANGED <<scCmd, scLedger, scWorker, scCore, scIndex>>

\* put_file: the worker replaces its file when the body is complete. The answer
\* may be lost, in which case the request is repeated or the process gives up. (The
\* check that the local file is still there never fails: only this process deletes it.)
UploadArrives ==
    /\ In("upload")
    /\ scWorker' = scWorker \cup {X}
    /\ \/ Step("uploaded")
       \/ UNCHANGED scProc
    /\ UNCHANGED <<scCmd, scLedger, scFile, scCore, scIndex>>

LogUploaded ==
    /\ In("uploaded")
    /\ Log([scProc.mem EXCEPT !.uploaded = @ \cup {X}],
           IF scCmd.delete THEN "unlink" ELSE "log")
    /\ UNCHANGED <<scCmd, scFile, scWorker, scCore, scIndex>>

DeleteUploaded ==
    /\ In("unlink")
    /\ Step("log")
    /\ scFile' = [scFile EXCEPT ![X] = "absent"]
    /\ UNCHANGED <<scCmd, scLedger, scWorker, scCore, scIndex>>

\* The expert_converted event; the loop goes on to the next expert.
LogConverted ==
    /\ In("log")
    /\ LET ledger == [scProc.mem EXCEPT !.done = @ \cup {X}]
       IN  /\ scProc' = [scProc EXCEPT !.mem = ledger, !.pc = "expert", !.next = @ + 1]
           /\ scLedger' = IF scCmd.keepLedger THEN ledger ELSE scLedger
    /\ UNCHANGED <<scCmd, scFile, scWorker, scCore, scIndex>>

\* Header and manifest complete the core; an expert-only run has none.
FinishCore ==
    /\ In("expert") /\ scProc.next > Len(Plan)
    /\ Step("index")
    /\ scCore' = IF scCmd.expertsOnly THEN scCore ELSE "whole"
    /\ UNCHANGED <<scCmd, scLedger, scFile, scWorker, scIndex>>

\* write_sharded_index writes in place, with remote_fetch disabled ...
OpenIndex ==
    /\ In("index")
    /\ Step("write_index")
    /\ scIndex' = [state |-> "partial", remote |-> FALSE]
    /\ UNCHANGED <<scCmd, scLedger, scFile, scWorker, scCore>>

WriteIndex ==
    /\ In("write_index")
    /\ Step("patch")
    /\ scIndex' = [state |-> "whole", remote |-> FALSE]
    /\ UNCHANGED <<scCmd, scLedger, scFile, scWorker, scCore>>

PatchFullOnly ==   \* mutant: an expert-only run leaves remote fetching off
    /\ In("patch")
    /\ Step("finish")
    /\ scIndex' = [scIndex EXCEPT !.remote = scCmd.worker /\ ~scCmd.expertsOnly]
    /\ UNCHANGED <<scCmd, scLedger, scFile, scWorker, scCore>>

\* ... which patch_remote_fetch_in_shard_index then enables, by rename.
PatchRemoteFetch ==
    /\ In("patch")
    /\ Step("finish")
    /\ scIndex' = [scIndex EXCEPT !.remote = scCmd.worker]
    /\ UNCHANGED <<scCmd, scLedger, scFile, scWorker, scCore>>

\* The conversion_finished event ...
LogFinished ==
    /\ In("finish")
    /\ Log([scProc.mem EXCEPT !.finished = TRUE], "exit")
    /\ UNCHANGED <<scCmd, scFile, scWorker, scCore, scIndex>>

\* ... and main returns 0.
ReturnZero ==
    /\ In("exit")
    /\ scProc' = Stopped("ok", scProc.died)
    /\ UNCHANGED <<scCmd, scDisk>>

\* A crash, or a request to the checkpoint or to the worker that fails after its
\* retries: either way nothing more is written.
StreamDies ==
    /\ ~In("stopped") /\ scProc.died < MaxStreamCrashes
    /\ scProc' = Stopped("failed", scProc.died + 1)
    /\ UNCHANGED <<scCmd, scDisk>>

\* preflight_space: too little room on this machine or on the worker. Nothing has
\* been touched, and for a later run there may be room.
preflight_space ==
    /\ In("stopped") /\ scProc.exit # "ok" /\ scProc.died < MaxStreamCrashes
    /\ scProc' = Stopped("failed", scProc.died + 1)
    /\ UNCHANGED <<scCmd, scDisk>>

\* The loop body both procedures share.
ConvertExpert ==
    \/ SkipExisting \/ OpenExpert \/ WriteExpert \/ UploadArrives
    \/ LogUploaded \/ DeleteUploaded \/ LogConverted

Publish == FinishCore \/ OpenIndex \/ WriteIndex \/ PatchRemoteFetch \/ LogFinished \/ ReturnZero

convert_stream == ~scCmd.expertsOnly /\ (OpenCore \/ ConvertExpert \/ Publish)

convert_experts_only == scCmd.expertsOnly /\ (ConvertExpert \/ Publish)

StreamWork == StartStream \/ convert_stream \/ convert_experts_only

StreamNext == StreamWork \/ StreamDies \/ preflight_space

\* The command is started again until it succeeds, and a run that is left alone
\* goes on: nothing in it waits for anybody but the worker, whose answers are
\* counted among its steps.
StreamSpec == StreamInit /\ [][StreamNext]_scVars /\ WF_scVars(StreamWork)

---------------------------------------------------------------------------
(* Properties *)

Copy(x) == scFile[x] = "whole" \/ x \in scWorker

\* An expert the ledger records as completed has a whole copy, in its local file
\* or on the worker, whatever the order of crashes, uploads and deletions: this
\* is what --skip-existing relies on. (A command without --skip-existing rewrites
\* the local files of an earlier run in place.)
CompletedHasCopy ==
    scCmd.skip => \A x \in scLedger.done : Copy(x)

\* When the command exits with 0 the model can be served: the shard index is whole,
\* the core is whole, and every expert is in its local file or else on the worker
\* with remote fetching enabled in the index.
SuccessIsServable ==
    scProc.exit = "ok" =>
        /\ scIndex.state = "whole"
        /\ ~scCmd.expertsOnly => scCore = "whole"
        /\ \A x \in Wanted : scFile[x] = "whole" \/ (scIndex.remote /\ x \in scWorker)

\* Runs may die anywhere, but repeating the command gets it through: no crash
\* leaves a disk on which every later run gives up.
EventuallySucceeds == <>(scProc.exit = "ok")
=============================================================================
