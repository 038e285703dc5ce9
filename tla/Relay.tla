-------------------------------- MODULE Relay --------------------------------
(***************************************************************************)
(* The way of an expert file to and from a storage machine behind NAT:     *)
(*   zc_reverse_storage_master.py  serves HTTP; every handler thread takes *)
(*     the one worker connection, sends a request frame, copies bodies     *)
(*   zc_reverse_storage_worker.py  connects out, serves frames in order    *)
(*   zc_expert_storage_server.py   holds the files                         *)
(* A connection carries a queue of items each way: frames and body units.  *)
(* Clients may go away, the worker may lose its connection.                *)
(*                                                                         *)
(* A file's content is a sequence of units; expert e is whole if it is     *)
(* Body(e). A frame that is read as a unit is Junk.                        *)
(***************************************************************************)
EXTENDS Integers, Sequences, FiniteSets, SequencesExt

CONSTANTS
    Handlers,       \* HTTP requests, one thread each
    ExpertFiles,    \* the expert files
    BodyUnits,      \* units in a file
    MaxAttempts,    \* 8 in the code
    MaxConnections, \* bound: how often the worker connects
    MaxGone         \* bound: how many clients go away

ASSUME RelayAssumption ==
    /\ BodyUnits \in Nat
    /\ "none" \notin ExpertFiles   \* the name of no expert

VARIABLES
    rlConn,    \* the connections, in the order in which they were accepted
    rlSock,    \* WorkerConnection: sock (0 is None) and busy
    rlReq,     \* the handlers
    rlWorker,  \* the worker: its connection, and the body it is receiving
    rlFile,    \* the files of the storage machine
    rlDesync   \* whether a connection was given back in the middle of an exchange,
               \* the worker left one, or an answer was begun twice

rlVars == <<rlConn, rlSock, rlReq, rlWorker, rlFile, rlDesync>>

None == 0
Body(e) == [i \in 1 .. BodyUnits |-> <<"unit", e, i>>]
Junk == <<"junk">>
NoBody == [expert |-> "none", got |-> <<>>]

Requests == [method : {"GET", "HEAD", "PUT"}, expert : ExpertFiles]

RelayInit ==
    /\ rlConn = <<>>
    /\ rlSock = [sock |-> None, busy |-> FALSE]
    /\ \E r \in [Handlers -> Requests] :
          rlReq = [h \in Handlers |-> [method |-> r[h].method, expert |-> r[h].expert,
                      pc |-> "enter", attempt |-> 1, worker |-> None, unread |-> BodyUnits,
                      need |-> 0, gone |-> FALSE, answer |-> <<>>]]
    /\ rlWorker = [conn |-> None, body |-> NoBody]
    /\ \E stored \in SUBSET ExpertFiles :
          rlFile = [e \in ExpertFiles |-> IF e \in stored THEN Body(e) ELSE <<>>]
    /\ rlDesync = FALSE

Req(h) == rlReq[h]
RqAt(h, pc) == Req(h).pc = pc
RqGoto(h, pc) == rlReq' = [rlReq EXCEPT ![h].pc = pc]
IsOpen(c) == c # None /\ rlConn[c].open

---------------------------------------------------------------------------
(* WorkerConnection *)

\* set: a new connection replaces the old one, whoever still uses that; whoever
\* does finds it closed.
SetSock ==
    /\ rlSock' = [sock |-> Len(rlConn) + 1, busy |-> FALSE]
    /\ rlConn' = Append(IF rlSock.sock = None THEN rlConn
                        ELSE [rlConn EXCEPT ![rlSock.sock].open = FALSE,
                                            ![rlSock.sock].up = <<>>],
                        [open |-> TRUE, down |-> <<>>, up |-> <<>>])

\* drop: only the current connection is forgotten; the given one is closed anyway.
DropSock(c) ==
    /\ rlSock' = IF rlSock.sock = c THEN [sock |-> None, busy |-> FALSE] ELSE rlSock
    /\ rlConn' = IF c = None THEN rlConn ELSE [rlConn EXCEPT ![c].open = FALSE]

ReleaseAny(c) == rlSock' = [rlSock EXCEPT !.busy = FALSE]   \* mutant: of any connection

\* release: only of the current connection.
ReleaseSock(c) ==
    rlSock' = IF rlSock.sock = c THEN [rlSock EXCEPT !.busy = FALSE] ELSE rlSock

\* The end of an attempt: after the last one the client gets a 502.
Retried(h) ==
    IF Req(h).attempt < MaxAttempts
    THEN [Req(h) EXCEPT !.pc = "enter", !.attempt = @ + 1]
    ELSE [Req(h) EXCEPT !.pc = "done", !.answer = Append(@, 502)]

\* begin_request, under the condition: without a connection wait for one ...
EnterRequest(h) ==
    /\ RqAt(h, "enter") /\ rlSock.sock # None
    /\ RqGoto(h, "wait")
    /\ UNCHANGED <<rlConn, rlSock, rlWorker, rlFile, rlDesync>>

\* ... for 30 seconds.
NoWorkerConnected(h) ==
    /\ RqAt(h, "enter") /\ rlSock.sock = None
    /\ rlReq' = [rlReq EXCEPT ![h] = Retried(h)]
    /\ ReleaseSock(Req(h).worker)
    /\ UNCHANGED <<rlConn, rlWorker, rlFile, rlDesync>>

\* Then wait while it is busy, and take whatever connection there is by then.
TakeWorker(h) ==
    /\ RqAt(h, "wait") /\ ~rlSock.busy
    /\ rlSock' = [rlSock EXCEPT !.busy = TRUE]
    /\ rlReq' = [rlReq EXCEPT ![h].pc = "send", ![h].worker = rlSock.sock]
    /\ UNCHANGED <<rlConn, rlWorker, rlFile, rlDesync>>

\* The request frame is written outside the lock. A PUT goes on with the client's
\* body, of which a repeated attempt finds only the rest.
SendFrame(h) ==
    /\ RqAt(h, "send") /\ IsOpen(Req(h).worker)
    /\ rlConn' = [rlConn EXCEPT ![Req(h).worker].down =
                     Append(@, <<"frame", Req(h).method, Req(h).expert>>)]
    /\ rlReq' = [rlReq EXCEPT ![h].pc = IF Req(h).method = "PUT" THEN "send_body" ELSE "read",
                              ![h].need = BodyUnits]
    /\ UNCHANGED <<rlSock, rlWorker, rlFile, rlDesync>>

SendFails(h) ==
    /\ RqAt(h, "send") /\ ~IsOpen(Req(h).worker)
    /\ DropSock(Req(h).worker)
    /\ rlReq' = [rlReq EXCEPT ![h] = Retried(h)]
    /\ UNCHANGED <<rlWorker, rlFile, rlDesync>>

---------------------------------------------------------------------------
(* RelayHttpHandler._proxy *)

\* An attempt that fails outside request() keeps the connection and gives it back,
\* whatever is still on its way there; and the answer may have begun.
GiveBackAndRetry(h) ==
    /\ ReleaseSock(Req(h).worker)
    /\ rlReq' = [rlReq EXCEPT ![h] = Retried(h)]
    /\ rlDesync' = (rlDesync \/ IsOpen(Req(h).worker) \/ Req(h).answer # <<>>)

SendBodyUnit(h) ==
    /\ RqAt(h, "send_body") /\ Req(h).need > 0 /\ Req(h).unread > 0
    /\ ~Req(h).gone /\ IsOpen(Req(h).worker)
    /\ rlConn' = [rlConn EXCEPT ![Req(h).worker].down =
                     Append(@, Body(Req(h).expert)[BodyUnits - Req(h).unread + 1])]
    /\ rlReq' = [rlReq EXCEPT ![h].need = @ - 1, ![h].unread = @ - 1]
    /\ UNCHANGED <<rlSock, rlWorker, rlFile, rlDesync>>

BodySent(h) ==
    /\ RqAt(h, "send_body") /\ Req(h).need = 0
    /\ RqGoto(h, "read")
    /\ UNCHANGED <<rlConn, rlSock, rlWorker, rlFile, rlDesync>>

\* The client is gone, the connection is gone, or an earlier attempt consumed part of
\* the body and the client, waiting for its answer, closes in the end.
BodyFails(h) ==
    /\ RqAt(h, "send_body") /\ Req(h).need > 0
    /\ Req(h).gone \/ ~IsOpen(Req(h).worker) \/ Req(h).unread = 0
    /\ GiveBackAndRetry(h)
    /\ UNCHANGED <<rlConn, rlWorker, rlFile>>

Answers(h) == rlConn[Req(h).worker].up

ReadResponse(h) ==
    /\ RqAt(h, "read") /\ Answers(h) # <<>> /\ Head(Answers(h))[1] = "frame"
    /\ rlConn' = [rlConn EXCEPT ![Req(h).worker].up = Tail(@)]
    /\ rlReq' = [rlReq EXCEPT ![h].pc = "headers", ![h].need = Head(Answers(h))[3],
                              ![h].answer = IF Req(h).gone THEN @ ELSE Append(@, Head(Answers(h))[2])]
    /\ UNCHANGED <<rlSock, rlWorker, rlFile, rlDesync>>

\* What is not a frame, or the end of the connection: request() drops the connection,
\* the PUT branch only gives it back.
ReadFails(h) ==
    /\ RqAt(h, "read")
    /\ IF Answers(h) = <<>> THEN ~IsOpen(Req(h).worker) ELSE Head(Answers(h))[1] # "frame"
    /\ IF Req(h).method = "PUT"
       THEN GiveBackAndRetry(h) /\ UNCHANGED rlConn
       ELSE /\ DropSock(Req(h).worker)
            /\ rlReq' = [rlReq EXCEPT ![h] = Retried(h)]
            /\ UNCHANGED rlDesync
    /\ UNCHANGED <<rlWorker, rlFile>>

\* The answer's headers reach the client unless it is gone; a HEAD ends here.
HeadersSent(h) ==
    /\ RqAt(h, "headers") /\ ~Req(h).gone
    /\ IF Req(h).method = "HEAD"
       THEN RqGoto(h, "done") /\ ReleaseSock(Req(h).worker)
       ELSE RqGoto(h, "copy") /\ UNCHANGED rlSock
    /\ UNCHANGED <<rlConn, rlWorker, rlFile, rlDesync>>

CopyUnit(h) ==
    /\ RqAt(h, "copy") /\ Req(h).need > 0 /\ Answers(h) # <<>> /\ ~Req(h).gone
    /\ rlConn' = [rlConn EXCEPT ![Req(h).worker].up = Tail(@)]
    /\ rlReq' = [rlReq EXCEPT ![h].need = @ - 1, ![h].answer = Append(@, Head(Answers(h)))]
    /\ UNCHANGED <<rlSock, rlWorker, rlFile, rlDesync>>

CopyDoneKeeping(h) ==   \* mutant: the connection is not released
    /\ RqAt(h, "copy") /\ Req(h).need = 0
    /\ RqGoto(h, "done")
    /\ UNCHANGED <<rlConn, rlSock, rlWorker, rlFile, rlDesync>>

CopyDone(h) ==
    /\ RqAt(h, "copy") /\ Req(h).need = 0
    /\ RqGoto(h, "done")
    /\ ReleaseSock(Req(h).worker)
    /\ UNCHANGED <<rlConn, rlWorker, rlFile, rlDesync>>

\* The client or the worker goes away in the middle of an answer: the attempt is
\* repeated although the client may already have headers and part of the body.
CopyFails(h) ==
    /\ \/ RqAt(h, "headers") /\ Req(h).gone
       \/ /\ RqAt(h, "copy") /\ Req(h).need > 0
          /\ Req(h).gone \/ (Answers(h) = <<>> /\ ~IsOpen(Req(h).worker))
    /\ GiveBackAndRetry(h)
    /\ UNCHANGED <<rlConn, rlWorker, rlFile>>

ClientGone(h) ==
    /\ ~RqAt(h, "done") /\ ~Req(h).gone
    /\ Cardinality({k \in Handlers : Req(k).gone}) < MaxGone
    /\ rlReq' = [rlReq EXCEPT ![h].gone = TRUE]
    /\ UNCHANGED <<rlConn, rlSock, rlWorker, rlFile, rlDesync>>

_proxy(h) ==
    \/ EnterRequest(h) \/ NoWorkerConnected(h) \/ TakeWorker(h) \/ SendFrame(h) \/ SendFails(h)
    \/ SendBodyUnit(h) \/ BodySent(h) \/ BodyFails(h) \/ ReadResponse(h) \/ ReadFails(h)
    \/ HeadersSent(h) \/ CopyUnit(h) \/ CopyDone(h) \/ CopyFails(h)

---------------------------------------------------------------------------
(* The worker and the storage server behind it *)

\* main of the worker connects again after every error; the relay's accept loop
\* makes the new connection the current one.
worker_accept_loop ==
    /\ rlWorker.conn = None /\ Len(rlConn) < MaxConnections
    /\ SetSock
    /\ rlWorker' = [conn |-> Len(rlConn) + 1, body |-> NoBody]
    /\ UNCHANGED <<rlReq, rlFile, rlDesync>>

Down == rlConn[rlWorker.conn].down

\* What the storage server answers: the headers and, to a GET, the body.
ServeExpert(method, e) ==
    IF rlFile[e] = <<>> THEN <<<<"frame", 404, 0>>>>
    ELSE IF method = "HEAD" THEN <<<<"frame", 200, 0>>>>
    ELSE <<<<"frame", 200, Len(rlFile[e])>>>> \o rlFile[e]

\* What the worker answers if the storage server or the disk fails it. Bounds: before the
\* last connection, and until an exchange was left in its middle.
StorageError == <<<<"frame", 502, 0>>>>
StorageMayFail == Len(rlConn) < MaxConnections /\ ~rlDesync

\* serve_forever: the next frame is a request.
ServeRequest ==
    /\ rlWorker.conn # None /\ rlWorker.body = NoBody
    /\ Down # <<>> /\ Head(Down)[1] = "frame" /\ Head(Down)[2] # "PUT"
    /\ \E answer \in {ServeExpert(Head(Down)[2], Head(Down)[3])}
                        \cup {w \in {StorageError} : StorageMayFail} :
          rlConn' = [rlConn EXCEPT ![rlWorker.conn].down = Tail(@),
                        ![rlWorker.conn].up = IF IsOpen(rlWorker.conn) THEN @ \o answer ELSE @]
    /\ UNCHANGED <<rlSock, rlReq, rlWorker, rlFile, rlDesync>>

\* write_put_body_to_storage opens a temporary file and takes the next units of
\* the connection for its body, whatever they are ...
OpenPut ==
    /\ rlWorker.conn # None /\ rlWorker.body = NoBody
    /\ Down # <<>> /\ Head(Down)[1] = "frame" /\ Head(Down)[2] = "PUT"
    /\ rlConn' = [rlConn EXCEPT ![rlWorker.conn].down = Tail(@)]
    /\ rlWorker' = [rlWorker EXCEPT !.body = [expert |-> Head(Down)[3], got |-> <<>>]]
    /\ UNCHANGED <<rlSock, rlReq, rlFile, rlDesync>>

TakeUnit ==
    /\ rlWorker.body # NoBody /\ Len(rlWorker.body.got) < BodyUnits /\ Down # <<>>
    /\ rlConn' = [rlConn EXCEPT ![rlWorker.conn].down = Tail(@)]
    /\ rlWorker' = [rlWorker EXCEPT !.body.got =
                       Append(@, IF Head(Down)[1] = "unit" THEN Head(Down) ELSE Junk)]
    /\ UNCHANGED <<rlSock, rlReq, rlFile, rlDesync>>

\* ... and gives it its name when it has the announced length.
StorePut ==
    /\ rlWorker.body # NoBody /\ Len(rlWorker.body.got) = BodyUnits
    /\ rlFile' = [rlFile EXCEPT ![rlWorker.body.expert] = rlWorker.body.got]
    /\ rlConn' = [rlConn EXCEPT ![rlWorker.conn].up =
                     IF IsOpen(rlWorker.conn) THEN Append(@, <<"frame", 201, 0>>) ELSE @]
    /\ rlWorker' = [rlWorker EXCEPT !.body = NoBody]
    /\ UNCHANGED <<rlSock, rlReq, rlDesync>>

\* The disk fails the worker at any step of this: it answers 502, forgets the body, and
\* takes what is still to come of it for the next request.
PutFails ==
    /\ rlWorker.body # NoBody /\ StorageMayFail
    /\ rlConn' = [rlConn EXCEPT ![rlWorker.conn].up =
                     IF IsOpen(rlWorker.conn) THEN @ \o StorageError ELSE @]
    /\ rlDesync' = (Len(rlWorker.body.got) < BodyUnits)
    /\ rlWorker' = [rlWorker EXCEPT !.body = NoBody]
    /\ UNCHANGED <<rlSock, rlReq, rlFile>>

\* A request that is no frame, or the end of the connection: an incomplete body is
\* thrown away, and the worker connects again.
LeaveConnection ==
    /\ rlWorker.conn # None
    /\ IF Down = <<>> THEN ~IsOpen(rlWorker.conn)
       ELSE rlWorker.body = NoBody /\ Head(Down)[1] # "frame"
    /\ Len(rlWorker.body.got) < BodyUnits
    /\ rlConn' = [rlConn EXCEPT ![rlWorker.conn].open = FALSE]
    /\ rlWorker' = [conn |-> None, body |-> NoBody]
    /\ UNCHANGED <<rlSock, rlReq, rlFile, rlDesync>>

ConnectionLostStoring ==   \* mutant: what has arrived of a body is stored
    /\ rlWorker.conn # None /\ Len(rlConn) < MaxConnections
    /\ rlConn' = [rlConn EXCEPT ![rlWorker.conn] = [open |-> FALSE, down |-> <<>>, up |-> @.up]]
    /\ rlFile' = IF rlWorker.body = NoBody THEN rlFile
                 ELSE [rlFile EXCEPT ![rlWorker.body.expert] = rlWorker.body.got]
    /\ rlWorker' = [conn |-> None, body |-> NoBody]
    /\ UNCHANGED <<rlSock, rlReq, rlDesync>>

\* The connection breaks, or the worker is restarted: what it has sent may still
\* arrive in part.
ConnectionLost ==
    /\ rlWorker.conn # None /\ Len(rlConn) < MaxConnections
    /\ \E n \in 0 .. Len(rlConn[rlWorker.conn].up) :
          rlConn' = [rlConn EXCEPT ![rlWorker.conn] =
                       [open |-> FALSE, down |-> <<>>, up |-> SubSeq(@.up, 1, n)]]
    /\ rlWorker' = [conn |-> None, body |-> NoBody]
    /\ UNCHANGED <<rlSock, rlReq, rlFile, rlDesync>>

serve_forever ==
    ServeRequest \/ OpenPut \/ TakeUnit \/ StorePut \/ PutFails \/ LeaveConnection

RelayNext ==
    \/ \E h \in Handlers : _proxy(h) \/ ClientGone(h)
    \/ worker_accept_loop \/ serve_forever \/ ConnectionLost

\* Every handler thread and the worker go on when they can; connections need not
\* break and clients need not leave.
RelaySpec ==
    /\ RelayInit /\ [][RelayNext]_rlVars
    /\ \A h \in Handlers : WF_rlVars(_proxy(h))
    /\ WF_rlVars(serve_forever)

---------------------------------------------------------------------------
(* Properties *)

Uses(h, c) ==
    Req(h).pc \in {"send", "send_body", "read", "headers", "copy"} /\ Req(h).worker = c

\* One connection carries one exchange at a time, whatever connections break, are
\* replaced, dropped and given back by threads that hold an old one: no two handlers
\* use the same connection, and the one that is current is busy while it is used.
ConnectionExclusive ==
    \A c \in DOMAIN rlConn : \A h \in Handlers :
        Uses(h, c) =>
            /\ \A k \in Handlers \ {h} : ~Uses(k, c)
            /\ rlSock.sock = c => rlSock.busy

\* As long as no exchange was left in its middle, by a handler or by the worker, and no
\* answer was begun twice, the relay is transparent: a client that stayed has exactly one
\* answer with the whole file or none, 201 means the file is stored, and no file on
\* the storage machine is anything but whole.
RelayExact ==
    ~rlDesync =>
        /\ \A e \in ExpertFiles : rlFile[e] \in {<<>>, Body(e)}
        /\ \A h \in Handlers :
              RqAt(h, "done") /\ ~Req(h).gone =>
                CASE Req(h).method = "GET" ->
                       Req(h).answer \in {<<404>>, <<502>>, <<200>> \o Body(Req(h).expert)}
                  [] Req(h).method = "HEAD" -> Req(h).answer \in {<<200>>, <<404>>, <<502>>}
                  [] Req(h).method = "PUT" ->
                       \/ Req(h).answer = <<502>>
                       \/ Req(h).answer = <<201>> /\ rlFile[Req(h).expert] = Body(Req(h).expert)

\* Every request is answered, whatever connections break: the retries end, and nobody
\* waits for ever for the connection others use. (A connection that is used again
\* after an exchange was left in its middle can leave the worker waiting for the rest of
\* a body and every later request waiting for the worker. The code sets no timeout on a
\* connection: that a broken one is noticed at both ends is taken for granted.)
RelayAnswers == \A h \in Handlers : <>(RqAt(h, "done") \/ rlDesync)
=============================================================================
