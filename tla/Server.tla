------------------------------- MODULE Server -------------------------------
(***************************************************************************)
(* The request server (webapi.c): one process that waits in select() for   *)
(* its listening socket and its connections, and serves what is ready in   *)
(* the order of the descriptors, each request from its first line to its   *)
(* answer before it looks at the next.  Accepted sockets block, so the     *)
(* reads of handle_request() wait for the client.  A SIGINT detaches the   *)
(* core from inside whatever the process is doing.                         *)
(*                                                                         *)
(* A request is what handle_request() tells apart: whether its lines can   *)
(* be parsed, its method, whether a key stands in its path, the handler    *)
(* that its path leads to, and the part of it that holds the parameter the *)
(* handler asks for.  Of a call of the core only the error it leaves is    *)
(* seen here (Database models the calls).  The two listening sockets are   *)
(* one, and an answer fits the buffer of its socket.                       *)
(***************************************************************************)
EXTENDS Naturals, Sequences, FiniteSets, SequencesExt, FiniteSetsExt

CONSTANTS
    Clients,        \* connections at a time; each is used again and again
    Requests,       \* what a client may send
    MaxFds,         \* descriptors that connections and new page files share
    MaxFiles,       \* bound on the page files that a call adds
    None            \* no client

ASSUME ServerAssumption == /\ MaxFds \in Nat \ {0} /\ MaxFiles \in Nat
                           /\ None \notin Clients
                           /\ Requests # {}
                           /\ Requests \subseteq
                                [fine : BOOLEAN,
                                 method : {"GET", "POST", "PUT", "HEAD", "DELETE", "OPTIONS", "TRACE"},
                                 quid : BOOLEAN,
                                 api : {"none", "root", "shutdown", "call"},
                                 at : {"query", "body", "header", "nowhere"}]

VARIABLES
    conn,       \* each connection: where it is, its request, what has arrived
    queue,      \* the connections that wait to be accepted
    pc,         \* where the process is
    readsock,   \* descriptors found ready that the sweep has still to serve
    work,       \* the local state of handle_request()
    files,      \* descriptors of the page files added since the start
    run,        \* cleared by api_shutdown()
    err,        \* error.c: stack.description is set
    ready,      \* core.c: ready
    closes,     \* how often each part of the core was closed
    main,       \* progress of the detach_core() that start_webapi() calls
    hand,       \* progress of the detach_core() that handle_shutdown() calls
    how         \* how the last process ended

server == <<pc, readsock, work, files, run, err, ready, closes, main, hand, how>>
vars == <<conn, queue, server>>

Parts == <<"engine", "pager", "base", "log">>   \* in the order of detach_core()
Done == Len(Parts) + 2                          \* detach_core() has returned
Listener == 0                                   \* the lowest descriptor

-----------------------------------------------------------------------------
(* Connections.  "sent" is what has arrived: nothing, a part of the head,   *)
(* the head with the empty line that ends it, or the body as well.          *)

Away == [st |-> "away", req |-> CHOOSE r \in Requests : TRUE, sent |-> 0, gone |-> "no", fd |-> 0, answer |-> "none"]
Closed(a) == [Away EXCEPT !.st = "closed", !.answer = a]
Idle == [c |-> None, lines |-> "none", body |-> "none", answer |-> "none", threw |-> FALSE]

HasBody(r) == r.at = "body"
Size(r) == IF HasBody(r) THEN 3 ELSE 2
There(c) == conn[c].st \in {"queued", "open"}

Opened == {c \in Clients : conn[c].st = "open"}
FreeFds == 1 .. MaxFds \ (files \cup {conn[c].fd : c \in Opened})
Served == CHOOSE c \in Opened : conn[c].fd = Min(readsock)

TypeOK ==
    /\ conn \in [Clients -> [st : {"away", "queued", "open", "closed"}, req : Requests,
                             sent : 0 .. 3, gone : {"no", "closed", "reset"}, fd : 0 .. MaxFds,
                             answer : {"none", "400", "405", "options", "404", "empty", "error",
                                       "succeeded", "cut"}]]
    /\ queue \in Seq(Clients)
    /\ pc \in {"down", "starting", "select", "sweep", "head", "body", "route", "call", "respond",
               "detach"}
    /\ readsock \subseteq 0 .. MaxFds
    /\ files \subseteq 1 .. MaxFds
    /\ run \in BOOLEAN /\ err \in BOOLEAN /\ ready \in BOOLEAN
    /\ closes \in [1 .. Len(Parts) -> 0 .. 2]
    /\ main \in 0 .. Done /\ hand \in 0 .. Done
    /\ how \in {"none", "returned", "exited", "killed"}

Init ==
    /\ conn = [c \in Clients |-> Away]
    /\ queue = <<>>
    /\ pc = "down" /\ readsock = {} /\ work = Idle /\ files = {}
    /\ run = TRUE /\ err = FALSE /\ ready = FALSE
    /\ closes = [k \in 1 .. Len(Parts) |-> 0]
    /\ main = 0 /\ hand = 0 /\ how = "none"

-----------------------------------------------------------------------------
(* What clients do, at any time and in any order, as long as there is       *)
(* somebody to see it.                                                      *)

Listening == hand = 0 /\ pc \notin {"down", "starting", "detach"}

Connect(c) ==
    /\ Listening /\ conn[c].st = "away"
    /\ \E r \in Requests : conn' = [conn EXCEPT ![c] = [Away EXCEPT !.st = "queued", !.req = r]]
    /\ queue' = Append(queue, c)
    /\ UNCHANGED server

SendMore(c) ==
    /\ Listening /\ There(c) /\ conn[c].gone = "no" /\ conn[c].sent < Size(conn[c].req)
    /\ conn' = [conn EXCEPT ![c].sent = @ + 1]
    /\ UNCHANGED <<queue, server>>

\* The client closes its end, or its end is reset.
Hangup(c) ==
    /\ Listening /\ There(c) /\ conn[c].gone = "no"
    /\ \E k \in {"closed", "reset"} : conn' = [conn EXCEPT ![c].gone = k]
    /\ UNCHANGED <<queue, server>>

Leave(c) ==
    /\ Listening /\ conn[c].st = "closed"
    /\ conn' = [conn EXCEPT ![c] = Away]
    /\ UNCHANGED <<queue, server>>

-----------------------------------------------------------------------------
(* The process.  Its own steps stop while the signal handler runs.          *)

At(place) == pc = place /\ hand = 0

\* start_webapi() up to the call of signal(); an error may be left from the
\* start of the core, which only the next request clears.
Start ==
    /\ At("down")
    /\ pc' = "starting" /\ run' = TRUE /\ ready' = TRUE /\ err' \in BOOLEAN
    /\ closes' = [k \in DOMAIN closes |-> 0]
    /\ how' = "none"
    /\ UNCHANGED <<conn, queue, readsock, work, files, main, hand>>

\* From here on nobody reads from the clients or answers them.
CutOff ==
    /\ conn' = [c \in Clients |-> IF There(c) THEN Closed("cut") ELSE conn[c]]
    /\ queue' = <<>> /\ readsock' = {} /\ work' = Idle

\* detach_core() does nothing if the core is not ready.
Entered == IF ready THEN 1 ELSE Done

Leaving == CutOff /\ pc' = "detach" /\ main' = Entered

GoOn == pc' = "select" /\ UNCHANGED <<conn, queue, readsock, work, main>>

Listen ==
    /\ At("starting")
    /\ \/ GoOn
       \/ Leaving                           \* no address, no socket, port in use
    /\ UNCHANGED <<files, run, err, ready, closes, hand, how>>

Readable(c) == conn[c].sent > 0 \/ conn[c].gone # "no"

\* select(): the descriptors that are ready now.
Select ==
    /\ At("select")
    /\ readsock' = {Listener : q \in 1 .. Len(queue)}
                     \cup {conn[c].fd : c \in {o \in Opened : Readable(o)}}
    /\ readsock' # {}
    /\ pc' = "sweep"
    /\ UNCHANGED <<conn, queue, work, files, run, err, ready, closes, main, hand, how>>

LoopAlways == GoOn          \* mutant: run is not looked at

Loop == IF run THEN GoOn ELSE Leaving

SweepEnd ==
    /\ At("sweep") /\ readsock = {}
    /\ Loop
    /\ UNCHANGED <<files, run, err, ready, closes, hand, how>>

RestFirstOnly == {}         \* mutant: the sweep ends with the first descriptor

Rest == readsock \ {Min(readsock)}

\* A descriptor that accept() returns is looked at from the next select() on.
Accept ==
    /\ At("sweep") /\ Listener \in readsock
    /\ FreeFds # {}
    /\ conn' = [conn EXCEPT ![Head(queue)].st = "open", ![Head(queue)].fd = Min(FreeFds)]
    /\ queue' = Tail(queue)
    /\ readsock' = Rest
    /\ UNCHANGED <<pc, work, files, run, err, ready, closes, main, hand, how>>

LeavingAttached == CutOff /\ pc' = "detach" /\ main' = Done    \* mutant: no detach_core()

AcceptFailed == Leaving

\* No descriptor is left, or the client has given up before it was accepted.
AcceptFails ==
    /\ At("sweep") /\ Listener \in readsock
    /\ FreeFds = {} \/ conn[Head(queue)].gone = "reset"
    /\ AcceptFailed
    /\ UNCHANGED <<files, run, err, ready, closes, hand, how>>

-----------------------------------------------------------------------------
(* handle_request().                                                        *)

ErrorKept == err            \* mutant: error_clear() leaves the description

ErrorClear == FALSE

Request == conn[work.c].req
Writes(r) == r.method \in {"POST", "PUT"}

Answering(a) == pc' = "respond" /\ work' = [work EXCEPT !.answer = a]

\* disconnect: the descriptor is free again, and out of readfds.
Disconnect(a) ==
    /\ conn' = [conn EXCEPT ![work.c] = Closed(a)]
    /\ err' = ErrorClear
    /\ work' = Idle
    /\ pc' = "sweep"

HandleRequest ==
    /\ At("sweep") /\ readsock # {} /\ Listener \notin readsock
    /\ readsock' = Rest
    /\ work' = [Idle EXCEPT !.c = Served]
    /\ err' = ErrorClear
    /\ pc' = "head"
    /\ UNCHANGED <<conn, queue, files, run, ready, closes, main, hand, how>>

\* The lines of the head, as far as they were read, are looked at.
Parse(lines) ==
    LET w == [work EXCEPT !.lines = lines] IN
    IF lines = "none" \/ ~Request.fine \/ Request.method \in {"OPTIONS", "TRACE"}
    THEN /\ pc' = "respond"
         /\ work' = [w EXCEPT !.answer = IF lines = "none" THEN "405"
                                         ELSE IF ~Request.fine THEN "400"
                                         ELSE IF Request.method = "TRACE" THEN "405" ELSE "options"]
    ELSE /\ pc' = IF HasBody(Request) /\ lines = "head" THEN "body" ELSE "route"
         /\ work' = w

\* The head is there, up to the empty line.
ReadHead ==
    /\ At("head") /\ conn[work.c].sent >= 2
    /\ Parse("head")
    /\ UNCHANGED <<conn, queue, readsock, files, run, err, ready, closes, main, hand, how>>

\* The client closed its end before: between two lines, or within one.
HeadEnds ==
    /\ At("head") /\ conn[work.c].sent < 2 /\ conn[work.c].gone = "closed"
    /\ \/ Disconnect("none")
       \/ conn[work.c].sent = 1 /\ Answering("400") /\ UNCHANGED <<conn, err>>
    /\ UNCHANGED <<queue, readsock, files, run, ready, closes, main, hand, how>>

\* A read that fails is no end of file: the lines read before it are taken for
\* the head.
HeadFails ==
    /\ At("head") /\ conn[work.c].sent < 2 /\ conn[work.c].gone = "reset"
    /\ \E lines \in IF conn[work.c].sent = 0 THEN {"none"} ELSE {"none", "line", "head"} : Parse(lines)
    /\ UNCHANGED <<conn, queue, readsock, files, run, err, ready, closes, main, hand, how>>

BodyReadOnce(c) == conn[c].sent >= 2    \* mutant: what fread() returns first will do

BodyRead(c) == conn[c].sent = 3 \/ conn[c].gone # "no"

\* A body that the client does not finish is used as far as it came.
ReadBody ==
    /\ At("body") /\ BodyRead(work.c)
    /\ \E b \in IF conn[work.c].sent = 3 THEN {"whole"} ELSE {"none", "cut"} :
         work' = [work EXCEPT !.body = b]
    /\ pc' = "route"
    /\ UNCHANGED <<conn, queue, readsock, files, run, err, ready, closes, main, hand, how>>

\* get_param(): the query first; then the body of a POST or PUT that has any
\* parameter (the key in the path is one) and otherwise the head.
GetParam(r) ==
    CASE r.at = "query" -> "whole"
      [] r.at # "query" /\ Writes(r) /\ (r.quid \/ work.body # "none") -> work.body
      [] OTHER -> IF r.at = "header" /\ work.lines = "head" THEN "whole" ELSE "none"

\* The handler that the table of routes gives.
Route ==
    /\ At("route")
    /\ run' = (run /\ Request.api # "shutdown")
    /\ \/ Request.api # "call" /\ Answering(IF Request.api = "none" THEN "404" ELSE "succeeded")
       \/ Request.api = "call" /\ GetParam(Request) = "none" /\ Answering("empty")
       \/ Request.api = "call" /\ GetParam(Request) # "none" /\ pc' = "call" /\ UNCHANGED work
    /\ UNCHANGED <<conn, queue, readsock, files, err, ready, closes, main, hand, how>>

\* The call of the core, and iserror() after it; a record that needs a new page
\* takes a descriptor for its file.
Call ==
    /\ At("call")
    /\ \E throws \in BOOLEAN :
         /\ err' = (err \/ throws)
         /\ work' = [work EXCEPT !.threw = throws, !.answer = IF err' THEN "error" ELSE "succeeded"]
    /\ \/ UNCHANGED files
       \/ Cardinality(files) < MaxFiles /\ FreeFds # {} /\ files' = files \cup {Min(FreeFds)}
    /\ pc' = "respond"
    /\ UNCHANGED <<conn, queue, readsock, run, ready, closes, main, hand, how>>

Respond ==
    /\ At("respond")
    /\ Disconnect(work.answer)
    /\ UNCHANGED <<queue, readsock, files, run, ready, closes, main, hand, how>>

-----------------------------------------------------------------------------
(* The end of the process.                                                  *)

End(way) == CutOff /\ files' = {} /\ pc' = "down" /\ how' = way /\ main' = 0 /\ hand' = 0

\* Nobody ignores SIGPIPE: writing to a client that has gone may be the end.
BrokenPipe ==
    /\ At("respond") /\ conn[work.c].gone # "no"
    /\ End("killed")
    /\ UNCHANGED <<run, err, ready, closes>>

\* One step of detach_core(): the parts are closed in order, then ready cleared.
Detach(k) ==
    IF k <= Len(Parts) THEN closes' = [closes EXCEPT ![k] = @ + 1] /\ UNCHANGED ready
                       ELSE ready' = FALSE /\ UNCHANGED closes

MainDetach ==
    /\ At("detach") /\ main # Done
    /\ Detach(main) /\ main' = main + 1
    /\ UNCHANGED <<conn, queue, readsock, work, pc, files, run, err, hand, how>>

Return ==
    /\ At("detach") /\ main = Done
    /\ End("returned")
    /\ UNCHANGED <<run, err, ready, closes>>

\* handle_shutdown(), or the default action of the signal before signal().
Interrupt ==
    /\ hand = 0 /\ pc # "down"
    /\ IF pc = "starting" THEN End("killed")
       ELSE CutOff /\ pc' = "detach" /\ hand' = Entered /\ UNCHANGED <<files, main, how>>
    /\ UNCHANGED <<run, err, ready, closes>>

HandlerDetach ==
    /\ hand \notin {0, Done}
    /\ Detach(hand) /\ hand' = hand + 1
    /\ UNCHANGED <<conn, queue, readsock, work, pc, files, run, err, main, how>>

Exit ==
    /\ hand = Done
    /\ End("exited")
    /\ UNCHANGED <<run, err, ready, closes>>

-----------------------------------------------------------------------------
ClientStep == \E c \in Clients : Connect(c) \/ SendMore(c) \/ Hangup(c) \/ Leave(c)

ServerStep ==
    \/ Listen \/ Select \/ SweepEnd \/ Accept \/ AcceptFails \/ HandleRequest
    \/ ReadHead \/ HeadEnds \/ HeadFails \/ ReadBody \/ Route \/ Call \/ Respond \/ BrokenPipe
    \/ MainDetach \/ Return \/ HandlerDetach \/ Exit

Next == ClientStep \/ ServerStep \/ Start \/ Interrupt

\* The process is scheduled; nothing is assumed of clients and of signals.
Spec == Init /\ [][Next]_vars /\ WF_vars(ServerStep)

-----------------------------------------------------------------------------
(* What a request is due, told from the request alone.                      *)

Reachable(r) == \/ r.at = "query"
                \/ r.at = "body" /\ Writes(r)
                \/ r.at = "header" /\ ~(Writes(r) /\ r.quid)

Due(r) ==
    CASE ~r.fine -> {"400"}
      [] r.fine /\ r.method = "TRACE" -> {"405"}
      [] r.fine /\ r.method = "OPTIONS" -> {"options"}
      [] r.fine /\ r.method \notin {"TRACE", "OPTIONS"} ->
           CASE r.api = "none" -> {"404"}
             [] r.api \in {"root", "shutdown"} -> {"succeeded"}
             [] r.api = "call" -> IF Reachable(r) THEN {"error", "succeeded"} ELSE {"empty"}

\* However its parts arrive, and whatever other connections, earlier errors and
\* hang-ups do in between, a request whose client is still there is used whole:
\* the core is called with the whole parameter, and the answer is of the kind
\* that the request calls for (the reads of handle_request(), get_param()).
UsedWhole ==
    work.c # None /\ conn[work.c].gone = "no" =>
        /\ pc = "call" => GetParam(Request) = "whole"
        /\ pc = "respond" => work.answer \in Due(Request)

\* A failure is reported to the client whose own call failed and to no other:
\* no error survives from the start of the core, from an earlier request or
\* from a connection that broke off (error_clear() in handle_request()).
OwnError ==
    pc = "respond" /\ Request.api = "call" /\ work.answer \in {"error", "succeeded"} =>
        (work.answer = "error" <=> work.threw)

\* Unless a signal kills it, the process never ends with a part of the core
\* still open: after a failed start, a failed accept(), a request to shut down
\* or a SIGINT at any point each part was closed, and once, except the ones
\* that the interrupted detach_core() had closed already.
CleanEnd ==
    /\ pc = "down" /\ how \in {"returned", "exited"} =>
         ~ready /\ \A k \in DOMAIN closes : closes[k] >= 1
    /\ pc # "down" /\ (hand = 0 \/ main <= 1) => \A k \in DOMAIN closes : closes[k] <= 1

\* The process reads from a client that sends no more and does not hang up.
Stalled == /\ hand = 0 /\ work.c # None /\ conn[work.c].gone = "no"
           /\ \/ pc = "head" /\ conn[work.c].sent < 2
              \/ pc = "body" /\ conn[work.c].sent < 3

Whole(c) == There(c) /\ conn[c].sent = Size(conn[c].req) /\ conn[c].gone = "no"

\* Every request that has arrived is answered, however many clients come and
\* go, unless its client hangs up, the process ends, or one client leaves the
\* process reading for ever (the sweep over readsock in start_webapi()).
Answered ==
    <>[]Stalled \/ \A c \in Clients : Whole(c) ~> (conn[c].answer # "none" \/ conn[c].gone # "no")

\* A request to shut down ends the process, though the requests found ready with
\* it are served first and new clients keep connecting (run in start_webapi()).
Stops == <>[]Stalled \/ (pc # "down" /\ ~run ~> pc = "down")
=============================================================================
