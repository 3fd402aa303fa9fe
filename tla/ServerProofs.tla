---------------------------- MODULE ServerProofs ----------------------------
(***************************************************************************)
(* The request server uses requests whole, answers each for itself and     *)
(* never ends with the core attached, for any number of clients and        *)
(* descriptors and any requests.                                           *)
(***************************************************************************)
EXTENDS Server, WellFoundedInduction, TLAPS

(***************************************************************************)
(* The inductive invariant.                                                *)
(***************************************************************************)

Answers == {"none", "400", "405", "options", "404", "empty", "error", "succeeded", "cut"}

Work == [c : Clients \cup {None}, lines : {"none", "line", "head"}, body : {"none", "cut", "whole"},
         answer : Answers, threw : BOOLEAN]

InRequest == {"head", "body", "route", "call", "respond"}

\* What part k of the core was closed: by the main line, which has come to m,
\* and by the handler, which has come to h and does nothing behind a finished
\* detach_core().
Closings(k, m, h) == (IF k < m THEN 1 ELSE 0) + (IF k < h /\ m # 6 THEN 1 ELSE 0)

\* Where the two runs of detach_core() are, what they have closed, and what
\* the last process left behind.
Detaching ==
    /\ hand # 0 => pc = "detach"
    /\ pc # "detach" => main = 0
    /\ pc = "detach" => main # 0 \/ hand # 0
    /\ main = 6 => hand \in {0, 6}
    /\ pc # "down" => /\ ready <=> (main # 6 /\ hand # 6)
                      /\ \A k \in 1 .. 4 : closes[k] = Closings(k, main, hand)
    /\ pc = "down" /\ how \in {"returned", "exited"} => ~ready /\ \A k \in 1 .. 4 : closes[k] >= 1

\* The connections that wait are in the queue, each once.
Queued ==
    /\ \A i \in 1 .. Len(queue) : conn[queue[i]].st = "queued"
    /\ \A i, j \in 1 .. Len(queue) : queue[i] = queue[j] => i = j
    /\ Listener \in readsock => queue # <<>>

\* Open connections have descriptors of their own, and what the sweep has
\* still to serve is one of them.
Descriptors ==
    /\ \A c \in Opened : conn[c].fd # 0
    /\ \A c, d \in Opened : conn[c].fd = conn[d].fd => c = d
    /\ \A f \in readsock : f # 0 => \E c \in Opened : conn[c].fd = f /\ c # work.c

\* handle_request() works for a connection that is open, and begins without an error.
Serving ==
    /\ work.c # None <=> pc \in InRequest
    /\ work.c # None => work.c \in Opened
    /\ pc \in InRequest \ {"respond"} => ~err /\ ~work.threw

\* What is known of the request whose client is still there.
Parsed == /\ work.lines = "head" /\ Request.fine /\ Request.method \notin {"OPTIONS", "TRACE"}

Reading ==
    work.c # None /\ conn[work.c].gone = "no" =>
        /\ pc = "head" => work.body = "none"
        /\ pc = "body" => Parsed /\ work.body = "none" /\ HasBody(Request)
        /\ pc \in {"route", "call"} => Parsed /\ work.body = IF HasBody(Request) THEN "whole" ELSE "none"
        /\ pc = "call" => Request.api = "call" /\ GetParam(Request) = "whole"
        /\ pc = "respond" => work.answer \in Due(Request)

IInv == /\ TypeOK /\ work \in Work
        /\ Detaching /\ Queued /\ Descriptors /\ Serving /\ Reading /\ OwnError

-----------------------------------------------------------------------------
(* Facts about the helpers.                                                 *)

\* The lowest descriptor of a set is one of the set.
LEMMA MinPicked ==
    ASSUME NEW S, S \subseteq Nat, S # {}
    PROVE  Min(S) \in S
<1>1. \E x \in S : \A y \in S : ~(<<y, x>> \in OpToRel(<, Nat))
  BY NatLessThanWellFounded, WFMin, Zenon
<1>2. PICK x \in S : \A y \in S : ~(<<y, x>> \in OpToRel(<, Nat))
  BY <1>1, Zenon
<1>3. \A y \in S : x \in Nat /\ y \in Nat /\ ~(y < x)
  BY <1>2, Zenon DEF OpToRel
<1>4. \A y \in S : x <= y
  BY <1>3
<1>5. \E z \in S : \A y \in S : z <= y
  BY <1>4, Zenon
<1> QED BY <1>5, Zenon DEF Min

Conn == [st : {"away", "queued", "open", "closed"}, req : Requests, sent : 0 .. 3,
         gone : {"no", "closed", "reset"}, fd : 0 .. MaxFds, answer : Answers]

LEMMA ConnType == TypeOK => conn \in [Clients -> Conn]
  BY DEF TypeOK, Conn, Answers

\* A connection that is not there, whatever the request that is left in it.
LEMMA AwayType ==
    Away \in Conn /\ Away.st = "away" /\ Away.sent = 0 /\ Away.gone = "no" /\ Away.fd = 0
<1>1. (CHOOSE r \in Requests : TRUE) \in Requests
  BY ServerAssumption
<1> QED BY <1>1, ServerAssumption DEF Away, Conn, Answers

LEMMA ClosedType ==
    ASSUME NEW a \in Answers
    PROVE  Closed(a) \in Conn /\ Closed(a).st = "closed" /\ Closed(a).gone = "no"
  BY AwayType DEF Closed, Conn

LEMMA InitIInv == Init => IInv
<1> SUFFICES ASSUME Init PROVE IInv
  OBVIOUS
<1>1. TypeOK /\ work \in Work
  <2>1. conn \in [Clients -> Conn]
    BY AwayType DEF Init
  <2>2. work \in Work
    BY DEF Init, Work, Answers, Idle
  <2>3. queue \in Seq(Clients)
    BY DEF Init
  <2>4. closes \in [1 .. Len(Parts) -> 0 .. 2] /\ main \in 0 .. Done /\ hand \in 0 .. Done
    BY DEF Init, Parts, Done
  <2> QED BY <2>1, <2>2, <2>3, <2>4 DEF Init, TypeOK, Conn, Answers
<1>2. Detaching
  BY DEF Init, Detaching, Parts
<1>3. Queued /\ Descriptors /\ Serving /\ Reading /\ OwnError
  BY AwayType, ServerAssumption
     DEF Init, Queued, Descriptors, Serving, Reading, OwnError, Opened, Idle, InRequest, Listener
<1> QED BY <1>1, <1>2, <1>3 DEF IInv

-----------------------------------------------------------------------------
(* The parts of the invariant that several actions keep for the same reason. *)

\* The state with the sizes written out.
Typing ==
    /\ conn \in [Clients -> Conn] /\ queue \in Seq(Clients)
    /\ pc \in {"down", "starting", "select", "sweep", "detach"} \cup InRequest
    /\ readsock \subseteq 0 .. MaxFds /\ files \subseteq 1 .. MaxFds
    /\ run \in BOOLEAN /\ err \in BOOLEAN /\ ready \in BOOLEAN
    /\ closes \in [1 .. 4 -> 0 .. 2] /\ main \in 0 .. 6 /\ hand \in 0 .. 6
    /\ how \in {"none", "returned", "exited", "killed"}

LEMMA Typed == (TypeOK <=> Typing) /\ (TypeOK' <=> Typing')
<1>1. Len(Parts) = 4 /\ Done = 6
  BY DEF Parts, Done
<1> QED BY <1>1 DEF TypeOK, Typing, Conn, Answers, InRequest

\* Away from detach_core() nothing is closed.
LEMMA StaysAttached ==
    ASSUME Detaching, pc \notin {"down", "detach"}, pc' \notin {"down", "detach"},
           UNCHANGED <<ready, closes, main, hand, how>>
    PROVE  Detaching'
  BY DEF Detaching, Closings

\* Once the clients are cut off nobody waits and nobody is served.
LEMMA CutOffRest ==
    ASSUME TypeOK, CutOff, pc' \in {"detach", "down"}
    PROVE  /\ conn' \in [Clients -> Conn] /\ queue' \in Seq(Clients) /\ readsock' = {} /\ work' \in Work
           /\ Queued' /\ Descriptors' /\ Serving' /\ Reading' /\ OwnError'
<1>1. /\ conn' \in [Clients -> Conn]
      /\ \A c \in Clients : conn'[c].st \notin {"queued", "open"}
  BY Typed, ClosedType DEF Typing, CutOff, There, Conn, Answers
<1>2. queue' = <<>> /\ readsock' = {} /\ work' = Idle /\ work' \in Work
  BY DEF CutOff, Idle, Work, Answers
<1>3. queue' \in Seq(Clients)
  BY <1>2
<1>4. Opened' = {}
  BY <1>1 DEF Opened
<1>5. Queued' /\ Descriptors'
  BY <1>2, <1>4 DEF Queued, Descriptors
<1>6. Serving' /\ Reading' /\ OwnError'
  BY <1>2 DEF Serving, Reading, OwnError, Idle, InRequest
<1> QED BY <1>1, <1>2, <1>3, <1>5, <1>6

-----------------------------------------------------------------------------
(* What clients do. *)

\* The process does not move, and the connection it serves keeps its request.
LEMMA ClientStepIInv ==
    ASSUME IInv, NEW c \in Clients, Connect(c) \/ SendMore(c) \/ Hangup(c) \/ Leave(c)
    PROVE  IInv'
<1>1. Listening /\ UNCHANGED server
  BY DEF Connect, SendMore, Hangup, Leave
<1>2. UNCHANGED <<pc, readsock, work, files, run, err, ready, closes, main, hand, how>>
  BY <1>1 DEF server
<1>0. conn \in [Clients -> Conn] /\ queue \in Seq(Clients)
  BY Typed DEF Typing, IInv
<1> DEFINE Kept(d) == /\ conn'[d].st = conn[d].st /\ conn'[d].req = conn[d].req /\ conn'[d].fd = conn[d].fd
                      /\ conn'[d].gone = "no" => conn[d].gone = "no"
           Others == /\ conn' \in [Clients -> Conn]
                     /\ \A d \in Clients : d # c => conn'[d] = conn[d]
           Effect == \/ conn[c].st = "away" /\ conn'[c].st = "queued" /\ queue' = Append(queue, c)
                     \/ conn[c].st = "closed" /\ conn'[c].st = "away" /\ queue' = queue
                     \/ There(c) /\ queue' = queue /\ Kept(c)
<1>3. Others /\ Effect
  <2>1. CASE Connect(c)
    <3>1. PICK r \in Requests : conn' = [conn EXCEPT ![c] = [Away EXCEPT !.st = "queued", !.req = r]]
      BY <2>1 DEF Connect
    <3>2. /\ [Away EXCEPT !.st = "queued", !.req = r] \in Conn
          /\ [Away EXCEPT !.st = "queued", !.req = r].st = "queued"
      BY AwayType DEF Conn
    <3> QED BY <2>1, <3>1, <3>2, <1>0 DEF Connect
  <2>2. CASE SendMore(c)
    <3>1. conn[c].sent + 1 \in 0 .. 3
      BY <2>2, <1>0 DEF SendMore, Size, Conn
    <3> QED BY <2>2, <3>1, <1>0 DEF SendMore, Conn
  <2>3. CASE Hangup(c)
    <3>1. PICK k \in {"closed", "reset"} : conn' = [conn EXCEPT ![c].gone = k]
      BY <2>3 DEF Hangup
    <3> QED BY <2>3, <3>1, <1>0 DEF Hangup, Conn
  <2>4. CASE Leave(c)
    BY <2>4, <1>0, AwayType DEF Leave
  <2> QED BY <2>1, <2>2, <2>3, <2>4
<1>4. queue' = queue \/ (conn[c].st = "away" /\ queue' = Append(queue, c))
  BY <1>3
<1>5. queue' \in Seq(Clients)
  BY <1>4, Typed DEF Typing, IInv
<1>6. TypeOK' /\ work' \in Work
  BY <1>2, <1>3, <1>5, Typed DEF Typing, IInv, TypeOK, Conn, Answers
<1>7. Detaching'
  BY <1>1, <1>2, StaysAttached DEF IInv, Listening
<1>8. Queued'
  <2>1. CASE queue' = queue
    <3>1. \A i \in 1 .. Len(queue) : queue[i] \in Clients /\ conn[queue[i]].st = "queued"
      BY <1>0 DEF IInv, Queued
    <3>2. \A i \in 1 .. Len(queue) : conn'[queue[i]].st = "queued"
      BY <3>1, <1>3, <2>1 DEF There
    <3> QED BY <2>1, <3>2, <1>2 DEF IInv, Queued
  <2>2. CASE conn[c].st = "away" /\ queue' = Append(queue, c)
    <3>1. \A i \in 1 .. Len(queue) : queue[i] \in Clients /\ conn[queue[i]].st = "queued" /\ queue[i] # c
      BY <1>0, <2>2 DEF IInv, Queued
    <3>2. conn'[c].st = "queued"
      BY <1>3, <2>2 DEF There
    <3>3. /\ Len(queue') = Len(queue) + 1 /\ Len(queue) \in Nat
          /\ queue'[Len(queue) + 1] = c
          /\ \A i \in 1 .. Len(queue) : queue'[i] = queue[i]
      BY <2>2, <1>0
    <3>4. \A i \in 1 .. Len(queue') : conn'[queue'[i]].st = "queued"
      BY <3>1, <3>2, <3>3, <1>3
    <3>5. \A i, j \in 1 .. Len(queue') : queue'[i] = queue'[j] => i = j
      BY <3>1, <3>3 DEF IInv, Queued
    <3>6. queue' # <<>>
      BY <3>3, <1>5
    <3> QED BY <3>4, <3>5, <3>6 DEF Queued
  <2> QED BY <1>4, <2>1, <2>2
<1>9. Opened' = Opened /\ \A d \in Opened : /\ conn'[d].fd = conn[d].fd /\ conn'[d].req = conn[d].req
                                            /\ conn'[d].gone = "no" => conn[d].gone = "no"
  BY <1>3 DEF Opened, There
<1>10. Descriptors'
  BY <1>2, <1>9 DEF IInv, Descriptors
<1>11. Serving'
  BY <1>2, <1>9 DEF IInv, Serving
<1>12. work.c # None => work.c \in Opened
  BY DEF IInv, Serving
<1>13. Reading'
  BY <1>2, <1>9, <1>12 DEF IInv, Reading, Parsed, Request, GetParam
<1>14. OwnError'
  BY <1>2, <1>9, <1>12 DEF IInv, OwnError, Request, Serving, InRequest
<1> QED BY <1>6, <1>7, <1>8, <1>10, <1>11, <1>13, <1>14 DEF IInv

-----------------------------------------------------------------------------
(* The end of the process. *)

\* Leaving start_webapi() begins detach_core(): nothing was closed before.
LEMMA LeavingIInv ==
    ASSUME IInv, Leaving, pc \in {"starting", "sweep"}, hand = 0,
           UNCHANGED <<files, run, err, ready, closes, hand, how>>
    PROVE  IInv'
<1>1. TypeOK /\ CutOff /\ pc' = "detach" /\ main' = Entered
  BY DEF IInv, Leaving
<1>2. ready /\ main = 0 /\ Entered = 1 /\ \A k \in 1 .. 4 : closes[k] = 0
  BY DEF IInv, Detaching, Closings, Entered
<1>3. Detaching'
  BY <1>1, <1>2 DEF Detaching, Closings
<1>4. TypeOK'
  BY <1>1, <1>2, CutOffRest, Typed DEF Typing
<1> QED BY <1>1, <1>3, <1>4, CutOffRest DEF IInv

\* The end of the process, once detach_core() is through or with a kill.
LEMMA EndIInv ==
    ASSUME IInv, NEW way \in {"returned", "exited", "killed"}, End(way),
           UNCHANGED <<run, err, ready, closes>>,
           way # "killed" => ~ready /\ \A k \in 1 .. 4 : closes[k] >= 1
    PROVE  IInv'
<1>1. /\ TypeOK /\ CutOff /\ pc' = "down" /\ how' = way
      /\ files' = {} /\ main' = 0 /\ hand' = 0
  BY DEF IInv, End
<1>2. Detaching'
  BY <1>1 DEF Detaching
<1>3. TypeOK'
  BY <1>1, CutOffRest, Typed DEF Typing
<1> QED BY <1>1, <1>2, <1>3, CutOffRest DEF IInv

\* The signal handler begins detach_core() a second time unless the first is done.
LEMMA InterruptIInv == IInv /\ Interrupt => IInv'
<1> SUFFICES ASSUME IInv, Interrupt PROVE IInv'
  OBVIOUS
<1>1. CASE pc = "starting"
  BY <1>1, EndIInv DEF Interrupt
<1>2. CASE pc # "starting"
  <2>1. /\ TypeOK /\ CutOff /\ pc' = "detach" /\ hand' = Entered /\ pc # "down" /\ hand = 0
        /\ UNCHANGED <<files, main, how, run, err, ready, closes>>
    BY <1>2 DEF Interrupt, IInv
  <2>2. Entered = IF main = 6 THEN 6 ELSE 1
    BY <2>1 DEF IInv, Detaching, Entered, Done, Parts
  <2>3. main \in 0 .. 6
    BY <2>1, Typed DEF Typing
  <2>4. Detaching'
    BY <2>1, <2>2, <2>3 DEF IInv, Detaching, Closings
  <2>5. TypeOK'
    BY <2>1, <2>2, CutOffRest, Typed DEF Typing
  <2> QED BY <2>1, <2>4, <2>5, CutOffRest DEF IInv
<1> QED BY <1>1, <1>2

\* One step of detach_core(), in the main line or in the handler.
LEMMA DetachIInv == IInv /\ (MainDetach \/ HandlerDetach) => IInv'
<1> SUFFICES ASSUME IInv, MainDetach \/ HandlerDetach PROVE IInv'
  OBVIOUS
<1>1. /\ UNCHANGED <<conn, queue, readsock, work, pc, files, run, err, how>>
      /\ TypeOK /\ pc = "detach"
  BY DEF IInv, MainDetach, HandlerDetach, At, Detaching, Done, Parts
<1>2. closes \in [1 .. 4 -> 0 .. 2] /\ main \in 0 .. 6 /\ hand \in 0 .. 6 /\ ready \in BOOLEAN
  BY <1>1, Typed DEF Typing
<1>3. /\ Detaching'
      /\ closes' \in [1 .. 4 -> 0 .. 2] /\ main' \in 0 .. 6 /\ hand' \in 0 .. 6 /\ ready' \in BOOLEAN
  <2>1. CASE MainDetach
    <3>1. hand = 0 /\ main \in 1 .. 5 /\ main' = main + 1 /\ hand' = hand
      BY <2>1, <1>1, <1>2 DEF MainDetach, At, Done, Parts, IInv, Detaching
    <3>2. IF main <= 4 THEN closes' = [closes EXCEPT ![main] = @ + 1] /\ ready' = ready
                       ELSE ready' = FALSE /\ closes' = closes
      BY <2>1 DEF MainDetach, Detach, Parts
    <3>3. \A k \in 1 .. 4 : closes[k] = Closings(k, main, 0)
      BY <3>1, <1>1 DEF IInv, Detaching
    <3>4. \A k \in 1 .. 4 : closes'[k] = Closings(k, main', 0) /\ closes'[k] \in 0 .. 2
      BY <3>1, <3>2, <3>3, <1>2 DEF Closings
    <3>5. closes' \in [1 .. 4 -> 0 .. 2]
      BY <3>2, <3>4, <1>2
    <3>6. ready' \in BOOLEAN /\ (ready' <=> (main' # 6 /\ hand' # 6))
      <4>1. ready <=> (main # 6 /\ hand # 6)
        BY <1>1 DEF IInv, Detaching
      <4>2. CASE main <= 4
        BY <3>1, <3>2, <4>1, <4>2, <1>2
      <4>3. CASE main = 5
        <5>1. ready' = FALSE /\ main' = 6
          BY <3>1, <3>2, <4>3
        <5> QED BY <5>1
      <4> QED BY <3>1, <4>2, <4>3
    <3>7. \A k \in 1 .. 4 : closes'[k] = Closings(k, main', hand')
      BY <3>1, <3>4
    <3>8. Detaching'
      BY <3>1, <3>6, <3>7, <1>1 DEF Detaching
    <3> QED BY <3>1, <3>5, <3>6, <3>8, <1>2
  <2>2. CASE HandlerDetach
    <3>1. hand \in 1 .. 5 /\ hand' = hand + 1 /\ main' = main /\ main # 6
      BY <2>2, <1>1, <1>2 DEF HandlerDetach, Done, Parts, IInv, Detaching
    <3>2. IF hand <= 4 THEN closes' = [closes EXCEPT ![hand] = @ + 1] /\ ready' = ready
                       ELSE ready' = FALSE /\ closes' = closes
      BY <2>2 DEF HandlerDetach, Detach, Parts
    <3>3. \A k \in 1 .. 4 : closes[k] = Closings(k, main, hand)
      BY <3>1, <1>1 DEF IInv, Detaching
    <3>4. \A k \in 1 .. 4 : closes'[k] = Closings(k, main', hand') /\ closes'[k] \in 0 .. 2
      BY <3>1, <3>2, <3>3, <1>2 DEF Closings
    <3>5. closes' \in [1 .. 4 -> 0 .. 2]
      BY <3>2, <3>4, <1>2
    <3>6. ready' \in BOOLEAN /\ (ready' <=> (main' # 6 /\ hand' # 6))
      <4>1. ready <=> (main # 6 /\ hand # 6)
        BY <1>1 DEF IInv, Detaching
      <4>2. CASE hand <= 4
        BY <3>1, <3>2, <4>1, <4>2, <1>2
      <4>3. CASE hand = 5
        <5>1. ready' = FALSE /\ hand' = 6
          BY <3>1, <3>2, <4>3
        <5> QED BY <5>1
      <4> QED BY <3>1, <4>2, <4>3
    <3>7. \A k \in 1 .. 4 : closes'[k] = Closings(k, main', hand')
      BY <3>1, <3>4
    <3>8. Detaching'
      BY <3>1, <3>6, <3>7, <1>1 DEF Detaching
    <3> QED BY <3>1, <3>5, <3>6, <3>8, <1>2
  <2> QED BY <2>1, <2>2
<1>4. TypeOK'
  BY <1>1, <1>2, <1>3, Typed DEF Typing, Conn
<1>5. work' \in Work /\ Queued' /\ Descriptors' /\ Serving' /\ Reading' /\ OwnError'
  BY <1>1 DEF IInv, Queued, Descriptors, Serving, Reading, OwnError, Opened, Request, Parsed,
              InRequest
<1> QED BY <1>3, <1>4, <1>5 DEF IInv

\* start_webapi(): the core is attached and nothing is closed.
LEMMA StartIInv == IInv /\ Start => IInv'
<1> SUFFICES ASSUME IInv, Start PROVE IInv'
  OBVIOUS
<1>1. /\ UNCHANGED <<conn, queue, readsock, work, files, main, hand>> /\ pc = "down" /\ hand = 0
      /\ pc' = "starting" /\ run' = TRUE /\ ready' = TRUE /\ err' \in BOOLEAN /\ how' = "none"
      /\ closes' = [k \in DOMAIN closes |-> 0]
  BY DEF Start, At
<1>2. TypeOK'
  BY <1>1, Typed DEF Typing, IInv
<1>3. Detaching'
  BY <1>1, Typed DEF Typing, IInv, Detaching, Closings
<1>4. work' \in Work /\ Queued' /\ Descriptors' /\ Serving' /\ Reading' /\ OwnError'
  BY <1>1 DEF IInv, Queued, Descriptors, Serving, Reading, OwnError, Opened, InRequest
<1> QED BY <1>2, <1>3, <1>4 DEF IInv

-----------------------------------------------------------------------------
(* Waiting, accepting and beginning to serve. *)

LEMMA GoOnIInv ==
    ASSUME IInv, GoOn, pc \in {"starting", "sweep"},
           UNCHANGED <<files, run, err, ready, closes, hand, how>>
    PROVE  IInv'
<1>1. UNCHANGED <<conn, queue, readsock, work, main>> /\ pc' = "select"
  BY DEF GoOn
<1>2. TypeOK' /\ work' \in Work
  BY <1>1, Typed DEF Typing, IInv
<1>3. Detaching'
  BY <1>1, StaysAttached DEF IInv
<1>4. Queued' /\ Descriptors' /\ Serving' /\ Reading' /\ OwnError'
  BY <1>1 DEF IInv, Queued, Descriptors, Serving, Reading, OwnError, Opened, InRequest
<1> QED BY <1>2, <1>3, <1>4 DEF IInv

\* select() reports descriptors of open connections, and the listener only if
\* somebody waits.
LEMMA SelectIInv == IInv /\ Select => IInv'
<1> SUFFICES ASSUME IInv, Select PROVE IInv'
  OBVIOUS
<1>1. /\ UNCHANGED <<conn, queue, work, files, run, err, ready, closes, main, hand, how>>
      /\ pc = "select" /\ pc' = "sweep"
  BY DEF Select, At
<1>2. /\ \A f \in readsock' : f # 0 => \E c \in Opened : conn[c].fd = f
      /\ 0 \in readsock' => queue # <<>>
      /\ readsock' \subseteq 0 .. MaxFds
  <2>1. readsock' = {Listener : q \in 1 .. Len(queue)}
                      \cup {conn[c].fd : c \in {o \in Opened : Readable(o)}}
    BY DEF Select
  <2>2. \A c \in Opened : conn[c].fd \in 0 .. MaxFds /\ conn[c].fd # 0
    BY Typed DEF Typing, IInv, Descriptors, Opened, Conn
  <2>3. 0 \in readsock' => \E q \in 1 .. Len(queue) : TRUE
    BY <2>1, <2>2
  <2>4. 0 \in 0 .. MaxFds
    BY ServerAssumption
  <2> QED BY <2>1, <2>2, <2>3, <2>4 DEF Listener
<1>3. TypeOK' /\ work' \in Work
  BY <1>1, <1>2, Typed DEF Typing, IInv
<1>4. Detaching'
  BY <1>1, StaysAttached DEF IInv
<1>5. work.c = None
  BY <1>1 DEF IInv, Serving, InRequest
<1>6. Queued' /\ Serving' /\ Reading' /\ OwnError'
  BY <1>1, <1>2, <1>5 DEF IInv, Queued, Serving, Reading, OwnError, Opened, InRequest, Listener
<1>7. Descriptors'
  BY <1>1, <1>2, <1>5, ServerAssumption DEF IInv, Descriptors, Opened
<1> QED BY <1>3, <1>4, <1>6, <1>7 DEF IInv

\* accept() opens the connection that waited longest, under a new descriptor.
LEMMA AcceptIInv == IInv /\ Accept => IInv'
<1> SUFFICES ASSUME IInv, Accept PROVE IInv'
  OBVIOUS
<1> DEFINE h == Head(queue)
           fd == Min(FreeFds)
<1>1. /\ UNCHANGED <<pc, work, files, run, err, ready, closes, main, hand, how>>
      /\ pc = "sweep" /\ Listener \in readsock /\ FreeFds # {}
      /\ conn' = [conn EXCEPT ![h].st = "open", ![h].fd = fd]
      /\ queue' = Tail(queue) /\ readsock' = readsock \ {Min(readsock)}
  BY DEF Accept, At, Rest
<1>2. conn \in [Clients -> Conn] /\ queue \in Seq(Clients) /\ readsock \subseteq 0 .. MaxFds
  BY Typed DEF Typing, IInv
<1>3. fd \in 1 .. MaxFds /\ \A c \in Opened : conn[c].fd # fd
  <2>1. FreeFds \subseteq Nat
    BY ServerAssumption DEF FreeFds
  <2>2. fd \in FreeFds
    BY <1>1, <2>1, MinPicked
  <2> QED BY <2>2 DEF FreeFds
<1>4. /\ queue # <<>> /\ h \in Clients /\ conn[h].st = "queued" /\ h = queue[1] /\ Len(queue) >= 1
      /\ queue' \in Seq(Clients) /\ Len(queue') = Len(queue) - 1
      /\ \A i \in 1 .. Len(queue') : queue'[i] = queue[i + 1] /\ queue'[i] \in Clients
  <2>1. queue # <<>>
    BY <1>1 DEF IInv, Queued
  <2>2. /\ Len(queue) >= 1 /\ h = queue[1] /\ h \in Clients
        /\ queue' \in Seq(Clients) /\ Len(queue') = Len(queue) - 1
        /\ \A i \in 1 .. Len(queue') : queue'[i] = queue[i + 1] /\ queue'[i] \in Clients
    BY <1>1, <1>2, <2>1
  <2>3. conn[h].st = "queued"
    BY <2>2, <1>2 DEF IInv, Queued
  <2> QED BY <2>1, <2>2, <2>3
<1>5. /\ conn' \in [Clients -> Conn] /\ conn'[h].st = "open" /\ conn'[h].fd = fd
      /\ \A c \in Clients : c # h => conn'[c] = conn[c]
  <2> HIDE DEF h, fd
  <2>1. conn[h] \in Conn /\ conn' = [conn EXCEPT ![h] = [conn[h] EXCEPT !.st = "open", !.fd = fd]]
    BY <1>1, <1>2, <1>4
  <2>2. [conn[h] EXCEPT !.st = "open", !.fd = fd] \in Conn
    <3>1. fd \in 0 .. MaxFds
      BY <1>3, ServerAssumption
    <3> QED BY <2>1, <3>1 DEF Conn
  <2>3. /\ [conn[h] EXCEPT !.st = "open", !.fd = fd].st = "open"
        /\ [conn[h] EXCEPT !.st = "open", !.fd = fd].fd = fd
    BY <2>1 DEF Conn
  <2> QED BY <2>1, <2>2, <2>3, <1>2, <1>4
<1>6. TypeOK' /\ work' \in Work
  BY <1>1, <1>2, <1>4, <1>5, Typed DEF Typing, IInv
<1>7. Detaching'
  BY <1>1, StaysAttached DEF IInv
<1>8. Queued'
  <2>1. \A i \in 1 .. Len(queue') : queue'[i] # h /\ conn[queue'[i]].st = "queued"
    <3> TAKE i \in 1 .. Len(queue')
    <3>1. i + 1 \in 1 .. Len(queue) /\ 1 \in 1 .. Len(queue) /\ i + 1 # 1 /\ queue'[i] = queue[i + 1]
      BY <1>2, <1>4
    <3> QED BY <3>1, <1>4 DEF IInv, Queued
  <2>2. \A i \in 1 .. Len(queue') : conn'[queue'[i]].st = "queued"
    BY <2>1, <1>4, <1>5
  <2>3. \A i, j \in 1 .. Len(queue') : queue'[i] = queue'[j] => i = j
    <3> SUFFICES ASSUME NEW i \in 1 .. Len(queue'), NEW j \in 1 .. Len(queue'), queue'[i] = queue'[j]
                 PROVE  i = j
      OBVIOUS
    <3>1. i + 1 \in 1 .. Len(queue) /\ j + 1 \in 1 .. Len(queue) /\ queue[i + 1] = queue[j + 1]
      BY <1>2, <1>4
    <3>2. i + 1 = j + 1
      BY <3>1 DEF IInv, Queued
    <3> QED BY <3>2
  <2>4. Listener \notin readsock'
    <3>1. \A x \in readsock : Listener <= x
      BY <1>2 DEF Listener
    <3>2. Min(readsock) \in readsock /\ \A x \in readsock : Min(readsock) <= x
      BY <1>1, <3>1, Zenon DEF Min
    <3>3. Min(readsock) = Listener
      BY <3>1, <3>2, <1>1, <1>2 DEF Listener
    <3> QED BY <3>3, <1>1
  <2> QED BY <2>2, <2>3, <2>4 DEF Queued
<1>9. work.c = None
  BY <1>1 DEF IInv, Serving, InRequest
<1>10. Opened' = Opened \cup {h} /\ h \notin Opened
  BY <1>4, <1>5 DEF Opened
<1>11. Descriptors'
  <2>1. \A c \in Opened' : conn'[c].fd # 0 /\ (c # h => c \in Opened /\ conn'[c].fd = conn[c].fd)
    BY <1>3, <1>5, <1>10 DEF IInv, Descriptors, Opened
  <2>2. \A c, d \in Opened' : conn'[c].fd = conn'[d].fd => c = d
    BY <1>3, <1>5, <1>10, <2>1 DEF IInv, Descriptors
  <2>3. \A f \in readsock' : f # 0 => \E c \in Opened' : conn'[c].fd = f /\ c # work'.c
    <3> SUFFICES ASSUME NEW f \in readsock', f # 0
                 PROVE  \E c \in Opened' : conn'[c].fd = f /\ c # work'.c
      OBVIOUS
    <3>1. PICK c \in Opened : conn[c].fd = f /\ c # work.c
      BY <1>1 DEF IInv, Descriptors
    <3> QED BY <3>1, <1>1, <1>10, <2>1
  <2> QED BY <2>1, <2>2, <2>3 DEF Descriptors
<1>12. Serving' /\ Reading' /\ OwnError'
  BY <1>1, <1>9 DEF IInv, Serving, Reading, OwnError, InRequest
<1> QED BY <1>6, <1>7, <1>8, <1>11, <1>12 DEF IInv

\* handle_request() takes an open connection and clears the error.
LEMMA HandleRequestIInv == IInv /\ HandleRequest => IInv'
<1> SUFFICES ASSUME IInv, HandleRequest PROVE IInv'
  OBVIOUS
<1>1. /\ UNCHANGED <<conn, queue, files, run, ready, closes, main, hand, how>>
      /\ pc = "sweep" /\ pc' = "head" /\ readsock # {} /\ 0 \notin readsock /\ err' = FALSE
      /\ readsock' = readsock \ {Min(readsock)} /\ work' = [Idle EXCEPT !.c = Served]
  BY DEF HandleRequest, At, Rest, ErrorClear, Listener
<1>2. conn \in [Clients -> Conn] /\ readsock \subseteq 0 .. MaxFds /\ readsock \subseteq Nat
  BY ServerAssumption, Typed DEF Typing, IInv
<1>3. Min(readsock) \in readsock
  BY <1>1, <1>2, MinPicked
<1>4. Served \in Opened /\ conn[Served].fd = Min(readsock) /\ Served \in Clients /\ Served # None
  <2>1. \E c \in Opened : conn[c].fd = Min(readsock)
    BY <1>1, <1>3 DEF IInv, Descriptors
  <2> QED BY <2>1, ServerAssumption DEF Served, Opened
<1>5. /\ work' \in Work /\ work'.c = Served /\ work'.threw = FALSE /\ work'.body = "none"
  BY <1>1, <1>4 DEF Idle, Work, Answers
<1>6. TypeOK'
  BY <1>1, <1>2, Typed DEF Typing, IInv, InRequest
<1>7. Detaching'
  BY <1>1, StaysAttached DEF IInv
<1>8. Queued'
  BY <1>1 DEF IInv, Queued
<1>9. Descriptors'
  <2>1. \A f \in readsock' : f # 0 => \E c \in Opened : conn[c].fd = f /\ c # Served
    BY <1>1, <1>4 DEF IInv, Descriptors
  <2> QED BY <2>1, <1>1, <1>5 DEF IInv, Descriptors, Opened
<1>10. Serving' /\ Reading' /\ OwnError'
  BY <1>1, <1>4, <1>5 DEF Serving, Reading, OwnError, InRequest, Opened
<1> QED BY <1>5, <1>6, <1>7, <1>8, <1>9, <1>10 DEF IInv

-----------------------------------------------------------------------------
(* handle_request() *)

\* A step inside a request that leaves the connections alone: what is left to
\* show is what the request has become.
LEMMA InsideIInv ==
    ASSUME IInv, pc \in InRequest, pc' \in InRequest,
           UNCHANGED <<conn, queue, readsock, ready, closes, main, hand, how>>,
           work' \in Work, work'.c = work.c, files' \subseteq 1 .. MaxFds,
           run' \in BOOLEAN, err' \in BOOLEAN,
           pc' # "respond" => ~err' /\ ~work'.threw,
           Reading', OwnError'
    PROVE  IInv'
<1>1. TypeOK'
  BY Typed DEF Typing, IInv
<1>2. Detaching'
  BY StaysAttached DEF IInv, InRequest
<1>3. Queued' /\ Descriptors'
  BY DEF IInv, Queued, Descriptors, Opened
<1>4. Serving'
  BY DEF IInv, Serving, Opened
<1> QED BY <1>1, <1>2, <1>3, <1>4 DEF IInv

\* What a request in progress rests on.
LEMMA RequestType ==
    ASSUME IInv, pc \in InRequest
    PROVE  /\ work.c \in Clients /\ work.c # None /\ work \in Work /\ conn[work.c] \in Conn
           /\ Request \in Requests /\ work.c \in Opened
           /\ pc # "respond" => ~err /\ ~work.threw
           /\ files \subseteq 1 .. MaxFds /\ run \in BOOLEAN /\ err \in BOOLEAN
<1>1. conn \in [Clients -> Conn]
  BY Typed DEF Typing, IInv
<1>2. work.c # None /\ work.c \in Opened
  BY DEF IInv, Serving
<1>3. work.c \in Clients /\ conn[work.c] \in Conn
  BY <1>1, <1>2 DEF Opened
<1> QED BY <1>2, <1>3, Typed DEF Typing, IInv, Request, Conn, Serving

\* The fields of a request.
LEMMA RequestFields ==
    ASSUME NEW r \in Requests
    PROVE  /\ r.fine \in BOOLEAN /\ r.quid \in BOOLEAN
           /\ r.api \in {"none", "root", "shutdown", "call"}
           /\ r.at \in {"query", "body", "header", "nowhere"}
  BY ServerAssumption

\* Lines that were read are looked at: all of them if the client is still there.
LEMMA ParseIInv ==
    ASSUME IInv, pc = "head", NEW lines \in {"none", "line", "head"}, Parse(lines),
           conn[work.c].gone = "no" => lines = "head",
           UNCHANGED <<conn, queue, readsock, files, run, err, ready, closes, main, hand, how>>
    PROVE  IInv'
<1> DEFINE answer == IF lines = "none" THEN "405"
                     ELSE IF ~Request.fine THEN "400"
                     ELSE IF Request.method = "TRACE" THEN "405" ELSE "options"
           refused == lines = "none" \/ ~Request.fine \/ Request.method \in {"OPTIONS", "TRACE"}
<1>1. /\ pc \in InRequest /\ work \in Work /\ ~err /\ ~work.threw
      /\ work.c \in Clients /\ Request \in Requests
      /\ files \subseteq 1 .. MaxFds /\ run \in BOOLEAN /\ err \in BOOLEAN
  BY RequestType DEF InRequest
<1>2. conn[work.c].gone = "no" => work.body = "none"
  BY <1>1, ServerAssumption DEF IInv, Reading
<1>3. Request' = conn[work'.c].req
  BY DEF Request
<1>4. CASE refused
  <2>1. /\ pc' = "respond" /\ work' = [[work EXCEPT !.lines = lines] EXCEPT !.answer = answer]
    BY <1>4 DEF Parse
  <2>2. answer \in {"400", "405", "options"}
    OBVIOUS
  <2>3. /\ work' \in Work /\ work'.c = work.c /\ work'.answer = answer
    <3> HIDE DEF answer
    <3> QED BY <2>1, <2>2, <1>1 DEF Work, Answers
  <2>4. conn[work.c].gone = "no" => answer \in Due(Request)
    <3>1. CASE lines = "head" /\ ~Request.fine
      <4>1. answer = "400"
        BY <3>1
      <4>2. Due(Request) = {"400"}
        BY <3>1 DEF Due
      <4> QED BY <4>1, <4>2
    <3>2. CASE lines = "head" /\ Request.fine /\ Request.method = "TRACE"
      BY <3>2 DEF Due
    <3>3. CASE lines = "head" /\ Request.fine /\ Request.method = "OPTIONS"
      BY <3>3 DEF Due
    <3> QED BY <1>4, <3>1, <3>2, <3>3
  <2>5. Request' = Request
    BY <2>3, <1>3 DEF Request
  <2>6. Reading' /\ OwnError'
    <3> HIDE DEF answer
    <3> QED BY <2>1, <2>2, <2>3, <2>4, <2>5 DEF Reading, OwnError
  <2> QED BY <2>1, <2>3, <2>6, <1>1, InsideIInv DEF InRequest
<1>5. CASE ~refused
  <2>1. /\ pc' = IF HasBody(Request) /\ lines = "head" THEN "body" ELSE "route"
        /\ work' = [work EXCEPT !.lines = lines]
    BY <1>5 DEF Parse
  <2>2. /\ work' \in Work /\ work'.c = work.c /\ work'.lines = lines /\ work'.body = work.body
        /\ work'.threw = work.threw
    BY <2>1, <1>1 DEF Work
  <2>3. Request' = Request
    BY <2>2, <1>3 DEF Request
  <2>4. Reading' /\ OwnError'
    BY <2>1, <2>2, <2>3, <1>2, <1>5 DEF Reading, OwnError, Parsed
  <2> QED BY <2>1, <2>2, <2>4, <1>1, InsideIInv DEF InRequest
<1> QED BY <1>4, <1>5

\* disconnect: the connection is closed, its descriptor was no longer to be served.
LEMMA DisconnectIInv ==
    ASSUME IInv, pc \in {"head", "respond"}, NEW a \in Answers, Disconnect(a),
           UNCHANGED <<queue, readsock, files, run, ready, closes, main, hand, how>>
    PROVE  IInv'
<1>1. /\ conn' = [conn EXCEPT ![work.c] = Closed(a)] /\ err' = FALSE /\ work' = Idle /\ pc' = "sweep"
  BY DEF Disconnect, ErrorClear
<1>2. /\ pc \in InRequest /\ work.c \in Clients /\ work.c \in Opened
  BY RequestType DEF InRequest
<1>3. /\ conn \in [Clients -> Conn] /\ queue \in Seq(Clients)
  BY Typed DEF Typing, IInv
<1>4. /\ conn' \in [Clients -> Conn] /\ conn'[work.c].st = "closed"
      /\ \A c \in Clients : c # work.c => conn'[c] = conn[c]
  BY <1>1, <1>2, <1>3, ClosedType
<1>5. work' \in Work /\ work'.c = None
  BY <1>1 DEF Idle, Work, Answers
<1>6. TypeOK'
  BY <1>1, <1>4, Typed DEF Typing, IInv
<1>7. Detaching'
  BY <1>1, <1>2, StaysAttached DEF IInv, InRequest
<1>8. Queued'
  <2>1. \A i \in 1 .. Len(queue) : /\ queue[i] \in Clients /\ conn[queue[i]].st = "queued"
                                   /\ queue[i] # work.c
    BY <1>2, <1>3 DEF IInv, Queued, Opened
  <2> QED BY <2>1, <1>4 DEF IInv, Queued
<1>9. Descriptors'
  <2>1. Opened' = Opened \ {work.c} /\ \A c \in Opened' : conn'[c] = conn[c] /\ c \in Opened
    BY <1>4 DEF Opened
  <2>2. \A f \in readsock : f # 0 => \E c \in Opened' : conn'[c].fd = f /\ c # None
    <3> SUFFICES ASSUME NEW f \in readsock, f # 0
                 PROVE  \E c \in Opened' : conn'[c].fd = f /\ c # None
      OBVIOUS
    <3>1. PICK c \in Opened : conn[c].fd = f /\ c # work.c
      BY DEF IInv, Descriptors
    <3>2. c \in Opened' /\ c # None /\ conn'[c].fd = f
      BY <3>1, <2>1, ServerAssumption DEF Opened
    <3> QED BY <3>2
  <2> QED BY <2>1, <2>2, <1>5 DEF IInv, Descriptors
<1>10. Serving' /\ Reading' /\ OwnError'
  BY <1>1, <1>5 DEF Serving, Reading, OwnError, InRequest
<1> QED BY <1>5, <1>6, <1>7, <1>8, <1>9, <1>10 DEF IInv

\* A client that closed its end within a line gets an answer, or none.
LEMMA HeadEndsIInv == IInv /\ HeadEnds => IInv'
<1> SUFFICES ASSUME IInv, HeadEnds PROVE IInv'
  OBVIOUS
<1>1. /\ pc = "head" /\ conn[work.c].gone = "closed"
      /\ UNCHANGED <<queue, readsock, files, run, ready, closes, main, hand, how>>
  BY DEF HeadEnds, At
<1>2. CASE Disconnect("none")
  BY <1>1, <1>2, DisconnectIInv DEF Answers
<1>3. CASE Answering("400") /\ UNCHANGED <<conn, err>>
  <2>1. /\ pc \in InRequest /\ work \in Work
        /\ files \subseteq 1 .. MaxFds /\ run \in BOOLEAN /\ err \in BOOLEAN
    BY <1>1, RequestType DEF InRequest
  <2>2. /\ pc' = "respond" /\ work' = [work EXCEPT !.answer = "400"]
    BY <1>3 DEF Answering
  <2>3. work' \in Work /\ work'.c = work.c /\ work'.answer = "400"
    BY <2>1, <2>2 DEF Work, Answers
  <2>4. Reading' /\ OwnError'
    BY <1>1, <1>3, <2>2, <2>3 DEF Reading, OwnError
  <2> QED BY <1>1, <1>3, <2>1, <2>2, <2>3, <2>4, InsideIInv DEF InRequest
<1> QED BY <1>2, <1>3 DEF HeadEnds

\* The body of a client that is still there is whole.
LEMMA ReadBodyIInv == IInv /\ ReadBody => IInv'
<1> SUFFICES ASSUME IInv, ReadBody PROVE IInv'
  OBVIOUS
<1>1. /\ pc = "body" /\ pc' = "route"
      /\ UNCHANGED <<conn, queue, readsock, files, run, err, ready, closes, main, hand, how>>
  BY DEF ReadBody, At
<1>2. /\ pc \in InRequest /\ work \in Work /\ work.c # None /\ ~err /\ ~work.threw
      /\ files \subseteq 1 .. MaxFds /\ run \in BOOLEAN /\ err \in BOOLEAN
  BY <1>1, RequestType DEF InRequest
<1>3. PICK b \in {"none", "cut", "whole"} :
        work' = [work EXCEPT !.body = b] /\ (conn[work.c].gone = "no" => b = "whole")
  BY DEF ReadBody, BodyRead
<1>4. /\ work' \in Work /\ work'.c = work.c /\ work'.lines = work.lines /\ work'.body = b
      /\ work'.threw = work.threw
  BY <1>2, <1>3 DEF Work
<1>5. Request' = Request
  BY <1>1, <1>4 DEF Request
<1>6. conn[work.c].gone = "no" => Parsed /\ HasBody(Request) /\ b = "whole"
  BY <1>1, <1>2, <1>3 DEF IInv, Reading
<1>7. Reading' /\ OwnError'
  BY <1>1, <1>4, <1>5, <1>6 DEF Reading, OwnError, Parsed
<1> QED BY <1>1, <1>2, <1>4, <1>7, InsideIInv DEF InRequest

\* Where get_param() finds the parameter of a request that was read whole.
LEMMA ParamFound ==
    ASSUME NEW r \in Requests, work.lines = "head",
           work.body = IF HasBody(r) THEN "whole" ELSE "none"
    PROVE  /\ GetParam(r) \in {"whole", "none"}
           /\ GetParam(r) = "whole" <=> Reachable(r)
<1>1. r.at \in {"query", "body", "header", "nowhere"} /\ r.quid \in BOOLEAN
  BY RequestFields
<1>2. CASE r.at = "query"
  BY <1>2 DEF GetParam, Reachable
<1>3. CASE r.at = "body"
  BY <1>3 DEF GetParam, Reachable, HasBody
<1>4. CASE r.at = "header"
  BY <1>4 DEF GetParam, Reachable, HasBody
<1>5. CASE r.at = "nowhere"
  BY <1>5 DEF GetParam, Reachable, HasBody
<1> QED BY <1>1, <1>2, <1>3, <1>4, <1>5

\* The handler is the one the request names, and is called if its parameter is there.
LEMMA RouteIInv == IInv /\ Route => IInv'
<1> SUFFICES ASSUME IInv, Route PROVE IInv'
  OBVIOUS
<1>1. /\ pc = "route"
      /\ UNCHANGED <<conn, queue, readsock, files, err, ready, closes, main, hand, how>>
      /\ run' = (run /\ Request.api # "shutdown")
  BY DEF Route, At
<1>2. /\ pc \in InRequest /\ work \in Work /\ work.c # None /\ ~err /\ ~work.threw
      /\ Request \in Requests
      /\ files \subseteq 1 .. MaxFds /\ run' \in BOOLEAN /\ err \in BOOLEAN
  BY <1>1, RequestType DEF InRequest
<1>3. conn[work.c].gone = "no" =>
        /\ Parsed /\ work.body = IF HasBody(Request) THEN "whole" ELSE "none"
        /\ GetParam(Request) \in {"whole", "none"}
        /\ GetParam(Request) = "whole" <=> Reachable(Request)
  BY <1>1, <1>2, ParamFound DEF IInv, Reading, Parsed
<1>4. ASSUME NEW a \in Answers, Answering(a),
             conn[work.c].gone = "no" => a \in Due(Request),
             Request.api = "call" => a \notin {"error", "succeeded"}
      PROVE  IInv'
  <2>1. /\ pc' = "respond" /\ work' = [work EXCEPT !.answer = a]
    BY <1>4 DEF Answering
  <2>2. work' \in Work /\ work'.c = work.c /\ work'.answer = a
    BY <1>2, <2>1 DEF Work
  <2>3. Request' = Request
    BY <1>1, <2>2 DEF Request
  <2>4. Reading' /\ OwnError'
    BY <1>1, <1>4, <2>1, <2>2, <2>3 DEF Reading, OwnError
  <2> QED BY <1>1, <1>2, <2>1, <2>2, <2>4, InsideIInv DEF InRequest
<1>5. CASE Request.api # "call" /\ Answering(IF Request.api = "none" THEN "404" ELSE "succeeded")
  <2> DEFINE a == IF Request.api = "none" THEN "404" ELSE "succeeded"
  <2>1. Parsed => a \in Due(Request)
    BY <1>2, <1>5, RequestFields DEF Parsed, Due
  <2>2. a \in Answers
    BY DEF Answers
  <2> QED BY <1>3, <1>4, <1>5, <2>1, <2>2
<1>6. CASE Request.api = "call" /\ GetParam(Request) = "none" /\ Answering("empty")
  <2>1. Parsed /\ ~Reachable(Request) => "empty" \in Due(Request)
    BY <1>2, <1>6, RequestFields DEF Parsed, Due
  <2> QED BY <1>3, <1>4, <1>6, <2>1 DEF Answers
<1>7. CASE Request.api = "call" /\ GetParam(Request) # "none" /\ pc' = "call" /\ UNCHANGED work
  <2>1. Request' = Request /\ GetParam(Request)' = GetParam(Request) /\ Parsed' = Parsed
    BY <1>1, <1>7 DEF Request, GetParam, Parsed
  <2>2. Reading' /\ OwnError'
    BY <1>1, <1>3, <1>7, <2>1 DEF Reading, OwnError
  <2> QED BY <1>1, <1>2, <1>7, <2>2, InsideIInv DEF InRequest
<1> QED BY <1>5, <1>6, <1>7 DEF Route

\* iserror() after the call sees the error of this call: there was none before.
LEMMA CallIInv == IInv /\ Call => IInv'
<1> SUFFICES ASSUME IInv, Call PROVE IInv'
  OBVIOUS
<1>1. /\ pc = "call" /\ pc' = "respond"
      /\ UNCHANGED <<conn, queue, readsock, run, ready, closes, main, hand, how>>
  BY DEF Call, At
<1>2. /\ pc \in InRequest /\ work \in Work /\ work.c # None /\ err = FALSE
      /\ Request \in Requests
      /\ files \subseteq 1 .. MaxFds /\ run \in BOOLEAN
  BY <1>1, RequestType DEF InRequest
<1>3. PICK throws \in BOOLEAN :
        /\ err' = throws
        /\ work' = [work EXCEPT !.threw = throws, !.answer = IF throws THEN "error" ELSE "succeeded"]
  BY <1>2 DEF Call
<1>4. /\ work' \in Work /\ work'.c = work.c /\ work'.threw = throws
      /\ work'.answer = IF throws THEN "error" ELSE "succeeded"
  BY <1>2, <1>3 DEF Work, Answers
<1>5. files' \subseteq 1 .. MaxFds
  <2>1. FreeFds \subseteq 1 .. MaxFds /\ FreeFds \subseteq Nat
    BY ServerAssumption DEF FreeFds
  <2>2. FreeFds # {} => Min(FreeFds) \in FreeFds
    BY <2>1, MinPicked
  <2> QED BY <1>2, <2>1, <2>2 DEF Call
<1>6. Request' = Request
  BY <1>1, <1>4 DEF Request
<1>7. conn[work.c].gone = "no" => Due(Request) = {"error", "succeeded"}
  <2> SUFFICES ASSUME conn[work.c].gone = "no"
               PROVE  Due(Request) = {"error", "succeeded"}
    OBVIOUS
  <2>1. /\ Parsed /\ work.body = IF HasBody(Request) THEN "whole" ELSE "none"
        /\ Request.api = "call" /\ GetParam(Request) = "whole"
    BY <1>1, <1>2 DEF IInv, Reading
  <2>2. Reachable(Request)
    BY <1>2, <2>1, ParamFound DEF Parsed
  <2> QED BY <2>1, <2>2 DEF Parsed, Due
<1>8. Reading' /\ OwnError'
  BY <1>1, <1>4, <1>6, <1>7 DEF Reading, OwnError
<1> QED BY <1>1, <1>2, <1>3, <1>4, <1>5, <1>8, InsideIInv DEF InRequest

-----------------------------------------------------------------------------

\* One step per action.
LEMMA NextIInv == IInv /\ [Next]_vars => IInv'
<1> SUFFICES ASSUME IInv, [Next]_vars PROVE IInv'
  OBVIOUS
<1>1. CASE ClientStep
  BY <1>1, ClientStepIInv DEF ClientStep
<1>2. CASE Start
  BY <1>2, StartIInv
<1>3. CASE Interrupt
  BY <1>3, InterruptIInv
<1>4. CASE Listen
  BY <1>4, GoOnIInv, LeavingIInv DEF Listen, At
<1>5. CASE Select
  BY <1>5, SelectIInv
<1>6. CASE SweepEnd
  BY <1>6, GoOnIInv, LeavingIInv DEF SweepEnd, Loop, At
<1>7. CASE Accept
  BY <1>7, AcceptIInv
<1>8. CASE AcceptFails
  BY <1>8, LeavingIInv DEF AcceptFails, AcceptFailed, At
<1>9. CASE HandleRequest
  BY <1>9, HandleRequestIInv
<1>10. CASE ReadHead
  BY <1>10, ParseIInv DEF ReadHead, At
<1>11. CASE HeadEnds
  BY <1>11, HeadEndsIInv
<1>12. CASE HeadFails
  BY <1>12, ParseIInv DEF HeadFails, At
<1>13. CASE ReadBody
  BY <1>13, ReadBodyIInv
<1>14. CASE Route
  BY <1>14, RouteIInv
<1>15. CASE Call
  BY <1>15, CallIInv
<1>16. CASE Respond
  <2>1. pc = "respond" /\ work.answer \in Answers
    BY <1>16, RequestType DEF Respond, At, InRequest, Work
  <2> QED BY <1>16, <2>1, DisconnectIInv DEF Respond
<1>17. CASE BrokenPipe
  BY <1>17, EndIInv DEF BrokenPipe
<1>18. CASE MainDetach \/ HandlerDetach
  BY <1>18, DetachIInv
<1>19. CASE Return
  <2>1. pc = "detach" /\ hand = 0 /\ main = 6 /\ End("returned") /\ UNCHANGED <<run, err, ready, closes>>
    BY <1>19 DEF Return, At, Done, Parts
  <2>2. ~ready /\ \A k \in 1 .. 4 : closes[k] >= 1
    BY <2>1 DEF IInv, Detaching, Closings
  <2> QED BY <2>1, <2>2, EndIInv
<1>20. CASE Exit
  <2>1. hand = 6 /\ End("exited") /\ UNCHANGED <<run, err, ready, closes>>
    BY <1>20 DEF Exit, Done, Parts
  <2>2. pc = "detach" /\ main \in 0 .. 6
    BY <2>1, Typed DEF Typing, IInv, Detaching
  <2>3. ~ready /\ \A k \in 1 .. 4 : closes[k] >= 1
    <3>1. ~ready /\ \A k \in 1 .. 4 : closes[k] = Closings(k, main, 6)
      BY <2>1, <2>2 DEF IInv, Detaching
    <3>2. \A k \in 1 .. 4 : Closings(k, main, 6) >= 1
      BY <2>2 DEF Closings
    <3> QED BY <3>1, <3>2
  <2> QED BY <2>1, <2>3, EndIInv
<1>21. CASE UNCHANGED vars
  <2>1. UNCHANGED <<conn, queue, pc, readsock, work, files, run, err, ready, closes, main, hand, how>>
    BY <1>21 DEF vars, server
  <2> QED BY <2>1 DEF IInv, TypeOK, Detaching, Queued, Descriptors, Serving, Reading, OwnError, Opened,
                      Request, Parsed, GetParam
<1> QED BY <1>1, <1>2, <1>3, <1>4, <1>5, <1>6, <1>7, <1>8, <1>9, <1>10, <1>11, <1>12, <1>13, <1>14,
           <1>15, <1>16, <1>17, <1>18, <1>19, <1>20, <1>21 DEF Next, ServerStep

LEMMA SpecIInv == Spec => []IInv
  BY InitIInv, NextIInv, PTL DEF Spec

(***************************************************************************)
(* However the parts of requests arrive, and whatever other clients,       *)
(* hang-ups and earlier errors do in between, a request whose client is    *)
(* still there is used whole and gets the answer that is due to it         *)
(* (handle_request(), get_param()).                                        *)
(***************************************************************************)
THEOREM RequestsWhole == Spec => []UsedWhole
<1>1. IInv => UsedWhole
  BY DEF IInv, Reading, UsedWhole
<1> QED BY <1>1, SpecIInv, PTL

(***************************************************************************)
(* A failure is reported to the client whose own call failed and to no     *)
(* other (error_clear(), iserror()).                                       *)
(***************************************************************************)
THEOREM ErrorsOwn == Spec => []OwnError
<1>1. IInv => OwnError
  BY DEF IInv
<1> QED BY <1>1, SpecIInv, PTL

(***************************************************************************)
(* Unless a signal kills it, the process does not end before detach_core() *)
(* has closed every part of the core, whichever of the two runs of it,     *)
(* that of start_webapi() and that of the SIGINT handler, was cut into by  *)
(* the other; and no part is closed twice unless that happened.            *)
(***************************************************************************)
THEOREM EndsClean == Spec => []CleanEnd
<1>1. IInv => CleanEnd
  <2> SUFFICES ASSUME IInv PROVE CleanEnd
    OBVIOUS
  <2>1. DOMAIN closes = 1 .. 4 /\ main \in 0 .. 6 /\ hand \in 0 .. 6
    BY Typed DEF Typing, IInv
  <2>2. pc = "down" /\ how \in {"returned", "exited"} => ~ready /\ \A k \in DOMAIN closes : closes[k] >= 1
    BY <2>1 DEF IInv, Detaching
  <2>3. pc # "down" /\ (hand = 0 \/ main <= 1) => \A k \in DOMAIN closes : closes[k] <= 1
    BY <2>1 DEF IInv, Detaching, Closings
  <2> QED BY <2>2, <2>3 DEF CleanEnd
<1> QED BY <1>1, SpecIInv, PTL
=============================================================================
