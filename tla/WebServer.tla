------------------------------ MODULE WebServer ------------------------------
(***************************************************************************)
(* project1: the select loop of server_num.c and the answers of             *)
(* web_server.c, with clients that connect, ask, and leave in between.      *)
(*                                                                         *)
(* The server is one process; clients act between its system calls.  A      *)
(* request is the two words that are read of it, and whether they fit into  *)
(* action and, behind the root directory, into fullFilePath.  One that      *)
(* comes in pieces is cut between them, so that what buf held before is     *)
(* read as the second.                                                      *)
(***************************************************************************)
EXTENDS Integers, Sequences, FiniteSets

CONSTANTS
    Client,     \* numbered as they connect
    Fd,         \* descriptors the process may still open
    Requests,   \* what clients ask for
    Setups,     \* how the server may have been started
    BACKLOG,    \* of listen
    MaxLeaving, \* bound: clients that leave
    MaxCut      \* bound: requests that come in pieces

\* What a file name may stand for: a file, one that may not be read, a directory
\* without and with a slash at its end, nothing, a path with ../ in it.
File == {"page", "secret", "folder", "slash", "absent", "up"}
Action == {"GET", "other"}
Request == [action : Action, file : File, fits : BOOLEAN]

ASSUME ServerAssumption ==
    /\ Client \subseteq Nat
    /\ Fd \subseteq Nat /\ IsFiniteSet(Fd)
    /\ Requests \subseteq Request
    /\ Setups \subseteq [mode : BOOLEAN, home : BOOLEAN, up : BOOLEAN]
    /\ BACKLOG \in Nat /\ MaxLeaving \in Nat /\ MaxCut \in Nat

VARIABLES
    setup,      \* started with a mode, in project1, with ../ in the root directory
    alive,      \* the process has not aborted or been killed
    pc,         \* where it is in its loop
    list,       \* the list behind head, by its sockets
    socket,     \* the connection of each descriptor
    files,      \* descriptors of files that were opened
    read_set,   \* what select has left in it
    current,    \* the node the loop is at
    words,      \* fileName and action, until they are freed
    backlog,    \* connections not accepted yet
    request,    \* what each client asks for
    peer,       \* the connection as seen from the server: what the client did
    arrived,    \* how much of the request arrived, and how much recv took
    answer,     \* what the client was sent
    shut        \* clients whose connection the server closed
server == <<alive, pc, list, socket, files, read_set, current, words>>
clients == <<backlog, request, peer, arrived, answer, shut>>
vars == <<setup, server, clients>>

-----------------------------------------------------------------------------
Nobody == -1        \* no node, no connection: next = 0, and head.socket
Listening == -2     \* the descriptor of sock
NoRequest == [action |-> "other", file |-> "absent", fits |-> TRUE]

Elements(s) == {s[i] : i \in 1..Len(s)}

TypeOK ==
    /\ setup \in Setups /\ alive \in BOOLEAN
    /\ pc \in {"select", "accept", "visit", "header", "page"}
    /\ list \in Seq(Fd) /\ socket \in [Fd -> Client \union {Nobody}] /\ files \subseteq Fd
    /\ read_set \subseteq Fd \union {Listening} /\ current \in Fd \union {Nobody}
    /\ words \in Request
    /\ backlog \in Seq(Client)
    /\ request \in [Client -> Requests \union {NoRequest}]
    /\ peer \in [Client -> {"away", "open", "fin", "dying", "rst", "pipe"}]
    /\ arrived \in [Client -> {"nothing", "part", "whole", "read", "cut"}]
    /\ \A c \in Client : Len(answer[c]) <= 2
    /\ shut \subseteq Client

Init ==
    /\ setup \in Setups /\ alive = TRUE
    /\ pc = "select" /\ list = <<>> /\ socket = [f \in Fd |-> Nobody] /\ files = {}
    /\ read_set = {} /\ current = Nobody /\ words = NoRequest
    /\ backlog = <<>> /\ request = [c \in Client |-> NoRequest]
    /\ peer = [c \in Client |-> "away"]
    /\ arrived = [c \in Client |-> "nothing"]
    /\ answer = [c \in Client |-> <<>>] /\ shut = {}

-----------------------------------------------------------------------------
\* Clients.  What they do to a server that is dead is of no interest.

Connect(c) ==
    /\ alive /\ peer[c] = "away" /\ Len(backlog) <= BACKLOG
    /\ \A d \in Client : d < c => peer[d] # "away"
    /\ peer' = [peer EXCEPT ![c] = "open"]
    /\ backlog' = Append(backlog, c)
    /\ UNCHANGED <<setup, server, request, arrived, answer, shut>>

SendRequest(c) ==
    /\ alive /\ peer[c] = "open" /\ arrived[c] = "nothing" /\ c \notin shut
    /\ \E q \in Requests : request' = [request EXCEPT ![c] = q]
    /\ \E much \in {"part", "whole"} :
          /\ much = "part" =>
                Cardinality({d \in Client : arrived[d] \in {"part", "cut"}}) < MaxCut
          /\ arrived' = [arrived EXCEPT ![c] = much]
    /\ UNCHANGED <<setup, server, backlog, peer, answer, shut>>

\* What comes after the first part was read is never read.
SendRest(c) ==
    /\ alive /\ peer[c] = "open" /\ arrived[c] = "part"
    /\ arrived' = [arrived EXCEPT ![c] = "whole"]
    /\ UNCHANGED <<setup, server, backlog, request, peer, answer, shut>>

\* A client closes its socket, or its connection is reset.
Leave(c) ==
    /\ alive /\ peer[c] = "open" /\ c \notin shut
    /\ Cardinality({d \in Client : peer[d] \notin {"away", "open"}}) < MaxLeaving
    /\ \E how \in {"fin", "rst"} : peer' = [peer EXCEPT ![c] = how]
    /\ UNCHANGED <<setup, server, backlog, request, arrived, answer, shut>>

\* What was sent to a socket that is closed is answered with a reset.
ResetArrives(c) ==
    /\ alive /\ peer[c] = "dying" /\ c \notin shut
    /\ peer' = [peer EXCEPT ![c] = "pipe"]
    /\ UNCHANGED <<setup, server, backlog, request, arrived, answer, shut>>

-----------------------------------------------------------------------------
\* The list of server_num.c.

\* A mistake: the rest of the list is not kept.
addOnly(l, f) == <<f>>

add(l, f) == <<f>> \o l

\* A mistake: the node stays.
dumpNothing(l, f) == l

dump(l, f) ==
    LET i == CHOOSE i \in 1..Len(l) : l[i] = f /\ \A j \in 1..i - 1 : l[j] # f
    IN  IF f \in Elements(l) THEN SubSeq(l, 1, i - 1) \o SubSeq(l, i + 1, Len(l)) ELSE l

First(l) == IF l = <<>> THEN Nobody ELSE l[1]
NextOf(l, f) == LET i == CHOOSE i \in 1..Len(l) : l[i] = f
                IN  IF i < Len(l) THEN l[i + 1] ELSE Nobody

-----------------------------------------------------------------------------
\* web_server.c.

\* 500 stands for a file that may not be read.
validDir(q) ==
    IF q.action # "GET" THEN 501
    ELSE IF setup.up \/ q.file \in {"up", "slash"} THEN 400
    ELSE IF q.file = "absent" THEN 404
    ELSE IF q.file = "secret" THEN 500
    ELSE 200

\* The case of 501 falls through to that of 500: both go into the header, and the
\* page is that of 500.
header(q) == IF validDir(q) = 501 THEN <<501, 500>> ELSE <<validDir(q)>>
ErrorPages == {"400.html", "404.html", "500.html"}
page(q) ==
    CASE validDir(q) = 200 -> q.file
      [] validDir(q) = 400 -> "400.html"
      [] validDir(q) = 404 -> "404.html"
      [] validDir(q) \in {500, 501} -> "500.html"

\* Whether fopen and fread succeed; of a directory either happens, as its file
\* system likes.
MayOpen(q) == page(q) \in ErrorPages => setup.home
MayFail(q) == ~MayOpen(q) \/ page(q) = "folder"

-----------------------------------------------------------------------------
\* The select loop.

Used == {f \in Fd : socket[f] # Nobody} \union files
LowestFree == CHOOSE f \in Fd \ Used : \A g \in Fd \ Used : f <= g

Dies == /\ alive' = FALSE
        /\ UNCHANGED <<setup, pc, list, socket, files, read_set, current, words, clients>>

IsOpen(f) == socket[f] # Nobody
IsReady(c) == arrived[c] \in {"part", "whole"} \/ peer[c] # "open"

Ready ==
    {f \in Elements(list) : IsOpen(f) => IsReady(socket[f])}
        \union (IF backlog # <<>> THEN {Listening} ELSE {})

\* select does not return with nothing ready but to be called again; it fails
\* if a descriptor of the list is not open.
Select ==
    /\ pc = "select" /\ Ready # {}
    /\ alive' = \A f \in Elements(list) : IsOpen(f)
    /\ read_set' = Ready
    /\ pc' = IF Listening \in Ready THEN "accept" ELSE "visit"
    /\ current' = First(list)
    /\ UNCHANGED <<setup, list, socket, files, words, clients>>

\* A mistake: the new socket is taken for one that is ready.
WatchedAtOnce(f) == read_set \union {f}

\* Only what was in the list when select was called can be in read_set.
Watched(f) == read_set

Accept ==
    /\ pc = "accept" /\ Used # Fd
    /\ LET f == LowestFree
       IN  /\ socket' = [socket EXCEPT ![f] = Head(backlog)]
           /\ list' = add(list, f)
           /\ current' = f
           /\ read_set' = Watched(f)
    /\ backlog' = Tail(backlog)
    /\ pc' = "visit"
    /\ UNCHANGED <<setup, alive, files, words, request, peer, arrived, answer, shut>>

AcceptFails == pc = "accept" /\ Used = Fd /\ Dies

Here == socket[current]

\* Back to FD_ZERO.
LoopEnds ==
    /\ pc = "visit" /\ current = Nobody
    /\ pc' = "select" /\ read_set' = {}
    /\ UNCHANGED <<setup, alive, list, socket, files, current, words, clients>>

Skip ==
    /\ pc = "visit" /\ current # Nobody /\ current \notin read_set
    /\ current' = NextOf(list, current)
    /\ UNCHANGED <<setup, alive, pc, list, socket, files, read_set, words, clients>>

\* close, dump, and on to the node that came next.
CloseCurrent ==
    /\ socket' = [socket EXCEPT ![current] = Nobody]
    /\ shut' = shut \union {Here}
    /\ list' = dump(list, current)
    /\ current' = NextOf(list, current)
    /\ pc' = "visit"

\* recv has nothing: the client has left, or there was nothing to read.
HangUp ==
    /\ pc = "visit" /\ current \in read_set
    /\ arrived[Here] \notin {"part", "whole"}
    /\ CloseCurrent
    /\ UNCHANGED <<setup, alive, files, read_set, words, backlog, request, peer, arrived, answer>>

\* A mistake: the socket in front is read.
recvFirst(c) == {request[socket[First(list)]]}

\* The words that are read of buf after recv; with a request that is cut, the
\* second is what an earlier one, of any client, has left there.
recv(c) == IF arrived[c] = "whole" THEN {request[c]}
           ELSE {[q EXCEPT !.action = request[c].action, !.fits = @ /\ request[c].fits] :
                     q \in Requests}

Recv ==
    /\ pc = "visit" /\ current \in read_set
    /\ arrived[Here] \in {"part", "whole"}
    /\ setup.mode
    /\ words' \in recv(Here)
    /\ arrived' = [arrived EXCEPT ![Here] = IF @ = "whole" THEN "read" ELSE "cut"]
    /\ pc' = "header"
    /\ UNCHANGED <<setup, alive, list, socket, files, read_set, current,
                   backlog, request, peer, answer, shut>>

\* strcmp of a mode that was not given.
RecvWithoutMode ==
    /\ pc = "visit" /\ current \in read_set
    /\ arrived[Here] \in {"part", "whole"}
    /\ ~setup.mode /\ Dies

\* sscanf and strcat write past action and fullFilePath.  What that damages may be
\* found as it happens, or by a later call, or never; other damage is left out.
Overflow ==
    /\ \/ /\ pc = "visit" /\ current \in read_set
          /\ arrived[Here] \in {"part", "whole"}
          /\ setup.mode /\ \E w \in recv(Here) : ~w.fits
       \/ pc \in {"header", "page"} /\ ~words.fits
    /\ Dies

\* send tells of a reset once, and kills the process the next time.
Sent(c, piece) ==
    /\ peer[c] # "pipe"
    /\ peer' = [peer EXCEPT ![c] = IF @ = "fin" THEN "dying" ELSE IF @ = "rst" THEN "pipe" ELSE @]
    /\ answer' = [answer EXCEPT ![c] = IF peer[c] = "rst" THEN @ ELSE Append(@, piece)]

BrokenPipe == pc \in {"header", "page"} /\ peer[Here] = "pipe" /\ Dies

SendHeader ==
    /\ pc = "header" /\ Sent(Here, header(words))
    /\ pc' = "page"
    /\ UNCHANGED <<setup, alive, list, socket, files, read_set, current, words,
                   backlog, request, arrived, shut>>

\* fopen, fread and one send, which may take only a part; fp stays open.  Then the
\* words are freed, where the damage of Overflow may be found.
SendPage ==
    /\ pc = "page" /\ MayOpen(words) /\ Used # Fd
    /\ files' = files \union {LowestFree}
    /\ Sent(Here, page(words))
    /\ CloseCurrent /\ words' = NoRequest
    /\ alive' \in {TRUE, words.fits}
    /\ UNCHANGED <<setup, read_set, backlog, request, arrived>>

PageFails == pc = "page" /\ (MayFail(words) \/ Used = Fd) /\ Dies

ServerNext ==
    /\ alive
    /\ \/ Select \/ Accept \/ AcceptFails
       \/ LoopEnds \/ Skip \/ HangUp \/ Recv \/ RecvWithoutMode
       \/ Overflow \/ SendHeader \/ SendPage \/ PageFails \/ BrokenPipe

Next ==
    \/ ServerNext
    \/ \E c \in Client : \/ Connect(c) \/ SendRequest(c) \/ SendRest(c)
                         \/ Leave(c) \/ ResetArrives(c)

Spec == Init /\ [][Next]_vars /\ WF_vars(ServerNext)

-----------------------------------------------------------------------------
\* The list is what is open, each connection once: no node of a socket that is
\* closed, whose number may be another's next, and no connection nobody watches
\* (server_num.c 31-59, 255, 304, 320).
ListIsOpenSockets ==
    /\ Elements(list) = {f \in Fd : socket[f] # Nobody}
    /\ \A i, j \in 1..Len(list) : list[i] = list[j] => i = j
    /\ \A f, g \in Fd : socket[f] = socket[g] /\ socket[f] # Nobody => f = g
    /\ \A f \in Fd : socket[f] \notin shut
    /\ current # Nobody => current \in Elements(list)

\* Each client is sent the answer to its own request, piece by piece and once,
\* though all share one buffer and numbers of sockets are used again: unless the
\* request was read before all of it had come (server_num.c 262-321).
AnswerIsForItsRequest ==
    \A c \in Client :
        /\ answer[c] # <<>> => arrived[c] \in {"read", "cut"}
        /\ arrived[c] = "read" /\ peer[c] \in {"open", "fin", "dying"} =>
              LET own == <<header(request[c]), page(request[c])>>
              IN  answer[c] = SubSeq(own, 1, Len(answer[c]))

\* The server closes no connection of a client that stays before it is answered:
\* recv is never called on a socket that has nothing to read (server_num.c
\* 185-206, 292-305).
StayingIsAnswered ==
    \A c \in shut : peer[c] = "open" => Len(answer[c]) = 2

\* What the server survives: clients that stay until they are answered or leave
\* before they ask, ask for no directory, in one piece and in words that fit, and
\* are fewer than descriptors, of which each answer takes one for good
\* (server_num.c 213, 232, 309-324; web_server.c 71-102).
Harmless(c) ==
    /\ peer[c] \notin {"away", "open"} => arrived[c] = "nothing"
    /\ request[c].file # "folder" /\ request[c].fits
    /\ arrived[c] \notin {"part", "cut"}
Survives ==
    /\ setup.mode /\ setup.home
    /\ \A c \in Client : Harmless(c)
    /\ Cardinality({c \in Client : peer[c] # "away"}) < Cardinality(Fd)
    => alive

\* Who has asked and stays is answered, whatever the others do that does not
\* bring the server down: nobody is passed over for ever (server_num.c 262-321).
AskingIsAnswered ==
    \A c \in Client :
        arrived[c] = "whole" ~> (Len(answer[c]) = 2 \/ peer[c] # "open" \/ ~alive)
===============================================================================
