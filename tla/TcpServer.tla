------------------------------ MODULE TcpServer -------------------------------
(***************************************************************************)
(* The daemon's loop (startserver) around Json::Rpc::TcpServer: one thread *)
(* that polls the listening socket and m_clients, accepts, then visits the *)
(* clients in list order with a blocking recv, and purges those whose recv *)
(* failed.                                                                 *)
(*                                                                         *)
(* A descriptor is a number the kernel reuses, lowest first; conn[f] is    *)
(* the connection behind it.  What travels to the server on a connection   *)
(* is a stream of units: a request is one unit, "whole", or a "head" and a *)
(* "tail" that the network, or its length, keeps apart.  A recv takes what *)
(* has arrived, up to Buf units, and the JSON reader parses the first      *)
(* value in it and ignores what follows.                                   *)
(***************************************************************************)
EXTENDS Integers, SequencesExt

CONSTANTS
  Conn,         \* connections that clients make
  Buf,          \* units the buffer of Recv holds
  MaxFd,        \* bound: descriptors the process has left for clients
  Backlog,      \* length of the listen queue
  MaxRequests,  \* bound: requests on one connection
  Window,       \* requests a client sends before it waits for an answer
  Split         \* connections whose requests may arrive in two pieces

ASSUME ServerAssumption ==
  /\ Buf \in Nat \ {0} /\ MaxFd \in Nat \ {0} /\ Backlog \in Nat \ {0}
  /\ MaxRequests \in Nat /\ Window \in Nat /\ Split \subseteq Conn
  /\ "none" \notin Conn

None == "none"
Unit == {"whole", "head", "tail"}
\* open; closed by the client; reset by the client; reset after the end of
\* its data (a send now raises SIGPIPE); closed by the server
Link == {"new", "open", "fin", "reset", "broken", "closed"}
Pc == {"setup", "loop", "poll", "accept", "scan", "recv", "handle", "send",
       "purge", "stopped", "dead"}

VARIABLES
  pc,       \* where the thread is
  run,      \* g_run
  clients,  \* m_clients
  purge,    \* m_purge
  pfd,      \* the revents of pfd: the listening socket, then the clients
  pos,      \* the client the loop of WaitMessage is at
  reply,    \* what the message taken is answered with: "result", "error"
  conn,     \* conn[f]: the connection behind descriptor f
  backlog,  \* connections the kernel has made and nobody accepted
  link,     \* link[c]: the state of connection c
  stream,   \* stream[c]: units that arrived and were not received
  sent,     \* sent[c]: requests begun by the client
  partial,  \* connections with half a request on its way
  results,  \* results[c]: answers with a handler's result
  errors    \* errors[c]: answers with a parse error

serverVars == <<pc, run, clients, purge, pfd, pos, reply, conn>>
clientVars == <<sent, partial>>
answerVars == <<results, errors>>
vars == <<serverVars, backlog, link, stream, clientVars, answerVars>>

\* The descriptors the process may use: its limit is not the program's choice
Fd == DOMAIN conn
Open == {f \in Fd : conn[f] # None}
Here == conn[clients[pos]]

Init ==
  /\ pc = "setup" /\ run = FALSE
  /\ clients = <<>> /\ purge = <<>> /\ pfd = <<FALSE>> /\ pos = 1
  /\ reply = None
  /\ \E n \in 1 .. MaxFd : conn = [f \in 1 .. n |-> None]
  /\ backlog = <<>>
  /\ link = [c \in Conn |-> "new"] /\ stream = [c \in Conn |-> <<>>]
  /\ sent = [c \in Conn |-> 0] /\ partial = {}
  /\ results = [c \in Conn |-> 0] /\ errors = [c \in Conn |-> 0]

-----------------------------------------------------------------------------
(* The server *)

\* The handlers of SIGTERM and SIGINT are in place before g_run is set
Start ==
  /\ pc = "setup"
  /\ run' = TRUE
  /\ pc' = "loop"
  /\ UNCHANGED <<clients, purge, pfd, pos, reply, conn, backlog, link, stream,
                 clientVars, answerVars>>

\* The process is gone: the kernel closes its sockets
HangUp ==
  /\ conn' = [f \in Fd |-> None]
  /\ backlog' = <<>>
  /\ link' = [c \in Conn |-> IF link[c] = "open" THEN "closed" ELSE link[c]]

\* Mutant: g_run is read once, as a compiler may if it is not volatile
LoopReadsOnce ==
  /\ pc = "loop"
  /\ pc' = "poll"
  /\ UNCHANGED <<run, clients, purge, pfd, pos, reply, conn, backlog, link, stream,
                 clientVars, answerVars>>

\* while (g_run), Close and the destructor of Server
Loop ==
  /\ pc = "loop"
  /\ IF run
     THEN pc' = "poll" /\ UNCHANGED <<clients, conn, backlog, link>>
     ELSE pc' = "stopped" /\ clients' = <<>> /\ HangUp
  /\ UNCHANGED <<run, purge, pfd, pos, reply, stream, clientVars, answerVars>>

Readable(c) == stream[c] # <<>> \/ link[c] # "open"

\* The socket to listen on comes first in pfd
Events ==
  <<backlog # <<>> >> \o [i \in DOMAIN clients |-> Readable(conn[clients[i]])]

Ready == \E i \in DOMAIN Events : Events[i]

\* poll, of the clients there are when the round starts
Poll ==
  /\ pc = "poll" /\ Ready
  /\ pfd' = Events
  /\ pc' = "accept"
  /\ UNCHANGED <<run, clients, purge, pos, reply, conn, backlog, link, stream,
                 clientVars, answerVars>>

\* The time is over or a signal came
PollReturnsNothing ==
  /\ pc = "poll" /\ ~Ready
  /\ pc' = "loop"
  /\ UNCHANGED <<run, clients, purge, pfd, pos, reply, conn, backlog, link,
                 stream, clientVars, answerVars>>

FreeFd == CHOOSE f \in Fd \ Open : \A g \in Fd \ Open : f <= g

\* accept fails when the process has no descriptor left; its result is ignored
Accept ==
  /\ pc = "accept"
  /\ pos' = 1
  /\ pc' = "scan"
  /\ IF pfd[1] /\ Open # Fd
     THEN /\ conn' = [conn EXCEPT ![FreeFd] = Head(backlog)]
          /\ clients' = Append(clients, FreeFd)
          /\ backlog' = Tail(backlog)
     ELSE UNCHANGED <<conn, clients, backlog>>
  /\ UNCHANGED <<run, purge, pfd, reply, link, stream, clientVars, answerVars>>

\* The client accepted in this round has no entry in pfd: what is read past
\* the end of the array may be anything
Revents(i) == IF i < Len(pfd) THEN {pfd[i + 1]} ELSE BOOLEAN

\* Mutant: the loop goes on to the entry after the last
ScanPastEnd ==
  /\ pc = "scan"
  /\ IF pos > Len(clients) + 1
     THEN pc' = "purge" /\ UNCHANGED pos
     ELSE \E in \in Revents(pos) :
            IF in THEN pc' = "recv" /\ UNCHANGED pos
                  ELSE pos' = pos + 1 /\ UNCHANGED pc
  /\ UNCHANGED <<run, clients, purge, pfd, reply, conn, backlog, link, stream,
                 clientVars, answerVars>>

\* One turn of the loop over m_clients
Scan ==
  /\ pc = "scan"
  /\ IF pos > Len(clients)
     THEN pc' = "purge" /\ UNCHANGED pos
     ELSE \E in \in Revents(pos) :
            IF in THEN pc' = "recv" /\ UNCHANGED pos
                  ELSE pos' = pos + 1 /\ UNCHANGED pc
  /\ UNCHANGED <<run, clients, purge, pfd, reply, conn, backlog, link, stream,
                 clientVars, answerVars>>

\* The first value of the message; without one it is a parse error
Process(msg) ==
  IF msg[1] = "whole" \/ (Len(msg) > 1 /\ msg[1] = "head" /\ msg[2] = "tail")
  THEN "result" ELSE "error"

\* Mutant: the buffer is looked at and not taken
RecvPeek ==
  LET c == Here
      n == IF Len(stream[c]) < Buf THEN Len(stream[c]) ELSE Buf IN
  /\ pc = "recv" /\ stream[c] # <<>>
  /\ reply' = Process(SubSeq(stream[c], 1, n))
  /\ pc' = IF reply' = "result" THEN "handle" ELSE "send"
  /\ UNCHANGED <<run, clients, purge, pfd, pos, conn, backlog, link, stream,
                 clientVars, answerVars>>

\* recv has data.  A request is given to its handler, which runs the command in
\* this thread; a message without one is answered with an error at once.
Recv ==
  LET c == Here
      n == IF Len(stream[c]) < Buf THEN Len(stream[c]) ELSE Buf IN
  /\ pc = "recv" /\ stream[c] # <<>>
  /\ reply' = Process(SubSeq(stream[c], 1, n))
  /\ stream' = [stream EXCEPT ![c] = SubSeq(@, n + 1, Len(@))]
  /\ pc' = IF reply' = "result" THEN "handle" ELSE "send"
  /\ UNCHANGED <<run, clients, purge, pfd, pos, conn, backlog, link,
                 clientVars, answerVars>>

\* The command is done.  Nothing says when: it waits for coin nodes without a
\* timeout (CallRPC).
HandlerReturns ==
  /\ pc = "handle"
  /\ pc' = "send"
  /\ UNCHANGED <<run, clients, purge, pfd, pos, reply, conn, backlog, link, stream,
                 clientVars, answerVars>>

\* Mutant: a client that has gone is not noted
RecvFailsForgets ==
  LET c == Here IN
  /\ pc = "recv" /\ stream[c] = <<>> /\ link[c] # "open"
  /\ pos' = pos + 1
  /\ pc' = "scan"
  /\ UNCHANGED <<run, clients, purge, pfd, reply, conn, backlog, link, stream,
                 clientVars, answerVars>>

\* recv returns 0 or -1.  On an open connection without data it does neither:
\* the thread waits.
RecvFails ==
  LET c == Here IN
  /\ pc = "recv" /\ stream[c] = <<>> /\ link[c] # "open"
  /\ purge' = Append(purge, clients[pos])
  /\ pos' = pos + 1
  /\ pc' = "scan"
  /\ UNCHANGED <<run, clients, pfd, reply, conn, backlog, link, stream,
                 clientVars, answerVars>>

\* Mutant: the loop around send starts over with the whole answer
SendTwice ==
  LET c == Here IN
  /\ pc = "send"
  /\ results' = [results EXCEPT ![c] = @ + 2]
  /\ pc' = "scan" /\ pos' = pos + 1 /\ reply' = None
  /\ UNCHANGED <<run, clients, purge, pfd, conn, backlog, link, stream, clientVars,
                 errors>>

\* The answer goes out.  A client that has gone makes the first send fail, or
\* succeed and be answered with a reset; neither is noted.  The next one
\* raises SIGPIPE.
Send ==
  LET c == Here IN
  /\ pc = "send"
  /\ IF link[c] = "open"
     THEN /\ results' = [results EXCEPT ![c] = @ + IF reply = "result" THEN 1 ELSE 0]
          /\ errors' = [errors EXCEPT ![c] = @ + IF reply = "error" THEN 1 ELSE 0]
     ELSE UNCHANGED answerVars
  /\ IF link[c] = "broken"
     THEN /\ pc' = "dead" /\ HangUp
          /\ UNCHANGED <<pos, reply>>
     ELSE /\ pc' = "scan" /\ pos' = pos + 1 /\ reply' = None
          /\ \E l \in CASE link[c] = "open" -> {"open"}
                        [] link[c] = "fin" -> {"fin", "broken"}
                        [] OTHER -> {"broken"} :
               link' = [link EXCEPT ![c] = l]
          /\ UNCHANGED <<conn, backlog>>
  /\ UNCHANGED <<run, clients, purge, pfd, stream, clientVars>>

\* Mutant: the descriptors are closed and stay in m_clients
PurgeClosesOnly ==
  /\ pc = "purge"
  /\ conn' = [f \in Fd |-> IF f \in ToSet(purge) THEN None ELSE conn[f]]
  /\ purge' = <<>>
  /\ pc' = "loop"
  /\ UNCHANGED <<run, clients, pfd, pos, reply, backlog, link, stream, clientVars,
                 answerVars>>

\* Mutant: all of m_clients goes
PurgeAll ==
  /\ pc = "purge"
  /\ conn' = [f \in Fd |-> IF f \in ToSet(purge) THEN None ELSE conn[f]]
  /\ clients' = IF purge = <<>> THEN clients ELSE <<>>
  /\ purge' = <<>>
  /\ pc' = "loop"
  /\ UNCHANGED <<run, pfd, pos, reply, backlog, link, stream, clientVars,
                 answerVars>>

\* The place of i among the numbers in S
Rank(S, i) == Cardinality({h \in S : h <= i})

\* The clients that are not purged, in their order
Kept ==
  LET S == {i \in DOMAIN clients : clients[i] \notin ToSet(purge)} IN
  [j \in 1 .. Cardinality(S) |-> clients[CHOOSE i \in S : Rank(S, i) = j]]

\* The descriptors in m_purge are closed and removed from m_clients
Purge ==
  /\ pc = "purge"
  /\ conn' = [f \in Fd |-> IF f \in ToSet(purge) THEN None ELSE conn[f]]
  /\ clients' = Kept
  /\ purge' = <<>>
  /\ pc' = "loop"
  /\ UNCHANGED <<run, pfd, pos, reply, backlog, link, stream, clientVars,
                 answerVars>>

-----------------------------------------------------------------------------
(* Clients, the network and signals *)

Connect(c) ==
  /\ link[c] = "new"
  /\ pc \notin {"setup", "stopped", "dead"}
  /\ Len(backlog) < Backlog
  /\ link' = [link EXCEPT ![c] = "open"]
  /\ backlog' = Append(backlog, c)
  /\ UNCHANGED <<serverVars, stream, clientVars, answerVars>>

Waiting(c) == link[c] = "open" /\ sent[c] > results[c] + errors[c]

Arrives(c, u) == stream' = [stream EXCEPT ![c] = Append(@, u)]

Request(c) ==
  /\ link[c] = "open" /\ c \notin partial
  /\ sent[c] < MaxRequests
  /\ sent[c] - results[c] - errors[c] < Window
  /\ sent' = [sent EXCEPT ![c] = @ + 1]
  /\ \/ Arrives(c, "whole") /\ UNCHANGED partial
     \/ c \in Split /\ Arrives(c, "head") /\ partial' = partial \cup {c}
  /\ UNCHANGED <<serverVars, backlog, link, answerVars>>

RestArrives(c) ==
  /\ link[c] = "open" /\ c \in partial
  /\ Arrives(c, "tail")
  /\ partial' = partial \ {c}
  /\ UNCHANGED <<serverVars, backlog, link, sent, answerVars>>

Finish(c) ==
  /\ link[c] = "open"
  /\ \E l \in {"fin", "reset"} : link' = [link EXCEPT ![c] = l]
  /\ UNCHANGED <<serverVars, backlog, stream, clientVars, answerVars>>

\* SIGTERM or SIGINT.  One that comes before Start is overwritten by it.
Signal ==
  /\ pc \notin {"stopped", "dead"}
  /\ run' = FALSE
  /\ UNCHANGED <<pc, clients, purge, pfd, pos, reply, conn, backlog, link, stream,
                 clientVars, answerVars>>

Thread == Start \/ Loop \/ Poll \/ PollReturnsNothing \/ Accept \/ Scan
            \/ Recv \/ RecvFails \/ Send \/ Purge
Server == Thread \/ HandlerReturns
Client(c) == Connect(c) \/ Request(c) \/ RestArrives(c) \/ Finish(c)

Next == Server \/ Signal \/ \E c \in Conn : Client(c)

Spec == Init /\ [][Next]_vars

\* The thread goes on whenever it can; a handler need not return
ServerFair == WF_vars(Thread)

\* A client that does not wait for an answer sends the rest, asks or leaves, as
\* those of testatomrpc do
ClientFair ==
  \A c \in Conn :
    WF_vars(~Waiting(c) /\ (Request(c) \/ Finish(c))) /\ WF_vars(RestArrives(c))

LoopSpec == Spec /\ ServerFair
FairSpec == LoopSpec /\ ClientFair

-----------------------------------------------------------------------------
(* Properties *)

\* Types of the server's state; the loop never leaves the list of clients
\* while it receives or sends (WaitMessage, Recv).
TypeOK ==
  /\ pc \in Pc /\ run \in BOOLEAN
  /\ clients \in Seq(Fd) /\ purge \in Seq(Fd) /\ pfd \in Seq(BOOLEAN)
  /\ pos \in Nat \ {0}
  /\ pc \in {"recv", "handle", "send"} => pos <= Len(clients)
  /\ reply \in {None, "result", "error"}
  /\ \E n \in 1 .. MaxFd : conn \in [1 .. n -> Conn \cup {None}]
  /\ backlog \in Seq(Conn)
  /\ link \in [Conn -> Link]
  /\ stream \in [Conn -> Seq(Unit)]
  /\ sent \in [Conn -> 0 .. MaxRequests] /\ partial \subseteq Conn
  /\ results \in [Conn -> Nat] /\ errors \in [Conn -> Nat]

\* m_clients has every open descriptor exactly once and no closed one, so
\* that poll, recv, send and close never touch a descriptor the kernel has
\* given to another connection (Accept, the purge of WaitMessage).
SocketsTracked ==
  pc # "dead" =>
    /\ IsInjective(clients) /\ ToSet(clients) = Open
    /\ IsInjective(purge) /\ ToSet(purge) \subseteq ToSet(clients)
    /\ \A f, g \in Open : conn[f] = conn[g] => f = g
    /\ \A f \in Open : conn[f] \notin ToSet(backlog)

\* When the server is back in poll with nothing more to read from a client whose
\* requests arrive whole, that client has had one result for each of them and no
\* error, whatever other clients send (Recv: one recv, one message, one answer).
OneResultEach ==
  pc = "poll" =>
    \A f \in Open :
      LET c == conn[f] IN
      c \notin Split /\ stream[c] = <<>> /\ link[c] = "open" =>
        results[c] = sent[c] /\ errors[c] = 0

\* The answer to a client that has gone does not end the daemon, unless a
\* request of that client came in pieces, with an answer to each (Recv returns
\* false when send fails).
SurvivesSend == pc = "dead" => \E c \in Split : link[c] = "broken"

\* No command waits for a coin node for ever.  The code does not see to it: a
\* CallRPC without an answer stops the only thread, so what follows is promised
\* on this condition alone.
HandlersReturn == []<>(pc # "handle")

\* WaitMessage comes back, if handlers do.
WaitReturns ==
  HandlersReturn => (pc = "accept" ~> pc \in {"loop", "stopped", "dead"})

\* A client that waits is answered, leaves, or sees the daemon end, if handlers
\* return: neither other clients, nor a lack of descriptors, nor purges keep it
\* waiting for ever.
ClientsServed == HandlersReturn => \A c \in Conn : Waiting(c) ~> ~Waiting(c)

\* The descriptor of a client that has gone is freed (m_purge), if handlers
\* return.
SocketsFreed ==
  HandlersReturn =>
    \A c \in Conn : link[c] \in {"fin", "reset", "broken"} ~>
                      c \notin {conn[f] : f \in Fd} \cup ToSet(backlog)

\* After a signal that came while the loop was running, the process ends,
\* however busy its clients keep it (g_run in startserver): the only thing that
\* holds it up for ever is a handler that never returns, which the signal does
\* not interrupt.
StopsOnSignal ==
  HandlersReturn => ((~run /\ pc # "setup") ~> pc \in {"stopped", "dead"})
=============================================================================
