---------------------------- MODULE Connections ----------------------------
(***************************************************************************)
(* How two processes connect to each other, and how one of them shuts      *)
(* down: FrontEnd::connect, TcpSocket::connect and accept, RpcContext's    *)
(* accept, async, update of the frontend tables and finalize, RpcService's *)
(* receiving and finalize.  A connection is dialled by the client frontend *)
(* of one process; the IO thread of the other takes it from the listen     *)
(* queue, reads the caller's CommInfo and address, connects back to that   *)
(* address (the second descriptor), and leaves the registration to a       *)
(* detached thread.  Each locked section is one step.  What a writer does  *)
(* with its messages, and events of descriptors that were replaced, are    *)
(* module FrontEnd's.                                                      *)
(***************************************************************************)
EXTENDS Naturals, Sequences, FiniteSets

CONSTANTS Proc, Stopper,   \* the processes; the one that may finalize
          MaxFaults        \* bound: connections cut by the network, and connects that
                           \* give up waiting for the way back, together

VARIABLES
  cs, ss,        \* per connection: state of the caller's and of the acceptor's end
  backlog,       \* per process: connections in the listen queue
  io,            \* per process: connection the IO thread is accepting, or NoConn
  client,        \* per process: connection of the client frontend (its _socket), or NoConn
  state,         \* per process: _state of that frontend: "connect", "epipe" (EPIPE alone), or
                 \* "disconnect" (with or without EPIPE)
  server,        \* per process: connection registered in _server_sockets, or NoConn
  available,     \* per process: that frontend is in CONNECT
  fin,           \* RpcService::finalize of Stopper: "up", "wait", "stop", "joined"
  spawnedIn,     \* history: value of fin when a registration thread was started, while it runs
  faults

vars == <<cs, ss, backlog, io, client, state, server, available, fin, spawnedIn, faults>>

\* A connection is named by its caller and counted there.  A frontend is dialled
\* once, and for a fault twice more: instead of the connection that failed, and
\* when the late registration of that one has thrown out its successor.
MaxDials == 1 + 2 * MaxFaults
Conn == Proc \X (1..MaxDials)
NoConn == <<>>
Other(p) == CHOOSE q \in Proc \ {p} : TRUE
From(c) == c[1]
To(c) == Other(From(c))
\* A process whose IO threads are joined takes part in nothing more.
Runs(p) == p = Stopper => fin # "joined"

Init ==
  /\ cs = [c \in Conn |-> "none"] /\ ss = cs /\ spawnedIn = [c \in Conn |-> "no"]
  /\ backlog = [p \in Proc |-> <<>>] /\ io = [p \in Proc |-> NoConn]
  /\ client = [p \in Proc |-> NoConn] /\ server = [p \in Proc |-> NoConn]
  /\ state = [p \in Proc |-> "disconnect"]
  /\ available = [p \in Proc |-> FALSE]
  /\ fin = "up" /\ faults = 0

Dead(c) == cs[c] \in {"closed", "seen"} \/ ss[c] = "closed"
Dialling(p) == \E c \in Conn : From(c) = p /\ cs[c] \in {"syn", "sent"}

-----------------------------------------------------------------------------
\* FrontEnd::connect of a disconnected frontend with something to send; one
\* thread at a time does it.  The kernel completes ::connect.
Dial(p) ==
  /\ Runs(p) /\ Runs(Other(p)) /\ state[p] = "disconnect" /\ ~Dialling(p)
  /\ \E c \in Conn :
       /\ From(c) = p /\ cs[c] = "none" /\ \A n \in 1..(c[2] - 1) : cs[<<p, n>>] # "none"
       /\ cs' = [cs EXCEPT ![c] = "syn"] /\ ss' = [ss EXCEPT ![c] = "backlog"]
       /\ backlog' = [backlog EXCEPT ![Other(p)] = Append(@, c)]
  /\ UNCHANGED <<io, client, state, server, available, fin, spawnedIn, faults>>

\* As TcpSocket::connect would be if it waited for the way back first.
SendInfoLate(c) ==
  /\ cs[c] = "syn" /\ ss[c] = "way_back" /\ cs' = [cs EXCEPT ![c] = "sent"]
  /\ UNCHANGED <<ss, backlog, io, client, state, server, available, fin, spawnedIn, faults>>
\* TcpSocket::connect sends magic, CommInfo and the address it listens on.
SendInfo(c) ==
  /\ cs[c] = "syn" /\ cs' = [cs EXCEPT ![c] = "sent"]
  /\ UNCHANGED <<ss, backlog, io, client, state, server, available, fin, spawnedIn, faults>>

\* TcpSocket::connect accepts the way back, and FrontEnd::connect installs the
\* socket in place of the old one and sets CONNECT; or the poll for it times out,
\* the socket is destroyed and epipe leaves DISCONNECT.
Connected(c) ==
  /\ cs[c] = "sent" /\ ss[c] \in {"way_back", "spawned", "registered"}
  /\ cs' = [x \in Conn |-> IF x = c THEN "open" ELSE IF x = client[From(c)] THEN "closed" ELSE cs[x]]
  /\ client' = [client EXCEPT ![From(c)] = c]
  /\ state' = [state EXCEPT ![From(c)] = "connect"]
  /\ UNCHANGED <<ss, backlog, io, server, available, fin, spawnedIn, faults>>
ConnectFails(c) ==
  /\ cs[c] = "sent"
  /\ \/ faults < MaxFaults /\ faults' = faults + 1
     \/ ss[c] = "closed" /\ UNCHANGED faults
  /\ cs' = [cs EXCEPT ![c] = "closed"] /\ state' = [state EXCEPT ![From(c)] = "disconnect"]
  /\ UNCHANGED <<ss, backlog, io, client, server, available, fin, spawnedIn>>

-----------------------------------------------------------------------------
\* receiving: the IO thread sees the listening descriptor; TcpAcceptor::accept
handle_accept_event(q) ==
  /\ Runs(q) /\ io[q] = NoConn /\ backlog[q] # <<>>
  /\ io' = [io EXCEPT ![q] = Head(backlog[q])]
  /\ backlog' = [backlog EXCEPT ![q] = Tail(@)]
  /\ UNCHANGED <<cs, ss, client, state, server, available, fin, spawnedIn, faults>>

\* TcpSocket::accept reads what the caller sent and connects back; it fails when
\* the caller is gone, and the socket is destroyed.
WayBack(q) ==
  /\ io[q] # NoConn /\ ss[io[q]] = "backlog" /\ cs[io[q]] # "syn"
  /\ IF cs[io[q]] = "closed"
     THEN ss' = [ss EXCEPT ![io[q]] = "closed"] /\ io' = [io EXCEPT ![q] = NoConn]
     ELSE ss' = [ss EXCEPT ![io[q]] = "way_back"] /\ UNCHANGED io
  /\ UNCHANGED <<cs, backlog, client, state, server, available, fin, spawnedIn, faults>>
\* RpcContext::accept hands the registration to a detached thread (async).
Spawn(q) ==
  /\ io[q] # NoConn /\ ss[io[q]] = "way_back"
  /\ ss' = [ss EXCEPT ![io[q]] = "spawned"]
  /\ spawnedIn' = [spawnedIn EXCEPT ![io[q]] = IF q = Stopper THEN fin ELSE "up"]
  /\ io' = [io EXCEPT ![q] = NoConn]
  /\ UNCHANGED <<cs, backlog, client, state, server, available, fin, faults>>

\* remove_frontend of the frontend registered at q: its socket closes with it.
remove_frontend(q) == [c \in Conn |-> IF c = server[q] THEN "closed" ELSE ss[c]]
\* As the registration would be if it did not set CONNECT.
RegisterUnmarked(c) ==
  /\ ss' = [remove_frontend(To(c)) EXCEPT ![c] = "registered"]
  /\ server' = [server EXCEPT ![To(c)] = c]
  /\ UNCHANGED available
\* The registration: the frontend of the same rank is removed, and the new one
\* takes its place.
Register(c) ==
  /\ ss' = [remove_frontend(To(c)) EXCEPT ![c] = "registered"]
  /\ server' = [server EXCEPT ![To(c)] = c]
  /\ available' = [available EXCEPT ![To(c)] = TRUE]
Registration(c) ==
  /\ ss[c] = "spawned" /\ Register(c) /\ spawnedIn' = [spawnedIn EXCEPT ![c] = "no"]
  /\ UNCHANGED <<cs, backlog, io, client, state, fin, faults>>

-----------------------------------------------------------------------------
\* The network cuts a connection; each end finds out by itself.
Break(c) ==
  /\ faults < MaxFaults /\ cs[c] = "open" /\ ss[c] # "closed"
  /\ faults' = faults + 1 /\ cs' = [cs EXCEPT ![c] = "closed"]
  /\ UNCHANGED <<ss, backlog, io, client, state, server, available, fin, spawnedIn>>
\* handle_message_event: an IO thread sees the end of the client frontend's
\* connection, stops listening to it and stores EPIPE alone, also over the
\* DISCONNECT of a writer that was faster.  available() is false from then on.
ClientSees(p) ==
  /\ Runs(p) /\ client[p] # NoConn /\ Dead(client[p]) /\ cs[client[p]] # "seen"
  /\ cs' = [cs EXCEPT ![client[p]] = "seen"] /\ state' = [state EXCEPT ![p] = "epipe"]
  /\ UNCHANGED <<ss, backlog, io, client, server, available, fin, spawnedIn, faults>>
\* epipe, when a write fails: the client frontend may be connected again.  In state
\* EPIPE the writer is one that had found the frontend available before.
WriteFails(p) ==
  /\ Runs(p) /\ client[p] # NoConn /\ Dead(client[p]) /\ ~Dialling(p) /\ state[p] # "disconnect"
  /\ state' = [state EXCEPT ![p] = "disconnect"]
  /\ UNCHANGED <<cs, ss, backlog, io, client, server, available, fin, spawnedIn, faults>>
\* handle_message_event of a server frontend: it waits, unavailable, for the next
\* connection of its peer.
ServerSees(q) ==
  /\ Runs(q) /\ server[q] # NoConn /\ available[q] /\ Dead(server[q])
  /\ available' = [available EXCEPT ![q] = FALSE]
  /\ UNCHANGED <<cs, ss, backlog, io, client, state, server, fin, spawnedIn, faults>>

\* RpcContext::finalize waits until no detached thread runs; then the terminate
\* event ends the IO threads, and they are joined.
AsyncThreads(q) ==
  {c \in Conn : (To(c) = q /\ ss[c] = "spawned") \/ (From(c) = q /\ cs[c] \in {"syn", "sent"})}
\* As finalize would be if it did not wait for them.
FinalizeNoWait ==
  /\ \/ fin = "up" /\ fin' = "stop"
     \/ fin = "stop" /\ io[Stopper] = NoConn /\ fin' = "joined"
  /\ UNCHANGED <<cs, ss, backlog, io, client, state, server, available, spawnedIn, faults>>
Finalize ==
  /\ \/ fin = "up" /\ fin' = "wait"
     \/ fin = "wait" /\ AsyncThreads(Stopper) = {} /\ fin' = "stop"
     \/ fin = "stop" /\ io[Stopper] = NoConn /\ fin' = "joined"
  /\ UNCHANGED <<cs, ss, backlog, io, client, state, server, available, spawnedIn, faults>>

\* The thread that connects p's client frontend, the IO thread of p, and the
\* detached threads.
Connecting(p) ==
  \/ Dial(p)
  \/ \E c \in Conn : From(c) = p /\ (SendInfo(c) \/ Connected(c) \/ ConnectFails(c))
Registering(p) == \E c \in Conn : To(c) = p /\ Registration(c)
Receiving(p) ==
  handle_accept_event(p) \/ WayBack(p) \/ Spawn(p) \/ ClientSees(p) \/ ServerSees(p)

Next ==
  \/ \E p \in Proc : Connecting(p) \/ Receiving(p) \/ Registering(p) \/ WriteFails(p)
  \/ \E c \in Conn : Break(c)
  \/ Finalize

\* Every thread goes on while it can, and there is always something more to send
\* for a frontend that may be connected; nothing says that the network breaks, a
\* poll times out while the other end is alive, a write comes before the IO
\* thread sees the end, or the process ends.
Waits(p) == \E c \in Conn : From(c) = p /\ cs[c] = "sent" /\ ss[c] = "backlog"
Fairness ==
  /\ \A p \in Proc : WF_vars(~Waits(p) /\ Connecting(p)) /\ WF_vars(Receiving(p))
  /\ \A p \in Proc : WF_vars(Registering(p))
Spec == Init /\ [][Next]_vars /\ Fairness

-----------------------------------------------------------------------------
\* However dials, detached registrations and a fault interleave, and although a
\* late registration may throw out the newer connection, two processes that keep
\* running end up connected both ways, each client frontend with the frontend
\* registered for it.  The exception is a frontend given up for good, because the
\* IO thread was the one to see the end of its connection; without a fault none is.
Linked(p) ==
  /\ state[p] = "connect" /\ ~Dead(client[p])
  /\ server[Other(p)] = client[p] /\ available[Other(p)]
GivenUp(p) == state[p] = "epipe" /\ faults > 0
LinkedOrGivenUp == \A p \in Proc : Linked(p) \/ GivenUp(p)
EndsConnected == <>[](fin # "up" \/ LinkedOrGivenUp)

\* When finalize has joined the IO threads, the only detached threads still
\* running are registrations of connections that were accepted after it had
\* waited for them; and connects begun since.
OutlivesOnlyLate ==
  fin = "joined" =>
    \A c \in AsyncThreads(Stopper) : To(c) = Stopper => spawnedIn[c] = "stop"
=============================================================================
