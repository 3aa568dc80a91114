------------------------------ MODULE FrontEnd ------------------------------
(***************************************************************************)
(* The send path of one FrontEnd (src/rpc/FrontEnd.cpp): many threads hand *)
(* messages to one connection, and the thread that finds the counter       *)
(* _sending_queue_size at zero becomes the worker that writes for all of   *)
(* them.  A partial write or a missing connection moves the worker's role  *)
(* to an asynchronous keep_writing thread; a failed write runs epipe,      *)
(* which hands every accepted message back to RpcContext::send_request.    *)
(*                                                                         *)
(* One activity per message: the call that carries it and, when the call   *)
(* hands over, the keep_writing thread that continues it.  The MpscQueue   *)
(* appears by its contract (module MpscQueue): a message is queued when    *)
(* _head is exchanged and can be popped once its predecessor is linked.    *)
(***************************************************************************)
EXTENDS Integers, Sequences, FiniteSets

CONSTANTS Producer,      \* the threads that send through this FrontEnd
          Calls,         \* how many messages each of them sends, one by one
          MaxConnect     \* bound on the number of connections ever made

ASSUME CallsAssumption == Calls \in Nat
ASSUME ProducerAssumption == IsFiniteSet(Producer)
ASSUME ConnectAssumption == MaxConnect \in Nat \ {0}

Msg == Producer \X (1 .. Calls)
NoMsg == <<>>            \* a moved-from RpcMessage

VARIABLES
  pc,        \* where the activity of each message stands
  mode,      \* which function runs it: see Modes
  cnt,       \* its local variable cnt
  size,      \* _sending_queue_size
  queue,     \* contents of _sending_queue, oldest first
  unlinked,  \* messages exchanged into _head whose predecessor is not linked
  msg,       \* _msg
  more,      \* _more
  sending,   \* _sending_msg
  part,      \* connection holding the first bytes of _sending_msg, 0 if none
             \* (part # 0 stands for _it1.has_next() || _it2.has_next())
  isClient,  \* _is_client_socket: made by connect, not by accept
  state,     \* _state, as the set of its bits
  sock,      \* generation of _socket, 0 before the first connection
  up,        \* the connection of _socket still carries bytes
  reg,       \* the fds of _socket are in the epoll set
  io,        \* generation of the fd an IO thread got an event for, 0 if none
  out,       \* messages that left, in order: fully written or handed back
  alive      \* no SCHECK has failed

queueVars == <<size, queue, unlinked>>
workVars  == <<msg, more, sending, part>>
connVars  == <<isClient, state, sock, up, reg>>
vars == <<pc, mode, cnt, queueVars, workVars, connVars, io, out, alive>>

Modes == {"nonblock",  \* in the caller, non-blocking writes
          "block",     \* in the caller of send_msg, blocking writes
          "async"}     \* in a keep_writing thread, the caller has returned

\* The control points at which an activity owns _msg, _sending_msg, _more and
\* the cursors.
Working  == {"check", "conn", "connecting", "resume", "take", "send", "sub", "spin"}
Epiping  == {"epipe", "reroute", "esub", "espin"}
InEpipe  == Epiping \cup {"setst"}
OwnerPC  == Working \cup Epiping
PC == {"idle", "add", "push", "link", "setst", "done", "refused"} \cup OwnerPC

Owners == {m \in Msg : pc[m] \in OwnerPC}

\* The call of m holds the read lock of RpcContext::_spin_lock.
InCall(m) == mode[m] # "async" /\ pc[m] \notin {"idle", "done", "refused"}

Gone(g) == [m |-> sending, first |-> IF part = 0 THEN g ELSE part, last |-> g]
HandedBack(m) == [m |-> m, first |-> 0, last |-> 0]

-----------------------------------------------------------------------------
Init ==
  /\ pc = [m \in Msg |-> "idle"]
  /\ mode = [m \in Msg |-> "nonblock"]
  /\ cnt = [m \in Msg |-> 0]
  /\ size = 0 /\ queue = <<>> /\ unlinked = {}
  /\ msg = NoMsg /\ more = FALSE /\ sending = NoMsg /\ part = 0
  /\ isClient \in BOOLEAN
  /\ IF isClient
     THEN state = {"DISCONNECT"} /\ sock = 0 /\ up = FALSE /\ reg = FALSE
     ELSE state = {"CONNECT"} /\ sock = 1 /\ up = TRUE /\ reg = TRUE
  /\ io = 0 /\ out = <<>> /\ alive = TRUE

Goto(m, l) == pc' = [pc EXCEPT ![m] = l]

\* MpscQueue::pop: whether it succeeds, and its effect on its argument.
CanPop == queue # <<>> /\ Head(queue) \notin unlinked
PopInto(v) == v' = Head(queue) /\ queue' = Tail(queue)

\* _sending_msg = std::move(_msg); _more = _sending_queue.pop(_msg);
TakeMsg ==
  /\ sending' = msg
  /\ IF CanPop THEN PopInto(msg) /\ more' = TRUE
               ELSE msg' = NoMsg /\ more' = FALSE /\ UNCHANGED queue

-----------------------------------------------------------------------------
\* available(): with both bits set the answer depends on the 10 s timer.
MayBeAvailable == "EPIPE" \notin state \/ "DISCONNECT" \in state
MayBeRefused   == "EPIPE" \in state

Ready(m) == /\ pc[m] = "idle"
            /\ m[2] > 1 => \/ pc[<<m[1], m[2] - 1>>] \in {"done", "refused"}
                           \/ mode[<<m[1], m[2] - 1>>] = "async"

\* RpcContext takes the read lock and finds this FrontEnd available.
Enter(m, how) ==
  /\ Ready(m) /\ MayBeAvailable
  /\ how \in IF isClient THEN {"nonblock"} ELSE {"nonblock", "block"}
  /\ mode' = [mode EXCEPT ![m] = how]
  /\ Goto(m, "add")
  /\ UNCHANGED <<cnt, queueVars, workVars, connVars, io, out, alive>>

Refuse(m) ==
  /\ Ready(m) /\ MayBeRefused
  /\ Goto(m, "refused")
  /\ UNCHANGED <<mode, cnt, queueVars, workVars, connVars, io, out, alive>>

\* The fetch_add that opens send_msg_nonblock and send_msg.
FetchAdd(m) ==
  /\ pc[m] = "add"
  /\ size' = size + 1
  /\ IF size = 0
     THEN /\ msg' = m /\ more' = TRUE /\ part' = 0
          /\ cnt' = [cnt EXCEPT ![m] = 0]
          /\ Goto(m, IF mode[m] = "block" THEN "conn" ELSE "check")
     ELSE /\ Goto(m, "push")
          /\ UNCHANGED <<msg, more, part, cnt>>
  /\ UNCHANGED <<mode, queue, unlinked, sending, connVars, io, out, alive>>

\* MpscQueue::push: the exchange of _head, then the store to prev_head->next.
Push(m) ==
  /\ pc[m] = "push"
  /\ queue' = Append(queue, m) /\ unlinked' = unlinked \cup {m}
  /\ Goto(m, "link")
  /\ UNCHANGED <<mode, cnt, size, workVars, connVars, io, out, alive>>

Link(m) ==
  /\ pc[m] = "link"
  /\ unlinked' = unlinked \ {m}
  /\ Goto(m, "done")
  /\ UNCHANGED <<mode, cnt, size, queue, workVars, connVars, io, out, alive>>

-----------------------------------------------------------------------------
\* send_msg_nonblock without a connection hands over to keep_writing.
Check(m) ==
  /\ pc[m] = "check"
  /\ IF "DISCONNECT" \in state
     THEN Goto(m, "conn") /\ mode' = [mode EXCEPT ![m] = "async"]
     ELSE Goto(m, "take") /\ UNCHANGED mode
  /\ UNCHANGED <<cnt, queueVars, workVars, connVars, io, out, alive>>

\* keep_writing begins.
Conn(m) ==
  /\ pc[m] = "conn"
  /\ Goto(m, IF "DISCONNECT" \in state THEN "connecting" ELSE "resume")
  /\ UNCHANGED <<mode, cnt, queueVars, workVars, connVars, io, out, alive>>

\* connect() succeeds; the new socket is installed under the write lock.
ConnectOk(m) ==
  /\ pc[m] = "connecting"
  /\ sock < MaxConnect
  /\ \A n \in Msg : ~InCall(n)
  /\ sock' = sock + 1 /\ up' = TRUE /\ reg' = TRUE /\ state' = {"CONNECT"}
  /\ Goto(m, "resume")
  /\ UNCHANGED <<mode, cnt, queueVars, workVars, isClient, io, out, alive>>

\* connect() fails; keep_writing takes _msg, pops the next one and gives up.
ConnectFail(m) ==
  /\ pc[m] = "connecting"
  /\ TakeMsg
  /\ cnt' = [cnt EXCEPT ![m] = @ + 1]
  /\ Goto(m, "epipe")
  /\ UNCHANGED <<mode, size, unlinked, part, connVars, io, out, alive>>

\* keep_writing first finishes the message send_msg_nonblock left half written.
Resume(m) ==
  /\ pc[m] = "resume"
  /\ IF part # 0 /\ ~up
     THEN Goto(m, "epipe") /\ UNCHANGED <<part, out>>
     ELSE /\ Goto(m, IF more THEN "take" ELSE "sub")
          /\ part' = 0
          /\ out' = IF part # 0 THEN Append(out, Gone(sock)) ELSE out
  /\ UNCHANGED <<mode, cnt, queueVars, msg, more, sending, connVars, io, alive>>

Take(m) ==
  /\ pc[m] = "take"
  /\ TakeMsg
  /\ cnt' = [cnt EXCEPT ![m] = @ + 1]
  /\ Goto(m, "send")
  /\ UNCHANGED <<mode, size, unlinked, part, connVars, io, out, alive>>

\* _socket->send_msg writes all of _sending_msg.
SendOk(m) ==
  /\ pc[m] = "send" /\ up
  /\ out' = Append(out, Gone(sock))
  /\ Goto(m, IF more THEN "take" ELSE "sub")
  /\ UNCHANGED <<mode, cnt, queueVars, workVars, connVars, io, alive>>

\* A non-blocking write leaves bytes over: the rest is for keep_writing.
SendPartial(m) ==
  /\ pc[m] = "send" /\ up /\ mode[m] = "nonblock"
  /\ part' = sock
  /\ mode' = [mode EXCEPT ![m] = "async"]
  /\ Goto(m, "conn")
  /\ UNCHANGED <<cnt, queueVars, msg, more, sending, connVars, io, out, alive>>

SendFail(m) ==
  /\ pc[m] = "send" /\ ~up
  /\ Goto(m, "epipe")
  /\ UNCHANGED <<mode, cnt, queueVars, workVars, connVars, io, out, alive>>

\* Mutant of Sub: the worker leaves without looking at the counter's old value.
SubNoRecheck(m) ==
  /\ pc[m] = "sub"
  /\ size' = size - cnt[m]
  /\ Goto(m, "done")
  /\ UNCHANGED <<mode, cnt, queue, unlinked, workVars, connVars, io, out, alive>>

\* The fetch_sub that ends a batch; the worker stays if more was accepted.
Sub(m) ==
  /\ pc[m] = "sub"
  /\ size' = size - cnt[m]
  /\ Goto(m, IF size = cnt[m] THEN "done" ELSE "spin")
  /\ UNCHANGED <<mode, cnt, queue, unlinked, workVars, connVars, io, out, alive>>

\* Mutant of Spin: cnt keeps counting across batches.
SpinNoReset(m) ==
  /\ pc[m] = "spin" /\ CanPop
  /\ PopInto(msg) /\ more' = TRUE
  /\ Goto(m, "take")
  /\ UNCHANGED <<mode, cnt, size, unlinked, sending, part, connVars, io, out, alive>>

\* while (!_sending_queue.pop(_msg));
Spin(m) ==
  /\ pc[m] = "spin" /\ CanPop
  /\ PopInto(msg) /\ more' = TRUE
  /\ cnt' = [cnt EXCEPT ![m] = 0]
  /\ Goto(m, "take")
  /\ UNCHANGED <<mode, size, unlinked, sending, part, connVars, io, out, alive>>

-----------------------------------------------------------------------------
\* epipe: a server socket stops here and waits to be replaced by accept().
Epipe(m) ==
  /\ pc[m] = "epipe"
  /\ state' = {"EPIPE"} /\ reg' = FALSE
  /\ Goto(m, IF isClient THEN "reroute" ELSE "done")
  /\ UNCHANGED <<mode, cnt, queueVars, workVars, isClient, sock, up, io, out, alive>>

\* Mutant of Reroute: the two send_request calls swapped.
RerouteSwapped(m) ==
  /\ pc[m] = "reroute"
  /\ LET one == IF more THEN Append(out, HandedBack(msg)) ELSE out
     IN  out' = Append(one, HandedBack(sending))
  /\ cnt' = [cnt EXCEPT ![m] = IF more THEN @ + 1 ELSE @]
  /\ sending' = NoMsg /\ msg' = NoMsg /\ part' = 0
  /\ Goto(m, "esub")
  /\ UNCHANGED <<mode, queueVars, more, connVars, io, alive>>

\* Both send_request calls; this FrontEnd is not available() meanwhile.
Reroute(m) ==
  /\ pc[m] = "reroute"
  /\ LET one == Append(out, HandedBack(sending))
     IN  out' = IF more THEN Append(one, HandedBack(msg)) ELSE one
  /\ cnt' = [cnt EXCEPT ![m] = IF more THEN @ + 1 ELSE @]
  /\ sending' = NoMsg /\ msg' = NoMsg /\ part' = 0
  /\ Goto(m, "esub")
  /\ UNCHANGED <<mode, queueVars, more, connVars, io, alive>>

EpipeSub(m) ==
  /\ pc[m] = "esub"
  /\ size' = size - cnt[m]
  /\ Goto(m, IF size = cnt[m] THEN "setst" ELSE "espin")
  /\ UNCHANGED <<mode, cnt, queue, unlinked, workVars, connVars, io, out, alive>>

\* Mutant of EpipeSpin: cnt = 1 is missing.
EpipeSpinKeepCnt(m) ==
  /\ pc[m] = "espin" /\ CanPop
  /\ queue' = Tail(queue) /\ out' = Append(out, HandedBack(Head(queue)))
  /\ Goto(m, "esub")
  /\ UNCHANGED <<mode, cnt, size, unlinked, workVars, connVars, io, alive>>

EpipeSpin(m) ==
  /\ pc[m] = "espin" /\ CanPop
  /\ queue' = Tail(queue) /\ out' = Append(out, HandedBack(Head(queue)))
  /\ cnt' = [cnt EXCEPT ![m] = 1]
  /\ Goto(m, "esub")
  /\ UNCHANGED <<mode, size, unlinked, workVars, connVars, io, alive>>

SetDisconnect(m) ==
  /\ pc[m] = "setst"
  /\ state' = {"DISCONNECT", "EPIPE"}
  /\ Goto(m, "done")
  /\ UNCHANGED <<mode, cnt, queueVars, workVars, isClient, sock, up, reg, io, out, alive>>

-----------------------------------------------------------------------------
\* The peer or the network ends the connection.
Break ==
  /\ up /\ up' = FALSE
  /\ UNCHANGED <<pc, mode, cnt, queueVars, workVars, isClient, state, sock, reg, io, out, alive>>

\* An IO thread's epoll_wait returns the fd of a connection that ended.
PollWait ==
  /\ reg /\ ~up /\ io = 0
  /\ io' = sock
  /\ UNCHANGED <<pc, mode, cnt, queueVars, workVars, connVars, out, alive>>

\* Mutant of HandleEvent: the IO thread also reports the disconnection.
HandleEventDisconnect ==
  /\ io # 0 /\ io' = 0
  /\ alive' = (io = sock)
  /\ IF io = sock THEN state' = {"DISCONNECT", "EPIPE"} /\ reg' = FALSE
                  ELSE UNCHANGED <<state, reg>>
  /\ UNCHANGED <<pc, mode, cnt, queueVars, workVars, isClient, sock, up, out>>

\* handle_message_event on that fd: SCHECK(fd == _fd), then the read fails.
HandleEvent ==
  /\ io # 0 /\ io' = 0
  /\ alive' = (io = sock)
  /\ IF io = sock THEN state' = {"EPIPE"} /\ reg' = FALSE
                  ELSE UNCHANGED <<state, reg>>
  /\ UNCHANGED <<pc, mode, cnt, queueVars, workVars, isClient, sock, up, out>>

Thread(m) ==
  \/ FetchAdd(m) \/ Push(m) \/ Link(m)
  \/ Check(m) \/ Conn(m) \/ ConnectOk(m) \/ ConnectFail(m) \/ Resume(m)
  \/ Take(m) \/ SendOk(m) \/ SendPartial(m) \/ SendFail(m) \/ Sub(m) \/ Spin(m)
  \/ Epipe(m) \/ Reroute(m) \/ EpipeSub(m) \/ EpipeSpin(m) \/ SetDisconnect(m)

Next ==
  /\ alive
  /\ \/ \E m \in Msg : Refuse(m) \/ Thread(m) \/ \E how \in Modes : Enter(m, how)
     \/ Break \/ PollWait \/ HandleEvent

Spec == Init /\ [][Next]_vars

-----------------------------------------------------------------------------
\* The comment above epipe (FrontEnd.cpp:105) says its callers make sure that
\* only one thread runs it at a time.
EpipeExclusive ==
  \A m, n \in Msg :
    pc[m] \in InEpipe /\ pc[n] \in InEpipe => m = n

\* The behaviours in which that is so.  The thread that has given up its role
\* by the last fetch_sub of epipe still has to store DISCONNECT | EPIPE, so the
\* code does not force them: Spec violates EpipeExclusive.
ExclusiveNext == Next /\ EpipeExclusive'
ExclusiveSpec == Init /\ [][ExclusiveNext]_vars

-----------------------------------------------------------------------------
Record == [m : Msg, first : Nat, last : Nat]

\* Types of the send path's state; in particular no fetch_sub ever takes
\* _sending_queue_size below zero.
TypeOK ==
  /\ pc \in [Msg -> PC] /\ mode \in [Msg -> Modes] /\ cnt \in [Msg -> Nat]
  /\ size \in Nat /\ queue \in Seq(Msg) /\ unlinked \in SUBSET Msg
  /\ msg \in Msg \cup {NoMsg} /\ sending \in Msg \cup {NoMsg}
  /\ more \in BOOLEAN /\ part \in Nat
  /\ isClient \in BOOLEAN /\ state \in SUBSET {"DISCONNECT", "CONNECT", "EPIPE"}
  /\ sock \in Nat /\ up \in BOOLEAN /\ reg \in BOOLEAN /\ io \in Nat
  /\ out \in Seq(Record) /\ alive \in BOOLEAN

\* "只有一个线程能到这里" (FrontEnd.cpp:44 and 93): the counter admits one worker
\* at a time to _msg, _sending_msg, _more, the cursors and the socket, through
\* hand-overs to keep_writing, failures and drains.
SingleWriter == \A m, n \in Owners : m = n

\* Messages accepted by the fetch_add.
Accepted == {m \in Msg : pc[m] \notin {"idle", "add", "refused"}}
Left == {out[i].m : i \in DOMAIN out}

\* When no thread holds the worker's role, no accepted message is left behind:
\* the counter is back at zero and each one was written or handed back.  Only
\* a server socket after epipe keeps its messages, with the counter above zero
\* so that no later caller writes to the dead socket.
NothingStranded ==
  Owners = {} /\ (isClient \/ "EPIPE" \notin state)
    => size = 0 /\ queue = <<>> /\ Accepted = Left

\* while (!_sending_queue.pop(_msg)); ends: whoever waits for a message was
\* promised one by the counter, and it is queued or about to be.
SpinEnds ==
  (\E m \in Msg : pc[m] \in {"spin", "espin"})
    => queue # <<>> \/ \E m \in Msg : pc[m] = "push"

\* No message leaves twice, neither written twice nor written and handed back,
\* whatever interleaving of partial writes, failures and drains occurred.
LeavesOnce == \A i, j \in DOMAIN out : out[i].m = out[j].m => i = j

\* "Message complete" (src/rpc/README.md:16): the bytes of a message written
\* before and after a hand-over go to the same connection.
MessageComplete == \A i \in DOMAIN out : out[i].first = out[i].last

\* Messages of one caller leave in the order of the calls, whoever writes them,
\* also when the connection fails and epipe hands them back.
SendOrder ==
  \A i, j \in DOMAIN out :
    out[i].m[1] = out[j].m[1] /\ out[i].m[2] < out[j].m[2] => i < j

\* SCHECK(fd == _fd) in TcpSocket::handle_event (TcpSocket.h:76).
NoAbort == alive
=============================================================================
