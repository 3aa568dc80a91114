---------------------------- MODULE RpcChannel ----------------------------
(***************************************************************************)
(* The channel between the threads of a context and a dealer,              *)
(* src/thread/RpcChannel.h: a queue, a counter _size that is -1 while the  *)
(* receiver sleeps, and an eventfd that a sender writes to wake it.  Many  *)
(* threads send, one receives.  The queue is used by its contract          *)
(* (QueueContract): a pushed message cannot be popped before it is linked. *)
(***************************************************************************)
EXTENDS Integers, Sequences, FiniteSets

CONSTANTS Sender,    \* sending threads
          Calls,     \* bound: messages per sender
          Timeouts   \* how recv is called: "zero", "forever" or "timed"

SenderAssumption == IsFiniteSet(Sender)
CallsAssumption == Calls \in Nat \ {0}
TimeoutsAssumption == Timeouts \subseteq {"zero", "forever", "timed"}

Msg == Sender \X (1..Calls)

VARIABLES
  spc,         \* where the send of each message stands
  queue,       \* _q, oldest first
  unlinked,    \* messages of _q whose push has not linked them
  size,        \* _size
  tokens,      \* value of the eventfd semaphore
  rpc,         \* where the receiver stands
  timeout,     \* the timeout of its current call
  terminated,  \* terminate was called
  expired,     \* history: a recv with a time limit returned false
  got          \* messages received, in order

vars == <<spc, queue, unlinked, size, tokens, rpc, timeout, terminated, expired, got>>
sending == <<spc, unlinked, terminated>>
calling == <<rpc, timeout, expired, got>>

Init ==
  /\ spc = [m \in Msg |-> "idle"]
  /\ queue = <<>> /\ unlinked = {} /\ size = 0 /\ tokens = 0
  /\ rpc = "idle" /\ timeout \in Timeouts
  /\ terminated = FALSE /\ expired = FALSE /\ got = <<>>

-----------------------------------------------------------------------------
\* send: _q.push in its two steps, _size.fetch_add(1), the wake-up.
Push(m) ==
  /\ spc[m] = "idle"
  /\ m[2] > 1 => spc[<<m[1], m[2] - 1>>] = "done"
  /\ queue' = Append(queue, m) /\ unlinked' = unlinked \cup {m}
  /\ spc' = [spc EXCEPT ![m] = "link"]
  /\ UNCHANGED <<size, tokens, terminated, calling>>

Link(m) ==
  /\ spc[m] = "link"
  /\ unlinked' = unlinked \ {m}
  /\ spc' = [spc EXCEPT ![m] = "add"]
  /\ UNCHANGED <<queue, size, tokens, terminated, calling>>

\* As send would be if it looked for a count of 0.
AddLate(m) ==
  /\ spc[m] = "add"
  /\ size' = size + 1
  /\ spc' = [spc EXCEPT ![m] = IF size = 0 THEN "write" ELSE "done"]
  /\ UNCHANGED <<queue, unlinked, tokens, terminated, calling>>

Add(m) ==
  /\ spc[m] = "add"
  /\ size' = size + 1
  /\ spc' = [spc EXCEPT ![m] = IF size = -1 THEN "write" ELSE "done"]
  /\ UNCHANGED <<queue, unlinked, tokens, terminated, calling>>

Wake(m) ==
  /\ spc[m] = "write"
  /\ tokens' = tokens + 1
  /\ spc' = [spc EXCEPT ![m] = "done"]
  /\ UNCHANGED <<queue, unlinked, size, terminated, calling>>

\* As terminate would be without its write.
TerminateSilent ==
  /\ ~terminated
  /\ terminated' = TRUE
  /\ UNCHANGED <<spc, queue, unlinked, size, tokens, calling>>

\* terminate: one write to the eventfd, at most once.
Terminate ==
  /\ ~terminated
  /\ terminated' = TRUE /\ tokens' = tokens + 1
  /\ UNCHANGED <<spc, queue, unlinked, size, calling>>

-----------------------------------------------------------------------------
CanPop == queue # <<>> /\ Head(queue) \notin unlinked
\* As the queue would be if it were a stack.
PopNewest ==
  /\ CanPop
  /\ queue' = SubSeq(queue, 1, Len(queue) - 1) /\ got' = Append(got, queue[Len(queue)])
Pop == CanPop /\ queue' = Tail(queue) /\ got' = Append(got, Head(queue))

\* recv is called; it tries to pop spin_count times.
Recv ==
  /\ rpc = "idle"
  /\ timeout' \in Timeouts /\ rpc' = "spin"
  /\ UNCHANGED <<queue, size, tokens, got, expired, sending>>

SpinPop ==
  /\ rpc = "spin" /\ Pop
  /\ rpc' = "popped"
  /\ UNCHANGED <<size, tokens, timeout, expired, sending>>

\* The last try failed: return false, or announce a sleeper.
SpinMiss ==
  /\ rpc = "spin" /\ ~CanPop
  /\ rpc' = IF timeout = "zero" THEN "idle" ELSE "sub"
  /\ UNCHANGED <<queue, size, tokens, timeout, got, expired, sending>>

\* As the fast path would be if it left that wake-up in the eventfd.
SubPoppedKeepToken ==
  /\ rpc = "popped"
  /\ size' = size - 1 /\ rpc' = "idle"
  /\ UNCHANGED <<queue, tokens, timeout, got, expired, sending>>

\* The fast path takes back the wake-up of a sender that counted after it.
SubPopped ==
  /\ rpc = "popped"
  /\ size' = size - 1
  /\ rpc' = IF size = 0 THEN "take" ELSE "idle"
  /\ UNCHANGED <<queue, tokens, timeout, got, expired, sending>>

TakeToken ==
  /\ rpc = "take" /\ tokens > 0
  /\ tokens' = tokens - 1 /\ rpc' = "idle"
  /\ UNCHANGED <<queue, size, timeout, got, expired, sending>>

\* _size.fetch_add(-1) and SCHECK(sz >= 0)
Sub ==
  /\ rpc = "sub"
  /\ size' = size - 1
  /\ rpc' = IF size < 0 THEN "aborted"
            ELSE IF size > 0 THEN "drain"
            ELSE IF timeout = "forever" THEN "wait" ELSE "poll"
  /\ UNCHANGED <<queue, tokens, timeout, got, expired, sending>>

WaitToken ==
  /\ rpc = "wait" /\ tokens > 0
  /\ tokens' = tokens - 1 /\ rpc' = "load"
  /\ UNCHANGED <<queue, size, timeout, got, expired, sending>>

\* recv woke up: a negative _size means that terminate woke it.
LoadSize ==
  /\ rpc = "load"
  /\ rpc' = IF size >= 0 THEN "drain" ELSE "stopped"
  /\ UNCHANGED <<queue, size, tokens, timeout, got, expired, sending>>

\* for (; !_q.pop(item); );
Drain ==
  /\ rpc = "drain" /\ Pop
  /\ rpc' = "idle"
  /\ UNCHANGED <<size, tokens, timeout, expired, sending>>

\* poll: a timeout gives the count back; otherwise the token is read (a poll
\* that a signal interrupts reads as well) and the queue is tried once.
PollTimeout ==
  /\ rpc = "poll" /\ tokens = 0
  /\ rpc' = "undo" /\ expired' = TRUE
  /\ UNCHANGED <<queue, size, tokens, timeout, got, sending>>

Undo ==
  /\ rpc = "undo"
  /\ size' = size + 1 /\ rpc' = "idle"
  /\ UNCHANGED <<queue, tokens, timeout, got, expired, sending>>

PollRead ==
  /\ rpc = "poll" /\ tokens > 0
  /\ tokens' = tokens - 1 /\ rpc' = "once"
  /\ UNCHANGED <<queue, size, timeout, got, expired, sending>>

PollPop ==
  /\ rpc = "once"
  /\ \/ Pop /\ UNCHANGED expired
     \/ ~CanPop /\ expired' = TRUE /\ UNCHANGED <<queue, got>>
  /\ rpc' = "idle"
  /\ UNCHANGED <<size, tokens, timeout, sending>>

-----------------------------------------------------------------------------
Send(m) == Push(m) \/ Link(m) \/ Add(m) \/ Wake(m)
Receive ==
  \/ Recv \/ SpinPop \/ SpinMiss \/ SubPopped \/ TakeToken \/ Sub \/ WaitToken
  \/ LoadSize \/ Drain \/ PollTimeout \/ Undo \/ PollRead \/ PollPop

Next ==
  /\ rpc # "aborted"
  /\ Terminate \/ Receive \/ \E m \in Msg : Send(m)

Spec == Init /\ [][Next]_vars
\* Threads keep running; nobody has to call terminate.
FairSpec == Spec /\ WF_vars(Receive) /\ \A m \in Msg : WF_vars(Send(m))

-----------------------------------------------------------------------------
\* A recv with a time limit that returned false and terminate both may leave a
\* token or a count behind that belongs to another call.
Undisturbed == ~terminated /\ ~expired

\* recv's SCHECK(sz >= 0) holds: the receiver never announces itself as a
\* sleeper twice.
NoAbort == rpc # "aborted"

Busy == \E m \in Msg : spc[m] \in {"link", "add", "write"}

\* As long as no recv with a time limit failed and nobody called terminate, SCHECK(sz
\* >= 0) holds and recv(-1) does not return false: no wake-up left over from
\* an earlier call looks like a sleeper or like a termination.
FailsOnlyDisturbed == rpc \in {"aborted", "stopped"} => ~Undisturbed

\* No wake-up is lost while no recv with a time limit failed, terminate or not.
\* When every send has returned, a receiver asleep on the
\* eventfd without a token has nothing to receive; the fast path's read, which
\* takes back the wake-up of a sender that counted late, does not block
\* without a sender that is about to write; and recv spins for a message only
\* when there is one.
NoLostWakeup ==
  ~expired =>
    /\ rpc = "wait" /\ tokens = 0 /\ ~Busy => queue = <<>>
    /\ rpc = "take" /\ tokens = 0 => Busy
    /\ rpc = "drain" => queue # <<>>

\* Each sender's messages are received once and in the order of its sends,
\* whatever timeouts and terminations come between.
ReceivedInOrder ==
  \A i, j \in DOMAIN got :
    i < j /\ got[i][1] = got[j][1] => got[i][2] < got[j][2]

\* The three together: what the owner of the receiving end relies on.
RpcChannelSound == FailsOnlyDisturbed /\ NoLostWakeup /\ ReceivedInOrder

\* Every message is received by a receiver that keeps calling recv, unless a
\* call with a time limit failed or it was terminated.
AllReceived == ~Undisturbed \/ \A m \in Msg : \E i \in DOMAIN got : got[i] = m
EveryMessageReceived == <>AllReceived

\* terminate lets nobody sleep: a recv(-1) that waits when terminate is called,
\* or begins to wait after it, returns.
TerminateWakes == (terminated /\ rpc = "wait") ~> rpc # "wait"
=============================================================================
