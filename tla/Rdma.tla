-------------------------------- MODULE Rdma --------------------------------
(***************************************************************************)
(* Two RdmaSockets (src/rpc/RdmaSocket.cpp) on one connection: the flow    *)
(* control that keeps a sender from overrunning the receive buffers of its *)
(* peer, and the life of a zero-copy block, which the peer reads out of    *)
(* the sender's memory.                                                    *)
(*                                                                         *)
(* At each end one thread sends (module FrontEnd: one at a time) and one   *)
(* io thread handles completions.  A message is a number of buffers and of *)
(* zero-copy blocks; how buffers are cut into messages is the business of  *)
(* module TcpFraming.  The queue pair is reliable and ordered; a receive   *)
(* is posted for every buffer that no completion is pending for.           *)
(***************************************************************************)
EXTENDS Integers, Sequences, FiniteSets, SequencesExt

CONSTANTS BNum,     \* BNUM
          Msgs      \* end -> the messages it sends: [bufs, blocks]

End == {1, 2}
Peer(e) == 3 - e

VARIABLES
  sender,    \* the sending thread: [pc, next (message), left (buffers to post), id (_send_id),
             \*  ends (messages that end in this buffer), imm (acks it carries)]
  busy,      \* buffers whose _get_send_buffer_blocker is set
  credit,    \* _post_send_blocker_cnt
  event,     \* the eventfd _post_send_blocker
  ack,       \* _ack_cnt
  done,      \* _read_complete_num
  acksOut,   \* _uncomplete_ack_cnt
  readsOut,  \* _uncomplete_read_cnt
  pending,   \* _pending_read_wrs: the message each read is for
  recving,   \* _recving_msgs: [msg, left]
  held,      \* _sending_msgs
  wire,      \* work requests posted to the queue pair
  recvCq, sendCq,  \* completions not polled yet
  io,        \* the io thread: [pc, ctl (ctl_msg_cnt)]
  got        \* messages passed on, in order

send == <<sender, busy>>
reads == <<pending, recving, readsOut>>
vars == <<sender, busy, credit, event, ack, done, acksOut, readsOut, pending, recving, held,
          wire, recvCq, sendCq, io, got>>

Each(x) == [e \in End |-> x]
\* init, init_mr: BNUM credits, every receive posted
Init ==
  /\ sender = Each([pc |-> "idle", next |-> 1, left |-> 0, id |-> 0,
                    ends |-> <<>>, imm |-> 0])
  /\ busy = Each({}) /\ credit = Each(BNum) /\ event = Each(0) /\ ack = Each(0)
  /\ done = Each(0) /\ acksOut = Each(0) /\ readsOut = Each(0)
  /\ pending = Each(<<>>) /\ recving = Each(<<>>) /\ held = Each(<<>>)
  /\ wire = Each(<<>>) /\ recvCq = Each(<<>>) /\ sendCq = Each(<<>>)
  /\ io = Each([pc |-> "idle", ctl |-> 0]) /\ got = Each(<<>>)

Count(q, kind) == Len(SelectSeq(q, LAMBDA w : w.kind = kind))
Total(q, field(_)) == FoldSeq(LAMBDA w, n : n + field(w), 0, q)
AckNum(w) == IF w.kind = "read" THEN 0 ELSE w.acks
ReadCompleteNum(w) == IF w.kind = "ack" THEN w.reads ELSE 0

-----------------------------------------------------------------------------
(* The sending thread.                                                     *)

\* send_msg: a message with zero-copy blocks is kept until they were read.
\* One with no buffer of its own (more) leaves its bytes for the next message.
send_msg(e) ==
  LET s == sender[e] IN
  /\ s.pc = "idle" /\ s.next <= Len(Msgs[e])
  /\ sender' = [sender EXCEPT ![e] =
        [@ EXCEPT !.ends = Append(@, s.next), !.next = @ + 1, !.left = Msgs[e][s.next].bufs,
                  !.pc = IF Msgs[e][s.next].bufs = 0 THEN "idle" ELSE "fill"]]
  /\ held' = [held EXCEPT ![e] = IF Msgs[e][s.next].blocks > 0 THEN Append(@, s.next) ELSE @]
  /\ UNCHANGED <<busy, credit, event, ack, done, acksOut, reads, wire, recvCq, sendCq, io, got>>

\* get_send_buffer spins until the buffer is free; post_send takes the acks
\* along before it has a credit to send them with.
post_send(e) ==
  LET s == sender[e] IN
  /\ s.pc = "fill" /\ s.id \notin busy[e]
  /\ busy' = [busy EXCEPT ![e] = @ \cup {s.id}]
  /\ sender' = [sender EXCEPT ![e].pc = "credit", ![e].imm = ack[e]]
  /\ ack' = [ack EXCEPT ![e] = 0]
  /\ UNCHANGED <<credit, event, done, acksOut, reads, held, wire, recvCq, sendCq, io, got>>

\* ibv_post_send of a filled buffer; earlier messages end in the first buffer
\* of this one.
Post(e) ==
  LET s == sender[e]
      ended == IF s.left = 1 THEN s.ends ELSE SelectSeq(s.ends, LAMBDA m : m < s.next - 1)
  IN
  /\ wire' = [wire EXCEPT ![e] =
                Append(@, [kind |-> "data", buf |-> s.id, acks |-> s.imm, ends |-> ended])]
  /\ sender' = [sender EXCEPT ![e] =
        [@ EXCEPT !.pc = IF s.left = 1 THEN "idle" ELSE "fill", !.left = @ - 1,
                  !.id = (@ + 1) % BNum, !.imm = 0,
                  !.ends = SubSeq(@, Len(ended) + 1, Len(@))]]
Credit(e) ==
  /\ sender[e].pc = "credit"
  /\ credit' = [credit EXCEPT ![e] = @ - 1]
  /\ IF credit[e] > 0 THEN Post(e)
     ELSE sender' = [sender EXCEPT ![e].pc = "wait"] /\ UNCHANGED wire
  /\ UNCHANGED <<busy, event, ack, done, acksOut, reads, held, recvCq, sendCq, io, got>>
Woken(e) ==
  /\ sender[e].pc = "wait" /\ event[e] > 0
  /\ event' = [event EXCEPT ![e] = @ - 1]
  /\ Post(e)
  /\ UNCHANGED <<busy, credit, ack, done, acksOut, reads, held, recvCq, sendCq, io, got>>

-----------------------------------------------------------------------------
(* The network adapter: in order, and only into a posted receive.          *)
Deliver(e) ==
  LET w == Head(wire[e]) IN
  /\ wire[e] # <<>>
  /\ w.kind # "read" => Len(recvCq[Peer(e)]) < 4 * BNum
  /\ wire' = [wire EXCEPT ![e] = Tail(@)]
  /\ sendCq' = [sendCq EXCEPT ![e] = Append(@, w)]
  /\ recvCq' = IF w.kind = "read" THEN recvCq
               ELSE [recvCq EXCEPT ![Peer(e)] = Append(@, w)]
  /\ UNCHANGED <<send, credit, event, ack, done, acksOut, reads, held, io, got>>

-----------------------------------------------------------------------------
(* The io thread.                                                          *)
Whole(e) == LET datas == SelectSeq(recvCq[e], LAMBDA w : w.kind = "data")
            IN  FlattenSeq([i \in DOMAIN datas |-> datas[i].ends])
Blocks(e, m) == Msgs[Peer(e)][m].blocks

\* As handle_in_event would be if a message without data were acknowledged too.
AckedWithControl(e) == Len(recvCq[e])
Acked(e) == Count(recvCq[e], "data")

\* handle_in_event: every completion there is; a message without zero-copy
\* blocks is passed on, another waits for its reads; the peer's finished reads
\* let go of messages.
handle_in_event(e) ==
  LET plain == SelectSeq(Whole(e), LAMBDA m : Blocks(e, m) = 0)
      zero == SelectSeq(Whole(e), LAMBDA m : Blocks(e, m) > 0)
  IN
  /\ io[e].pc = "idle" /\ recvCq[e] # <<>>
  /\ got' = [got EXCEPT ![e] = @ \o plain]
  /\ recving' = [recving EXCEPT ![e] = @ \o [i \in DOMAIN zero |->
                                             [msg |-> zero[i], left |-> Blocks(e, zero[i])]]]
  /\ pending' = [pending EXCEPT ![e] = @ \o
        FlattenSeq([i \in DOMAIN zero |-> [b \in 1..Blocks(e, zero[i]) |-> zero[i]]])]
  /\ held' = [held EXCEPT ![e] = SubSeq(@, 1 + Total(recvCq[e], ReadCompleteNum), Len(@))]
  /\ ack' = [ack EXCEPT ![e] = @ + Acked(e)]
  /\ io' = [io EXCEPT ![e] = [pc |-> "credit", ctl |-> Total(recvCq[e], AckNum)]]
  /\ recvCq' = [recvCq EXCEPT ![e] = <<>>]
  /\ UNCHANGED <<send, credit, event, done, acksOut, readsOut, wire, sendCq>>
\* ... then the credits, waking a sender that waits for one
InCredit(e) ==
  /\ io[e].pc = "credit"
  /\ credit' = [credit EXCEPT ![e] = @ + io[e].ctl]
  /\ event' = [event EXCEPT ![e] = IF io[e].ctl > 0 /\ credit[e] = -1 THEN @ + 1 ELSE @]
  /\ io' = [io EXCEPT ![e] = [pc |-> "finish", ctl |-> 0]]
  /\ UNCHANGED <<send, ack, done, acksOut, reads, held, wire, recvCq, sendCq, got>>

\* One read of the first message has completed.
\* (As it would be if every block counted as a message.)
ReadCompleteEach(r) ==
  LET m == r.recving[1] IN
  IF m.left > 1 THEN [r EXCEPT !.recving[1].left = @ - 1, !.done = @ + 1]
  ELSE [recving |-> Tail(r.recving), got |-> Append(r.got, m.msg), done |-> r.done + 1]
ReadComplete(r) ==
  LET m == r.recving[1] IN
  IF m.left > 1 THEN [r EXCEPT !.recving[1].left = @ - 1]
  ELSE [recving |-> Tail(r.recving), got |-> Append(r.got, m.msg), done |-> r.done + 1]

handle_out_event(e) ==
  LET r == FoldSeq(LAMBDA w, acc : IF w.kind = "read" THEN ReadComplete(acc) ELSE acc,
                   [recving |-> recving[e], got |-> got[e], done |-> done[e]], sendCq[e])
  IN
  /\ io[e].pc = "idle" /\ sendCq[e] # <<>>
  /\ recving' = [recving EXCEPT ![e] = r.recving]
  /\ got' = [got EXCEPT ![e] = r.got]
  /\ done' = [done EXCEPT ![e] = r.done]
  /\ readsOut' = [readsOut EXCEPT ![e] = @ - Count(sendCq[e], "read")]
  /\ acksOut' = [acksOut EXCEPT ![e] = @ - Count(sendCq[e], "ack")]
  /\ busy' = [busy EXCEPT ![e] = @ \ {sendCq[e][i].buf : i \in
                                      {j \in DOMAIN sendCq[e] : sendCq[e][j].kind = "data"}}]
  /\ sendCq' = [sendCq EXCEPT ![e] = <<>>]
  /\ io' = [io EXCEPT ![e].pc = "finish"]
  /\ UNCHANGED <<sender, credit, event, ack, pending, held, wire, recvCq>>

\* post_read: at most BNUM reads under way
post_read(e) == IF Len(pending[e]) < BNum - readsOut[e] THEN Len(pending[e]) ELSE BNum - readsOut[e]
\* send_ack: not too many under way, and none that only tells of reads
send_ack(e) == acksOut[e] < BNum \div 2 + 1 /\ ack[e] > 0

\* Both handlers end with post_read and send_ack.
Finish(e) ==
  LET n == post_read(e)
      posted == [i \in 1..n |-> [kind |-> "read", msg |-> pending[e][i]]]
  IN
  /\ io[e].pc = "finish"
  /\ io' = [io EXCEPT ![e].pc = "idle"]
  /\ pending' = [pending EXCEPT ![e] = SubSeq(@, n + 1, Len(@))]
  /\ readsOut' = [readsOut EXCEPT ![e] = @ + n]
  /\ IF send_ack(e)
     THEN /\ wire' = [wire EXCEPT ![e] =
                        @ \o posted \o <<[kind |-> "ack", acks |-> ack[e], reads |-> done[e]]>>]
          /\ ack' = [ack EXCEPT ![e] = 0] /\ done' = [done EXCEPT ![e] = 0]
          /\ acksOut' = [acksOut EXCEPT ![e] = @ + 1]
     ELSE wire' = [wire EXCEPT ![e] = @ \o posted] /\ UNCHANGED <<ack, done, acksOut>>
  /\ UNCHANGED <<send, credit, event, recving, held, recvCq, sendCq, got>>

-----------------------------------------------------------------------------
Sending(e) == post_send(e) \/ Credit(e) \/ Woken(e)
Handling(e) == handle_in_event(e) \/ InCredit(e) \/ handle_out_event(e) \/ Finish(e)
Next == \E e \in End : send_msg(e) \/ Sending(e) \/ Deliver(e) \/ Handling(e)
Spec == Init /\ [][Next]_vars

-----------------------------------------------------------------------------
\* No credit is made or lost: every one is at the sender, with a buffer under
\* way, or on its way back in an ack, whoever carries it.
CreditsKept ==
  \A e \in End : LET p == Peer(e) IN
    credit[e] + (IF sender[e].pc = "wait" THEN 1 ELSE 0)
      + Count(wire[e], "data") + Count(recvCq[p], "data")
      + ack[p] + sender[p].imm + Total(wire[p], AckNum) + Total(recvCq[e], AckNum) + io[e].ctl
    = BNum

\* The queues of the queue pair hold what is put into them (a buffer or an ack
\* always finds a posted receive at the peer), a zero-copy block stays in the
\* sender's memory until the peer has read it, every message is passed on at
\* most once, and a sender sleeps only without a credit.
NothingOverrun ==
  \A e \in End :
    /\ Count(wire[Peer(e)], "data") + Count(wire[Peer(e)], "ack") + Len(recvCq[e]) <= 4 * BNum
    /\ Len(wire[e]) + Len(sendCq[e]) <= 4 * BNum
    /\ \A i \in DOMAIN recving[e] : recving[e][i].msg \in ToSet(held[Peer(e)])
    /\ Cardinality(ToSet(got[e])) = Len(got[e])
    /\ sender[e].pc = "wait" => (credit[e] = -1 <=> event[e] = 0)

RdmaSound == CreditsKept /\ NothingOverrun

\* A call of send_msg returns.
SendReturns == \A e \in End : sender[e].pc # "idle" ~> sender[e].pc = "idle"
=============================================================================
