----------------------------- MODULE TcpFraming -----------------------------
(***************************************************************************)
(* How messages travel over the two connections of a TcpSocket             *)
(* (TcpSocket.cpp/.h, RpcSocket.cpp, RpcMessage.h/.cpp).  A message is its *)
(* head, body, block lengths and short blocks on _fd and its long blocks   *)
(* (MIN_ZERO_COPY_SIZE and more) on _fd2.  Both are byte streams, cut      *)
(* anywhere on the way.  A byte is its position in its stream, so what a   *)
(* message received is right when the positions are.                       *)
(***************************************************************************)
EXTENDS Naturals, Sequences, SequencesExt, FiniteSetsExt

CONSTANTS HeadSize,  \* sizeof(rpc_head_t)
          Desc,      \* sizeof(data_block_t)
          MinZero,   \* MIN_ZERO_COPY_SIZE
          BlockSize, \* block_size of try_recv_msgs
          Msgs       \* the messages sent: sequence of [body, blocks (sequence of lengths)]

Sum(s) == FoldSeq(LAMBDA x, y : x + y, 0, s)
IsLong(len) == len >= MinZero
IsShort(len) == len < MinZero

\* RpcMessage::initialize and rpc_head_t::msg_size: bytes of m on _fd; the
\* zero-copy cursor: bytes of m on _fd2
msg_size(m) == HeadSize + m.body + Desc * Len(m.blocks) + Sum(SelectSeq(m.blocks, IsShort))
zero_copy_size(m) == Sum(SelectSeq(m.blocks, IsLong))

\* The first k messages end at these positions of the streams.
End1(k) == Sum([i \in 1..k |-> msg_size(Msgs[i])])
End2(k) == Sum([i \in 1..k |-> zero_copy_size(Msgs[i])])
\* where block b of message k starts on _fd2
BlockAt(k, b) == End2(k - 1) + Sum(SelectSeq(SubSeq(Msgs[k].blocks, 1, b - 1), IsLong))

VARIABLES
  sent1, sent2,           \* bytes the sender has put into the streams
  sending,                \* messages begun by the sender
  cursor, msgCursor, end, \* _buffer: stream positions read, of the message, of the buffer's end
  cut,                    \* messages cut from _fd
  read2,                  \* bytes read from _fd2
  pending,                \* _pending_msgs
  block, received,        \* _block_id (from 1), _recieved_size
  pc,                     \* "wait", "recv", "parse", "pend"
  delivered               \* messages given to func

vars == <<sent1, sent2, sending, cursor, msgCursor, end, cut, read2, pending, block, received, pc,
          delivered>>
sender == <<sent1, sent2, sending>>
first == <<cursor, msgCursor, end, cut>>
second == <<read2, block, received>>

Init ==
  /\ sent1 = 0 /\ sent2 = 0 /\ sending = 0
  /\ cursor = 0 /\ msgCursor = 0 /\ end = 0 /\ cut = 0
  /\ read2 = 0 /\ pending = <<>> /\ block = 1 /\ received = 0
  /\ pc = "wait" /\ delivered = <<>>

-----------------------------------------------------------------------------
\* FrontEnd begins a message when both cursors of the last one are at their end;
\* _send puts a part of what is left into its stream.
Begin ==
  /\ sending < Len(Msgs) /\ sent1 = End1(sending) /\ sent2 = End2(sending)
  /\ sending' = sending + 1
  /\ UNCHANGED <<sent1, sent2, first, second, pending, pc, delivered>>
Send1 ==
  /\ \E n \in 1..(End1(sending) - sent1) : sent1' = sent1 + n
  /\ UNCHANGED <<sent2, sending, first, second, pending, pc, delivered>>
Send2 ==
  /\ \E n \in 1..(End2(sending) - sent2) : sent2' = sent2 + n
  /\ UNCHANGED <<sent1, sending, first, second, pending, pc, delivered>>

-----------------------------------------------------------------------------
\* handle_event on an event of _fd, and of _fd2; epoll reports every fd that is
\* readable.
Event1 ==
  /\ pc = "wait" /\ sent1 > cursor /\ pc' = "recv"
  /\ UNCHANGED <<sender, first, second, pending, delivered>>
Event2 ==
  /\ pc = "wait" /\ sent2 > read2 /\ pc' = "pend"
  /\ UNCHANGED <<sender, first, second, pending, delivered>>

have == cursor - msgCursor
\* A new buffer of size sz takes over the bytes of the unfinished message.
Alloc(sz) == end' = msgCursor + sz

\* recv_nonblock into the rest of the buffer, or into a new one when it is full
Room == IF end = cursor THEN BlockSize - have ELSE end - cursor
Recv ==
  /\ pc = "recv" /\ sent1 > cursor
  /\ \E n \in 1..Min({Room, sent1 - cursor}) : cursor' = cursor + n
  /\ IF end = cursor THEN Alloc(BlockSize) ELSE UNCHANGED end
  /\ pc' = "parse"
  /\ UNCHANGED <<sender, msgCursor, cut, second, pending, delivered>>
\* EAGAIN; handle_event goes on with try_recv_pending
RecvNone ==
  /\ pc = "recv" /\ sent1 = cursor
  /\ IF end = cursor THEN Alloc(BlockSize) ELSE UNCHANGED end
  /\ pc' = "pend"
  /\ UNCHANGED <<sender, cursor, msgCursor, cut, second, pending, delivered>>

\* tcp_func: a message with blocks waits for them, one without is delivered
Hand(m) ==
  IF Msgs[m].blocks = <<>>
  THEN delivered' = Append(delivered, m) /\ UNCHANGED pending
  ELSE pending' = Append(pending, m) /\ UNCHANGED delivered

\* The head that was read is that of message cut + 1 when msgCursor is right.
HeadRead == have >= HeadSize
Size == msg_size(Msgs[cut + 1])
Cut ==
  /\ pc = "parse" /\ HeadRead /\ have >= Size
  /\ Hand(cut + 1) /\ cut' = cut + 1 /\ msgCursor' = msgCursor + Size
  /\ UNCHANGED <<sender, cursor, end, second, pc>>
\* As the loop would be if it looked only for the end of what was received.
FitReceivedOnly ==
  /\ pc = "parse" /\ ~(HeadRead /\ have >= Size)
  /\ pc' = "recv" /\ UNCHANGED <<sender, first, second, pending, delivered>>
\* As the loop would be if it gave every new buffer one block.
FitBlock ==
  /\ pc = "parse" /\ ~(HeadRead /\ have >= Size)
  /\ IF msgCursor + (IF HeadRead THEN Size ELSE HeadSize) > end
     THEN Alloc(BlockSize) ELSE UNCHANGED end
  /\ pc' = "recv"
  /\ UNCHANGED <<sender, cursor, msgCursor, cut, second, pending, delivered>>
\* The message is not complete: make sure that the head, or the message once its
\* head is known, fits into the buffer.
Fit ==
  /\ pc = "parse" /\ ~(HeadRead /\ have >= Size)
  /\ IF msgCursor + (IF HeadRead THEN Size ELSE HeadSize) > end
     THEN Alloc(IF HeadRead THEN Max({Size, BlockSize}) ELSE BlockSize)
     ELSE UNCHANGED end
  /\ pc' = "recv"
  /\ UNCHANGED <<sender, cursor, msgCursor, cut, second, pending, delivered>>

-----------------------------------------------------------------------------
\* try_recv_pending: the blocks of the oldest pending message, in order
Waiting == pending[1]
Oldest == Msgs[Waiting]
Length == Oldest.blocks[block]
BlockDone == IsShort(Length) \/ received = Length
\* As try_recv_pending would be if it kept the count of the last block.
NextBlockKeep ==
  /\ pc = "pend" /\ pending # <<>> /\ BlockDone
  /\ IF block = Len(Oldest.blocks)
     THEN /\ delivered' = Append(delivered, Waiting) /\ pending' = Tail(pending)
          /\ block' = 1
     ELSE block' = block + 1 /\ UNCHANGED <<pending, delivered>>
  /\ UNCHANGED <<sender, first, read2, received, pc>>
NextBlock ==
  /\ pc = "pend" /\ pending # <<>> /\ BlockDone
  /\ received' = 0
  /\ IF block = Len(Oldest.blocks)
     THEN /\ delivered' = Append(delivered, Waiting) /\ pending' = Tail(pending)
          /\ block' = 1
     ELSE block' = block + 1 /\ UNCHANGED <<pending, delivered>>
  /\ UNCHANGED <<sender, first, read2, pc>>
RecvBlock ==
  /\ pc = "pend" /\ pending # <<>> /\ ~BlockDone /\ sent2 > read2
  /\ \E n \in 1..Min({Length - received, sent2 - read2}) :
       received' = received + n /\ read2' = read2 + n
  /\ UNCHANGED <<sender, first, pending, block, pc, delivered>>
PendEnd ==
  /\ pc = "pend" /\ (pending # <<>> => ~BlockDone /\ sent2 = read2)
  /\ pc' = "wait" /\ UNCHANGED <<sender, first, second, pending, delivered>>

Handle == Recv \/ RecvNone \/ Cut \/ Fit \/ NextBlock \/ RecvBlock \/ PendEnd
Next == Begin \/ Send1 \/ Send2 \/ Event1 \/ Event2 \/ Handle

\* The sender and the IO thread run.
Spec ==
  /\ Init /\ [][Next]_vars
  /\ WF_vars(Begin) /\ WF_vars(Send1) /\ WF_vars(Send2)
  /\ SF_vars(Event1) /\ SF_vars(Event2) /\ WF_vars(Handle)

-----------------------------------------------------------------------------
\* The head, the body and every block are cut where they were put: the message
\* cursor stands at the start of a message, bytes of _fd2 go to the block they
\* belong to, and every read has room in the buffer (recv of 0 bytes would look
\* like the end of the connection) and stays in it.
Framed ==
  /\ msgCursor = End1(cut) /\ cursor >= msgCursor
  /\ end >= cursor
  /\ pc = "recv" => Room > 0
  /\ pending # <<>> => read2 - received = BlockAt(Waiting, block)

\* Every message is delivered, once.
Delivered == ToSet(delivered) = DOMAIN Msgs /\ Len(delivered) = Len(Msgs)
AllDelivered == <>[]Delivered

\* Messages are delivered in the order sent, except that one without blocks may
\* overtake those that wait for theirs.
InOrder ==
  \A i, j \in DOMAIN delivered :
    i < j /\ (Msgs[delivered[i]].blocks = <<>> => Msgs[delivered[j]].blocks = <<>>)
    => delivered[i] < delivered[j]
=============================================================================
