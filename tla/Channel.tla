------------------------------ MODULE Channel ------------------------------
(***************************************************************************)
(* The blocking channel of src/thread/Channel.h and ChannelEntity.h: a     *)
(* deque and a reserved slot, which takes a value written to an empty      *)
(* channel without allocating, under one mutex and two condition           *)
(* variables.  A value is its number in the order of the accepted writes.  *)
(* A wake-up reaches only threads that a notify chose.                     *)
(***************************************************************************)
EXTENDS Naturals, Sequences, FiniteSets

CONSTANTS Writer, Reader,  \* threads
          Capacity,        \* capacities that set_capacity may be given
          MaxBatch,        \* bound: values per write or read call
          MaxWrites,       \* bound: values accepted
          MaxOpens,        \* bound: calls of open and shared_open
          None

VARIABLES
  reserved, data,  \* _reserved_data, _data
  closed, oom, shared, capacity,
  mutex,           \* the thread inside, or None
  pc,              \* "idle", "in" (holds the mutex), "asleep", "notified"
  left,            \* values its call has still to write or read
  written, read,   \* numbers of the last value accepted and returned
  opens            \* calls of open and shared_open so far

vars == <<reserved, data, closed, oom, shared, capacity, mutex, pc, left, written, read, opens>>
contents == <<reserved, data, written, read>>
status == <<closed, shared, capacity, opens>>

Init ==
  /\ reserved = <<>> /\ data = <<>> /\ written = 0 /\ read = 0
  /\ closed = FALSE /\ oom = FALSE /\ shared = 0 /\ capacity \in Capacity
  /\ mutex = None /\ pc = [t \in Writer \cup Reader |-> "idle"]
  /\ left = [t \in Writer \cup Reader |-> 0] /\ opens = 0

empty == reserved = <<>> /\ data = <<>>
full == Len(reserved) + Len(data) >= capacity
Asleep(S) == {t \in S : pc[t] = "asleep"}

\* A step of t inside the mutex that notifies one sleeper of S, if any, and
\* leaves t in state to.
NotifyOne(S, t, to) ==
  \/ Asleep(S) = {} /\ pc' = [pc EXCEPT ![t] = to]
  \/ \E s \in Asleep(S) : pc' = [pc EXCEPT ![t] = to, ![s] = "notified"]

\* write(vals, n), write_move, write(val) and read(vals, n), read(val): the
\* call takes the mutex; a woken thread takes it again.
Enter(t) ==
  /\ pc[t] = "idle" /\ mutex = None
  /\ mutex' = t /\ pc' = [pc EXCEPT ![t] = "in"]
  /\ \E n \in 1..MaxBatch : left' = [left EXCEPT ![t] = n]
  /\ UNCHANGED <<contents, status, oom>>
Wake(t) ==
  /\ pc[t] = "notified" /\ mutex = None
  /\ mutex' = t /\ pc' = [pc EXCEPT ![t] = "in"]
  /\ UNCHANGED <<contents, status, oom, left>>

CanWrite == (~oom /\ ~full) \/ closed
CanRead == ~empty \/ closed
Sleep(t, ready) ==
  /\ pc[t] = "in" /\ ~ready
  /\ mutex' = None /\ pc' = [pc EXCEPT ![t] = "asleep"]
  /\ UNCHANGED <<contents, status, oom, left>>
Return(t) ==
  /\ mutex' = None /\ pc' = [pc EXCEPT ![t] = "idle"]
  /\ UNCHANGED <<contents, status, oom, left>>

\* As write_unlocked would be if it took the reserved slot whenever that is free.
StoreReserved ==
  /\ IF reserved = <<>>
     THEN reserved' = <<written + 1>> /\ UNCHANGED data
     ELSE data' = Append(data, written + 1) /\ UNCHANGED reserved
  /\ written' = written + 1 /\ UNCHANGED read

\* write_unlocked, write_move_unlocked: where the value goes.
Store ==
  /\ IF empty
     THEN reserved' = <<written + 1>> /\ UNCHANGED data
     ELSE data' = Append(data, written + 1) /\ UNCHANGED reserved
  /\ written' = written + 1 /\ UNCHANGED read

\* One value of a write call; the last one returns and unlocks.
After(t) == IF left[t] = 1 THEN "idle" ELSE "in"
WriteOne(t) ==
  /\ pc[t] = "in" /\ CanWrite /\ ~closed /\ written < MaxWrites
  /\ Store /\ NotifyOne(Reader, t, After(t))
  /\ left' = [left EXCEPT ![t] = @ - 1]
  /\ mutex' = IF left[t] = 1 THEN None ELSE t
  /\ UNCHANGED <<status, oom>>
WriteClosed(t) == pc[t] = "in" /\ closed /\ Return(t)
\* _data.push_back throws bad_alloc; safe_write_unlocked loops
WriteOom(t) ==
  /\ pc[t] = "in" /\ CanWrite /\ ~closed /\ ~empty
  /\ oom' = TRUE
  /\ UNCHANGED <<contents, status, mutex, pc, left>>

try_write(t) ==
  /\ pc[t] = "idle" /\ mutex = None /\ ~closed /\ ~full /\ written < MaxWrites
  /\ Store /\ NotifyOne(Reader, t, "idle")
  /\ UNCHANGED <<status, oom, mutex, left>>

\* read_unlocked on a channel with a value
Take ==
  /\ ~empty
  /\ IF reserved # <<>>
     THEN read' = Head(reserved) /\ reserved' = <<>> /\ UNCHANGED data
     ELSE read' = Head(data) /\ data' = Tail(data) /\ UNCHANGED reserved
  /\ UNCHANGED written
\* As read_unlocked would be if it woke a writer only when the channel was full.
TellWritersIfFull(t, to) ==
  IF closed \/ ~full THEN pc' = [pc EXCEPT ![t] = to] /\ UNCHANGED oom
  ELSE oom' = FALSE /\ NotifyOne(Writer, t, to)
TellWriters(t, to) ==
  IF closed THEN pc' = [pc EXCEPT ![t] = to] /\ UNCHANGED oom
  ELSE oom' = FALSE /\ NotifyOne(Writer, t, to)

ReadOne(t) ==
  /\ pc[t] = "in" /\ Take /\ TellWriters(t, After(t))
  /\ left' = [left EXCEPT ![t] = @ - 1]
  /\ mutex' = IF left[t] = 1 THEN None ELSE t
  /\ UNCHANGED status
ReadClosed(t) == pc[t] = "in" /\ closed /\ empty /\ Return(t)

try_read(t) ==
  /\ pc[t] = "idle" /\ mutex = None /\ Take /\ TellWriters(t, "idle")
  /\ UNCHANGED <<status, mutex, left>>

\* open, shared_open, close and set_capacity by any thread
open(count) ==
  /\ mutex = None /\ opens < MaxOpens
  /\ closed' = FALSE /\ shared' = shared + count /\ opens' = opens + 1
  /\ UNCHANGED <<contents, oom, capacity, mutex, pc, left>>
close ==
  /\ mutex = None /\ ~closed
  /\ shared' = IF shared > 0 THEN shared - 1 ELSE 0
  /\ closed' = (shared <= 1)
  /\ pc' = IF shared > 1 THEN pc
           ELSE [t \in DOMAIN pc |-> IF pc[t] = "asleep" THEN "notified" ELSE pc[t]]
  /\ UNCHANGED <<contents, oom, capacity, mutex, left, opens>>
set_capacity ==
  /\ mutex = None /\ capacity' \in Capacity \ {capacity}
  /\ UNCHANGED <<contents, closed, oom, shared, mutex, pc, left, opens>>

Next ==
  \/ \E t \in Writer \cup Reader : Enter(t) \/ Wake(t)
  \/ \E w \in Writer : Sleep(w, CanWrite) \/ WriteOne(w) \/ WriteClosed(w) \/ WriteOom(w)
                       \/ try_write(w)
  \/ \E r \in Reader : Sleep(r, CanRead) \/ ReadOne(r) \/ ReadClosed(r) \/ try_read(r)
  \/ open(0) \/ open(1) \/ close \/ set_capacity

Spec == Init /\ [][Next]_vars

-----------------------------------------------------------------------------
\* The channel is first in, first out and loses nothing: it holds exactly the
\* accepted values that were not read, in the order of the writes, although
\* they live in two containers.
Fifo == reserved \o data = [i \in 1..(written - read) |-> read + i]

\* No wake-up is lost.  A reader sleeps beside a value only while another one
\* was chosen to take it; writers sleep beside room only while a reader still
\* has a value to read, which wakes one; closing leaves no sleeper.  (A flag of
\* a failed allocation that outlives close, a drain and open is the exception.)
NoLostWakeup ==
  LET onTheWay(S) == \E t \in S : pc[t] \in {"in", "notified"} IN
  /\ closed => Asleep(Writer \cup Reader) = {}
  /\ Asleep(Reader) # {} /\ ~empty => onTheWay(Reader)
  /\ Asleep(Writer) # {} /\ empty => onTheWay(Writer) \/ (oom /\ opens > 0)
=============================================================================
