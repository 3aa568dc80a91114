--------------------------- MODULE QueueContract ---------------------------
(***************************************************************************)
(* What MpscQueue (src/thread/MpscQueue.h) promises its users: a FIFO      *)
(* queue whose push takes effect in two steps.  A value is ordered when it *)
(* enters, but it can be taken only once its push has linked it, so a pop  *)
(* may fail although the queue is not empty.  FrontEnd and RpcChannel use  *)
(* the queue by this contract.                                             *)
(***************************************************************************)
EXTENDS Sequences, Naturals

CONSTANT Value

VARIABLES items,     \* values that entered and were not taken, oldest first
          unlinked,  \* those whose push has not linked them yet
          taken      \* values taken, in order

vars == <<items, unlinked, taken>>

Init == items = <<>> /\ unlinked = {} /\ taken = <<>>

Enter(v) ==
  /\ items' = Append(items, v) /\ unlinked' = unlinked \cup {v}
  /\ UNCHANGED taken

Link(v) ==
  /\ v \in unlinked
  /\ unlinked' = unlinked \ {v}
  /\ UNCHANGED <<items, taken>>

Take ==
  /\ items # <<>> /\ Head(items) \notin unlinked
  /\ items' = Tail(items) /\ taken' = Append(taken, Head(items))
  /\ UNCHANGED unlinked

Next == Take \/ \E v \in Value : Enter(v) \/ Link(v)

Spec == Init /\ [][Next]_vars
=============================================================================
