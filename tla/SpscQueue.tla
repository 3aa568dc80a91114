----------------------------- MODULE SpscQueue -----------------------------
(***************************************************************************)
(* The single-producer single-consumer queue of src/thread/SpscQueue.h: a  *)
(* linked list whose consumed nodes the producer uses again.  _first is    *)
(* the oldest node, _tail the last one consumed (its value is gone),       *)
(* _head the newest, _tailcopy the producer's old copy of _tail.  Values   *)
(* are numbered in the order of the pushes.                                *)
(***************************************************************************)
EXTENDS Naturals, FiniteSets, FiniteSetsExt

CONSTANTS Node,    \* addresses that new Node may return
          Values,  \* bound: values pushed
          Null

NodeAssumption == IsFiniteSet(Node) /\ Node # {} /\ Null \notin Node /\ Values \in Nat

VARIABLES
  next, item,                   \* fields of the nodes
  head, tail, first, tailcopy,
  used,                         \* nodes that were allocated
  ppc, n,                       \* producer: where push stands and its node n
  cpc, peek,                    \* consumer: where pop stands and its next
  pushed, popped,               \* last value pushed and returned
  peak                          \* history: most values held at a time

spscVars == <<next, item, head, tail, first, tailcopy, used, ppc, n, cpc, peek, pushed, popped,
              peak>>
consumer == <<tail, cpc, peek, popped>>

Fresh(taken) == CHOOSE x \in Node : x \notin taken    \* new Node: addresses are alike

SpscInit ==
  /\ next = [x \in Node |-> Null] /\ item = [x \in Node |-> 0]
  /\ head = Fresh({}) /\ tail = head /\ first = head /\ tailcopy = head
  /\ used = {head} /\ n = head
  /\ ppc = "idle" /\ cpc = "idle" /\ peek = Null /\ pushed = 0 /\ popped = 0 /\ peak = 0

\* alloc_node: the oldest node, when it lies before the copy of _tail, ...
Reuse(to) == /\ n' = first /\ first' = next[first] /\ ppc' = to
             /\ UNCHANGED <<next, item, head, used>>
AllocOld ==
  /\ ppc = "idle" /\ pushed < Values /\ first # tailcopy
  /\ Reuse("fill") /\ UNCHANGED <<tailcopy, consumer, pushed, peak>>
\* As alloc_node would be if it compared with the node after _tail.
AllocRefreshPastTail ==
  /\ ppc = "idle" /\ pushed < Values /\ first = tailcopy /\ next[tail] # Null
  /\ tailcopy' = next[tail]
  /\ Reuse("fill") /\ UNCHANGED <<consumer, pushed, peak>>
\* ... or before _tail itself, ...
AllocRefresh ==
  /\ ppc = "idle" /\ pushed < Values /\ first = tailcopy /\ first # tail
  /\ tailcopy' = tail
  /\ Reuse("fill") /\ UNCHANGED <<consumer, pushed, peak>>
\* ... or a new one.
AllocNew ==
  /\ ppc = "idle" /\ pushed < Values /\ first = tailcopy /\ first = tail
  /\ used # Node
  /\ n' = Fresh(used) /\ used' = used \cup {n'}
  /\ ppc' = "fill" /\ UNCHANGED <<next, item, head, first, tailcopy, consumer, pushed, peak>>
\* n->next = nullptr, n->v = v
Fill ==
  /\ ppc = "fill" /\ ppc' = "link"
  /\ next' = [next EXCEPT ![n] = Null] /\ item' = [item EXCEPT ![n] = pushed + 1]
  /\ UNCHANGED <<head, first, tailcopy, used, n, consumer, pushed, peak>>
Returned == IF cpc = "advance" THEN popped - 1 ELSE popped   \* values whose pop returned
\* h->next = n, _head = n
LinkNode ==
  /\ ppc = "link" /\ ppc' = "idle"
  /\ next' = [next EXCEPT ![head] = n] /\ head' = n /\ pushed' = pushed + 1
  /\ peak' = Max({peak, pushed + 1 - Returned})
  /\ UNCHANGED <<item, first, tailcopy, used, n, consumer>>

\* pop (and top, which ends after its look): load _tail and its next, ...
Look ==
  /\ cpc = "idle" /\ next[tail] # Null
  /\ peek' = next[tail] /\ cpc' = "take"
  /\ UNCHANGED <<next, item, head, tail, first, tailcopy, used, ppc, n, pushed, popped, peak>>
\* ... move the value out, store _tail
PopTake ==
  /\ cpc = "take" /\ cpc' = "advance" /\ popped' = item[peek]
  /\ UNCHANGED <<next, item, head, tail, first, tailcopy, used, ppc, n, peek, pushed, peak>>
Advance ==
  /\ cpc = "advance" /\ cpc' = "idle" /\ tail' = peek
  /\ UNCHANGED <<next, item, head, first, tailcopy, used, ppc, n, peek, pushed, popped, peak>>

SpscNext ==
  \/ AllocOld \/ AllocRefresh \/ AllocNew \/ Fill \/ LinkNode
  \/ Look \/ PopTake \/ Advance
SpscSpec == SpscInit /\ [][SpscNext]_spscVars
SpscFairSpec == SpscSpec /\ WF_spscVars(Look \/ PopTake \/ Advance) /\ WF_spscVars(Fill \/ LinkNode)

-----------------------------------------------------------------------------
\* A node is never filled again while the consumer may still look at it or has
\* yet to take its value: the producer works on a node the consumer cannot
\* reach, and the node that pop is taking from still holds the next value.
\* Nodes are used again before new ones are made: there are never more than
\* two besides the most values that were held at a time.
NodesApart ==
  /\ ppc \in {"fill", "link"} => n # tail /\ n # next[tail] /\ (cpc # "idle" => n # peek)
  /\ cpc = "take" => item[peek] = popped + 1
  /\ Cardinality(used) <= peak + 2

\* The consumer catches up with the producer, however late the links and its
\* own reads of them are.
AllPopped == popped = pushed
EveryValuePopped == []<>AllPopped
=============================================================================
