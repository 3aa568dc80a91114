----------------------------- MODULE MpscQueue -----------------------------
(***************************************************************************)
(* The multi-producer single-consumer linked queue of                      *)
(* src/thread/MpscQueue.h at the level of its nodes and atomics.  Each     *)
(* value is pushed once, by a thread of its own; the node that carries it  *)
(* is named after it.  The consumer calls pop (and top) at any time.       *)
(***************************************************************************)
EXTENDS Naturals, Sequences, FiniteSets

CONSTANTS Value,    \* the values pushed
          Dummy,    \* the node the constructor allocates
          Null      \* nullptr

ValueAssumption == IsFiniteSet(Value) /\ Dummy \notin Value /\ Null \notin Value \cup {Dummy}

Node == Value \cup {Dummy}

VARIABLES
  head,    \* _head
  tail,    \* _tail
  next,    \* the next field of each node
  live,    \* nodes allocated and not deleted
  pc,      \* where the push of each value stands
  prev,    \* its local variable prev_head
  cpc,     \* where the consumer's pop or top stands
  t,       \* the consumer's local t
  nxt,     \* the consumer's local next
  chain,   \* history: the nodes in the order of the exchanges, from _tail on
  taken    \* history: the values popped, in order

mpscVars == <<head, tail, next, live, pc, prev, cpc, t, nxt, chain, taken>>
consumer == <<tail, cpc, t, nxt, taken>>

MpscInit ==
  /\ head = Dummy /\ tail = Dummy
  /\ next = [n \in Node |-> Null]
  /\ live = {Dummy}
  /\ pc = [v \in Value |-> "idle"] /\ prev = [v \in Value |-> Null]
  /\ cpc = "idle" /\ t = Null /\ nxt = Null
  /\ chain = <<Dummy>> /\ taken = <<>>

-----------------------------------------------------------------------------
\* push: new_node, _head.exchange(n), prev_head->next.store(n)
NewNode(v) ==
  /\ pc[v] = "idle"
  /\ live' = live \cup {v} /\ next' = [next EXCEPT ![v] = Null]
  /\ pc' = [pc EXCEPT ![v] = "exchange"]
  /\ UNCHANGED <<head, prev, chain, consumer>>

Exchange(v) ==
  /\ pc[v] = "exchange"
  /\ prev' = [prev EXCEPT ![v] = head] /\ head' = v
  /\ chain' = Append(chain, v)
  /\ pc' = [pc EXCEPT ![v] = "store"]
  /\ UNCHANGED <<next, live, consumer>>

\* As push would be if it linked behind the current head, not prev_head.
StoreThroughHead(v) ==
  /\ pc[v] = "store"
  /\ next' = [next EXCEPT ![head] = v]
  /\ pc' = [pc EXCEPT ![v] = "done"]
  /\ UNCHANGED <<head, live, prev, chain, consumer>>

Store(v) ==
  /\ pc[v] = "store"
  /\ next' = [next EXCEPT ![prev[v]] = v]
  /\ pc' = [pc EXCEPT ![v] = "done"]
  /\ UNCHANGED <<head, live, prev, chain, consumer>>

-----------------------------------------------------------------------------
\* pop and top begin alike: load _tail, load t->next.
LoadTail ==
  /\ cpc = "idle"
  /\ t' = tail /\ cpc' = "next"
  /\ UNCHANGED <<head, tail, next, live, pc, prev, nxt, chain, taken>>

LoadNext ==
  /\ cpc = "next"
  /\ nxt' = next[t]
  /\ \/ next[t] = Null /\ cpc' = "idle"       \* pop: false, top: nullptr
     \/ next[t] # Null /\ cpc' \in {"move", "idle"}   \* pop goes on, top is done
  /\ UNCHANGED <<head, tail, next, live, pc, prev, t, chain, taken>>

\* As pop would be if it took the value of the node that _tail leaves.
AdvanceOldValue ==
  /\ cpc = "move"
  /\ taken' = Append(taken, t) /\ tail' = nxt /\ chain' = Tail(chain)
  /\ cpc' = "delete"
  /\ UNCHANGED <<head, next, live, pc, prev, t, nxt>>

\* v = std::move(next->v); _tail.store(next)
Advance ==
  /\ cpc = "move"
  /\ taken' = Append(taken, nxt) /\ tail' = nxt /\ chain' = Tail(chain)
  /\ cpc' = "delete"
  /\ UNCHANGED <<head, next, live, pc, prev, t, nxt>>

\* As pop would be if it deleted the node it moved the value from.
DeleteNextNode ==
  /\ cpc = "delete"
  /\ live' = live \ {nxt}
  /\ cpc' = "idle"
  /\ UNCHANGED <<head, tail, next, pc, prev, t, nxt, chain, taken>>

DeleteNode ==
  /\ cpc = "delete"
  /\ live' = live \ {t}
  /\ cpc' = "idle"
  /\ UNCHANGED <<head, tail, next, pc, prev, t, nxt, chain, taken>>

MpscNext ==
  \/ \E v \in Value : NewNode(v) \/ Exchange(v) \/ Store(v)
  \/ LoadTail \/ LoadNext \/ Advance \/ DeleteNode

MpscSpec == MpscInit /\ [][MpscNext]_mpscVars

\* Every push is made and finishes, and the consumer polls for ever, with
\* pop again and again and not only with top.
MpscFairSpec ==
  /\ MpscSpec
  /\ \A v \in Value : WF_mpscVars(NewNode(v) \/ Exchange(v) \/ Store(v))
  /\ WF_mpscVars(LoadTail \/ LoadNext \/ Advance \/ DeleteNode)
  /\ SF_mpscVars(LoadNext /\ cpc' = "move")

-----------------------------------------------------------------------------
\* No step touches a deleted node: not the store through prev_head while the
\* consumer deletes behind it, not the consumer's loads and not the move.  And
\* only the node that _tail left is deleted: at rest exactly the nodes from
\* _tail to _head are allocated, so pop neither leaks a node nor frees one twice.
MemorySafe ==
  /\ head \in live /\ tail \in live
  /\ \A v \in Value : pc[v] = "store" => prev[v] \in live
  /\ cpc = "next" => t \in live
  /\ cpc = "move" => nxt \in live
  /\ cpc # "delete" =>
       live = {chain[i] : i \in DOMAIN chain} \cup {v \in Value : pc[v] = "exchange"}

\* The contract FrontEnd and RpcChannel rely on.
Contract == INSTANCE QueueContract WITH
  items    <- Tail(chain),
  unlinked <- {v \in Value : pc[v] = "store"}

\* Pushes and pops of the linked list, whatever their interleaving, are steps
\* of the contract: values are taken once, in the order of the exchanges, and
\* never before they are linked.
Refines == Contract!Spec

\* The consumer eventually gets every value: a link that is late delays the
\* values behind it but loses none.
AllTaken == \A v \in Value : \E i \in DOMAIN taken : taken[i] = v
EveryValueTaken == <>AllTaken
=============================================================================
