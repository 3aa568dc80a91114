-------------------------- MODULE RpcChannelProofs --------------------------
(***************************************************************************)
(* Proofs about the queue of a dealer's channel and about the channel.     *)
(*                                                                         *)
(* The linked queue of MpscQueue.h never touches a freed node and          *)
(* implements the two-step FIFO contract of QueueContract, for every set   *)
(* of values.  The inductive invariant describes the list: from _tail to   *)
(* _head the nodes stand in the order of the exchanges, and the link       *)
(* between two neighbours is missing exactly while the push of the second  *)
(* one has yet to store it.                                                *)
(*                                                                         *)
(* RpcChannel, for any number of senders and messages: no wake-up is lost, *)
(* SCHECK(sz >= 0) of recv can only fail after a recv with a time limit    *)
(* returned false or after terminate, and each sender's messages arrive in *)
(* order.  The argument is two accounts.  _size counts the messages in the *)
(* queue except those whose send has not counted them yet, corrected by    *)
(* what the receiver has subtracted early or late.  The eventfd holds, or  *)
(* a sender is about to write, one token exactly when a receiver that      *)
(* announced itself was overtaken by the count of a sender.                *)
(***************************************************************************)
EXTENDS MpscQueue, RpcChannel, SequenceTheorems, FiniteSetTheorems, TLAPS

Elems(s) == {s[i] : i \in DOMAIN s}

MpscTypeOK ==
  /\ head \in Node /\ tail \in Node /\ next \in [Node -> Node \cup {Null}]
  /\ live \in SUBSET Node
  /\ pc \in [Value -> {"idle", "exchange", "store", "done"}]
  /\ prev \in [Value -> Node \cup {Null}]
  /\ cpc \in {"idle", "next", "move", "delete"}
  /\ t \in Node \cup {Null} /\ nxt \in Node \cup {Null}
  /\ chain \in Seq(Node) /\ taken \in Seq(Value)

\* From _tail to _head.  The value of a node behind the first one is there to
\* be popped; its push has linked it, or will, through the node before it.
ChainFacts ==
  /\ Len(chain) > 0 /\ chain[1] = tail /\ chain[Len(chain)] = head
  /\ next[head] = Null
  /\ \A i, j \in DOMAIN chain : chain[i] = chain[j] => i = j
  /\ \A i \in DOMAIN chain : chain[i] \in Value => pc[chain[i]] \in {"store", "done"}
  /\ tail \in Value => pc[tail] = "done"
  /\ \A i \in DOMAIN chain : i > 1 =>
       /\ chain[i] \in Value
       /\ pc[chain[i]] = "store" => prev[chain[i]] = chain[i - 1] /\ next[chain[i - 1]] = Null
       /\ pc[chain[i]] = "done" => next[chain[i - 1]] = chain[i]
  /\ \A v \in Value : pc[v] = "store" => \E i \in DOMAIN chain : i > 1 /\ chain[i] = v
  /\ \A v \in Value : pc[v] = "exchange" => next[v] = Null

\* What the consumer's locals are worth at each point of pop.
ConsumerFacts ==
  /\ cpc \in {"next", "move"} => t = tail
  /\ cpc = "move" => Len(chain) > 1 /\ nxt = chain[2] /\ pc[nxt] = "done"
  /\ cpc = "delete" =>
       t \in Node /\ t \notin Elems(chain) /\ (t \in Value => pc[t] = "done")

\* The allocated nodes.
LiveFacts ==
  live = Elems(chain) \cup {v \in Value : pc[v] = "exchange"}
           \cup (IF cpc = "delete" THEN {t} ELSE {})

MpscIInv == MpscTypeOK /\ ChainFacts /\ ConsumerFacts /\ LiveFacts

-----------------------------------------------------------------------------
\* The node that a store goes to is in the list.
LEMMA PrevInChain ==
  ASSUME MpscIInv, NEW v \in Value, pc[v] = "store"
  PROVE  /\ prev[v] \in Node /\ next[prev[v]] = Null
         /\ \E i \in DOMAIN chain : i > 1 /\ chain[i] = v /\ chain[i - 1] = prev[v]
                                          /\ i - 1 \in DOMAIN chain
<1>1. PICK i \in DOMAIN chain : i > 1 /\ chain[i] = v
  BY DEF MpscIInv, ChainFacts
<1>2. prev[v] = chain[i - 1] /\ next[chain[i - 1]] = Null /\ i - 1 \in DOMAIN chain
  BY <1>1 DEF MpscIInv, ChainFacts, MpscTypeOK
<1>3. chain[i - 1] \in Node
  BY <1>2 DEF MpscIInv, MpscTypeOK
<1> QED BY <1>1, <1>2, <1>3

\* What the invariant says of memory: every node that a step touches is live.
LEMMA InvSafe == MpscIInv => MemorySafe
<1> SUFFICES ASSUME MpscIInv PROVE MemorySafe
  OBVIOUS
<1>1. head \in Elems(chain) /\ tail \in Elems(chain)
  BY DEF MpscIInv, ChainFacts, MpscTypeOK, Elems
<1>2. \A v \in Value : pc[v] = "store" => prev[v] \in Elems(chain)
  BY PrevInChain DEF Elems
<1>3. cpc = "move" => nxt \in Elems(chain)
  BY DEF MpscIInv, ConsumerFacts, MpscTypeOK, Elems
<1> QED BY <1>1, <1>2, <1>3 DEF MpscIInv, LiveFacts, ConsumerFacts, MemorySafe, Elems

\* new_node keeps the invariant: the node is not in the list.
LEMMA NewNodeStep ==
  ASSUME ValueAssumption, MpscIInv, NEW v \in Value, NewNode(v)
  PROVE  MpscIInv'
<1> USE DEF MpscIInv, Node
<1>1. v \notin Elems(chain) /\ pc[v] = "idle"
  BY DEF NewNode, ChainFacts, Elems
<1>2. UNCHANGED <<head, tail, prev, chain, cpc, t, nxt, taken>> /\ v \in Node
  BY DEF NewNode, consumer
<1>3. MpscTypeOK'
  BY <1>2 DEF NewNode, MpscTypeOK
<1>4. \A n \in Elems(chain) : next'[n] = next[n] /\ (n \in Value => pc'[n] = pc[n])
  BY <1>1 DEF NewNode, MpscTypeOK, Elems
<1>5. ChainFacts'
  <2>1. head \in Elems(chain) /\ \A i \in DOMAIN chain : chain[i] \in Elems(chain)
    BY DEF ChainFacts, MpscTypeOK, Elems
  <2>2. \A i \in DOMAIN chain : i > 1 => i - 1 \in DOMAIN chain
    BY DEF MpscTypeOK
  <2>3. \A w \in Value : pc'[w] = "store" <=> pc[w] = "store"
    BY <1>1 DEF NewNode, MpscTypeOK
  <2>4. \A w \in Value : pc'[w] = "exchange" => next'[w] = Null
    BY DEF NewNode, MpscTypeOK, ChainFacts
  <2> QED BY <1>2, <1>4, <2>1, <2>2, <2>3, <2>4 DEF ChainFacts, Elems
<1>6. ConsumerFacts'
  BY <1>1, <1>2 DEF ConsumerFacts, NewNode, MpscTypeOK
<1>7. LiveFacts'
  BY <1>1, <1>2 DEF LiveFacts, NewNode, MpscTypeOK
<1> QED BY <1>3, <1>5, <1>6, <1>7

\* The exchange keeps the invariant: the node becomes the last one.
LEMMA ExchangeStep ==
  ASSUME ValueAssumption, MpscIInv, NEW v \in Value, Exchange(v)
  PROVE  MpscIInv'
<1> USE DEF MpscIInv, Node
<1>1. v \notin Elems(chain) /\ pc[v] = "exchange"
  BY DEF Exchange, ChainFacts, Elems
<1>2. /\ UNCHANGED <<tail, next, live, cpc, t, nxt, taken>> /\ v \in Node
      /\ head' = v /\ chain' = Append(chain, v)
  BY DEF Exchange, consumer
<1>3. MpscTypeOK'
  BY <1>2 DEF Exchange, MpscTypeOK
<1>4. /\ chain'[Len(chain) + 1] = v /\ Len(chain) \in Nat /\ Len(chain') = Len(chain) + 1
      /\ DOMAIN chain = 1 .. Len(chain) /\ DOMAIN chain' = 1 .. (Len(chain) + 1)
      /\ \A i \in 1 .. Len(chain) : chain'[i] = chain[i]
  BY <1>2, AppendProperties, LenProperties DEF MpscTypeOK
<1>5. /\ pc'[v] = "store" /\ prev'[v] = head
      /\ \A w \in Value : w # v => pc'[w] = pc[w] /\ prev'[w] = prev[w]
  BY DEF Exchange, MpscTypeOK
<1>6. Elems(chain') = Elems(chain) \cup {v}
  BY <1>4 DEF Elems
<1>7. ChainFacts'
  <2>1. next[v] = Null /\ chain'[1] = tail /\ chain[Len(chain)] = head
    BY <1>1, <1>4 DEF ChainFacts
  <2>2. ASSUME NEW i \in DOMAIN chain', NEW j \in DOMAIN chain', chain'[i] = chain'[j]
        PROVE  i = j
    BY <1>1, <1>4, <2>2 DEF ChainFacts, Elems
  <2>3. ASSUME NEW i \in DOMAIN chain', chain'[i] \in Value
        PROVE  pc'[chain'[i]] \in {"store", "done"}
    BY <1>4, <1>5, <2>3 DEF ChainFacts
  <2>4. ASSUME NEW i \in DOMAIN chain', i > 1
        PROVE  /\ chain'[i] \in Value
               /\ pc'[chain'[i]] = "store" =>
                    prev'[chain'[i]] = chain'[i - 1] /\ next'[chain'[i - 1]] = Null
               /\ pc'[chain'[i]] = "done" => next'[chain'[i - 1]] = chain'[i]
    <3>1. CASE i = Len(chain) + 1
      <4>1. chain'[i] = v /\ i - 1 = Len(chain) /\ Len(chain) \in DOMAIN chain
        BY <3>1, <2>4, <1>4 DEF ChainFacts
      <4>2. chain'[i - 1] = head /\ next'[head] = Null
        BY <4>1, <2>1, <1>2, <1>4 DEF ChainFacts
      <4> QED BY <4>1, <4>2, <1>5
    <3>2. CASE i \in DOMAIN chain
      <4>1. chain[i] # v
        BY <3>2, <1>1 DEF Elems
      <4> QED BY <3>2, <4>1, <2>4, <1>2, <1>4, <1>5 DEF ChainFacts
    <3> QED BY <3>1, <3>2, <1>4
  <2>5. ASSUME NEW w \in Value, pc'[w] = "store"
        PROVE  \E i \in DOMAIN chain' : i > 1 /\ chain'[i] = w
    <3>1. CASE w = v
      BY <3>1, <1>4 DEF ChainFacts
    <3>2. CASE w # v
      BY <3>2, <2>5, <1>4, <1>5 DEF ChainFacts
    <3> QED BY <3>1, <3>2
  <2>6. /\ \A w \in Value : pc'[w] = "exchange" => next'[w] = Null
        /\ tail' \in Value => pc'[tail'] = "done"
    BY <1>1, <1>2, <1>5 DEF ChainFacts
  <2> QED BY <1>2, <1>4, <2>1, <2>2, <2>3, <2>4, <2>5, <2>6 DEF ChainFacts
<1>8. ConsumerFacts'
  BY <1>1, <1>2, <1>4, <1>5, <1>6 DEF ConsumerFacts, ChainFacts
<1>9. LiveFacts'
  BY <1>1, <1>2, <1>5, <1>6 DEF LiveFacts
<1> QED BY <1>3, <1>7, <1>8, <1>9

\* The store keeps the invariant: it makes the one link that was missing.
LEMMA StoreStep ==
  ASSUME ValueAssumption, MpscIInv, NEW v \in Value, Store(v)
  PROVE  MpscIInv'
<1> USE DEF MpscIInv, Node
<1>1. /\ UNCHANGED <<head, live, prev, chain, tail, cpc, t, nxt, taken>> /\ v \in Node
      /\ pc[v] = "store"
  BY DEF Store, consumer
<1>2. PICK k \in DOMAIN chain : k > 1 /\ chain[k] = v /\ chain[k - 1] = prev[v]
                                /\ k - 1 \in DOMAIN chain
  BY <1>1, PrevInChain
<1>3. prev[v] \in Node
  BY <1>1, PrevInChain
<1>4. MpscTypeOK'
  BY <1>1, <1>3 DEF Store, MpscTypeOK
<1>5. /\ pc'[v] = "done" /\ \A w \in Value : w # v => pc'[w] = pc[w]
      /\ next'[prev[v]] = v /\ \A n \in Node : n # prev[v] => next'[n] = next[n]
  BY <1>3 DEF Store, MpscTypeOK
<1>6. ChainFacts'
  <2>1. head # prev[v] /\ v # tail /\ Len(chain) \in Nat /\ DOMAIN chain = 1 .. Len(chain)
    BY <1>2, <1>1 DEF ChainFacts, MpscTypeOK
  <2>2. ASSUME NEW i \in DOMAIN chain, i > 1
        PROVE  /\ pc'[chain[i]] = "store" =>
                    prev[chain[i]] = chain[i - 1] /\ next'[chain[i - 1]] = Null
               /\ pc'[chain[i]] = "done" => next'[chain[i - 1]] = chain[i]
    <3>1. i - 1 \in DOMAIN chain /\ chain[i - 1] \in Node /\ chain[i] \in Value
      BY <2>1, <2>2 DEF ChainFacts, MpscTypeOK
    <3>2. CASE i = k
      BY <3>2, <1>2, <1>5
    <3>3. CASE i # k
      <4>1. chain[i] # v /\ chain[i - 1] # prev[v]
        BY <3>1, <3>3, <1>2, <2>1 DEF ChainFacts
      <4> QED BY <4>1, <3>1, <2>2, <1>5 DEF ChainFacts
    <3> QED BY <3>2, <3>3
  <2>3. next'[head] = Null
    BY <2>1, <1>5 DEF ChainFacts, MpscTypeOK
  <2>4. \A w \in Value : pc'[w] = "exchange" => next'[w] = Null
    <3> SUFFICES ASSUME NEW w \in Value, pc'[w] = "exchange"
                 PROVE  next'[w] = Null
      OBVIOUS
    <3>1. w # v /\ pc[w] = "exchange"
      BY <1>5
    <3>2. w # prev[v]
      BY <3>1, <1>2 DEF ChainFacts
    <3> QED BY <3>1, <3>2, <1>5 DEF ChainFacts
  <2>5. \A i \in DOMAIN chain : chain[i] \in Value => pc'[chain[i]] \in {"store", "done"}
    BY <1>5 DEF ChainFacts
  <2>6. \A w \in Value : pc'[w] = "store" => \E i \in DOMAIN chain : i > 1 /\ chain[i] = w
    BY <1>5 DEF ChainFacts
  <2>7. tail \in Value => pc'[tail] = "done"
    BY <1>5, <2>1 DEF ChainFacts
  <2> QED BY <1>1, <2>2, <2>3, <2>4, <2>5, <2>6, <2>7 DEF ChainFacts
<1>7. ConsumerFacts'
  <2>1. cpc = "move" => nxt \in Value
    BY DEF ConsumerFacts, ChainFacts, MpscTypeOK
  <2> QED BY <2>1, <1>1, <1>5 DEF ConsumerFacts
<1>8. LiveFacts'
  BY <1>1, <1>5 DEF LiveFacts
<1> QED BY <1>4, <1>6, <1>7, <1>8

-----------------------------------------------------------------------------
\* A load of the consumer leaves the list alone.
LEMMA LoadStep ==
  ASSUME MpscIInv, LoadTail \/ LoadNext
  PROVE  MpscIInv'
<1> USE DEF MpscIInv
<1>1. UNCHANGED <<head, tail, next, live, pc, prev, chain, taken>>
  BY DEF LoadTail, LoadNext
<1>2. ChainFacts'
  BY <1>1 DEF ChainFacts
<1>3. CASE LoadTail
  BY <1>1, <1>2, <1>3 DEF LoadTail, MpscTypeOK, ConsumerFacts, LiveFacts
<1>4. CASE LoadNext
  <2>1. t = tail /\ cpc = "next" /\ cpc' \in {"idle", "move"} /\ t' = t /\ nxt' = next[tail]
    BY <1>4 DEF LoadNext, ConsumerFacts
  <2>2. MpscTypeOK'
    BY <1>1, <2>1 DEF MpscTypeOK
  <2>3. ConsumerFacts'
    <3>1. ASSUME cpc' = "move"
          PROVE  Len(chain) > 1 /\ nxt' = chain[2] /\ pc[nxt'] = "done"
      <4>1. nxt' # Null
        BY <1>4, <2>1, <3>1 DEF LoadNext
      <4>2. tail # head
        BY <4>1, <2>1 DEF ChainFacts
      <4>3. Len(chain) > 1 /\ 2 \in DOMAIN chain /\ chain[2 - 1] = tail
        BY <4>2 DEF ChainFacts, MpscTypeOK
      <4>4. /\ pc[chain[2]] \in {"store", "done"}
            /\ pc[chain[2]] = "store" => next[tail] = Null
            /\ pc[chain[2]] = "done" => next[tail] = chain[2]
        BY <4>3 DEF ChainFacts
      <4> QED BY <4>1, <4>3, <4>4, <2>1
    <3> QED BY <1>1, <2>1, <3>1 DEF ConsumerFacts
  <2>4. LiveFacts'
    BY <1>1, <2>1 DEF LiveFacts
  <2> QED BY <1>2, <2>2, <2>3, <2>4
<1> QED BY <1>3, <1>4

\* The move and the store of _tail keep the invariant: the first node leaves
\* the list, and nobody's store goes to it any more.
LEMMA AdvanceStep ==
  ASSUME MpscIInv, Advance
  PROVE  MpscIInv'
<1> USE DEF MpscIInv
<1>1. /\ UNCHANGED <<head, next, live, pc, prev, t, nxt>> /\ cpc = "move" /\ cpc' = "delete"
      /\ tail' = nxt /\ taken' = Append(taken, nxt) /\ chain' = Tail(chain)
  BY DEF Advance
<1>2. /\ Len(chain) > 1 /\ nxt = chain[2] /\ pc[nxt] = "done" /\ t = tail /\ chain[1] = tail
      /\ nxt \in Value /\ Len(chain) \in Nat /\ DOMAIN chain = 1 .. Len(chain)
  BY <1>1 DEF ConsumerFacts, ChainFacts, MpscTypeOK
<1>3. /\ Len(chain') = Len(chain) - 1 /\ chain' \in Seq(Node)
      /\ DOMAIN chain' = 1 .. (Len(chain) - 1)
      /\ \A i \in 1 .. (Len(chain) - 1) : chain'[i] = chain[i + 1]
  BY <1>1, <1>2, HeadTailProperties, EmptySeq DEF MpscTypeOK
<1>4. MpscTypeOK'
  BY <1>1, <1>2, <1>3 DEF MpscTypeOK, Node
<1>5. Elems(chain') = Elems(chain) \ {t}
  <2>1. ASSUME NEW i \in DOMAIN chain, i # 1
        PROVE  i - 1 \in DOMAIN chain' /\ chain'[i - 1] = chain[i]
    BY <1>2, <1>3, <2>1
  <2>2. \A i \in DOMAIN chain' : i + 1 \in DOMAIN chain /\ chain[i + 1] # t
    BY <1>2, <1>3 DEF ChainFacts
  <2>3. Elems(chain') \subseteq Elems(chain) \ {t}
    BY <1>3, <2>2 DEF Elems
  <2>4. ASSUME NEW x \in Elems(chain) \ {t}
        PROVE  x \in Elems(chain')
    <3>1. PICK i \in DOMAIN chain : chain[i] = x
      BY DEF Elems
    <3>2. i # 1
      BY <3>1, <1>2
    <3> QED BY <3>1, <3>2, <2>1 DEF Elems
  <2> QED BY <2>3, <2>4
<1>6. ChainFacts'
  <2>1. chain'[1] = tail' /\ chain'[Len(chain')] = head'
    BY <1>1, <1>2, <1>3 DEF ChainFacts
  <2>2. ASSUME NEW i \in DOMAIN chain'
        PROVE  i + 1 \in DOMAIN chain /\ chain'[i] = chain[i + 1] /\ i \in Nat
    BY <1>2, <1>3
  <2>3. ASSUME NEW i \in DOMAIN chain', i > 1
        PROVE  chain'[i - 1] = chain[(i + 1) - 1]
    BY <1>2, <1>3, <2>3
  <2>4. \A i, j \in DOMAIN chain' : chain'[i] = chain'[j] => i = j
    BY <2>2 DEF ChainFacts
  <2>5. ASSUME NEW w \in Value, pc[w] = "store"
        PROVE  \E i \in DOMAIN chain' : i > 1 /\ chain'[i] = w
    <3>1. PICK i \in DOMAIN chain : i > 1 /\ chain[i] = w
      BY <2>5 DEF ChainFacts
    <3>2. i # 2
      BY <3>1, <1>2, <2>5
    <3>3. i - 1 \in DOMAIN chain' /\ i - 1 > 1 /\ chain'[i - 1] = w
      BY <3>1, <3>2, <1>2, <1>3
    <3> QED BY <3>3
  <2>6. ASSUME NEW i \in DOMAIN chain', i > 1
        PROVE  /\ chain'[i] \in Value
               /\ pc[chain'[i]] = "store" =>
                    prev[chain'[i]] = chain'[i - 1] /\ next[chain'[i - 1]] = Null
               /\ pc[chain'[i]] = "done" => next[chain'[i - 1]] = chain'[i]
    <3>1. i + 1 > 1
      BY <1>3, <2>6
    <3> QED BY <3>1, <2>2, <2>3, <2>6 DEF ChainFacts
  <2>7. \A i \in DOMAIN chain' : chain'[i] \in Value => pc[chain'[i]] \in {"store", "done"}
    BY <2>2 DEF ChainFacts
  <2>8. /\ Len(chain') > 0 /\ next[head] = Null /\ pc[nxt] = "done"
        /\ \A w \in Value : pc[w] = "exchange" => next[w] = Null
    BY <1>2, <1>3 DEF ChainFacts
  <2> QED BY <1>1, <2>1, <2>4, <2>5, <2>6, <2>7, <2>8 DEF ChainFacts
<1>7. ConsumerFacts'
  <2>1. t \in Node /\ (t \in Value => pc[t] = "done")
    BY <1>2 DEF ChainFacts, MpscTypeOK
  <2> QED BY <2>1, <1>1, <1>5 DEF ConsumerFacts
<1>8. LiveFacts'
  <2>1. t \in Elems(chain)
    BY <1>2 DEF Elems
  <2> QED BY <2>1, <1>1, <1>5 DEF LiveFacts
<1> QED BY <1>4, <1>6, <1>7, <1>8

\* The delete keeps the invariant: the node is out of the list and allocated.
LEMMA DeleteStep ==
  ASSUME MpscIInv, DeleteNode
  PROVE  MpscIInv'
<1> USE DEF MpscIInv
<1>1. /\ UNCHANGED <<head, tail, next, pc, prev, t, nxt, chain, taken>> /\ cpc = "delete"
      /\ cpc' = "idle" /\ live' = live \ {t}
  BY DEF DeleteNode
<1>2. t \notin Elems(chain) /\ (t \in Value => pc[t] = "done")
  BY <1>1 DEF ConsumerFacts
<1>3. LiveFacts'
  BY <1>1, <1>2 DEF LiveFacts, MpscTypeOK
<1>4. MpscTypeOK' /\ ChainFacts' /\ ConsumerFacts'
  BY <1>1 DEF MpscTypeOK, ChainFacts, ConsumerFacts
<1> QED BY <1>3, <1>4

\* The invariant holds of a new queue and is kept by every step.
THEOREM ListInvariance == ASSUME ValueAssumption PROVE MpscSpec => []MpscIInv
<1>1. MpscInit => MpscIInv
  <2> SUFFICES ASSUME MpscInit PROVE MpscIInv
    OBVIOUS
  <2>1. chain = <<Dummy>> /\ Len(chain) = 1 /\ DOMAIN chain = {1} /\ chain[1] = Dummy
    BY DEF MpscInit
  <2>2. MpscTypeOK
    BY <2>1 DEF MpscInit, MpscTypeOK, Node
  <2>3. ChainFacts
    BY <2>1 DEF MpscInit, ChainFacts, Node, ValueAssumption
  <2>4. ConsumerFacts /\ LiveFacts
    BY <2>1 DEF MpscInit, ConsumerFacts, LiveFacts, Elems
  <2> QED BY <2>2, <2>3, <2>4 DEF MpscIInv
<1>2. MpscIInv /\ [MpscNext]_mpscVars => MpscIInv'
  <2> SUFFICES ASSUME MpscIInv, [MpscNext]_mpscVars PROVE MpscIInv'
    OBVIOUS
  <2>1. CASE UNCHANGED mpscVars
    BY <2>1 DEF mpscVars, MpscIInv, MpscTypeOK, ChainFacts, ConsumerFacts, LiveFacts, Elems
  <2>2. CASE MpscNext
    BY <2>2, NewNodeStep, ExchangeStep, StoreStep, LoadStep, AdvanceStep, DeleteStep DEF MpscNext
  <2> QED BY <2>1, <2>2
<1> QED BY <1>1, <1>2, PTL DEF MpscSpec

\* No step of push, pop or top touches a freed node, and pop frees every node
\* that _tail leaves exactly once, whatever the number of pushing threads.
THEOREM NoUseAfterFree == ASSUME ValueAssumption PROVE MpscSpec => []MemorySafe
BY ListInvariance, InvSafe, PTL

\* The head of the tail is the second element.
LEMMA SecondOfTail ==
  ASSUME NEW S, NEW s \in Seq(S), Len(s) > 1
  PROVE  Tail(s) # <<>> /\ Head(Tail(s)) = s[2]
<1>1. Tail(s) \in Seq(S) /\ Len(Tail(s)) = Len(s) - 1 /\ Tail(s)[1] = s[2] /\ Len(s) \in Nat
  OBVIOUS
<1>2. Len(Tail(s)) # 0
  BY <1>1
<1>3. Tail(s) # <<>>
  BY <1>2, EmptySeq, Zenon
<1> QED BY <1>1, <1>3

\* MpscQueue implements its contract: the exchange of _head is where a value
\* enters, the store where it is linked, and pop takes the oldest value, once
\* it is linked.
THEOREM ImplementsContract == ASSUME ValueAssumption PROVE MpscSpec => Refines
<1> USE DEF Contract!Init, Contract!Enter, Contract!Link, Contract!Take, Contract!Next,
        Contract!vars
<1>1. MpscInit => Contract!Init
  BY DEF MpscInit
<1>2. MpscIInv /\ [MpscNext]_mpscVars => [Contract!Next]_Contract!vars
  <2> SUFFICES ASSUME MpscIInv, [MpscNext]_mpscVars PROVE [Contract!Next]_Contract!vars
    BY Zenon
  <2>0. /\ chain \in Seq(Node) /\ chain # <<>>
        /\ pc \in [Value -> {"idle", "exchange", "store", "done"}]
    BY DEF MpscIInv, MpscTypeOK, ChainFacts
  <2>1. ASSUME NEW v \in Value, NewNode(v)
        PROVE  UNCHANGED Contract!vars
    BY <2>0, <2>1 DEF NewNode, consumer
  <2>2. ASSUME NEW v \in Value, Exchange(v)
        PROVE  Contract!Enter(v)
    <3>1. Tail(Append(chain, v)) = Append(Tail(chain), v)
      BY <2>0 DEF Node
    <3> QED BY <3>1, <2>0, <2>2 DEF Exchange, consumer
  <2>3. ASSUME NEW v \in Value, Store(v)
        PROVE  Contract!Link(v)
    BY <2>0, <2>3 DEF Store, consumer
  <2>4. ASSUME LoadTail \/ LoadNext \/ DeleteNode \/ UNCHANGED mpscVars
        PROVE  UNCHANGED Contract!vars
    BY <2>4 DEF LoadTail, LoadNext, DeleteNode, mpscVars
  <2>5. ASSUME Advance
        PROVE  Contract!Take
    <3>1. Len(chain) > 1 /\ nxt = chain[2] /\ pc[nxt] = "done"
      BY <2>5 DEF Advance, MpscIInv, ConsumerFacts
    <3>2. Tail(chain) # <<>> /\ Head(Tail(chain)) = nxt
      BY <2>0, <3>1, SecondOfTail
    <3> QED BY <3>1, <3>2, <2>5 DEF Advance
  <2> QED BY <2>1, <2>2, <2>3, <2>4, <2>5, Zenon DEF MpscNext
<1> QED BY <1>1, <1>2, ListInvariance, PTL DEF MpscSpec, Refines, Contract!Spec

-----------------------------------------------------------------------------
\* The channel.

TypeOK ==
  /\ spc \in [Msg -> {"idle", "link", "add", "write", "done"}]
  /\ queue \in Seq(Msg) /\ unlinked \in SUBSET Msg
  /\ size \in Int /\ tokens \in Nat
  /\ rpc \in {"idle", "spin", "popped", "take", "sub", "wait", "load", "drain", "poll", "undo",
              "once", "stopped", "aborted"}
  /\ timeout \in Timeouts /\ terminated \in BOOLEAN /\ expired \in BOOLEAN
  /\ got \in Seq(Msg)

\* Messages that are pushed and not counted, and senders about to write.
Uncounted == {m \in Msg : spc[m] \in {"link", "add"}}
Waking == {m \in Msg : spc[m] = "write"}

\* What the receiver popped and has yet to subtract, or the other way round.
Lag ==
  IF rpc = "popped" THEN 1
  ELSE IF rpc \in {"wait", "load", "drain", "poll", "undo", "once", "stopped", "aborted"} THEN -1
  ELSE 0

\* The points at which the receiver has announced itself and may be woken.
Announced == {"wait", "poll", "take"}

\* A sender's count overtook the announcement, so a token is there or comes.
TokenDue == rpc \in Announced /\ size >= 0

Accounts ==
  ~expired =>
    /\ size = Len(queue) - Cardinality(Uncounted) + Lag
    /\ rpc \in Announced => size >= -1
    /\ rpc = "drain" => size >= 0
    /\ TokenDue => tokens + Cardinality(Waking) >= 1
    /\ ~terminated =>
         /\ rpc \notin {"aborted", "stopped"}
         /\ rpc \notin Announced => size >= 0
         /\ tokens + Cardinality(Waking) = IF TokenDue THEN 1 ELSE 0

IInv == TypeOK /\ Accounts

-----------------------------------------------------------------------------
Assumptions == SenderAssumption /\ CallsAssumption /\ TimeoutsAssumption

\* Sets of messages are finite.
LEMMA SomeMessages ==
  ASSUME Assumptions, NEW S \in SUBSET Msg
  PROVE  IsFiniteSet(S) /\ Cardinality(S) \in Nat /\ (Cardinality(S) = 0 <=> S = {})
<1>1. IsFiniteSet(1 .. Calls)
  BY FS_Interval DEF Assumptions, CallsAssumption
<1>2. IsFiniteSet(Msg)
  BY <1>1, FS_Product, Zenon DEF Assumptions, SenderAssumption, Msg
<1> QED BY <1>2, FS_Subset, FS_CardinalityType, FS_EmptySet

\* A message that joins a set or leaves it changes its cardinality by one.
LEMMA OneMore ==
  ASSUME Assumptions, NEW S \in SUBSET Msg, NEW m \in Msg, m \notin S
  PROVE  Cardinality(S \cup {m}) = Cardinality(S) + 1
BY SomeMessages, FS_AddElement

\* A message that leaves a set makes it smaller by one.
LEMMA OneLess ==
  ASSUME Assumptions, NEW S \in SUBSET Msg, NEW m \in S
  PROVE  Cardinality(S \ {m}) = Cardinality(S) - 1
BY SomeMessages, FS_RemoveElement

\* What a pop does to the queue.
LEMMA PopFacts ==
  ASSUME queue \in Seq(Msg), got \in Seq(Msg), Pop
  PROVE  /\ queue' \in Seq(Msg) /\ got' \in Seq(Msg) /\ Head(queue) \in Msg
         /\ Len(queue) \in Nat /\ Len(queue) > 0 /\ Len(queue') = Len(queue) - 1
BY HeadTailProperties, EmptySeq, LenProperties, AppendProperties DEF Pop, CanPop

\* A new channel has the types.
LEMMA InitType == ASSUME Init PROVE TypeOK
<1>1. <<>> \in Seq(Msg)
  BY EmptySeq
<1>2. /\ spc \in [Msg -> {"idle", "link", "add", "write", "done"}] /\ timeout \in Timeouts
      /\ rpc = "idle" /\ terminated \in BOOLEAN /\ expired \in BOOLEAN
  BY Zenon DEF Init
<1>3. size = 0 /\ tokens = 0 /\ unlinked = {} /\ queue = <<>> /\ got = <<>>
  BY DEF Init
<1> QED BY <1>1, <1>2, <1>3 DEF TypeOK

\* Every step keeps the types.
LEMMA TypeStep ==
  ASSUME TypeOK, Next
  PROVE  TypeOK'
<1> USE DEF TypeOK, sending, calling
<1>1. ASSUME NEW m \in Msg, Push(m)
      PROVE  TypeOK'
  BY <1>1, AppendProperties DEF Push
<1>2. ASSUME NEW m \in Msg, Link(m) \/ Add(m) \/ Wake(m)
      PROVE  TypeOK'
  BY <1>2 DEF Link, Add, Wake
<1>3. CASE Terminate
  BY <1>3 DEF Terminate
<1>4. CASE SpinPop \/ Drain
  BY <1>4, PopFacts DEF SpinPop, Drain
<1>5. CASE PollPop
  BY <1>5, PopFacts, Zenon DEF PollPop
<1>6. CASE Recv \/ SpinMiss \/ SubPopped \/ TakeToken
  BY <1>6 DEF Recv, SpinMiss, SubPopped, TakeToken
<1>7. CASE Sub \/ WaitToken \/ LoadSize
  BY <1>7 DEF Sub, WaitToken, LoadSize
<1>8. CASE PollTimeout
  <2>1. /\ expired' = TRUE /\ rpc' = "undo"
        /\ UNCHANGED <<spc, queue, unlinked, size, tokens, timeout, terminated, got>>
    BY <1>8 DEF PollTimeout
  <2> QED BY <2>1
<1>9. CASE Undo
  BY <1>9 DEF Undo
<1>10. CASE PollRead
  BY <1>10 DEF PollRead
<1> QED BY <1>1, <1>2, <1>3, <1>4, <1>5, <1>6, <1>7, <1>8, <1>9, <1>10 DEF Next, Send, Receive

-----------------------------------------------------------------------------
\* A step of a send keeps the accounts.
LEMMA SendStep ==
  ASSUME Assumptions, IInv, NEW m \in Msg, Send(m)
  PROVE  Accounts'
<1> USE DEF IInv, sending, calling
<1>0. /\ Uncounted \in SUBSET Msg /\ Waking \in SUBSET Msg
      /\ Cardinality(Uncounted) \in Nat /\ Cardinality(Waking) \in Nat
      /\ tokens \in Nat /\ size \in Int /\ Len(queue) \in Nat /\ Lag \in Int
  BY SomeMessages DEF Uncounted, Waking, TypeOK, Lag
<1>1. UNCHANGED <<rpc, expired, Lag>> /\ Lag' \in Int
  BY <1>0 DEF Send, Push, Link, Add, Wake, Lag
<1>2. CASE Push(m)
  <2>1. Uncounted' = Uncounted \cup {m} /\ m \notin Uncounted /\ Waking' = Waking
    BY <1>2 DEF Push, TypeOK, Uncounted, Waking
  <2>2. Cardinality(Uncounted') = Cardinality(Uncounted) + 1
    BY <1>0, <2>1, OneMore
  <2>3. Len(queue') = Len(queue) + 1 /\ UNCHANGED <<size, tokens, terminated>>
    BY <1>2 DEF Push, TypeOK
  <2> QED BY <1>0, <1>1, <2>1, <2>2, <2>3 DEF Accounts, TokenDue
<1>3. CASE Link(m)
  <2>1. Uncounted' = Uncounted /\ Waking' = Waking
    BY <1>3 DEF Link, TypeOK, Uncounted, Waking
  <2> QED BY <1>0, <1>1, <1>3, <2>1 DEF Accounts, TokenDue, Link
<1>4. CASE Add(m)
  <2>1. Uncounted' = Uncounted \ {m} /\ m \in Uncounted /\ m \notin Waking
    BY <1>4 DEF Add, TypeOK, Uncounted, Waking
  <2>2. Cardinality(Uncounted') = Cardinality(Uncounted) - 1
    BY <1>0, <2>1, OneLess
  <2>3. size' = size + 1 /\ UNCHANGED <<queue, tokens, terminated>>
    BY <1>4 DEF Add
  <2>4. CASE size = -1
    <3>1. Waking' = Waking \cup {m}
      BY <1>4, <2>4 DEF Add, TypeOK, Waking
    <3>2. Cardinality(Waking') = Cardinality(Waking) + 1
      BY <1>0, <2>1, <3>1, OneMore
    <3> QED BY <1>0, <1>1, <2>2, <2>3, <2>4, <3>2 DEF Accounts, TokenDue
  <2>5. CASE size # -1
    <3>1. Waking' = Waking
      BY <1>4, <2>5 DEF Add, TypeOK, Waking
    <3> QED BY <1>0, <1>1, <2>2, <2>3, <2>5, <3>1 DEF Accounts, TokenDue
  <2> QED BY <2>4, <2>5
<1>5. CASE Wake(m)
  <2>1. Uncounted' = Uncounted /\ Waking' = Waking \ {m} /\ m \in Waking
    BY <1>5 DEF Wake, TypeOK, Uncounted, Waking
  <2>2. Cardinality(Waking') = Cardinality(Waking) - 1
    BY <1>0, <2>1, OneLess
  <2>3. tokens' = tokens + 1 /\ UNCHANGED <<queue, size, terminated>>
    BY <1>5 DEF Wake
  <2> QED BY <1>0, <1>1, <2>1, <2>2, <2>3 DEF Accounts, TokenDue
<1> QED BY <1>2, <1>3, <1>4, <1>5 DEF Send

\* terminate's token is one too many for the exact account and none too few for
\* the other.
LEMMA TerminateStep ==
  ASSUME Assumptions, IInv, Terminate
  PROVE  Accounts'
<1>0. /\ Cardinality(Waking) \in Nat /\ tokens \in Nat
  BY SomeMessages DEF Waking, TypeOK, IInv
<1>1. /\ UNCHANGED <<spc, queue, size, rpc, expired>> /\ terminated' /\ tokens' = tokens + 1
  BY DEF Terminate, calling
<1>2. UNCHANGED <<Uncounted, Waking, Lag, TokenDue>>
  BY <1>1 DEF Uncounted, Waking, Lag, TokenDue
<1> QED BY <1>0, <1>1, <1>2 DEF IInv, Accounts

\* A step of recv keeps the accounts.
LEMMA ReceiveStep ==
  ASSUME Assumptions, IInv, Receive
  PROVE  Accounts'
<1> USE DEF IInv, sending
<1>0. /\ Cardinality(Uncounted) \in Nat /\ Cardinality(Waking) \in Nat
      /\ tokens \in Nat /\ size \in Int /\ Len(queue) \in Nat
  BY SomeMessages DEF Uncounted, Waking, TypeOK
<1>1. Uncounted' = Uncounted /\ Waking' = Waking /\ terminated' = terminated
  BY DEF Receive, Recv, SpinPop, SpinMiss, SubPopped, TakeToken, Sub, WaitToken, LoadSize,
         Drain, PollTimeout, Undo, PollRead, PollPop, Uncounted, Waking
<1> USE <1>0, <1>1 DEF Accounts, TokenDue, Lag, Announced
<1>2. CASE Recv
  BY <1>2 DEF Recv
<1>3. CASE SpinPop
  <2>1. Len(queue') = Len(queue) - 1
    BY <1>3, PopFacts DEF SpinPop, TypeOK
  <2> QED BY <1>3, <2>1 DEF SpinPop
<1>4. CASE SpinMiss
  BY <1>4 DEF SpinMiss
<1>5. CASE SubPopped
  BY <1>5 DEF SubPopped
<1>6. CASE TakeToken
  BY <1>6 DEF TakeToken
<1>7. CASE Sub
  BY <1>7 DEF Sub
<1>8. CASE WaitToken
  BY <1>8 DEF WaitToken
<1>9. CASE LoadSize
  BY <1>9 DEF LoadSize
<1>10. CASE Drain
  <2>1. Len(queue') = Len(queue) - 1
    BY <1>10, PopFacts DEF Drain, TypeOK
  <2> QED BY <1>10, <2>1 DEF Drain
<1>11. CASE PollTimeout
  BY <1>11 DEF PollTimeout
<1>12. CASE Undo
  BY <1>12 DEF Undo
<1>13. CASE PollRead
  BY <1>13 DEF PollRead
<1>14. CASE PollPop
  <2>1. CASE expired'
    BY <2>1
  <2>2. CASE ~expired'
    <3>1. Pop /\ ~expired
      BY <1>14, <2>2 DEF PollPop, TypeOK
    <3>2. Len(queue') = Len(queue) - 1
      BY <3>1, PopFacts DEF TypeOK
    <3> QED BY <1>14, <3>1, <3>2 DEF PollPop
  <2> QED BY <2>1, <2>2
<1> QED BY <1>2, <1>3, <1>4, <1>5, <1>6, <1>7, <1>8, <1>9, <1>10, <1>11, <1>12, <1>13, <1>14
        DEF Receive

\* The accounts hold in every reachable state.
THEOREM AccountsKept == ASSUME Assumptions PROVE Spec => []IInv
<1>1. Init => IInv
  <2> SUFFICES ASSUME Init PROVE IInv
    OBVIOUS
  <2>1. TypeOK
    BY InitType
  <2>2. Uncounted = {} /\ Waking = {} /\ Cardinality({}) = 0
    BY FS_EmptySet DEF Init, Uncounted, Waking
  <2>3. Accounts
    BY <2>2 DEF Init, Accounts, TokenDue, Lag, Announced
  <2> QED BY <2>1, <2>3 DEF IInv
<1>2. IInv /\ [Next]_vars => IInv'
  <2> SUFFICES ASSUME IInv, [Next]_vars PROVE IInv'
    OBVIOUS
  <2>1. CASE UNCHANGED vars
    BY <2>1 DEF vars, IInv, TypeOK, Accounts, TokenDue, Lag, Uncounted, Waking
  <2>2. CASE Next
    BY <2>2, TypeStep, SendStep, TerminateStep, ReceiveStep DEF Next, IInv
  <2> QED BY <2>1, <2>2
<1> QED BY <1>1, <1>2, PTL DEF Spec

\* SCHECK(sz >= 0) of recv and its "terminated" answer, which recv(-1) gives when
\* it wakes to a negative _size, come only after a recv with a time limit
\* returned false or after terminate.
THEOREM NoFalseAlarm == ASSUME Assumptions PROVE Spec => []FailsOnlyDisturbed
<1>1. IInv => FailsOnlyDisturbed
  BY DEF IInv, TypeOK, Accounts, FailsOnlyDisturbed, Undisturbed
<1> QED BY <1>1, AccountsKept, PTL

\* No sleeping receiver misses a message: neither recv(-1) on the eventfd nor the
\* fast path's read, and the last loop of recv always has something to pop.
THEOREM WakeupsKept == ASSUME Assumptions PROVE Spec => []NoLostWakeup
<1>1. IInv => NoLostWakeup
  <2> SUFFICES ASSUME IInv, ~expired
               PROVE  /\ rpc = "wait" /\ tokens = 0 /\ ~Busy => queue = <<>>
                      /\ rpc = "take" /\ tokens = 0 => Busy
                      /\ rpc = "drain" => queue # <<>>
    BY DEF NoLostWakeup
  <2>1. /\ Cardinality(Uncounted) \in Nat /\ Cardinality(Waking) \in Nat
        /\ Cardinality(Uncounted) = 0 <=> Uncounted = {}
        /\ Cardinality(Waking) = 0 <=> Waking = {}
        /\ tokens \in Nat /\ size \in Int /\ Len(queue) \in Nat
        /\ Len(queue) = 0 <=> queue = <<>>
    BY SomeMessages, EmptySeq, Zenon DEF Uncounted, Waking, IInv, TypeOK
  <2>2. ~Busy <=> Uncounted = {} /\ Waking = {}
    BY DEF Busy, Uncounted, Waking
  <2> QED BY <2>1, <2>2 DEF IInv, Accounts, TokenDue, Lag, Announced
<1> QED BY <1>1, AccountsKept, PTL

-----------------------------------------------------------------------------
\* One sender's messages are in increasing order in a sequence.
Ordered(s) == \A i, j \in DOMAIN s : i < j /\ s[i][1] = s[j][1] => s[i][2] < s[j][2]

\* The messages received, then those in the queue: the order of the pushes.
Line == got \o queue

OrderInv ==
  /\ TypeOK
  /\ Ordered(Line)
  /\ \A i \in DOMAIN Line : spc[Line[i]] # "idle"
  /\ \A m, n \in Msg : m[1] = n[1] /\ m[2] < n[2] /\ spc[n] # "idle" => spc[m] = "done"

\* The sequence of two parts, element by element.
LEMMA LineParts ==
  ASSUME NEW s \in Seq(Msg), NEW q \in Seq(Msg)
  PROVE  /\ s \o q \in Seq(Msg) /\ Len(s \o q) = Len(s) + Len(q)
         /\ Len(s) \in Nat /\ Len(q) \in Nat
         /\ DOMAIN (s \o q) = 1 .. (Len(s) + Len(q)) /\ DOMAIN s = 1 .. Len(s)
         /\ \A i \in 1 .. (Len(s) + Len(q)) :
              (s \o q)[i] = IF i <= Len(s) THEN s[i] ELSE q[i - Len(s)]
BY ConcatProperties, LenProperties

\* A pop moves the boundary between the two parts.
LEMMA LinePop ==
  ASSUME NEW s \in Seq(Msg), NEW q \in Seq(Msg), q # <<>>
  PROVE  Append(s, Head(q)) \o Tail(q) = s \o q
<1>1. /\ Append(s, Head(q)) \in Seq(Msg) /\ Tail(q) \in Seq(Msg) /\ Len(q) > 0 /\ Len(q) \in Nat
      /\ Len(Append(s, Head(q))) = Len(s) + 1 /\ Len(Tail(q)) = Len(q) - 1 /\ Len(s) \in Nat
      /\ Append(s, Head(q))[Len(s) + 1] = q[1]
      /\ \A i \in 1 .. Len(s) : Append(s, Head(q))[i] = s[i]
      /\ \A i \in 1 .. (Len(q) - 1) : Tail(q)[i] = q[i + 1]
  BY HeadTailProperties, AppendProperties, EmptySeq, LenProperties
<1> DEFINE a == Append(s, Head(q))
           b == Tail(q)
<1> HIDE DEF a, b
<1>2. /\ a \in Seq(Msg) /\ b \in Seq(Msg) /\ Len(a) = Len(s) + 1 /\ Len(b) = Len(q) - 1
      /\ a[Len(s) + 1] = q[1] /\ \A i \in 1 .. Len(s) : a[i] = s[i]
      /\ \A i \in 1 .. (Len(q) - 1) : b[i] = q[i + 1]
  BY <1>1 DEF a, b
<1>3. /\ a \o b \in Seq(Msg) /\ s \o q \in Seq(Msg) /\ Len(a \o b) = Len(s \o q)
      /\ Len(s \o q) = Len(s) + Len(q)
  <2>1. a \o b \in Seq(Msg) /\ Len(a \o b) = Len(a) + Len(b)
    BY <1>2, LineParts, Zenon
  <2>2. s \o q \in Seq(Msg) /\ Len(s \o q) = Len(s) + Len(q)
    BY LineParts
  <2> QED BY <2>1, <2>2, <1>1, <1>2
<1>4. ASSUME NEW i \in 1 .. Len(s \o q)
      PROVE  (a \o b)[i] = (s \o q)[i]
  <2>1. /\ (a \o b)[i] = IF i <= Len(a) THEN a[i] ELSE b[i - Len(a)]
        /\ (s \o q)[i] = IF i <= Len(s) THEN s[i] ELSE q[i - Len(s)]
    BY <1>1, <1>2, <1>3, LineParts
  <2>2. CASE i <= Len(s)
    BY <2>1, <2>2, <1>1, <1>2
  <2>3. CASE i = Len(s) + 1
    BY <2>1, <2>3, <1>1, <1>2
  <2>4. CASE i > Len(s) + 1
    <3>1. i - Len(a) \in 1 .. (Len(q) - 1) /\ (i - Len(a)) + 1 = i - Len(s)
      BY <2>4, <1>1, <1>2, <1>3
    <3>2. b[i - Len(a)] = q[i - Len(s)]
      BY <3>1, <1>2
    <3> QED BY <2>1, <2>4, <3>2, <1>1, <1>2
  <2> QED BY <2>2, <2>3, <2>4, <1>1, <1>3
<1>5. a \o b = s \o q
  BY <1>3, <1>4, SeqEqual
<1> QED BY <1>5 DEF a, b

\* A push adds to the end of the line.
LEMMA LinePush ==
  ASSUME NEW s \in Seq(Msg), NEW q \in Seq(Msg), NEW m \in Msg
  PROVE  s \o Append(q, m) = Append(s \o q, m)
BY LineParts, AppendProperties

\* A new message of the line is later than its sender's others.
LEMMA OrderedAppend ==
  ASSUME NEW s \in Seq(Msg), NEW m \in Msg, Ordered(s),
         \A i \in DOMAIN s : s[i][1] = m[1] => s[i][2] < m[2]
  PROVE  Ordered(Append(s, m))
<1> DEFINE l == Append(s, m)
<1>1. /\ l[Len(s) + 1] = m /\ DOMAIN l = 1 .. (Len(s) + 1) /\ Len(s) \in Nat
      /\ DOMAIN s = 1 .. Len(s) /\ \A i \in 1 .. Len(s) : l[i] = s[i]
  BY AppendProperties, LenProperties
<1> HIDE DEF l
<1>2. ASSUME NEW i \in DOMAIN l, NEW j \in DOMAIN l, i < j, l[i][1] = l[j][1]
      PROVE  l[i][2] < l[j][2]
  <2>1. CASE j \in DOMAIN s
    BY <2>1, <1>1, <1>2 DEF Ordered
  <2>2. CASE j = Len(s) + 1
    BY <2>2, <1>1, <1>2
  <2> QED BY <2>1, <2>2, <1>1
<1>3. Ordered(l)
  BY <1>2 DEF Ordered
<1> QED BY <1>3 DEF l

\* Every step keeps the order of the line.
LEMMA OrderStep ==
  ASSUME Assumptions, OrderInv, Next
  PROVE  OrderInv'
<1> USE DEF OrderInv
<1>0. TypeOK' /\ Line \in Seq(Msg) /\ \A i \in DOMAIN Line : Line[i] \in Msg
  BY TypeStep, LineParts DEF TypeOK, Line
<1>n. \A m \in Msg : m[1] \in Sender /\ m[2] \in Nat /\ m = <<m[1], m[2]>>
  BY DEF Msg, Assumptions, CallsAssumption
<1>1. ASSUME NEW m \in Msg, Push(m)
      PROVE  OrderInv'
  <2>1. Line' = Append(Line, m)
    BY <1>1, LinePush DEF Push, Line, calling, TypeOK
  <2>2. spc[m] = "idle" /\ spc'[m] = "link" /\ \A n \in Msg : n # m => spc'[n] = spc[n]
    BY <1>1 DEF Push, TypeOK
  <2>3. ASSUME NEW i \in DOMAIN Line, Line[i][1] = m[1]
        PROVE  Line[i][2] < m[2]
    <3>1. Line[i] \in Msg /\ spc[Line[i]] # "idle"
      BY <1>0
    <3>2. Line[i] # m /\ ~(m[2] < Line[i][2])
      BY <2>2, <2>3, <3>1
    <3>3. Line[i][2] # m[2]
      BY <1>n, <2>3, <3>1, <3>2
    <3> QED BY <1>n, <3>1, <3>2, <3>3
  <2>4. Ordered(Line')
    BY <1>0, <2>1, <2>3, OrderedAppend
  <2>5. \A i \in DOMAIN Line' : spc'[Line'[i]] # "idle"
    BY <1>0, <2>1, <2>2, AppendProperties, LenProperties
  <2>6. ASSUME NEW a \in Msg, a[1] = m[1], a[2] < m[2]
        PROVE  spc[a] = "done" /\ a # m
    <3> DEFINE b == <<m[1], m[2] - 1>>
    <3>1. b \in Msg /\ m[2] > 1
      BY <2>6 DEF Msg, Assumptions, CallsAssumption
    <3>2. spc[b] = "done"
      BY <1>1, <3>1 DEF Push
    <3>3. a = b \/ (a[2] < b[2] /\ a[1] = b[1])
      BY <2>6, <1>n, <3>1
    <3> HIDE DEF b
    <3> QED BY <2>6, <1>n, <3>1, <3>2, <3>3
  <2>7. ASSUME NEW a \in Msg, NEW c \in Msg, a[1] = c[1], a[2] < c[2], spc'[c] # "idle"
        PROVE  spc'[a] = "done"
    <3>1. CASE c = m
      BY <3>1, <2>2, <2>6, <2>7
    <3>2. CASE c # m
      BY <3>2, <2>2, <2>7
    <3> QED BY <3>1, <3>2
  <2> QED BY <1>0, <2>4, <2>5, <2>7
<1>2. ASSUME NEW m \in Msg, Link(m) \/ Add(m) \/ Wake(m)
      PROVE  OrderInv'
  <2>1. Line' = Line
    BY <1>2 DEF Link, Add, Wake, Line, calling
  <2>2. /\ spc[m] \notin {"idle", "done"} /\ spc'[m] # "idle"
        /\ \A n \in Msg : n # m => spc'[n] = spc[n]
    BY <1>2 DEF Link, Add, Wake, TypeOK
  <2>3. \A i \in DOMAIN Line : spc'[Line[i]] # "idle"
    BY <1>0, <2>2
  <2>4. \A a, c \in Msg : a[1] = c[1] /\ a[2] < c[2] /\ spc'[c] # "idle" => spc'[a] = "done"
    BY <2>2
  <2> QED BY <1>0, <2>1, <2>3, <2>4
<1>3. CASE Terminate \/ Receive
  <2>1. spc' = spc
    BY <1>3 DEF Terminate, sending, Receive, Recv, SpinPop, SpinMiss, SubPopped, TakeToken, Sub,
           WaitToken, LoadSize, Drain, PollTimeout, Undo, PollRead, PollPop
  <2>2. Pop \/ UNCHANGED <<queue, got>>
    BY <1>3, Zenon DEF Terminate, calling, Receive, Recv, SpinPop, SpinMiss, SubPopped, TakeToken, Sub,
           WaitToken, LoadSize, Drain, PollTimeout, Undo, PollRead, PollPop
  <2>3. Line' = Line
    <3>1. CASE Pop
      BY <3>1, LinePop DEF Pop, CanPop, Line, TypeOK
    <3> QED BY <2>2, <3>1 DEF Line
  <2> QED BY <1>0, <2>1, <2>3
<1> QED BY <1>1, <1>2, <1>3 DEF Next, Send

\* Each sender's messages are received once and in the order of its sends,
\* through timeouts and terminations.
THEOREM SendersInOrder == ASSUME Assumptions PROVE Spec => []ReceivedInOrder
<1>1. Init => OrderInv
  <2> SUFFICES ASSUME Init PROVE OrderInv
    OBVIOUS
  <2>1. <<>> \in Seq(Msg) /\ Line = <<>>
    BY EmptySeq DEF Init, Line
  <2>2. TypeOK
    BY InitType
  <2> QED BY <2>1, <2>2 DEF Init, OrderInv, Ordered
<1>2. OrderInv /\ [Next]_vars => OrderInv'
  <2> SUFFICES ASSUME OrderInv, [Next]_vars PROVE OrderInv'
    OBVIOUS
  <2>1. CASE UNCHANGED vars
    BY <2>1 DEF vars, OrderInv, TypeOK, Ordered, Line
  <2> QED BY <2>1, OrderStep
<1>3. OrderInv => ReceivedInOrder
  <2> SUFFICES ASSUME OrderInv, NEW i \in DOMAIN got, NEW j \in DOMAIN got,
                      i < j, got[i][1] = got[j][1]
               PROVE  got[i][2] < got[j][2]
    BY DEF ReceivedInOrder
  <2>1. /\ i \in DOMAIN Line /\ j \in DOMAIN Line /\ Line[i] = got[i] /\ Line[j] = got[j]
    BY LineParts DEF OrderInv, TypeOK, Line
  <2> QED BY <2>1 DEF OrderInv, Ordered
<1> QED BY <1>1, <1>2, <1>3, PTL DEF Spec

\* The channel keeps its promises to the owner of its receiving end: an assertion
\* fails only after terminate or an expired limit, no wake-up is lost before that,
\* and each sender's messages come in order.
THEOREM ChannelIsSound == ASSUME Assumptions PROVE Spec => []RpcChannelSound
BY NoFalseAlarm, WakeupsKept, SendersInOrder, PTL DEF RpcChannelSound
=============================================================================
