---------------------- MODULE SharedMemoryProofs ----------------------
(***************************************************************************)
(* Structures that threads share.  SpscQueue, which has no mutex: its      *)
(* producer uses a node again only when the consumer has left it, for any  *)
(* number of values and nodes.  The inductive invariant exhibits the list: *)
(* a sequence of nodes from _first to _head in which _tailcopy stands at   *)
(* or before _tail, with the values that were not popped behind _tail in   *)
(* order.                                                                  *)
(*                                                                         *)
(* RWSpinLock: mutual exclusion for any number of threads below 32768.     *)
(* The inductive invariant is BitsExact beside Exclusive: what a thread    *)
(* reads from the word tells it who holds the lock only because the three  *)
(* counts packed into the word are exact and do not overflow into another. *)
(*                                                                         *)
(* Semaphore: no permit is lost while threads sleep, for any number of     *)
(* threads and permits.                                                    *)
(***************************************************************************)
EXTENDS Locks, SpscQueue, Sequences, SequenceTheorems, FiniteSetTheorems, TLAPS

SpscTypeOK ==
  /\ next \in [Node -> Node \cup {Null}] /\ item \in [Node -> Nat]
  /\ head \in Node /\ tail \in Node /\ first \in Node /\ tailcopy \in Node
  /\ used \in SUBSET Node /\ n \in Node /\ peek \in Node \cup {Null}
  /\ ppc \in {"idle", "fill", "link"} /\ cpc \in {"idle", "take", "advance"}
  /\ pushed \in Nat /\ popped \in Nat /\ peak \in Nat

Elems(s) == {s[i] : i \in DOMAIN s}

\* s is the list from _first to _head; _tailcopy is its node a, _tail its node b.
List(s, a, b) ==
  /\ 1 <= a /\ a <= b /\ b <= Len(s)
  /\ s[1] = first /\ s[a] = tailcopy /\ s[b] = tail /\ s[Len(s)] = head
  /\ next[head] = Null
  /\ \A i \in DOMAIN s : i < Len(s) => next[s[i]] = s[i + 1]
  /\ \A i, j \in DOMAIN s : s[i] = s[j] => i = j
  /\ \A i \in DOMAIN s : i > b => item[s[i]] = Returned + (i - b)
  /\ pushed = Returned + (Len(s) - b)

\* The node that push works on is outside the list, and the rest is in it.
Apart(s) ==
  IF ppc = "idle" THEN used = Elems(s)
  ELSE used = Elems(s) \cup {n} /\ n \notin Elems(s)

\* What the producer and the consumer know between their steps.
Steps(s, b) ==
  /\ ppc = "link" => next[n] = Null /\ item[n] = pushed + 1
  /\ cpc # "idle" => b < Len(s) /\ peek = s[b + 1]

\* Nodes are made only when no old one is free.
Bounds ==
  /\ Returned \in Nat /\ Returned <= pushed /\ pushed - Returned <= peak
  /\ Cardinality(used) <= peak + 2

SpscIInv ==
  /\ SpscTypeOK
  /\ \E s \in Seq(Node), a, b \in Nat : List(s, a, b) /\ Apart(s) /\ Steps(s, b) /\ Bounds
SpscIInvAt(s, a, b) == List(s, a, b) /\ Apart(s) /\ Steps(s, b) /\ Bounds

-----------------------------------------------------------------------------
USE DEF consumer

\* new Node returns an address that is not in use.
LEMMA FreshNode ==
  ASSUME NEW S \in SUBSET Node, S # Node
  PROVE  Fresh(S) \in Node /\ Fresh(S) \notin S
<1>1. \E x \in Node : x \notin S
  OBVIOUS
<1> QED BY <1>1 DEF Fresh

\* The larger of two numbers.
LEMMA MaxOfTwo ==
  ASSUME NEW x \in Nat, NEW y \in Nat
  PROVE  Max({x, y}) \in Nat /\ Max({x, y}) >= x /\ Max({x, y}) >= y
<1>1. \E z \in {x, y} : \A w \in {x, y} : z >= w
  <2>1. CASE x >= y
    BY <2>1
  <2>2. CASE y >= x
    BY <2>2
  <2> QED BY <2>1, <2>2
<1> QED BY <1>1 DEF Max

\* Facts about a list that every step uses.
LEMMA ListFacts ==
  ASSUME SpscTypeOK, NEW s \in Seq(Node), NEW a \in Nat, NEW b \in Nat, List(s, a, b)
  PROVE  /\ Len(s) \in Nat /\ DOMAIN s = 1 .. Len(s) /\ Len(s) > 0
         /\ a \in DOMAIN s /\ b \in DOMAIN s /\ 1 \in DOMAIN s /\ Len(s) \in DOMAIN s
         /\ \A i \in DOMAIN s : s[i] \in Node /\ s[i] \in Elems(s)
         /\ Elems(s) \in SUBSET Node /\ Returned \in Int
<1>1. Len(s) \in Nat /\ DOMAIN s = 1 .. Len(s)
  BY LenProperties
<1>2. 1 <= a /\ a <= b /\ b <= Len(s)
  BY DEF List
<1>3. \A i \in DOMAIN s : s[i] \in Node /\ s[i] \in Elems(s)
  BY <1>1 DEF Elems
<1>4. Elems(s) \in SUBSET Node
  BY <1>3 DEF Elems
<1>5. Returned \in Int
  BY DEF SpscTypeOK, Returned
<1> QED BY <1>1, <1>2, <1>3, <1>4, <1>5

\* What the invariant says of the nodes in use.
LEMMA InvApart ==
  ASSUME NodeAssumption, SpscIInv
  PROVE  NodesApart
<1>1. PICK s \in Seq(Node), a, b \in Nat : SpscIInvAt(s, a, b)
  BY DEF SpscIInv, SpscIInvAt
<1> USE DEF SpscIInvAt, NodeAssumption
<1>2. SpscTypeOK /\ List(s, a, b) /\ Apart(s) /\ Steps(s, b) /\ Bounds
  BY <1>1 DEF SpscIInv
<1>3. /\ Len(s) \in Nat /\ DOMAIN s = 1 .. Len(s) /\ b \in DOMAIN s
      /\ \A i \in DOMAIN s : s[i] \in Node /\ s[i] \in Elems(s)
  BY <1>2, ListFacts
<1>4. tail \in Elems(s) /\ (next[tail] \in Elems(s) \/ next[tail] = Null)
  <2>1. CASE b = Len(s)
    BY <2>1, <1>2, <1>3 DEF List
  <2>2. CASE b < Len(s)
    <3>1. b + 1 \in DOMAIN s /\ next[s[b]] = s[b + 1]
      BY <2>2, <1>2, <1>3 DEF List
    <3> QED BY <3>1, <1>2, <1>3 DEF List
  <2>3. b = Len(s) \/ b < Len(s)
    <3>1. Len(s) \in Nat /\ b <= Len(s)
      BY <1>2, <1>3 DEF List
    <3> QED BY <3>1
  <2> QED BY <2>1, <2>2, <2>3
<1>5. cpc # "idle" => peek \in Elems(s) /\ item[peek] = Returned + 1
  <2> SUFFICES ASSUME cpc # "idle" PROVE peek \in Elems(s) /\ item[peek] = Returned + 1
    OBVIOUS
  <2>1. b + 1 \in DOMAIN s /\ peek = s[b + 1] /\ b + 1 > b
    BY <1>2, <1>3 DEF Steps
  <2>2. item[s[b + 1]] = Returned + ((b + 1) - b)
    BY <2>1, <1>2, Zenon DEF List
  <2> QED BY <2>1, <2>2, <1>2, <1>3, ListFacts
<1>6. ppc \in {"fill", "link"} => n \notin Elems(s) /\ n # Null
  BY <1>2 DEF Apart, SpscTypeOK
<1> QED BY <1>2, <1>4, <1>5, <1>6 DEF NodesApart, Bounds, Returned, SpscTypeOK

\* A sequence has no more values than positions.
LEMMA SeqCard ==
  ASSUME NEW s \in Seq(Node)
  PROVE  IsFiniteSet(Elems(s)) /\ Cardinality(Elems(s)) <= Len(s)
<1>1. Len(s) \in Nat /\ DOMAIN s = 1 .. Len(s)
  BY LenProperties
<1>2. IsFiniteSet(1 .. Len(s)) /\ Cardinality(1 .. Len(s)) = Len(s)
  BY <1>1, FS_Interval, SMTT(30)
<1>3. s \in Surjection(1 .. Len(s), Elems(s))
  BY <1>1 DEF Surjection, Elems
<1> QED BY <1>2, <1>3, FS_Surjection

-----------------------------------------------------------------------------
\* alloc_node with an old node: the list loses its first node, which lies before
\* _tailcopy or, after the refresh, before _tail.
LEMMA ReuseStep ==
  ASSUME NodeAssumption, SpscIInv, AllocOld \/ AllocRefresh
  PROVE  SpscIInv'
<1>1. PICK s \in Seq(Node), a, b \in Nat : SpscIInvAt(s, a, b)
  BY DEF SpscIInv, SpscIInvAt
<1> USE DEF SpscIInvAt
<1>2. SpscTypeOK /\ List(s, a, b) /\ Apart(s) /\ Steps(s, b) /\ Bounds
  BY <1>1 DEF SpscIInv
<1>3. /\ Len(s) \in Nat /\ DOMAIN s = 1 .. Len(s) /\ Len(s) > 0
      /\ \A i \in DOMAIN s : s[i] \in Node /\ s[i] \in Elems(s)
      /\ a \in DOMAIN s /\ b \in DOMAIN s /\ 1 \in DOMAIN s
      /\ Elems(s) \in SUBSET Node /\ Returned \in Int
  BY <1>2, ListFacts
<1>4. /\ ppc = "idle" /\ ppc' = "fill" /\ n' = first /\ first' = next[first]
      /\ UNCHANGED <<next, item, head, used, tail, cpc, peek, popped, pushed, peak>>
  BY DEF AllocOld, AllocRefresh, Reuse
<1>5. b > 1 /\ \E c \in Nat : 1 < c /\ c <= b /\ tailcopy' = s[c]
  <2>1. CASE AllocOld
    BY <2>1, <1>2, <1>3 DEF AllocOld, List
  <2>2. CASE AllocRefresh
    BY <2>2, <1>2, <1>3 DEF AllocRefresh, List
  <2> QED BY <2>1, <2>2
<1>6. PICK c \in Nat : 1 < c /\ c <= b /\ tailcopy' = s[c]
  BY <1>5
<1> DEFINE q == Tail(s)
<1>7. /\ q \in Seq(Node) /\ Len(q) = Len(s) - 1 /\ DOMAIN q = 1 .. (Len(s) - 1)
      /\ \A i \in 1 .. (Len(s) - 1) : q[i] = s[i + 1]
  BY <1>3, HeadTailProperties, EmptySeq
<1> HIDE DEF q
<1>8. first' = s[2] /\ s[2] = q[1] /\ 2 \in DOMAIN s /\ first = s[1]
  <2>1. 1 \in DOMAIN s /\ 1 < Len(s) /\ first = s[1]
    BY <1>2, <1>3, <1>5 DEF List
  <2>2. next[s[1]] = s[1 + 1]
    BY <2>1, <1>2 DEF List
  <2> QED BY <2>1, <2>2, <1>3, <1>4, <1>7
<1>9. Returned' = Returned
  BY <1>4 DEF Returned
<1>10. SpscTypeOK'
  <2>1. c \in DOMAIN s
    BY <1>2, <1>3, <1>6 DEF List
  <2>2. tailcopy' \in Node /\ first' \in Node /\ n' \in Node
    BY <1>3, <1>4, <1>6, <1>8, <2>1
  <2> QED BY <1>2, <1>4, <2>2, SMTT(30) DEF SpscTypeOK
<1>11. List(q, c - 1, b - 1)'
  <2>1. \A i \in DOMAIN q : i < Len(q) => next[q[i]] = q[i + 1]
    <3> SUFFICES ASSUME NEW i \in DOMAIN q, i < Len(q) PROVE next[q[i]] = q[i + 1]
      OBVIOUS
    <3>1. i + 1 \in DOMAIN s /\ i + 1 < Len(s) /\ q[i] = s[i + 1] /\ q[i + 1] = s[(i + 1) + 1]
      BY <1>3, <1>7
    <3> QED BY <3>1, <1>2 DEF List
  <2>2. \A i, j \in DOMAIN q : q[i] = q[j] => i = j
    <3> SUFFICES ASSUME NEW i \in DOMAIN q, NEW j \in DOMAIN q, q[i] = q[j] PROVE i = j
      OBVIOUS
    <3>1. i + 1 \in DOMAIN s /\ j + 1 \in DOMAIN s /\ s[i + 1] = s[j + 1]
      BY <1>3, <1>7
    <3>2. i + 1 = j + 1
      BY <3>1, <1>2 DEF List
    <3> QED BY <3>2, <1>7
  <2>3. \A i \in DOMAIN q : i > b - 1 => item[q[i]] = Returned + (i - (b - 1))
    <3> SUFFICES ASSUME NEW i \in DOMAIN q, i > b - 1
                 PROVE  item[q[i]] = Returned + (i - (b - 1))
      OBVIOUS
    <3>1. i + 1 \in DOMAIN s /\ i + 1 > b /\ q[i] = s[i + 1]
      BY <1>3, <1>7
    <3>2. item[s[i + 1]] = Returned + ((i + 1) - b)
      BY <3>1, <1>2 DEF List
    <3> QED BY <3>1, <3>2, <1>3, <1>7
  <2>4. q[c - 1] = s[c] /\ q[b - 1] = s[b] /\ q[Len(q)] = s[Len(s)]
    BY <1>3, <1>5, <1>6, <1>7
  <2>5. /\ 1 <= c - 1 /\ c - 1 <= b - 1 /\ b - 1 <= Len(q)
        /\ pushed = Returned + (Len(q) - (b - 1)) /\ next[head] = Null
    BY <1>2, <1>3, <1>6, <1>7 DEF List
  <2>6. s[b] = tail /\ s[Len(s)] = head
    BY <1>2 DEF List
  <2> QED BY <1>4, <1>6, <1>8, <1>9, <2>1, <2>2, <2>3, <2>4, <2>5, <2>6 DEF List
<1>12. Elems(s) = Elems(q) \cup {first} /\ first \notin Elems(q)
  <2>1. \A i \in DOMAIN q : i + 1 \in DOMAIN s /\ q[i] = s[i + 1] /\ s[i + 1] # s[1]
    BY <1>2, <1>3, <1>7, SMTT(30) DEF List
  <2>2. \A i \in DOMAIN s : i # 1 => i - 1 \in DOMAIN q /\ q[i - 1] = s[i]
    BY <1>3, <1>7
  <2>3. Elems(q) \subseteq Elems(s) \ {first}
    BY <2>1, <1>8 DEF Elems
  <2>4. Elems(s) \subseteq Elems(q) \cup {first}
    BY <2>2, <1>8 DEF Elems
  <2> QED BY <2>3, <2>4, <1>3, <1>8
<1>13. Apart(q)'
  BY <1>2, <1>4, <1>12, Zenon DEF Apart, Elems
<1>14. Steps(q, b - 1)'
  <2>1. cpc # "idle" => b - 1 < Len(q) /\ peek = q[(b - 1) + 1]
    BY <1>2, <1>3, <1>5, <1>7 DEF Steps
  <2> QED BY <2>1, <1>4 DEF Steps
<1>15. Bounds'
  BY <1>2, <1>4, <1>9 DEF Bounds
<1>16. c - 1 \in Nat /\ b - 1 \in Nat
  BY <1>5, <1>6
<1> QED BY <1>7, <1>10, <1>11, <1>13, <1>14, <1>15, <1>16 DEF SpscIInv

\* alloc_node with a new node, when every old one is still in use: _first is
\* _tail, so the list holds one node more than the values in it.
LEMMA NewStep ==
  ASSUME NodeAssumption, SpscIInv, AllocNew
  PROVE  SpscIInv'
<1>1. PICK s \in Seq(Node), a, b \in Nat : SpscIInvAt(s, a, b)
  BY DEF SpscIInv, SpscIInvAt
<1> USE DEF SpscIInvAt
<1>2. SpscTypeOK /\ List(s, a, b) /\ Apart(s) /\ Steps(s, b) /\ Bounds
  BY <1>1 DEF SpscIInv
<1>3. /\ Len(s) \in Nat /\ DOMAIN s = 1 .. Len(s) /\ Len(s) > 0
      /\ \A i \in DOMAIN s : s[i] \in Node /\ s[i] \in Elems(s)
      /\ b \in DOMAIN s /\ 1 \in DOMAIN s
      /\ Elems(s) \in SUBSET Node /\ Returned \in Int
  BY <1>2, ListFacts
<1>4. /\ ppc = "idle" /\ ppc' = "fill" /\ n' = Fresh(used) /\ used' = used \cup {n'}
      /\ used # Node /\ first = tail
      /\ UNCHANGED <<next, item, head, first, tailcopy, tail, cpc, peek, popped, pushed, peak>>
  BY Zenon DEF AllocNew
<1>5. used = Elems(s) /\ n' \in Node /\ n' \notin used
  BY <1>2, <1>3, <1>4, FreshNode DEF Apart
<1>6. Returned' = Returned
  BY <1>4 DEF Returned
<1>7. SpscTypeOK'
  BY <1>2, <1>3, <1>4, <1>5 DEF SpscTypeOK
<1>8. List(s, a, b)'
  BY <1>2, <1>4, <1>6 DEF List
<1>9. Apart(s)' /\ Steps(s, b)'
  BY <1>2, <1>4, <1>5, Zenon DEF Apart, Steps, Elems
<1>10. Bounds'
  <2>1. b = 1 /\ pushed = Returned + (Len(s) - 1)
    BY <1>2, <1>3, <1>4 DEF List
  <2>2. IsFiniteSet(used) /\ Cardinality(used) <= Len(s)
    BY <1>5, <1>3, SeqCard
  <2>3. Cardinality(used') = Cardinality(used) + 1 /\ Cardinality(used) \in Nat
    BY <2>2, <1>4, <1>5, FS_AddElement, FS_CardinalityType
  <2> QED BY <2>1, <2>2, <2>3, <1>2, <1>3, <1>4, <1>6 DEF Bounds, SpscTypeOK
<1> QED BY <1>7, <1>8, <1>9, <1>10 DEF SpscIInv

\* push fills a node that is outside the list.
LEMMA FillStep ==
  ASSUME NodeAssumption, SpscIInv, Fill
  PROVE  SpscIInv'
<1>1. PICK s \in Seq(Node), a, b \in Nat : SpscIInvAt(s, a, b)
  BY DEF SpscIInv, SpscIInvAt
<1> USE DEF SpscIInvAt
<1>2. SpscTypeOK /\ List(s, a, b) /\ Apart(s) /\ Steps(s, b) /\ Bounds
  BY <1>1 DEF SpscIInv
<1>3. /\ Len(s) \in Nat /\ DOMAIN s = 1 .. Len(s)
      /\ \A i \in DOMAIN s : s[i] \in Node /\ s[i] \in Elems(s)
      /\ Len(s) \in DOMAIN s
  BY <1>2, ListFacts
<1>4. /\ ppc = "fill" /\ ppc' = "link"
      /\ next' = [next EXCEPT ![n] = Null] /\ item' = [item EXCEPT ![n] = pushed + 1]
      /\ UNCHANGED <<head, first, tailcopy, used, n, tail, cpc, peek, popped, pushed, peak>>
  BY DEF Fill
<1>5. n \notin Elems(s) /\ n \in Node
  BY <1>2, <1>4 DEF Apart, SpscTypeOK
<1>6. \A i \in DOMAIN s : next'[s[i]] = next[s[i]] /\ item'[s[i]] = item[s[i]]
  BY <1>2, <1>3, <1>4, <1>5 DEF SpscTypeOK
<1>7. Returned' = Returned
  BY <1>4 DEF Returned
<1>8. SpscTypeOK'
  BY <1>2, <1>4 DEF SpscTypeOK
<1>9. List(s, a, b)'
  <2>1. head = s[Len(s)]
    BY <1>2 DEF List
  <2> QED BY <1>2, <1>3, <1>4, <1>6, <1>7, <2>1 DEF List
<1>10. Apart(s)' /\ Steps(s, b)' /\ Bounds'
  BY <1>2, <1>4, <1>5, <1>7 DEF Apart, Steps, Bounds, Elems, SpscTypeOK
<1> QED BY <1>8, <1>9, <1>10 DEF SpscIInv

\* push links its node behind _head.
LEMMA LinkStep ==
  ASSUME NodeAssumption, SpscIInv, LinkNode
  PROVE  SpscIInv'
<1>1. PICK s \in Seq(Node), a, b \in Nat : SpscIInvAt(s, a, b)
  BY DEF SpscIInv, SpscIInvAt
<1> USE DEF SpscIInvAt
<1>2. SpscTypeOK /\ List(s, a, b) /\ Apart(s) /\ Steps(s, b) /\ Bounds
  BY <1>1 DEF SpscIInv
<1>3. /\ Len(s) \in Nat /\ DOMAIN s = 1 .. Len(s) /\ Len(s) > 0
      /\ \A i \in DOMAIN s : s[i] \in Node /\ s[i] \in Elems(s)
      /\ Len(s) \in DOMAIN s /\ Returned \in Int
  BY <1>2, ListFacts
<1>4. /\ ppc = "link" /\ ppc' = "idle" /\ next' = [next EXCEPT ![head] = n] /\ head' = n
      /\ pushed' = pushed + 1 /\ peak' = Max({peak, pushed + 1 - Returned})
      /\ UNCHANGED <<item, first, tailcopy, used, n, tail, cpc, peek, popped>>
  BY DEF LinkNode
<1>5. n \notin Elems(s) /\ n \in Node /\ used = Elems(s) \cup {n}
  BY <1>2, <1>4 DEF Apart, SpscTypeOK
<1>6. Returned' = Returned /\ Returned \in Nat /\ Returned <= pushed
  BY <1>2, <1>4 DEF Returned, Bounds
<1>7. peak' \in Nat /\ peak' >= peak /\ peak' >= pushed + 1 - Returned
  <2>1. peak \in Nat /\ pushed \in Nat
    BY <1>2, Zenon DEF SpscTypeOK
  <2>2. pushed + 1 - Returned \in Nat
    BY <1>6, <2>1
  <2> QED BY <1>4, <2>1, <2>2, MaxOfTwo, Zenon
<1>8. SpscTypeOK'
  BY <1>2, <1>4, <1>5, <1>7 DEF SpscTypeOK
<1>9. PICK q \in Seq(Node) :
        /\ Len(q) = Len(s) + 1 /\ DOMAIN q = 1 .. (Len(s) + 1)
        /\ q[Len(s) + 1] = n /\ \A i \in 1 .. Len(s) : q[i] = s[i]
  <2>1. /\ Append(s, n) \in Seq(Node) /\ Len(Append(s, n)) = Len(s) + 1
        /\ DOMAIN Append(s, n) = 1 .. (Len(s) + 1)
        /\ Append(s, n)[Len(s) + 1] = n /\ \A i \in 1 .. Len(s) : Append(s, n)[i] = s[i]
    BY <1>3, <1>5, AppendProperties
  <2> QED BY <2>1, Zenon
<1>10. s[Len(s)] = head /\ next'[head] = n /\ next'[n] = Null /\ head # n
  BY <1>2, <1>3, <1>4, <1>5 DEF List, Steps, SpscTypeOK
<1>11. List(q, a, b)'
  <2>1. ASSUME NEW i \in DOMAIN q, i < Len(q)
        PROVE  next'[q[i]] = q[i + 1]
    <3>1. CASE i = Len(s)
      BY <3>1, <1>3, <1>9, <1>10
    <3>2. CASE i < Len(s)
      <4>1. i \in DOMAIN s /\ q[i] = s[i] /\ q[i + 1] = s[i + 1] /\ s[i] # head
        BY <3>2, <2>1, <1>2, <1>3, <1>9, <1>10 DEF List
      <4>2. next[s[i]] = s[i + 1] /\ s[i] \in Node
        BY <3>2, <4>1, <1>2, <1>3 DEF List
      <4> QED BY <4>1, <4>2, <1>2, <1>4 DEF SpscTypeOK
    <3> QED BY <3>1, <3>2, <2>1, <1>3, <1>9
  <2>2. ASSUME NEW i \in DOMAIN q, NEW j \in DOMAIN q, q[i] = q[j]
        PROVE  i = j
    BY <2>2, <1>2, <1>3, <1>5, <1>9 DEF List
  <2>3. ASSUME NEW i \in DOMAIN q, i > b
        PROVE  item'[q[i]] = Returned + (i - b)
    <3>1. CASE i = Len(s) + 1
      BY <3>1, <1>2, <1>3, <1>4, <1>6, <1>9 DEF List, Steps
    <3>2. CASE i \in DOMAIN s
      BY <3>2, <2>3, <1>2, <1>3, <1>4, <1>9 DEF List
    <3> QED BY <3>1, <3>2, <1>3, <1>9
  <2>4. /\ q[1] = first /\ q[a] = tailcopy /\ q[b] = tail /\ q[Len(q)] = n
        /\ 1 <= a /\ a <= b /\ b <= Len(q) /\ pushed + 1 = Returned + (Len(q) - b)
    BY <1>2, <1>3, <1>9 DEF List
  <2>5. /\ head' = n /\ first' = first /\ tail' = tail /\ tailcopy' = tailcopy
        /\ pushed' = pushed + 1
    BY <1>4
  <2>6. \A i \in DOMAIN q : i < Len(q) => next'[q[i]] = q[i + 1]
    BY <2>1
  <2>7. \A i, j \in DOMAIN q : q[i] = q[j] => i = j
    BY <2>2
  <2>8. \A i \in DOMAIN q : i > b => item'[q[i]] = Returned' + (i - b)
    BY <1>6, <2>3
  <2>9. /\ q[1] = first' /\ q[a] = tailcopy' /\ q[b] = tail' /\ q[Len(q)] = head'
        /\ 1 <= a /\ a <= b /\ b <= Len(q) /\ pushed' = Returned' + (Len(q) - b)
        /\ next'[head'] = Null
    BY <1>6, <1>10, <2>4, <2>5, Zenon
  <2> QED BY <2>6, <2>7, <2>8, <2>9, Zenon DEF List
<1>12. Apart(q)'
  <2>1. Elems(q) \subseteq Elems(s) \cup {n}
    <3>1. ASSUME NEW i \in DOMAIN q PROVE q[i] = n \/ (i \in DOMAIN s /\ q[i] = s[i])
      <4>1. i = Len(s) + 1 \/ i \in 1 .. Len(s)
        BY <1>3, <1>9, <3>1
      <4>2. DOMAIN s = 1 .. Len(s)
        BY <1>3
      <4> QED BY <1>9, <4>1, <4>2, Zenon
    <3> QED BY <3>1, Zenon DEF Elems
  <2>2. \A i \in DOMAIN s : i \in DOMAIN q /\ q[i] = s[i]
    BY <1>3, <1>9
  <2>3. Len(s) + 1 \in DOMAIN q
    BY <1>3, <1>9
  <2>4. Elems(s) \cup {n} \subseteq Elems(q)
    BY <2>2, <2>3, <1>9 DEF Elems
  <2>5. Elems(q) = Elems(s) \cup {n}
    BY <2>1, <2>4
  <2> QED BY <2>5, <1>4, <1>5, Zenon DEF Apart, Elems
<1>13. Steps(q, b)'
  <2>1. cpc # "idle" => b < Len(q) /\ peek = q[b + 1]
    BY <1>2, <1>3, <1>9 DEF Steps
  <2> QED BY <2>1, <1>4 DEF Steps
<1>14. Bounds'
  <2>1. Cardinality(used) <= peak + 2 /\ peak \in Nat /\ pushed \in Nat
    BY <1>2 DEF Bounds, SpscTypeOK
  <2>2. IsFiniteSet(used)
    BY <1>2, FS_Subset DEF SpscTypeOK, NodeAssumption
  <2>3. Cardinality(used) \in Nat
    BY <2>2, FS_CardinalityType
  <2>4. Cardinality(used') <= peak' + 2
    BY <2>1, <2>3, <1>4, <1>7
  <2>5. Returned' <= pushed' /\ pushed' - Returned' <= peak'
    BY <2>1, <1>4, <1>6, <1>7
  <2> QED BY <2>4, <2>5, <1>6 DEF Bounds
<1> QED BY <1>8, <1>9, <1>11, <1>12, <1>13, <1>14 DEF SpscIInv

\* The consumer's look, its move of the value and its store of _tail.
LEMMA ConsumerStep ==
  ASSUME NodeAssumption, SpscIInv, Look \/ PopTake \/ Advance
  PROVE  SpscIInv'
<1>1. PICK s \in Seq(Node), a, b \in Nat : SpscIInvAt(s, a, b)
  BY DEF SpscIInv, SpscIInvAt
<1> USE DEF SpscIInvAt
<1>2. SpscTypeOK /\ List(s, a, b) /\ Apart(s) /\ Steps(s, b) /\ Bounds
  BY <1>1 DEF SpscIInv
<1>3. /\ Len(s) \in Nat /\ DOMAIN s = 1 .. Len(s) /\ Len(s) > 0
      /\ \A i \in DOMAIN s : s[i] \in Node /\ s[i] \in Elems(s)
      /\ a \in DOMAIN s /\ b \in DOMAIN s /\ Returned \in Nat
  BY <1>2, ListFacts DEF Bounds
<1>4. UNCHANGED <<next, item, head, first, tailcopy, used, ppc, n, pushed, peak>>
  BY DEF Look, PopTake, Advance
<1>5. Apart(s)'
  BY <1>2, <1>4 DEF Apart, Elems
<1>6. CASE Look
  <2>1. cpc = "idle" /\ cpc' = "take" /\ peek' = next[tail] /\ next[tail] # Null
        /\ UNCHANGED <<tail, popped>>
    BY <1>6 DEF Look
  <2>2. b < Len(s) /\ next[tail] = s[b + 1] /\ s[b + 1] \in Node
    BY <2>1, <1>2, <1>3 DEF List
  <2>3. Returned' = Returned
    BY <2>1 DEF Returned
  <2>4. SpscTypeOK'
    BY <2>1, <2>2, <1>2, <1>4, SMTT(30) DEF SpscTypeOK
  <2>5. List(s, a, b)' /\ Steps(s, b)' /\ Bounds'
    BY <2>1, <2>2, <2>3, <1>2, <1>4 DEF List, Steps, Bounds
  <2> QED BY <1>5, <2>4, <2>5 DEF SpscIInv
<1>7. CASE PopTake
  <2>1. cpc = "take" /\ cpc' = "advance" /\ popped' = item[peek] /\ UNCHANGED <<tail, peek>>
    BY <1>7 DEF PopTake
  <2>2. b < Len(s) /\ peek = s[b + 1] /\ b + 1 \in DOMAIN s /\ b + 1 > b
    BY <2>1, <1>2, <1>3 DEF Steps
  <2>3. item[peek] = Returned + ((b + 1) - b)
    BY <2>2, <1>2, Zenon DEF List
  <2>4. Returned' = Returned /\ popped' \in Nat
    BY <2>1, <2>2, <2>3, <1>3 DEF Returned
  <2>5. SpscTypeOK'
    BY <2>1, <2>4, <1>2, <1>4, SMTT(30) DEF SpscTypeOK
  <2>6. List(s, a, b)' /\ Steps(s, b)' /\ Bounds'
    BY <2>1, <2>2, <2>4, <1>2, <1>4 DEF List, Steps, Bounds
  <2> QED BY <1>5, <2>5, <2>6 DEF SpscIInv
<1>8. CASE Advance
  <2>1. cpc = "advance" /\ cpc' = "idle" /\ tail' = peek /\ UNCHANGED <<peek, popped>>
    BY <1>8 DEF Advance
  <2>2. b < Len(s) /\ peek = s[b + 1] /\ b + 1 \in DOMAIN s
    BY <2>1, <1>2, <1>3 DEF Steps
  <2>3. Returned' = Returned + 1
    BY <2>1, <1>2 DEF Returned, SpscTypeOK
  <2>4. SpscTypeOK'
    BY <2>1, <2>2, <1>2, <1>3, <1>4, SMTT(30) DEF SpscTypeOK
  <2>5. List(s, a, b + 1)'
    <3>1. ASSUME NEW i \in DOMAIN s, i > b + 1
          PROVE  item[s[i]] = (Returned + 1) + (i - (b + 1))
      <4>1. i \in Nat /\ i > b
        BY <3>1, <1>3, SMTT(30)
      <4>2. item[s[i]] = Returned + (i - b)
        BY <4>1, <1>2, SMTT(30) DEF List
      <4> QED BY <4>1, <4>2, <1>3
    <3>2. a <= b + 1 /\ b + 1 <= Len(s) /\ pushed = (Returned + 1) + (Len(s) - (b + 1))
      BY <1>2, <1>3, <2>2 DEF List
    <3> QED BY <3>1, <3>2, <2>1, <2>2, <2>3, <1>2, <1>4 DEF List
  <2>6. Steps(s, b + 1)' /\ Bounds'
    <3>1. pushed >= Returned + 1
      BY <1>2, <1>3, <2>2 DEF List
    <3> QED BY <3>1, <2>1, <2>3, <1>2, <1>3, <1>4, SMTT(30) DEF Steps, Bounds, SpscTypeOK
  <2>7. b + 1 \in Nat
    OBVIOUS
  <2> QED BY <1>5, <2>4, <2>5, <2>6, <2>7 DEF SpscIInv
<1> QED BY <1>6, <1>7, <1>8

\* The list is there in every reachable state.
THEOREM ListKept == ASSUME NodeAssumption PROVE SpscSpec => []SpscIInv
<1>1. SpscInit => SpscIInv
  <2> SUFFICES ASSUME SpscInit PROVE SpscIInv
    OBVIOUS
  <2>1. head \in Node
    BY FreshNode DEF SpscInit, NodeAssumption
  <2>2. SpscTypeOK
    BY <2>1 DEF SpscInit, SpscTypeOK
  <2> DEFINE s == <<head>>
  <2>3. s \in Seq(Node) /\ Len(s) = 1 /\ DOMAIN s = {1} /\ s[1] = head
    BY <2>1
  <2>4. Elems(s) = {head}
    BY <2>3 DEF Elems
  <2> HIDE DEF s
  <2>5. Returned = 0
    BY DEF SpscInit, Returned
  <2>6. List(s, 1, 1) /\ Apart(s) /\ Steps(s, 1)
    BY <2>1, <2>3, <2>4, <2>5 DEF SpscInit, List, Apart, Steps
  <2>7. Cardinality(used) = 1
    BY FS_Singleton, Zenon DEF SpscInit
  <2>8. Bounds
    BY <2>5, <2>7 DEF SpscInit, Bounds
  <2> QED BY <2>2, <2>3, <2>6, <2>8 DEF SpscIInv
<1>2. NodeAssumption /\ SpscIInv /\ [SpscNext]_spscVars => SpscIInv'
  <2> SUFFICES ASSUME NodeAssumption, SpscIInv, [SpscNext]_spscVars PROVE SpscIInv'
    OBVIOUS
  <2>1. CASE UNCHANGED spscVars
    <3>1. PICK s \in Seq(Node), a, b \in Nat : SpscIInvAt(s, a, b)
      BY DEF SpscIInv, SpscIInvAt
    <3>2. Returned' = Returned
      BY <2>1 DEF spscVars, Returned
    <3>3. List(s, a, b)' /\ Apart(s)' /\ Steps(s, b)' /\ Bounds'
      BY <2>1, <3>1, <3>2 DEF spscVars, SpscIInvAt, List, Apart, Steps, Bounds, Elems
    <3>4. SpscTypeOK'
      BY <2>1 DEF spscVars, SpscIInv, SpscTypeOK
    <3> QED BY <3>3, <3>4 DEF SpscIInv
  <2>2. CASE SpscNext
    BY <2>2, ReuseStep, NewStep, FillStep, LinkStep, ConsumerStep DEF SpscNext
  <2> QED BY <2>1, <2>2
<1> QED BY <1>1, <1>2, PTL DEF SpscSpec

\* A node is filled again only when the consumer has left it for good, pop takes
\* the value that is next, and new nodes are made only when no old one is free:
\* at most two more than the most values that the queue ever held.
THEOREM ReuseIsSafe == ASSUME NodeAssumption PROVE SpscSpec => []NodesApart
<1>1. NodeAssumption /\ SpscIInv => NodesApart
  BY InvApart
<1> QED BY <1>1, ListKept, PTL

-----------------------------------------------------------------------------
\* A value that passed test_upgrade still does when it is compared.
Tested == \A t \in Thread : pc[t] = "cas" => test_upgrade(val[t])

IInv == TypeOK /\ Exclusive /\ BitsExact /\ Tested

USE DEF UPGRADE, READER, WRITER, Write

\* Cardinalities of the three sets are naturals below 32768, and a set is
\* empty when its cardinality is 0.
LEMMA Counts ==
  ASSUME NEW S \in SUBSET Thread
  PROVE  /\ IsFiniteSet(S) /\ Cardinality(S) \in Nat /\ Cardinality(S) < 32768
         /\ Cardinality(S) = 0 <=> S = {}
<1>1. IsFiniteSet(S) /\ Cardinality(S) <= Cardinality(Thread)
  BY ThreadAssumption, FS_Subset
<1>2. Cardinality(S) \in Nat /\ (Cardinality(S) = 0 <=> S = {})
  BY <1>1, FS_CardinalityType, FS_EmptySet
<1>3. Cardinality(Thread) \in Nat
  BY ThreadAssumption, FS_CardinalityType
<1> QED
  BY <1>1, <1>2, <1>3, ThreadAssumption

\* A thread that joins a set adds one to its cardinality.
LEMMA CardAdd ==
  ASSUME NEW S \in SUBSET Thread, NEW t \in Thread, t \notin S
  PROVE  Cardinality(S \cup {t}) = Cardinality(S) + 1
BY Counts, FS_AddElement

\* A thread that leaves a set takes one from it.
LEMMA CardRemove ==
  ASSUME NEW S \in SUBSET Thread, NEW t \in S
  PROVE  Cardinality(S \ {t}) = Cardinality(S) - 1
BY Counts, FS_RemoveElement

\* The word splits back into its three counts.
LEMMA Unpack ==
  ASSUME NEW w \in Nat, w < 2, NEW r \in Nat, r < 32768, NEW u \in Nat, NEW b \in Int,
         b = w + 2 * r + 65536 * u
  PROVE  /\ b % 2 = w
         /\ b \div 65536 = u
         /\ w = 0 => (b % 65536) \div 2 = r
         /\ b = 0 => w = 0 /\ r = 0 /\ u = 0
OBVIOUS

-----------------------------------------------------------------------------
RState == {"reader", "undo", "upgrade", "cas", "down"}
UState == {"upgrade", "cas"}
Count(S) == Cardinality({t \in Thread : pc[t] \in S})
In(s, S) == IF s \in S THEN 1 ELSE 0

\* A move of one thread changes a count by its new state minus its old one.
LEMMA CountMove ==
  ASSUME TypeOK, NEW t \in Thread, NEW from, NEW to, Move(t, from, to), NEW S
  PROVE  Count(S)' = Count(S) + In(to, S) - In(from, S)
<1> DEFINE A == {x \in Thread : pc[x] \in S}
           B == {x \in Thread : pc'[x] \in S}
<1>0. /\ pc[t] = from /\ pc'[t] = to
      /\ \A x \in Thread : x # t => pc'[x] = pc[x]
  BY DEF TypeOK, Move
<1>1. A \in SUBSET Thread /\ B \in SUBSET Thread
      /\ Cardinality(A) \in Nat /\ Cardinality(B) \in Nat
  BY Counts
<1>2. CASE from \in S /\ to \in S
  <2>1. A = B  BY <1>0, <1>2
  <2> QED  BY <1>1, <1>2, <2>1 DEF Count, In
<1>3. CASE from \in S /\ to \notin S
  <2>1. t \in A /\ B = A \ {t}  BY <1>0, <1>3
  <2>2. Cardinality(B) = Cardinality(A) - 1  BY <1>1, <2>1, CardRemove
  <2> QED  BY <1>1, <1>3, <2>2 DEF Count, In
<1>4. CASE from \notin S /\ to \in S
  <2>1. t \notin A /\ B = A \cup {t}  BY <1>0, <1>4
  <2>2. Cardinality(B) = Cardinality(A) + 1  BY <1>1, <2>1, CardAdd
  <2> QED  BY <1>1, <1>4, <2>2 DEF Count, In
<1>5. CASE from \notin S /\ to \notin S
  <2>1. A = B  BY <1>0, <1>5
  <2>2. Cardinality(B) = Cardinality(A) + 0 - 0
    <3> HIDE DEF A, B
    <3> QED  BY <1>1, <2>1
  <2> QED  BY <1>5, <2>2 DEF Count, In
<1> QED  BY <1>2, <1>3, <1>4, <1>5

Packed == bits = Count(Write) + 2 * Count(RState) + 65536 * Count(UState)

\* BitsExact in terms of the counts of the lemmas.
LEMMA PackedIsExact == BitsExact <=> Packed
<1>1. /\ Cardinality(Writers) = Count(Write) /\ Cardinality(Readers) = Count(RState)
      /\ Cardinality(Upgraders) = Count(UState)
  BY DEF Count, Writers, Readers, Upgraders, RState, UState
<1>2. Count(Write) \in Nat
  BY Counts DEF Count
<1> QED  BY <1>1, <1>2 DEF BitsExact, Packed

\* An exact word is not negative.
LEMMA PackedNat == Packed' => bits' \in Nat
<1> SUFFICES ASSUME Packed' PROVE bits' \in Nat
  OBVIOUS
<1>1. Count(Write)' \in Nat /\ Count(RState)' \in Nat /\ Count(UState)' \in Nat
  BY Counts DEF Count
<1> DEFINE w == Count(Write)'   r == Count(RState)'   u == Count(UState)'
<1>2. bits' = w + 2 * r + 65536 * u
  BY DEF Packed
<1> HIDE DEF w, r, u
<1> QED  BY <1>1, <1>2 DEF w, r, u

\* The word after a move that adds d to it is exact when d is what the move
\* adds to the three counts.
LEMMA PackedMove ==
  ASSUME TypeOK, Packed, NEW t \in Thread, NEW from, NEW to, Move(t, from, to),
         bits' = bits + (In(to, Write) - In(from, Write))
                      + 2 * (In(to, RState) - In(from, RState))
                      + 65536 * (In(to, UState) - In(from, UState))
  PROVE  Packed'
<1>1. /\ Count(Write)' = Count(Write) + In(to, Write) - In(from, Write)
      /\ Count(RState)' = Count(RState) + In(to, RState) - In(from, RState)
      /\ Count(UState)' = Count(UState) + In(to, UState) - In(from, UState)
  BY CountMove
<1>2. Count(Write) \in Nat /\ Count(RState) \in Nat /\ Count(UState) \in Nat
  BY Counts DEF Count
<1>3. \A s, S : In(s, S) \in Int
  BY DEF In
<1> DEFINE w == Count(Write)   r == Count(RState)   u == Count(UState)
           w1 == In(to, Write)  w0 == In(from, Write)
           r1 == In(to, RState) r0 == In(from, RState)
           u1 == In(to, UState) u0 == In(from, UState)
<1>4. /\ w \in Nat /\ r \in Nat /\ u \in Nat
      /\ w1 \in Int /\ w0 \in Int /\ r1 \in Int /\ r0 \in Int /\ u1 \in Int /\ u0 \in Int
  BY <1>2, <1>3
<1>5. /\ Count(Write)' = w + w1 - w0 /\ Count(RState)' = r + r1 - r0
      /\ Count(UState)' = u + u1 - u0
      /\ bits = w + 2 * r + 65536 * u
      /\ bits' = bits + (w1 - w0) + 2 * (r1 - r0) + 65536 * (u1 - u0)
  BY <1>1 DEF Packed
<1>6. SUFFICES bits' = Count(Write)' + 2 * Count(RState)' + 65536 * Count(UState)'
  BY DEF Packed
<1> HIDE DEF w, r, u, w1, w0, r1, r0, u1, u0
<1> QED  BY <1>4, <1>5

\* What a thread may conclude from the word.
LEMMA Decode ==
  ASSUME TypeOK, Exclusive, Packed
  PROVE  /\ bits % 2 = 0 => \A u \in Thread : pc[u] \notin Write
         /\ bits % 2 = 1 <=> \E u \in Thread : pc[u] \in Write
         /\ bits = 0 => \A u \in Thread : pc[u] \notin Write \cup RState
         /\ test_upgrade(bits) => \A u \in Thread : pc[u] \in RState => pc[u] \in UState
         /\ bits = 2 => \A t, u \in Thread : pc[t] \in RState /\ pc[u] \in RState => t = u
         /\ test_lock_shared_low(bits) => \A u \in Thread : pc[u] \notin UState
<1> DEFINE W == {t \in Thread : pc[t] \in Write}
           R == {t \in Thread : pc[t] \in RState}
           U == {t \in Thread : pc[t] \in UState}
           w == Count(Write)  r == Count(RState)  u == Count(UState)
<1>1. /\ w = Cardinality(W) /\ r = Cardinality(R) /\ u = Cardinality(U)
  BY DEF Count
<1>2. /\ IsFiniteSet(R) /\ w \in Nat /\ r \in Nat /\ r < 32768 /\ u \in Nat
      /\ w = 0 <=> W = {}
      /\ r = 0 <=> R = {}
      /\ u = 0 <=> U = {}
  BY <1>1, Counts
<1>3. w < 2
  <2>1. CASE W = {}  BY <2>1, <1>2
  <2>2. CASE W # {}
    <3>1. PICK x \in Thread : pc[x] \in Write  BY <2>2
    <3>2. W = {x}  BY <3>1 DEF Exclusive
    <3> QED  BY <3>2, <1>1, FS_Singleton
  <2> QED  BY <2>1, <2>2
<1>4. bits \in Int /\ bits = w + 2 * r + 65536 * u
  BY DEF TypeOK, Packed
<1>5. /\ bits % 2 = w /\ bits \div 65536 = u
      /\ w = 0 => (bits % 65536) \div 2 = r
      /\ bits = 0 => w = 0 /\ r = 0 /\ u = 0
  <2> HIDE DEF w, r, u
  <2> QED  BY <1>2, <1>3, <1>4, Unpack
<1>6. bits % 2 = 0 => \A x \in Thread : pc[x] \notin Write
  BY <1>2, <1>5
<1>7. bits % 2 = 1 <=> \E x \in Thread : pc[x] \in Write
  <2>1. w = 0 \/ w = 1
    <3> HIDE DEF w
    <3> QED  BY <1>2, <1>3
  <2> QED  BY <2>1, <1>2, <1>5
<1>8. bits = 0 => \A x \in Thread : pc[x] \notin Write \cup RState
  BY <1>2, <1>5
<1>9. test_upgrade(bits) => \A x \in Thread : pc[x] \in RState => pc[x] \in UState
  <2>1. HAVE test_upgrade(bits)
  <2>2. u = r
    BY <2>1, <1>5 DEF test_upgrade
  <2>3. U \subseteq R  BY DEF UState, RState
  <2>4. Cardinality(R) = Cardinality(U)
    BY <1>1, <2>2
  <2>5. U = R
    <3> HIDE DEF U, R
    <3> QED  BY <1>2, <2>3, <2>4, FS_Subset
  <2> QED  BY <2>5
<1>10. bits = 2 => \A x, y \in Thread : pc[x] \in RState /\ pc[y] \in RState => x = y
  <2>1. SUFFICES ASSUME bits = 2, NEW x \in Thread, NEW y \in Thread,
                        pc[x] \in RState, pc[y] \in RState
                 PROVE  x = y
    OBVIOUS
  <2>2. r = 1
    <3>1. r # 0  BY <2>1, <1>2
    <3> HIDE DEF w, r, u
    <3> QED  BY <3>1, <2>1, <1>2, <1>4
  <2>3. Cardinality(R) = 1 /\ IsFiniteSet(R)
    BY <2>2, <1>1, <1>2
  <2>4. \E z : R = {z}
    <3> HIDE DEF R
    <3> QED  BY <2>3, FS_Singleton, Zenon
  <2>5. PICK z : R = {z}
    BY <2>4
  <2> QED  BY <2>1, <2>5
<1>11. test_lock_shared_low(bits) => \A x \in Thread : pc[x] \notin UState
  <2>1. HAVE test_lock_shared_low(bits)
  <2>2. bits < 65536
    BY <2>1 DEF test_lock_shared_low, UPGRADE
  <2>3. u = 0
    <3> HIDE DEF w, r, u
    <3> QED  BY <2>2, <1>2, <1>4
  <2> QED  BY <2>3, <1>2
<1> QED  BY <1>6, <1>7, <1>8, <1>9, <1>10, <1>11

-----------------------------------------------------------------------------
PCs == {"idle", "lock", "shared", "low", "undo", "reader", "upgrade", "cas",
        "writer", "down"}

\* Exclusive after a move into a state that is neither reading nor writing,
\* or that is no more than the old state was.
LEMMA ExclusiveMove ==
  ASSUME TypeOK, Exclusive, NEW t \in Thread, NEW from, NEW to, Move(t, from, to),
         \/ to \notin Write \cup {"reader"}
         \/ from \in Write
         \/ to = "reader" /\ \A u \in Thread : pc[u] \notin Write
         \/ \A u \in Thread : u # t => pc[u] \notin Write \cup {"reader"}
  PROVE  Exclusive'
<1>1. /\ pc[t] = from /\ pc'[t] = to
      /\ \A x \in Thread : x # t => pc'[x] = pc[x]
  BY DEF TypeOK, Move
<1>2. SUFFICES ASSUME NEW x \in Thread, NEW y \in Thread, x # y, pc'[x] \in Write
               PROVE  pc'[y] \notin Write \cup {"reader"}
  BY DEF Exclusive
<1>3. CASE x # t /\ y # t  BY <1>1, <1>2, <1>3 DEF Exclusive
<1>4. CASE x = t  BY <1>1, <1>2, <1>4 DEF Exclusive
<1>5. CASE y = t  BY <1>1, <1>2, <1>5 DEF Exclusive
<1> QED  BY <1>3, <1>4, <1>5

\* What a move of one thread that adds d to the word does to the invariant.
LEMMA Effect ==
  ASSUME IInv, NEW t \in Thread, NEW from \in PCs, NEW to \in PCs, Move(t, from, to),
         val' = val, to # "cas",
         NEW d \in Int, bits' = bits + d,
         d = (In(to, Write) - In(from, Write))
               + 2 * (In(to, RState) - In(from, RState))
               + 65536 * (In(to, UState) - In(from, UState)),
         \/ to \notin Write \cup {"reader"}
         \/ from \in Write
         \/ to = "reader" /\ \A u \in Thread : pc[u] \notin Write
         \/ \A u \in Thread : u # t => pc[u] \notin Write \cup {"reader"}
  PROVE  IInv'
<1>1. TypeOK /\ Exclusive /\ Packed
  BY PackedIsExact DEF IInv
<1>2. Tested'
  BY DEF IInv, TypeOK, Move, Tested
<1>3. Exclusive'
  BY <1>1, ExclusiveMove
<1>4. Packed'
  <2>1. \A s, S : In(s, S) \in Int
    BY DEF In
  <2>2. bits' = bits + (In(to, Write) - In(from, Write))
                     + 2 * (In(to, RState) - In(from, RState))
                     + 65536 * (In(to, UState) - In(from, UState))
    BY <1>1, <2>1 DEF TypeOK
  <2> QED  BY <1>1, <2>2, PackedMove
<1>5. BitsExact' <=> Packed'
  BY PackedIsExact, PTL
<1>6. bits' \in Nat
  BY <1>4, PackedNat
<1>7. TypeOK'
  BY <1>1, <1>6 DEF TypeOK, Move, PCs
<1> QED  BY <1>2, <1>3, <1>4, <1>5, <1>7 DEF IInv

-----------------------------------------------------------------------------
\* Every access to the word keeps the invariant: one step per action.
LEMMA StepInv == IInv /\ [LockNext]_lockVars => IInv'
<1> SUFFICES ASSUME IInv, [LockNext]_lockVars PROVE IInv'
  OBVIOUS
<1>0. TypeOK /\ Exclusive /\ Packed
  BY PackedIsExact DEF IInv
<1> USE DEF In, RState, UState, PCs
<1>1. ASSUME NEW t \in Thread, TestLock(t) PROVE IInv'
  <2>1. Move(t, "idle", "lock") /\ bits' = bits + 0 /\ val' = val
    BY <1>0, <1>1 DEF TestLock, TypeOK
  <2> QED  BY <2>1, Effect
<1>2. ASSUME NEW t \in Thread, TestShared(t) PROVE IInv'
  <2>1. Move(t, "idle", "shared") /\ bits' = bits + 0 /\ val' = val
    BY <1>0, <1>2 DEF TestShared, TypeOK
  <2> QED  BY <2>1, Effect
<1>3. ASSUME NEW t \in Thread, TestLow(t) PROVE IInv'
  <2>1. Move(t, "idle", "low") /\ bits' = bits + 0 /\ val' = val
    BY <1>0, <1>3 DEF TestLow, TypeOK
  <2> QED  BY <2>1, Effect
<1>4. ASSUME NEW t \in Thread, TestUpgrade(t) PROVE IInv'
  <2>1. /\ Move(t, "upgrade", "cas") /\ bits' = bits + 0
        /\ val' = [val EXCEPT ![t] = bits] /\ test_upgrade(bits)
    BY <1>0, <1>4 DEF TestUpgrade, TypeOK
  <2>2. TypeOK' /\ Tested'
    BY <1>0, <2>1 DEF IInv, TypeOK, Tested, Move
  <2>3. Exclusive'
    BY <1>0, <2>1, ExclusiveMove
  <2>4. Packed'
    BY <1>0, <2>1, PackedMove
  <2>5. BitsExact' <=> Packed'
    BY PackedIsExact, PTL
  <2> QED  BY <2>2, <2>3, <2>4, <2>5 DEF IInv
<1>5. ASSUME NEW t \in Thread, CasFail(t) PROVE IInv'
  <2>1. bits' = bits + 0 /\ val' = val
    BY <1>0, <1>5 DEF CasFail, TypeOK
  <2>2. CASE Move(t, "lock", "idle")  BY <2>1, <2>2, Effect
  <2>3. CASE Move(t, "cas", "upgrade")  BY <2>1, <2>3, Effect
  <2> QED  BY <1>5, <2>2, <2>3 DEF CasFail
<1>6. ASSUME NEW t \in Thread, LockCas(t) PROVE IInv'
  <2>1. Move(t, "lock", "writer") /\ bits' = bits + 1 /\ val' = val
    BY <1>0, <1>6 DEF LockCas, TypeOK
  <2>2. \A u \in Thread : u # t => pc[u] \notin Write \cup {"reader"}
    BY <1>0, <1>6, Decode DEF LockCas
  <2> QED  BY <2>1, <2>2, Effect
<1>7. ASSUME NEW t \in Thread, SharedAdd(t) PROVE IInv'
  <2>1. bits' = bits + 2 /\ val' = val
    BY <1>0, <1>7 DEF SharedAdd, TypeOK
  <2>2. CASE test_lock_shared(bits)
    <3>1. Move(t, "shared", "reader")  BY <1>7, <2>2 DEF SharedAdd
    <3>2. \A u \in Thread : pc[u] \notin Write
      BY <1>0, <2>2, Decode DEF test_lock_shared
    <3> QED  BY <2>1, <3>1, <3>2, Effect
  <2>3. CASE ~test_lock_shared(bits)
    <3>1. Move(t, "shared", "undo")  BY <1>7, <2>3 DEF SharedAdd
    <3> QED  BY <2>1, <3>1, Effect
  <2> QED  BY <2>2, <2>3
<1>8. ASSUME NEW t \in Thread, LowAdd(t) PROVE IInv'
  <2>1. bits' = bits + 2 /\ val' = val
    BY <1>0, <1>8 DEF LowAdd, TypeOK
  <2>2. CASE test_lock_shared_low(bits)
    <3>1. Move(t, "low", "reader")  BY <1>8, <2>2 DEF LowAdd
    <3>2. \A u \in Thread : pc[u] \notin Write
      BY <1>0, <2>2, Decode DEF test_lock_shared_low
    <3> QED  BY <2>1, <3>1, <3>2, Effect
  <2>3. CASE ~test_lock_shared_low(bits)
    <3>1. Move(t, "low", "undo")  BY <1>8, <2>3 DEF LowAdd
    <3> QED  BY <2>1, <3>1, Effect
  <2> QED  BY <2>2, <2>3
<1>9. ASSUME NEW t \in Thread, UndoAdd(t) PROVE IInv'
  <2>1. Move(t, "undo", "idle") /\ bits' = bits + (-2) /\ val' = val
    BY <1>0, <1>9 DEF UndoAdd, TypeOK
  <2> QED  BY <2>1, Effect
<1>10. ASSUME NEW t \in Thread, Announce(t) PROVE IInv'
  <2>1. Move(t, "reader", "upgrade") /\ bits' = bits + 65536 /\ val' = val
    BY <1>0, <1>10 DEF Announce, TypeOK
  <2> QED  BY <2>1, Effect
<1>11. ASSUME NEW t \in Thread, UpgradeCas(t) PROVE IInv'
  <2>1. Move(t, "cas", "writer") /\ bits' = bits + (-65537) /\ val' = val
    BY <1>0, <1>11 DEF UpgradeCas, TypeOK
  <2>2. bits = val[t] /\ test_upgrade(val[t])
    BY <1>11 DEF UpgradeCas, Move, IInv, Tested
  <2>3. bits % 2 = 0 /\ test_upgrade(bits)
    BY <2>2 DEF test_upgrade
  <2>4. \A u \in Thread : pc[u] \notin Write /\ (pc[u] \in RState => pc[u] \in UState)
    BY <1>0, <2>3, Decode
  <2>5. \A u \in Thread : pc[u] \notin Write \cup {"reader"}
    BY <2>4
  <2> QED  BY <2>1, <2>5, Effect
<1>12. ASSUME NEW t \in Thread, TryUpgrade(t) PROVE IInv'
  <2>1. Move(t, "reader", "writer") /\ bits' = bits + (-1) /\ val' = val
    BY <1>0, <1>12 DEF TryUpgrade, TypeOK
  <2>2. \A u \in Thread : u # t => pc[u] \notin Write \cup {"reader"}
    BY <1>0, <1>12, Decode DEF TryUpgrade, Move
  <2> QED  BY <2>1, <2>2, Effect
<1>13. ASSUME NEW t \in Thread, Unlock(t) PROVE IInv'
  <2>1. Move(t, "writer", "idle") /\ val' = val
    BY <1>0, <1>13 DEF Unlock, TypeOK
  <2>2. bits % 2 = 1
    BY <1>0, <2>1, Decode DEF Move
  <2>3. bits' = bits + (-1)
    BY <1>0, <1>13, <2>2 DEF Unlock, xor_writer, TypeOK
  <2> QED  BY <2>1, <2>3, Effect
<1>14. ASSUME NEW t \in Thread, DowngradeXor(t) PROVE IInv'
  <2>1. Move(t, "down", "reader") /\ val' = val
    BY <1>0, <1>14 DEF DowngradeXor, TypeOK
  <2>2. bits % 2 = 1
    BY <1>0, <2>1, Decode DEF Move
  <2>3. bits' = bits + (-1)
    BY <1>0, <1>14, <2>2 DEF DowngradeXor, xor_writer, TypeOK
  <2> QED  BY <2>1, <2>3, Effect
<1>15. ASSUME NEW t \in Thread, UnlockShared(t) PROVE IInv'
  <2>1. Move(t, "reader", "idle") /\ bits' = bits + (-2) /\ val' = val
    BY <1>0, <1>15 DEF UnlockShared, TypeOK
  <2> QED  BY <2>1, Effect
<1>16. ASSUME NEW t \in Thread, DowngradeAdd(t) PROVE IInv'
  <2>1. Move(t, "writer", "down") /\ bits' = bits + 2 /\ val' = val
    BY <1>0, <1>16 DEF DowngradeAdd, TypeOK
  <2> QED  BY <2>1, Effect
<1>17. CASE UNCHANGED lockVars
  BY <1>17 DEF lockVars, IInv, TypeOK, Exclusive, BitsExact, Tested, Writers, Readers, Upgraders
<1> QED
  BY SMTT(30), <1>1, <1>2, <1>3, <1>4, <1>5, <1>6, <1>7, <1>8, <1>9, <1>10, <1>11, <1>12, <1>13, <1>14,
     <1>15, <1>16, <1>17 DEF LockNext, Step

\* An unlocked word with no thread at it satisfies the invariant.
LEMMA InitInv == LockInit => IInv
<1> SUFFICES ASSUME LockInit PROVE IInv
  OBVIOUS
<1>1. Writers = {} /\ Readers = {} /\ Upgraders = {}
  BY DEF LockInit, Writers, Readers, Upgraders
<1>2. BitsExact
  BY <1>1, FS_EmptySet DEF BitsExact, LockInit
<1> QED  BY <1>2 DEF LockInit, IInv, TypeOK, Exclusive, Tested

\* The invariant of the lock word holds in every reachable state.
THEOREM LockInvariance == LockSpec => []IInv
BY InitInv, StepInv, PTL DEF LockSpec

\* A thread that holds RWSpinLock for writing is alone: no writer and no reader
\* beside it, for any number of threads below 32768 and any mix of lock,
\* lock_shared, lock_shared_low, upgrade, try_upgrade and downgrade.
THEOREM MutualExclusion == LockSpec => []Exclusive
BY LockInvariance, PTL DEF IInv

\* The word always counts its holders, attempts and upgrades exactly.
THEOREM ExactWord == LockSpec => []BitsExact
BY LockInvariance, PTL DEF IInv

\* lock never succeeds while a thread is inside upgrade.
THEOREM UpgradeShutsOutLock == LockSpec => NoLockDuringUpgrade
<1>1. IInv /\ [LockNext]_lockVars =>
        [\A t \in Thread : pc[t] = "lock" /\ pc'[t] = "writer" => Upgraders = {}]_lockVars
  <2> SUFFICES ASSUME IInv, LockNext, NEW t \in Thread, pc[t] = "lock", pc'[t] = "writer"
               PROVE  Upgraders = {}
    OBVIOUS
  <2>0. TypeOK /\ Exclusive /\ Packed
    BY PackedIsExact DEF IInv
  <2>1. LockCas(t)
    BY <2>0, SMTT(30) DEF LockNext, Step, TypeOK, Move, TestLock, LockCas, TestShared, SharedAdd,
       TestLow, LowAdd, UndoAdd, Announce, TestUpgrade, UpgradeCas, CasFail, TryUpgrade,
       Unlock, UnlockShared, DowngradeAdd, DowngradeXor
  <2>2. bits = 0
    BY <2>1 DEF LockCas
  <2> QED  BY <2>0, <2>2, Decode DEF Upgraders, RState
<1> QED  BY <1>1, LockInvariance, PTL DEF LockSpec, NoLockDuringUpgrade

\* lock_shared_low never succeeds while a thread is inside upgrade.
THEOREM LowGivesWay == LockSpec => LowYieldsToUpgrade
<1>1. IInv /\ [LockNext]_lockVars =>
        [\A t \in Thread : pc[t] = "low" /\ pc'[t] = "reader" => Upgraders = {}]_lockVars
  <2> SUFFICES ASSUME IInv, LockNext, NEW t \in Thread, pc[t] = "low", pc'[t] = "reader"
               PROVE  Upgraders = {}
    OBVIOUS
  <2>0. TypeOK /\ Exclusive /\ Packed
    BY PackedIsExact, SMTT(30) DEF IInv
  <2>1. LowAdd(t)
    BY <2>0 DEF LockNext, Step, TypeOK, Move, TestLock, LockCas, TestShared, SharedAdd,
       TestLow, LowAdd, UndoAdd, Announce, TestUpgrade, UpgradeCas, CasFail, TryUpgrade,
       Unlock, UnlockShared, DowngradeAdd, DowngradeXor
  <2>2. test_lock_shared_low(bits)
    BY <2>0, <2>1 DEF LowAdd, Move, TypeOK
  <2> QED  BY <2>0, <2>2, Decode DEF Upgraders, UState
<1> QED  BY <1>1, LockInvariance, PTL DEF LockSpec, LowYieldsToUpgrade

\* Neither lock nor lock_shared_low passes a thread that is inside upgrade.
THEOREM UpgradeComesFirst == LockSpec => UpgradeFirst
BY UpgradeShutsOutLock, LowGivesWay, PTL DEF UpgradeFirst

-----------------------------------------------------------------------------
Notified == {t \in Thread : semPc[t] = "notified"}

\* The threads that timed a wait are in acquire_for.
SemTypeOK ==
  /\ count \in Nat /\ timed \subseteq Thread
  /\ semPc \in [Thread -> {"idle", "asleep", "notified"}]
SemIInv == SemTypeOK /\ PermitsReachSleepers

\* Counts of notified threads, before and after one of them goes.
LEMMA NotifiedFinite ==
  ASSUME NEW S \in SUBSET Thread
  PROVE  IsFiniteSet(S) /\ Cardinality(S) \in Nat
BY ThreadAssumption, FS_Subset, FS_CardinalityType

\* A thread takes a permit, and no other thread is woken or falls asleep.
LEMMA TakeStep ==
  ASSUME SemIInv, NEW t \in Thread, Take(t), semPc' \in [Thread -> {"idle", "asleep", "notified"}],
         semPc'[t] = "idle", \A u \in Thread : u # t => semPc'[u] = semPc[u]
  PROVE  count' \in Nat /\ PermitsReachSleepers'
<1>1. count \in Nat /\ count > 0 /\ count' = count - 1
  BY DEF SemIInv, SemTypeOK, Take
<1>2. SUFFICES ASSUME Sleepers' # {} PROVE count' <= Cardinality(Notified')
  BY <1>1 DEF PermitsReachSleepers, Notified
<1>3. Sleepers # {}
  BY <1>2 DEF Sleepers
<1>4. count <= Cardinality(Notified)
  BY <1>3 DEF SemIInv, PermitsReachSleepers, Notified
<1>5. Notified' = Notified \ {t}
  BY DEF Notified
<1>6. IsFiniteSet(Notified) /\ Cardinality(Notified) \in Nat
  BY NotifiedFinite DEF Notified
<1>7. Cardinality(Notified \ {t}) \in {Cardinality(Notified), Cardinality(Notified) - 1}
  BY <1>6, FS_RemoveElement
<1> QED BY <1>1, <1>4, <1>5, <1>6, <1>7

\* release wakes as many threads as it gives permits, or all that sleep.
LEMMA ReleaseStep ==
  ASSUME SemIInv, NEW num \in 1..MaxRelease, release(num)
  PROVE  SemIInv'
<1>1. count \in Nat /\ num \in Nat /\ count' = count + num /\ UNCHANGED timed
  BY PermitsAssumption DEF SemIInv, SemTypeOK, release
<1>2. PICK S \in SUBSET Sleepers :
        /\ Cardinality(S) = IF Cardinality(Sleepers) < num THEN Cardinality(Sleepers) ELSE num
        /\ semPc' = [t \in Thread |-> IF t \in S THEN "notified" ELSE semPc[t]]
  BY DEF release, Notify
<1>3. SemTypeOK'
  BY <1>1, <1>2 DEF SemIInv, SemTypeOK
<1>4. ASSUME Sleepers' # {} PROVE count' <= Cardinality(Notified')
  <2>1. Sleepers' = Sleepers \ S /\ Notified' = Notified \cup S /\ Notified \cap S = {}
    BY <1>2 DEF Sleepers, Notified
  <2>2. S \subseteq Thread /\ Sleepers \subseteq Thread /\ Notified \subseteq Thread
    BY DEF Sleepers, Notified
  <2>3. /\ IsFiniteSet(S) /\ Cardinality(S) \in Nat
        /\ IsFiniteSet(Sleepers) /\ Cardinality(Sleepers) \in Nat
        /\ IsFiniteSet(Notified) /\ Cardinality(Notified) \in Nat
    BY <2>2, NotifiedFinite
  <2>4. Cardinality(S) < Cardinality(Sleepers)
    <3>1. S # Sleepers
      BY <1>4, <2>1
    <3>2. Cardinality(S) <= Cardinality(Sleepers)
             /\ (Cardinality(S) = Cardinality(Sleepers) => S = Sleepers)
      BY <2>3, FS_Subset
    <3> QED BY <2>3, <3>1, <3>2
  <2>5. Cardinality(S) = num
    BY <1>1, <1>2, <2>3, <2>4
  <2>6. Cardinality(Notified') = Cardinality(Notified) + num
    <3>1. Cardinality(Notified \cup S)
            = Cardinality(Notified) + Cardinality(S) - Cardinality(Notified \cap S)
      BY <2>3, FS_Union
    <3>2. Cardinality(Notified \cap S) = 0
      BY <2>1, FS_EmptySet
    <3> QED BY <2>1, <2>3, <2>5, <3>1, <3>2
  <2>7. count <= Cardinality(Notified)
    BY <1>4, <2>1 DEF SemIInv, PermitsReachSleepers, Notified
  <2> QED BY <1>1, <2>3, <2>6, <2>7
<1> QED BY <1>3, <1>4 DEF SemIInv, PermitsReachSleepers, Notified

\* A step of one thread in acquire, acquire_for or try_acquire.
LEMMA SemThreadStep ==
  ASSUME SemIInv, NEW t \in Thread, acquire(t) \/ Wait(t) \/ Timeout(t) \/ try_acquire(t)
  PROVE  SemIInv'
<1>1. SemTypeOK /\ PermitsReachSleepers
  BY DEF SemIInv
<1>2. /\ timed' \subseteq Thread /\ semPc' \in [Thread -> {"idle", "asleep", "notified"}]
      /\ \A u \in Thread : u # t => semPc'[u] = semPc[u]
  BY <1>1 DEF SemTypeOK, acquire, Wait, Timeout, try_acquire
<1>3. CASE Take(t) /\ semPc'[t] = "idle"
  BY <1>2, <1>3, TakeStep DEF SemIInv, SemTypeOK
<1>4. CASE count = 0 /\ UNCHANGED count
  <2>1. Notified' \subseteq Thread /\ Cardinality(Notified') \in Nat
    BY NotifiedFinite DEF Notified
  <2> QED BY <1>2, <1>4, <2>1 DEF SemIInv, SemTypeOK, PermitsReachSleepers, Notified
<1> QED BY <1>1, <1>3, <1>4 DEF SemTypeOK, acquire, Wait, Timeout, try_acquire

\* Semaphore: no permit is lost, for any number of threads below 32768 and of
\* permits.  A thread sleeps beside a permit only if a thread that a notify chose
\* comes for it, also when acquire_for times out and when others take permits.
THEOREM NoPermitLost == SemSpec => []PermitsReachSleepers
<1>1. SemInit => SemIInv
  <2> SUFFICES ASSUME SemInit PROVE SemIInv
    OBVIOUS
  <2>1. Sleepers = {}
    BY DEF SemInit, Sleepers
  <2> QED BY <2>1 DEF SemInit, SemIInv, SemTypeOK, PermitsReachSleepers
<1>2. SemIInv /\ [SemNext]_semVars => SemIInv'
  <2> SUFFICES ASSUME SemIInv, [SemNext]_semVars PROVE SemIInv'
    OBVIOUS
  <2>1. CASE UNCHANGED semVars
    BY <2>1 DEF semVars, SemIInv, SemTypeOK, PermitsReachSleepers, Sleepers
  <2>2. CASE SemNext
    BY <2>2, SemThreadStep, ReleaseStep DEF SemNext
  <2> QED BY <2>1, <2>2
<1>3. SemIInv => PermitsReachSleepers
  BY DEF SemIInv
<1> QED BY <1>1, <1>2, <1>3, PTL DEF SemSpec
=============================================================================
