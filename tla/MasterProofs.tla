---------------------------- MODULE MasterProofs ----------------------------
(***************************************************************************)
(* Proofs about the master's tree, for any clients, names, values and      *)
(* depth of paths: it stays a tree of which every ephemeral node is a leaf *)
(* of a connected client, and every change is announced to every watcher.  *)
(***************************************************************************)
EXTENDS Master, SequenceTheorems, TLAPS

\* A node, its parent, and what an ephemeral node is not: a parent.
TreeShape ==
  /\ DOMAIN node \subseteq Seq(Name) /\ Root \in DOMAIN node
  /\ \A p \in DOMAIN node :
       node[p] \in [owner : Client \cup {NoOwner}, value : Value, sub : SUBSET Name]
  /\ \A p \in DOMAIN node : p # Root => Parent(p) \in DOMAIN node
  /\ \A p \in DOMAIN node : node[p].sub = {k \in Name : Append(p, k) \in DOMAIN node}
  /\ node[Root].owner = NoOwner
  /\ \A p \in DOMAIN node : node[p].owner # NoOwner => node[p].sub = {}

\* Names are generated only below nodes that no client owns.
Counters ==
  /\ DOMAIN genId \subseteq DOMAIN node
  /\ \A p \in DOMAIN genId : genId[p] \in Nat /\ node[p].owner = NoOwner

Links ==
  /\ conn \subseteq Client /\ watchers \subseteq Client
  /\ \A c \in Client : sent[c] \subseteq Seq(Name)
  /\ exiting \in BOOLEAN /\ up \in BOOLEAN

IInv == TreeShape /\ Counters /\ Links /\ OwnerConnected

-----------------------------------------------------------------------------
\* A path is its parent and its last name, and nothing else is.
LEMMA PathOfChild ==
  ASSUME NEW s \in Seq(Name), NEW k \in Name
  PROVE  /\ Append(s, k) \in Seq(Name) /\ Append(s, k) # Root
         /\ Parent(Append(s, k)) = s /\ Leaf(Append(s, k)) = k
<1>1. /\ Append(s, k) \in Seq(Name) /\ Append(s, k) # <<>>
      /\ Len(Append(s, k)) = Len(s) + 1 /\ Append(s, k)[Len(s) + 1] = k
      /\ \A i \in 1 .. Len(s) : Append(s, k)[i] = s[i]
      /\ Len(s) \in Nat
  BY AppendProperties, LenProperties
<1>2. SubSeq(Append(s, k), 1, Len(s)) = s
  <2>1. \A i \in 1 .. Len(s) : Append(s, k)[i] \in Name
    BY <1>1, ElementOfSeq
  <2>2. /\ SubSeq(Append(s, k), 1, Len(s)) \in Seq(Name)
        /\ Len(SubSeq(Append(s, k), 1, Len(s))) = Len(s)
        /\ \A i \in 1 .. Len(s) : SubSeq(Append(s, k), 1, Len(s))[i] = Append(s, k)[i]
    BY <1>1, <2>1, SubSeqProperties
  <2> QED BY <1>1, <2>2, SeqEqual
<1>3. Len(Append(s, k)) - 1 = Len(s)
  BY <1>1
<1> QED BY <1>1, <1>2, <1>3 DEF Parent, Leaf, Root

\* A path is its parent followed by its last name.
LEMMA ChildOfPath ==
  ASSUME NEW p \in Seq(Name), p # Root
  PROVE  Parent(p) \in Seq(Name) /\ Leaf(p) \in Name /\ p = Append(Parent(p), Leaf(p))
<1>1. PICK s \in Seq(Name), k \in Name : p = Append(s, k)
  BY SequenceEmptyOrAppend DEF Root
<1> QED BY <1>1, PathOfChild

\* A new node below a node that no client owns leaves the tree a tree.
LEMMA Grows ==
  ASSUME TreeShape, NEW p \in Seq(Name), p # Root, p \notin DOMAIN node,
         Parent(p) \in DOMAIN node, node[Parent(p)].owner = NoOwner,
         NEW o \in Client \cup {NoOwner}, NEW v \in Value, Insert(p, o, v)
  PROVE  /\ TreeShape' /\ DOMAIN node' = DOMAIN node \cup {p}
         /\ node'[p].owner = o
         /\ \A q \in DOMAIN node : node'[q].owner = node[q].owner /\ node'[q].value = node[q].value
<1>1. Parent(p) \in Seq(Name) /\ Leaf(p) \in Name /\ p = Append(Parent(p), Leaf(p))
  BY ChildOfPath
<1>2. Parent(p) # p
  OBVIOUS
<1>3. /\ DOMAIN node' = DOMAIN node \cup {p}
      /\ node'[p] = [owner |-> o, value |-> v, sub |-> {}]
      /\ node'[Parent(p)] = [node[Parent(p)] EXCEPT !.sub = @ \cup {Leaf(p)}]
      /\ \A q \in DOMAIN node : q # Parent(p) => node'[q] = node[q]
  BY <1>2 DEF Insert
<1>4. \A q \in DOMAIN node : 
        node[q] \in [owner : Client \cup {NoOwner}, value : Value, sub : SUBSET Name]
  BY DEF TreeShape
<1>5. /\ node'[Parent(p)].owner = NoOwner
      /\ node'[Parent(p)].value = node[Parent(p)].value
      /\ node'[Parent(p)].sub = node[Parent(p)].sub \cup {Leaf(p)}
      /\ node'[Parent(p)] \in [owner : Client \cup {NoOwner}, value : Value, sub : SUBSET Name]
  BY <1>1, <1>3, <1>4
<1>6. /\ node'[p].owner = o /\ node'[p].sub = {}
      /\ node'[p] \in [owner : Client \cup {NoOwner}, value : Value, sub : SUBSET Name]
  BY <1>3
<1>7. \A q \in DOMAIN node : node'[q].owner = node[q].owner /\ node'[q].value = node[q].value
  BY <1>3, <1>5
<1>8. ASSUME NEW q \in DOMAIN node'
      PROVE  node'[q].sub = {k \in Name : Append(q, k) \in DOMAIN node'}
  <2>0. q \in Seq(Name)
    BY <1>3 DEF TreeShape
  <2>1. CASE q = p
    <3>1. \A k \in Name : Append(p, k) # p /\ Parent(Append(p, k)) = p /\ Append(p, k) # Root
      BY PathOfChild, AppendProperties, LenProperties
    <3>2. \A k \in Name : Append(p, k) \notin DOMAIN node
      BY <3>1 DEF TreeShape
    <3> QED BY <2>1, <3>1, <3>2, <1>3, <1>6
  <2>2. CASE q = Parent(p)
    <3>1. \A k \in Name : Append(q, k) = p <=> k = Leaf(p)
      BY <2>2, <1>1, PathOfChild
    <3>2. node[q].sub = {k \in Name : Append(q, k) \in DOMAIN node}
      BY <2>2 DEF TreeShape
    <3> QED BY <2>2, <3>1, <3>2, <1>1, <1>3, <1>5
  <2>3. CASE q # p /\ q # Parent(p)
    <3>1. \A k \in Name : Append(q, k) # p
      BY <2>0, <2>3, PathOfChild
    <3>2. q \in DOMAIN node /\ node'[q] = node[q]
      BY <2>3, <1>3
    <3>3. node[q].sub = {k \in Name : Append(q, k) \in DOMAIN node}
      BY <3>2 DEF TreeShape
    <3> QED BY <3>1, <3>2, <3>3, <1>3
  <2> QED BY <2>1, <2>2, <2>3
<1>9. \A q \in DOMAIN node' : node'[q].owner # NoOwner => node'[q].sub = {}
  <2>1. \A q \in DOMAIN node : node'[q].owner # NoOwner => node'[q].sub = {}
    BY <1>3, <1>5 DEF TreeShape
  <2> QED BY <2>1, <1>3, <1>6
<1>10. \A q \in DOMAIN node' : q # Root => Parent(q) \in DOMAIN node'
  BY <1>3 DEF TreeShape
<1>11. \A q \in DOMAIN node' :
         node'[q] \in [owner : Client \cup {NoOwner}, value : Value, sub : SUBSET Name]
  BY <1>3, <1>4, <1>5, <1>6
<1>12. node'[Root].owner = NoOwner /\ Root \in DOMAIN node' /\ DOMAIN node' \subseteq Seq(Name)
  BY <1>3, <1>7 DEF TreeShape
<1> QED BY <1>3, <1>6, <1>7, <1>8, <1>9, <1>10, <1>11, <1>12 DEF TreeShape

\* Removing leaves of the tree leaves it a tree.
LEMMA Shrinks ==
  ASSUME TreeShape, NEW P \in SUBSET DOMAIN node, Root \notin P,
         \A p \in P : node[p].sub = {}, Remove(P)
  PROVE  /\ TreeShape' /\ DOMAIN node' = DOMAIN node \ P
         /\ \A q \in DOMAIN node' : node'[q].owner = node[q].owner /\ node'[q].value = node[q].value
<1> DEFINE Gone(q) == {Leaf(p) : p \in {r \in P : Parent(r) = q}}
<1>1. /\ DOMAIN node' = DOMAIN node \ P
      /\ \A q \in DOMAIN node \ P : node'[q] = [node[q] EXCEPT !.sub = @ \ Gone(q)]
  BY DEF Remove
<1>2. \A q \in DOMAIN node : 
        node[q] \in [owner : Client \cup {NoOwner}, value : Value, sub : SUBSET Name]
  BY DEF TreeShape
<1> HIDE DEF Gone
<1>3. \A q \in DOMAIN node' :
        /\ node'[q].owner = node[q].owner /\ node'[q].value = node[q].value
        /\ node'[q].sub = node[q].sub \ Gone(q)
        /\ node'[q] \in [owner : Client \cup {NoOwner}, value : Value, sub : SUBSET Name]
  BY <1>1, <1>2
<1>4. ASSUME NEW q \in DOMAIN node'
      PROVE  node'[q].sub = {k \in Name : Append(q, k) \in DOMAIN node'}
  <2>1. q \in Seq(Name) /\ node[q].sub = {k \in Name : Append(q, k) \in DOMAIN node}
    BY <1>1 DEF TreeShape
  <2>2. \A k \in Name : Append(q, k) \in P => k \in Gone(q)
    BY <2>1, PathOfChild DEF Gone
  <2>3. \A k \in Name : k \in Gone(q) => Append(q, k) \in P
    <3> SUFFICES ASSUME NEW k \in Name, NEW r \in P, Parent(r) = q, k = Leaf(r)
                 PROVE  Append(q, k) \in P
      BY DEF Gone
    <3>1. r \in Seq(Name) /\ r # Root
      BY DEF TreeShape
    <3> QED BY <3>1, ChildOfPath
  <2> QED BY <2>1, <2>2, <2>3, <1>1, <1>3
<1>5. ASSUME NEW q \in DOMAIN node', q # Root
      PROVE  Parent(q) \in DOMAIN node'
  <2>1. q \in Seq(Name) /\ q \in DOMAIN node /\ Parent(q) \in DOMAIN node
    BY <1>1, <1>5 DEF TreeShape
  <2>2. Leaf(q) \in Name /\ q = Append(Parent(q), Leaf(q))
    BY <2>1, <1>5, ChildOfPath
  <2>3. Leaf(q) \in node[Parent(q)].sub
    <3>1. node[Parent(q)].sub = {k \in Name : Append(Parent(q), k) \in DOMAIN node}
      BY <2>1 DEF TreeShape
    <3> QED BY <2>1, <2>2, <3>1
  <2> QED BY <2>1, <2>3, <1>1
<1>6. \A q \in DOMAIN node' : node'[q].owner # NoOwner => node'[q].sub = {}
  BY <1>1, <1>3 DEF TreeShape
<1>7. node'[Root].owner = NoOwner /\ Root \in DOMAIN node' /\ DOMAIN node' \subseteq Seq(Name)
  BY <1>1, <1>3 DEF TreeShape
<1> QED BY <1>1, <1>3, <1>4, <1>5, <1>6, <1>7 DEF TreeShape
-----------------------------------------------------------------------------
\* What a request that fails or only reads leaves as it was.
LEMMA Rejected ==
  ASSUME IInv, UNCHANGED <<node, genId, conn, watchers, exiting, up>>, sent' = Nothing
  PROVE  IInv'
BY DEF IInv, TreeShape, Counters, Links, OwnerConnected, Nothing

\* notify_watchers sends paths.
LEMMA SendsPaths ==
  ASSUME NEW P \in SUBSET Seq(Name), notify_watchers(P)
  PROVE  /\ \A c \in Client : sent'[c] \subseteq Seq(Name)
         /\ \A c \in Client \cap watchers : sent'[c] = P
BY DEF notify_watchers

\* A node inserted by a connected client, ephemeral or not.
LEMMA Inserted ==
  ASSUME IInv, NEW c \in Client, Request(c), NEW p \in Seq(Name), p # Root,
         p \notin DOMAIN node, CanHold(Parent(p)), NEW v \in Value, NEW e \in BOOLEAN,
         Insert(p, IF e THEN c ELSE NoOwner, v), notify_watchers({p})
  PROVE  /\ TreeShape' /\ Links' /\ OwnerConnected'
         /\ DOMAIN node' = DOMAIN node \cup {p}
         /\ \A q \in DOMAIN node : node'[q].owner = node[q].owner /\ node'[q].value = node[q].value
<1> DEFINE o == IF e THEN c ELSE NoOwner
<1>1. o \in Client \cup {NoOwner} /\ (o # NoOwner => o \in conn \cap watchers)
  BY DEF Request
<1>2. Parent(p) \in DOMAIN node /\ node[Parent(p)].owner = NoOwner
  BY DEF CanHold, Exists
<1>3. Insert(p, o, v)
  OBVIOUS
<1> HIDE DEF o
<1>4. /\ TreeShape' /\ DOMAIN node' = DOMAIN node \cup {p}
      /\ node'[p].owner = o
      /\ \A q \in DOMAIN node : node'[q].owner = node[q].owner /\ node'[q].value = node[q].value
  BY <1>1, <1>2, <1>3, Grows DEF IInv
<1>5. Links'
  BY SendsPaths DEF IInv, Links, Request
<1>6. OwnerConnected'
  BY <1>1, <1>4 DEF IInv, OwnerConnected, Request
<1> QED BY <1>4, <1>5, <1>6

\* Nodes without children, taken out of the tree.
LEMMA Removed ==
  ASSUME IInv, NEW P \in SUBSET DOMAIN node, Root \notin P, \A p \in P : node[p].sub = {},
         Remove(P), notify_watchers(P)
  PROVE  /\ TreeShape' /\ DOMAIN node' = DOMAIN node \ P
         /\ \A c \in Client : sent'[c] \subseteq Seq(Name)
         /\ \A q \in DOMAIN node' : node'[q].owner = node[q].owner /\ node'[q].value = node[q].value
<1>1. P \in SUBSET Seq(Name)
  BY DEF IInv, TreeShape
<1> QED BY <1>1, Shrinks, SendsPaths DEF IInv

\* master_gen keeps the tree.
LEMMA GenStep ==
  ASSUME IInv, NEW c \in Client, NEW p \in Path, NEW v \in Value, NEW e \in BOOLEAN,
         master_gen(c, p, v, e)
  PROVE  IInv'
<1>1. CASE UNCHANGED <<node, genId>> /\ sent' = Nothing
  BY <1>1, Rejected DEF master_gen, Request
<1>2. CASE Valid(p) /\ CanHold(p) /\ ~(UNCHANGED <<node, genId>> /\ sent' = Nothing)
  <2> DEFINE k == Counter(p)
  <2>1. p \in Seq(Name) /\ p \in DOMAIN node /\ node[p].owner = NoOwner
    BY <1>2, PathAssumption DEF CanHold, Exists
  <2>2. k \in Nat
    BY DEF Counter, IInv, Counters
  <2>3. genId' = [q \in DOMAIN genId \cup {p} |-> IF q = p THEN k + 1 ELSE genId[q]]
    BY <1>2 DEF master_gen, Fail
  <2>4. \/ UNCHANGED node /\ sent' = Nothing
        \/ /\ k < GenLimit /\ Append(p, k) \notin DOMAIN node
           /\ Insert(Append(p, k), IF e THEN c ELSE NoOwner, v)
           /\ notify_watchers({Append(p, k)})
    BY <1>2 DEF master_gen, Fail, Exists
  <2> HIDE DEF k
  <2>5. DOMAIN genId' = DOMAIN genId \cup {p} /\ \A q \in DOMAIN genId' : genId'[q] \in Nat
    BY <2>2, <2>3 DEF IInv, Counters
  <2>6. CASE UNCHANGED node /\ sent' = Nothing
    <3>1. TreeShape' /\ OwnerConnected' /\ Links'
      BY <2>6 DEF IInv, TreeShape, OwnerConnected, Links, Nothing, master_gen, Request
    <3>2. Counters'
      BY <2>1, <2>5, <2>6 DEF IInv, Counters
    <3> QED BY <3>1, <3>2 DEF IInv
  <2>7. CASE /\ k < GenLimit /\ Append(p, k) \notin DOMAIN node
             /\ Insert(Append(p, k), IF e THEN c ELSE NoOwner, v)
             /\ notify_watchers({Append(p, k)})
    <3>1. k \in Name
      BY <2>2, <2>7, LimitAssumption DEF Name
    <3>2. Append(p, k) \in Seq(Name) /\ Append(p, k) # Root /\ CanHold(Parent(Append(p, k)))
      BY <1>2, <2>1, <3>1, PathOfChild
    <3>3. Request(c)
      BY DEF master_gen
    <3>4. /\ TreeShape' /\ Links' /\ OwnerConnected'
          /\ DOMAIN node' = DOMAIN node \cup {Append(p, k)}
          /\ \A q \in DOMAIN node : node'[q].owner = node[q].owner
      BY <2>7, <3>2, <3>3, Inserted
    <3>5. Counters'
      BY <2>1, <2>5, <3>4 DEF IInv, Counters
    <3> QED BY <3>4, <3>5 DEF IInv
  <2> QED BY <2>4, <2>6, <2>7
<1> QED BY <1>1, <1>2 DEF master_gen, Fail

\* master_add keeps the tree.
LEMMA AddStep ==
  ASSUME IInv, NEW c \in Client, NEW p \in Path, NEW v \in Value, NEW e \in BOOLEAN,
         master_add(c, p, v, e)
  PROVE  IInv'
<1>1. CASE UNCHANGED node /\ sent' = Nothing
  BY <1>1, Rejected DEF master_add, Request
<1>2. CASE /\ Valid(p) /\ CanHold(Parent(p)) /\ ~Exists(p)
           /\ Insert(p, IF e THEN c ELSE NoOwner, v) /\ notify_watchers({p})
  <2>1. p \in Seq(Name) /\ p # Root /\ p \notin DOMAIN node /\ Request(c)
    BY <1>2, PathAssumption DEF Valid, Exists, master_add
  <2>2. /\ TreeShape' /\ Links' /\ OwnerConnected'
        /\ DOMAIN node' = DOMAIN node \cup {p}
        /\ \A q \in DOMAIN node : node'[q].owner = node[q].owner
    BY <1>2, <2>1, Inserted
  <2>3. Counters'
    BY <2>2 DEF IInv, Counters, master_add
  <2> QED BY <2>2, <2>3 DEF IInv
<1> QED BY <1>1, <1>2 DEF master_add, Fail

\* master_del keeps the tree.
LEMMA DelStep ==
  ASSUME IInv, NEW c \in Client, NEW p \in Path, master_del(c, p)
  PROVE  IInv'
<1>1. CASE UNCHANGED <<node, genId>> /\ sent' = Nothing
  BY <1>1, Rejected DEF master_del, Request
<1>2. CASE /\ Valid(p) /\ Exists(p) /\ node[p].sub = {} /\ Remove({p})
           /\ genId' = [q \in DOMAIN genId \ {p} |-> genId[q]] /\ notify_watchers({p})
  <2>1. {p} \in SUBSET DOMAIN node /\ Root \notin {p} /\ \A q \in {p} : node[q].sub = {}
    BY <1>2 DEF Valid, Exists
  <2>2. /\ TreeShape' /\ DOMAIN node' = DOMAIN node \ {p}
        /\ \A d \in Client : sent'[d] \subseteq Seq(Name)
        /\ \A q \in DOMAIN node' : node'[q].owner = node[q].owner
    BY <1>2, <2>1, Removed
  <2>3. Counters' /\ Links' /\ OwnerConnected'
    BY <1>2, <2>2 DEF IInv, Counters, Links, OwnerConnected, master_del, Request
  <2> QED BY <2>2, <2>3 DEF IInv
<1> QED BY <1>1, <1>2 DEF master_del, Fail

\* master_set keeps the tree.
LEMMA SetStep ==
  ASSUME IInv, NEW c \in Client, NEW p \in Path, NEW v \in Value, master_set(c, p, v)
  PROVE  IInv'
<1>1. CASE UNCHANGED node /\ sent' = Nothing
  BY <1>1, Rejected DEF master_set, Request
<1>2. CASE /\ Valid(p) /\ Exists(p) /\ node' = [node EXCEPT ![p].value = v]
           /\ notify_watchers({p})
  <2>1. p \in DOMAIN node /\ {p} \in SUBSET Seq(Name)
    BY <1>2, PathAssumption DEF Exists
  <2>2. /\ DOMAIN node' = DOMAIN node
        /\ \A q \in DOMAIN node : q # p => node'[q] = node[q]
        /\ node'[p] = [node[p] EXCEPT !.value = v]
    BY <1>2, <2>1
  <2>3. node[p] \in [owner : Client \cup {NoOwner}, value : Value, sub : SUBSET Name]
    BY <2>1 DEF IInv, TreeShape
  <2>4. /\ node'[p].owner = node[p].owner /\ node'[p].sub = node[p].sub
        /\ node'[p] \in [owner : Client \cup {NoOwner}, value : Value, sub : SUBSET Name]
    BY <2>2, <2>3
  <2>5. \A q \in DOMAIN node : node'[q].owner = node[q].owner /\ node'[q].sub = node[q].sub
    BY <2>2, <2>4
  <2>6. TreeShape'
    <3>1. TreeShape
      BY DEF IInv
    <3>2. \A q \in DOMAIN node' :
            node'[q] \in [owner : Client \cup {NoOwner}, value : Value, sub : SUBSET Name]
      BY <2>2, <2>4, <3>1 DEF TreeShape
    <3>3. \A q \in DOMAIN node' : node'[q].sub = {k \in Name : Append(q, k) \in DOMAIN node'}
      BY <2>2, <2>5, <3>1 DEF TreeShape
    <3>4. \A q \in DOMAIN node' : node'[q].owner # NoOwner => node'[q].sub = {}
      BY <2>2, <2>5, <3>1 DEF TreeShape
    <3>5. node'[Root].owner = NoOwner
      BY <2>5, <3>1 DEF TreeShape
    <3> QED BY <2>2, <3>1, <3>2, <3>3, <3>4, <3>5 DEF TreeShape
  <2>7. Counters' /\ OwnerConnected'
    BY <2>2, <2>5 DEF IInv, Counters, OwnerConnected, master_set, Request
  <2>8. Links'
    BY <1>2, <2>1, SendsPaths DEF IInv, Links, master_set, Request
  <2> QED BY <2>6, <2>7, <2>8 DEF IInv
<1> QED BY <1>1, <1>2 DEF master_set, Fail

\* disconnect_clear_data takes the client's ephemeral nodes out of the tree.
LEMMA Cleared ==
  ASSUME IInv, NEW c \in Client, disconnect_clear_data(c), UNCHANGED genId
  PROVE  /\ TreeShape' /\ Counters'
         /\ \A d \in Client : sent'[d] \subseteq Seq(Name)
         /\ \A q \in DOMAIN node' : q \in DOMAIN node /\ node'[q].owner = node[q].owner
         /\ \A q \in DOMAIN node' : node'[q].owner # c
<1> DEFINE P == {p \in DOMAIN node : node[p].owner = c}
<1>1. Remove(P) /\ notify_watchers(P)
  BY DEF disconnect_clear_data
<1>2. /\ P \in SUBSET DOMAIN node /\ Root \notin P /\ \A p \in P : node[p].sub = {}
      /\ \A q \in DOMAIN node : q \notin P <=> node[q].owner # c
  BY OwnerAssumption DEF IInv, TreeShape
<1> HIDE DEF P
<1>3. /\ TreeShape' /\ DOMAIN node' = DOMAIN node \ P
      /\ \A d \in Client : sent'[d] \subseteq Seq(Name)
      /\ \A q \in DOMAIN node' : node'[q].owner = node[q].owner
  BY <1>1, <1>2, Removed
<1>4. Counters'
  BY <1>2, <1>3, OwnerAssumption DEF IInv, Counters
<1> QED BY <1>2, <1>3, <1>4

\* A connection that closes takes its ephemeral nodes along, and what is left is a tree.
LEMMA LeaveStep ==
  ASSUME IInv, NEW c \in Client, Finalize(c) \/ Disconnect(c)
  PROVE  IInv'
<1>1. disconnect_clear_data(c) /\ UNCHANGED <<genId, exiting, up>>
      /\ watchers' = watchers \ {c} /\ (conn' = conn \/ conn' = conn \ {c})
  BY DEF Finalize, Disconnect
<1>2. /\ TreeShape' /\ Counters'
      /\ \A d \in Client : sent'[d] \subseteq Seq(Name)
      /\ \A q \in DOMAIN node' : q \in DOMAIN node /\ node'[q].owner = node[q].owner
      /\ \A q \in DOMAIN node' : node'[q].owner # c
  BY <1>1, Cleared
<1>3. Links' /\ OwnerConnected'
  BY <1>1, <1>2 DEF IInv, Links, OwnerConnected
<1> QED BY <1>2, <1>3 DEF IInv

\* Connecting, watching and ending change no node.
LEMMA ServingStep ==
  ASSUME IInv, (\E c \in Client : Accept(c)) \/ Exit \/ Stop
  PROVE  IInv'
<1>1. /\ UNCHANGED <<node, genId>> /\ sent' = Nothing
      /\ conn \subseteq conn' /\ watchers \subseteq watchers'
      /\ conn' \subseteq Client /\ watchers' \subseteq Client
      /\ exiting' \in BOOLEAN /\ up' \in BOOLEAN
  BY DEF Accept, Exit, Stop, IInv, Links
<1> QED BY <1>1 DEF IInv, TreeShape, Counters, Links, OwnerConnected, Nothing

\* master_get and master_sub change no node.
LEMMA ReadStep ==
  ASSUME IInv, NEW c \in Client, NEW p \in Path, master_get(c, p) \/ master_sub(c, p)
  PROVE  IInv'
BY Rejected DEF master_get, master_sub, Read, Request

-----------------------------------------------------------------------------
\* The invariant holds at the start.
LEMMA InitShape == Init => IInv
<1> SUFFICES ASSUME Init PROVE IInv
  OBVIOUS
<1>1. /\ DOMAIN node = {Root} /\ node[Root].owner = NoOwner /\ node[Root].sub = {}
      /\ node[Root] \in [owner : Client \cup {NoOwner}, value : Value, sub : SUBSET Name]
  BY ValueAssumption DEF Init
<1>2. Root \in Seq(Name) /\ \A k \in Name : Append(Root, k) # Root
  BY EmptySeq, PathOfChild DEF Root
<1>3. TreeShape
  BY <1>1, <1>2 DEF TreeShape
<1>4. Counters /\ Links /\ OwnerConnected
  BY <1>1 DEF Init, Counters, Links, OwnerConnected, Nothing
<1> QED BY <1>3, <1>4 DEF IInv

\* The tree keeps its shape.
THEOREM ShapeKept == Spec => []IInv
<1>1. IInv /\ [Next]_vars => IInv'
  <2> SUFFICES ASSUME IInv, [Next]_vars PROVE IInv'
    OBVIOUS
  <2>1. CASE UNCHANGED vars
    BY <2>1 DEF vars, IInv, TreeShape, Counters, Links, OwnerConnected
  <2>2. ASSUME NEW c \in Client, Operation(c) PROVE IInv'
    BY <2>2, GenStep, AddStep, SetStep, DelStep, ReadStep DEF Operation
  <2> QED BY <2>1, <2>2, LeaveStep, ServingStep DEF Next
<1> QED BY <1>1, InitShape, PTL DEF Spec

\* The paths are a tree whose sub sets name exactly the children, ephemeral nodes
\* belong to connected clients, and counters do not outlive their nodes, whatever
\* the clients ask for and whenever their connections close.
THEOREM TreeStaysSound == Spec => []TreeSound
<1>1. IInv => TreeSound
  BY DEF IInv, TreeShape, Counters, Links, TreeSound, TypeOK, TreeConsistent
<1> QED BY <1>1, ShapeKept, PTL
-----------------------------------------------------------------------------
Changed(p) == p \notin DOMAIN node \cap DOMAIN node' \/ node'[p].value # node[p].value
Announced ==
  \A p \in DOMAIN node \cup DOMAIN node' : Changed(p) => \A c \in watchers' : p \in sent'[c]

\* Only paths in P change, and all of P is sent to all who were watching.
LEMMA AnnouncedIf ==
  ASSUME NEW P, notify_watchers(P), watchers' \subseteq watchers, watchers \subseteq Client,
         \A p \in DOMAIN node \cup DOMAIN node' : Changed(p) => p \in P
  PROVE  Announced
BY DEF Announced, notify_watchers

\* A path that is there before and after with its value has not changed.
LEMMA UnchangedTree ==
  ASSUME UNCHANGED node
  PROVE  Announced
BY DEF Announced, Changed

\* What master_gen adds is announced.
LEMMA GenAnnounced ==
  ASSUME IInv, NEW c \in Client, NEW p \in Path, NEW v \in Value, NEW e \in BOOLEAN,
         master_gen(c, p, v, e)
  PROVE  Announced
<1> DEFINE q == Append(p, Counter(p))
<1>1. CASE UNCHANGED node
  BY <1>1, UnchangedTree
<1>2. CASE /\ CanHold(p) /\ Counter(p) < GenLimit /\ q \notin DOMAIN node
           /\ Insert(q, IF e THEN c ELSE NoOwner, v)
           /\ notify_watchers({q})
  <2>1. p \in Seq(Name) /\ Counter(p) \in Nat
    BY PathAssumption DEF Counter, IInv, Counters
  <2>2. Counter(p) \in Name
    BY <1>2, <2>1, LimitAssumption DEF Name
  <2>3. q \in Seq(Name) /\ q # Root /\ CanHold(Parent(q))
    BY <1>2, <2>1, <2>2, PathOfChild
  <2>4. Request(c)
    BY DEF master_gen
  <2> HIDE DEF q
  <2>5. /\ DOMAIN node' = DOMAIN node \cup {q}
        /\ \A r \in DOMAIN node : node'[r].value = node[r].value
    BY <1>2, <2>3, <2>4, Inserted
  <2>6. watchers' \subseteq watchers /\ watchers \subseteq Client
    BY <2>4 DEF Request, IInv, Links
  <2> QED BY <1>2, <2>5, <2>6, AnnouncedIf DEF Changed
<1> QED BY <1>1, <1>2 DEF master_gen, Fail, Exists

\* What master_add adds is announced.
LEMMA AddAnnounced ==
  ASSUME IInv, NEW c \in Client, NEW p \in Path, NEW v \in Value, NEW e \in BOOLEAN,
         master_add(c, p, v, e)
  PROVE  Announced
<1>1. CASE UNCHANGED node
  BY <1>1, UnchangedTree
<1>2. CASE /\ Valid(p) /\ CanHold(Parent(p)) /\ ~Exists(p)
           /\ Insert(p, IF e THEN c ELSE NoOwner, v) /\ notify_watchers({p})
  <2>1. p \in Seq(Name) /\ p # Root /\ p \notin DOMAIN node /\ Request(c)
    BY <1>2, PathAssumption DEF Valid, Exists, master_add
  <2>2. /\ DOMAIN node' = DOMAIN node \cup {p}
        /\ \A q \in DOMAIN node : node'[q].value = node[q].value
    BY <1>2, <2>1, Inserted
  <2>3. watchers' \subseteq watchers /\ watchers \subseteq Client
    BY <2>1 DEF Request, IInv, Links
  <2> QED BY <1>2, <2>2, <2>3, AnnouncedIf DEF Changed
<1> QED BY <1>1, <1>2 DEF master_add, Fail

\* What master_del removes is announced.
LEMMA DelAnnounced ==
  ASSUME IInv, NEW c \in Client, NEW p \in Path, master_del(c, p)
  PROVE  Announced
<1>1. CASE UNCHANGED node
  BY <1>1, UnchangedTree
<1>2. CASE Valid(p) /\ Exists(p) /\ node[p].sub = {} /\ Remove({p}) /\ notify_watchers({p})
  <2>1. {p} \in SUBSET DOMAIN node /\ Root \notin {p} /\ \A q \in {p} : node[q].sub = {}
    BY <1>2 DEF Valid, Exists
  <2>2. /\ DOMAIN node' = DOMAIN node \ {p}
        /\ \A q \in DOMAIN node' : node'[q].value = node[q].value
    BY <1>2, <2>1, Removed
  <2>3. watchers' \subseteq watchers /\ watchers \subseteq Client
    BY DEF master_del, Request, IInv, Links
  <2> QED BY <1>2, <2>2, <2>3, AnnouncedIf DEF Changed
<1> QED BY <1>1, <1>2 DEF master_del, Fail

\* What master_set changes is announced.
LEMMA SetAnnounced ==
  ASSUME IInv, NEW c \in Client, NEW p \in Path, NEW v \in Value, master_set(c, p, v)
  PROVE  Announced
<1>1. CASE UNCHANGED node
  BY <1>1, UnchangedTree
<1>2. CASE Exists(p) /\ node' = [node EXCEPT ![p].value = v] /\ notify_watchers({p})
  <2>1. DOMAIN node' = DOMAIN node /\ \A q \in DOMAIN node : q # p => node'[q] = node[q]
    BY <1>2
  <2>2. watchers' \subseteq watchers /\ watchers \subseteq Client
    BY DEF master_set, Request, IInv, Links
  <2> QED BY <1>2, <2>1, <2>2, AnnouncedIf DEF Changed
<1> QED BY <1>1, <1>2 DEF master_set, Fail

\* What a closing connection removes is announced.
LEMMA LeaveAnnounced ==
  ASSUME IInv, NEW c \in Client, Finalize(c) \/ Disconnect(c)
  PROVE  Announced
<1> DEFINE P == {p \in DOMAIN node : node[p].owner = c}
<1>1. Remove(P) /\ notify_watchers(P) /\ watchers' \subseteq watchers /\ watchers \subseteq Client
  BY DEF Finalize, Disconnect, disconnect_clear_data, IInv, Links
<1>2. /\ P \in SUBSET DOMAIN node /\ Root \notin P /\ \A p \in P : node[p].sub = {}
  BY OwnerAssumption DEF IInv, TreeShape
<1> HIDE DEF P
<1>3. /\ DOMAIN node' = DOMAIN node \ P
      /\ \A q \in DOMAIN node' : node'[q].value = node[q].value
  BY <1>1, <1>2, Removed
<1> QED BY <1>1, <1>3, AnnouncedIf DEF Changed

\* A node that is created, removed or set, by a request or by the end of its
\* owner's connection, is announced to everybody who goes on watching, in the
\* same step: no change can be missed.
THEOREM ChangesAnnounced == Spec => EveryChangeAnnounced
<1>1. IInv /\ [Next]_vars => [Announced]_vars
  <2> SUFFICES ASSUME IInv, Next PROVE Announced
    OBVIOUS
  <2>1. ASSUME NEW c \in Client, Operation(c) PROVE Announced
    <3>1. ASSUME NEW p \in Path, master_get(c, p) \/ master_sub(c, p) PROVE Announced
      BY <3>1, UnchangedTree DEF master_get, master_sub, Read
    <3> QED BY <2>1, <3>1, GenAnnounced, AddAnnounced, SetAnnounced, DelAnnounced DEF Operation
  <2>2. ASSUME (\E c \in Client : Accept(c)) \/ Exit \/ Stop PROVE Announced
    BY <2>2, UnchangedTree DEF Accept, Exit, Stop
  <2> QED BY <2>1, <2>2, LeaveAnnounced DEF Next
<1> QED BY <1>1, ShapeKept, PTL DEF Spec, EveryChangeAnnounced, Announced, Changed
=============================================================================
