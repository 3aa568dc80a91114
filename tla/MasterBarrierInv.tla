-------------------------- MODULE MasterBarrierInv --------------------------
(***************************************************************************)
(* The inductive invariant of MasterClient::barrier, for any number of     *)
(* participants and rounds.  The lemmas of the first part say what each    *)
(* request does to the room, the children of <base>/node, and to the door, *)
(* <base>/ready; those of the second what the invariant says about them;   *)
(* and those of the third that the steps which leave room and door as they *)
(* are keep it.                                                            *)
(***************************************************************************)
EXTENDS MasterBarrier, FiniteSetTheorems, TLAPS

Index == 0 .. Rounds * number - 1
Count == M!Counter(node_path)
Kid(k) == Append(node_path, k)
Kids == IF node_path \in DOMAIN node THEN node[node_path].sub ELSE {}
Ready == ready_path \in DOMAIN node
Names == {Base, NodeKey, ReadyKey} \cup Index
NodeRec == [owner : Client \cup {NoOwner}, value : {Base}, sub : SUBSET Names]

\* The master's tree holds the barrier's nodes; children are older than the counter.
Tree ==
  /\ DOMAIN node \subseteq {<<>>, base_path, node_path, ready_path} \cup {Kid(k) : k \in Index}
  /\ <<>> \in DOMAIN node
  /\ \A p \in DOMAIN node : node[p] \in NodeRec
  /\ \A p \in DOMAIN node \cap {<<>>, base_path, node_path} : node[p].owner = NoOwner
  /\ node_path \in DOMAIN node =>
       base_path \in DOMAIN node /\ node[node_path].sub = {k \in Index : Kid(k) \in DOMAIN node}
  /\ \A k \in Index : Kid(k) \in DOMAIN node => node_path \in DOMAIN node /\ node[Kid(k)].sub = {}
  /\ Ready => base_path \in DOMAIN node /\ node[ready_path].sub = {}
  /\ \A k \in Kids : k < Count
  /\ DOMAIN genId \subseteq {node_path} /\ Count \in Nat
  /\ conn = Client /\ watchers = Client /\ up = TRUE

\* Where a participant stands: in the room, with a child of its own; about to
\* come; through with a round; leading, with the door open.
Waiters == {"sub", "follow", "followwait"}
Room == Waiters \cup {"leave", "lead", "open", "alone", "alonewait", "delete"}
Coming == {"base", "node", "gen"}
Through == {"return", "idle", "fresh", "freshwait"}
Doors == {"alone", "alonewait", "delete", "close"}
Leading == Doors \cup {"lead", "open"}
Labels == Room \cup Coming \cup Through \cup {"close"}

Types ==
  /\ pc \in [Client -> Labels] /\ gen \in [Client -> Nat]
  /\ watches \in [Client -> SUBSET {node_path, ready_path}] /\ woken \subseteq Client
  /\ inbox \in [Client -> SUBSET {node_path, ready_path}]
  /\ entered \in [Client -> Nat] /\ left \in [Client -> Nat]

Built ==
  /\ \A c \in Client : pc[c] = "node" => base_path \in DOMAIN node
  /\ \A c \in Client : pc[c] \in Room \cup {"gen", "close"} => node_path \in DOMAIN node

\* The door is open while its one leader stands in it.  Until then nobody leaves
\* a full room, and from then on nobody enters it.
Lead1 ==
  /\ Ready <=> \E c \in Client : pc[c] \in Doors
  /\ \A c, d \in Client : pc[c] \in Leading /\ pc[d] \in Leading => c = d
  /\ \A c, d \in Client : pc[c] \in {"lead", "open"} /\ d # c => pc[d] \in Waiters
  /\ \A c, d \in Client :
       pc[c] \in Doors /\ d # c => pc[d] \in Waiters \cup {"leave"} \cup Through
  /\ \A c, d \in Client : pc[c] \in {"delete", "close"} /\ d # c => pc[d] \in Through
  /\ \A c \in Client : pc[c] = "leave" => Ready

\* The children are those of the participants in the room, and the last one's
\* is the leader's or, as long as nobody leads a full room, of one who has to look.
Present == {c \in Client : pc[c] \in Room}
Last(c) == gen[c] + 1 = Count
Children ==
  /\ \A k : k \in Kids <=> \E c \in Present : gen[c] = k
  /\ \A c, d \in Present : gen[c] = gen[d] => c = d
  /\ \A c \in Present : pc[c] \in Leading => Last(c)
  /\ ~Ready /\ Present # {} => \E c \in Present : Last(c)
  /\ Client # {} /\ (\A c \in Client : pc[c] \in Waiters) /\ ~Ready
       => \E c \in Client : pc[c] = "sub" /\ Last(c)

\* r rounds are over for everybody.
Round(r) ==
  /\ \A c \in Client : entered[c] = IF Ready \/ c \in Present THEN r + 1 ELSE r
  /\ Count = IF Ready THEN (r + 1) * number ELSE r * number + Cardinality(Present)
Returned ==
  /\ \A c \in Client : entered[c] = IF pc[c] \in Room \cup {"close", "return"}
                                    THEN left[c] + 1 ELSE left[c]
  /\ \A c \in Client : left[c] <= Rounds /\ (pc[c] # "idle" => left[c] < Rounds)

\* Who sleeps is woken when what it waits for has happened.
Watchful ==
  /\ \A c \in Client : pc[c] # "idle" => ready_path \in watches[c]
  /\ \A c \in Client : pc[c] \in {"open", "alone", "alonewait", "delete"} => node_path \in watches[c]
Told(c, w) == c \in woken \/ w \in inbox[c]
Wakes ==
  /\ \A c \in Client : pc[c] = "freshwait" /\ ~Ready => Told(c, ready_path)
  /\ \A c \in Client : pc[c] = "followwait" /\ Ready => Told(c, ready_path)
  /\ \A c \in Client : pc[c] = "alonewait" /\ Present = {c} => Told(c, node_path)

IInv ==
  /\ Tree /\ Types /\ Built /\ Lead1 /\ Children /\ (\E r \in Nat : Round(r)) /\ Returned
  /\ Watchful /\ Wakes
-----------------------------------------------------------------------------
USE DEF M!Root

\* The first elements of a sequence that was appended to, and its last.
LEMMA Appended ==
  ASSUME NEW S, NEW s \in Seq(S), NEW e \in S
  PROVE  /\ Append(s, e) \in Seq(S) /\ Len(Append(s, e)) = Len(s) + 1
         /\ \A i \in 1 .. Len(s) : Append(s, e)[i] = s[i]
         /\ Append(s, e)[Len(s) + 1] = e
OBVIOUS

\* What a sequence starts with, element by element.
LEMMA StartsWith ==
  ASSUME NEW S, NEW s \in Seq(S), NEW t \in Seq(S), Len(t) <= Len(s),
         \A i \in 1 .. Len(t) : s[i] = t[i]
  PROVE  SubSeq(s, 1, Len(t)) = t
<1> DEFINE z == SubSeq(s, 1, Len(t))
<1>1. Len(t) \in Nat /\ Len(s) \in Nat
  OBVIOUS
<1>2. \A i \in 1 .. Len(t) : s[i] \in S
  BY <1>1
<1>3. z \in Seq(S) /\ Len(z) = Len(t) /\ \A i \in 1 .. Len(t) : z[i] = s[i]
  BY <1>1, <1>2
<1> HIDE DEF z
<1>4. z = t
  BY <1>3
<1> QED BY <1>4 DEF z

\* The paths of the barrier's nodes.
LEMMA Paths ==
  ASSUME NamesAssumption
  PROVE  /\ base_path # <<>> /\ node_path # <<>> /\ ready_path # <<>>
         /\ base_path # node_path /\ base_path # ready_path /\ node_path # ready_path
         /\ M!Parent(base_path) = <<>> /\ M!Leaf(base_path) = Base
         /\ M!Parent(node_path) = base_path /\ M!Leaf(node_path) = NodeKey
         /\ M!Parent(ready_path) = base_path /\ M!Leaf(ready_path) = ReadyKey
         /\ Prefix(ready_path, ready_path)
<1> DEFINE S == {Base, NodeKey, ReadyKey}
<1>1. /\ base_path \in Seq(S) /\ node_path \in Seq(S) /\ ready_path \in Seq(S)
      /\ Len(base_path) = 1 /\ Len(node_path) = 2 /\ Len(ready_path) = 2
      /\ base_path[1] = Base /\ node_path[1] = Base /\ ready_path[1] = Base
      /\ node_path[2] = NodeKey /\ ready_path[2] = ReadyKey
  BY DEF base_path, node_path, ready_path
<1> HIDE DEF S
<1>2. SubSeq(base_path, 1, 0) = <<>>
  BY DEF base_path
<1>3. SubSeq(node_path, 1, 1) = base_path
  BY <1>1, StartsWith
<1>4. SubSeq(ready_path, 1, 1) = base_path
  BY <1>1, StartsWith
<1>5. SubSeq(ready_path, 1, 2) = ready_path
  BY <1>1, StartsWith
<1>6. base_path # <<>> /\ node_path # <<>> /\ ready_path # <<>>
  BY DEF base_path, node_path, ready_path
<1>7. base_path # node_path /\ base_path # ready_path /\ node_path # ready_path
  BY <1>1, NamesAssumption DEF NamesAssumption
<1>8. Prefix(ready_path, ready_path)
  BY <1>1, <1>5 DEF Prefix
<1> QED BY <1>1, <1>2, <1>3, <1>4, <1>6, <1>7, <1>8 DEF M!Parent, M!Leaf

\* The paths of the children.
LEMMA KidPaths ==
  /\ \A k : /\ Kid(k) # <<>> /\ Kid(k) # base_path /\ Kid(k) # node_path /\ Kid(k) # ready_path
            /\ M!Parent(Kid(k)) = node_path /\ M!Leaf(Kid(k)) = k
            /\ Prefix(node_path, Kid(k))
  /\ \A j, k : Kid(j) = Kid(k) => j = k
<1>1. ASSUME NEW k
      PROVE  /\ Kid(k) # <<>> /\ Kid(k) # base_path /\ Kid(k) # node_path /\ Kid(k) # ready_path
             /\ M!Parent(Kid(k)) = node_path /\ M!Leaf(Kid(k)) = k
             /\ Prefix(node_path, Kid(k))
  <2> DEFINE S == {Base, NodeKey, ReadyKey, k}
  <2>1. node_path \in Seq(S) /\ Len(node_path) = 2 /\ k \in S
    BY DEF node_path
  <2>2. Len(base_path) = 1 /\ Len(ready_path) = 2
    BY DEF base_path, ready_path
  <2> HIDE DEF S
  <2>3. /\ Kid(k) \in Seq(S) /\ Len(Kid(k)) = Len(node_path) + 1
        /\ \A i \in 1 .. Len(node_path) : Kid(k)[i] = node_path[i]
        /\ Kid(k)[Len(node_path) + 1] = k
    BY <2>1, Appended, Zenon DEF Kid
  <2>4. Len(Kid(k)) = 3 /\ Kid(k)[3] = k
    <3>1. Len(node_path) + 1 = 3
      BY <2>1
    <3> QED BY <2>3, <3>1
  <2>5. SubSeq(Kid(k), 1, Len(node_path)) = node_path
    <3>1. Len(node_path) <= Len(Kid(k))
      BY <2>1, <2>4
    <3> QED BY <2>1, <2>3, <3>1, StartsWith
  <2>6. SubSeq(Kid(k), 1, 2) = node_path
    BY <2>1, <2>5
  <2>7. Kid(k) # <<>> /\ Kid(k) # base_path /\ Kid(k) # node_path /\ Kid(k) # ready_path
    BY <2>1, <2>2, <2>4
  <2> QED BY <2>1, <2>4, <2>6, <2>7 DEF M!Parent, M!Leaf, Prefix
<1>2. ASSUME NEW j, NEW k, Kid(j) = Kid(k) PROVE j = k
  BY <1>1, <1>2
<1> QED BY <1>1, <1>2

\* A node that is put into the tree.
LEMMA Inserted ==
  ASSUME Tree, NEW p, NEW o \in Client \cup {NoOwner}, p \notin DOMAIN node,
         M!Parent(p) \in DOMAIN node, M!Leaf(p) \in Names, M!Insert(p, o, Base)
  PROVE  /\ DOMAIN node' = DOMAIN node \cup {p}
         /\ node'[p] \in NodeRec /\ node'[p].owner = o /\ node'[p].sub = {}
         /\ \A q \in DOMAIN node :
              /\ node'[q] \in NodeRec /\ node'[q].owner = node[q].owner
              /\ q # M!Parent(p) => node'[q].sub = node[q].sub
         /\ node'[M!Parent(p)].sub = node[M!Parent(p)].sub \cup {M!Leaf(p)}
<1> DEFINE P == M!Parent(p)
           l == M!Leaf(p)
<1>1. node' = [q \in DOMAIN node \cup {p} |->
                 IF q = p THEN [owner |-> o, value |-> Base, sub |-> {}]
                 ELSE IF q = P THEN [node[q] EXCEPT !.sub = @ \cup {l}]
                 ELSE node[q]]
  BY DEF M!Insert
<1>2. P \in DOMAIN node /\ l \in Names /\ P # p
  OBVIOUS
<1>3. \A q \in DOMAIN node : node[q] \in NodeRec
  BY DEF Tree
<1> HIDE DEF P, l
<1>4. DOMAIN node' = DOMAIN node \cup {p}
  BY <1>1
<1>5. node'[p] = [owner |-> o, value |-> Base, sub |-> {}]
  BY <1>1
<1>6. node'[P] = [node[P] EXCEPT !.sub = @ \cup {l}]
  BY <1>1, <1>2
<1>7. \A q \in DOMAIN node : q # P => node'[q] = node[q]
  BY <1>1
<1>8. node'[p] \in NodeRec /\ node'[p].owner = o /\ node'[p].sub = {}
  BY <1>5 DEF NodeRec
<1>9. /\ node'[P] \in NodeRec /\ node'[P].owner = node[P].owner
      /\ node'[P].sub = node[P].sub \cup {l}
  BY <1>2, <1>3, <1>6 DEF NodeRec
<1>10. \A q \in DOMAIN node : /\ node'[q] \in NodeRec /\ node'[q].owner = node[q].owner
                              /\ q # P => node'[q].sub = node[q].sub
  BY <1>3, <1>7, <1>9, Zenon
<1> QED BY <1>4, <1>8, <1>9, <1>10 DEF P, l

\* A node that is taken out of the tree.
LEMMA Removed ==
  ASSUME Tree, NEW p \in DOMAIN node, M!Remove({p})
  PROVE  /\ DOMAIN node' = DOMAIN node \ {p}
         /\ \A q \in DOMAIN node' :
              /\ node'[q] \in NodeRec /\ node'[q].owner = node[q].owner
              /\ q # M!Parent(p) => node'[q].sub = node[q].sub
              /\ q = M!Parent(p) => node'[q].sub = node[q].sub \ {M!Leaf(p)}
<1> DEFINE Gone(q) == {M!Leaf(r) : r \in {r \in {p} : M!Parent(r) = q}}
<1>1. /\ DOMAIN node' = DOMAIN node \ {p}
      /\ \A q \in DOMAIN node' : node'[q] = [node[q] EXCEPT !.sub = @ \ Gone(q)]
  BY DEF M!Remove
<1>2. \A q : /\ q # M!Parent(p) => Gone(q) = {}
             /\ q = M!Parent(p) => Gone(q) = {M!Leaf(p)}
  OBVIOUS
<1>3. \A q \in DOMAIN node : node[q] \in NodeRec
  BY DEF Tree
<1> HIDE DEF Gone
<1>4. \A q \in DOMAIN node' :
        /\ node'[q] \in NodeRec /\ node'[q].owner = node[q].owner
        /\ node'[q].sub = node[q].sub \ Gone(q)
  BY <1>1, <1>3 DEF NodeRec
<1> QED BY <1>1, <1>2, <1>4, Zenon

\* A step that leaves the tree alone.
LEMMA TreeSame ==
  ASSUME Tree, UNCHANGED <<node, genId, conn, watchers, up>>
  PROVE  Tree' /\ Kids' = Kids /\ Count' = Count /\ Ready' = Ready
BY DEF Tree, Kids, Count, Ready, M!Counter

\* tree_node_add of <base>, by whoever comes first.
LEMMA AddsBase ==
  ASSUME NamesAssumption, Tree, NEW c \in Client, M!master_add(c, base_path, Base, FALSE)
  PROVE  /\ Tree' /\ Kids' = Kids /\ Count' = Count /\ Ready' = Ready
         /\ DOMAIN node \subseteq DOMAIN node' /\ base_path \in DOMAIN node'
<1>1. UNCHANGED <<genId, conn, watchers, up>>
  BY DEF M!master_add, M!Request
<1>2. Count' = Count
  BY <1>1 DEF Count, M!Counter
<1>3. CASE base_path \in DOMAIN node
  <2>1. UNCHANGED node
    BY <1>3 DEF M!master_add, M!Exists, M!Fail
  <2> QED BY <1>1, <1>3, <2>1, TreeSame
<1>4. CASE base_path \notin DOMAIN node
  <2>1. M!Valid(base_path) /\ M!CanHold(M!Parent(base_path)) /\ ~M!Exists(base_path)
    BY <1>4, Paths DEF Tree, M!Valid, M!CanHold, M!Exists
  <2>2. M!Insert(base_path, NoOwner, Base)
    BY <2>1 DEF M!master_add
  <2>3. /\ DOMAIN node' = DOMAIN node \cup {base_path}
        /\ node'[base_path] \in NodeRec /\ node'[base_path].owner = NoOwner
        /\ \A q \in DOMAIN node : /\ node'[q] \in NodeRec /\ node'[q].owner = node[q].owner
                                  /\ q # <<>> => node'[q].sub = node[q].sub
    <3>1. M!Parent(base_path) = <<>> /\ M!Leaf(base_path) \in Names /\ <<>> \in DOMAIN node
      BY Paths DEF Names, Tree
    <3> QED BY <1>4, <2>2, <3>1, Inserted, Zenon
  <2>4. /\ node_path \notin DOMAIN node /\ ready_path \notin DOMAIN node
        /\ \A k \in Index : Kid(k) \notin DOMAIN node
    BY <1>4 DEF Tree, Ready
  <2>5. /\ node_path \notin DOMAIN node' /\ ready_path \notin DOMAIN node'
        /\ \A k \in Index : Kid(k) \notin DOMAIN node'
    BY <2>3, <2>4, Paths, KidPaths
  <2>6. Kids = {} /\ Kids' = {} /\ ~Ready /\ ~Ready'
    BY <2>4, <2>5 DEF Kids, Ready
  <2>7. \A p \in DOMAIN node' : node'[p] \in NodeRec
    BY <2>3, Zenon
  <2>8. \A p \in DOMAIN node' \cap {<<>>, base_path, node_path} : node'[p].owner = NoOwner
    BY <2>3 DEF Tree
  <2>9. Tree'
    BY <1>1, <1>2, <2>3, <2>5, <2>6, <2>7, <2>8 DEF Tree
  <2>10. Ready' = Ready
    BY <2>4, <2>5 DEF Ready
  <2> QED BY <1>2, <2>3, <2>6, <2>9, <2>10
<1> QED BY <1>3, <1>4

\* tree_node_add of <base>/node, by whoever comes first.
LEMMA AddsNode ==
  ASSUME NamesAssumption, Tree, base_path \in DOMAIN node, NEW c \in Client,
         M!master_add(c, node_path, Base, FALSE)
  PROVE  /\ Tree' /\ Kids' = Kids /\ Count' = Count /\ Ready' = Ready
         /\ DOMAIN node \subseteq DOMAIN node' /\ node_path \in DOMAIN node'
<1>1. UNCHANGED <<genId, conn, watchers, up>>
  BY DEF M!master_add, M!Request
<1>2. Count' = Count
  BY <1>1 DEF Count, M!Counter
<1>3. CASE node_path \in DOMAIN node
  <2>1. UNCHANGED node
    BY <1>3 DEF M!master_add, M!Exists, M!Fail
  <2> QED BY <1>1, <1>3, <2>1, TreeSame
<1>4. CASE node_path \notin DOMAIN node
  <2>1. M!Valid(node_path) /\ M!CanHold(M!Parent(node_path)) /\ ~M!Exists(node_path)
    BY <1>4, Paths DEF Tree, M!Valid, M!CanHold, M!Exists
  <2>2. M!Insert(node_path, NoOwner, Base)
    BY <2>1 DEF M!master_add
  <2>3. /\ DOMAIN node' = DOMAIN node \cup {node_path}
        /\ node'[node_path] \in NodeRec /\ node'[node_path].owner = NoOwner
        /\ node'[node_path].sub = {}
        /\ \A q \in DOMAIN node : /\ node'[q] \in NodeRec /\ node'[q].owner = node[q].owner
                                  /\ q # base_path => node'[q].sub = node[q].sub
    <3>1. M!Parent(node_path) = base_path /\ M!Leaf(node_path) \in Names
      BY Paths DEF Names
    <3> QED BY <1>4, <2>2, <3>1, Inserted
  <2>4. \A k \in Index : Kid(k) \notin DOMAIN node
    BY <1>4 DEF Tree
  <2>5. \A k \in Index : Kid(k) \notin DOMAIN node'
    BY <2>3, <2>4, KidPaths
  <2>6. Kids = {} /\ Kids' = {}
    BY <1>4, <2>3 DEF Kids
  <2>7. Ready' = Ready
    BY <2>3, Paths DEF Ready
  <2>8. \A p \in DOMAIN node' : node'[p] \in NodeRec
    BY <2>3, Zenon
  <2>9. \A p \in DOMAIN node' \cap {<<>>, base_path, node_path} : node'[p].owner = NoOwner
    BY <2>3 DEF Tree
  <2>10. Ready' => base_path \in DOMAIN node' /\ node'[ready_path].sub = {}
    BY <2>3, <2>7, Paths DEF Tree, Ready
  <2>11. Tree'
    BY <1>1, <1>2, <2>3, <2>5, <2>6, <2>8, <2>9, <2>10 DEF Tree
  <2> QED BY <1>2, <2>3, <2>6, <2>7, <2>11
<1> QED BY <1>3, <1>4

\* tree_node_gen: a child younger than all others.
LEMMA Generates ==
  ASSUME RoundsAssumption, NamesAssumption, Tree, node_path \in DOMAIN node,
         Count < Rounds * number, NEW c \in Client, M!master_gen(c, node_path, Base, TRUE)
  PROVE  /\ Tree' /\ Ready' = Ready /\ DOMAIN node \subseteq DOMAIN node'
         /\ reply' = [status |-> "OK", data |-> {Count}]
         /\ Count' = Count + 1 /\ Kids' = Kids \cup {Count}
<1>1. UNCHANGED <<conn, watchers, up>> /\ Count \in Nat
  BY DEF M!master_gen, M!Request, Tree
<1>2. number \in Nat
  BY FS_CardinalityType DEF RoundsAssumption, number
<1>3. Count \in Index /\ Rounds * number \in Nat
  BY <1>1, <1>2 DEF Index, RoundsAssumption
<1>4. Count \notin Kids
  BY <1>1 DEF Tree
<1>5. Kid(Count) \notin DOMAIN node
  BY <1>3, <1>4 DEF Tree, Kids
<1>6. /\ M!Valid(node_path) /\ M!CanHold(node_path) /\ ~(Count >= Rounds * number)
      /\ ~M!Exists(Append(node_path, Count))
  BY <1>1, <1>3, <1>5, Paths DEF Tree, M!Valid, M!CanHold, M!Exists, Kid
<1>7. /\ genId' = [p \in DOMAIN genId \cup {node_path} |->
                     IF p = node_path THEN Count + 1 ELSE genId[p]]
      /\ M!Insert(Kid(Count), c, Base) /\ M!Answer("OK", {Count})
  BY <1>6 DEF M!master_gen, Count, Kid
<1>8. Count' = Count + 1 /\ DOMAIN genId' \subseteq {node_path}
  BY <1>7 DEF Count, M!Counter, Tree
<1>9. /\ DOMAIN node' = DOMAIN node \cup {Kid(Count)}
      /\ node'[Kid(Count)] \in NodeRec /\ node'[Kid(Count)].sub = {}
      /\ \A q \in DOMAIN node : /\ node'[q] \in NodeRec /\ node'[q].owner = node[q].owner
                                /\ q # node_path => node'[q].sub = node[q].sub
      /\ node'[node_path].sub = node[node_path].sub \cup {Count}
  <2>1. M!Parent(Kid(Count)) = node_path /\ M!Leaf(Kid(Count)) = Count /\ Count \in Names
    BY <1>3, KidPaths DEF Names
  <2> HIDE DEF Count
  <2> QED BY <1>5, <1>7, <2>1, Inserted
<1>10. Kids' = Kids \cup {Count}
  BY <1>9 DEF Kids
<1>11. Ready' = Ready
  BY <1>9, KidPaths DEF Ready
<1>12. \A k \in Index : Kid(k) \in DOMAIN node' <=> Kid(k) \in DOMAIN node \/ k = Count
  BY <1>9, KidPaths
<1>13. node'[node_path].sub = {k \in Index : Kid(k) \in DOMAIN node'}
  <2>1. node[node_path].sub = {k \in Index : Kid(k) \in DOMAIN node}
    BY DEF Tree
  <2> QED BY <1>3, <1>9, <1>12, <2>1
<1>14. \A k \in Index : Kid(k) \in DOMAIN node' =>
         node_path \in DOMAIN node' /\ node'[Kid(k)].sub = {}
  BY <1>9, <1>12, KidPaths DEF Tree
<1>15. \A k \in Kids' : k < Count'
  <2>1. \A k \in Kids : k \in Index
    BY DEF Kids, Tree
  <2> QED BY <1>1, <1>3, <1>8, <1>10, <2>1 DEF Tree, Index
<1>16. \A p \in DOMAIN node' : node'[p] \in NodeRec
  BY <1>9, Zenon
<1>17. \A p \in DOMAIN node' \cap {<<>>, base_path, node_path} : node'[p].owner = NoOwner
  BY <1>9, KidPaths DEF Tree
<1>18. /\ <<>> \in DOMAIN node' /\ base_path \in DOMAIN node'
       /\ DOMAIN node' \subseteq {<<>>, base_path, node_path, ready_path} \cup {Kid(k) : k \in Index}
  BY <1>3, <1>9 DEF Tree
<1>19. Ready' => node'[ready_path].sub = {}
  BY <1>9, <1>11, Paths DEF Tree, Ready
<1>20. Tree'
  BY <1>1, <1>8, <1>13, <1>14, <1>15, <1>16, <1>17, <1>18, <1>19 DEF Tree
<1>21. reply' = [status |-> "OK", data |-> {Count}]
  BY <1>7 DEF M!Answer
<1> QED BY <1>8, <1>9, <1>10, <1>11, <1>20, <1>21

\* tree_node_add of <base>/ready opens the door, and everybody hears of it.
LEMMA AddsReady ==
  ASSUME NamesAssumption, Tree, base_path \in DOMAIN node, ~Ready, NEW c \in Client,
         M!master_add(c, ready_path, Base, TRUE)
  PROVE  /\ Tree' /\ Kids' = Kids /\ Count' = Count /\ Ready' /\ reply'.status = "OK"
         /\ DOMAIN node \subseteq DOMAIN node'
         /\ \A d \in Client : ready_path \in sent'[d]
<1>1. UNCHANGED <<genId, conn, watchers, up>>
  BY DEF M!master_add, M!Request
<1>2. Count' = Count
  BY <1>1 DEF Count, M!Counter
<1>3. M!Valid(ready_path) /\ M!CanHold(M!Parent(ready_path)) /\ ~M!Exists(ready_path)
  BY Paths DEF Tree, Ready, M!Valid, M!CanHold, M!Exists
<1>4. M!Insert(ready_path, c, Base) /\ M!Answer("OK", {}) /\ M!notify_watchers({ready_path})
  BY <1>3 DEF M!master_add
<1>5. /\ DOMAIN node' = DOMAIN node \cup {ready_path}
      /\ node'[ready_path] \in NodeRec /\ node'[ready_path].sub = {}
      /\ \A q \in DOMAIN node : /\ node'[q] \in NodeRec /\ node'[q].owner = node[q].owner
                                /\ q # base_path => node'[q].sub = node[q].sub
  <2>1. M!Parent(ready_path) = base_path /\ M!Leaf(ready_path) \in Names
    BY Paths DEF Names
  <2> QED BY <1>4, <2>1, Inserted DEF Ready
<1>6. Ready'
  BY <1>5 DEF Ready
<1>7. \A k \in Index : Kid(k) \in DOMAIN node' <=> Kid(k) \in DOMAIN node
  BY <1>5, KidPaths
<1>8. node_path \in DOMAIN node' <=> node_path \in DOMAIN node
  BY <1>5, Paths
<1>9. node_path \in DOMAIN node => node'[node_path].sub = node[node_path].sub
  BY <1>5, Paths
<1>10. Kids' = Kids
  BY <1>8, <1>9 DEF Kids
<1>11. node_path \in DOMAIN node' => node'[node_path].sub = {k \in Index : Kid(k) \in DOMAIN node'}
  BY <1>7, <1>8, <1>9 DEF Tree
<1>12. \A k \in Index : Kid(k) \in DOMAIN node' =>
         node_path \in DOMAIN node' /\ node'[Kid(k)].sub = {}
  BY <1>5, <1>7, <1>8, KidPaths DEF Tree
<1>13. \A p \in DOMAIN node' : node'[p] \in NodeRec
  BY <1>5, Zenon
<1>14. \A p \in DOMAIN node' \cap {<<>>, base_path, node_path} : node'[p].owner = NoOwner
  BY <1>5, Paths DEF Tree
<1>15. /\ <<>> \in DOMAIN node' /\ base_path \in DOMAIN node'
       /\ DOMAIN node' \subseteq {<<>>, base_path, node_path, ready_path} \cup {Kid(k) : k \in Index}
  BY <1>5 DEF Tree
<1>16. Tree'
  BY <1>1, <1>2, <1>5, <1>10, <1>11, <1>12, <1>13, <1>14, <1>15 DEF Tree
<1>17. reply'.status = "OK"
  BY <1>4 DEF M!Answer
<1>18. \A d \in Client : ready_path \in sent'[d]
  BY <1>4 DEF M!notify_watchers, Tree
<1> QED BY <1>2, <1>5, <1>6, <1>10, <1>16, <1>17, <1>18

\* tree_node_del of a child; everybody hears of it.
LEMMA Deletes ==
  ASSUME NamesAssumption, Tree, NEW k \in Kids, NEW c \in Client, M!master_del(c, Kid(k))
  PROVE  /\ Tree' /\ Count' = Count /\ Ready' = Ready /\ reply'.status = "OK"
         /\ Kids' = Kids \ {k} /\ DOMAIN node' = DOMAIN node \ {Kid(k)}
         /\ \A d \in Client : Kid(k) \in sent'[d]
<1>1. UNCHANGED <<conn, watchers, up>>
  BY DEF M!master_del, M!Request
<1>2. /\ node_path \in DOMAIN node /\ k \in Index /\ Kid(k) \in DOMAIN node
      /\ node[Kid(k)].sub = {}
  BY DEF Kids, Tree
<1>3. M!Valid(Kid(k)) /\ M!Exists(Kid(k))
  BY <1>2, KidPaths DEF M!Valid, M!Exists
<1>4. /\ M!Remove({Kid(k)}) /\ genId' = [p \in DOMAIN genId \ {Kid(k)} |-> genId[p]]
      /\ M!Answer("OK", {}) /\ M!notify_watchers({Kid(k)})
  BY <1>2, <1>3 DEF M!master_del
<1>5. Count' = Count /\ DOMAIN genId' \subseteq {node_path}
  BY <1>4, KidPaths DEF Count, M!Counter, Tree
<1>6. /\ DOMAIN node' = DOMAIN node \ {Kid(k)}
      /\ \A q \in DOMAIN node' : /\ node'[q] \in NodeRec /\ node'[q].owner = node[q].owner
                                 /\ q # node_path => node'[q].sub = node[q].sub
                                 /\ q = node_path => node'[q].sub = node[q].sub \ {k}
  <2>1. M!Parent(Kid(k)) = node_path /\ M!Leaf(Kid(k)) = k
    BY KidPaths
  <2> QED BY <1>2, <1>4, <2>1, Removed, Zenon
<1>7. node_path \in DOMAIN node' /\ node'[node_path].sub = node[node_path].sub \ {k}
  BY <1>2, <1>6, KidPaths
<1>8. Kids' = Kids \ {k}
  BY <1>2, <1>7 DEF Kids
<1>9. Ready' = Ready
  BY <1>6, KidPaths DEF Ready
<1>10. \A j \in Index : Kid(j) \in DOMAIN node' <=> j # k /\ Kid(j) \in DOMAIN node
  BY <1>6, KidPaths
<1>11. node'[node_path].sub = {j \in Index : Kid(j) \in DOMAIN node'}
  <2>1. node[node_path].sub = {j \in Index : Kid(j) \in DOMAIN node}
    BY <1>2 DEF Tree
  <2> QED BY <1>7, <1>10, <2>1
<1>12. \A j \in Index : Kid(j) \in DOMAIN node' =>
         node_path \in DOMAIN node' /\ node'[Kid(j)].sub = {}
  BY <1>6, <1>7, KidPaths DEF Tree
<1>13. \A p \in DOMAIN node' : node'[p] \in NodeRec
  BY <1>6
<1>14. \A p \in DOMAIN node' \cap {<<>>, base_path, node_path} : node'[p].owner = NoOwner
  BY <1>6 DEF Tree
<1>15. /\ <<>> \in DOMAIN node' /\ base_path \in DOMAIN node'
       /\ DOMAIN node' \subseteq {<<>>, base_path, node_path, ready_path} \cup {Kid(j) : j \in Index}
  BY <1>2, <1>6, KidPaths DEF Tree
<1>16. Ready' => node'[ready_path].sub = {}
  BY <1>6, <1>9, Paths DEF Tree, Ready
<1>17. \A j \in Kids' : j < Count'
  BY <1>5, <1>8 DEF Tree
<1>18. Tree'
  BY <1>1, <1>5, <1>11, <1>12, <1>13, <1>14, <1>15, <1>16, <1>17 DEF Tree
<1>19. reply'.status = "OK"
  BY <1>4 DEF M!Answer
<1>20. \A d \in Client : Kid(k) \in sent'[d]
  BY <1>4 DEF M!notify_watchers, Tree
<1> QED BY <1>5, <1>6, <1>8, <1>9, <1>18, <1>19, <1>20

\* tree_node_del of <base>/ready closes the door; everybody hears of it.
LEMMA DeletesReady ==
  ASSUME NamesAssumption, Tree, Ready, NEW c \in Client, M!master_del(c, ready_path)
  PROVE  /\ Tree' /\ Count' = Count /\ ~Ready' /\ reply'.status = "OK"
         /\ Kids' = Kids /\ DOMAIN node' = DOMAIN node \ {ready_path}
         /\ \A d \in Client : ready_path \in sent'[d]
<1>1. UNCHANGED <<conn, watchers, up>>
  BY DEF M!master_del, M!Request
<1>2. ready_path \in DOMAIN node /\ node[ready_path].sub = {} /\ base_path \in DOMAIN node
  BY DEF Ready, Tree
<1>3. M!Valid(ready_path) /\ M!Exists(ready_path)
  BY <1>2, Paths DEF M!Valid, M!Exists
<1>4. /\ M!Remove({ready_path}) /\ genId' = [p \in DOMAIN genId \ {ready_path} |-> genId[p]]
      /\ M!Answer("OK", {}) /\ M!notify_watchers({ready_path})
  BY <1>2, <1>3 DEF M!master_del
<1>5. Count' = Count /\ DOMAIN genId' \subseteq {node_path}
  BY <1>4, Paths DEF Count, M!Counter, Tree
<1>6. /\ DOMAIN node' = DOMAIN node \ {ready_path}
      /\ \A q \in DOMAIN node' : /\ node'[q] \in NodeRec /\ node'[q].owner = node[q].owner
                                 /\ q # base_path => node'[q].sub = node[q].sub
  <2>1. M!Parent(ready_path) = base_path
    BY Paths
  <2> QED BY <1>2, <1>4, <2>1, Removed
<1>7. /\ node_path \in DOMAIN node' <=> node_path \in DOMAIN node
      /\ node_path \in DOMAIN node => node'[node_path].sub = node[node_path].sub
  BY <1>6, Paths
<1>8. Kids' = Kids
  BY <1>7 DEF Kids
<1>9. ~Ready'
  BY <1>6 DEF Ready
<1>10. \A j \in Index : Kid(j) \in DOMAIN node' <=> Kid(j) \in DOMAIN node
  BY <1>6, KidPaths
<1>11. node_path \in DOMAIN node' => node'[node_path].sub = {j \in Index : Kid(j) \in DOMAIN node'}
  BY <1>7, <1>10 DEF Tree
<1>12. \A j \in Index : Kid(j) \in DOMAIN node' =>
         node_path \in DOMAIN node' /\ node'[Kid(j)].sub = {}
  BY <1>6, <1>7, <1>10, KidPaths DEF Tree
<1>13. \A p \in DOMAIN node' : node'[p] \in NodeRec
  BY <1>6
<1>14. \A p \in DOMAIN node' \cap {<<>>, base_path, node_path} : node'[p].owner = NoOwner
  BY <1>6 DEF Tree
<1>15. /\ <<>> \in DOMAIN node' /\ base_path \in DOMAIN node'
       /\ DOMAIN node' \subseteq {<<>>, base_path, node_path, ready_path} \cup {Kid(j) : j \in Index}
  BY <1>2, <1>6, Paths DEF Tree
<1>16. Tree'
  BY <1>1, <1>5, <1>8, <1>9, <1>11, <1>12, <1>13, <1>14, <1>15 DEF Tree
<1>17. reply'.status = "OK"
  BY <1>4 DEF M!Answer
<1>18. \A d \in Client : ready_path \in sent'[d]
  BY <1>4 DEF M!notify_watchers, Tree
<1> QED BY <1>5, <1>6, <1>8, <1>9, <1>16, <1>17, <1>18

\* tree_node_sub answers with the children, tree_node_get with the door.
LEMMA Subs ==
  ASSUME NamesAssumption, node_path \in DOMAIN node, NEW c \in Client, M!master_sub(c, node_path)
  PROVE  /\ reply'.status = "OK" /\ reply'.data = Kids
         /\ UNCHANGED <<node, genId, conn, watchers, up>>
BY Paths DEF M!master_sub, M!Read, M!Request, M!Valid, M!Exists, M!Answer, Kids

\* tree_node_get answers whether the door is open.
LEMMA Gets ==
  ASSUME NamesAssumption, NEW c \in Client, M!master_get(c, ready_path)
  PROVE  /\ reply'.status = "OK" <=> Ready
         /\ UNCHANGED <<node, genId, conn, watchers, up>>
BY Paths DEF M!master_get, M!Read, M!Request, M!Valid, M!Exists, M!Answer, Ready
-----------------------------------------------------------------------------
\* A step moves one participant to another label.
LEMMA SetPc ==
  ASSUME Types, NEW c \in Client, NEW s \in Labels, Goto(c, s)
  PROVE  pc' \in [Client -> Labels] /\ pc'[c] = s /\ \A d \in Client : d # c => pc'[d] = pc[d]
BY DEF Types, Goto

\* The notifications of a request only add to what a client has to be told.
LEMMA Hears ==
  ASSUME Types, Receive
  PROVE  /\ inbox' \in [Client -> SUBSET {node_path, ready_path}]
         /\ \A d \in Client : inbox[d] \subseteq inbox'[d]
         /\ \A d \in Client, w \in {node_path, ready_path} :
              (\E p \in sent'[d] : Prefix(w, p)) => w \in inbox'[d]
BY DEF Types, Receive

\* There are finitely many participants.
LEMMA Few ==
  ASSUME RoundsAssumption, NEW S \in SUBSET Client
  PROVE  /\ IsFiniteSet(S) /\ Cardinality(S) \in Nat /\ Cardinality(S) <= number
         /\ Cardinality(S) = number => S = Client
         /\ number \in Nat
BY FS_Subset, FS_CardinalityType DEF RoundsAssumption, number

\* One more participant.
LEMMA OneMore ==
  ASSUME RoundsAssumption, NEW S \in SUBSET Client, NEW c \in Client, c \notin S
  PROVE  Cardinality(S \cup {c}) = Cardinality(S) + 1
BY Few, FS_AddElement

\* The children are as many as the participants in the room.
LEMMA KidsCount ==
  ASSUME RoundsAssumption, Types, Children
  PROVE  /\ Cardinality(Kids) = Cardinality(Present)
         /\ Cardinality(Kids) = number <=> Present = Client
         /\ \A c \in Present : Cardinality(Kids) = 1 <=> Present = {c}
<1>1. /\ Present \in SUBSET Client /\ IsFiniteSet(Present) /\ Cardinality(Present) \in Nat
      /\ Cardinality(Present) = number => Present = Client
  BY Few DEF Present
<1> DEFINE f == [c \in Present |-> gen[c]]
<1>2. f \in Bijection(Present, Kids)
  <2>1. f \in [Present -> Kids]
    BY DEF Children
  <2>2. \A c, d \in Present : f[c] = f[d] => c = d
    BY DEF Children
  <2>3. \A k \in Kids : \E c \in Present : f[c] = k
    BY DEF Children
  <2> QED BY <2>1, <2>2, <2>3, Zenon DEF Bijection, Injection, Surjection, IsInjective
<1>3. Cardinality(Kids) = Cardinality(Present)
  BY <1>1, <1>2, FS_Bijection, Zenon DEF ExistsBijection
<1>4. ASSUME NEW c \in Present, Cardinality(Present) = 1 PROVE Present = {c}
  <2>1. PICK x : Present = {x}
    BY <1>1, <1>4, FS_Singleton
  <2> QED BY <2>1
<1>5. ASSUME NEW c \in Present, Present = {c} PROVE Cardinality(Present) = 1
  BY <1>5, FS_Singleton, Zenon
<1> QED BY <1>1, <1>3, <1>4, <1>5 DEF number

\* Among children of whom one is the last generated, that one is the greatest.
LEMMA MaxIsLast ==
  ASSUME Tree, Types, Children, NEW c \in Present, NEW d \in Present, Last(d)
  PROVE  gen[c] = Max(Kids) <=> Last(c)
<1>1. gen[c] \in Kids /\ gen[d] \in Kids /\ gen[c] \in Nat /\ gen[d] \in Nat
  BY DEF Children, Types, Present
<1>2. \A k \in Kids : k \in Int /\ k < Count
  BY DEF Tree, Children, Types, Present
<1>3. Count \in Nat /\ gen[d] + 1 = Count
  BY DEF Tree, Last
<1>4. \A k \in Kids : gen[d] >= k
  BY <1>1, <1>2, <1>3
<1>5. Max(Kids) \in Kids /\ \A k \in Kids : Max(Kids) >= k
  BY <1>1, <1>4, Zenon DEF Max
<1>6. Max(Kids) = gen[d]
  <2>1. Max(Kids) >= gen[d] /\ gen[d] >= Max(Kids) /\ Max(Kids) \in Int
    BY <1>1, <1>2, <1>4, <1>5, Zenon
  <2> QED BY <1>1, <2>1
<1> QED BY <1>1, <1>3, <1>6 DEF Last

\* Rounds and participants, multiplied.
LEMMA Times ==
  ASSUME NEW r \in Nat, NEW n \in Nat
  PROVE  r * n \in Nat /\ (r + 1) * n = r * n + n /\ 0 * n = 0
OBVIOUS

\* A participant that is not the last of the last round is within all of them.
LEMMA TimesLess ==
  ASSUME NEW r \in Nat, NEW R \in Nat, r < R, NEW n \in Nat, NEW k \in Nat, k < n
  PROVE  r * n + k < R * n
<1>1. PICK j \in Nat : R = r + 1 + j
  <2>1. R - r - 1 \in Nat /\ R = r + 1 + (R - r - 1)
    OBVIOUS
  <2> QED BY <2>1
<1>2. r * n \in Nat /\ j * n \in Nat
  OBVIOUS
<1>3. (r + 1 + j) * n = r * n + n + j * n
  OBVIOUS
<1> QED BY <1>1, <1>2, <1>3
-----------------------------------------------------------------------------

\* Steps that leave room and door as they are, and what makes them.
Moves == {<<"idle", "fresh">>, <<"fresh", "freshwait">>, <<"fresh", "base">>, <<"base", "node">>,
          <<"node", "gen">>, <<"lead", "open">>, <<"alone", "alonewait">>, <<"alone", "delete">>,
          <<"follow", "leave">>, <<"follow", "followwait">>, <<"freshwait", "fresh">>,
          <<"alonewait", "alone">>, <<"followwait", "follow">>, <<"return", "idle">>}
Allowed(c, s) ==
  /\ <<pc[c], s>> \in Moves
  /\ s = "base" => ~Ready
  /\ s = "leave" => Ready
  /\ s = "node" => base_path \in DOMAIN node'
  /\ s = "gen" => node_path \in DOMAIN node'
  /\ s = "delete" => \A d \in Client : d # c => pc[d] \in Through

\* Such a step keeps what the invariant says of room, door and rounds.
LEMMA RoomStays ==
  ASSUME IInv, NEW c \in Client, NEW s \in Labels, Goto(c, s), Allowed(c, s),
         UNCHANGED <<gen, entered>>, Kids' = Kids, Ready' = Ready, Count' = Count,
         DOMAIN node \subseteq DOMAIN node'
  PROVE  /\ Present' = Present /\ Built' /\ Lead1' /\ Children' /\ (\E r \in Nat : Round(r))'
         /\ pc' \in [Client -> Labels] /\ pc'[c] = s /\ \A d \in Client : d # c => pc'[d] = pc[d]
<1>1. pc' \in [Client -> Labels] /\ pc'[c] = s /\ \A d \in Client : d # c => pc'[d] = pc[d]
  BY SetPc DEF IInv
<1>2. /\ s \in Room <=> pc[c] \in Room
      /\ s \in Doors <=> pc[c] \in Doors
      /\ s \in {"lead", "open"} <=> pc[c] \in {"lead", "open"}
      /\ s \in Waiters => pc[c] \in Waiters /\ pc[c] # "sub"
      /\ pc[c] # "sub" /\ s # "sub" /\ s # "close" /\ pc[c] # "close" /\ pc[c] # "delete"
      /\ pc[c] \in Waiters => s \in Waiters \cup {"leave"}
      /\ pc[c] \in Through => s \in Through \cup {"base"}
      /\ pc[c] \in Coming => s \in Coming
      /\ pc[c] # "leave" /\ s # "lead"
  BY DEF Allowed, Moves, Waiters, Room, Coming, Through, Doors
<1>3. Present' = Present
  BY <1>1, <1>2 DEF Present
<1>4. Built'
  <2>1. \A d \in Client : pc'[d] = "node" => base_path \in DOMAIN node'
    BY <1>1 DEF IInv, Built, Allowed
  <2>2. \A d \in Client : pc'[d] \in Room \cup {"gen", "close"} => node_path \in DOMAIN node'
    BY <1>1, <1>2 DEF IInv, Built, Allowed
  <2> QED BY <2>1, <2>2 DEF Built
<1>5. Lead1'
  <2>1. Lead1
    BY DEF IInv
  <2>2. Ready' <=> \E d \in Client : pc'[d] \in Doors
    BY <1>1, <1>2, <2>1 DEF Lead1
  <2>3. \A d, e \in Client : pc'[d] \in Leading /\ pc'[e] \in Leading => d = e
    BY <1>1, <1>2, <2>1 DEF Lead1, Leading
  <2>4. ASSUME NEW d \in Client, NEW e \in Client, pc'[d] \in {"lead", "open"}, e # d
        PROVE  pc'[e] \in Waiters
    <3>1. pc[d] \in {"lead", "open"} /\ pc[e] \in Waiters
      BY <1>1, <1>2, <2>1, <2>4 DEF Lead1
    <3>2. ~Ready
      BY <2>1, <3>1 DEF Lead1, Waiters, Doors
    <3> QED BY <1>1, <1>2, <3>1, <3>2 DEF Allowed
  <2>5. ASSUME NEW d \in Client, NEW e \in Client, pc'[d] \in Doors, e # d
        PROVE  pc'[e] \in Waiters \cup {"leave"} \cup Through
    <3>1. pc[d] \in Doors /\ pc[e] \in Waiters \cup {"leave"} \cup Through
      BY <1>1, <1>2, <2>1, <2>5 DEF Lead1
    <3>2. Ready
      BY <2>1, <3>1 DEF Lead1
    <3> QED BY <1>1, <1>2, <3>1, <3>2 DEF Allowed
  <2>6. ASSUME NEW d \in Client, NEW e \in Client, pc'[d] \in {"delete", "close"}, e # d
        PROVE  pc'[e] \in Through
    <3>1. CASE d = c
      BY <1>1, <1>2, <2>6, <3>1 DEF Allowed
    <3>2. CASE d # c
      <4>1. pc[d] \in {"delete", "close"} /\ pc[e] \in Through
        BY <1>1, <2>1, <2>6, <3>2 DEF Lead1
      <4>2. Ready
        BY <2>1, <4>1 DEF Lead1, Doors
      <4> QED BY <1>1, <1>2, <4>1, <4>2 DEF Allowed
    <3> QED BY <3>1, <3>2
  <2>7. \A d \in Client : pc'[d] = "leave" => Ready'
    BY <1>1, <2>1 DEF Lead1, Allowed
  <2> QED BY <2>2, <2>3, <2>4, <2>5, <2>6, <2>7 DEF Lead1
<1>6. Children'
  <2>1. Children
    BY DEF IInv
  <2>2. \A d \in Present : pc'[d] \in Leading => pc[d] \in Leading
    BY <1>1, <1>2 DEF Present, Leading
  <2>3. \A d : Last(d)' <=> Last(d)
    BY DEF Last
  <2>4. ASSUME Client # {}, \A d \in Client : pc'[d] \in Waiters, ~Ready'
        PROVE  \E d \in Client : pc'[d] = "sub" /\ Last(d)'
    <3>1. \A d \in Client : pc[d] \in Waiters
      BY <1>1, <1>2, <2>4
    <3>2. PICK d \in Client : pc[d] = "sub" /\ Last(d)
      BY <2>1, <2>4, <3>1 DEF Children
    <3> QED BY <1>1, <1>2, <2>3, <3>2
  <2> QED BY <1>3, <2>1, <2>2, <2>3, <2>4 DEF Children
<1>7. (\E r \in Nat : Round(r))'
  BY <1>3 DEF IInv, Round
<1> QED BY <1>1, <1>3, <1>4, <1>5, <1>6, <1>7

\* The other conjuncts, in a step that leaves room and door as they are.
LEMMA CallsStay ==
  ASSUME IInv, NEW c \in Client, NEW s \in Labels, Goto(c, s), Allowed(c, s),
         pc[c] # "idle", pc[c] # "return", UNCHANGED <<entered, left>>
  PROVE  Returned'
<1>1. pc'[c] = s /\ \A d \in Client : d # c => pc'[d] = pc[d]
  BY SetPc DEF IInv
<1>2. /\ s \in Room \cup {"close", "return"} <=> pc[c] \in Room \cup {"close", "return"}
      /\ s # "idle"
  BY DEF Allowed, Moves, Waiters, Room
<1> QED BY <1>1, <1>2 DEF IInv, Returned

\* Nobody who sleeps is forgotten while room and door stay as they are.
LEMMA WakesStay ==
  ASSUME IInv, NEW c \in Client, \A d \in Client : d # c => pc'[d] = pc[d],
         Ready' = Ready, Present' = Present,
         \A d \in Client : inbox[d] \subseteq inbox'[d], woken \ {c} \subseteq woken',
         /\ pc'[c] = "freshwait" => Ready
         /\ pc'[c] = "followwait" => ~Ready
         /\ pc'[c] = "alonewait" => Present # {c}
  PROVE  Wakes'
<1>1. \A d \in Client : \A w : d # c /\ Told(d, w) => Told(d, w)'
  BY DEF Told
<1>2. \A d \in Client : pc'[d] = "freshwait" /\ ~Ready' => Told(d, ready_path)'
  BY <1>1 DEF IInv, Wakes
<1>3. \A d \in Client : pc'[d] = "followwait" /\ Ready' => Told(d, ready_path)'
  BY <1>1 DEF IInv, Wakes
<1>4. \A d \in Client : pc'[d] = "alonewait" /\ Present' = {d} => Told(d, node_path)'
  BY <1>1 DEF IInv, Wakes
<1> QED BY <1>2, <1>3, <1>4 DEF Wakes

\* barrier is called, and watches the door.
LEMMA EnterStep ==
  ASSUME IInv, NEW c \in Client, Enter(c)
  PROVE  IInv'
<1>1. Tree /\ Types /\ Returned /\ Watchful
  BY DEF IInv
<1>2. pc[c] = "idle" /\ Goto(c, "fresh") /\ UNCHANGED <<node, genId, conn, watchers, up>>
  BY DEF Enter, Quiet
<1>3. Tree' /\ Kids' = Kids /\ Count' = Count /\ Ready' = Ready
  BY <1>1, <1>2, TreeSame
<1>4. UNCHANGED <<inbox, gen, entered, left>> /\ left[c] < Rounds
  BY DEF Enter
<1>5. Allowed(c, "fresh")
  BY <1>2 DEF Allowed, Moves
<1>6. /\ Present' = Present /\ Built' /\ Lead1' /\ Children' /\ (\E r \in Nat : Round(r))'
      /\ pc' \in [Client -> Labels] /\ pc'[c] = "fresh"
      /\ \A d \in Client : d # c => pc'[d] = pc[d]
  BY <1>2, <1>3, <1>4, <1>5, RoomStays DEF Through, Labels
<1>7. /\ watches' \in [Client -> SUBSET {node_path, ready_path}] /\ woken' \subseteq Client
      /\ watches'[c] = {ready_path} /\ \A d \in Client : d # c => watches'[d] = watches[d]
  BY <1>1 DEF Enter, Types
<1>8. Types'
  BY <1>1, <1>4, <1>6, <1>7 DEF Types
<1>9. Returned'
  BY <1>1, <1>2, <1>4, <1>6 DEF Returned, Waiters, Room
<1>10. Watchful'
  BY <1>1, <1>6, <1>7 DEF Watchful
<1>11. woken \ {c} \subseteq woken' /\ \A d \in Client : inbox[d] \subseteq inbox'[d]
  BY <1>4 DEF Enter
<1>12. Wakes'
  BY <1>3, <1>6, <1>11, WakesStay, Zenon
<1> QED BY <1>3, <1>6, <1>8, <1>9, <1>10, <1>12 DEF IInv

\* A look at the tree, or the addition of a node that stays.
LEMMA LookStep ==
  ASSUME IInv, NEW c \in Client, NEW s \in Labels, Goto(c, s), Allowed(c, s), pc[c] # "idle",
         pc[c] # "return", s # "open", Receive, UNCHANGED local,
         Tree', Kids' = Kids, Count' = Count, Ready' = Ready, DOMAIN node \subseteq DOMAIN node',
         s = "freshwait" => Ready, s = "followwait" => ~Ready, s = "alonewait" => Present # {c}
  PROVE  IInv'
<1>1. Types /\ Watchful
  BY DEF IInv
<1>2. UNCHANGED <<gen, watches, woken, entered, left>>
  BY Zenon DEF local
<1>3. /\ Present' = Present /\ Built' /\ Lead1' /\ Children' /\ (\E r \in Nat : Round(r))'
      /\ pc' \in [Client -> Labels] /\ pc'[c] = s
      /\ \A d \in Client : d # c => pc'[d] = pc[d]
  BY <1>2, RoomStays, Zenon
<1>4. /\ inbox' \in [Client -> SUBSET {node_path, ready_path}]
      /\ \A d \in Client : inbox[d] \subseteq inbox'[d]
  BY <1>1, Hears, Zenon
<1>5. Types'
  BY <1>1, <1>2, <1>3, <1>4 DEF Types
<1>6. Returned'
  BY <1>2, CallsStay
<1>7. Watchful'
  <2>1. s \in {"alone", "alonewait", "delete"} => pc[c] \in {"open", "alone", "alonewait", "delete"}
    BY DEF Allowed, Moves
  <2> QED BY <1>1, <1>2, <1>3, <2>1 DEF Watchful
<1>8. Wakes'
  BY <1>2, <1>3, <1>4, WakesStay
<1> QED BY <1>3, <1>5, <1>6, <1>7, <1>8 DEF IInv

\* A participant looks whether the previous round's door is closed.
LEMMA FreshStep ==
  ASSUME NamesAssumption, IInv, NEW c \in Client, Fresh(c)
  PROVE  IInv'
<1>1. /\ pc[c] = "fresh" /\ Receive /\ UNCHANGED local /\ M!master_get(c, ready_path)
      /\ Goto(c, IF reply'.status = "OK" THEN "freshwait" ELSE "base")
  BY DEF Fresh, Ask, Ok
<1>2. /\ reply'.status = "OK" <=> Ready
      /\ UNCHANGED <<node, genId, conn, watchers, up>>
  BY <1>1, Gets
<1>3. Tree' /\ Kids' = Kids /\ Count' = Count /\ Ready' = Ready
  BY <1>2, TreeSame DEF IInv
<1>4. CASE Ready
  <2>1. Goto(c, "freshwait") /\ Allowed(c, "freshwait")
    BY <1>1, <1>2, <1>4 DEF Allowed, Moves
  <2> QED BY <1>1, <1>2, <1>3, <1>4, <2>1, LookStep DEF Through, Labels
<1>5. CASE ~Ready
  <2>1. Goto(c, "base") /\ Allowed(c, "base")
    BY <1>1, <1>2, <1>5 DEF Allowed, Moves
  <2> QED BY <1>1, <1>2, <1>3, <1>5, <2>1, LookStep DEF Coming, Labels
<1> QED BY <1>4, <1>5

\* Whoever comes first creates the barrier's node; to the others it is there.
LEMMA AddBaseStep ==
  ASSUME NamesAssumption, IInv, NEW c \in Client, AddBase(c)
  PROVE  IInv'
<1>1. /\ pc[c] = "base" /\ Receive /\ UNCHANGED local /\ Goto(c, "node")
      /\ M!master_add(c, base_path, Base, FALSE)
  <2>1. /\ Ask(c, "base", "node", "node") /\ UNCHANGED local
        /\ M!master_add(c, base_path, Base, FALSE)
    BY Zenon DEF AddBase
  <2>2. pc[c] = "base" /\ Receive /\ Goto(c, "node")
    BY <2>1 DEF Ask, Goto
  <2> QED BY <2>1, <2>2, Zenon
<1>2. /\ Tree' /\ Kids' = Kids /\ Count' = Count /\ Ready' = Ready
      /\ DOMAIN node \subseteq DOMAIN node' /\ base_path \in DOMAIN node'
  BY <1>1, AddsBase, Zenon DEF IInv
<1>3. Allowed(c, "node")
  BY <1>1, <1>2 DEF Allowed, Moves
<1> QED BY <1>1, <1>2, <1>3, LookStep DEF Coming, Labels

\* Whoever comes first creates the room; to the others it is there.
LEMMA AddNodeStep ==
  ASSUME NamesAssumption, IInv, NEW c \in Client, AddNode(c)
  PROVE  IInv'
<1>1. /\ pc[c] = "node" /\ Receive /\ UNCHANGED local /\ Goto(c, "gen")
      /\ M!master_add(c, node_path, Base, FALSE)
  <2>1. /\ Ask(c, "node", "gen", "gen") /\ UNCHANGED local
        /\ M!master_add(c, node_path, Base, FALSE)
    BY Zenon DEF AddNode
  <2>2. pc[c] = "node" /\ Receive /\ Goto(c, "gen")
    BY <2>1 DEF Ask, Goto
  <2> QED BY <2>1, <2>2, Zenon
<1>2. base_path \in DOMAIN node
  BY <1>1 DEF IInv, Built
<1>3. /\ Tree' /\ Kids' = Kids /\ Count' = Count /\ Ready' = Ready
      /\ DOMAIN node \subseteq DOMAIN node' /\ node_path \in DOMAIN node'
  BY <1>1, <1>2, AddsNode, Zenon DEF IInv
<1>4. Allowed(c, "gen")
  BY <1>1, <1>3 DEF Allowed, Moves
<1> QED BY <1>1, <1>3, <1>4, LookStep DEF Coming, Labels

\* The leader counts who is left in the room.
LEMMA AloneStep ==
  ASSUME RoundsAssumption, NamesAssumption, IInv, NEW c \in Client, Alone(c)
  PROVE  IInv'
<1>1. /\ pc[c] = "alone" /\ Receive /\ UNCHANGED local /\ M!master_sub(c, node_path)
      /\ Goto(c, IF reply'.status # "OK" THEN "aborted"
                 ELSE IF Cardinality(reply'.data) = 1 THEN "delete" ELSE "alonewait")
  BY DEF Alone, Ok
<1>2. node_path \in DOMAIN node
  BY <1>1 DEF IInv, Built, Room
<1>3. /\ reply'.status = "OK" /\ reply'.data = Kids
      /\ UNCHANGED <<node, genId, conn, watchers, up>>
  BY <1>1, <1>2, Subs
<1>4. Tree' /\ Kids' = Kids /\ Count' = Count /\ Ready' = Ready
  BY <1>3, TreeSame DEF IInv
<1>5. c \in Present
  BY <1>1 DEF Present, Room
<1>6. Cardinality(Kids) = 1 <=> Present = {c}
  BY <1>5, KidsCount DEF IInv
<1>7. CASE Present = {c}
  <2>1. \A d \in Client : d # c => pc[d] \in Through
    <3>1. \A d \in Client : d # c => pc[d] \notin Room
      BY <1>7 DEF Present
    <3>2. \A d \in Client : d # c => pc[d] \in Waiters \cup {"leave"} \cup Through
      BY <1>1 DEF IInv, Lead1, Doors
    <3> QED BY <3>1, <3>2 DEF Room
  <2>2. Goto(c, "delete") /\ Allowed(c, "delete")
    BY <1>1, <1>3, <1>6, <1>7, <2>1 DEF Allowed, Moves
  <2> QED BY <1>1, <1>3, <1>4, <2>2, LookStep DEF Room, Labels
<1>8. CASE Present # {c}
  <2>1. Goto(c, "alonewait") /\ Allowed(c, "alonewait")
    BY <1>1, <1>3, <1>6, <1>8 DEF Allowed, Moves
  <2> QED BY <1>1, <1>3, <1>4, <1>8, <2>1, LookStep DEF Room, Labels
<1> QED BY <1>7, <1>8

\* A follower looks at the door.
LEMMA FollowStep ==
  ASSUME NamesAssumption, IInv, NEW c \in Client, Follow(c)
  PROVE  IInv'
<1>1. /\ pc[c] = "follow" /\ Receive /\ UNCHANGED local /\ M!master_get(c, ready_path)
      /\ Goto(c, IF reply'.status = "OK" THEN "leave" ELSE "followwait")
  BY DEF Follow, Ask, Ok
<1>2. /\ reply'.status = "OK" <=> Ready
      /\ UNCHANGED <<node, genId, conn, watchers, up>>
  BY <1>1, Gets
<1>3. Tree' /\ Kids' = Kids /\ Count' = Count /\ Ready' = Ready
  BY <1>2, TreeSame DEF IInv
<1>4. CASE Ready
  <2>1. Goto(c, "leave") /\ Allowed(c, "leave")
    BY <1>1, <1>2, <1>4 DEF Allowed, Moves
  <2> QED BY <1>1, <1>2, <1>3, <1>4, <2>1, LookStep DEF Room, Labels
<1>5. CASE ~Ready
  <2>1. Goto(c, "followwait") /\ Allowed(c, "followwait")
    BY <1>1, <1>2, <1>5 DEF Allowed, Moves
  <2> QED BY <1>1, <1>2, <1>3, <1>5, <2>1, LookStep DEF Waiters, Room, Labels
<1> QED BY <1>4, <1>5

\* The leader watches the room before it opens the door.
LEMMA LeadStep ==
  ASSUME IInv, NEW c \in Client, Lead(c)
  PROVE  IInv'
<1>1. Tree /\ Types /\ Watchful
  BY DEF IInv
<1>2. pc[c] = "lead" /\ Goto(c, "open") /\ UNCHANGED <<node, genId, conn, watchers, up>>
  BY DEF Lead, Quiet
<1>3. Tree' /\ Kids' = Kids /\ Count' = Count /\ Ready' = Ready
  BY <1>1, <1>2, TreeSame
<1>4. UNCHANGED <<inbox, gen, woken, entered, left>>
  BY DEF Lead
<1>5. Allowed(c, "open")
  BY <1>2 DEF Allowed, Moves
<1>6. /\ Present' = Present /\ Built' /\ Lead1' /\ Children' /\ (\E r \in Nat : Round(r))'
      /\ pc' \in [Client -> Labels] /\ pc'[c] = "open"
      /\ \A d \in Client : d # c => pc'[d] = pc[d]
  BY <1>2, <1>3, <1>4, <1>5, RoomStays DEF Room, Labels
<1>7. /\ watches' \in [Client -> SUBSET {node_path, ready_path}]
      /\ watches'[c] = watches[c] \cup {node_path}
      /\ \A d \in Client : d # c => watches'[d] = watches[d]
  BY <1>1 DEF Lead, Types
<1>8. Types'
  BY <1>1, <1>4, <1>6, <1>7 DEF Types
<1>9. Returned'
  BY <1>2, <1>4, <1>5, CallsStay DEF Room, Labels
<1>10. Watchful'
  BY <1>1, <1>2, <1>6, <1>7 DEF Watchful
<1>11. Wakes'
  BY <1>3, <1>4, <1>6, WakesStay
<1> QED BY <1>3, <1>6, <1>8, <1>9, <1>10, <1>11 DEF IInv

\* A sleeper whose watcher's version has changed looks again.
LEMMA WakeStep ==
  ASSUME IInv, NEW c \in Client, Wake(c)
  PROVE  IInv'
<1>1. Tree /\ Types /\ Watchful
  BY DEF IInv
<1>2. PICK s \in {"fresh", "alone", "follow"} :
        /\ Goto(c, s)
        /\ <<pc[c], s>> \in {<<"freshwait", "fresh">>, <<"alonewait", "alone">>,
                             <<"followwait", "follow">>}
  BY DEF Wake
<1>3. UNCHANGED <<node, genId, conn, watchers, up, inbox, gen, watches, entered, left>>
      /\ woken' = woken \ {c}
  BY DEF Wake, Quiet
<1>4. Tree' /\ Kids' = Kids /\ Count' = Count /\ Ready' = Ready
  BY <1>1, <1>3, TreeSame
<1>5. Allowed(c, s) /\ s \in Labels /\ pc[c] # "idle" /\ pc[c] # "return"
  BY <1>2 DEF Allowed, Moves, Waiters, Room, Through, Labels
<1>6. /\ Present' = Present /\ Built' /\ Lead1' /\ Children' /\ (\E r \in Nat : Round(r))'
      /\ pc' \in [Client -> Labels] /\ pc'[c] = s
      /\ \A d \in Client : d # c => pc'[d] = pc[d]
  BY <1>2, <1>3, <1>4, <1>5, RoomStays
<1>7. Types'
  BY <1>1, <1>3, <1>6 DEF Types
<1>8. Returned'
  BY <1>2, <1>3, <1>5, CallsStay
<1>9. Watchful'
  BY <1>1, <1>2, <1>3, <1>6 DEF Watchful
<1>10. Wakes'
  <2>1. pc'[c] \notin {"freshwait", "followwait", "alonewait"}
    BY <1>6
  <2> QED BY <1>3, <1>4, <1>6, <2>1, WakesStay
<1> QED BY <1>4, <1>6, <1>7, <1>8, <1>9, <1>10 DEF IInv

\* barrier returns.
LEMMA ReturnStep ==
  ASSUME RoundsAssumption, IInv, NEW c \in Client, Return(c)
  PROVE  IInv'
<1>1. Tree /\ Types /\ Watchful /\ Returned
  BY DEF IInv
<1>2. pc[c] = "return" /\ Goto(c, "idle") /\ UNCHANGED <<node, genId, conn, watchers, up>>
  BY DEF Return, Quiet
<1>3. Tree' /\ Kids' = Kids /\ Count' = Count /\ Ready' = Ready
  BY <1>1, <1>2, TreeSame
<1>4. UNCHANGED <<inbox, gen, woken, entered>>
  BY DEF Return
<1>5. Allowed(c, "idle")
  BY <1>2 DEF Allowed, Moves
<1>6. /\ Present' = Present /\ Built' /\ Lead1' /\ Children' /\ (\E r \in Nat : Round(r))'
      /\ pc' \in [Client -> Labels] /\ pc'[c] = "idle"
      /\ \A d \in Client : d # c => pc'[d] = pc[d]
  BY <1>2, <1>3, <1>4, <1>5, RoomStays DEF Through, Labels
<1>7. /\ watches' \in [Client -> SUBSET {node_path, ready_path}]
      /\ \A d \in Client : d # c => watches'[d] = watches[d]
      /\ left' \in [Client -> Nat] /\ left'[c] = left[c] + 1
      /\ \A d \in Client : d # c => left'[d] = left[d]
  BY <1>1 DEF Return, Types
<1>8. Types'
  BY <1>1, <1>4, <1>6, <1>7 DEF Types
<1>9. Returned'
  <2>1. left[c] \in Nat /\ left[c] < Rounds /\ entered[c] = left[c] + 1 /\ Rounds \in Nat
    BY <1>1, <1>2 DEF Returned, Types, RoundsAssumption
  <2> QED BY <1>1, <1>4, <1>6, <1>7, <2>1 DEF Returned, Waiters, Room
<1>10. Watchful'
  BY <1>1, <1>6, <1>7, Zenon DEF Watchful
<1>11. Wakes'
  BY <1>3, <1>4, <1>6, WakesStay, Zenon
<1> QED BY <1>3, <1>6, <1>8, <1>9, <1>10, <1>11 DEF IInv
=============================================================================
