-------------------------- MODULE MasterLockProofs --------------------------
(***************************************************************************)
(* Proof that acquire_lock and release_lock of MasterClient.cpp are sound, *)
(* for any number of processes, threads and calls, although processes      *)
(* crash and the master notices late.  The lemmas of the first part say    *)
(* what each request does to the lock's node and its children; the others  *)
(* argue about the threads with the set of children alone.                 *)
(***************************************************************************)
EXTENDS MasterLock, FiniteSetTheorems,
        WellFoundedInduction, TLAPS

Index == 0 .. MaxGen - 1
Count == M!Counter(LockPath)
Kid(k) == Append(LockPath, k)
Kids == IF LockPath \in DOMAIN node THEN node[LockPath].sub ELSE {}
Owner(k) == node[Kid(k)].owner
NodeRec == [owner : Client \cup {NoOwner}, value : {Lock}, sub : SUBSET ({Lock} \cup Index)]

\* The master's tree holds the lock's node and its children, each of a connected
\* client and older than the counter.
Tree ==
  /\ DOMAIN node \subseteq {<<>>, LockPath} \cup {Kid(k) : k \in Index}
  /\ <<>> \in DOMAIN node /\ node[<<>>].owner = NoOwner
  /\ \A p \in DOMAIN node : node[p] \in NodeRec
  /\ LockPath \in DOMAIN node =>
       node[LockPath].owner = NoOwner /\ node[LockPath].sub = {k \in Index : Kid(k) \in DOMAIN node}
  /\ \A k \in Index : Kid(k) \in DOMAIN node =>
       LockPath \in DOMAIN node /\ Owner(k) \in conn /\ node[Kid(k)].sub = {}
  /\ \A k \in Kids : k < Count
  /\ DOMAIN genId \subseteq {LockPath} /\ Count \in Nat
  /\ conn = watchers /\ conn \subseteq Client /\ up = TRUE

Labels == {"idle", "gen", "watch", "check", "decide", "sleep", "cancel", "emplace", "held",
           "delete", "erase", "dead", "aborted"}
Types ==
  /\ pc \in [Thread -> Labels] /\ gen \in [Thread -> Nat]
  /\ watching \subseteq Thread /\ woken \subseteq Thread /\ inbox \subseteq Client
  /\ acquired \in [Client -> SUBSET Nat] /\ mtx \in [Client -> Nat]

\* A thread in a call has its connection and the lock's node, ...
Alive ==
  /\ \A t \in Thread : pc[t] \notin {"idle", "dead"} => t[1] \in conn /\ LockPath \in DOMAIN node
  /\ \A t, u \in Thread : pc[t] = "dead" /\ t[1] = u[1] => pc[u] = "dead"
\* ... from its place in the queue on a child of its own, ...
Queue ==
  /\ \A t \in Thread : pc[t] \in Queued \cup Inside => gen[t] \in Kids /\ Owner(gen[t]) = t[1]
  /\ \A t, u \in Thread :
       pc[t] \in Queued \cup Inside /\ pc[u] \in Queued \cup Inside /\ gen[t] = gen[u] => t = u
\* ... and when it was granted the lock the first one.
Granted == \A t \in Thread : pc[t] \in Inside => \A k \in Kids : gen[t] <= k

\* _acquired_lock and _client_mtx.
Holding == {"held", "delete", "erase"}
Table ==
  /\ \A t \in Thread : pc[t] \in {"held", "delete"} => acquired[t[1]] = {gen[t]}
  /\ \A t \in Thread : pc[t] = "erase" => acquired[t[1]] # {}
  /\ \A c \in Client :
       acquired[c] # {} => \E t \in Thread : t[1] = c /\ pc[t] \in Holding \cup {"dead"}
  /\ \A t, u \in Thread : pc[t] \in Holding /\ pc[u] \in Holding /\ t[1] = u[1] => t = u
  /\ \A t \in Thread : pc[t] \in {"delete", "erase"} => mtx[t[1]] = t[2]

Watchful == \A t \in Thread : pc[t] \in {"check", "decide", "sleep", "cancel"} => t \in watching
Woken ==
  \A t \in Thread : pc[t] \in {"decide", "sleep"} /\ (\A k \in Kids : gen[t] <= k)
                      => t \in woken \/ t[1] \in inbox
\* Every child has the thread that made it, or its crashed process's connection.
Owned(k) ==
  \E t \in Thread : /\ gen[t] = k /\ Owner(k) = t[1]
                    /\ pc[t] \in Queued \cup Inside \/ (pc[t] = "dead" /\ t[1] \in conn)
Children == \A k \in Kids : Owned(k)

\* The names that calls are about to generate are within the bound.
Generating == {u \in Thread : At(u, "gen")}
Budget == Count + Cardinality(Generating) <= MaxGen

IInv ==
  /\ Tree /\ Types /\ Alive /\ Queue /\ Granted /\ Table /\ Watchful /\ Woken /\ Children
  /\ NoAbort /\ Budget
-----------------------------------------------------------------------------
USE DEF M!Root

\* The last element of a sequence that was appended to.
LEMMA AppendLast ==
  ASSUME NEW S, NEW s \in Seq(S), NEW e \in S
  PROVE  Append(s, e)[Len(s) + 1] = e
OBVIOUS

\* The paths that the lock uses.
LEMMA Paths ==
  /\ LockPath # <<>> /\ M!Parent(LockPath) = <<>> /\ M!Leaf(LockPath) = Lock
  /\ \A k : /\ Kid(k) # <<>> /\ Kid(k) # LockPath
            /\ M!Parent(Kid(k)) = LockPath /\ M!Leaf(Kid(k)) = k
  /\ \A j, k : Kid(j) = Kid(k) => j = k
<1>1. LockPath # <<>> /\ M!Leaf(LockPath) = Lock
  BY DEF LockPath, M!Leaf
<1>2. M!Parent(LockPath) = <<>>
  BY DEF LockPath, M!Parent
<1>3. ASSUME NEW k
      PROVE  /\ Kid(k) # <<>> /\ Kid(k) # LockPath
             /\ M!Parent(Kid(k)) = LockPath /\ M!Leaf(Kid(k)) = k
  <2> DEFINE S == {Lock, k}
  <2>1. LockPath \in Seq(S) /\ Len(LockPath) = 1 /\ LockPath[1] = Lock /\ k \in S
    BY DEF LockPath
  <2> HIDE DEF S
  <2>2. /\ Kid(k) \in Seq(S) /\ Kid(k) # <<>> /\ Len(Kid(k)) = 2
        /\ Kid(k)[1] = Lock /\ Kid(k)[2] = k
    <3>1. Append(LockPath, k) \in Seq(S)
      BY <2>1
    <3>2. Len(Append(LockPath, k)) = 2
      BY <2>1
    <3>3. Append(LockPath, k)[1] = Lock
      BY <2>1
    <3>4. Append(LockPath, k)[2] = k
      <4>1. Append(LockPath, k)[Len(LockPath) + 1] = k
        BY <2>1, AppendLast, Zenon
      <4>2. Len(LockPath) + 1 = 2
        BY <2>1
      <4> QED BY <4>1, <4>2
    <3>5. Append(LockPath, k) # <<>>
      BY <3>2
    <3> QED BY <3>1, <3>2, <3>3, <3>4, <3>5 DEF Kid
  <2>3. SubSeq(Kid(k), 1, 1) = LockPath
    <3> DEFINE z == SubSeq(Kid(k), 1, 1)
    <3>1. \A i \in 1 .. 1 : Kid(k)[i] \in S
      BY <2>2
    <3>2. z \in Seq(S) /\ Len(z) = 1 /\ z[1] = Lock
      BY <2>2, <3>1
    <3> HIDE DEF z
    <3>4. \A i \in 1 .. Len(z) : z[i] = LockPath[i]
      BY <2>1, <3>2
    <3>5. z = LockPath
      BY <2>1, <3>2, <3>4
    <3> QED BY <3>5 DEF z
  <2> QED BY <2>1, <2>2, <2>3 DEF M!Parent, M!Leaf
<1>4. ASSUME NEW j, NEW k, Kid(j) = Kid(k) PROVE j = k
  BY <1>3, <1>4
<1> QED BY <1>1, <1>2, <1>3, <1>4

\* A step that leaves the tree alone.
LEMMA TreeSame ==
  ASSUME Tree, UNCHANGED <<node, genId, up>>, conn' = watchers', conn \subseteq conn',
         conn' \subseteq Client
  PROVE  /\ Tree' /\ Kids' = Kids /\ Count' = Count
         /\ \A k : Owner(k)' = Owner(k)
BY DEF Tree, Kids, Owner, Count, M!Counter

\* tree_node_add of the lock's node, by whoever comes first.
LEMMA Adds ==
  ASSUME ThreadsAssumption, Tree, NEW c \in Client, M!master_add(c, LockPath, Lock, FALSE)
  PROVE  /\ Tree' /\ LockPath \in DOMAIN node' /\ Kids' = Kids /\ Count' = Count /\ conn' = conn
         /\ \A k \in Kids : Owner(k)' = Owner(k)
<1>1. UNCHANGED <<genId, conn, watchers, up>>
  BY DEF M!master_add, M!Request
<1>2. Count' = Count
  BY <1>1 DEF Count, M!Counter
<1>3. CASE LockPath \in DOMAIN node
  <2>1. UNCHANGED node
    BY <1>3 DEF M!master_add, M!Exists, M!Fail
  <2> QED BY <1>1, <1>3, <2>1, TreeSame DEF Tree
<1>4. CASE LockPath \notin DOMAIN node
  <2>1. M!Valid(LockPath) /\ M!CanHold(M!Parent(LockPath)) /\ ~M!Exists(LockPath)
    BY <1>4, Paths DEF Tree, M!Valid, M!CanHold, M!Exists
  <2>2. M!Insert(LockPath, NoOwner, Lock)
    BY <2>1 DEF M!master_add
  <2>3. /\ DOMAIN node' = DOMAIN node \cup {LockPath}
        /\ node'[LockPath] = [owner |-> NoOwner, value |-> Lock, sub |-> {}]
        /\ node'[<<>>] = [node[<<>>] EXCEPT !.sub = @ \cup {Lock}]
        /\ \A p \in DOMAIN node : p # <<>> => node'[p] = node[p]
    BY <2>2, <1>4, Paths DEF M!Insert, Tree
  <2>4. node[<<>>] \in NodeRec /\ node[<<>>].owner = NoOwner
    BY DEF Tree
  <2>5. node'[<<>>] \in NodeRec /\ node'[<<>>].owner = NoOwner
    BY <2>3, <2>4 DEF NodeRec
  <2>6. \A k \in Index : Kid(k) \notin DOMAIN node'
    BY <1>4, <2>3, Paths DEF Tree
  <2>7. node'[LockPath].sub = {} /\ node'[LockPath].owner = NoOwner /\ node'[LockPath] \in NodeRec
    BY <2>3 DEF NodeRec
  <2>8. Kids = {} /\ Kids' = {}
    BY <1>4, <2>3, <2>7 DEF Kids
  <2>9. \A p \in DOMAIN node' : node'[p] \in NodeRec
    BY <2>3, <2>5, <2>7, Zenon DEF Tree
  <2>10. Tree'
    BY <1>1, <1>2, <2>3, <2>5, <2>6, <2>7, <2>8, <2>9 DEF Tree
  <2> QED BY <1>1, <1>2, <2>3, <2>8, <2>10
<1> QED BY <1>3, <1>4

\* tree_node_gen: a child of the caller's, younger than all others; everybody
\* hears of it.
LEMMA Generates ==
  ASSUME ThreadsAssumption, Tree, LockPath \in DOMAIN node, Count < MaxGen, NEW c \in Client,
         M!master_gen(c, LockPath, Lock, TRUE)
  PROVE  /\ Tree' /\ LockPath \in DOMAIN node' /\ conn' = conn
         /\ reply' = [status |-> "OK", data |-> {Count}]
         /\ Count' = Count + 1 /\ Count \notin Kids /\ Kids' = Kids \cup {Count}
         /\ node'[Kid(Count)].owner = c /\ \A k \in Kids : Owner(k)' = Owner(k)
         /\ \A d \in conn : sent'[d] # {}
<1>1. UNCHANGED <<conn, watchers, up>> /\ c \in conn /\ Count \in Nat /\ Count \in Index
  BY DEF M!master_gen, M!Request, Tree, Index, ThreadsAssumption
<1>2. Count \notin Kids
  BY <1>1 DEF Tree
<1>3. Kid(Count) \notin DOMAIN node
  BY <1>1, <1>2 DEF Tree, Kids
<1>4. /\ M!Valid(LockPath) /\ M!CanHold(LockPath) /\ ~(Count >= MaxGen)
      /\ ~M!Exists(Append(LockPath, Count))
  BY <1>1, <1>3, Paths DEF Tree, M!Valid, M!CanHold, M!Exists, Kid, ThreadsAssumption
<1>5. /\ genId' = [p \in DOMAIN genId \cup {LockPath} |->
                     IF p = LockPath THEN Count + 1 ELSE genId[p]]
      /\ M!Insert(Kid(Count), c, Lock) /\ M!Answer("OK", {Count})
      /\ M!notify_watchers({Kid(Count)})
  BY <1>4 DEF M!master_gen, Count, Kid
<1>6. Count' = Count + 1 /\ DOMAIN genId' \subseteq {LockPath}
  BY <1>5 DEF Count, M!Counter, Tree
<1>7. /\ DOMAIN node' = DOMAIN node \cup {Kid(Count)}
      /\ node'[Kid(Count)] = [owner |-> c, value |-> Lock, sub |-> {}]
      /\ node'[LockPath] = [node[LockPath] EXCEPT !.sub = @ \cup {Count}]
      /\ \A p \in DOMAIN node : p # LockPath => node'[p] = node[p]
  BY <1>3, <1>5, Paths, Zenon DEF M!Insert
<1>8. node[LockPath] \in NodeRec /\ node[LockPath].owner = NoOwner
  BY DEF Tree
<1>9. /\ node'[LockPath] \in NodeRec /\ node'[LockPath].owner = NoOwner
      /\ node'[LockPath].sub = node[LockPath].sub \cup {Count}
  BY <1>1, <1>7, <1>8 DEF NodeRec
<1>10. Kids' = Kids \cup {Count}
  BY <1>7, <1>9 DEF Kids
<1>11. /\ node'[Kid(Count)].owner = c /\ node'[Kid(Count)].sub = {}
       /\ node'[Kid(Count)] \in NodeRec
  BY <1>7 DEF NodeRec
<1>12. \A k \in Index : k # Count => (Kid(k) \in DOMAIN node' <=> Kid(k) \in DOMAIN node)
  BY <1>7, Paths
<1>13. \A k \in Index : Kid(k) \in DOMAIN node => node'[Kid(k)] = node[Kid(k)]
  BY <1>7, Paths
<1>14. \A k \in Kids : k \in Index /\ Kid(k) \in DOMAIN node
  BY DEF Kids, Tree
<1>15. \A k \in Kids : Owner(k)' = Owner(k)
  BY <1>1, <1>6, <1>11, <1>13, <1>14, Zenon DEF Owner
<1>16. node'[LockPath].sub = {k \in Index : Kid(k) \in DOMAIN node'}
  <2>1. node[LockPath].sub = {k \in Index : Kid(k) \in DOMAIN node}
    BY DEF Tree
  <2> QED BY <1>1, <1>7, <1>9, <1>12, <2>1
<1>17. \A k \in Kids' : k < Count'
  BY <1>1, <1>6, <1>10, <1>14 DEF Tree, Index
<1>18. \A p \in DOMAIN node' : node'[p] \in NodeRec
  BY <1>7, <1>9, <1>11, Zenon DEF Tree
<1>19. \A k \in Index : Kid(k) \in DOMAIN node' =>
         LockPath \in DOMAIN node' /\ node'[Kid(k)].owner \in conn' /\ node'[Kid(k)].sub = {}
  BY <1>1, <1>7, <1>11, <1>12, <1>13 DEF Tree, Owner
<1>20. <<>> \in DOMAIN node' /\ node'[<<>>].owner = NoOwner
       /\ DOMAIN node' \subseteq {<<>>, LockPath} \cup {Kid(k) : k \in Index}
  BY <1>1, <1>7, Paths DEF Tree
<1>21. Tree'
  BY <1>1, <1>6, <1>9, <1>16, <1>17, <1>18, <1>19, <1>20 DEF Tree, Owner
<1>22. \A d \in conn : sent'[d] # {}
  BY <1>5, Zenon DEF M!notify_watchers, Tree
<1>23. reply' = [status |-> "OK", data |-> {Count}]
  BY <1>5 DEF M!Answer
<1> QED BY <1>1, <1>2, <1>6, <1>7, <1>10, <1>11, <1>15, <1>21, <1>22, <1>23
\* tree_node_del of a child; everybody hears of it.
LEMMA Deletes ==
  ASSUME ThreadsAssumption, Tree, NEW k \in Kids, NEW c \in Client, M!master_del(c, Kid(k))
  PROVE  /\ Tree' /\ conn' = conn /\ reply'.status = "OK" /\ Count' = Count
         /\ DOMAIN node' = DOMAIN node \ {Kid(k)} /\ Kids' = Kids \ {k}
         /\ \A j \in Kids' : Owner(j)' = Owner(j)
         /\ \A d \in conn : sent'[d] # {}
<1>1. UNCHANGED <<conn, watchers, up>>
  BY DEF M!master_del, M!Request
<1>2. /\ LockPath \in DOMAIN node /\ k \in Index /\ Kid(k) \in DOMAIN node
      /\ node[Kid(k)].sub = {}
  BY DEF Kids, Tree
<1>3. M!Valid(Kid(k)) /\ M!Exists(Kid(k))
  BY <1>2, Paths DEF M!Valid, M!Exists
<1>4. /\ M!Remove({Kid(k)}) /\ genId' = [p \in DOMAIN genId \ {Kid(k)} |-> genId[p]]
      /\ M!Answer("OK", {}) /\ M!notify_watchers({Kid(k)})
  BY <1>2, <1>3 DEF M!master_del
<1>5. Count' = Count /\ DOMAIN genId' \subseteq {LockPath}
  BY <1>4, Paths DEF Count, M!Counter, Tree
<1>6. /\ DOMAIN node' = DOMAIN node \ {Kid(k)}
      /\ \A q \in DOMAIN node' :
           node'[q] = [node[q] EXCEPT
                         !.sub = @ \ {M!Leaf(p) : p \in {r \in {Kid(k)} : M!Parent(r) = q}}]
  BY <1>4 DEF M!Remove
<1>7. \A q \in DOMAIN node : node[q] \in NodeRec
  BY DEF Tree
<1>8. \A q \in DOMAIN node' :
        /\ node'[q] \in NodeRec /\ node'[q].owner = node[q].owner
        /\ node'[q].sub = node[q].sub \ {M!Leaf(p) : p \in {r \in {Kid(k)} : M!Parent(r) = q}}
  BY <1>6, <1>7 DEF NodeRec
<1>9. {M!Leaf(p) : p \in {r \in {Kid(k)} : M!Parent(r) = LockPath}} = {k}
  BY Paths
<1>10. LockPath \in DOMAIN node' /\ node'[LockPath].sub = node[LockPath].sub \ {k}
  BY <1>2, <1>6, <1>8, <1>9, Paths
<1>11. Kids' = Kids \ {k}
  BY <1>2, <1>10 DEF Kids
<1>12. \A j \in Index : Kid(j) \in DOMAIN node' <=> j # k /\ Kid(j) \in DOMAIN node
  BY <1>6, Paths
<1>13. node'[LockPath].sub = {j \in Index : Kid(j) \in DOMAIN node'}
  <2>1. node[LockPath].sub = {j \in Index : Kid(j) \in DOMAIN node}
    BY <1>2 DEF Tree
  <2> QED BY <1>10, <1>12, <2>1
<1>14. \A j \in Index : Kid(j) \in DOMAIN node' =>
         LockPath \in DOMAIN node' /\ node'[Kid(j)].owner \in conn' /\ node'[Kid(j)].sub = {}
  BY <1>1, <1>8, <1>10, <1>12 DEF Tree, Owner
<1>15. \A j \in Kids' : j \in Index /\ Kid(j) \in DOMAIN node'
  BY <1>10, <1>13 DEF Kids
<1>16. \A j \in Kids' : Owner(j)' = Owner(j)
  BY <1>8, <1>15 DEF Owner
<1>17. \A j \in Kids' : j < Count'
  BY <1>5, <1>11 DEF Tree
<1>18. /\ <<>> \in DOMAIN node' /\ node'[<<>>].owner = NoOwner /\ node'[LockPath].owner = NoOwner
       /\ DOMAIN node' \subseteq {<<>>, LockPath} \cup {Kid(j) : j \in Index}
  BY <1>6, <1>8, <1>10, Paths DEF Tree
<1>19. Tree'
  BY <1>1, <1>5, <1>8, <1>13, <1>14, <1>17, <1>18 DEF Tree, Owner
<1>20. reply'.status = "OK" /\ \A d \in conn : sent'[d] # {}
  BY <1>4 DEF M!Answer, M!notify_watchers, Tree
<1> QED BY <1>1, <1>5, <1>6, <1>11, <1>16, <1>19, <1>20

\* The master closes a client's connection: its children go, and everybody else
\* hears of it.
LEMMA Disconnects ==
  ASSUME ThreadsAssumption, Tree, NEW c \in Client, M!Disconnect(c)
  PROVE  /\ Tree' /\ conn' = conn \ {c} /\ Count' = Count
         /\ (LockPath \in DOMAIN node => LockPath \in DOMAIN node')
         /\ Kids' = {k \in Kids : Owner(k) # c}
         /\ \A k \in Kids' : Owner(k)' = Owner(k)
         /\ Kids' # Kids => \A d \in conn : sent'[d] # {}
<1> DEFINE P == {p \in DOMAIN node : node[p].owner = c}
           Gone(q) == {M!Leaf(p) : p \in {r \in P : M!Parent(r) = q}}
<1>1. /\ conn' = conn \ {c} /\ watchers' = watchers \ {c} /\ UNCHANGED <<genId, up>>
      /\ M!Remove(P) /\ M!notify_watchers(P)
  BY DEF M!Disconnect, M!disconnect_clear_data
<1>2. /\ <<>> \notin P /\ LockPath \notin P
      /\ \A k \in Index : Kid(k) \in P <=> Kid(k) \in DOMAIN node /\ Owner(k) = c
  BY DEF Tree, ThreadsAssumption, Owner
<1>3. Count' = Count
  BY <1>1 DEF Count, M!Counter
<1>4. /\ DOMAIN node' = DOMAIN node \ P
      /\ \A q \in DOMAIN node' : node'[q] = [node[q] EXCEPT !.sub = @ \ Gone(q)]
  BY <1>1 DEF M!Remove
<1>5. \A q \in DOMAIN node : node[q] \in NodeRec
  BY DEF Tree
<1>6. \A k \in Index : Kid(k) \in P <=> k \in Gone(LockPath)
  <2>1. \A k \in Index : Kid(k) \in P => k \in Gone(LockPath)
    BY Paths
  <2>2. ASSUME NEW k \in Index, NEW r \in P, M!Parent(r) = LockPath, k = M!Leaf(r)
        PROVE  Kid(k) \in P
    <3>1. r # <<>> /\ r # LockPath /\ r \in DOMAIN node
      BY <1>2, <2>2
    <3>2. PICK j \in Index : r = Kid(j)
      BY <3>1 DEF Tree
    <3> QED BY <2>2, <3>2, Paths
  <2> QED BY <2>1, <2>2
<1> HIDE DEF P, Gone
<1>7. \A q \in DOMAIN node' :
        /\ node'[q] \in NodeRec /\ node'[q].owner = node[q].owner
        /\ node'[q].sub = node[q].sub \ Gone(q)
  BY <1>4, <1>5 DEF NodeRec
<1>8. \A k \in Index : Kid(k) \in DOMAIN node' <=> Kid(k) \in DOMAIN node /\ Owner(k) # c
  BY <1>2, <1>4
<1>9. LockPath \in DOMAIN node =>
        /\ LockPath \in DOMAIN node' /\ node'[LockPath].owner = NoOwner
        /\ node'[LockPath].sub = {k \in Index : Kid(k) \in DOMAIN node'}
  <2> SUFFICES ASSUME LockPath \in DOMAIN node
               PROVE  /\ LockPath \in DOMAIN node' /\ node'[LockPath].owner = NoOwner
                      /\ node'[LockPath].sub = {k \in Index : Kid(k) \in DOMAIN node'}
    OBVIOUS
  <2>1. /\ node[LockPath].owner = NoOwner
        /\ node[LockPath].sub = {k \in Index : Kid(k) \in DOMAIN node}
    BY DEF Tree
  <2>2. LockPath \in DOMAIN node'
    BY <1>2, <1>4
  <2>3. node'[LockPath].sub = {k \in Index : Kid(k) \in DOMAIN node} \ Gone(LockPath)
    BY <1>7, <2>1, <2>2
  <2> QED BY <1>2, <1>6, <1>7, <1>8, <2>1, <2>2, <2>3
<1>10. LockPath \in DOMAIN node' => LockPath \in DOMAIN node
  BY <1>4
<1>11. Kids = {k \in Index : Kid(k) \in DOMAIN node}
  BY DEF Kids, Tree
<1>12. Kids' = {k \in Index : Kid(k) \in DOMAIN node'}
  <2>1. CASE LockPath \in DOMAIN node
    BY <2>1, <1>9 DEF Kids
  <2>2. CASE LockPath \notin DOMAIN node
    BY <2>2, <1>8, <1>10 DEF Kids, Tree
  <2> QED BY <2>1, <2>2
<1>13. Kids' = {k \in Kids : Owner(k) # c}
  BY <1>8, <1>11, <1>12
<1>14. \A k \in Kids' : Owner(k)' = Owner(k)
  BY <1>7, <1>12 DEF Owner
<1>15. \A k \in Index : Kid(k) \in DOMAIN node' =>
         LockPath \in DOMAIN node' /\ node'[Kid(k)].owner \in conn' /\ node'[Kid(k)].sub = {}
  BY <1>1, <1>7, <1>8, <1>9 DEF Tree, Owner
<1>16. /\ <<>> \in DOMAIN node' /\ node'[<<>>].owner = NoOwner
       /\ DOMAIN node' \subseteq {<<>>, LockPath} \cup {Kid(k) : k \in Index}
  BY <1>2, <1>4, <1>7 DEF Tree
<1>17. \A k \in Kids' : k < Count'
  BY <1>3, <1>13 DEF Tree
<1>18. Tree'
  BY <1>1, <1>3, <1>7, <1>9, <1>10, <1>15, <1>16, <1>17 DEF Tree, Owner
<1>19. Kids' # Kids => \A d \in conn : sent'[d] # {}
  <2> SUFFICES ASSUME Kids' # Kids, NEW d \in conn PROVE sent'[d] # {}
    OBVIOUS
  <2>1. PICK k \in Kids : Owner(k) = c
    BY <1>13
  <2>2. Kid(k) \in P
    BY <1>2, <1>11, <2>1
  <2> QED BY <1>1, <2>2 DEF M!notify_watchers, Tree
<1> QED BY <1>1, <1>3, <1>9, <1>13, <1>14, <1>18, <1>19

\* tree_node_sub answers with the children.
LEMMA Subs ==
  ASSUME Tree, LockPath \in DOMAIN node, NEW c \in Client, M!master_sub(c, LockPath)
  PROVE  /\ reply'.status = "OK" /\ reply'.data = Kids
         /\ UNCHANGED <<node, genId, conn, watchers, up>>
BY Paths DEF M!master_sub, M!Read, M!Request, M!Valid, M!Exists, M!Answer, Kids
-----------------------------------------------------------------------------
\* The parts of a thread's name.
LEMMA ThreadParts ==
  /\ \A t \in Thread : t[1] \in Client /\ t[2] \in 1 .. Threads
  /\ \A t, u \in Thread : t[1] = u[1] /\ t[2] = u[2] => t = u
  /\ \A c \in Client, i \in 1 .. Threads : <<c, i>> \in Thread
BY DEF Thread

\* A step moves one thread to another label.
LEMMA SetPc ==
  ASSUME Types, NEW t \in Thread, NEW s \in Labels, Goto(t, s)
  PROVE  pc' \in [Thread -> Labels] /\ pc'[t] = s /\ \A u \in Thread : u # t => pc'[u] = pc[u]
BY DEF Types, Goto

\* The least child is the one that Min gives.
LEMMA MinIsFirst ==
  ASSUME NEW S \in SUBSET Nat, NEW x \in S
  PROVE  x = Min(S) <=> \A y \in S : x <= y
<1>1. PICK m \in S : \A y \in S : m <= y
  <2> DEFINE R == {ss \in Nat \X Nat : ss[1] < ss[2]}
  <2>1. IsWellFoundedOn(R, Nat)
    BY NatLessThanWellFounded DEF OpToRel
  <2> HIDE DEF R
  <2>2. PICK m \in S : \A y \in S : ~(<<y, m>> \in R)
    BY <2>1, WFMin, Zenon
  <2>3. ASSUME NEW y \in S PROVE m <= y
    <3>1. <<y, m>> \in Nat \X Nat /\ <<y, m>>[1] = y /\ <<y, m>>[2] = m
      OBVIOUS
    <3>2. ~(y < m)
      BY <2>2, <3>1 DEF R
    <3>3. y \in Nat /\ m \in Nat
      OBVIOUS
    <3> QED BY <3>2, <3>3
  <2> QED BY <2>3
<1>2. Min(S) \in S /\ \A y \in S : Min(S) <= y
  BY <1>1, Zenon DEF Min
<1>3. ASSUME \A y \in S : x <= y PROVE x = Min(S)
  <2>1. x <= Min(S) /\ Min(S) <= x /\ Min(S) \in Nat /\ x \in Nat
    BY <1>2, <1>3, Zenon
  <2> QED BY <2>1
<1> QED BY <1>2, <1>3

\* The children of the lock are numbered.
LEMMA KidsType ==
  ASSUME ThreadsAssumption, Tree
  PROVE  Kids \in SUBSET Nat /\ Kids \in SUBSET Index
BY DEF Tree, Kids, Index, ThreadsAssumption

\* There are finitely many threads.
LEMMA FewThreads ==
  ASSUME ThreadsAssumption, NEW S \in SUBSET Thread
  PROVE  IsFiniteSet(S) /\ Cardinality(S) \in Nat
<1>1. IsFiniteSet(1 .. Threads)
  BY FS_Interval DEF ThreadsAssumption
<1>2. IsFiniteSet(Thread)
  BY <1>1, FS_Product DEF Thread, ThreadsAssumption
<1> QED BY <1>2, FS_Subset, FS_CardinalityType

\* No more calls are about to generate a name.
LEMMA BudgetKept ==
  ASSUME ThreadsAssumption, Tree, Budget, Count' = Count, Generating' \subseteq Generating
  PROVE  Budget'
<1>1. Generating \in SUBSET Thread /\ Generating' \in SUBSET Thread
  BY DEF Generating
<1>2. Cardinality(Generating') <= Cardinality(Generating)
  BY <1>1, FewThreads, FS_Subset
<1>3. Cardinality(Generating') \in Nat /\ Cardinality(Generating) \in Nat /\ Count \in Nat
  BY <1>1, FewThreads DEF Tree
<1> QED BY <1>2, <1>3 DEF Budget, ThreadsAssumption

Waiting == Queued \cup {"cancel", "emplace"}

\* A step of a thread from one place in the queue to another.
LEMMA WaitMoves ==
  ASSUME ThreadsAssumption, IInv, NEW t \in Thread, NEW s \in Waiting, pc[t] \in Waiting,
         Goto(t, s), UNCHANGED <<node, genId, conn, watchers, up, gen, acquired, mtx>>
  PROVE  /\ Tree' /\ Alive' /\ Queue' /\ Table' /\ Children' /\ NoAbort' /\ Budget'
         /\ Kids' = Kids
         /\ pc' \in [Thread -> Labels] /\ pc'[t] = s /\ \A u \in Thread : u # t => pc'[u] = pc[u]
<1> USE DEF Waiting, Queued, Inside
<1>1. Tree /\ Types
  BY DEF IInv
<1>2. Tree' /\ Kids' = Kids /\ Count' = Count /\ \A k : Owner(k)' = Owner(k)
  BY <1>1, TreeSame DEF Tree
<1>3. pc' \in [Thread -> Labels] /\ pc'[t] = s /\ \A u \in Thread : u # t => pc'[u] = pc[u]
  BY <1>1, SetPc DEF Labels
<1>4. Alive'
  BY <1>3 DEF IInv, Alive
<1>5. Queue'
  BY <1>2, <1>3 DEF IInv, Queue, Owner
<1>6. Table'
  <2>1. \A u \in Thread : pc'[u] \in Holding \cup {"dead"} <=> pc[u] \in Holding \cup {"dead"}
    BY <1>3 DEF Holding
  <2>2. \A u \in Thread : pc'[u] \in Holding \cup {"dead"} => pc'[u] = pc[u]
    BY <1>3 DEF Holding
  <2> QED BY <2>1, <2>2 DEF IInv, Table, Holding
<1>7. Children'
  <2> SUFFICES ASSUME NEW k \in Kids PROVE Owned(k)'
    BY <1>2 DEF Children
  <2>1. PICK u \in Thread : /\ gen[u] = k /\ Owner(k) = u[1]
                            /\ pc[u] \in Queued \cup Inside \/ (pc[u] = "dead" /\ u[1] \in conn)
    BY DEF IInv, Children, Owned
  <2>2. pc'[u] \in Queued \cup Inside \/ (pc'[u] = "dead" /\ u[1] \in conn')
    BY <1>3, <2>1
  <2> QED BY <1>2, <2>1, <2>2 DEF Owned
<1>8. NoAbort'
  BY <1>3 DEF IInv, NoAbort
<1>9. Budget'
  <2>1. Generating' \subseteq Generating
    BY <1>3 DEF Generating, At
  <2> QED BY <1>1, <1>2, <2>1, BudgetKept DEF IInv
<1> QED BY <1>2, <1>3, <1>4, <1>5, <1>6, <1>7, <1>8, <1>9

\* acquire_lock: the watcher is registered before the children are read.
LEMMA WatchStep ==
  ASSUME ThreadsAssumption, IInv, NEW t \in Thread, Watch(t)
  PROVE  IInv'
<1>1. /\ pc[t] = "watch" /\ Goto(t, "check")
      /\ watching' = watching \cup {t} /\ woken' = woken \ {t}
      /\ UNCHANGED <<node, genId, conn, watchers, up, gen, acquired, mtx, inbox>>
  BY DEF Watch, Quiet, At
<1>2. "check" \in Waiting /\ pc[t] \in Waiting
  BY <1>1 DEF Waiting, Queued
<1>3. /\ Tree' /\ Alive' /\ Queue' /\ Table' /\ Children' /\ NoAbort' /\ Budget' /\ Kids' = Kids
      /\ pc' \in [Thread -> Labels] /\ pc'[t] = "check"
      /\ \A u \in Thread : u # t => pc'[u] = pc[u]
  BY <1>1, <1>2, WaitMoves
<1>4. Types'
  BY <1>1, <1>3 DEF IInv, Types
<1>5. Granted' /\ Watchful' /\ Woken'
  BY <1>1, <1>3 DEF IInv, Types, Granted, Watchful, Woken, Inside
<1> QED BY <1>3, <1>4, <1>5 DEF IInv

\* acquire_lock: the children are read; the first one goes in, the others wait.
LEMMA CheckStep ==
  ASSUME ThreadsAssumption, IInv, NEW t \in Thread, Check(t)
  PROVE  IInv'
<1>1. /\ pc[t] = "check" /\ M!master_sub(t[1], LockPath)
      /\ UNCHANGED <<gen, watching, woken, acquired, mtx>>
      /\ inbox' = inbox \cup {c \in Client : sent'[c] # {}}
  BY DEF Check, At, Receive, local
<1>2. Tree /\ LockPath \in DOMAIN node /\ t[1] \in Client
  BY <1>1, ThreadParts DEF IInv, Alive
<1>3. /\ reply'.status = "OK" /\ reply'.data = Kids
      /\ UNCHANGED <<node, genId, conn, watchers, up>>
  BY <1>1, <1>2, Subs
<1>4. gen[t] \in Kids /\ Kids \in SUBSET Nat
  BY <1>1, <1>2, KidsType DEF IInv, Queue, Queued
<1>5. gen[t] = Min(Kids) <=> \A y \in Kids : gen[t] <= y
  BY <1>4, MinIsFirst, Zenon
<1> DEFINE s == IF gen[t] = Min(Kids) THEN "cancel" ELSE "decide"
<1>6. Goto(t, s) /\ s \in Waiting /\ pc[t] \in Waiting
  BY <1>1, <1>3 DEF Check, Waiting, Queued
<1> HIDE DEF s
<1>7. /\ Tree' /\ Alive' /\ Queue' /\ Table' /\ Children' /\ NoAbort' /\ Budget' /\ Kids' = Kids
      /\ pc' \in [Thread -> Labels] /\ pc'[t] = s
      /\ \A u \in Thread : u # t => pc'[u] = pc[u]
  BY <1>1, <1>3, <1>6, WaitMoves
<1>8. Types'
  BY <1>1, <1>7 DEF IInv, Types
<1>9. s \in {"cancel", "decide"} /\ (s = "cancel" => \A y \in Kids : gen[t] <= y)
      /\ (s = "decide" => ~\A y \in Kids : gen[t] <= y)
  BY <1>5 DEF s
<1>10. Granted'
  BY <1>1, <1>7, <1>9 DEF IInv, Granted, Inside
<1>11. Watchful'
  BY <1>1, <1>7 DEF IInv, Watchful
<1>12. Woken'
  BY <1>1, <1>7, <1>9 DEF IInv, Woken
<1> QED BY <1>7, <1>8, <1>10, <1>11, <1>12 DEF IInv

\* Going to sleep, waking up and cancelling the watch.
LEMMA RestStep ==
  ASSUME ThreadsAssumption, IInv, NEW t \in Thread, Sleep(t) \/ Wake(t) \/ CancelWatch(t)
  PROVE  IInv'
<1>1. /\ UNCHANGED <<node, genId, conn, watchers, up, gen, acquired, mtx, inbox>>
  BY DEF Sleep, Wake, CancelWatch, Quiet, local
<1>2. PICK s \in {"sleep", "check", "emplace"} :
        /\ Goto(t, s)
        /\ \/ /\ s = "sleep" /\ pc[t] = "decide" /\ UNCHANGED <<watching, woken>>
           \/ /\ s = "check" /\ pc[t] = "sleep" /\ woken' = woken \ {t} /\ UNCHANGED watching
           \/ /\ s = "emplace" /\ pc[t] = "cancel" /\ watching' = watching \ {t} /\ UNCHANGED woken
  BY DEF Sleep, Wake, CancelWatch, local, At
<1>3. s \in Waiting /\ pc[t] \in Waiting
  BY <1>2 DEF Waiting, Queued
<1>4. /\ Tree' /\ Alive' /\ Queue' /\ Table' /\ Children' /\ NoAbort' /\ Budget' /\ Kids' = Kids
      /\ pc' \in [Thread -> Labels] /\ pc'[t] = s
      /\ \A u \in Thread : u # t => pc'[u] = pc[u]
  BY <1>1, <1>2, <1>3, WaitMoves
<1>5. Types'
  BY <1>1, <1>2, <1>4 DEF IInv, Types
<1>6. Granted'
  BY <1>1, <1>2, <1>4 DEF IInv, Granted, Inside
<1>7. Watchful'
  BY <1>1, <1>2, <1>4 DEF IInv, Watchful
<1>8. Woken'
  BY <1>1, <1>2, <1>4 DEF IInv, Woken
<1> QED BY <1>4, <1>5, <1>6, <1>7, <1>8 DEF IInv
\* A thread starts a call; the lock's node is there afterwards.
LEMMA AddStep ==
  ASSUME ThreadsAssumption, IInv, NEW t \in Thread, AddLockNode(t)
  PROVE  IInv'
<1> USE DEF Queued, Inside
<1>1. /\ pc[t] = "idle" /\ Count + Cardinality(Generating) < MaxGen
      /\ M!master_add(t[1], LockPath, Lock, FALSE) /\ Goto(t, "gen")
      /\ inbox' = inbox \cup {c \in Client : sent'[c] # {}}
      /\ UNCHANGED <<gen, watching, woken, acquired, mtx>>
  BY Zenon DEF AddLockNode, At, Count, Generating, Receive, local
<1>2. Tree /\ Types /\ t[1] \in Client
  BY ThreadParts DEF IInv
<1>3. /\ Tree' /\ LockPath \in DOMAIN node' /\ Kids' = Kids /\ Count' = Count /\ conn' = conn
      /\ \A k \in Kids : Owner(k)' = Owner(k)
  BY <1>1, <1>2, Adds, Zenon
<1>4. pc' \in [Thread -> Labels] /\ pc'[t] = "gen" /\ \A u \in Thread : u # t => pc'[u] = pc[u]
  BY <1>1, <1>2, SetPc DEF Labels
<1>5. Types'
  BY <1>1, <1>2, <1>4 DEF Types
<1>6. Alive'
  <2>1. t[1] \in conn
    BY <1>1 DEF M!master_add, M!Request
  <2>2. \A u \in Thread : u[1] = t[1] => pc[u] # "dead"
    BY <1>1 DEF IInv, Alive
  <2> QED BY <1>3, <1>4, <2>1, <2>2 DEF IInv, Alive
<1>7. Queue'
  <2>1. \A u \in Thread : pc'[u] \in Queued \cup Inside => u # t /\ pc[u] \in Queued \cup Inside
    BY <1>4
  <2>2. \A u \in Thread :
          pc'[u] \in Queued \cup Inside => gen'[u] \in Kids' /\ Owner(gen[u])' = u[1]
    <3> SUFFICES ASSUME NEW u \in Thread, pc'[u] \in Queued \cup Inside
                 PROVE  gen'[u] \in Kids' /\ Owner(gen[u])' = u[1]
      OBVIOUS
    <3>1. gen[u] \in Kids /\ Owner(gen[u]) = u[1]
      BY <2>1 DEF IInv, Queue
    <3> QED BY <1>1, <1>3, <3>1, Zenon DEF Owner
  <2> QED BY <1>1, <2>1, <2>2 DEF IInv, Queue, Owner
<1>8. Granted' /\ Watchful' /\ Woken' /\ NoAbort'
  BY <1>1, <1>3, <1>4 DEF IInv, Granted, Watchful, Woken, NoAbort
<1>9. Table'
  <2>1. \A u \in Thread : pc'[u] \in Holding \cup {"dead"} <=> pc[u] \in Holding \cup {"dead"}
    BY <1>1, <1>4 DEF Holding
  <2>2. \A u \in Thread : pc'[u] \in Holding \cup {"dead"} => pc'[u] = pc[u]
    BY <1>4 DEF Holding
  <2> QED BY <1>1, <2>1, <2>2 DEF IInv, Table, Holding
<1>10. Children'
  <2> SUFFICES ASSUME NEW k \in Kids PROVE Owned(k)'
    BY <1>3 DEF Children
  <2>1. PICK u \in Thread : /\ gen[u] = k /\ Owner(k) = u[1]
                            /\ pc[u] \in Queued \cup Inside \/ (pc[u] = "dead" /\ u[1] \in conn)
    BY DEF IInv, Children, Owned
  <2>2. pc'[u] \in Queued \cup Inside \/ (pc'[u] = "dead" /\ u[1] \in conn')
    BY <1>1, <1>3, <1>4, <2>1
  <2> QED BY <1>1, <1>3, <2>1, <2>2, Zenon DEF Owned
<1>11. Budget'
  <2>1. Generating' = Generating \cup {t} /\ t \notin Generating /\ Generating \in SUBSET Thread
    BY <1>1, <1>4 DEF Generating, At
  <2>2. IsFiniteSet(Generating) /\ Cardinality(Generating) \in Nat /\ Count \in Nat
    BY <1>2, <2>1, FewThreads DEF Tree
  <2>3. Cardinality(Generating') = Cardinality(Generating) + 1
    BY <2>1, <2>2, FS_AddElement
  <2> QED BY <1>1, <1>3, <2>2, <2>3 DEF Budget, ThreadsAssumption
<1> QED BY <1>3, <1>5, <1>6, <1>7, <1>8, <1>9, <1>10, <1>11 DEF IInv

\* A thread joins the queue with a child of its own, behind all others.
LEMMA GenStep ==
  ASSUME ThreadsAssumption, IInv, NEW t \in Thread, GenChild(t)
  PROVE  IInv'
<1> USE DEF Queued, Inside
<1>1. /\ pc[t] = "gen" /\ M!master_gen(t[1], LockPath, Lock, TRUE)
      /\ inbox' = inbox \cup {c \in Client : sent'[c] # {}}
      /\ UNCHANGED <<watching, woken, acquired, mtx>>
      /\ IF reply'.status = "OK"
         THEN gen' = [gen EXCEPT ![t] = CHOOSE k \in reply'.data : TRUE] /\ Goto(t, "watch")
         ELSE UNCHANGED gen /\ Goto(t, "aborted")
  BY Zenon DEF GenChild, At, Receive
<1>2. Tree /\ Types /\ t[1] \in Client /\ LockPath \in DOMAIN node /\ t[1] \in conn
  BY <1>1, ThreadParts DEF IInv, Alive
<1>3. /\ Generating \in SUBSET Thread /\ t \in Generating
      /\ IsFiniteSet(Generating) /\ Cardinality(Generating) \in Nat /\ Count \in Nat
  BY <1>1, <1>2, FewThreads, Zenon DEF Tree, Generating, At
<1>4. /\ Cardinality(Generating \ {t}) = Cardinality(Generating) - 1
      /\ Cardinality(Generating \ {t}) \in Nat
  BY <1>3, FewThreads, FS_RemoveElement
<1>5. Count < MaxGen /\ Count + 1 + Cardinality(Generating \ {t}) <= MaxGen
  BY <1>3, <1>4 DEF IInv, Budget, ThreadsAssumption
<1>6. /\ Tree' /\ LockPath \in DOMAIN node' /\ conn' = conn
      /\ reply' = [status |-> "OK", data |-> {Count}]
      /\ Count' = Count + 1 /\ Count \notin Kids /\ Kids' = Kids \cup {Count}
      /\ node'[Kid(Count)].owner = t[1] /\ \A k \in Kids : Owner(k)' = Owner(k)
      /\ \A d \in conn : sent'[d] # {}
  BY <1>1, <1>2, <1>5, Generates, Zenon
<1>7. gen' = [gen EXCEPT ![t] = Count] /\ Goto(t, "watch")
  <2>1. reply'.status = "OK" /\ reply'.data = {Count}
    BY <1>6
  <2>2. (CHOOSE k \in {Count} : TRUE) = Count
    OBVIOUS
  <2> QED BY <1>1, <2>1, <2>2
<1>8. pc' \in [Thread -> Labels] /\ pc'[t] = "watch" /\ \A u \in Thread : u # t => pc'[u] = pc[u]
  BY <1>2, <1>7, SetPc DEF Labels
<1>9. gen' \in [Thread -> Nat] /\ gen'[t] = Count /\ \A u \in Thread : u # t => gen'[u] = gen[u]
  BY <1>2, <1>3, <1>7 DEF Types
<1>10. Types'
  BY <1>1, <1>2, <1>8, <1>9 DEF Types
<1>11. Alive'
  BY <1>2, <1>1, <1>6, <1>8, Zenon DEF IInv, Alive
<1>12. \A u \in Thread : u # t /\ pc'[u] \in Queued \cup Inside =>
         gen'[u] \in Kids /\ Owner(gen[u]) = u[1] /\ gen'[u] = gen[u]
  BY <1>8, <1>9 DEF IInv, Queue
<1>13. Queue'
  <2>1. ASSUME NEW u \in Thread, pc'[u] \in Queued \cup Inside
        PROVE  gen'[u] \in Kids' /\ node'[Kid(gen'[u])].owner = u[1]
    <3>1. CASE u = t
      BY <3>1, <1>6, <1>9
    <3>2. CASE u # t
      BY <3>2, <2>1, <1>6, <1>12 DEF Owner
    <3> QED BY <3>1, <3>2
  <2>2. ASSUME NEW u \in Thread, NEW w \in Thread, pc'[u] \in Queued \cup Inside,
               pc'[w] \in Queued \cup Inside, gen'[u] = gen'[w]
        PROVE  u = w
    BY <2>2, <1>6, <1>8, <1>9, <1>12 DEF IInv, Queue
  <2> QED BY <2>1, <2>2, Zenon DEF Queue, Owner
<1>14. Granted'
  <2> SUFFICES ASSUME NEW u \in Thread, pc'[u] \in Inside, NEW k \in Kids'
               PROVE  gen'[u] <= k
    BY DEF Granted
  <2>1. u # t /\ pc[u] \in Inside /\ gen'[u] = gen[u] /\ gen[u] \in Kids
    BY <1>8, <1>12
  <2>2. \A j \in Kids : gen[u] <= j
    BY <2>1 DEF IInv, Granted
  <2>3. gen[u] < Count /\ gen[u] \in Nat
    BY <1>2, <2>1 DEF Tree, Types
  <2> QED BY <1>3, <1>6, <2>1, <2>2, <2>3
<1>15. Table'
  <2>1. \A u \in Thread : pc'[u] \in Holding \cup {"dead"} <=> pc[u] \in Holding \cup {"dead"}
    BY <1>1, <1>8 DEF Holding
  <2>2. \A u \in Thread : pc'[u] \in Holding \cup {"dead"} => pc'[u] = pc[u] /\ gen'[u] = gen[u]
    BY <1>8, <1>9 DEF Holding
  <2> QED BY <1>1, <2>1, <2>2 DEF IInv, Table, Holding
<1>16. Watchful' /\ NoAbort'
  BY <1>1, <1>8 DEF IInv, Watchful, NoAbort
<1>17. Woken'
  <2> SUFFICES ASSUME NEW u \in Thread, pc'[u] \in {"decide", "sleep"}
               PROVE  u[1] \in inbox'
    BY DEF Woken
  <2>1. u[1] \in conn /\ u[1] \in Client
    BY <1>8, ThreadParts DEF IInv, Alive
  <2> QED BY <1>1, <1>6, <2>1
<1>18. Children'
  <2> SUFFICES ASSUME NEW k \in Kids' PROVE Owned(k)'
    BY DEF Children
  <2>1. CASE k = Count
    BY <2>1, <1>6, <1>8, <1>9 DEF Owned, Owner
  <2>2. CASE k \in Kids
    <3>1. PICK u \in Thread : /\ gen[u] = k /\ Owner(k) = u[1]
                              /\ pc[u] \in Queued \cup Inside \/ (pc[u] = "dead" /\ u[1] \in conn)
      BY <2>2 DEF IInv, Children, Owned
    <3>2. pc'[u] \in Queued \cup Inside \/ (pc'[u] = "dead" /\ u[1] \in conn')
      BY <1>1, <1>6, <1>8, <3>1
    <3>3. gen'[u] = k
      BY <1>1, <1>9, <3>1, Zenon
    <3>4. Owner(k)' = u[1]
      BY <1>6, <2>2, <3>1
    <3> QED BY <3>2, <3>3, <3>4 DEF Owned
  <2> QED BY <2>1, <2>2, <1>6
<1>19. Budget'
  <2>1. Generating' = Generating \ {t}
    BY <1>8 DEF Generating, At
  <2> QED BY <1>5, <1>6, <2>1 DEF Budget
<1> QED BY <1>6, <1>10, <1>11, <1>13, <1>14, <1>15, <1>16, <1>17, <1>18, <1>19 DEF IInv
\* The thread that was granted the lock is the only one, so it finds
\* _acquired_lock free when _client_mtx is: its last holder has erased its entry.
LEMMA OneInside ==
  ASSUME ThreadsAssumption, IInv, NEW t \in Thread, NEW u \in Thread,
         pc[t] \in Inside, pc[u] \in Inside
  PROVE  t = u
<1>1. gen[t] \in Kids /\ gen[u] \in Kids /\ Kids \in SUBSET Nat
  BY KidsType DEF IInv, Queue
<1>2. gen[t] <= gen[u] /\ gen[u] <= gen[t]
  BY <1>1 DEF IInv, Granted
<1>3. gen[t] = gen[u]
  <2>1. gen[t] \in Nat /\ gen[u] \in Nat
    BY <1>1
  <2> QED BY <1>2, <2>1
<1> QED BY <1>3 DEF IInv, Queue

\* A step of a thread that stays inside, or goes on to erase its entry, without
\* the master: what it leaves alone.
LEMMA InsideMoves ==
  ASSUME ThreadsAssumption, IInv, NEW t \in Thread, NEW s \in Inside \ {"cancel"},
         pc[t] \in Inside, Goto(t, s), UNCHANGED <<node, genId, conn, watchers, up, gen, inbox>>,
         UNCHANGED <<watching, woken>>
  PROVE  /\ Tree' /\ Alive' /\ Queue' /\ Granted' /\ Watchful' /\ Woken' /\ Children'
         /\ NoAbort' /\ Budget'
         /\ pc' \in [Thread -> Labels] /\ pc'[t] = s /\ \A u \in Thread : u # t => pc'[u] = pc[u]
<1> USE DEF Queued, Inside
<1>1. Tree /\ Types
  BY DEF IInv
<1>2. Tree' /\ Kids' = Kids /\ Count' = Count /\ \A k : Owner(k)' = Owner(k)
  BY <1>1, TreeSame, Zenon DEF Tree
<1>3. pc' \in [Thread -> Labels] /\ pc'[t] = s /\ \A u \in Thread : u # t => pc'[u] = pc[u]
  BY <1>1, SetPc DEF Labels
<1>4. Alive'
  BY <1>3 DEF IInv, Alive
<1>5. Queue'
  BY <1>2, <1>3 DEF IInv, Queue, Owner
<1>6. Granted' /\ Watchful' /\ Woken' /\ NoAbort'
  BY <1>2, <1>3 DEF IInv, Granted, Watchful, Woken, NoAbort
<1>7. Children'
  <2> SUFFICES ASSUME NEW k \in Kids PROVE Owned(k)'
    BY <1>2 DEF Children
  <2>1. PICK u \in Thread : /\ gen[u] = k /\ Owner(k) = u[1]
                            /\ pc[u] \in Queued \cup Inside \/ (pc[u] = "dead" /\ u[1] \in conn)
    BY DEF IInv, Children, Owned
  <2>2. pc'[u] \in Queued \cup Inside \/ (pc'[u] = "dead" /\ u[1] \in conn')
    BY <1>3, <2>1
  <2> QED BY <1>2, <2>1, <2>2 DEF Owned
<1>9. Budget'
  <2>1. Generating' \subseteq Generating
    BY <1>3 DEF Generating, At
  <2> QED BY <1>1, <1>2, <2>1, BudgetKept DEF IInv
<1> QED BY <1>2, <1>3, <1>4, <1>5, <1>6, <1>7, <1>9

\* acquire_lock: the generated name is entered into the table of the client.
LEMMA EmplaceStep ==
  ASSUME ThreadsAssumption, IInv, NEW t \in Thread, Emplace(t)
  PROVE  IInv'
<1>1. /\ pc[t] = "emplace" /\ mtx[t[1]] = 0
      /\ UNCHANGED <<node, genId, conn, watchers, up, gen, inbox, watching, woken, mtx>>
  BY DEF Emplace, At, Quiet, None
<1>2. Types /\ t[1] \in Client /\ Threads \in Nat
  BY ThreadParts DEF IInv, ThreadsAssumption
<1>3. acquired[t[1]] = {}
  <2> SUFFICES ASSUME acquired[t[1]] # {} PROVE FALSE
    OBVIOUS
  <2>1. PICK u \in Thread : u[1] = t[1] /\ pc[u] \in Holding \cup {"dead"}
    BY <1>2 DEF IInv, Table
  <2>2. pc[u] # "dead"
    BY <1>1, <2>1 DEF IInv, Alive
  <2>3. pc[u] \notin {"delete", "erase"}
    <3>1. u[2] # 0
      BY <1>2, ThreadParts
    <3> QED BY <1>1, <2>1, <3>1, Zenon DEF IInv, Table
  <2>4. pc[u] = "held" /\ pc[u] \in Inside /\ pc[t] \in Inside
    BY <1>1, <2>1, <2>2, <2>3 DEF Holding, Inside
  <2> QED BY <1>1, <2>4, OneInside
<1>4. acquired' = [acquired EXCEPT ![t[1]] = {gen[t]}] /\ Goto(t, "held")
  BY <1>3 DEF Emplace
<1>5. /\ Tree' /\ Alive' /\ Queue' /\ Granted' /\ Watchful' /\ Woken' /\ Children'
      /\ NoAbort' /\ Budget'
      /\ pc' \in [Thread -> Labels] /\ pc'[t] = "held"
      /\ \A u \in Thread : u # t => pc'[u] = pc[u]
  BY <1>1, <1>4, InsideMoves DEF Inside
<1>6. /\ acquired' \in [Client -> SUBSET Nat] /\ acquired'[t[1]] = {gen[t]}
      /\ \A c \in Client : c # t[1] => acquired'[c] = acquired[c]
  BY <1>2, <1>4 DEF Types
<1>7. Types'
  BY <1>1, <1>2, <1>5, <1>6 DEF Types
<1>8. \A u \in Thread : u # t /\ pc[u] \in Holding => u[1] # t[1]
  BY <1>3 DEF IInv, Table, Holding
<1>9. Table'
  <2>1. ASSUME NEW u \in Thread, pc'[u] \in {"held", "delete"}
        PROVE  acquired'[u[1]] = {gen'[u]}
    <3>1. CASE u = t
      BY <3>1, <1>1, <1>6
    <3>2. CASE u # t
      <4>1. pc[u] \in {"held", "delete"} /\ u[1] \in Client /\ u[1] # t[1]
        BY <2>1, <3>2, <1>5, <1>8, ThreadParts DEF Holding
      <4>2. acquired[u[1]] = {gen[u]}
        BY <4>1 DEF IInv, Table
      <4> QED BY <1>1, <1>6, <4>1, <4>2
    <3> QED BY <3>1, <3>2
  <2>2. \A u \in Thread : pc'[u] = "erase" => acquired'[u[1]] # {}
    BY <1>5, <1>6, <1>8, ThreadParts DEF IInv, Table, Holding
  <2>3. ASSUME NEW c \in Client, acquired'[c] # {}
        PROVE  \E u \in Thread : u[1] = c /\ pc'[u] \in Holding \cup {"dead"}
    <3>1. CASE c = t[1]
      BY <3>1, <1>5 DEF Holding
    <3>2. CASE c # t[1]
      BY <2>3, <3>2, <1>5, <1>6 DEF IInv, Table
    <3> QED BY <3>1, <3>2
  <2>4. \A u, w \in Thread : pc'[u] \in Holding /\ pc'[w] \in Holding /\ u[1] = w[1] => u = w
    BY <1>5, <1>8 DEF IInv, Table
  <2>5. \A u \in Thread : pc'[u] \in {"delete", "erase"} => mtx'[u[1]] = u[2]
    BY <1>1, <1>5, Zenon DEF IInv, Table
  <2> QED BY <2>1, <2>2, <2>3, <2>4, <2>5 DEF Table
<1> QED BY <1>5, <1>7, <1>9 DEF IInv

\* release_lock begins: the mutex of the table is taken.
LEMMA ReleaseStep ==
  ASSUME ThreadsAssumption, IInv, NEW t \in Thread, Release(t)
  PROVE  IInv'
<1>1. /\ pc[t] = "held" /\ mtx[t[1]] = 0 /\ mtx' = [mtx EXCEPT ![t[1]] = t[2]]
      /\ UNCHANGED <<node, genId, conn, watchers, up, gen, inbox, watching, woken, acquired>>
  BY DEF Release, At, Quiet, None
<1>2. Types /\ t[1] \in Client /\ t[2] \in Nat /\ t[2] # 0 /\ Threads \in Nat
  BY ThreadParts DEF IInv, ThreadsAssumption
<1>3. Goto(t, "delete")
  <2>1. acquired[t[1]] # {}
    BY <1>1 DEF IInv, Table
  <2> QED BY <2>1 DEF Release
<1>4. /\ Tree' /\ Alive' /\ Queue' /\ Granted' /\ Watchful' /\ Woken' /\ Children'
      /\ NoAbort' /\ Budget'
      /\ pc' \in [Thread -> Labels] /\ pc'[t] = "delete"
      /\ \A u \in Thread : u # t => pc'[u] = pc[u]
  BY <1>1, <1>3, InsideMoves, Zenon DEF Inside
<1>5. /\ mtx' \in [Client -> Nat] /\ mtx'[t[1]] = t[2]
      /\ \A c \in Client : c # t[1] => mtx'[c] = mtx[c]
  BY <1>1, <1>2 DEF Types
<1>6. Types'
  BY <1>1, <1>2, <1>4, <1>5 DEF Types
<1>7. \A u \in Thread : u # t /\ pc[u] \in {"delete", "erase"} => u[1] # t[1]
  BY <1>1 DEF IInv, Table, Holding
<1>8. Table'
  <2>1. \A u \in Thread : pc'[u] \in Holding \cup {"dead"} <=> pc[u] \in Holding \cup {"dead"}
    BY <1>1, <1>4, Zenon DEF Holding
  <2>2. \A u \in Thread : u # t => pc'[u] = pc[u]
    BY <1>4
  <2>3. /\ \A u \in Thread : pc'[u] \in {"held", "delete"} => acquired'[u[1]] = {gen'[u]}
        /\ \A u \in Thread : pc'[u] = "erase" => acquired'[u[1]] # {}
    BY <1>1, <1>4 DEF IInv, Table
  <2>4. \A c \in Client : acquired'[c] # {} =>
          \E u \in Thread : u[1] = c /\ pc'[u] \in Holding \cup {"dead"}
    BY <1>1, <2>1 DEF IInv, Table
  <2>5. \A u, w \in Thread : pc'[u] \in Holding /\ pc'[w] \in Holding /\ u[1] = w[1] => u = w
    BY <1>1, <1>4 DEF IInv, Table, Holding
  <2>6. \A u \in Thread : pc'[u] \in {"delete", "erase"} => mtx'[u[1]] = u[2]
    BY <1>4, <1>5, <1>7, ThreadParts, Zenon DEF IInv, Table
  <2> QED BY <2>3, <2>4, <2>5, <2>6, Zenon DEF Table
<1> QED BY <1>4, <1>6, <1>8 DEF IInv

\* release_lock deletes the first child; everybody who waits hears of it.
LEMMA DeleteStep ==
  ASSUME ThreadsAssumption, IInv, NEW t \in Thread, Delete(t)
  PROVE  IInv'
<1> USE DEF Queued, Inside
<1>1. /\ pc[t] = "delete"
      /\ M!master_del(t[1], Append(LockPath, CHOOSE k \in acquired[t[1]] : TRUE))
      /\ inbox' = inbox \cup {c \in Client : sent'[c] # {}}
      /\ UNCHANGED <<gen, watching, woken, acquired, mtx>>
      /\ Goto(t, IF reply'.status = "OK" THEN "erase" ELSE "aborted")
  BY Zenon DEF Delete, At, Receive, local
<1>2. Tree /\ Types /\ t[1] \in Client
  BY ThreadParts DEF IInv
<1>3. acquired[t[1]] = {gen[t]} /\ gen[t] \in Kids
  BY <1>1, Zenon DEF IInv, Table, Queue
<1>4. M!master_del(t[1], Kid(gen[t]))
  <2>1. (CHOOSE k \in {gen[t]} : TRUE) = gen[t]
    OBVIOUS
  <2> QED BY <1>1, <1>3, <2>1 DEF Kid
<1>5. /\ Tree' /\ conn' = conn /\ reply'.status = "OK" /\ Count' = Count
      /\ DOMAIN node' = DOMAIN node \ {Kid(gen[t])} /\ Kids' = Kids \ {gen[t]}
      /\ \A j \in Kids' : Owner(j)' = Owner(j)
      /\ \A d \in conn : sent'[d] # {}
  BY <1>2, <1>3, <1>4, Deletes
<1>6. pc' \in [Thread -> Labels] /\ pc'[t] = "erase" /\ \A u \in Thread : u # t => pc'[u] = pc[u]
  BY <1>1, <1>2, <1>5, SetPc DEF Labels
<1>7. Types'
  BY <1>1, <1>2, <1>6 DEF Types
<1>8. Alive'
  <2>1. \A u \in Thread : pc'[u] \notin {"idle", "dead"} => pc[u] \notin {"idle", "dead"}
    BY <1>1, <1>6, Zenon
  <2>2. LockPath \in DOMAIN node => LockPath \in DOMAIN node'
    BY <1>5, Paths
  <2>3. \A u, w \in Thread : pc'[u] = "dead" /\ u[1] = w[1] => pc'[w] = "dead"
    BY <1>1, <1>6 DEF IInv, Alive
  <2> QED BY <1>5, <2>1, <2>2, <2>3, Zenon DEF IInv, Alive
<1>9. \A u \in Thread : pc'[u] \in Queued \cup Inside =>
        /\ u # t /\ pc'[u] = pc[u] /\ gen[u] \in Kids' /\ Owner(gen[u]) = u[1]
  BY <1>1, <1>5, <1>6, Zenon DEF IInv, Queue
<1>10. Queue'
  <2>1. \A u \in Thread : pc'[u] \in Queued \cup Inside =>
          gen'[u] \in Kids' /\ node'[Kid(gen'[u])].owner = u[1]
    BY <1>1, <1>5, <1>9, Zenon DEF Owner
  <2>2. \A u, w \in Thread :
          pc'[u] \in Queued \cup Inside /\ pc'[w] \in Queued \cup Inside /\ gen'[u] = gen'[w]
            => u = w
    <3> SUFFICES ASSUME NEW u \in Thread, NEW w \in Thread, pc'[u] \in Queued \cup Inside,
                        pc'[w] \in Queued \cup Inside, gen'[u] = gen'[w]
                 PROVE  u = w
      OBVIOUS
    <3>1. pc[u] \in Queued \cup Inside /\ pc[w] \in Queued \cup Inside /\ gen[u] = gen[w]
      BY <1>1, <1>9
    <3> QED BY <3>1 DEF IInv, Queue
  <2> QED BY <2>1, <2>2 DEF Queue, Owner
<1>11. Granted' /\ Watchful' /\ NoAbort'
  BY <1>1, <1>5, <1>6, Zenon DEF IInv, Granted, Watchful, NoAbort
<1>12. Woken'
  <2> SUFFICES ASSUME NEW u \in Thread, pc'[u] \in {"decide", "sleep"}
               PROVE  u[1] \in inbox'
    BY DEF Woken
  <2>1. u[1] \in conn /\ u[1] \in Client
    BY <1>6, ThreadParts DEF IInv, Alive
  <2> QED BY <1>1, <1>5, <2>1, Zenon
<1>13. Children'
  <2> SUFFICES ASSUME NEW k \in Kids' PROVE Owned(k)'
    BY DEF Children
  <2>1. PICK u \in Thread : /\ gen[u] = k /\ Owner(k) = u[1]
                            /\ pc[u] \in Queued \cup Inside \/ (pc[u] = "dead" /\ u[1] \in conn)
    BY <1>5 DEF IInv, Children, Owned
  <2>2. u # t
    BY <1>5, <2>1
  <2>3. pc'[u] \in Queued \cup Inside \/ (pc'[u] = "dead" /\ u[1] \in conn')
    BY <1>5, <1>6, <2>1, <2>2
  <2>4. gen'[u] = k /\ Owner(k)' = u[1]
    BY <1>1, <1>5, <2>1, Zenon
  <2> QED BY <2>3, <2>4 DEF Owned
<1>14. Table'
  <2>1. \A u \in Thread : pc'[u] \in Holding \cup {"dead"} <=> pc[u] \in Holding \cup {"dead"}
    BY <1>1, <1>6 DEF Holding
  <2>3. /\ \A u \in Thread : pc'[u] \in {"held", "delete"} => acquired'[u[1]] = {gen'[u]}
        /\ \A u \in Thread : pc'[u] = "erase" => acquired'[u[1]] # {}
    BY <1>1, <1>3, <1>6, Zenon DEF IInv, Table
  <2>4. \A c \in Client : acquired'[c] # {} =>
          \E u \in Thread : u[1] = c /\ pc'[u] \in Holding \cup {"dead"}
    BY <1>1, <2>1, Zenon DEF IInv, Table
  <2>5. \A u, w \in Thread : pc'[u] \in Holding /\ pc'[w] \in Holding /\ u[1] = w[1] => u = w
    BY <1>1, <1>6 DEF IInv, Table, Holding
  <2>6. \A u \in Thread : pc'[u] \in {"delete", "erase"} => mtx'[u[1]] = u[2]
    BY <1>1, <1>6 DEF IInv, Table
  <2> QED BY <2>3, <2>4, <2>5, <2>6 DEF Table
<1>15. Budget'
  <2>1. Generating' \subseteq Generating
    BY <1>6 DEF Generating, At
  <2> QED BY <1>2, <1>5, <2>1, BudgetKept, Zenon DEF IInv
<1> QED BY <1>5, <1>7, <1>8, <1>10, <1>11, <1>12, <1>13, <1>14, <1>15, Zenon DEF IInv
\* ... and then forgets it and gives _client_mtx back.
LEMMA EraseStep ==
  ASSUME ThreadsAssumption, IInv, NEW t \in Thread, Erase(t)
  PROVE  IInv'
<1> USE DEF Queued, Inside
<1>1. /\ pc[t] = "erase" /\ Goto(t, "idle")
      /\ acquired' = [acquired EXCEPT ![t[1]] = {}] /\ mtx' = [mtx EXCEPT ![t[1]] = 0]
      /\ UNCHANGED <<node, genId, conn, watchers, up, gen, inbox, watching, woken>>
  BY Zenon DEF Erase, At, Quiet, None
<1>2. Tree /\ Types /\ t[1] \in Client
  BY ThreadParts DEF IInv
<1>3. pc' \in [Thread -> Labels] /\ pc'[t] = "idle" /\ \A u \in Thread : u # t => pc'[u] = pc[u]
  BY <1>1, <1>2, SetPc DEF Labels
<1>4. Tree' /\ Kids' = Kids /\ Count' = Count /\ \A k : Owner(k)' = Owner(k)
  BY <1>1, <1>2, TreeSame, Zenon DEF Tree
<1>5. /\ acquired' \in [Client -> SUBSET Nat] /\ mtx' \in [Client -> Nat]
      /\ acquired'[t[1]] = {} /\ mtx'[t[1]] = 0
      /\ \A c \in Client : c # t[1] => acquired'[c] = acquired[c] /\ mtx'[c] = mtx[c]
  BY <1>1, <1>2 DEF Types
<1>6. Types'
  BY <1>1, <1>2, <1>3, <1>5 DEF Types
<1>7. Alive' /\ Granted' /\ Watchful' /\ Woken' /\ NoAbort'
  BY <1>1, <1>3, <1>4 DEF IInv, Alive, Granted, Watchful, Woken, NoAbort
<1>8. Queue'
  BY <1>1, <1>3, <1>4, Zenon DEF IInv, Queue, Owner
<1>9. \A u \in Thread : u # t /\ pc[u] \in Holding => u[1] # t[1]
  BY <1>1 DEF IInv, Table, Holding
<1>10. Table'
  <2>1. ASSUME NEW u \in Thread, pc'[u] \in Holding
        PROVE  u # t /\ u[1] # t[1] /\ pc[u] = pc'[u] /\ u[1] \in Client
    BY <2>1, <1>3, <1>9, ThreadParts DEF Holding
  <2>2. ASSUME NEW u \in Thread, pc'[u] \in {"held", "delete"} PROVE acquired'[u[1]] = {gen'[u]}
    BY <1>1, <1>5, <2>1, <2>2 DEF IInv, Table, Holding
  <2>3. ASSUME NEW u \in Thread, pc'[u] = "erase" PROVE acquired'[u[1]] # {}
    BY <1>5, <2>1, <2>3 DEF IInv, Table, Holding
  <2>4. ASSUME NEW c \in Client, acquired'[c] # {}
        PROVE  \E u \in Thread : u[1] = c /\ pc'[u] \in Holding \cup {"dead"}
    <3>1. c # t[1] /\ acquired[c] # {}
      BY <1>5, <2>4
    <3>2. PICK u \in Thread : u[1] = c /\ pc[u] \in Holding \cup {"dead"}
      BY <3>1, Zenon DEF IInv, Table
    <3> QED BY <1>3, <3>1, <3>2
  <2>5. \A u, w \in Thread : pc'[u] \in Holding /\ pc'[w] \in Holding /\ u[1] = w[1] => u = w
    BY <2>1 DEF IInv, Table
  <2>6. ASSUME NEW u \in Thread, pc'[u] \in {"delete", "erase"} PROVE mtx'[u[1]] = u[2]
    BY <1>5, <2>1, <2>6 DEF IInv, Table, Holding
  <2> QED BY <2>2, <2>3, <2>4, <2>5, <2>6 DEF Table
<1>11. Children'
  <2> SUFFICES ASSUME NEW k \in Kids PROVE Owned(k)'
    BY <1>4 DEF Children
  <2>1. PICK u \in Thread : /\ gen[u] = k /\ Owner(k) = u[1]
                            /\ pc[u] \in Queued \cup Inside \/ (pc[u] = "dead" /\ u[1] \in conn)
    BY DEF IInv, Children, Owned
  <2>2. pc'[u] \in Queued \cup Inside \/ (pc'[u] = "dead" /\ u[1] \in conn')
    BY <1>1, <1>3, <2>1
  <2> QED BY <1>1, <1>4, <2>1, <2>2, Zenon DEF Owned
<1>12. Budget'
  <2>1. Generating' \subseteq Generating
    BY <1>3 DEF Generating, At
  <2> QED BY <1>2, <1>4, <2>1, BudgetKept DEF IInv
<1> QED BY <1>4, <1>6, <1>7, <1>8, <1>10, <1>11, <1>12 DEF IInv

\* A callback moves the version of every watcher of its process.
LEMMA CallbackStep ==
  ASSUME ThreadsAssumption, IInv, NEW c \in Client, Callback(c)
  PROVE  IInv'
<1>1. /\ inbox' = inbox \ {c} /\ woken' = woken \cup {t \in watching : t[1] = c}
      /\ UNCHANGED <<node, genId, conn, watchers, up, pc, gen, watching, acquired, mtx>>
  BY DEF Callback, Quiet
<1>2. Tree /\ Types
  BY DEF IInv
<1>3. Tree' /\ Kids' = Kids /\ Count' = Count /\ \A k : Owner(k)' = Owner(k)
  BY <1>1, <1>2, TreeSame, Zenon DEF Tree
<1>4. Types'
  BY <1>1, <1>2 DEF Types
<1>5. Alive' /\ Granted' /\ Watchful' /\ NoAbort' /\ Table'
  BY <1>1, <1>3 DEF IInv, Alive, Granted, Watchful, NoAbort, Table
<1>6. Queue' /\ Children'
  BY <1>1, <1>3, Zenon DEF IInv, Queue, Children, Owned, Owner
<1>7. Woken'
  BY <1>1, <1>3, Zenon DEF IInv, Woken, Watchful
<1>8. Budget'
  <2>1. Generating' \subseteq Generating
    BY <1>1 DEF Generating, At
  <2> QED BY <1>2, <1>3, <2>1, BudgetKept DEF IInv
<1> QED BY <1>3, <1>4, <1>5, <1>6, <1>7, <1>8 DEF IInv

\* A new connection: no thread of the process is in a call.
LEMMA ConnectStep ==
  ASSUME ThreadsAssumption, IInv, NEW c \in Client, Connect(c)
  PROVE  IInv'
<1>1. /\ conn' = conn \cup {c} /\ watchers' = watchers \cup {c}
      /\ UNCHANGED <<node, genId, up, pc, gen, inbox, watching, woken, acquired, mtx>>
  BY DEF Connect, M!Accept, local
<1>2. Tree /\ Types /\ conn' = watchers' /\ conn \subseteq conn' /\ conn' \subseteq Client
  BY <1>1, Zenon DEF IInv, Tree
<1>3. Tree' /\ Kids' = Kids /\ Count' = Count /\ \A k : Owner(k)' = Owner(k)
  BY <1>1, <1>2, TreeSame
<1>4. Types'
  BY <1>1, <1>2 DEF Types
<1>5. Alive' /\ Granted' /\ Watchful' /\ NoAbort' /\ Table' /\ Woken'
  BY <1>1, <1>3, Zenon DEF IInv, Alive, Granted, Watchful, NoAbort, Table, Woken
<1>6. Queue' /\ Children'
  BY <1>1, <1>3, Zenon DEF IInv, Queue, Children, Owned, Owner
<1>8. Budget'
  <2>1. Generating' \subseteq Generating
    BY <1>1 DEF Generating, At
  <2> QED BY <1>2, <1>3, <2>1, BudgetKept DEF IInv
<1> QED BY <1>3, <1>4, <1>5, <1>6, <1>8 DEF IInv

\* A crash: the children of the process stay until the master notices.
LEMMA CrashStep ==
  ASSUME ThreadsAssumption, IInv, NEW c \in Client, Crash(c)
  PROVE  IInv'
<1> USE DEF Queued, Inside
<1>1. /\ c \in conn /\ pc' = [t \in Thread |-> IF t[1] = c THEN "dead" ELSE pc[t]]
      /\ inbox' = inbox \ {c}
      /\ watching' = {t \in watching : t[1] # c} /\ woken' = {t \in woken : t[1] # c}
      /\ UNCHANGED <<node, genId, conn, watchers, up, gen, acquired, mtx>>
  BY DEF Crash, Quiet
<1>2. Tree /\ Types
  BY DEF IInv
<1>3. Tree' /\ Kids' = Kids /\ Count' = Count /\ \A k : Owner(k)' = Owner(k)
  BY <1>1, <1>2, TreeSame, Zenon DEF Tree
<1>4. /\ pc' \in [Thread -> Labels]
      /\ \A t \in Thread : t[1] = c => pc'[t] = "dead"
      /\ \A t \in Thread : t[1] # c => pc'[t] = pc[t]
  BY <1>1, <1>2 DEF Types, Labels
<1>5. Types'
  BY <1>1, <1>2, <1>4 DEF Types
<1>6. Alive' /\ Granted' /\ Watchful' /\ NoAbort' /\ Woken'
  BY <1>1, <1>3, <1>4, Zenon DEF IInv, Alive, Granted, Watchful, NoAbort, Woken
<1>7. Queue'
  BY <1>1, <1>3, <1>4 DEF IInv, Queue, Owner
<1>8. Table'
  <2>1. ASSUME NEW d \in Client, acquired'[d] # {}
        PROVE  \E u \in Thread : u[1] = d /\ pc'[u] \in Holding \cup {"dead"}
    <3>1. PICK u \in Thread : u[1] = d /\ pc[u] \in Holding \cup {"dead"}
      BY <1>1, <2>1 DEF IInv, Table
    <3> QED BY <1>4, <3>1
  <2>2. /\ \A u \in Thread : pc'[u] \in {"held", "delete"} => acquired'[u[1]] = {gen'[u]}
        /\ \A u \in Thread : pc'[u] = "erase" => acquired'[u[1]] # {}
        /\ \A u \in Thread : pc'[u] \in {"delete", "erase"} => mtx'[u[1]] = u[2]
    BY <1>1, <1>4 DEF IInv, Table
  <2>3. \A u, w \in Thread : pc'[u] \in Holding /\ pc'[w] \in Holding /\ u[1] = w[1] => u = w
    BY <1>4 DEF IInv, Table, Holding
  <2> QED BY <2>1, <2>2, <2>3, Zenon DEF Table
<1>9. Children'
  <2> SUFFICES ASSUME NEW k \in Kids PROVE Owned(k)'
    BY <1>3 DEF Children
  <2>1. PICK u \in Thread : /\ gen[u] = k /\ Owner(k) = u[1]
                            /\ pc[u] \in Queued \cup Inside \/ (pc[u] = "dead" /\ u[1] \in conn)
    BY DEF IInv, Children, Owned
  <2>2. pc'[u] \in Queued \cup Inside \/ (pc'[u] = "dead" /\ u[1] \in conn')
    BY <1>1, <1>4, <2>1
  <2> QED BY <1>1, <1>3, <2>1, <2>2, Zenon DEF Owned
<1>10. Budget'
  <2>1. Generating' \subseteq Generating
    BY <1>4 DEF Generating, At
  <2> QED BY <1>2, <1>3, <2>1, BudgetKept DEF IInv
<1> QED BY <1>3, <1>5, <1>6, <1>7, <1>8, <1>9, <1>10 DEF IInv

\* The master notices: the children of the dead process go, and everybody who
\* waits hears of it.
LEMMA NoticeStep ==
  ASSUME ThreadsAssumption, IInv, NEW c \in Client, MasterNotices(c)
  PROVE  IInv'
<1> USE DEF Queued, Inside
<1>1. /\ \A i \in 1 .. Threads : pc[<<c, i>>] = "dead"
      /\ M!Disconnect(c) /\ inbox' = inbox \cup {d \in Client \ {c} : sent'[d] # {}}
      /\ UNCHANGED <<pc, gen, watching, woken, acquired, mtx>>
  BY DEF MasterNotices, local
<1>2. Tree /\ Types
  BY DEF IInv
<1>3. /\ Tree' /\ conn' = conn \ {c} /\ Count' = Count
      /\ (LockPath \in DOMAIN node => LockPath \in DOMAIN node')
      /\ Kids' = {k \in Kids : Owner(k) # c}
      /\ \A k \in Kids' : Owner(k)' = Owner(k)
      /\ Kids' # Kids => \A d \in conn : sent'[d] # {}
  BY <1>1, <1>2, Disconnects, Zenon
<1>4. \A t \in Thread : t[1] = c => pc[t] = "dead"
  <2>1. SUFFICES ASSUME NEW t \in Thread, t[1] = c
                 PROVE  pc[t] = "dead"
    OBVIOUS
  <2>2. t[2] \in 1 .. Threads /\ t = <<c, t[2]>>
    BY <2>1 DEF Thread
  <2> QED BY <1>1, <2>2, Zenon
<1>5. Types'
  BY <1>1, <1>2 DEF Types
<1>6. Alive'
  BY <1>1, <1>3, <1>4, Zenon DEF IInv, Alive
<1>7. \A t \in Thread : pc[t] \in Queued \cup Inside =>
        gen[t] \in Kids /\ gen[t] \in Kids' /\ Owner(gen[t]) = t[1]
  BY <1>3, <1>4, Zenon DEF IInv, Queue
<1>8. Queue'
  <2>1. \A t \in Thread : pc'[t] \in Queued \cup Inside =>
          gen'[t] \in Kids' /\ node'[Kid(gen'[t])].owner = t[1]
    BY <1>1, <1>3, <1>7 DEF Owner
  <2>2. \A t, u \in Thread :
          pc'[t] \in Queued \cup Inside /\ pc'[u] \in Queued \cup Inside /\ gen'[t] = gen'[u]
            => t = u
    BY <1>1 DEF IInv, Queue
  <2> QED BY <2>1, <2>2, Zenon DEF Queue, Owner
<1>9. Granted' /\ Watchful' /\ NoAbort' /\ Table'
  BY <1>1, <1>3, Zenon DEF IInv, Granted, Watchful, NoAbort, Table
<1>10. Woken'
  <2> SUFFICES ASSUME NEW t \in Thread, pc[t] \in {"decide", "sleep"},
                      \A k \in Kids' : gen[t] <= k
               PROVE  t \in woken \/ t[1] \in inbox'
    BY <1>1, Zenon DEF Woken
  <2>1. CASE Kids' = Kids
    BY <1>1, <2>1 DEF IInv, Woken
  <2>2. CASE Kids' # Kids
    <3>1. t[1] \in conn /\ t[1] \in Client /\ t[1] # c
      BY <1>4, ThreadParts DEF IInv, Alive
    <3> QED BY <1>1, <1>3, <2>2, <3>1, Zenon
  <2> QED BY <2>1, <2>2
<1>11. Children'
  <2> SUFFICES ASSUME NEW k \in Kids' PROVE Owned(k)'
    BY DEF Children
  <2>1. PICK u \in Thread : /\ gen[u] = k /\ Owner(k) = u[1]
                            /\ pc[u] \in Queued \cup Inside \/ (pc[u] = "dead" /\ u[1] \in conn)
    BY <1>3 DEF IInv, Children, Owned
  <2>2. Owner(k) # c /\ Owner(k)' = Owner(k)
    BY <1>3, Zenon
  <2>3. pc'[u] \in Queued \cup Inside \/ (pc'[u] = "dead" /\ u[1] \in conn')
    BY <1>1, <1>3, <2>1, <2>2, Zenon
  <2>4. gen'[u] = k /\ Owner(k)' = u[1]
    BY <1>1, <2>1, <2>2, Zenon
  <2> QED BY <2>3, <2>4 DEF Owned
<1>12. Budget'
  <2>1. Generating' \subseteq Generating
    BY <1>1 DEF Generating, At
  <2> QED BY <1>2, <1>3, <2>1, BudgetKept, Zenon DEF IInv
<1> QED BY <1>3, <1>5, <1>6, <1>8, <1>9, <1>10, <1>11, <1>12, Zenon DEF IInv

-----------------------------------------------------------------------------
\* The invariant holds at the start.
LEMMA InitLock ==
  ASSUME ThreadsAssumption, Init
  PROVE  IInv
<1> USE DEF Queued, Inside
<1>1. /\ node = [p \in {<<>>} |->
                     [owner |-> NoOwner, value |-> CHOOSE v \in {Lock} : TRUE, sub |-> {}]]
      /\ genId = [p \in {} |-> 0] /\ conn = {} /\ watchers = {} /\ up = TRUE
      /\ inbox = {} /\ pc = [t \in Thread |-> "idle"] /\ gen = [t \in Thread |-> 0]
      /\ watching = {} /\ woken = {}
      /\ acquired = [c \in Client |-> {}] /\ mtx = [c \in Client |-> 0]
  BY DEF Init, M!Init, None
<1>2. DOMAIN node = {<<>>} /\ node[<<>>].owner = NoOwner /\ node[<<>>] \in NodeRec
  <2>1. (CHOOSE v \in {Lock} : TRUE) = Lock
    OBVIOUS
  <2> QED BY <1>1, <2>1 DEF NodeRec
<1>3. Kids = {} /\ Count = 0
  BY <1>1, <1>2, Paths DEF Kids, Count, M!Counter
<1>4. Tree
  BY <1>1, <1>2, <1>3, Paths, Zenon DEF Tree
<1>5. Types /\ Alive /\ Queue /\ Granted /\ Watchful /\ Woken /\ Children /\ NoAbort
  BY <1>1, <1>3 DEF Types, Labels, Alive, Queue, Granted, Watchful, Woken, Children, NoAbort
<1>6. Table
  BY <1>1 DEF Table, Holding
<1>7. Budget
  <2>1. Generating = {}
    BY <1>1 DEF Generating, At
  <2> QED BY <1>3, <2>1, FS_EmptySet DEF Budget, ThreadsAssumption
<1> QED BY <1>4, <1>5, <1>6, <1>7 DEF IInv

\* The invariant holds in every reachable state.
THEOREM LockInvariance == ASSUME ThreadsAssumption PROVE Spec => []IInv
<1>1. Init => IInv
  BY InitLock
<1>2. ThreadsAssumption /\ IInv /\ [Next]_vars => IInv'
  <2> SUFFICES ASSUME ThreadsAssumption, IInv, [Next]_vars PROVE IInv'
    OBVIOUS
  <2>1. CASE UNCHANGED vars
    <3>1. UNCHANGED <<node, genId, conn, watchers, up, inbox, pc, gen, watching, woken,
                      acquired, mtx>>
      BY <2>1 DEF vars, master, local
    <3>2. Tree /\ Types
      BY DEF IInv
    <3>3. Tree' /\ Kids' = Kids /\ Count' = Count /\ \A k : Owner(k)' = Owner(k)
      BY <3>1, <3>2, TreeSame, Zenon DEF Tree
    <3>4. Types' /\ Alive' /\ Granted' /\ Watchful' /\ NoAbort' /\ Table' /\ Woken'
      BY <3>1, <3>3 DEF IInv, Types, Alive, Granted, Watchful, NoAbort, Table, Woken
    <3>5. Queue' /\ Children'
      BY <3>1, <3>3, Zenon DEF IInv, Queue, Children, Owned, Owner
    <3>6. Generating' \subseteq Generating
      BY <3>1 DEF Generating, At
    <3> QED BY <3>2, <3>3, <3>4, <3>5, <3>6, BudgetKept DEF IInv
  <2>2. ASSUME NEW t \in Thread, Step(t) PROVE IInv'
    BY <2>2, AddStep, GenStep, WatchStep, CheckStep, RestStep, EmplaceStep, ReleaseStep,
       DeleteStep, EraseStep DEF Step
  <2>3. ASSUME NEW c \in Client, Connect(c) \/ Callback(c) \/ Crash(c) \/ MasterNotices(c)
        PROVE  IInv'
    BY <2>3, ConnectStep, CallbackStep, CrashStep, NoticeStep
  <2> QED BY <2>1, <2>2, <2>3 DEF Next
<1> QED BY <1>1, <1>2, PTL DEF Spec

\* acquire_lock and release_lock give mutual exclusion among the threads of all
\* processes, in the order in which they queued up; none of their SCHECKs fails,
\* no wake-up is lost and no child is abandoned, although processes crash at any
\* time and the master notices late.
THEOREM LockIsSound == ASSUME ThreadsAssumption PROVE Spec => []LockSound
<1>1. ThreadsAssumption /\ IInv => LockSound
  <2> SUFFICES ASSUME ThreadsAssumption, IInv PROVE LockSound
    OBVIOUS
  <2>1. MutualExclusion
    BY OneInside DEF MutualExclusion
  <2>2. InOrder
    <3> SUFFICES ASSUME NEW t \in Thread, NEW u \in Thread, pc[t] \in Inside, pc[u] \in Queued
                 PROVE  gen[t] < gen[u]
      BY DEF InOrder
    <3>1. gen[t] \in Nat /\ gen[u] \in Nat /\ gen[u] \in Kids /\ t # u
      BY KidsType DEF IInv, Queue, Queued, Inside
    <3>2. gen[t] <= gen[u] /\ gen[t] # gen[u]
      BY <3>1 DEF IInv, Granted, Queue
    <3> QED BY <3>1, <3>2
  <2>3. NoAbort
    BY DEF IInv
  <2>4. FirstIsWoken
    <3> SUFFICES ASSUME NEW t \in Thread, pc[t] \in {"decide", "sleep"},
                        gen[t] = Min(node[LockPath].sub)
                 PROVE  t \in woken \/ t[1] \in inbox
      BY DEF FirstIsWoken
    <3>1. LockPath \in DOMAIN node /\ gen[t] \in Kids /\ Kids \in SUBSET Nat
      BY KidsType DEF IInv, Alive, Queue, Queued
    <3>2. Kids = node[LockPath].sub
      BY <3>1 DEF Kids
    <3>3. \A k \in Kids : gen[t] <= k
      BY <3>1, <3>2, MinIsFirst
    <3> QED BY <3>3 DEF IInv, Woken
  <2>5. NoAbandonedChild
    BY DEF IInv, Children, Owned, Kids, NoAbandonedChild
  <2> QED BY <2>1, <2>2, <2>3, <2>4, <2>5 DEF LockSound
<1> QED BY <1>1, LockInvariance, PTL
=============================================================================
