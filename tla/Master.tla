------------------------------ MODULE Master ------------------------------
(***************************************************************************)
(* The master's tree of nodes, src/rpc/Master.cpp: one thread serves the   *)
(* requests of the clients one at a time, keeps the tree, removes a        *)
(* client's ephemeral nodes when its connection closes, and tells every    *)
(* watching client the path of each change.  A path is a sequence of       *)
(* names; a generated name is a number, which orders names as the padded   *)
(* strings of master_gen are ordered.                                      *)
(***************************************************************************)
EXTENDS Naturals, Sequences, FiniteSets, TLC

CONSTANTS Client,     \* client connections
          Key,        \* names that clients choose
          Value,      \* values of nodes
          Path,       \* bound: the paths in requests
          GenLimit,   \* generated names of ten digits run out here
          NoOwner     \* nullptr

Name == Key \cup (0..GenLimit - 1)
Root == <<>>

ASSUME LimitAssumption == GenLimit \in Nat
ASSUME PathAssumption == Path \subseteq Seq(Name)
ASSUME OwnerAssumption == NoOwner \notin Client
ASSUME ValueAssumption == Value # {}

VARIABLES
  node,      \* _path: [owner, value, sub] of each existing path
  genId,     \* _gen_id
  conn,      \* clients in _fd_socket_map
  watchers,  \* clients in _watchers
  sent,      \* paths that the last step's notify_watchers sent to each client
  reply,     \* the response of the last step: [status, data]
  exiting,   \* MASTER_EXIT was received
  up         \* the serving thread runs

vars == <<node, genId, conn, watchers, sent, reply, exiting, up>>

Nothing == [c \in Client |-> {}]
NoReply == [status |-> "NONE", data |-> {}]

Init ==
  /\ node = [p \in {Root} |-> [owner |-> NoOwner, value |-> CHOOSE v \in Value : TRUE, sub |-> {}]]
  /\ genId = [p \in {} |-> 0]
  /\ conn = {} /\ watchers = {}
  /\ sent = Nothing /\ reply = NoReply
  /\ exiting = FALSE /\ up = TRUE

Parent(p) == SubSeq(p, 1, Len(p) - 1)
Leaf(p) == p[Len(p)]
Valid(p) == p # Root                       \* master_check_valid_path
Exists(p) == p \in DOMAIN node
CanHold(p) == Exists(p) /\ node[p].owner = NoOwner
Counter(p) == IF p \in DOMAIN genId THEN genId[p] ELSE 0

\* A new node below its parent; a node taken out of the tree and of its parent.
Insert(p, owner, v) ==
  node' = [q \in DOMAIN node \cup {p} |->
             IF q = p THEN [owner |-> owner, value |-> v, sub |-> {}]
             ELSE IF q = Parent(p) THEN [node[q] EXCEPT !.sub = @ \cup {Leaf(p)}]
             ELSE node[q]]
Remove(P) ==
  node' = [q \in DOMAIN node \ P |->
             [node[q] EXCEPT !.sub = @ \ {Leaf(p) : p \in {r \in P : Parent(r) = q}}]]

notify_watchers(P) == sent' = [c \in Client |-> IF c \in watchers THEN P ELSE {}]

Answer(s, d) == reply' = [status |-> s, data |-> d]
Fail(s) == Answer(s, {}) /\ sent' = Nothing /\ UNCHANGED node

\* A client sends requests from its connection until it finalizes.
Request(c) ==
  /\ up /\ c \in conn \cap watchers
  /\ UNCHANGED <<conn, watchers, exiting, up>>

-----------------------------------------------------------------------------
\* As master_gen would be if it let the eleventh digit through.
master_gen_unlimited(c, parent, v, ephemeral) ==
  /\ Request(c)
  /\ \/ ~Valid(parent) /\ Fail("ERROR") /\ UNCHANGED genId
     \/ Valid(parent) /\ ~CanHold(parent) /\ Fail("NODE_FAILED") /\ UNCHANGED genId
     \/ /\ Valid(parent) /\ CanHold(parent)
        /\ LET k == Counter(parent)
               path == Append(parent, k)
           IN /\ k <= GenLimit
              /\ genId' = [p \in DOMAIN genId \cup {parent} |->
                             IF p = parent THEN k + 1 ELSE genId[p]]
              /\ \/ Exists(path) /\ Fail("PATH_FAILED")
                 \/ /\ ~Exists(path)
                    /\ Insert(path, IF ephemeral THEN c ELSE NoOwner, v)
                    /\ Answer("OK", {k}) /\ notify_watchers({path})

master_gen(c, parent, v, ephemeral) ==
  /\ Request(c)
  /\ \/ ~Valid(parent) /\ Fail("ERROR") /\ UNCHANGED genId
     \/ Valid(parent) /\ ~CanHold(parent) /\ Fail("NODE_FAILED") /\ UNCHANGED genId
     \/ /\ Valid(parent) /\ CanHold(parent)
        /\ LET k == Counter(parent)
               path == Append(parent, k)
           IN /\ k <= GenLimit                \* bound: one attempt over the limit
              /\ genId' = [p \in DOMAIN genId \cup {parent} |->
                             IF p = parent THEN k + 1 ELSE genId[p]]
              /\ \/ k >= GenLimit /\ Fail("ERROR")
                 \/ k < GenLimit /\ Exists(path) /\ Fail("PATH_FAILED")
                 \/ /\ k < GenLimit /\ ~Exists(path)
                    /\ Insert(path, IF ephemeral THEN c ELSE NoOwner, v)
                    /\ Answer("OK", {k}) /\ notify_watchers({path})

master_add(c, path, v, ephemeral) ==
  /\ Request(c) /\ UNCHANGED genId
  /\ \/ ~Valid(path) /\ Fail("ERROR")
     \/ Valid(path) /\ ~CanHold(Parent(path)) /\ Fail("PATH_FAILED")
     \/ Valid(path) /\ CanHold(Parent(path)) /\ Exists(path) /\ Fail("NODE_FAILED")
     \/ /\ Valid(path) /\ CanHold(Parent(path)) /\ ~Exists(path)
        /\ Insert(path, IF ephemeral THEN c ELSE NoOwner, v)
        /\ Answer("OK", {}) /\ notify_watchers({path})

\* As master_del would be without its test for children.
master_del_subtree(c, path) ==
  /\ Request(c)
  /\ \/ ~Valid(path) /\ Fail("ERROR") /\ UNCHANGED genId
     \/ Valid(path) /\ ~Exists(path) /\ Fail("NODE_FAILED") /\ UNCHANGED genId
     \/ /\ Valid(path) /\ Exists(path)
        /\ Remove({path}) /\ genId' = [p \in DOMAIN genId \ {path} |-> genId[p]]
        /\ Answer("OK", {}) /\ notify_watchers({path})

master_del(c, path) ==
  /\ Request(c)
  /\ \/ ~Valid(path) /\ Fail("ERROR") /\ UNCHANGED genId
     \/ Valid(path) /\ ~Exists(path) /\ Fail("NODE_FAILED") /\ UNCHANGED genId
     \/ /\ Valid(path) /\ Exists(path) /\ node[path].sub # {}
        /\ Fail("PATH_FAILED") /\ UNCHANGED genId
     \/ /\ Valid(path) /\ Exists(path) /\ node[path].sub = {}
        /\ Remove({path}) /\ genId' = [p \in DOMAIN genId \ {path} |-> genId[p]]
        /\ Answer("OK", {}) /\ notify_watchers({path})

\* As master_set would be without the notification.
master_set_silent(c, path, v) ==
  /\ Request(c) /\ UNCHANGED genId
  /\ \/ ~Valid(path) /\ Fail("ERROR")
     \/ Valid(path) /\ ~Exists(path) /\ Fail("NODE_FAILED")
     \/ /\ Valid(path) /\ Exists(path)
        /\ node' = [node EXCEPT ![path].value = v]
        /\ Answer("OK", {}) /\ sent' = Nothing

master_set(c, path, v) ==
  /\ Request(c) /\ UNCHANGED genId
  /\ \/ ~Valid(path) /\ Fail("ERROR")
     \/ Valid(path) /\ ~Exists(path) /\ Fail("NODE_FAILED")
     \/ /\ Valid(path) /\ Exists(path)
        /\ node' = [node EXCEPT ![path].value = v]
        /\ Answer("OK", {}) /\ notify_watchers({path})

Read(c, path, data) ==
  /\ Request(c) /\ sent' = Nothing /\ UNCHANGED <<genId, node>>
  /\ \/ ~Valid(path) /\ Answer("ERROR", {})
     \/ Valid(path) /\ ~Exists(path) /\ Answer("NODE_FAILED", {})
     \/ Valid(path) /\ Exists(path) /\ Answer("OK", data)
master_get(c, path) == Read(c, path, {node[path].value})
master_sub(c, path) == Read(c, path, node[path].sub)

-----------------------------------------------------------------------------
\* serving: accept a connection
Accept(c) ==
  /\ up /\ c \notin conn
  /\ conn' = conn \cup {c} /\ watchers' = watchers \cup {c}
  /\ sent' = Nothing /\ reply' = NoReply
  /\ UNCHANGED <<node, genId, exiting, up>>

disconnect_clear_data(c) ==
  LET owned == {p \in DOMAIN node : node[p].owner = c}
  IN  Remove(owned) /\ notify_watchers(owned)

\* MASTER_CLIENT_FINALIZE
Finalize(c) ==
  /\ up /\ c \in conn \cap watchers
  /\ disconnect_clear_data(c)
  /\ watchers' = watchers \ {c}
  /\ Answer("OK", {})
  /\ UNCHANGED <<genId, conn, exiting, up>>

\* serving: the connection is dead (closed by the client, or the client crashed)
DisconnectKeepNodes(c) ==
  /\ up /\ c \in conn
  /\ watchers' = watchers \ {c} /\ conn' = conn \ {c}
  /\ sent' = Nothing /\ reply' = NoReply
  /\ UNCHANGED <<node, genId, exiting, up>>

Disconnect(c) ==
  /\ up /\ c \in conn
  /\ disconnect_clear_data(c)
  /\ watchers' = watchers \ {c} /\ conn' = conn \ {c}
  /\ reply' = NoReply
  /\ UNCHANGED <<genId, exiting, up>>

\* MASTER_EXIT, and the end of the serving loop once no client is connected
Exit ==
  /\ up
  /\ exiting' = TRUE /\ sent' = Nothing /\ reply' = NoReply
  /\ UNCHANGED <<node, genId, conn, watchers, up>>

Stop ==
  /\ up /\ exiting /\ conn = {}
  /\ up' = FALSE /\ sent' = Nothing /\ reply' = NoReply
  /\ UNCHANGED <<node, genId, conn, watchers, exiting>>

Operation(c) ==
  \E p \in Path :
    \/ \E v \in Value, e \in BOOLEAN : master_gen(c, p, v, e) \/ master_add(c, p, v, e)
    \/ \E v \in Value : master_set(c, p, v)
    \/ master_del(c, p) \/ master_get(c, p) \/ master_sub(c, p)

Next ==
  \/ \E c \in Client : Accept(c) \/ Operation(c) \/ Finalize(c) \/ Disconnect(c)
  \/ Exit \/ Stop

Spec == Init /\ [][Next]_vars

-----------------------------------------------------------------------------
\* Types of the tree and of the connections; generated names
\* stay within their ten digits.
TypeOK ==
  /\ DOMAIN node \subseteq Seq(Name) /\ Root \in DOMAIN node
  /\ \A p \in DOMAIN node :
       node[p] \in [owner : Client \cup {NoOwner}, value : Value, sub : SUBSET Name]
  /\ DOMAIN genId \subseteq Seq(Name) /\ \A p \in DOMAIN genId : genId[p] \in Nat
  /\ conn \subseteq Client /\ watchers \subseteq Client
  /\ \A c \in Client : sent[c] \subseteq Seq(Name)
  /\ exiting \in BOOLEAN /\ up \in BOOLEAN

\* The tree is a tree: every node but the root has its parent, and the sub set
\* of a node names exactly its children, and a counter of generated names does
\* not outlive its node.  The SCHECKs on sub.insert and
\* sub.erase of add, gen, del and disconnect_clear_data rest on it.
TreeConsistent ==
  /\ \A p \in DOMAIN node : p # Root => Parent(p) \in DOMAIN node
  /\ \A p \in DOMAIN node : node[p].sub = {k \in Name : Append(p, k) \in DOMAIN node}
  /\ DOMAIN genId \subseteq DOMAIN node

\* An ephemeral node belongs to a connected, not finalized client: a lock or a
\* registration never outlives its holder's connection.
OwnerConnected ==
  \A p \in DOMAIN node : node[p].owner # NoOwner => node[p].owner \in conn \cap watchers

\* The paths are a tree, whose ephemeral nodes belong to connected clients.
TreeSound == TypeOK /\ TreeConsistent /\ OwnerConnected

\* Every change of the tree is announced to every client that stays a watcher:
\* created and removed nodes and set values alike.
EveryChangeAnnounced ==
  [][\A p \in DOMAIN node \cup DOMAIN node' :
       (p \notin DOMAIN node \cap DOMAIN node' \/ node'[p].value # node[p].value)
         => \A c \in watchers' : p \in sent'[c]]_vars

-----------------------------------------------------------------------------
\* For TLC: the clients are interchangeable. A node, a chosen child and a generated
\* child; generating below either child makes a third level.
Symmetry == Permutations(Client)
TwoLevels ==
  LET a == CHOOSE k \in Key : TRUE
      b == CHOOSE k \in Key : k # a
  IN  {Root, <<a>>, <<a, b>>, <<a, 0>>}
=============================================================================
