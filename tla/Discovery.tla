----------------------------- MODULE Discovery -----------------------------
(***************************************************************************)
(* Service discovery: processes register themselves and a server of one    *)
(* RPC service on the Master (MasterClient.cpp, RpcService.cpp), and an    *)
(* observing process keeps its tables of FrontEnds and servers in step     *)
(* with the tree (RpcService::watching, RpcContext::update_comm_info and   *)
(* update_service_info).  It reads the tree one request at a time while    *)
(* the others go on changing it.  The distributed lock appears by what     *)
(* module MasterLock shows of it: one holder, freed when the holder dies.  *)
(***************************************************************************)
EXTENDS Naturals, FiniteSets, Sequences, FiniteSetsExt

CONSTANTS Proc,          \* registering processes; also their ranks and server ids
          Observer,      \* the observing process
          NodeKey, RpcKey, Svc, IdKey,   \* names in the tree
          MaxStart,      \* bound: servers each process creates
          Mortal,        \* the processes that may crash
          Dialer,        \* the processes that connect to the observer
          Deregisterer,  \* the processes that call deregister_rpc_service
          NoOwner

ASSUME StartAssumption == MaxStart \in Nat /\ IsFiniteSet(Proc)
ASSUME RoleAssumption == Mortal \cup Dialer \cup Deregisterer \subseteq Proc
ASSUME ObserverAssumption == Observer \notin Proc

Client == Proc \cup {Observer}
MaxId == MaxStart * Cardinality(Proc)
nodes_path == <<NodeKey>>
api_path == <<RpcKey>>
svc_path == <<RpcKey, Svc>>
id_path == <<IdKey>>

VARIABLES
  node, genId, conn, watchers, sent, reply, exiting, up,   \* of the Master
  lock,      \* holder of the lock of the service, NoOwner if free
  pc, rpcId, starts,     \* of the registering processes
  dropped,   \* history: ids of the service that were deregistered
  opc,       \* where update_ctx of the observer stands
  changed,   \* its AsyncWatcher moved on since the pass began
  todo,      \* names it still has to read
  list,      \* the result of get_comm_info
  fresh,     \* the result of the second get_comm_info
  info,      \* the result of get_rpc_service_info
  client,    \* _client_sockets: state of the FrontEnd of each rank
  server,    \* _server_sockets, likewise
  toDel,     \* _to_del_client_sockets
  table      \* _rpc_info with the tables derived from it

master == <<node, genId, conn, watchers, sent, reply, exiting, up>>
procVars == <<lock, pc, rpcId, starts, dropped>>
readVars == <<opc, changed, todo, list, fresh, info>>
ctxVars == <<client, server, toDel, table>>
vars == <<master, procVars, readVars, ctxVars>>

M == INSTANCE Master WITH
  Key <- Proc \cup {NodeKey, RpcKey, Svc, IdKey}, Value <- Proc \cup {Observer} \cup 0..MaxId,
  Path <- {nodes_path, api_path, svc_path, id_path}, GenLimit <- MaxId

NoService == [id |-> 0, servers |-> {}]
Dir(subs) == [owner |-> NoOwner, value |-> Observer, sub |-> subs]

\* The observer has initialized; initialize of each process adds the directories.
Init ==
  /\ node = [p \in {<<>>, nodes_path, api_path, id_path} |->
               Dir(IF p = <<>> THEN {NodeKey, RpcKey, IdKey} ELSE {})]
  /\ genId = [p \in {} |-> 0] /\ conn = Client /\ watchers = Client
  /\ sent = M!Nothing /\ reply = M!NoReply /\ exiting = FALSE /\ up = TRUE
  /\ lock = NoOwner
  /\ pc = [p \in Proc |-> "new"] /\ rpcId = [p \in Proc |-> 0] /\ starts = [p \in Proc |-> 0] /\ dropped = {}
  /\ opc = "nodes" /\ changed = FALSE /\ todo = {} /\ list = {} /\ fresh = {} /\ info = NoService
  /\ client = [p \in Proc |-> "none"] /\ server = [p \in Proc |-> "none"]
  /\ toDel = {} /\ table = NoService

Ok == reply'.status = "OK"
Datum == CHOOSE d \in reply'.data : TRUE
Goto(p, s) == pc' = [pc EXCEPT ![p] = s]
\* The observer's callbacks run notify() for every change below the two paths.
Receive == changed' = (changed \/ sent'[Observer] # {})
Quiet ==
  /\ sent' = M!Nothing /\ reply' = M!NoReply
  /\ UNCHANGED <<node, genId, conn, watchers, exiting, up>>
Others == <<dropped, opc, todo, list, fresh, info, ctxVars>>

-----------------------------------------------------------------------------
\* register_node
RegisterNode(p) ==
  /\ pc[p] = "new"
  /\ M!master_add(p, Append(nodes_path, p), p, TRUE) /\ Receive
  /\ Goto(p, IF Ok THEN "idle" ELSE "aborted")
  /\ UNCHANGED <<lock, rpcId, starts, Others>>

\* As register_rpc_service would be without the lock.
AcquireFree(p, s) ==
  /\ pc[p] = "idle"
  /\ IF s = "get" THEN starts[p] < MaxStart ELSE p \in Deregisterer /\ starts[p] > 0
  /\ lock' = p /\ Goto(p, s)
  /\ starts' = IF s = "get" THEN [starts EXCEPT ![p] = @ + 1] ELSE starts
  /\ Quiet /\ UNCHANGED <<rpcId, changed, Others>>

\* create_server or deregister_rpc_service begins with acquire_lock
Acquire(p, s) ==
  /\ pc[p] = "idle" /\ lock = NoOwner
  /\ IF s = "get" THEN starts[p] < MaxStart ELSE p \in Deregisterer /\ starts[p] > 0
  /\ lock' = p /\ Goto(p, s)
  /\ starts' = IF s = "get" THEN [starts EXCEPT ![p] = @ + 1] ELSE starts
  /\ Quiet /\ UNCHANGED <<rpcId, changed, Others>>

\* register_rpc_service: the id of the service, or a new one
GetService(p) ==
  /\ pc[p] = "get"
  /\ M!master_get(p, svc_path) /\ Receive
  /\ Goto(p, IF Ok THEN "release" ELSE "gen")
  /\ rpcId' = IF Ok THEN [rpcId EXCEPT ![p] = Datum] ELSE rpcId
  /\ UNCHANGED <<lock, starts, Others>>
GenerateId(p) ==
  /\ pc[p] = "gen"
  /\ M!master_gen(p, id_path, p, TRUE) /\ Receive
  /\ Goto(p, IF Ok THEN "add" ELSE "aborted")
  /\ rpcId' = IF Ok THEN [rpcId EXCEPT ![p] = Datum] ELSE rpcId
  /\ UNCHANGED <<lock, starts, Others>>
AddService(p) ==
  /\ pc[p] = "add"
  /\ M!master_add(p, svc_path, rpcId[p], FALSE) /\ Receive
  /\ Goto(p, "release")
  /\ UNCHANGED <<lock, rpcId, starts, Others>>

\* release_lock; register_server goes on without it
Release(p) ==
  /\ pc[p] \in {"release", "end"}
  /\ lock' = IF lock = p THEN NoOwner ELSE lock
  /\ Goto(p, IF pc[p] = "release" THEN "server" ELSE "idle")
  /\ Quiet /\ UNCHANGED <<rpcId, starts, changed, Others>>

\* As register_server would be if every server of a service had one id.
AddServerOneId(p) ==
  /\ pc[p] = "server"
  /\ M!master_add(p, Append(svc_path, Svc), p, TRUE) /\ Receive
  /\ Goto(p, IF Ok THEN "serving" ELSE "aborted")
  /\ UNCHANGED <<lock, rpcId, starts, Others>>

\* the server's ephemeral node, and SCHECK(register_server(...))
AddServer(p) ==
  /\ pc[p] = "server"
  /\ M!master_add(p, Append(svc_path, p), p, TRUE) /\ Receive
  /\ Goto(p, IF Ok THEN "serving" ELSE "aborted")
  /\ UNCHANGED <<lock, rpcId, starts, Others>>

\* remove_server: deregister_server and SCHECK(ret)
RemoveServer(p) ==
  /\ pc[p] = "serving"
  /\ M!master_del(p, Append(svc_path, p)) /\ Receive
  /\ Goto(p, IF Ok THEN "idle" ELSE "aborted")
  /\ UNCHANGED <<lock, rpcId, starts, Others>>

\* deregister_rpc_service: fails while the service has servers
Deregister(p) ==
  /\ pc[p] = "del"
  /\ M!master_del(p, svc_path) /\ Receive
  /\ Goto(p, "end")
  /\ dropped' = IF Ok THEN dropped \cup {node[svc_path].value} ELSE dropped
  /\ UNCHANGED <<lock, rpcId, starts, opc, todo, list, fresh, info, ctxVars>>

\* The process dies, or an SCHECK has aborted it; the master notices, and its
\* nodes and its lock go.
Down == {"dead", "aborted", "gone"}
Crash(p) ==
  /\ p \in Mortal /\ pc[p] \notin Down
  /\ Goto(p, "dead") /\ Quiet /\ UNCHANGED <<lock, rpcId, starts, changed, Others>>
MasterNotices(p) ==
  /\ pc[p] \in {"dead", "aborted"}
  /\ M!Disconnect(p) /\ Receive
  /\ lock' = IF lock = p THEN NoOwner ELSE lock
  /\ Goto(p, "gone")
  /\ UNCHANGED <<rpcId, starts, Others>>

-----------------------------------------------------------------------------
\* get_comm_info: the ranks, then the CommInfo of each one that still exists.
SubNodes ==
  /\ opc \in {"nodes", "nodes2"}
  /\ M!master_sub(Observer, nodes_path) /\ Receive
  /\ todo' = reply'.data
  /\ IF opc = "nodes" THEN list' = {} /\ fresh' = {} /\ opc' = "node"
                      ELSE fresh' = {} /\ opc' = "node2" /\ UNCHANGED list
  /\ UNCHANGED <<info, procVars, ctxVars>>

GetNode(r) ==
  /\ opc \in {"node", "node2"} /\ r \in todo
  /\ M!master_get(Observer, Append(nodes_path, r)) /\ Receive
  /\ todo' = todo \ {r}
  /\ IF opc = "node" THEN list' = (IF Ok THEN list \cup {Datum} ELSE list) /\ UNCHANGED fresh
                     ELSE fresh' = (IF Ok THEN fresh \cup {Datum} ELSE fresh) /\ UNCHANGED list
  /\ UNCHANGED <<opc, info, procVars, ctxVars>>

\* update_comm_info takes the write lock.  When an accepted connection seems to
\* have gone, the tree is read again before anything is deleted.
NeedFresh == \E r \in Proc : server[r] # "none" /\ r \notin list
\* As update_comm_info would be if it trusted the first list.
LookAtServersOnce ==
  /\ opc = "node" /\ todo = {}
  /\ opc' = "comm" /\ fresh' = list
  /\ Quiet /\ UNCHANGED <<changed, todo, list, info, procVars, ctxVars>>

LookAtServers ==
  /\ opc = "node" /\ todo = {}
  /\ opc' = IF NeedFresh THEN "nodes2" ELSE "comm"
  /\ fresh' = list
  /\ Quiet /\ UNCHANGED <<changed, todo, list, info, procVars, ctxVars>>

Gone(socks) == {r \in Proc : socks[r] # "none" /\ r \notin fresh}
Drop(socks) == [r \in Proc |-> IF r \in Gone(socks) /\ socks[r] = "epipe" THEN "none" ELSE socks[r]]
UpdateComm ==
  /\ opc = "comm" \/ (opc = "node2" /\ todo = {})
  /\ server' = Drop(server)
  /\ client' = [r \in Proc |-> IF r \in list /\ Drop(client)[r] = "none" THEN "ok"
                               ELSE Drop(client)[r]]
  /\ toDel' = toDel \cup {r \in Gone(client) : client[r] = "ok"}
                    \cup {r \in Gone(server) : server[r] = "ok"}
  /\ opc' = "names" /\ list' = {} /\ fresh' = {}
  /\ Quiet /\ UNCHANGED <<changed, todo, info, table, procVars>>

\* get_rpc_service_info: the services, the id, the server ids, each server.
SubNames ==
  /\ opc = "names"
  /\ M!master_sub(Observer, api_path) /\ Receive
  /\ info' = NoService /\ todo' = {}
  /\ opc' = IF reply'.data = {} THEN "update" ELSE "id"
  /\ UNCHANGED <<list, fresh, procVars, ctxVars>>
GetId ==
  /\ opc = "id"
  /\ M!master_get(Observer, svc_path) /\ Receive
  /\ info' = IF Ok THEN [info EXCEPT !.id = Datum] ELSE info
  /\ opc' = IF Ok THEN "sids" ELSE "update"
  /\ UNCHANGED <<todo, list, fresh, procVars, ctxVars>>
SubSids ==
  /\ opc = "sids"
  /\ M!master_sub(Observer, svc_path) /\ Receive
  /\ todo' = reply'.data
  /\ opc' = IF Ok THEN "sid" ELSE "update"
  /\ UNCHANGED <<info, list, fresh, procVars, ctxVars>>
GetServer(s) ==
  /\ opc = "sid" /\ s \in todo
  /\ M!master_get(Observer, Append(svc_path, s)) /\ Receive
  /\ todo' = todo \ {s}
  /\ info' = IF Ok THEN [info EXCEPT !.servers = @ \cup {<<s, Datum>>}] ELSE info
  /\ UNCHANGED <<opc, list, fresh, procVars, ctxVars>>

\* As watching would be if wait read its version after the pass.
UpdateServiceDeaf ==
  /\ opc = "update" \/ (opc = "sid" /\ todo = {})
  /\ table' = [info EXCEPT !.servers = {s \in @ : client[s[2]] # "none"}]
  /\ opc' = "wait" /\ changed' = FALSE /\ info' = NoService
  /\ Quiet /\ UNCHANGED <<todo, list, fresh, client, server, toDel, procVars>>

\* update_service_info keeps the servers on ranks that have a FrontEnd.
UpdateService ==
  /\ opc = "update" \/ (opc = "sid" /\ todo = {})
  /\ table' = [info EXCEPT !.servers = {s \in @ : client[s[2]] # "none"}]
  /\ opc' = "wait" /\ info' = NoService
  /\ Quiet /\ UNCHANGED <<changed, todo, list, fresh, client, server, toDel, procVars>>

\* AsyncWatcher::wait: the version is read before the next pass.
Pass ==
  /\ opc = "wait" /\ changed
  /\ changed' = FALSE /\ opc' = "nodes"
  /\ Quiet /\ UNCHANGED <<todo, list, fresh, info, procVars, ctxVars>>

Observe ==
  \/ SubNodes \/ LookAtServers \/ UpdateComm \/ SubNames \/ GetId \/ SubSids
  \/ UpdateService \/ Pass \/ \E r \in Proc : GetNode(r) \/ GetServer(r)

-----------------------------------------------------------------------------
\* accept: a live process connects to the observer; an older connection of its
\* rank is replaced.
Locked == opc \in {"nodes2", "node2", "comm"}   \* the observer holds the write lock
Accept(r) ==
  /\ r \in Dialer /\ ~Locked /\ pc[r] \notin Down \cup {"new"} /\ server[r] # "ok"
  /\ server' = [server EXCEPT ![r] = "ok"]
  /\ Quiet /\ UNCHANGED <<procVars, readVars, client, toDel, table>>

\* handle_message_event: the connection to a dead process fails.
Fail(r) ==
  /\ ~Locked /\ pc[r] \in Down
  /\ \/ /\ client[r] = "ok"
        /\ client' = [client EXCEPT ![r] = IF r \in toDel THEN "none" ELSE "epipe"]
        /\ UNCHANGED server
     \/ /\ server[r] = "ok"
        /\ server' = [server EXCEPT ![r] = IF r \in toDel THEN "none" ELSE "epipe"]
        /\ UNCHANGED client
  /\ Quiet /\ UNCHANGED <<procVars, readVars, toDel, table>>

Step(p) ==
  \/ RegisterNode(p) \/ GetService(p) \/ GenerateId(p) \/ AddService(p)
  \/ Release(p) \/ AddServer(p) \/ Deregister(p)

Next ==
  \/ \E p \in Proc : Step(p) \/ Acquire(p, "get") \/ Acquire(p, "del") \/ RemoveServer(p)
                     \/ Crash(p) \/ MasterNotices(p) \/ Accept(p) \/ Fail(p)
  \/ Observe

Spec == Init /\ [][Next]_vars
\* Processes finish what they began, the master notices dead connections, and
\* the observer's watch thread runs.
FairSpec ==
  /\ Spec /\ WF_vars(Observe)
  /\ \A p \in Proc : WF_vars(Step(p)) /\ WF_vars(MasterNotices(p)) /\ WF_vars(Fail(p))

-----------------------------------------------------------------------------
\* No SCHECK of create_server, remove_server or register_node fails, unless
\* deregister_rpc_service removed the service after register_rpc_service had
\* released the lock and before register_server.
AbortsOnlyDropped == \A p \in Proc : pc[p] = "aborted" => rpcId[p] \in dropped

\* Whoever serves, serves under the id that the tree gives to clients, however
\* many processes register the service for the first time at once; only a
\* deregistration in the same gap can leave a server with an older id.
ServesUnderItsId ==
  \A p \in Proc : pc[p] = "serving" =>
    svc_path \in DOMAIN node /\ (node[svc_path].value = rpcId[p] \/ rpcId[p] \in dropped)

\* A live process is never marked for deletion because of a list that was read
\* before it registered: its FrontEnd would go with its first failure for ever.
MarkedAreDead == \A r \in toDel : pc[r] \in Down

\* The three together: what a reader of the tree relies on.
DiscoverySound == AbortsOnlyDropped /\ ServesUnderItsId /\ MarkedAreDead

Registered == {r \in Proc : Append(nodes_path, r) \in DOMAIN node}
Servers == {<<p, p>> : p \in {q \in Proc : Append(svc_path, q) \in DOMAIN node}}

\* The observer's tables catch up with the tree: once nothing changes any more
\* they hold exactly the registered servers, and a FrontEnd for exactly the
\* registered processes beside those that wait for their deletion.
ViewConverges ==
  <>[](/\ table.servers = Servers
       /\ {r \in Proc : client[r] # "none"} \ toDel = Registered)
=============================================================================
