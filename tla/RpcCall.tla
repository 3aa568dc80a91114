------------------------------ MODULE RpcCall ------------------------------
(***************************************************************************)
(* Calls of the client dealers of one process: Dealer.cpp/.h,              *)
(* RpcClient.cpp and the client half of RpcContext.cpp. A call asks for    *)
(* one server id, or one process, or for any; its process, Here, and       *)
(* another one, There, serve the service. Servers move between the         *)
(* processes; Here learns of it by update_service_info. A message sent     *)
(* There is handed to a connection (module FrontEnd), which may break;     *)
(* requests that arrive are queued for the servers of that process (module *)
(* Backend) or dropped.                                                    *)
(***************************************************************************)
EXTENDS Integers, Sequences, FiniteSetsExt, Functions

CONSTANTS Sid, Where0,  \* the servers and where they are at first
          Target,     \* what calls may ask for: servers, processes, Any
          Dealers,    \* bound: dealers, numbered in the order they are made
          Calls,      \* bound: calls, numbered in the order they are made
          IdSpace,    \* gen_id takes ids modulo this number
          MaxMoves,   \* bound: server moves in all
          MaxBreaks   \* bound: broken connections

Any == "any"          \* sid and dest_rank -1
Nowhere == "none"
Rank == {"here", "there"}
Dealer == 1..Dealers
Call == 1..Calls

VARIABLES
  where, moves,       \* the process of each server, or Nowhere; times it moved
  view, viewMoves,    \* the server list of update_service_info, and moves at that time
  up, breaks,         \* the client frontend to There is available; breaks so far
  dpc, id,            \* dealers: "new", "live", "dead"; _id
  nextId, usedIds,    \* gen_id: next, _used
  servers, available, \* _servers, and whether _available_rank is this process
  chan,               \* _client_resp_ch: calls whose responses wait
  waitsFor,           \* the call a dealer waits for, or 0
  late,               \* history: the dealer gave up waiting for a call
  target, by,         \* of each call: sid, process or Any; its dealer (src_dealer is its id)
  place,              \* where the call is
  routed,             \* of a routed request: whether by the dealer's cache; moves known
  answered            \* history: <<call waited for, call whose response came>>

vars == <<where, moves, view, viewMoves, up, breaks, dpc, id, nextId, usedIds, servers, available,
          chan, waitsFor, late, target, by, place, routed, answered>>
world == <<where, moves, view, viewMoves, up, breaks>>
life == <<dpc, id, nextId, usedIds>>
cacheVars == <<servers, available>>
callVars == <<target, by>>
ends == <<chan, waitsFor, late, answered>>

NoRoute == [cached |-> FALSE, known |-> [s \in Sid |-> 0]]
Init ==
  /\ where = Where0 /\ moves = [s \in Sid |-> 0]
  /\ view = where /\ viewMoves = moves /\ up = TRUE /\ breaks = 0
  /\ dpc = [d \in Dealer |-> "new"] /\ id = [d \in Dealer |-> -1]
  /\ nextId = 0 /\ usedIds = {}
  /\ servers = [d \in Dealer |-> {}] /\ available = [d \in Dealer |-> FALSE]
  /\ chan = [d \in Dealer |-> <<>>] /\ waitsFor = [d \in Dealer |-> 0]
  /\ late = {} /\ answered = {}
  /\ target \in [Call -> Target] /\ by = [c \in Call |-> 0]
  /\ place = [c \in Call |-> "new"] /\ routed = [c \in Call |-> NoRoute]

-----------------------------------------------------------------------------
\* As gen_id would be if it forgot the ids of finalized dealers and began anew.
GenIdReuse(d) ==
  LET free == (0..(IdSpace - 1)) \ {id[x] : x \in {y \in Dealer : dpc[y] = "live"}}
  IN  free # {} /\ id' = [id EXCEPT ![d] = Min(free)] /\ UNCHANGED <<nextId, usedIds>>
\* gen_id: the next id that was never used; with none left it does not return.
gen_id(d) ==
  LET ids == [k \in 0..(IdSpace - 1) |-> (nextId + k) % IdSpace]
      ks == {k \in DOMAIN ids : ids[k] \notin usedIds}
  IN  /\ ks # {}
      /\ id' = [id EXCEPT ![d] = ids[Min(ks)]] /\ nextId' = nextId + Min(ks) + 1
      /\ usedIds' = usedIds \cup {ids[Min(ks)]}

\* RpcClient::create_dealer: the constructor and add_client_dealer
create_dealer(d) ==
  /\ dpc[d] = "new" /\ (\A x \in 1..(d - 1) : dpc[x] # "new") /\ gen_id(d) /\ dpc' = [dpc EXCEPT ![d] = "live"]
  /\ UNCHANGED <<world, cacheVars, ends, callVars, place, routed>>
\* finalize: remove_client_dealer; the channel goes with what it holds
finalize(d) ==
  /\ dpc[d] = "live" /\ waitsFor[d] = 0
  /\ dpc' = [dpc EXCEPT ![d] = "dead"] /\ chan' = [chan EXCEPT ![d] = <<>>]
  /\ UNCHANGED <<world, id, nextId, usedIds, cacheVars, waitsFor, late, answered, callVars, place,
                 routed>>

-----------------------------------------------------------------------------
Match(t, s) == t \in {Any, s} \cup Rank

\* The processes that get_client_frontend_by_sid, _by_rank or _by_rpc_id may choose
Frontends(t) ==
  {r \in IF t \in Rank THEN {t} ELSE {view[s] : s \in {x \in Sid : Match(t, x)}} :
     r = "here" \/ (r = "there" /\ up)}

\* RpcContext::push_request: queued for a server of process r, or dropped
Arrived(t, r) ==
  IF \E s \in Sid : where[s] = r /\ Match(t, s) THEN "at_" \o r ELSE "dropped"

\* RpcContext::push_response: to the client dealer with that id, if there is one
push_response(c, d0) ==
  LET ds == {d \in Dealer : dpc[d] = "live" /\ id[d] = id[d0]}
  IN  /\ place' = [place EXCEPT ![c] = IF ds = {} THEN "unclaimed" ELSE "chan"]
      /\ chan' = [d \in Dealer |-> IF d \in ds THEN Append(chan[d], c) ELSE chan[d]]

\* RpcContext::send_request: to a process, its own backend included, or the error
\* response ENOSUCHSERVER
send_request(c, d, r) ==
  /\ place' = [place EXCEPT ![c] = IF r = "there" THEN "to_there" ELSE Arrived(target[c], r)]
  /\ routed' = [routed EXCEPT ![c] = [cached |-> FALSE, known |-> viewMoves]]
  /\ UNCHANGED chan
NoSuchServer(c, d) == Frontends(target[c]) = {} /\ push_response(c, d) /\ UNCHANGED routed

\* _send_request takes the short way to this process: the request names it, or
\* the dealer has met the server, or any server, here.
Cached(d, t) == t = "here" \/ t \in servers[d] \/ (t = Any /\ available[d])
Begin(d, c) ==
  /\ dpc[d] = "live" /\ waitsFor[d] = 0
  /\ place[c] = "new" /\ (\A x \in 1..(c - 1) : place[x] # "new")
  /\ waitsFor' = [waitsFor EXCEPT ![d] = c] /\ by' = [by EXCEPT ![c] = d]
SendCached(d, c) ==
  /\ Begin(d, c) /\ Cached(d, target[c])
  /\ place' = [place EXCEPT ![c] = Arrived(target[c], "here")]
  /\ routed' = [routed EXCEPT ![c] = [cached |-> TRUE, known |-> viewMoves]]
  /\ UNCHANGED <<world, life, cacheVars, chan, late, answered, target>>
Send(d, c) ==
  /\ Begin(d, c) /\ ~Cached(d, target[c])
  /\ \/ \E r \in Frontends(target[c]) :
          /\ send_request(c, d, r)
          /\ servers' = IF r = "here" /\ target[c] \in Sid
                        THEN [servers EXCEPT ![d] = @ \cup {target[c]}] ELSE servers
          /\ available' = [available EXCEPT ![d] = @ \/ r = "here"]
     \/ NoSuchServer(c, d) /\ UNCHANGED cacheVars
  /\ UNCHANGED <<world, life, late, answered, target>>

\* The connection delivers a request, or breaks: what the frontend still holds
\* goes through send_request again (epipe), the rest is lost with the responses
\* on their way.
Arrive(c) ==
  /\ place[c] = "to_there" /\ up
  /\ place' = [place EXCEPT ![c] = Arrived(target[c], "there")]
  /\ UNCHANGED <<world, life, cacheVars, ends, callVars, routed>>
Break ==
  /\ up /\ breaks < MaxBreaks /\ up' = FALSE /\ breaks' = breaks + 1
  /\ \E held \in SUBSET {c \in Call : place[c] = "to_there"} :
       place' = [c \in Call |-> IF c \in held THEN "resend"
                                ELSE IF place[c] \in {"to_there", "back"} THEN "lost"
                                ELSE place[c]]
  /\ UNCHANGED <<where, moves, view, viewMoves, life, cacheVars, ends, callVars, routed>>
Resend(c) ==
  /\ place[c] = "resend"
  /\ (\E r \in Frontends(target[c]) : send_request(c, by[c], r)) \/ NoSuchServer(c, by[c])
  /\ UNCHANGED <<world, life, cacheVars, waitsFor, late, answered, callVars>>
Reconnect ==
  /\ ~up /\ up' = TRUE
  /\ UNCHANGED <<where, moves, view, viewMoves, breaks, life, cacheVars, ends, callVars, place,
                 routed>>

\* A server answers: Dealer::send_response hands the response to a dealer of its
\* own process, or to the connection, or drops it when there is none.
Serve(c) ==
  /\ \/ place[c] = "at_here" /\ push_response(c, by[c])
     \/ /\ place[c] = "at_there" /\ place' = [place EXCEPT ![c] = IF up THEN "back" ELSE "lost"]
        /\ UNCHANGED chan
  /\ UNCHANGED <<world, life, cacheVars, waitsFor, late, answered, callVars, routed>>
ArriveBack(c) ==
  /\ place[c] = "back" /\ push_response(c, by[c])
  /\ UNCHANGED <<world, life, cacheVars, waitsFor, late, answered, callVars, routed>>

\* recv_response returns the oldest response, or false at its time limit
recv_response(d) ==
  /\ waitsFor[d] # 0 /\ chan[d] # <<>>
  /\ answered' = answered \cup {<<waitsFor[d], Head(chan[d])>>}
  /\ chan' = [chan EXCEPT ![d] = Tail(@)] /\ waitsFor' = [waitsFor EXCEPT ![d] = 0]
  /\ place' = [place EXCEPT ![Head(chan[d])] = "done"]
  /\ UNCHANGED <<world, life, cacheVars, late, callVars, routed>>
GiveUp(d) ==
  /\ waitsFor[d] # 0 /\ chan[d] = <<>>
  /\ waitsFor' = [waitsFor EXCEPT ![d] = 0] /\ late' = late \cup {d}
  /\ UNCHANGED <<world, life, cacheVars, chan, answered, callVars, place, routed>>

\* A server leaves (~RpcServer drops what waits for it, which may be requests for
\* any server) or is made again somewhere.
Leave(s) ==
  /\ where[s] # Nowhere /\ SumFunction(moves) < MaxMoves
  /\ where' = [where EXCEPT ![s] = Nowhere] /\ moves' = [moves EXCEPT ![s] = @ + 1]
  /\ LET here == {c \in Call : place[c] = "at_" \o where[s]}
         must == {c \in here : \A x \in Sid \ {s} : where[x] # where[s] \/ target[c] = s}
         may == {c \in here : Match(target[c], s)}
     IN  \E gone \in SUBSET may :
           /\ must \cap may \subseteq gone
           /\ place' = [c \in Call |-> IF c \in gone THEN "dropped" ELSE place[c]]
  /\ UNCHANGED <<view, viewMoves, up, breaks, life, cacheVars, ends, callVars, routed>>
Join(s) ==
  /\ where[s] = Nowhere /\ \E r \in Rank : where' = [where EXCEPT ![s] = r]
  /\ UNCHANGED <<moves, view, viewMoves, up, breaks, life, cacheVars, ends, callVars, place, routed>>
update_service_info ==
  /\ view # where /\ view' = where /\ viewMoves' = moves
  /\ UNCHANGED <<where, moves, up, breaks, life, cacheVars, ends, callVars, place, routed>>

Next ==
  \/ \E d \in Dealer : create_dealer(d) \/ finalize(d) \/ recv_response(d) \/ GiveUp(d)
  \/ \E d \in Dealer, c \in Call : SendCached(d, c) \/ Send(d, c)
  \/ \E c \in Call : Arrive(c) \/ Resend(c) \/ Serve(c) \/ ArriveBack(c)
  \/ Break \/ Reconnect \/ update_service_info
  \/ \E s \in Sid : Leave(s) \/ Join(s)

Spec == Init /\ [][Next]_vars

-----------------------------------------------------------------------------
\* A response reaches the dealer that sent the request and no other, also when
\* it comes after the dealer is gone and others were made; and the response a
\* caller gets is the one to its call, unless it gave up waiting before: there
\* is no request number to tell a late response by.
RightAnswer ==
  /\ \A d \in Dealer : \A i \in DOMAIN chan[d] : by[chan[d][i]] = d
  /\ \A p \in answered : by[p[1]] = by[p[2]] /\ (p[1] = p[2] \/ by[p[1]] \in late)

\* A request that names no process is dropped for want of a server only when a
\* server it was routed to has moved since Here learned of it, or when its dealer
\* took the short way to a server it once met here: that cache is never corrected.
DroppedOnlyStale ==
  \A c \in Call : place[c] = "dropped" /\ target[c] \notin Rank =>
    \/ routed[c].cached
    \/ \E s \in Sid : Match(target[c], s) /\ moves[s] > routed[c].known[s]
=============================================================================
