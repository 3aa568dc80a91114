------------------------------ MODULE Backend ------------------------------
(***************************************************************************)
(* The serving side of one RPC service in a process: FairQueue and the     *)
(* _server_backend of RpcContext.cpp, RpcServer.cpp and the server half of *)
(* Dealer.cpp.  IO threads push requests under the read lock of            *)
(* _spin_lock (module Locks) while application threads create and          *)
(* remove servers and dealers under its write lock.  A request is for one  *)
(* server id or, with AnySid (-1), for whichever server there is.  The     *)
(* round-robin indices start uninitialized and are shared without order by *)
(* the IO threads, so any index may come up.                               *)
(***************************************************************************)
EXTENDS Naturals, Sequences, FiniteSets, SequencesExt, TLC

CONSTANTS Req,     \* requests that arrive
          Sid,     \* server ids
          Dealer,  \* server dealers that are created
          AnySid,  \* sid -1
          None

ASSUME AnyAssumption == AnySid \notin Sid /\ None \notin Dealer \cup Sid \cup {AnySid}

VARIABLES
  readers,  \* requests whose IO thread holds the read lock
  to,       \* sid field of each request
  rpc,      \* where its push_request stands
  dest,     \* the dealer or the cache it was routed to
  dealers,  \* _sid2dealers
  sids,     \* _sids
  cache,    \* _sid2cache: the cached requests of each server that exists
  unlinked, \* requests in a cache whose push has not linked them
  box,      \* _server_req_ch of each dealer
  dpc,      \* where each dealer stands in its life
  sidOf,    \* the server it was created from
  members,  \* RpcServer::_dealers
  stopped,  \* servers with _terminate set
  told,     \* dealers whose terminate was called
  lost      \* requests dropped: no such server, server or dealer removed

vars == <<readers, to, rpc, dest, dealers, sids, cache, unlinked, box, dpc, sidOf, members,
          stopped, told, lost>>
reqVars == <<readers, to, rpc, dest>>
queueVars == <<dealers, sids, cache, unlinked, box>>
lifeVars == <<dpc, sidOf, members, stopped, told>>

Init ==
  /\ readers = {} /\ to \in [Req -> Sid \cup {AnySid}]
  /\ rpc = [q \in Req |-> "idle"] /\ dest = [q \in Req |-> None]
  /\ dealers = [s \in {} |-> <<>>] /\ sids = <<>> /\ cache = [s \in {} |-> <<>>] /\ unlinked = {}
  /\ box = [d \in Dealer |-> <<>>]
  /\ dpc = [d \in Dealer |-> "new"] /\ sidOf = [d \in Dealer |-> None]
  /\ members = [s \in Sid |-> {}] /\ stopped = {} /\ told = {} /\ lost = {}

Put(f, k, v) == [x \in DOMAIN f \cup {k} |-> IF x = k THEN v ELSE f[x]]
Without(f, k) == [x \in DOMAIN f \ {k} |-> f[x]]
WriteLock == readers = {}     \* a writer runs alone, and its work is one step

-----------------------------------------------------------------------------
\* handle_message_event takes the read lock; push_request finds the FairQueue
\* and next(sid) a dealer, or FairQueue::push_request a cache.
Candidates(s) ==
  IF s = AnySid /\ sids # <<>> THEN ToSet(sids)
  ELSE IF s = AnySid THEN DOMAIN cache
  ELSE {s}
Route(q) ==
  /\ rpc[q] = "idle"
  /\ readers' = readers \cup {q}
  /\ \/ \E s \in Candidates(to[q]) \cap DOMAIN dealers, i \in 1..Cardinality(Dealer) :
          i \in DOMAIN dealers[s] /\ dest' = [dest EXCEPT ![q] = dealers[s][i]]
          /\ rpc' = [rpc EXCEPT ![q] = "deal"] /\ UNCHANGED lost
     \/ \E s \in Candidates(to[q]) \cap (DOMAIN cache \ DOMAIN dealers) :
          dest' = [dest EXCEPT ![q] = s]
          /\ rpc' = [rpc EXCEPT ![q] = "cache"] /\ UNCHANGED lost
     \/ /\ Candidates(to[q]) \cap (DOMAIN dealers \cup DOMAIN cache) = {}
        /\ rpc' = [rpc EXCEPT ![q] = "unlock"] /\ lost' = lost \cup {q} /\ UNCHANGED dest
  /\ UNCHANGED <<to, queueVars, lifeVars>>

\* dealer->push_request: SCHECK(_initialized_server), then the channel's send
Deal(q) ==
  /\ rpc[q] = "deal"
  /\ box' = [box EXCEPT ![dest[q]] = Append(@, q)]
  /\ rpc' = [rpc EXCEPT ![q] = "unlock"]
  /\ UNCHANGED <<readers, to, dest, dealers, sids, cache, unlinked, lifeVars, lost>>

\* MpscQueue::push into the cache, in its two steps
CachePush(q) ==
  /\ rpc[q] = "cache"
  /\ cache' = [cache EXCEPT ![dest[q]] = Append(@, q)] /\ unlinked' = unlinked \cup {q}
  /\ rpc' = [rpc EXCEPT ![q] = "link"]
  /\ UNCHANGED <<readers, to, dest, dealers, sids, box, lifeVars, lost>>
CacheLink(q) ==
  /\ rpc[q] = "link"
  /\ unlinked' = unlinked \ {q} /\ rpc' = [rpc EXCEPT ![q] = "unlock"]
  /\ UNCHANGED <<readers, to, dest, dealers, sids, cache, box, lifeVars, lost>>

Unlock(q) ==
  /\ rpc[q] = "unlock"
  /\ readers' = readers \ {q} /\ rpc' = [rpc EXCEPT ![q] = "done"]
  /\ UNCHANGED <<to, dest, queueVars, lifeVars, lost>>

-----------------------------------------------------------------------------
\* create_server: begin_add_server .. end_add_server
AddServer(s) ==
  /\ WriteLock /\ s \notin DOMAIN cache
  /\ cache' = Put(cache, s, <<>>)
  /\ stopped' = stopped \ {s}
  /\ UNCHANGED <<reqVars, dealers, sids, unlinked, box, dpc, sidOf, members, told, lost>>

\* What add_server_dealer can pop from the cache of s.
Popped(s) ==
  IF s \notin DOMAIN cache THEN <<>>
  ELSE LET n == SelectInSeq(cache[s], LAMBDA q : q \in unlinked)
       IN  IF n = 0 THEN cache[s] ELSE SubSeq(cache[s], 1, n - 1)

\* RpcServer::create_dealer, first part, and RpcService::create_dealer, whose
\* dealer belongs to no server (AnySid): RpcContext::add_server_dealer.
add_server_dealer(d, s) ==
  /\ dpc[d] = "new" /\ s \in DOMAIN cache \cup {AnySid}
  /\ dealers' = Put(dealers, s, IF s \in DOMAIN dealers THEN Append(dealers[s], d) ELSE <<d>>)
  /\ sids' = Append(sids, s)
  /\ box' = [box EXCEPT ![d] = Popped(s)]
  /\ cache' = [x \in DOMAIN cache |->
                 IF x = s THEN SubSeq(cache[s], Len(Popped(s)) + 1, Len(cache[s])) ELSE cache[x]]
  /\ dpc' = [dpc EXCEPT ![d] = IF s = AnySid THEN "live" ELSE "added"]
  /\ sidOf' = [sidOf EXCEPT ![d] = s]
  /\ UNCHANGED <<reqVars, unlinked, members, stopped, told, lost>>

\* As add_server_dealer would be with top in place of pop.
AddDealerTop(d, s) ==
  /\ WriteLock /\ dpc[d] = "new" /\ s \in DOMAIN cache \cup {AnySid}
  /\ dealers' = Put(dealers, s, IF s \in DOMAIN dealers THEN Append(dealers[s], d) ELSE <<d>>)
  /\ sids' = Append(sids, s) /\ box' = [box EXCEPT ![d] = Popped(s)]
  /\ dpc' = [dpc EXCEPT ![d] = IF s = AnySid THEN "live" ELSE "added"]
  /\ sidOf' = [sidOf EXCEPT ![d] = s]
  /\ UNCHANGED <<reqVars, cache, unlinked, members, stopped, told, lost>>

AddDealer(d, s) == WriteLock /\ add_server_dealer(d, s)

\* As create_dealer would be without its look at _terminate.
JoinUntold(d) ==
  /\ dpc[d] = "added"
  /\ members' = [members EXCEPT ![sidOf[d]] = @ \cup {d}]
  /\ dpc' = [dpc EXCEPT ![d] = "live"]
  /\ UNCHANGED <<reqVars, queueVars, sidOf, stopped, told, lost>>

\* create_dealer, second part, under the server's _lk
Join(d) ==
  /\ dpc[d] = "added"
  /\ members' = [members EXCEPT ![sidOf[d]] = @ \cup {d}]
  /\ told' = IF sidOf[d] \in stopped THEN told \cup {d} ELSE told
  /\ dpc' = [dpc EXCEPT ![d] = "live"]
  /\ UNCHANGED <<reqVars, queueVars, sidOf, stopped, lost>>

\* The dealer's thread receives.
Receive(d) ==
  /\ dpc[d] = "live" /\ box[d] # <<>>
  /\ box' = [box EXCEPT ![d] = Tail(@)]
  /\ UNCHANGED <<reqVars, dealers, sids, cache, unlinked, lifeVars, lost>>

\* Dealer::finalize, first part: RpcContext::remove_server_dealer.  One entry
\* of _sids goes; the last entry takes its place.
RemoveOne(seq, x) ==
  LET i == SelectInSeq(seq, LAMBDA y : y = x)
  IN  SubSeq([seq EXCEPT ![i] = seq[Len(seq)]], 1, Len(seq) - 1)

DealersWithout(d) ==
  LET left == RemoveOne(dealers[sidOf[d]], d)
  IN  IF left = <<>> THEN Without(dealers, sidOf[d]) ELSE Put(dealers, sidOf[d], left)

remove_server_dealer(d) ==
  /\ dpc[d] = "live"
  /\ dealers' = DealersWithout(d) /\ sids' = RemoveOne(sids, sidOf[d])
  /\ dpc' = [dpc EXCEPT ![d] = IF sidOf[d] = AnySid THEN "left" ELSE "removed"]
  /\ UNCHANGED <<reqVars, cache, unlinked, box, sidOf, members, stopped, told, lost>>

RemoveDealer(d) == WriteLock /\ remove_server_dealer(d)

\* release_dealer, second part, under _lk
Leave(d) ==
  /\ dpc[d] = "removed"
  /\ members' = [members EXCEPT ![sidOf[d]] = @ \ {d}]
  /\ dpc' = [dpc EXCEPT ![d] = "left"]
  /\ UNCHANGED <<reqVars, queueVars, sidOf, stopped, told, lost>>

\* _server_req_ch.reset(): what nobody received goes with the channel
Reset(d) ==
  /\ dpc[d] = "left"
  /\ dpc' = [dpc EXCEPT ![d] = "dead"]
  /\ box' = [box EXCEPT ![d] = <<>>] /\ lost' = lost \cup ToSet(box[d])
  /\ UNCHANGED <<reqVars, dealers, sids, cache, unlinked, sidOf, members, stopped, told>>

\* RpcServer::terminate and restart, under _lk
Terminate(s) ==
  /\ s \in DOMAIN cache /\ s \notin stopped
  /\ stopped' = stopped \cup {s} /\ told' = told \cup members[s]
  /\ UNCHANGED <<reqVars, queueVars, dpc, sidOf, members, lost>>

Restart(s) ==
  /\ s \in stopped /\ members[s] = {}
  /\ stopped' = stopped \ {s}
  /\ UNCHANGED <<reqVars, queueVars, dpc, sidOf, members, told, lost>>

\* As FairQueue::remove_server would be if it kept the cache.
RemoveServerKeepCache(s) ==
  /\ WriteLock /\ s \in DOMAIN cache
  /\ {d \in Dealer : sidOf[d] = s /\ dpc[d] \notin {"left", "dead"}} = {}
  /\ cache' = Without(cache, s)
  /\ UNCHANGED <<reqVars, dealers, sids, unlinked, box, lifeVars, lost>>

\* ~RpcServer: no dealer may be left; the cached requests are dropped
RemoveServer(s) ==
  /\ WriteLock /\ s \in DOMAIN cache
  /\ {d \in Dealer : sidOf[d] = s /\ dpc[d] \notin {"left", "dead"}} = {}
  /\ cache' = Without(cache, s) /\ lost' = lost \cup ToSet(cache[s])
  /\ UNCHANGED <<reqVars, dealers, sids, unlinked, box, lifeVars>>

Next ==
  \/ \E q \in Req : Route(q) \/ Deal(q) \/ CachePush(q) \/ CacheLink(q) \/ Unlock(q)
  \/ \E s \in Sid : AddServer(s) \/ Terminate(s) \/ Restart(s) \/ RemoveServer(s)
  \/ \E d \in Dealer : \/ \E s \in Sid \cup {AnySid} : AddDealer(d, s)
                       \/ Join(d) \/ Receive(d) \/ RemoveDealer(d) \/ Leave(d) \/ Reset(d)

Spec == Init /\ [][Next]_vars

-----------------------------------------------------------------------------
\* "add server dealer之前会加写锁，所以应该不会少pop" (RpcContext.cpp:48): no request
\* waits in the cache of a server that has a dealer; none is overlooked when
\* the first dealer comes while requests are being cached.
NoneOverlooked ==
  \A s \in DOMAIN dealers \cap DOMAIN cache : cache[s] = <<>>

\* An IO thread never pushes to a dealer that finalize has taken out, although
\* it keeps a plain pointer from the lookup to the send, and the plain pointers
\* that terminate walks over are of dealers whose channel is still there.
NoDeadDealer ==
  /\ \A q \in Req : rpc[q] = "deal" => dpc[dest[q]] \in {"added", "live"}
  /\ \A s \in Sid : \A d \in members[s] : dpc[d] \in {"live", "removed"}

\* Every dealer of a terminated server was terminated, also one that
\* create_dealer was just making: no receiver sleeps through terminate.
AllTold ==
  \A d \in Dealer : dpc[d] = "live" /\ sidOf[d] \in stopped => d \in told

Place == 1..(Cardinality(Req) + 1)
Waiting(q) ==
  Cardinality({p \in Dealer \X Place : p[2] \in DOMAIN box[p[1]] /\ box[p[1]][p[2]] = q})
  + Cardinality({p \in Sid \X Place : p[1] \in DOMAIN cache /\ p[2] \in DOMAIN cache[p[1]]
                                      /\ cache[p[1]][p[2]] = q})

\* A request that was pushed and neither received nor dropped is in one place,
\* once, where a dealer can still get it.
AtMostOnePlace ==
  \A q \in Req : /\ Waiting(q) <= 1
                 /\ rpc[q] \in {"idle", "deal", "cache"} \/ q \in lost => Waiting(q) = 0

\* Nothing vanishes: a request leaves the caches only into a dealer's channel
\* or into the drop that the code logs.
NothingVanishes ==
  [][\A s \in Sid, q \in Req :
       /\ s \in DOMAIN cache /\ q \in ToSet(cache[s])
       /\ s \in DOMAIN cache' => q \notin ToSet(cache'[s])
       => q \in lost' \/ \E d \in Dealer : q \in ToSet(box'[d])]_vars

\* The table of a service forgets no waiting request, names no dealer that is
\* gone, tells every dealer what it may serve, keeps a request in one place and
\* loses none, whatever joins and leaves.
BackendSound ==
  /\ [](NoneOverlooked /\ NoDeadDealer /\ AllTold /\ AtMostOnePlace)
  /\ NothingVanishes

\* For TLC: requests, servers and dealers are interchangeable.
Symmetry == Permutations(Req) \cup Permutations(Sid) \cup Permutations(Dealer)
=============================================================================
