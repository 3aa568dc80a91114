--------------------------- MODULE BackendProofs ---------------------------
(***************************************************************************)
(* Proofs about the serving side for any number of requests, servers and   *)
(* dealers: a request that waits is in one place where a dealer gets it,   *)
(* none leaves a cache but to a dealer or a drop, and no pointer that is   *)
(* kept across a lock release is of a dealer that is gone.                 *)
(*                                                                         *)
(* The argument is what the read lock of _spin_lock protects.  An IO       *)
(* thread holds it from its look at the tables to the end of its push, so  *)
(* what it has found stays true, and whoever changes the tables finds all  *)
(* pushes linked.  The tables themselves are exact: _sid2dealers has every *)
(* dealer that was added and not removed, once, under its server.          *)
(***************************************************************************)
EXTENDS Backend, SequenceTheorems, FiniteSetTheorems, NaturalsInduction, WellFoundedInduction,
        TLAPS

Service == Sid \cup {AnySid}

TypeOK ==
  /\ readers \in SUBSET Req /\ to \in [Req -> Service]
  /\ rpc \in [Req -> {"idle", "deal", "cache", "link", "unlock", "done"}]
  /\ dest \in [Req -> Dealer \cup Sid \cup {None}]
  /\ DOMAIN dealers \subseteq Service /\ dealers \in [DOMAIN dealers -> Seq(Dealer)]
  /\ DOMAIN cache \subseteq Sid /\ cache \in [DOMAIN cache -> Seq(Req)]
  /\ unlinked \in SUBSET Req /\ box \in [Dealer -> Seq(Req)]
  /\ dpc \in [Dealer -> {"new", "added", "live", "removed", "left", "dead"}]
  /\ sidOf \in [Dealer -> Service \cup {None}]
  /\ members \in [Sid -> SUBSET Dealer]
  /\ stopped \in SUBSET Sid /\ told \in SUBSET Dealer /\ lost \in SUBSET Req

\* What an IO thread found under the read lock holds until it has unlocked.
Reading ==
  /\ \A q \in Req : q \in readers <=> rpc[q] \in {"deal", "cache", "link", "unlock"}
  /\ \A q \in Req : q \in unlinked <=> rpc[q] = "link"
  /\ \A q \in Req : rpc[q] = "deal" => dest[q] \in Dealer /\ dpc[dest[q]] \in {"added", "live"}
  /\ \A q \in Req : rpc[q] = "cache" => dest[q] \in DOMAIN cache \ DOMAIN dealers

\* _sid2dealers has the dealers between add_server_dealer and
\* remove_server_dealer, each once.
Tables ==
  /\ \A s \in DOMAIN dealers : \A i \in DOMAIN dealers[s] :
       sidOf[dealers[s][i]] = s /\ dpc[dealers[s][i]] \in {"added", "live"}
  /\ \A s \in DOMAIN dealers : \A i, j \in DOMAIN dealers[s] :
       dealers[s][i] = dealers[s][j] => i = j
  /\ \A d \in Dealer : dpc[d] \in {"added", "live"} =>
       sidOf[d] \in DOMAIN dealers /\ \E i \in DOMAIN dealers[sidOf[d]] : dealers[sidOf[d]][i] = d

\* RpcServer::_dealers has the dealers between the two parts of create_dealer
\* and those of release_dealer.
Lives ==
  /\ \A d \in Dealer : dpc[d] \in {"added", "removed"} => sidOf[d] \in Sid
  /\ \A s \in Sid, d \in Dealer :
       d \in members[s] <=> sidOf[d] = s /\ dpc[d] \in {"live", "removed"}
  /\ AllTold

\* Where requests wait.
Boxed ==
  /\ \A d, e \in Dealer : \A i \in DOMAIN box[d], j \in DOMAIN box[e] :
       box[d][i] = box[e][j] => d = e /\ i = j
  /\ \A d \in Dealer : \A i \in DOMAIN box[d] :
       rpc[box[d][i]] \in {"unlock", "done"} /\ box[d][i] \notin lost
Cached ==
  /\ \A s, r \in DOMAIN cache : \A i \in DOMAIN cache[s], j \in DOMAIN cache[r] :
       cache[s][i] = cache[r][j] => s = r /\ i = j
  /\ \A s \in DOMAIN cache : \A i \in DOMAIN cache[s] :
       rpc[cache[s][i]] \in {"link", "unlock", "done"} /\ cache[s][i] \notin lost
Places ==
  /\ Boxed /\ Cached /\ NoneOverlooked
  /\ \A d \in Dealer, s \in DOMAIN cache : \A i \in DOMAIN box[d], j \in DOMAIN cache[s] :
       box[d][i] # cache[s][j]
  /\ \A q \in lost : rpc[q] \in {"unlock", "done"}

IInv == TypeOK /\ Reading /\ Tables /\ Lives /\ Places

-----------------------------------------------------------------------------
USE DEF Service

\* A nonempty set of numbers has a least one, the one that Min gives.
LEMMA MinIn ==
  ASSUME NEW S \in SUBSET Nat, S # {}
  PROVE  Min(S) \in S
<1> DEFINE R == {ss \in Nat \X Nat : ss[1] < ss[2]}
<1>1. IsWellFoundedOn(R, Nat)
  BY NatLessThanWellFounded DEF OpToRel
<1> HIDE DEF R
<1>2. PICK m \in S : \A y \in S : ~(<<y, m>> \in R)
  BY <1>1, WFMin, Zenon
<1>3. ASSUME NEW y \in S PROVE m <= y
  <2>1. <<y, m>> \in Nat \X Nat /\ <<y, m>>[1] = y /\ <<y, m>>[2] = m
    OBVIOUS
  <2>2. ~(y < m)
    BY <1>2, <2>1 DEF R
  <2> QED BY <2>2
<1> QED BY <1>3, Zenon DEF Min

\* Looking for a value that is there finds a place of it.
IndexOf(seq, x) == SelectInSeq(seq, LAMBDA y : y = x)
LEMMA Finds ==
  ASSUME NEW S, NEW seq \in Seq(S), NEW x, NEW k \in DOMAIN seq, seq[k] = x
  PROVE  IndexOf(seq, x) \in DOMAIN seq /\ seq[IndexOf(seq, x)] = x
<1> DEFINE I == {i \in 1..Len(seq) : seq[i] = x}
<1>1. I \in SUBSET Nat /\ I # {}
  OBVIOUS
<1>2. Min(I) \in I
  BY <1>1, MinIn, Zenon
<1>3. IndexOf(seq, x) = Min(I)
  BY <1>1 DEF IndexOf, SelectInSeq
<1> QED BY <1>2, <1>3

\* RemoveOne takes one value out of a sequence without repetitions and moves
\* the last one into its place.
LEMMA Removes ==
  ASSUME NEW S, NEW seq \in Seq(S), NEW x, NEW k \in DOMAIN seq, seq[k] = x,
         \A i, j \in DOMAIN seq : seq[i] = seq[j] => i = j
  PROVE  LET r == RemoveOne(seq, x) IN
         /\ r \in Seq(S)
         /\ \A i, j \in DOMAIN r : r[i] = r[j] => i = j
         /\ \A i \in DOMAIN r : r[i] # x /\ \E j \in DOMAIN seq : seq[j] = r[i]
         /\ \A j \in DOMAIN seq : seq[j] # x => \E i \in DOMAIN r : r[i] = seq[j]
<1> DEFINE p == IndexOf(seq, x)
           r == RemoveOne(seq, x)
<1>1. p \in DOMAIN seq /\ seq[p] = x
  BY Finds
<1> HIDE DEF p
<1>2. DOMAIN seq = 1..Len(seq) /\ Len(seq) \in Nat /\ Len(seq) > 0
  BY LenProperties
<1>3. DEFINE e == [seq EXCEPT ![p] = seq[Len(seq)]]
<1>4. e \in Seq(S) /\ Len(e) = Len(seq)
  BY <1>1, <1>2, ExceptSeq
<1>5. /\ r \in Seq(S) /\ Len(r) = Len(seq) - 1 /\ DOMAIN r = 1..(Len(seq) - 1)
      /\ \A i \in 1..(Len(seq) - 1) : r[i] = e[i]
  <2>1. r = SubSeq(e, 1, Len(seq) - 1)
    BY DEF RemoveOne, IndexOf, p
  <2> HIDE DEF e, r
  <2> QED BY <1>2, <1>4, <2>1, SubSeqProperties
<1>6. \A i \in 1..(Len(seq) - 1) : r[i] = IF i = p THEN seq[Len(seq)] ELSE seq[i]
  BY <1>1, <1>2, <1>5
<1> HIDE DEF e, r
<1>7. \A i, j \in DOMAIN r : r[i] = r[j] => i = j
  BY <1>1, <1>2, <1>5, <1>6
<1>8. \A i \in DOMAIN r : r[i] # x /\ \E j \in DOMAIN seq : seq[j] = r[i]
  BY <1>1, <1>2, <1>5, <1>6
<1>9. ASSUME NEW j \in DOMAIN seq, seq[j] # x PROVE \E i \in DOMAIN r : r[i] = seq[j]
  <2>1. CASE j = Len(seq)
    BY <1>1, <1>2, <1>5, <1>6, <1>9, <2>1
  <2>2. CASE j # Len(seq)
    BY <1>1, <1>2, <1>5, <1>6, <1>9, <2>2
  <2> QED BY <2>1, <2>2
<1> QED BY <1>5, <1>7, <1>8, <1>9 DEF r

\* While nobody reads, all requests in a cache are linked and can be popped.
LEMMA PopsAll ==
  ASSUME IInv, WriteLock, NEW s
  PROVE  /\ unlinked = {}
         /\ Popped(s) = IF s \in DOMAIN cache THEN cache[s] ELSE <<>>
<1>1. unlinked = {}
  BY DEF IInv, TypeOK, Reading, WriteLock
<1>2. ASSUME s \in DOMAIN cache
      PROVE  SelectInSeq(cache[s], LAMBDA q : q \in unlinked) = 0
  BY <1>1 DEF SelectInSeq
<1> QED BY <1>1, <1>2 DEF Popped

-----------------------------------------------------------------------------
USE DEF reqVars, queueVars, lifeVars

\* Who neither changes the tables nor the life of a dealer keeps both exact.
LEMMA TablesStay ==
  ASSUME IInv, UNCHANGED <<dealers, lifeVars>>
  PROVE  Tables' /\ Lives'
BY DEF IInv, Tables, Lives, AllTold

\* Push and drop one step of a request that is in no box and in no cache.
LEMMA RouteStep ==
  ASSUME IInv, NEW q \in Req, Route(q)
  PROVE  IInv'
<1>1. /\ rpc[q] = "idle" /\ readers' = readers \cup {q}
      /\ UNCHANGED <<to, queueVars, lifeVars>>
  BY DEF Route
<1>2. Tables' /\ Lives'
  BY <1>1, TablesStay
<1>3. CASE \E s \in Candidates(to[q]) \cap DOMAIN dealers, i \in 1..Cardinality(Dealer) :
             i \in DOMAIN dealers[s] /\ dest' = [dest EXCEPT ![q] = dealers[s][i]]
             /\ rpc' = [rpc EXCEPT ![q] = "deal"] /\ UNCHANGED lost
  <2>0. PICK s \in DOMAIN dealers : \E i \in DOMAIN dealers[s] :
               dest' = [dest EXCEPT ![q] = dealers[s][i]]
    BY <1>3, Zenon
  <2>1. PICK i \in DOMAIN dealers[s] : dest' = [dest EXCEPT ![q] = dealers[s][i]]
    BY <2>0, Zenon
  <2>2. rpc' = [rpc EXCEPT ![q] = "deal"] /\ lost' = lost
    BY <1>3
  <2>3. dealers[s][i] \in Dealer /\ dpc[dealers[s][i]] \in {"added", "live"}
    BY DEF IInv, TypeOK, Tables
  <2>4. TypeOK' /\ Reading'
    BY <1>1, <2>1, <2>2, <2>3 DEF IInv, TypeOK, Reading
  <2>5. Places'
    BY <1>1, <2>2 DEF IInv, TypeOK, Places, Boxed, Cached, NoneOverlooked
  <2> QED BY <1>2, <2>4, <2>5 DEF IInv
<1>4. CASE \E s \in Candidates(to[q]) \cap (DOMAIN cache \ DOMAIN dealers) :
             dest' = [dest EXCEPT ![q] = s]
             /\ rpc' = [rpc EXCEPT ![q] = "cache"] /\ UNCHANGED lost
  <2>1. PICK s \in DOMAIN cache \ DOMAIN dealers : dest' = [dest EXCEPT ![q] = s]
    BY <1>4, Zenon
  <2>2. rpc' = [rpc EXCEPT ![q] = "cache"] /\ lost' = lost
    BY <1>4
  <2>3. TypeOK' /\ Reading'
    BY <1>1, <2>1, <2>2 DEF IInv, TypeOK, Reading
  <2>4. Places'
    BY <1>1, <2>2 DEF IInv, TypeOK, Places, Boxed, Cached, NoneOverlooked
  <2> QED BY <1>2, <2>3, <2>4 DEF IInv
<1>5. CASE rpc' = [rpc EXCEPT ![q] = "unlock"] /\ lost' = lost \cup {q} /\ UNCHANGED dest
  <2>1. TypeOK' /\ Reading'
    BY <1>1, <1>5 DEF IInv, TypeOK, Reading
  <2>2. Places'
    BY <1>1, <1>5 DEF IInv, TypeOK, Places, Boxed, Cached, NoneOverlooked
  <2> QED BY <1>2, <2>1, <2>2 DEF IInv
<1> QED BY <1>3, <1>4, <1>5 DEF Route

\* What Append does to the places of a sequence.
LEMMA AppendPlaces ==
  ASSUME NEW S, NEW seq \in Seq(S), NEW x \in S
  PROVE  /\ Append(seq, x) \in Seq(S)
         /\ DOMAIN Append(seq, x) = DOMAIN seq \cup {Len(seq) + 1}
         /\ Len(seq) + 1 \notin DOMAIN seq
         /\ \A i \in DOMAIN seq : Append(seq, x)[i] = seq[i]
         /\ Append(seq, x)[Len(seq) + 1] = x
BY AppendProperties, LenProperties

LEMMA DealStep ==
  ASSUME IInv, NEW q \in Req, Deal(q)
  PROVE  IInv'
<1> DEFINE d == dest[q]
<1>1. /\ rpc[q] = "deal" /\ rpc' = [rpc EXCEPT ![q] = "unlock"]
      /\ box' = [box EXCEPT ![d] = Append(@, q)]
      /\ UNCHANGED <<readers, to, dest, dealers, sids, cache, unlinked, lifeVars, lost>>
  BY DEF Deal
<1>2. d \in Dealer /\ box \in [Dealer -> Seq(Req)]
  BY <1>1 DEF IInv, Reading, TypeOK
<1> HIDE DEF d
<1>3. Tables' /\ Lives'
  BY <1>1, TablesStay
<1>4. box'[d] = Append(box[d], q) /\ \A e \in Dealer : e # d => box'[e] = box[e]
  BY <1>1, <1>2
<1>5. /\ box'[d] \in Seq(Req) /\ DOMAIN box'[d] = DOMAIN box[d] \cup {Len(box[d]) + 1}
      /\ \A i \in DOMAIN box[d] : box'[d][i] = box[d][i]
      /\ box'[d][Len(box[d]) + 1] = q
  BY <1>2, <1>4, AppendPlaces
<1>6. /\ \A e \in Dealer : \A i \in DOMAIN box[e] : box[e][i] # q
      /\ \A s \in DOMAIN cache : \A i \in DOMAIN cache[s] : cache[s][i] # q
      /\ q \notin lost
  BY <1>1 DEF IInv, Places, Boxed, Cached
<1>7. ASSUME NEW e \in Dealer, NEW i \in DOMAIN box'[e]
      PROVE  \/ e = d /\ i = Len(box[d]) + 1 /\ box'[e][i] = q
             \/ i \in DOMAIN box[e] /\ box'[e][i] = box[e][i]
  BY <1>4, <1>5
<1>8. TypeOK' /\ Reading'
  <2>1. box' \in [Dealer -> Seq(Req)]
    BY <1>1, <1>2, <1>5
  <2> QED BY <1>1, <2>1 DEF IInv, TypeOK, Reading
<1>9. Boxed'
  <2>1. ASSUME NEW e \in Dealer, NEW f \in Dealer, NEW i \in DOMAIN box'[e], NEW j \in DOMAIN box'[f],
               box'[e][i] = box'[f][j]
        PROVE  e = f /\ i = j
    BY <1>6, <1>7, <2>1 DEF IInv, Places, Boxed
  <2>2. ASSUME NEW e \in Dealer, NEW i \in DOMAIN box'[e]
        PROVE  rpc'[box'[e][i]] \in {"unlock", "done"} /\ box'[e][i] \notin lost'
    BY <1>1, <1>6, <1>7 DEF IInv, TypeOK, Places, Boxed
  <2> QED BY <2>1, <2>2 DEF Boxed
<1>10. Cached' /\ NoneOverlooked'
  BY <1>1, <1>6 DEF IInv, TypeOK, Places, Cached, NoneOverlooked
<1>11. Places'
  <2>1. ASSUME NEW e \in Dealer, NEW s \in DOMAIN cache', NEW i \in DOMAIN box'[e],
               NEW j \in DOMAIN cache'[s]
        PROVE  box'[e][i] # cache'[s][j]
    BY <1>1, <1>6, <1>7 DEF IInv, Places
  <2>2. \A p \in lost' : rpc'[p] \in {"unlock", "done"}
    BY <1>1 DEF IInv, TypeOK, Places
  <2> QED BY <1>9, <1>10, <2>1, <2>2 DEF Places
<1> QED BY <1>3, <1>8, <1>11 DEF IInv

LEMMA CachePushStep ==
  ASSUME IInv, NEW q \in Req, CachePush(q)
  PROVE  IInv'
<1> DEFINE r == dest[q]
<1>1. /\ rpc[q] = "cache" /\ rpc' = [rpc EXCEPT ![q] = "link"]
      /\ cache' = [cache EXCEPT ![r] = Append(@, q)] /\ unlinked' = unlinked \cup {q}
      /\ UNCHANGED <<readers, to, dest, dealers, sids, box, lifeVars, lost>>
  BY DEF CachePush
<1>2. r \in DOMAIN cache \ DOMAIN dealers /\ cache \in [DOMAIN cache -> Seq(Req)]
  BY <1>1 DEF IInv, Reading, TypeOK
<1> HIDE DEF r
<1>3. Tables' /\ Lives'
  BY <1>1, TablesStay
<1>4. /\ DOMAIN cache' = DOMAIN cache
      /\ cache'[r] = Append(cache[r], q) /\ \A s \in DOMAIN cache : s # r => cache'[s] = cache[s]
  BY <1>1, <1>2
<1>5. /\ cache'[r] \in Seq(Req) /\ DOMAIN cache'[r] = DOMAIN cache[r] \cup {Len(cache[r]) + 1}
      /\ \A i \in DOMAIN cache[r] : cache'[r][i] = cache[r][i]
      /\ cache'[r][Len(cache[r]) + 1] = q
  BY <1>2, <1>4, AppendPlaces
<1>6. /\ \A e \in Dealer : \A i \in DOMAIN box[e] : box[e][i] # q
      /\ \A s \in DOMAIN cache : \A i \in DOMAIN cache[s] : cache[s][i] # q
      /\ q \notin lost
  BY <1>1 DEF IInv, Places, Boxed, Cached
<1>7. ASSUME NEW s \in DOMAIN cache, NEW i \in DOMAIN cache'[s]
      PROVE  \/ s = r /\ i = Len(cache[r]) + 1 /\ cache'[s][i] = q
             \/ i \in DOMAIN cache[s] /\ cache'[s][i] = cache[s][i]
  BY <1>4, <1>5
<1>8. TypeOK' /\ Reading'
  <2>1. cache' \in [DOMAIN cache -> Seq(Req)]
    BY <1>1, <1>2, <1>5
  <2> QED BY <1>1, <1>4, <2>1 DEF IInv, TypeOK, Reading
<1>9. Cached'
  <2>1. ASSUME NEW s \in DOMAIN cache, NEW t \in DOMAIN cache, NEW i \in DOMAIN cache'[s],
               NEW j \in DOMAIN cache'[t], cache'[s][i] = cache'[t][j]
        PROVE  s = t /\ i = j
    BY <1>6, <1>7, <2>1 DEF IInv, Places, Cached
  <2>2. ASSUME NEW s \in DOMAIN cache, NEW i \in DOMAIN cache'[s]
        PROVE  rpc'[cache'[s][i]] \in {"link", "unlock", "done"} /\ cache'[s][i] \notin lost'
    BY <1>1, <1>6, <1>7 DEF IInv, TypeOK, Places, Cached
  <2> QED BY <1>4, <2>1, <2>2 DEF Cached
<1>10. Boxed' /\ NoneOverlooked'
  BY <1>1, <1>2, <1>4, <1>6 DEF IInv, TypeOK, Places, Boxed, NoneOverlooked
<1>11. Places'
  <2>1. ASSUME NEW e \in Dealer, NEW s \in DOMAIN cache, NEW i \in DOMAIN box'[e],
               NEW j \in DOMAIN cache'[s]
        PROVE  box'[e][i] # cache'[s][j]
    BY <1>1, <1>6, <1>7 DEF IInv, Places
  <2>2. \A p \in lost' : rpc'[p] \in {"unlock", "done"}
    BY <1>1 DEF IInv, TypeOK, Places
  <2> QED BY <1>4, <1>9, <1>10, <2>1, <2>2 DEF Places
<1> QED BY <1>3, <1>8, <1>11 DEF IInv

LEMMA UnlockStep ==
  ASSUME IInv, NEW q \in Req, CacheLink(q) \/ Unlock(q)
  PROVE  IInv'
<1>1. Tables' /\ Lives'
  BY TablesStay DEF CacheLink, Unlock
<1>2. TypeOK' /\ Reading'
  BY DEF IInv, TypeOK, Reading, CacheLink, Unlock
<1>3. /\ rpc[q] \in {"link", "unlock"} /\ rpc' = [rpc EXCEPT ![q] = rpc'[q]]
      /\ rpc'[q] \in {"unlock", "done"} /\ UNCHANGED <<dealers, cache, box, lost>>
  BY DEF IInv, TypeOK, CacheLink, Unlock
<1>4. \A p \in Req : /\ rpc[p] \in {"unlock", "done"} => rpc'[p] \in {"unlock", "done"}
                     /\ rpc[p] \in {"link", "unlock", "done"} =>
                          rpc'[p] \in {"link", "unlock", "done"}
  BY <1>3 DEF IInv, TypeOK
<1>5. /\ \A d \in Dealer : \A i \in DOMAIN box[d] : box[d][i] \in Req
      /\ \A s \in DOMAIN cache : \A i \in DOMAIN cache[s] : cache[s][i] \in Req
  BY DEF IInv, TypeOK
<1>6. Boxed'
  BY <1>3, <1>4, <1>5 DEF IInv, Places, Boxed
<1>7. Cached' /\ NoneOverlooked'
  BY <1>3, <1>4, <1>5 DEF IInv, Places, Cached, NoneOverlooked
<1>8. Places'
  BY <1>3, <1>4, <1>6, <1>7 DEF IInv, TypeOK, Places
<1> QED BY <1>1, <1>2, <1>8 DEF IInv

-----------------------------------------------------------------------------
LEMMA AddServerStep ==
  ASSUME IInv, NEW s \in Sid, AddServer(s)
  PROVE  IInv'
<1>1. /\ DOMAIN cache' = DOMAIN cache \cup {s} /\ s \notin DOMAIN cache /\ cache'[s] = <<>>
      /\ \A r \in DOMAIN cache : cache'[r] = cache[r]
      /\ cache' = [r \in DOMAIN cache' |-> cache'[r]]
  BY DEF AddServer, Put
<1>2. TypeOK'
  <2>1. <<>> \in Seq(Req)
    OBVIOUS
  <2>2. \A r \in DOMAIN cache' : cache'[r] \in Seq(Req)
    BY <1>1, <2>1, Zenon DEF IInv, TypeOK
  <2>3. cache' \in [DOMAIN cache' -> Seq(Req)] /\ DOMAIN cache' \subseteq Sid
    BY <1>1, <2>2 DEF IInv, TypeOK
  <2> QED BY <2>3 DEF IInv, TypeOK, AddServer
<1>3. Reading' /\ Tables'
  BY <1>1 DEF IInv, Reading, Tables, AddServer, WriteLock
<1>4. Lives'
  BY DEF IInv, Lives, AllTold, AddServer
<1>5. \A r \in DOMAIN cache' : \A i \in DOMAIN cache'[r] :
        r \in DOMAIN cache /\ i \in DOMAIN cache[r] /\ cache'[r][i] = cache[r][i]
  BY <1>1
<1>6. Boxed' /\ NoneOverlooked'
  BY <1>1 DEF IInv, Places, Boxed, NoneOverlooked, AddServer
<1>7. Cached'
  BY <1>5 DEF IInv, Places, Cached, AddServer
<1>8. Places'
  BY <1>5, <1>6, <1>7 DEF IInv, Places, AddServer
<1> QED BY <1>2, <1>3, <1>4, <1>8 DEF IInv

\* Nobody reads, so no request is on its way into the cache that goes.
LEMMA RemoveServerStep ==
  ASSUME IInv, NEW s \in Sid, RemoveServer(s)
  PROVE  IInv'
<1>1. /\ DOMAIN cache' = DOMAIN cache \ {s} /\ \A r \in DOMAIN cache' : cache'[r] = cache[r]
      /\ cache' = [r \in DOMAIN cache' |-> cache'[r]]
  BY DEF RemoveServer, Without
<1>2. lost' = lost \cup {cache[s][i] : i \in DOMAIN cache[s]} /\ s \in DOMAIN cache
  BY DEF RemoveServer, ToSet
<1>3. cache[s] \in Seq(Req)
  BY <1>2 DEF IInv, TypeOK
<1>4. {cache[s][i] : i \in DOMAIN cache[s]} \subseteq Req
  BY <1>3, ElementOfSeq, LenProperties
<1>5. TypeOK'
  BY <1>1, <1>2, <1>4 DEF IInv, TypeOK, RemoveServer
<1>6. Reading' /\ Tables' /\ Lives'
  BY <1>1, TablesStay DEF IInv, Reading, RemoveServer, WriteLock
<1>7. readers = {}
  BY DEF RemoveServer, WriteLock
<1>8. \A i \in DOMAIN cache[s] : rpc[cache[s][i]] \in {"unlock", "done"}
  BY <1>2, <1>4, <1>7 DEF IInv, TypeOK, Reading, Places, Cached
<1>9. Boxed'
  BY <1>2 DEF IInv, Places, Boxed, RemoveServer
<1>10. Cached' /\ NoneOverlooked'
  BY <1>1, <1>2 DEF IInv, Places, Cached, NoneOverlooked, RemoveServer
<1>11. Places'
  BY <1>1, <1>2, <1>8, <1>9, <1>10 DEF IInv, Places, RemoveServer
<1> QED BY <1>5, <1>6, <1>11 DEF IInv

LEMMA StopStep ==
  ASSUME IInv, NEW s \in Sid, Terminate(s) \/ Restart(s)
  PROVE  IInv'
<1>1. TypeOK'
  BY DEF IInv, TypeOK, Terminate, Restart
<1>2. Reading' /\ Tables' /\ Places'
  BY DEF IInv, Reading, Tables, Places, Boxed, Cached, NoneOverlooked, Terminate, Restart
<1>3. Lives'
  BY DEF IInv, Lives, TypeOK, AllTold, Terminate, Restart
<1> QED BY <1>1, <1>2, <1>3 DEF IInv

-----------------------------------------------------------------------------
\* The first dealer of a server takes all that waits in its cache.
LEMMA AddDealerStep ==
  ASSUME IInv, NEW d \in Dealer, NEW s \in Service, AddDealer(d, s)
  PROVE  IInv'
<1> DEFINE taken == IF s \in DOMAIN cache THEN cache[s] ELSE <<>>
<1>1. /\ readers = {} /\ unlinked = {} /\ dpc[d] = "new" /\ s \in DOMAIN cache \cup {AnySid}
      /\ UNCHANGED <<reqVars, unlinked, members, stopped, told, lost>>
  BY PopsAll DEF AddDealer, add_server_dealer, WriteLock
<1>2. /\ Popped(s) = taken
      /\ dpc' = [dpc EXCEPT ![d] = IF s = AnySid THEN "live" ELSE "added"]
      /\ sidOf' = [sidOf EXCEPT ![d] = s]
  BY PopsAll DEF AddDealer, add_server_dealer
<1>3. taken \in Seq(Req) /\ box' = [box EXCEPT ![d] = taken]
  BY <1>2 DEF IInv, TypeOK, AddDealer, add_server_dealer
<1>4. /\ DOMAIN cache' = DOMAIN cache /\ cache' = [r \in DOMAIN cache |-> cache'[r]]
      /\ \A r \in DOMAIN cache : cache'[r] = IF r = s THEN <<>> ELSE cache[r]
  <2>1. cache' = [x \in DOMAIN cache |->
                   IF x = s THEN SubSeq(cache[s], Len(Popped(s)) + 1, Len(cache[s])) ELSE cache[x]]
    BY DEF AddDealer, add_server_dealer
  <2>2. ASSUME s \in DOMAIN cache
        PROVE  SubSeq(cache[s], Len(Popped(s)) + 1, Len(cache[s])) = <<>>
    <3>1. Popped(s) = cache[s] /\ cache[s] \in Seq(Req) /\ Len(cache[s]) \in Nat
      BY <1>2, <2>2, LenProperties DEF IInv, TypeOK
    <3> QED BY <3>1, SubSeqEmpty
  <2> QED BY <2>1, <2>2, Zenon
<1> DEFINE old == IF s \in DOMAIN dealers THEN dealers[s] ELSE <<>>
<1>5. /\ old \in Seq(Dealer)
      /\ \A i \in DOMAIN old : s \in DOMAIN dealers /\ i \in DOMAIN dealers[s] /\ old[i] = dealers[s][i]
  BY DEF IInv, TypeOK
<1>6. /\ DOMAIN dealers' = DOMAIN dealers \cup {s}
      /\ dealers' = [r \in DOMAIN dealers' |-> dealers'[r]]
      /\ dealers'[s] = Append(old, d)
      /\ \A r \in DOMAIN dealers : r # s => dealers'[r] = dealers[r]
  <2>1. Append(<<>>, d) = <<d>>
    OBVIOUS
  <2> QED BY <2>1, Zenon DEF AddDealer, add_server_dealer, Put
<1> HIDE DEF taken, old
<1>7. TypeOK'
  <2>1. <<>> \in Seq(Req) /\ Append(old, d) \in Seq(Dealer)
    BY <1>5
  <2>2. \A r \in DOMAIN cache' : cache'[r] \in Seq(Req)
    BY <1>4, <2>1, Zenon DEF IInv, TypeOK
  <2>3. \A r \in DOMAIN dealers' : dealers'[r] \in Seq(Dealer)
    BY <1>6, <2>1, Zenon DEF IInv, TypeOK
  <2>4. /\ cache' \in [DOMAIN cache' -> Seq(Req)] /\ DOMAIN cache' \subseteq Sid
        /\ dealers' \in [DOMAIN dealers' -> Seq(Dealer)] /\ DOMAIN dealers' \subseteq Service
        /\ box' \in [Dealer -> Seq(Req)]
    BY <1>3, <1>4, <1>6, <2>2, <2>3 DEF IInv, TypeOK
  <2>5. /\ dpc' \in [Dealer -> {"new", "added", "live", "removed", "left", "dead"}]
        /\ sidOf' \in [Dealer -> Service \cup {None}]
    BY <1>2 DEF IInv, TypeOK
  <2> QED BY <1>1, <2>4, <2>5 DEF IInv, TypeOK
<1>8. Reading'
  BY <1>1 DEF IInv, Reading
<1>9. Tables'
  <2>1. /\ DOMAIN dealers'[s] = DOMAIN old \cup {Len(old) + 1} /\ Len(old) + 1 \notin DOMAIN old
        /\ \A i \in DOMAIN old : dealers'[s][i] = old[i]
        /\ dealers'[s][Len(old) + 1] = d
    BY <1>5, <1>6, AppendPlaces
  <2>2. dpc'[d] \in {"added", "live"} /\ sidOf'[d] = s
    BY <1>2 DEF IInv, TypeOK
  <2>3. \A e \in Dealer : e # d => dpc'[e] = dpc[e] /\ sidOf'[e] = sidOf[e]
    BY <1>2 DEF IInv, TypeOK
  <2>4. ASSUME NEW r \in DOMAIN dealers', NEW i \in DOMAIN dealers'[r], ~(r = s /\ i = Len(old) + 1)
        PROVE  /\ r \in DOMAIN dealers /\ i \in DOMAIN dealers[r]
               /\ dealers'[r][i] = dealers[r][i] /\ dealers[r][i] # d /\ dealers[r][i] \in Dealer
    <3>1. /\ r \in DOMAIN dealers /\ i \in DOMAIN dealers[r]
          /\ dealers'[r][i] = dealers[r][i]
      BY <1>5, <1>6, <2>1, <2>4
    <3>2. dpc[dealers[r][i]] \in {"added", "live"}
      BY <3>1 DEF IInv, Tables
    <3>3. dealers[r][i] \in Dealer
      BY <3>1 DEF IInv, TypeOK
    <3> QED BY <1>1, <3>1, <3>2, <3>3
  <2>5. ASSUME NEW r \in DOMAIN dealers', NEW i \in DOMAIN dealers'[r]
        PROVE  sidOf'[dealers'[r][i]] = r /\ dpc'[dealers'[r][i]] \in {"added", "live"}
    BY <2>1, <2>2, <2>3, <2>4 DEF IInv, Tables
  <2>6. ASSUME NEW r \in DOMAIN dealers', NEW i \in DOMAIN dealers'[r], NEW j \in DOMAIN dealers'[r],
               dealers'[r][i] = dealers'[r][j]
        PROVE  i = j
    BY <2>1, <2>4, <2>6 DEF IInv, Tables
  <2>7. ASSUME NEW e \in Dealer, dpc'[e] \in {"added", "live"}
        PROVE  /\ sidOf'[e] \in DOMAIN dealers'
               /\ \E i \in DOMAIN dealers'[sidOf'[e]] : dealers'[sidOf'[e]][i] = e
    <3>1. CASE e = d
      BY <1>6, <2>1, <2>2, <3>1
    <3>2. CASE e # d
      <4>1. PICK i \in DOMAIN dealers[sidOf[e]] : dealers[sidOf[e]][i] = e
        BY <2>3, <2>7, <3>2 DEF IInv, Tables
      <4>2. sidOf'[e] = sidOf[e] /\ sidOf[e] \in DOMAIN dealers
        BY <2>3, <2>7, <3>2 DEF IInv, Tables
      <4>3. i \in DOMAIN dealers'[sidOf[e]] /\ dealers'[sidOf[e]][i] = e
        BY <1>6, <2>1, <4>1, <4>2 DEF old
      <4> QED BY <1>6, <4>2, <4>3
    <3> QED BY <3>1, <3>2
  <2> QED BY <2>5, <2>6, <2>7 DEF Tables
<1>10. Lives'
  BY <1>1, <1>2, AnyAssumption DEF IInv, TypeOK, Lives, AllTold
<1>11. /\ box'[d] = taken /\ \A e \in Dealer : e # d => box'[e] = box[e]
       /\ \A i \in DOMAIN taken : s \in DOMAIN cache /\ i \in DOMAIN cache[s] /\ taken[i] = cache[s][i]
  BY <1>3 DEF IInv, TypeOK, taken
<1>12. ASSUME NEW r \in DOMAIN cache', NEW i \in DOMAIN cache'[r]
       PROVE  /\ r # s /\ r \in DOMAIN cache /\ i \in DOMAIN cache[r]
              /\ cache'[r][i] = cache[r][i]
  BY <1>4
<1>13. ASSUME NEW i \in DOMAIN taken
       PROVE  taken[i] \in Req /\ rpc[taken[i]] \in {"unlock", "done"} /\ taken[i] \notin lost
  <2>1. rpc[taken[i]] \in {"link", "unlock", "done"} /\ taken[i] \notin lost
    BY <1>11 DEF IInv, Places, Cached
  <2>2. taken[i] \in Req
    BY <1>3
  <2>3. rpc[taken[i]] # "link"
    BY <1>1, <2>2 DEF IInv, Reading
  <2> QED BY <2>1, <2>2, <2>3
<1>14. Boxed'
  <2>1. ASSUME NEW e \in Dealer, NEW f \in Dealer, NEW i \in DOMAIN box'[e], NEW j \in DOMAIN box'[f],
               box'[e][i] = box'[f][j]
        PROVE  e = f /\ i = j
    <3>1. CASE e = d /\ f = d
      BY <1>11, <2>1, <3>1 DEF IInv, Places, Cached
    <3>2. CASE e # d /\ f # d
      BY <1>11, <2>1, <3>2 DEF IInv, Places, Boxed
    <3>3. CASE e = d /\ f # d
      BY <1>11, <2>1, <3>3 DEF IInv, Places
    <3>4. CASE e # d /\ f = d
      BY <1>11, <2>1, <3>4 DEF IInv, Places
    <3> QED BY <3>1, <3>2, <3>3, <3>4
  <2>2. ASSUME NEW e \in Dealer, NEW i \in DOMAIN box'[e]
        PROVE  rpc'[box'[e][i]] \in {"unlock", "done"} /\ box'[e][i] \notin lost'
    BY <1>1, <1>11, <1>13 DEF IInv, Places, Boxed
  <2> QED BY <2>1, <2>2 DEF Boxed
<1>15. Cached'
  BY <1>1, <1>12 DEF IInv, Places, Cached
<1>16. NoneOverlooked'
  BY <1>4, <1>6 DEF IInv, Places, NoneOverlooked
<1>17. Places'
  <2>1. ASSUME NEW e \in Dealer, NEW r \in DOMAIN cache', NEW i \in DOMAIN box'[e],
               NEW j \in DOMAIN cache'[r]
        PROVE  box'[e][i] # cache'[r][j]
    <3>1. CASE e = d
      BY <1>11, <1>12, <3>1 DEF IInv, Places, Cached
    <3>2. CASE e # d
      BY <1>11, <1>12, <3>2 DEF IInv, Places
    <3> QED BY <3>1, <3>2
  <2> QED BY <1>1, <1>14, <1>15, <1>16, <2>1 DEF IInv, Places
<1> QED BY <1>7, <1>8, <1>9, <1>10, <1>17 DEF IInv

\* create_dealer looks at _terminate after it has put the dealer into _dealers,
\* terminate sets it before it walks over them.
LEMMA JoinStep ==
  ASSUME IInv, NEW d \in Dealer, Join(d)
  PROVE  IInv'
<1>1. /\ dpc[d] = "added" /\ dpc' = [dpc EXCEPT ![d] = "live"] /\ sidOf[d] \in Sid
      /\ UNCHANGED <<reqVars, queueVars, sidOf, stopped, lost>>
  BY DEF IInv, Lives, Join
<1>2. /\ members' = [members EXCEPT ![sidOf[d]] = @ \cup {d}]
      /\ told' = IF sidOf[d] \in stopped THEN told \cup {d} ELSE told
  BY DEF Join
<1>3. TypeOK'
  BY <1>1, <1>2 DEF IInv, TypeOK
<1>4. Reading'
  BY <1>1 DEF IInv, TypeOK, Reading
<1>5. Tables'
  BY <1>1 DEF IInv, TypeOK, Tables
<1>6. Lives'
  BY <1>1, <1>2 DEF IInv, TypeOK, Lives, AllTold
<1>7. Places'
  BY <1>1 DEF IInv, Places, Boxed, Cached, NoneOverlooked
<1> QED BY <1>3, <1>4, <1>5, <1>6, <1>7 DEF IInv

LEMMA ReceiveStep ==
  ASSUME IInv, NEW d \in Dealer, Receive(d)
  PROVE  IInv'
<1>1. /\ box[d] # <<>> /\ box' = [box EXCEPT ![d] = Tail(@)] /\ box[d] \in Seq(Req)
      /\ UNCHANGED <<reqVars, dealers, sids, cache, unlinked, lifeVars, lost>>
  BY DEF Receive, IInv, TypeOK
<1>2. Tables' /\ Lives'
  BY <1>1, TablesStay
<1>3. Tail(box[d]) \in Seq(Req) /\ \A i \in DOMAIN Tail(box[d]) :
        i + 1 \in DOMAIN box[d] /\ Tail(box[d])[i] = box[d][i + 1] /\ i \in Nat
  BY <1>1, HeadTailProperties, LenProperties
<1>4. box' \in [Dealer -> Seq(Req)] /\ box'[d] = Tail(box[d])
      /\ \A e \in Dealer : e # d => box'[e] = box[e]
  BY <1>1, <1>3 DEF IInv, TypeOK
<1>5. TypeOK' /\ Reading'
  BY <1>1, <1>4 DEF IInv, TypeOK, Reading
<1> DEFINE from(e, i) == IF e = d THEN i + 1 ELSE i
<1>6. ASSUME NEW e \in Dealer, NEW i \in DOMAIN box'[e]
      PROVE  from(e, i) \in DOMAIN box[e] /\ box'[e][i] = box[e][from(e, i)] /\ i \in Nat
  <2>1. i \in 1..Len(box'[e])
    BY <1>4
  <2> QED BY <1>3, <1>4, <2>1
<1>7. Boxed'
  <2>1. ASSUME NEW e \in Dealer, NEW f \in Dealer, NEW i \in DOMAIN box'[e], NEW j \in DOMAIN box'[f],
               box'[e][i] = box'[f][j]
        PROVE  e = f /\ i = j
    <3>1. e = f /\ from(e, i) = from(f, j) /\ i \in Nat /\ j \in Nat
      <4> HIDE DEF from
      <4> QED BY <1>6, <2>1 DEF IInv, Places, Boxed
    <3> QED BY <3>1
  <2>2. ASSUME NEW e \in Dealer, NEW i \in DOMAIN box'[e]
        PROVE  rpc'[box'[e][i]] \in {"unlock", "done"} /\ box'[e][i] \notin lost'
    <3> HIDE DEF from
    <3> QED BY <1>1, <1>6 DEF IInv, Places, Boxed
  <2> QED BY <2>1, <2>2 DEF Boxed
<1>8. ASSUME NEW e \in Dealer, NEW s \in DOMAIN cache', NEW i \in DOMAIN box'[e],
             NEW j \in DOMAIN cache'[s]
      PROVE  box'[e][i] # cache'[s][j]
  <2> HIDE DEF from
  <2> QED BY <1>1, <1>6 DEF IInv, Places
<1>9. Cached' /\ NoneOverlooked'
  BY <1>1 DEF IInv, Places, Cached, NoneOverlooked
<1>10. Places'
  BY <1>1, <1>7, <1>8, <1>9 DEF IInv, Places
<1> QED BY <1>2, <1>5, <1>10 DEF IInv

\* Nobody reads, so nobody holds a pointer to the dealer that goes.
LEMMA RemoveDealerStep ==
  ASSUME IInv, NEW d \in Dealer, RemoveDealer(d)
  PROVE  IInv'
<1> DEFINE r == sidOf[d]
           left == RemoveOne(dealers[r], d)
<1>1. /\ readers = {} /\ dpc[d] = "live" /\ dealers' = DealersWithout(d)
      /\ dpc' = [dpc EXCEPT ![d] = IF r = AnySid THEN "left" ELSE "removed"]
      /\ UNCHANGED <<reqVars, cache, unlinked, box, sidOf, members, stopped, told, lost>>
  BY DEF RemoveDealer, remove_server_dealer, WriteLock
<1>2. /\ r \in DOMAIN dealers /\ dealers[r] \in Seq(Dealer)
      /\ \E k \in DOMAIN dealers[r] : dealers[r][k] = d
      /\ \A i, j \in DOMAIN dealers[r] : dealers[r][i] = dealers[r][j] => i = j
  BY <1>1 DEF IInv, TypeOK, Tables
<1>3. /\ left \in Seq(Dealer)
      /\ \A i, j \in DOMAIN left : left[i] = left[j] => i = j
      /\ \A i \in DOMAIN left : left[i] # d /\ \E j \in DOMAIN dealers[r] : dealers[r][j] = left[i]
      /\ \A j \in DOMAIN dealers[r] : dealers[r][j] # d => \E i \in DOMAIN left : left[i] = dealers[r][j]
  BY <1>2, Removes
<1>4. /\ left = <<>> => DOMAIN dealers' = DOMAIN dealers \ {r}
      /\ left # <<>> => DOMAIN dealers' = DOMAIN dealers /\ dealers'[r] = left
      /\ \A s \in DOMAIN dealers' : s # r => s \in DOMAIN dealers /\ dealers'[s] = dealers[s]
      /\ dealers' = [s \in DOMAIN dealers' |-> dealers'[s]]
  BY <1>1, <1>2, Zenon DEF DealersWithout, Put, Without
<1> HIDE DEF left
<1>5. /\ \A e \in Dealer : e # d => dpc'[e] = dpc[e]
      /\ dpc'[d] \in {"left", "removed"} /\ (r # AnySid => dpc'[d] = "removed")
      /\ dpc' \in [Dealer -> {"new", "added", "live", "removed", "left", "dead"}]
  BY <1>1 DEF IInv, TypeOK
<1>6. TypeOK'
  <2>1. \A s \in DOMAIN dealers' : dealers'[s] \in Seq(Dealer) /\ s \in Service
    BY <1>2, <1>3, <1>4 DEF IInv, TypeOK
  <2>2. dealers' \in [DOMAIN dealers' -> Seq(Dealer)] /\ DOMAIN dealers' \subseteq Service
    BY <1>4, <2>1
  <2> QED BY <1>1, <1>5, <2>2 DEF IInv, TypeOK
<1>7. Reading'
  BY <1>1 DEF IInv, Reading
<1>8. Tables'
  <2>1. ASSUME NEW s \in DOMAIN dealers', NEW i \in DOMAIN dealers'[s]
        PROVE  /\ s \in DOMAIN dealers /\ dealers'[s][i] # d
               /\ \E j \in DOMAIN dealers[s] : dealers[s][j] = dealers'[s][i]
    <3>1. CASE s = r
      BY <1>2, <1>3, <1>4, <3>1
    <3>2. CASE s # r
      BY <1>4, <3>2 DEF IInv, Tables
    <3> QED BY <3>1, <3>2
  <2>2. ASSUME NEW s \in DOMAIN dealers', NEW i \in DOMAIN dealers'[s]
        PROVE  sidOf'[dealers'[s][i]] = s /\ dpc'[dealers'[s][i]] \in {"added", "live"}
    <3>1. PICK j \in DOMAIN dealers[s] : dealers[s][j] = dealers'[s][i]
      BY <2>1
    <3>2. dealers[s][j] \in Dealer /\ dealers[s][j] # d
      BY <2>1, <3>1 DEF IInv, TypeOK
    <3> QED BY <1>1, <1>5, <2>1, <3>1, <3>2 DEF IInv, Tables
  <2>3. ASSUME NEW s \in DOMAIN dealers', NEW i \in DOMAIN dealers'[s], NEW j \in DOMAIN dealers'[s],
               dealers'[s][i] = dealers'[s][j]
        PROVE  i = j
    <3>1. CASE s = r
      BY <1>3, <1>4, <2>3, <3>1
    <3>2. CASE s # r
      BY <1>4, <2>3, <3>2 DEF IInv, Tables
    <3> QED BY <3>1, <3>2
  <2>4. ASSUME NEW e \in Dealer, dpc'[e] \in {"added", "live"}
        PROVE  /\ sidOf'[e] \in DOMAIN dealers'
               /\ \E i \in DOMAIN dealers'[sidOf'[e]] : dealers'[sidOf'[e]][i] = e
    <3>1. e # d /\ dpc[e] \in {"added", "live"} /\ sidOf'[e] = sidOf[e]
      BY <1>1, <1>5, <2>4
    <3>2. sidOf[e] \in DOMAIN dealers
      BY <3>1 DEF IInv, Tables
    <3>3. PICK j \in DOMAIN dealers[sidOf[e]] : dealers[sidOf[e]][j] = e
      BY <3>1 DEF IInv, Tables
    <3>4. CASE sidOf[e] = r
      <4>1. PICK i \in DOMAIN left : left[i] = e
        BY <1>3, <3>1, <3>3, <3>4
      <4>2. left # <<>>
        BY <4>1
      <4> QED BY <1>2, <1>4, <3>1, <3>4, <4>1, <4>2
    <3>5. CASE sidOf[e] # r
      <4>1. sidOf[e] \in DOMAIN dealers'
        BY <1>4, <3>2, <3>5
      <4> QED BY <1>4, <3>1, <3>3, <3>5, <4>1
    <3> QED BY <3>4, <3>5
  <2> QED BY <2>2, <2>3, <2>4 DEF Tables
<1>9. Lives'
  BY <1>1, <1>2, <1>5, AnyAssumption DEF IInv, TypeOK, Lives, AllTold
<1>10. DOMAIN dealers' \subseteq DOMAIN dealers
  BY <1>4
<1>11. Places'
  BY <1>1, <1>10 DEF IInv, Places, Boxed, Cached, NoneOverlooked
<1> QED BY <1>6, <1>7, <1>8, <1>9, <1>11 DEF IInv

LEMMA LeaveStep ==
  ASSUME IInv, NEW d \in Dealer, Leave(d)
  PROVE  IInv'
<1>1. /\ dpc[d] = "removed" /\ dpc' = [dpc EXCEPT ![d] = "left"] /\ sidOf[d] \in Sid
      /\ members' = [members EXCEPT ![sidOf[d]] = @ \ {d}]
      /\ UNCHANGED <<reqVars, queueVars, sidOf, stopped, told, lost>>
  BY DEF IInv, Lives, Leave
<1>2. TypeOK'
  BY <1>1 DEF IInv, TypeOK
<1>3. Reading' /\ Tables'
  BY <1>1 DEF IInv, TypeOK, Reading, Tables
<1>4. Lives'
  BY <1>1 DEF IInv, TypeOK, Lives, AllTold
<1>5. Places'
  BY <1>1 DEF IInv, Places, Boxed, Cached, NoneOverlooked
<1> QED BY <1>2, <1>3, <1>4, <1>5 DEF IInv

LEMMA ResetStep ==
  ASSUME IInv, NEW d \in Dealer, Reset(d)
  PROVE  IInv'
<1>1. /\ dpc[d] = "left" /\ dpc' = [dpc EXCEPT ![d] = "dead"]
      /\ box' = [box EXCEPT ![d] = <<>>]
      /\ UNCHANGED <<reqVars, dealers, sids, cache, unlinked, sidOf, members, stopped, told>>
  BY DEF Reset
<1>2. lost' = lost \cup {box[d][i] : i \in DOMAIN box[d]} /\ box[d] \in Seq(Req)
  BY DEF Reset, ToSet, IInv, TypeOK
<1>3. {box[d][i] : i \in DOMAIN box[d]} \subseteq Req
  BY <1>2, ElementOfSeq, LenProperties
<1>4. <<>> \in Seq(Req) /\ box'[d] = <<>> /\ \A e \in Dealer : e # d => box'[e] = box[e]
  BY <1>1 DEF IInv, TypeOK
<1>5. TypeOK'
  BY <1>1, <1>2, <1>3, <1>4 DEF IInv, TypeOK
<1>6. Reading' /\ Tables'
  BY <1>1 DEF IInv, TypeOK, Reading, Tables
<1>7. Lives'
  BY <1>1 DEF IInv, TypeOK, Lives, AllTold
<1>8. ASSUME NEW e \in Dealer, NEW i \in DOMAIN box'[e]
      PROVE  e # d /\ i \in DOMAIN box[e] /\ box'[e][i] = box[e][i]
  BY <1>4
<1>9. Boxed'
  BY <1>1, <1>2, <1>8 DEF IInv, Places, Boxed
<1>10. Cached' /\ NoneOverlooked'
  BY <1>1, <1>2 DEF IInv, Places, Cached, NoneOverlooked
<1>11. Places'
  BY <1>1, <1>2, <1>8, <1>9, <1>10 DEF IInv, Places, Boxed
<1> QED BY <1>5, <1>6, <1>7, <1>11 DEF IInv

-----------------------------------------------------------------------------
LEMMA StepInv == IInv /\ [Next]_vars => IInv'
<1> SUFFICES ASSUME IInv, [Next]_vars PROVE IInv'
  OBVIOUS
<1>1. CASE \E q \in Req : Route(q) \/ Deal(q) \/ CachePush(q) \/ CacheLink(q) \/ Unlock(q)
  BY <1>1, RouteStep, DealStep, CachePushStep, UnlockStep
<1>2. CASE \E s \in Sid : AddServer(s) \/ Terminate(s) \/ Restart(s) \/ RemoveServer(s)
  BY <1>2, AddServerStep, StopStep, RemoveServerStep
<1>3. CASE \E d \in Dealer, s \in Sid \cup {AnySid} : AddDealer(d, s)
  BY <1>3, AddDealerStep
<1>4. CASE \E d \in Dealer : Join(d) \/ Receive(d) \/ RemoveDealer(d) \/ Leave(d) \/ Reset(d)
  BY <1>4, JoinStep, ReceiveStep, RemoveDealerStep, LeaveStep, ResetStep
<1>5. CASE UNCHANGED vars
  <2>1. TypeOK'
    BY <1>5 DEF vars, IInv, TypeOK
  <2>2. Reading' /\ Tables'
    BY <1>5 DEF vars, IInv, Reading, Tables
  <2>3. Lives'
    BY <1>5 DEF vars, IInv, Lives, AllTold
  <2>4. Boxed' /\ Cached' /\ NoneOverlooked'
    BY <1>5 DEF vars, IInv, Places, Boxed, Cached, NoneOverlooked
  <2>5. box' = box /\ cache' = cache /\ lost' = lost /\ rpc' = rpc
    BY <1>5 DEF vars
  <2>6. ASSUME NEW d \in Dealer, NEW s \in DOMAIN cache',
               NEW i \in DOMAIN box'[d], NEW j \in DOMAIN cache'[s]
        PROVE  box'[d][i] # cache'[s][j]
    BY <2>5 DEF IInv, Places
  <2>7. ASSUME NEW q \in lost' PROVE rpc'[q] \in {"unlock", "done"}
    BY <2>5 DEF IInv, Places
  <2>8. Places'
    BY <2>4, <2>6, <2>7 DEF Places
  <2> QED BY <2>1, <2>2, <2>3, <2>8 DEF IInv
<1> QED BY <1>1, <1>2, <1>3, <1>4, <1>5 DEF Next

LEMMA InitInv == Init => IInv
<1> SUFFICES ASSUME Init PROVE IInv
  OBVIOUS
<1>1. <<>> \in Seq(Req) /\ DOMAIN dealers = {} /\ DOMAIN cache = {}
  BY DEF Init
<1>2. TypeOK
  BY <1>1 DEF Init, TypeOK
<1>3. Reading /\ Tables
  BY <1>1 DEF Init, Reading, Tables
<1>4. Lives
  BY AnyAssumption DEF Init, Lives, AllTold
<1>5. Places
  BY <1>1 DEF Init, Places, Boxed, Cached, NoneOverlooked
<1> QED BY <1>2, <1>3, <1>4, <1>5 DEF IInv

\* What an IO thread found under the read lock stays true until it unlocks, the
\* tables are exact, and every waiting request has one place, for any number of
\* requests, servers and dealers.
THEOREM TablesExact == Spec => []IInv
BY InitInv, StepInv, PTL DEF Spec

\* Counting a set with at most one element.
LEMMA AtMostOne ==
  ASSUME NEW S, \A x, y \in S : x = y
  PROVE  Cardinality(S) \in {0, 1} /\ (S = {} <=> Cardinality(S) = 0)
<1>1. CASE S = {}
  BY <1>1, FS_EmptySet
<1>2. CASE S # {}
  <2>1. PICK x \in S : TRUE
    BY <1>2
  <2>2. S = {x}
    BY <2>1
  <2>3. Cardinality({x}) = 1
    BY FS_Singleton
  <2> QED BY <1>2, <2>2, <2>3
<1> QED BY <1>1, <1>2

\* A request has one place when it waits, and none before its push and after
\* its drop.
LEMMA OnePlace == IInv => AtMostOnePlace
<1> SUFFICES ASSUME IInv, NEW q \in Req
             PROVE  /\ Waiting(q) <= 1
                    /\ rpc[q] \in {"idle", "deal", "cache"} \/ q \in lost => Waiting(q) = 0
  BY DEF AtMostOnePlace
<1> DEFINE B == {p \in Dealer \X Place : p[2] \in DOMAIN box[p[1]] /\ box[p[1]][p[2]] = q}
           C == {p \in Sid \X Place : p[1] \in DOMAIN cache /\ p[2] \in DOMAIN cache[p[1]]
                                      /\ cache[p[1]][p[2]] = q}
<1>1. \A x, y \in B : x = y
  <2>1. ASSUME NEW x \in B, NEW y \in B PROVE x = y
    <3>1. x[1] = y[1] /\ x[2] = y[2]
      BY DEF IInv, Places, Boxed
    <3> QED BY <3>1
  <2> QED BY <2>1
<1>2. \A x, y \in C : x = y
  <2>1. ASSUME NEW x \in C, NEW y \in C PROVE x = y
    <3>1. x[1] = y[1] /\ x[2] = y[2]
      BY DEF IInv, Places, Cached
    <3> QED BY <3>1
  <2> QED BY <2>1
<1>3. B = {} \/ C = {}
  BY DEF IInv, Places
<1>4. rpc[q] \in {"idle", "deal", "cache"} \/ q \in lost => B = {} /\ C = {}
  BY DEF IInv, Places, Boxed, Cached
<1>5. Waiting(q) = Cardinality(B) + Cardinality(C)
  BY DEF Waiting
<1> HIDE DEF B, C
<1>6. /\ Cardinality(B) \in {0, 1} /\ (B = {} <=> Cardinality(B) = 0)
      /\ Cardinality(C) \in {0, 1} /\ (C = {} <=> Cardinality(C) = 0)
  BY <1>1, <1>2, AtMostOne
<1> QED BY <1>3, <1>4, <1>5, <1>6

\* What a step may take out of a cache: all of it, into the box of the dealer
\* that is added or into the drop.
Moved == \A s \in Sid, q \in Req :
  /\ s \in DOMAIN cache /\ q \in ToSet(cache[s])
  /\ s \in DOMAIN cache' => q \notin ToSet(cache'[s])
  => q \in lost' \/ \E d \in Dealer : q \in ToSet(box'[d])

LEMMA StepMoves == IInv /\ [Next]_vars => Moved
<1> SUFFICES ASSUME IInv, [Next]_vars, NEW s \in Sid, NEW q \in Req,
                    s \in DOMAIN cache, q \in ToSet(cache[s]),
                    s \in DOMAIN cache' => q \notin ToSet(cache'[s])
             PROVE  q \in lost' \/ \E d \in Dealer : q \in ToSet(box'[d])
  BY DEF Moved
<1>1. CASE UNCHANGED cache
  BY <1>1
<1>2. CASE \E p \in Req : CachePush(p)
  <2>1. PICK p \in Req : CachePush(p)
    BY <1>2
  <2>2. CASE s = dest[p]
    <3>1. cache[s] \in Seq(Req) /\ cache'[s] = Append(cache[s], p) /\ s \in DOMAIN cache'
      BY <2>1, <2>2 DEF CachePush, IInv, TypeOK
    <3>2. PICK i \in DOMAIN cache[s] : cache[s][i] = q
      BY DEF ToSet
    <3>3. i \in DOMAIN cache'[s] /\ cache'[s][i] = q
      BY <3>1, <3>2, AppendPlaces
    <3> QED BY <3>1, <3>3 DEF ToSet
  <2>3. CASE s # dest[p]
    BY <2>1, <2>3 DEF CachePush, IInv, TypeOK
  <2> QED BY <2>2, <2>3
<1>3. CASE \E r \in Sid : AddServer(r)
  BY <1>3 DEF AddServer, Put
<1>4. CASE \E r \in Sid : RemoveServer(r)
  <2>1. PICK r \in Sid : RemoveServer(r)
    BY <1>4
  <2>2. CASE r = s
    BY <2>1, <2>2 DEF RemoveServer
  <2>3. CASE r # s
    BY <2>1, <2>3 DEF RemoveServer, Without
  <2> QED BY <2>2, <2>3
<1>5. CASE \E d \in Dealer, r \in Service : AddDealer(d, r)
  <2>1. PICK d \in Dealer, r \in Service : AddDealer(d, r)
    BY <1>5
  <2>2. CASE r = s
    <3>1. WriteLock /\ box' = [box EXCEPT ![d] = Popped(s)]
      BY <2>1, <2>2 DEF AddDealer, add_server_dealer
    <3>2. Popped(s) = cache[s]
      BY <3>1, PopsAll
    <3>3. box'[d] = cache[s]
      BY <3>1, <3>2 DEF IInv, TypeOK
    <3> QED BY <3>3
  <2>3. CASE r # s
    <3>1. s \in DOMAIN cache' /\ cache'[s] = cache[s]
      BY <2>1, <2>3 DEF AddDealer, add_server_dealer
    <3> QED BY <3>1
  <2> QED BY <2>2, <2>3
<1>6. CASE Next /\ ~(\/ \E p \in Req : CachePush(p)
                     \/ \E r \in Sid : AddServer(r) \/ RemoveServer(r)
                     \/ \E d \in Dealer, r \in Service : AddDealer(d, r))
  <2>1. UNCHANGED cache
    BY <1>6, Zenon DEF Next, Route, Deal, CacheLink, Unlock, Terminate, Restart, Join, Receive,
                RemoveDealer, remove_server_dealer, Leave, Reset
  <2> QED BY <1>1, <2>1
<1> QED BY <1>1, <1>2, <1>3, <1>4, <1>5, <1>6 DEF vars

\* No request waits in the cache of a server that has a dealer, no IO thread
\* pushes to a dealer that finalize has taken out, no dealer of a terminated
\* server misses it, a request is in one place, and none leaves a cache but to a
\* dealer or to a drop, whatever servers, dealers and requests come and go.
THEOREM BackendIsSound == Spec => BackendSound
<1>1. IInv => NoneOverlooked /\ NoDeadDealer /\ AllTold /\ AtMostOnePlace
  <2>1. IInv => NoneOverlooked /\ AllTold
    BY DEF IInv, Places, Lives
  <2>2. IInv => NoDeadDealer
    BY DEF IInv, Reading, Lives, TypeOK, NoDeadDealer
  <2> QED BY <2>1, <2>2, OnePlace
<1>2. IInv /\ [Next]_vars =>
        [\A s \in Sid, q \in Req :
           /\ s \in DOMAIN cache /\ q \in ToSet(cache[s])
           /\ s \in DOMAIN cache' => q \notin ToSet(cache'[s])
           => q \in lost' \/ \E d \in Dealer : q \in ToSet(box'[d])]_vars
  BY StepMoves DEF Moved
<1> QED BY <1>1, <1>2, TablesExact, PTL DEF Spec, BackendSound, NothingVanishes
=============================================================================
