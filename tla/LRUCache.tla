------------------------------- MODULE LRUCache -------------------------------
(***************************************************************************)
(* The cache of src/misc/LRUCache.h. A finder holds the lock shared and    *)
(* becomes its writer to evict an outdated item (upgrade, which waits) or  *)
(* to move the item to the front (try_upgrade, which gives up unless it is *)
(* alone). The lock is what module Locks shows it to be: upgraders         *)
(* take turns once every reader is an upgrader.                            *)
(*                                                                         *)
(* A cached key has one node, so the list is a sequence of keys. An        *)
(* operation that would use a deleted node leaves the cache corrupt and    *)
(* ends the behaviour.                                                     *)
(***************************************************************************)
EXTENDS Integers, Sequences, FiniteSets, SequencesExt

CONSTANTS Key, Size,        \* keys, and the memory values take
          Finder,           \* threads that call find
          MaxCount,         \* _max_item_count, 0 for none
          MaxMemory,        \* _max_item_memory_usage, 0 for none
          MaxAccess,        \* _item_max_access_count, 0 for none
          MaxInserts        \* bound: insertions

VARIABLES map,        \* cached key -> [accesses, expired, memory]
          list,       \* the nodes from _head to _tail, by their keys
          count,      \* _item_count
          usage,      \* _item_memory_usage
          at, sought, \* finder -> where it is, and the key it was given
          inserts,    \* insertions so far
          corrupt,    \* a deleted node has been used
          again,      \* ghost: insertions of a key that was cached, since the last clear
          stale       \* ghost: memory counted for the values those did not store

vars == <<map, list, count, usage, at, sought, inserts, corrupt, again, stale>>

Init ==
    /\ map = <<>> /\ list = <<>>
    /\ count = 0 /\ usage = 0
    /\ at = [f \in Finder |-> "idle"]
    /\ sought = [f \in Finder |-> CHOOSE k \in Key : TRUE]
    /\ inserts = 0 /\ corrupt = FALSE
    /\ again = 0 /\ stale = 0

NoReader == \A f \in Finder : at[f] = "idle"

outdated(k) == map[k].expired \/ (MaxAccess # 0 /\ map[k].accesses >= MaxAccess)

need_to_evict(c) == \/ MaxCount # 0 /\ c.count > MaxCount
                    \/ MaxMemory # 0 /\ c.usage > MaxMemory

delink(l, k) == SelectSeq(l, LAMBDA x : x # k)
push_node_to_front(l, k) == <<k>> \o delink(l, k)

Cache == [map |-> map, list |-> list, count |-> count, usage |-> usage]

evict(c, k) ==
    [map |-> [x \in DOMAIN c.map \ {k} |-> c.map[x]], list |-> delink(c.list, k),
     count |-> c.count - 1, usage |-> c.usage - c.map[k].memory]

Becomes(c) == map' = c.map /\ list' = c.list /\ count' = c.count /\ usage' = c.usage

-----------------------------------------------------------------------------
(* find                                                                    *)

\* Under the shared lock: the value is copied, the access counted.
Find(f, k) ==
    /\ at[f] = "idle"
    /\ k \in DOMAIN map
    /\ map' = [map EXCEPT ![k].accesses = IF MaxAccess = 0 THEN @ ELSE @ + 1]
    /\ sought' = [sought EXCEPT ![f] = k]
    /\ at' = [at EXCEPT ![f] = "found"]
    /\ UNCHANGED <<list, count, usage, inserts, corrupt, again, stale>>

\* The item is outdated: ask for the upgrade, and evict the item once it is
\* granted, if it is still there and still outdated.
WantUpgrade(f) ==
    /\ at[f] = "found" /\ outdated(sought[f])
    /\ at' = [at EXCEPT ![f] = "upgrading"]
    /\ UNCHANGED <<map, list, count, usage, sought, inserts, corrupt, again, stale>>

StillOutdatedBlind(k) == TRUE

StillOutdated(k) == k \in DOMAIN map /\ outdated(k)

Upgraded(f) ==
    /\ at[f] = "upgrading"
    /\ \A g \in Finder : at[g] \in {"idle", "upgrading"}
    /\ LET k == sought[f] IN
       /\ corrupt' = (StillOutdated(k) /\ k \notin DOMAIN map)
       /\ Becomes(IF StillOutdated(k) /\ k \in DOMAIN map THEN evict(Cache, k) ELSE Cache)
    /\ at' = [at EXCEPT ![f] = "leaving"]
    /\ UNCHANGED <<sought, inserts, again, stale>>

Leave(f) ==
    /\ at[f] = "leaving"
    /\ at' = [at EXCEPT ![f] = "idle"]
    /\ UNCHANGED <<map, list, count, usage, sought, inserts, corrupt, again, stale>>

\* The item is fresh: to the front with it if nobody else holds the lock.
Touch(f) ==
    /\ at[f] = "found" /\ ~outdated(sought[f])
    /\ list' = IF \A g \in Finder \ {f} : at[g] = "idle"
               THEN push_node_to_front(list, sought[f]) ELSE list
    /\ at' = [at EXCEPT ![f] = "idle"]
    /\ UNCHANGED <<map, count, usage, sought, inserts, corrupt, again, stale>>

-----------------------------------------------------------------------------
\* insert, under the exclusive lock. A cached key keeps its node and its
\* value and is counted once more. A cache over a limit evicts its last node
\* first, which may be the very node just looked up.
Insert(k, size) ==
    LET cached == k \in DOMAIN map
        full == need_to_evict(Cache) /\ list # <<>>
        fresh == [accesses |-> 0, expired |-> FALSE, memory |-> size]
        first == IF full THEN evict(Cache, Last(list)) ELSE Cache
        added == [map |-> [x \in DOMAIN first.map \cup {k} |->
                              IF x # k THEN first.map[x]
                              ELSE IF cached THEN [map[k] EXCEPT !.memory = size] ELSE fresh],
                  list |-> push_node_to_front(first.list, k),
                  count |-> first.count + 1, usage |-> first.usage + size]
    IN  /\ NoReader
        /\ inserts < MaxInserts
        /\ inserts' = inserts + 1
        /\ corrupt' = (cached /\ full /\ Last(list) = k)
        /\ IF corrupt' THEN UNCHANGED <<map, list, count, usage, again, stale>>
           ELSE /\ Becomes(IF need_to_evict(added) THEN evict(added, Last(added.list)) ELSE added)
                /\ again' = IF cached THEN again + 1 ELSE again
                /\ stale' = IF cached THEN stale + map[k].memory ELSE stale
        /\ UNCHANGED <<at, sought>>

Clear ==
    /\ NoReader
    /\ map' = <<>> /\ list' = <<>>
    /\ count' = 0 /\ usage' = 0
    /\ again' = 0 /\ stale' = 0
    /\ UNCHANGED <<at, sought, inserts, corrupt>>

\* Time passes: an item's time to live is over.
Expire ==
    \E k \in DOMAIN map :
        /\ ~map[k].expired
        /\ map' = [map EXCEPT ![k].expired = TRUE]
        /\ UNCHANGED <<list, count, usage, at, sought, inserts, corrupt, again, stale>>

Next ==
    /\ ~corrupt
    /\ \/ \E f \in Finder : WantUpgrade(f) \/ Upgraded(f) \/ Leave(f) \/ Touch(f)
       \/ \E f \in Finder, k \in Key : Find(f, k)
       \/ \E k \in Key, s \in Size : Insert(k, s)
       \/ Clear \/ Expire

Spec == Init /\ [][Next]_vars

-----------------------------------------------------------------------------
\* Whatever finders, evictions and insertions interleave: the list holds
\* exactly the cached keys, each once; never more than _max_item_count keys
\* are cached; the two counters are exact but for what insert adds for a key
\* that is cached already, so they never run below zero. A deleted node is
\* used only by such an insertion into a cache still over its memory limit.
CacheSound ==
    IF corrupt THEN MaxMemory # 0 /\ usage > MaxMemory /\ NoReader
    ELSE /\ IsInjective(list)
         /\ ToSet(list) = DOMAIN map
         /\ MaxCount # 0 => Len(list) <= MaxCount
         /\ count = Len(list) + again
         /\ usage = FoldSeq(LAMBDA k, sum : sum + map[k].memory, 0, list) + stale
=============================================================================
