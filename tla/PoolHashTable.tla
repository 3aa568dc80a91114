---------------------------- MODULE PoolHashTable ----------------------------
(***************************************************************************)
(* The pool hash table of src/misc/PoolHashTable.h: nodes 1..n of one      *)
(* mapped array, collision chains threaded through the nodes, a free list  *)
(* through the empty ones. A chain starts at the node its keys hash to,    *)
(* tagged "head"; a key that hashes to a node another chain uses as a      *)
(* "probe" node pushes that chain one node on.                             *)
(*                                                                         *)
(* Offsets are node numbers, 0 is the list head and "no node". The free    *)
(* list is the sequence of its nodes: a freed node goes to its end, and    *)
(* the end is where probe_node takes one from, because the distance it     *)
(* computes is unsigned and negative for every node but the first it       *)
(* looks at. Load factors are in thousandths. What a key maps to plays no  *)
(* part. The serializers keep the order of what is written to them.        *)
(***************************************************************************)
EXTENDS Integers, Sequences, FiniteSets, SequencesExt

CONSTANTS Key, Hash,     \* the keys and their hash codes
          Factor,        \* load factors set, in 100..1000
          MaxNodes,      \* bound: nodes of the table
          None

VARIABLES table,     \* the nodes, the free list and _num_items
          factor,    \* _max_load_factor
          most,      \* _max_num_items
          trivial,   \* is_trivially_movable
          contents,  \* ghost: the keys inserted and not erased
          it,        \* a loop over the table: the iterator's node, 0 at the end
          visits,    \* ghost: the keys the loop has been at, in order
          due        \* ghost: the keys the loop has to visit

vars == <<table, factor, most, trivial, contents, it, visits, due>>

NumNodes(t) == Len(t.node)
EmptyNode == [tag |-> "empty", next |-> 0, key |-> None]

-----------------------------------------------------------------------------
(* ArrayHashSpace                                                          *)

\* _mask + 1: the largest power of two in n.
RECURSIVE PowerIn(_, _)
PowerIn(p, n) == IF 2 * p <= n THEN PowerIn(2 * p, n) ELSE p
Heads(t) == PowerIn(1, NumNodes(t))

get_hash_head(t, key) == (Hash[key] % Heads(t)) + 1

expand_space(t) ==
    LET n == NumNodes(t)
        mask == Heads(t) - 1
    IN  IF mask # 0 /\ 10 * n > 14 * mask /\ 10 * n < 18 * mask THEN 2 * (mask + 1)
        ELSE IF (n * 45) \div 32 > n + 1 THEN (n * 45) \div 32 ELSE n + 1

-----------------------------------------------------------------------------
(* Nodes and the free list.                                                *)

IsEmpty(t, p) == t.node[p].tag = "empty"
get_next(t, p) == t.node[p].next
get_key(t, p) == t.node[p].key

allocate_node(t, p) ==
    [node  |-> [t.node EXCEPT ![p].tag = "probe", ![p].next = 0],
     free  |-> SelectSeq(t.free, LAMBDA q : q # p),
     count |-> t.count + 1]

deallocate_node(t, p) ==
    [node  |-> [t.node EXCEPT ![p] = EmptyNode],
     free  |-> Append(t.free, p),
     count |-> t.count - 1]

probe_node(t, p) == IF IsEmpty(t, p) THEN p ELSE Last(t.free)

Store(t, p, key) == [t EXCEPT !.node[p].key = key]

\* A table of n empty nodes (set_space and initialize_nodes).
Blank(n) == [node |-> [p \in 1..n |-> EmptyNode], free |-> [p \in 1..n |-> p], count |-> 0]

\* The nodes of a chain from p on.
RECURSIVE ChainFrom(_, _)
ChainFrom(t, p) == IF p = 0 THEN <<>> ELSE <<p>> \o ChainFrom(t, get_next(t, p))

find_node_before(t, head, next) ==
    LET chain == ChainFrom(t, head)
    IN  chain[CHOOSE i \in DOMAIN chain : get_next(t, chain[i]) = next]

inner_find(t, key) ==
    LET head == get_hash_head(t, key)
        hits == IF IsEmpty(t, head) THEN <<>>
                ELSE SelectSeq(ChainFrom(t, head), LAMBDA p : get_key(t, p) = key)
    IN  IF hits = <<>> THEN 0 ELSE hits[1]

\* The first node after p that is in use, 0 at the end.
get_next_offset(t, p) ==
    LET used == {q \in p + 1..NumNodes(t) : ~IsEmpty(t, q)}
    IN  IF used = {} THEN 0 ELSE CHOOSE q \in used : \A r \in used : q <= r

-----------------------------------------------------------------------------
(* A node for a key that is not in the table.                              *)

\* The keys of a chain's rest move one node on, the last into a new node.
RECURSIVE ShiftOn(_, _, _)
ShiftOn(t, chain, probe) ==
    IF chain = <<>> THEN t
    ELSE ShiftOn(Store(t, probe, get_key(t, Last(chain))), Front(chain), Last(chain))

\* (Mutant: the pushed chain stays threaded through the node it gave up.)
PushOutLinked(t, head) ==
    LET chain == ChainFrom(t, head)
        probe == probe_node(t, Last(chain))
        grown == ShiftOn([allocate_node(t, probe) EXCEPT !.node[Last(chain)].next = probe],
                         chain, probe)
    IN  [grown EXCEPT !.node[head].tag = "head", !.node[head].next = 0]

\* A chain gives the node up that another key hashes to.
PushOut(t, head) ==
    LET chain == ChainFrom(t, head)
        before == find_node_before(t, get_hash_head(t, get_key(t, head)), head)
        probe == probe_node(t, Last(chain))
        grown == ShiftOn([allocate_node(t, probe) EXCEPT !.node[Last(chain)].next = probe],
                         chain, probe)
    IN  [grown EXCEPT !.node[before].next = get_next(grown, head),
                      !.node[head].tag = "head", !.node[head].next = 0]

\* inner_allocate_not_exist_no_rehash, and the item moved into the node.
Allocate(t, key) ==
    LET head == get_hash_head(t, key) IN
    CASE IsEmpty(t, head) ->
            Store([allocate_node(t, head) EXCEPT !.node[head].tag = "head"], head, key)
      [] t.node[head].tag = "head" ->
            LET prev == Last(ChainFrom(t, head))
                probe == probe_node(t, prev)
            IN  Store([allocate_node(t, probe) EXCEPT !.node[prev].next = probe], probe, key)
      [] OTHER -> Store(PushOut(t, head), head, key)

-----------------------------------------------------------------------------
(* Rehashing.                                                              *)

\* Growing in place, 1: every used node is to be placed anew.
RECURSIVE Relist(_, _)
Relist(t, p) ==
    IF p > NumNodes(t) THEN t
    ELSE Relist(IF IsEmpty(t, p)
                THEN [deallocate_node(t, p) EXCEPT !.count = t.count]
                ELSE [t EXCEPT !.node[p].tag = "rehash"], p + 1)

\* 2: a key that comes first to its head's node takes it, and whatever it
\* displaces is looked at next.
RECURSIVE PlaceHeads(_, _)
PlaceHeads(t, p) ==
    IF p > NumNodes(t) THEN t
    ELSE IF t.node[p].tag # "rehash" THEN PlaceHeads(t, p + 1)
    ELSE LET key == get_key(t, p)
             probe == get_hash_head(t, key)
         IN  CASE t.node[probe].tag = "rehash" ->
                     PlaceHeads([t EXCEPT !.node[p].key = get_key(t, probe),
                                          !.node[probe] = [tag |-> "head", next |-> 0, key |-> key]],
                                IF probe = p THEN p + 1 ELSE p)
               [] IsEmpty(t, probe) ->
                     PlaceHeads(deallocate_node(
                                    Store([allocate_node(t, probe) EXCEPT !.node[probe].tag = "head"],
                                          probe, key), p), p + 1)
               [] OTHER -> PlaceHeads(t, p + 1)

\* 3: the others go to the ends of their chains. (A node in use is never
\* probed: probe_node_rehash takes the last free node, like probe_node.)
RECURSIVE PlaceRest(_, _)
PlaceRest(t, p) ==
    IF p > NumNodes(t) THEN t
    ELSE IF t.node[p].tag # "rehash" THEN PlaceRest(t, p + 1)
    ELSE LET key == get_key(t, p)
             prev == Last(ChainFrom(t, get_hash_head(t, key)))
             probe == Last(t.free)
         IN  PlaceRest(deallocate_node(
                           Store([allocate_node(t, probe) EXCEPT !.node[prev].next = probe],
                                 probe, key), p), p + 1)

inner_remap_rehash(t, n) ==
    LET wide == [node |-> [p \in 1..n |-> IF p <= NumNodes(t) THEN t.node[p] ELSE EmptyNode],
                 free |-> <<>>, count |-> t.count]
    IN  PlaceRest(PlaceHeads(Relist(wide, 1), 1), 1)

\* The items in the order of a loop over the table.
Items(t) == LET used == SelectSeq([p \in 1..NumNodes(t) |-> p], LAMBDA p : ~IsEmpty(t, p))
            IN  [i \in DOMAIN used |-> get_key(t, used[i])]

inner_serialize_rehash(t, n) == FoldLeft(Allocate, Blank(n), Items(t))

max_load_factor(t, f) == LET m == (f * NumNodes(t)) \div 1000
                         IN  IF m < NumNodes(t) THEN m ELSE NumNodes(t)

\* The fewest buckets that hold count items under the load factor, from n on.
Buckets(n, count, f) == CHOOSE b \in n..n + count * 10 :
                            /\ b * f >= count * 1000
                            /\ \A c \in n..b - 1 : c * f < count * 1000

Larger(a, b) == IF a > b THEN a ELSE b

\* rehash(n): the table and _max_num_items after it.
RehashTo(n, t) ==
    LET b == Buckets(Larger(Larger(n, 1), (t.count * 1000) \div factor), t.count, factor)
        new == IF b > NumNodes(t) /\ trivial THEN inner_remap_rehash(t, b)
               ELSE inner_serialize_rehash(t, b)
    IN  IF b = NumNodes(t) THEN [table |-> t, most |-> most]
        ELSE [table |-> new, most |-> max_load_factor(new, factor)]

ReserveFor(n, t) ==
    LET b == Buckets((n * 1000) \div factor, n, factor)
    IN  IF n > most /\ b > NumNodes(t) THEN RehashTo(Larger(b, expand_space(t)), t)
        ELSE [table |-> t, most |-> most]

-----------------------------------------------------------------------------
(* The operations. A loop's iterator survives none of them but erase.      *)

Init ==
    /\ table = Blank(1)
    /\ factor = 1000
    /\ most = 0
    /\ trivial \in BOOLEAN
    /\ contents = {}
    /\ it = 0 /\ visits = <<>> /\ due = {}

NoLoop == it' = 0 /\ visits' = <<>> /\ due' = {}

\* emplace, try_emplace, insert and operator[] of a key.
Insert(key) ==
    /\ NoLoop
    /\ contents' = contents \cup {key}
    /\ IF inner_find(table, key) # 0 THEN UNCHANGED <<table, most>>
       ELSE LET room == ReserveFor(table.count + 1, table)
            IN  /\ NumNodes(room.table) <= MaxNodes
                /\ table' = Allocate(room.table, key)
                /\ most' = room.most
    /\ UNCHANGED <<factor, trivial>>

\* erase(iterator): the table without the key at p, and the iterator after
\* it. (Mutant: the iterator always stays when a key moves into its node.)
EraseStaying(t, p) ==
    LET next == get_next(t, p) IN
    IF next # 0
    THEN [table |-> deallocate_node([Store(t, p, get_key(t, next))
                                        EXCEPT !.node[p].next = get_next(t, next)], next),
          it |-> p]
    ELSE LET head == get_hash_head(t, get_key(t, p))
         IN  [table |-> deallocate_node(
                            IF p = head THEN t
                            ELSE [t EXCEPT !.node[find_node_before(t, head, p)].next = 0], p),
              it |-> get_next_offset(t, p)]

EraseAt(t, p) ==
    LET next == get_next(t, p)
        after == EraseStaying(t, p)
    IN  IF next # 0 /\ next < p THEN [after EXCEPT !.it = get_next_offset(after.table, p)]
        ELSE after

Erase(key) ==
    /\ key \in contents
    /\ NoLoop
    /\ contents' = contents \ {key}
    /\ table' = EraseAt(table, inner_find(table, key)).table
    /\ UNCHANGED <<factor, most, trivial>>

\* prioritise swaps the key with the one at its chain's head. (A key that is
\* there already is moved onto itself, which only trivial items survive.)
Prioritise(key) ==
    LET p == inner_find(table, key)
        head == get_hash_head(table, key)
    IN  /\ p # 0 /\ (trivial \/ p # head)
        /\ NoLoop
        /\ table' = Store(Store(table, p, get_key(table, head)), head, key)
        /\ UNCHANGED <<factor, most, trivial, contents>>

Resize(room) ==
    /\ NumNodes(room.table) <= MaxNodes
    /\ NoLoop
    /\ table' = room.table
    /\ most' = room.most
    /\ UNCHANGED <<factor, trivial, contents>>

Rehash == \E n \in 0..MaxNodes : Resize(RehashTo(n, table))
Reserve == \E n \in 1..MaxNodes : Resize(ReserveFor(n, table))

Clear ==
    /\ NoLoop
    /\ table' = Blank(NumNodes(table))
    /\ contents' = {}
    /\ UNCHANGED <<factor, most, trivial>>

MaxLoadFactor ==
    \E f \in Factor :
        /\ factor' = f
        /\ most' = max_load_factor(table, f)
        /\ NoLoop
        /\ UNCHANGED <<table, trivial, contents>>

\* The copy constructor: as many nodes, room for the items, then one insert each.
Copy ==
    LET room == ReserveFor(table.count, Blank(NumNodes(table)))
    IN  /\ NumNodes(room.table) <= MaxNodes
        /\ NoLoop
        /\ table' = FoldLeft(Allocate, room.table, Items(table))
        /\ most' = room.most
        /\ UNCHANGED <<factor, trivial, contents>>

\* A loop over the table that keeps or erases what it is at.
LoopStart ==
    /\ it = 0 /\ contents # {}
    /\ it' = get_next_offset(table, 0)
    /\ visits' = <<>>
    /\ due' = contents
    /\ UNCHANGED <<table, factor, most, trivial, contents>>

LoopKeep ==
    /\ it # 0
    /\ visits' = Append(visits, get_key(table, it))
    /\ it' = get_next_offset(table, it)
    /\ UNCHANGED <<table, factor, most, trivial, contents, due>>

LoopErase ==
    /\ it # 0
    /\ LET after == EraseAt(table, it)
       IN  table' = after.table /\ it' = after.it
    /\ visits' = Append(visits, get_key(table, it))
    /\ contents' = contents \ {get_key(table, it)}
    /\ UNCHANGED <<factor, most, trivial, due>>

Next ==
    \/ \E key \in Key : Insert(key) \/ Erase(key) \/ Prioritise(key)
    \/ Rehash \/ Reserve \/ Clear \/ MaxLoadFactor \/ Copy
    \/ LoopStart \/ LoopKeep \/ LoopErase

Spec == Init /\ [][Next]_vars

-----------------------------------------------------------------------------
\* The table holds exactly the keys put into it and not erased: inner_find
\* finds those and no others, each is in one node, _num_items counts them,
\* and the free list is exactly the empty nodes.
FindsExactly ==
    /\ \A key \in Key : (inner_find(table, key) # 0) = (key \in contents)
    /\ ToSet(Items(table)) = contents
    /\ Len(Items(table)) = Cardinality(contents)
    /\ table.count = Cardinality(contents)
    /\ ToSet(table.free) = {p \in 1..NumNodes(table) : IsEmpty(table, p)}
    /\ Len(table.free) + table.count = NumNodes(table)

\* A loop that erases some of what it visits through the iterator erase
\* returns visits every key exactly once, although erasing moves the key of
\* a later or an earlier node into the one erased.
VisitsOnce ==
    /\ IsInjective(visits)
    /\ ToSet(visits) \subseteq due
    /\ it = 0 /\ due # {} => ToSet(visits) = due
=============================================================================
