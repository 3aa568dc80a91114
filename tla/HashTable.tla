------------------------------ MODULE HashTable ------------------------------
(***************************************************************************)
(* The incremental hash table of src/misc/HashTable.h: linear hashing, two *)
(* buckets added whenever the load factor is exceeded, and an array that   *)
(* is outgrown is moved bucket by bucket, one per insert or erase, the     *)
(* buckets below _new_begin still being in the old array.                  *)
(*                                                                         *)
(* A bucket is the sequence of the keys of its chain, or Garbage where the *)
(* array has never been written. Load factors are in hundredths.           *)
(***************************************************************************)
EXTENDS Integers, FiniteSets, SequencesExt

CONSTANTS Key, Hash,     \* the keys and their hash codes
          Capacity,      \* capacities a table is constructed with
          Factor,        \* load factors set
          MaxCapacity,   \* bound on _bucket_capacity
          Garbage

VARIABLES old,        \* _old_buckets, empty when there is none
          new,        \* _new_buckets, by bucket number
          newBegin,   \* _new_begin
          count,      \* _bucket_count
          mask,       \* _mask + 1
          size,       \* _size
          factor,     \* _max_load_factor
          aborted,    \* an SCHECK has failed
          reserved,   \* ghost: the application has called reserve
          contents    \* ghost: the keys inserted and not erased

vars == <<old, new, newBegin, count, mask, size, factor, aborted, reserved, contents>>

NewArray(n) == [i \in 0..n - 1 |-> Garbage]

\* The fields of the table as a record.
Table == [old |-> old, new |-> new, newBegin |-> newBegin, count |-> count, mask |-> mask,
          size |-> size, factor |-> factor, aborted |-> aborted]

\* The table constructed with a capacity.
Constructed(capacity) ==
    [old |-> <<>>, new |-> [NewArray(capacity) EXCEPT ![0] = <<>>], newBegin |-> 0, count |-> 1,
     mask |-> 1, size |-> 0, factor |-> 75, aborted |-> FALSE]

bucket_capacity(t) == Cardinality(DOMAIN t.new)

bucket(t, i) == IF i < t.newBegin THEN t.old[i] ELSE t.new[i]

SetBucket(t, i, chain) ==
    IF i < t.newBegin THEN [t EXCEPT !.old[i] = chain] ELSE [t EXCEPT !.new[i] = chain]

hash_to_bucket(t, hash) ==
    LET i == hash % t.mask
    IN  IF i < t.count THEN i ELSE hash % (t.mask \div 2)

BucketOf(t, key) == hash_to_bucket(t, Hash[key])

\* find_entry
Found(t, key) == key \in ToSet(bucket(t, BucketOf(t, key)))

-----------------------------------------------------------------------------
(* Growing.                                                                *)

reserve(t, n) ==
    IF n <= bucket_capacity(t) THEN t
    ELSE IF t.newBegin # 0 THEN [t EXCEPT !.aborted = TRUE]
    ELSE [t EXCEPT !.old = t.new, !.new = NewArray(n), !.newBegin = t.count]

IsPowerOf2(n) == \E e \in 0..10 : n = 2 ^ e

\* The chain of the bucket split off keeps its order, and so does the rest.
SplitBucketUnder(t, m) ==
    LET to == t.count
        from == to % (m \div 2)
        wide == [t EXCEPT !.mask = m, !.count = to + 1]
        chain == bucket(wide, from)
        moves(key) == Hash[key] % m = to
    IN  SetBucket(SetBucket(wide, to, SelectSeq(chain, moves)),
                  from, SelectSeq(chain, LAMBDA key : ~moves(key)))

add_bucket(t) ==
    LET r == IF t.count >= bucket_capacity(t) THEN reserve(t, 2 * bucket_capacity(t)) ELSE t
    IN  IF r.aborted THEN r
        ELSE SplitBucketUnder(r, IF IsPowerOf2(r.count) THEN 2 * r.count ELSE r.mask)

move_bucket(t) ==
    IF t.aborted \/ t.newBegin = 0 THEN t
    ELSE LET i == t.newBegin - 1
         IN  [t EXCEPT !.new[i] = t.old[i], !.newBegin = i,
                       !.old = IF i = 0 THEN <<>> ELSE t.old]

\* insert_postprocess of a table that has got a key more. (Mutant: a bucket
\* is moved only once per insert.)
PostprocessMovingOnce(t) ==
    LET p == [t EXCEPT !.size = @ + 1]
    IN  move_bucket(IF p.size * 100 > p.factor * p.count THEN add_bucket(add_bucket(p)) ELSE p)

insert_postprocess(t) ==
    LET p == [t EXCEPT !.size = @ + 1]
    IN  move_bucket(IF p.size * 100 > p.factor * p.count THEN add_bucket(move_bucket(add_bucket(p))) ELSE p)

\* insert, emplace and operator[] of a key; a new one goes to its chain's end.
insert(t, key) ==
    LET i == BucketOf(t, key)
    IN  IF Found(t, key) THEN t ELSE insert_postprocess(SetBucket(t, i, Append(bucket(t, i), key)))

erase(t, key) ==
    LET i == BucketOf(t, key)
        rest == SelectSeq(bucket(t, i), LAMBDA k : k # key)
    IN  IF ~Found(t, key) THEN t ELSE move_bucket([SetBucket(t, i, rest) EXCEPT !.size = @ - 1])

\* clear: the array stays, with everything but its first bucket as it was.
clear(t) ==
    [t EXCEPT !.old = <<>>, !.newBegin = 0, !.count = 1, !.mask = 1, !.size = 0,
              !.new = [i \in DOMAIN t.new |->
                          IF i \in t.newBegin..t.count - 1 \/ i = 0 THEN <<>> ELSE t.new[i]]]

-----------------------------------------------------------------------------
(* Iterators: an entry, or the end. An iterator goes to the next entry of  *)
(* its chain or else to the first one of the buckets after.                *)

find_first_nonempty(t, i) ==
    CHOOSE j \in i..t.count : /\ j = t.count \/ bucket(t, j) # <<>>
                              /\ \A k \in i..j - 1 : bucket(t, k) = <<>>

AtBucket(t, i) == IF i = t.count THEN <<>> ELSE <<bucket(t, i)[1]>>

begin(t) == AtBucket(t, find_first_nonempty(t, 0))

increment(t, it) ==
    LET b == BucketOf(t, it[1])
        chain == bucket(t, b)
        at == CHOOSE i \in DOMAIN chain : chain[i] = it[1]
    IN  IF at < Len(chain) THEN <<chain[at + 1]>> ELSE AtBucket(t, find_first_nonempty(t, b + 1))

\* The keys met from an iterator on.
RECURSIVE IterationFrom(_, _)
IterationFrom(t, it) == IF it = <<>> THEN <<>> ELSE it \o IterationFrom(t, increment(t, it))
Iteration(t) == IterationFrom(t, begin(t))

-----------------------------------------------------------------------------
Becomes(t) ==
    /\ bucket_capacity(t) <= MaxCapacity
    /\ old' = t.old /\ new' = t.new /\ newBegin' = t.newBegin
    /\ count' = t.count /\ mask' = t.mask /\ size' = t.size
    /\ factor' = t.factor /\ aborted' = t.aborted

Init ==
    /\ \E capacity \in Capacity : new = Constructed(capacity).new
    /\ old = <<>>
    /\ newBegin = 0 /\ count = 1 /\ mask = 1 /\ size = 0
    /\ factor = 75
    /\ aborted = FALSE /\ reserved = FALSE
    /\ contents = {}

Insert(key) ==
    /\ Becomes(insert(Table, key))
    /\ contents' = contents \cup {key}
    /\ UNCHANGED reserved

Erase(key) ==
    /\ Becomes(erase(Table, key))
    /\ contents' = contents \ {key}
    /\ UNCHANGED reserved

\* erase(first, last) with every iterator moved on before its entry goes.
EraseFrom(key) ==
    /\ key \in contents
    /\ LET last == IterationFrom(Table, <<key>>)
       IN  /\ Becomes(FoldLeft(erase, Table, last))
           /\ contents' = contents \ ToSet(last)
    /\ UNCHANGED reserved

Clear ==
    /\ Becomes(clear(Table))
    /\ contents' = {}
    /\ UNCHANGED reserved

\* A copy is constructed, or assigned to another table, cleared first (here one
\* of the same past): the keys are inserted in the order of the iteration. The
\* model goes on with the copy.
Copy(to) ==
    /\ Becomes(FoldLeft(insert, to, Iteration(Table)))
    /\ UNCHANGED <<reserved, contents>>

MaxLoadFactor ==
    /\ factor' \in Factor
    /\ UNCHANGED <<old, new, newBegin, count, mask, size, aborted, reserved, contents>>

Reserve(n) ==
    /\ Becomes(reserve(Table, n))
    /\ reserved' = TRUE
    /\ UNCHANGED contents

Next ==
    /\ ~aborted
    /\ \/ \E key \in Key : Insert(key) \/ Erase(key) \/ EraseFrom(key)
       \/ Clear \/ MaxLoadFactor
       \/ \E to \in {Constructed(1), clear(Table)} : Copy(to)
       \/ \E n \in 1..MaxCapacity : Reserve(n)

Spec == Init /\ [][Next]_vars

-----------------------------------------------------------------------------

\* Halfway through moving an array and halfway through a round of splits, a
\* lookup finds exactly the keys put in and not erased, an iteration visits
\* each once, and no bucket in use is one that was never written. An SCHECK
\* fails only when the application has called reserve: otherwise the old
\* array has been moved entirely before the new one is outgrown.
Exact ==
    /\ aborted => reserved
    /\ ~aborted =>
           /\ \A i \in 0..count - 1 : bucket(Table, i) # Garbage
           /\ \A key \in Key : Found(Table, key) = (key \in contents)
           /\ ToSet(Iteration(Table)) = contents
           /\ Len(Iteration(Table)) = Cardinality(contents) /\ size = Cardinality(contents)
=============================================================================
