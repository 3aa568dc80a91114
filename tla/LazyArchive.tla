---------------------------- MODULE LazyArchive ----------------------------
(***************************************************************************)
(* The lazy part of a request or a response (rpc/LazyArchive.h, with       *)
(* RpcMessage's initialize and finalize): values are kept as they are      *)
(* until the message is built, then each is split into a meta part, which  *)
(* is copied, and data blocks, which are not.  A message to the own        *)
(* process carries the sender's blocks and holds the sender's archive; one *)
(* over a socket arrives in blocks of its own (the receiving constructor   *)
(* of RpcMessage).  A value is a record whose k names the overload.        *)
(***************************************************************************)
EXTENDS Integers, SequencesExt, FiniteSets, FiniteSetsExt

CONSTANTS Shapes,     \* the values written: records without identities
          MaxValues   \* values put into the archive

VARIABLES lazy, cur,   \* _lazy and _cur of the sender's archive
          stage,       \* "filling", "received" or "gone"
          local,       \* was the message delivered in the own process
          meta,        \* what is unread of the receiver's _ar
          data, pos,   \* the receiver's _shared: its blocks and _pos
          out,         \* ghost: what the receiver has read
          kept,        \* blocks the receiver took out and still uses
          freed        \* ghost: blocks deallocated, with repetitions

vars == <<lazy, cur, stage, local, meta, data, pos, out, kept, freed>>

Init == /\ lazy = <<>> /\ cur = 0 /\ stage = "filling" /\ local \in BOOLEAN
        /\ meta = <<>> /\ data = <<>> /\ pos = 0 /\ out = <<>> /\ kept = {} /\ freed = <<>>

Rest == SubSeq(lazy, cur + 1, Len(lazy))

-----------------------------------------------------------------------------
\* pico_serialize to (ArchiveWriter, SharedArchiveWriter): the meta part and
\* the blocks of a value.  A vector of trivially copyable items, a block and
\* an archive are one block; a list writes its size and then its items, and a
\* map does as a list of pairs.
RECURSIVE Meta(_)
Meta(v) == CASE v.k = "plain" -> <<v.id>>
             [] v.k \in {"block", "archive", "vector"} -> <<>>
             [] v.k = "list" -> <<Len(v.items)>> \o FlattenSeq([i \in DOMAIN v.items |-> Meta(v.items[i])])
             [] v.k = "pair" -> Meta(v.first) \o Meta(v.second)
RECURSIVE Blocks(_)
Blocks(v) == CASE v.k = "plain" -> <<>>
               [] v.k \in {"block", "archive", "vector"} -> <<[id |-> v.id, size |-> v.size, owner |-> 0]>>
               [] v.k = "list" -> FlattenSeq([i \in DOMAIN v.items |-> Blocks(v.items[i])])
               [] v.k = "pair" -> Blocks(v.first) \o Blocks(v.second)

\* get_shared_uncheck: the block at pos moves to the caller; in the Copy form
\* it stays where it is.
Reader(m, d, p, v, own) == [meta |-> m, data |-> d, pos |-> p, v |-> v, own |-> own]
Emptied(b) == [b EXCEPT !.owner = 0, !.size = 0]
GetSharedCopy(r, k) ==
    LET b == r.data[r.pos + 1]
    IN Reader(r.meta, r.data, r.pos + 1,
              [k |-> k, id |-> b.id, size |-> b.size], Append(r.own, [k |-> k, b |-> b]))
GetShared(r, k) ==
    LET b == r.data[r.pos + 1]
    IN Reader(r.meta, [r.data EXCEPT ![r.pos + 1] = Emptied(b)], r.pos + 1,
              [k |-> k, id |-> b.id, size |-> b.size], Append(r.own, [k |-> k, b |-> b]))

\* pico_deserialize into a value of the shape of v.
RECURSIVE Deserialize(_, _)
RECURSIVE DeserializeItems(_, _, _)
Deserialize(r, v) ==
    CASE v.k = "plain" -> [r EXCEPT !.meta = Tail(@), !.v = [k |-> "plain", id |-> r.meta[1]]]
      [] v.k \in {"block", "archive", "vector"} -> GetShared(r, v.k)
      [] v.k = "list" ->
            LET q == DeserializeItems([r EXCEPT !.meta = Tail(@)], v.of, r.meta[1])
            IN [q EXCEPT !.v = [k |-> "list", of |-> v.of, items |-> q.v]]
      [] v.k = "pair" ->
            LET a == Deserialize(r, v.first)
                b == Deserialize(a, v.second)
            IN [b EXCEPT !.v = [k |-> "pair", first |-> a.v, second |-> b.v]]
DeserializeItems(r, shape, n) ==
    IF n = 0 THEN [r EXCEPT !.v = <<>>]
    ELSE LET q == Deserialize(r, shape)
             rest == DeserializeItems(q, shape, n - 1)
         IN [rest EXCEPT !.v = <<q.v>> \o @]

-----------------------------------------------------------------------------
\* Values get identities, so that no two blocks or meta entries are alike.
RECURSIVE Number(_, _)
Number(v, n) ==
    CASE v.k = "plain" -> v @@ [id |-> n]
      [] v.k \in {"block", "archive", "vector"} -> v @@ [id |-> n]
      [] v.k = "list" -> [v EXCEPT !.items = [i \in DOMAIN @ |-> Number(@[i], n + i)]]
      [] v.k = "pair" -> [v EXCEPT !.first = Number(@, n), !.second = Number(@, n + 1)]

\* operator<<
Put(v) ==
    /\ stage = "filling" /\ Len(lazy) < MaxValues
    /\ lazy' = Append(lazy, Number(v, 10 * (Len(lazy) + 1)))
    /\ UNCHANGED <<cur, stage, local, meta, data, pos, out, kept, freed>>

\* operator>> on an archive that was never sent: the value moves out.
GetUnsent ==
    /\ stage = "filling" /\ cur < Len(lazy)
    /\ cur' = cur + 1
    /\ UNCHANGED <<lazy, stage, local, meta, data, pos, out, kept, freed>>

\* apply, transport and attach.  The last block is the meta archive; over a
\* socket each block that is not empty arrives in memory the message owns.
MetaId == 0
Arrive(b) == IF local THEN b ELSE [b EXCEPT !.owner = IF b.size = 0 THEN 0 ELSE 1]
ApplyAttach ==
    /\ stage = "filling"
    /\ LET m == FlattenSeq([i \in DOMAIN Rest |-> Meta(Rest[i])])
           bs == FlattenSeq([i \in DOMAIN Rest |-> Blocks(Rest[i])])
       IN IF lazy = <<>> THEN UNCHANGED <<meta, data>>
          ELSE /\ meta' = m
               /\ data' = [i \in 1..(Len(bs) + 1) |->
                    IF i <= Len(bs) THEN Arrive(bs[i])
                    ELSE Arrive([id |-> MetaId, size |-> Len(m), owner |-> 0])]
    /\ stage' = "received"
    /\ UNCHANGED <<lazy, cur, local, pos, out, kept, freed>>

\* operator>> at the receiver, into the type the sender wrote there.  It
\* reads the stream as long as the meta archive or the blocks are not
\* exhausted; the meta block, never taken, keeps the blocks from being so.
Get ==
    /\ stage = "received" /\ cur + Len(out) < Len(lazy)
    /\ ~(meta = <<>> /\ pos = Len(data))
    /\ LET r == Deserialize(Reader(meta, data, pos, <<>>, <<>>), lazy[cur + Len(out) + 1])
           copied == SelectSeq(r.own, LAMBDA x : x.k = "vector")
           moved == SelectSeq(r.own, LAMBDA x : x.k # "vector")
       IN /\ meta' = r.meta /\ data' = r.data /\ pos' = r.pos
          /\ out' = Append(out, r.v)
          /\ kept' = kept \cup {x.b : x \in ToSet(moved)}
          /\ freed' = freed \o FlattenSeq([i \in DOMAIN copied |->
                                IF copied[i].b.owner = 1 THEN <<copied[i].b.id>> ELSE <<>>])
    /\ UNCHANGED <<lazy, cur, stage, local>>

\* The request is destroyed: its blocks, and in a local delivery the archive
\* it holds, with the memory of every value the sender wrote.
Owned(bs) == LET own == SelectSeq(bs, LAMBDA b : b.owner = 1) IN [i \in DOMAIN own |-> own[i].id]
Destroy ==
    /\ stage = "received"
    /\ stage' = "gone"
    /\ freed' = freed \o Owned(data)
    /\ data' = <<>> /\ meta' = <<>> /\ pos' = 0
    /\ UNCHANGED <<lazy, cur, local, out, kept>>

\* The receiver is done with a block it took out.
DropKept ==
    \E b \in kept :
        /\ kept' = kept \ {b}
        /\ freed' = IF b.owner = 1 THEN Append(freed, b.id) ELSE freed
        /\ UNCHANGED <<lazy, cur, stage, local, meta, data, pos, out>>

Next == (\E v \in Shapes : Put(v)) \/ GetUnsent \/ ApplyAttach \/ Get \/ Destroy \/ DropKept

Spec == Init /\ [][Next]_vars

-----------------------------------------------------------------------------
\* What the sender put and did not take back the receiver gets, in order,
\* whole, and without running into the meta block; and over a socket every
\* block that arrived is deallocated once, never while the receiver still
\* uses it, and all of them are when the request and what it gave are gone.
LazySound ==
    /\ out = SubSeq(lazy, cur + 1, cur + Len(out))
    /\ (stage = "received" /\ cur + Len(out) = Len(lazy)) =>
            meta = <<>> /\ (data = <<>> \/ pos = Len(data) - 1)
    /\ \A i, j \in DOMAIN freed : freed[i] = freed[j] => i = j
    /\ \A b \in kept : b.id \notin ToSet(freed)
    /\ (stage = "gone" /\ kept = {} /\ ~local) =>
            \A i \in DOMAIN Rest : \A j \in DOMAIN Blocks(Rest[i]) :
                LET b == Blocks(Rest[i])[j] IN b.size > 0 => b.id \in ToSet(freed)
=============================================================================
