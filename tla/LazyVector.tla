------------------------------ MODULE LazyVector ------------------------------
(***************************************************************************)
(* The vectors of src/misc/LazyVector.h: a vector is a sequence of views   *)
(* into buffers that cut, merge and sub let several vectors share. A       *)
(* vector may append to the buffer of its last view only while that view   *)
(* ends where the buffer ends.                                             *)
(***************************************************************************)
EXTENDS Integers, Sequences, SequencesExt

CONSTANTS Vector,      \* the vectors of the program
          MaxItems,    \* bound: items pushed, which are numbered
          MaxOps       \* bound: operations other than push_back

VARIABLES buffers,     \* the lazy_data allocated, by number
          views,       \* vector -> _lazy_views
          total,       \* vector -> _total_item_num
          items, ops,  \* items pushed and other operations so far
          content      \* ghost: vector -> what a plain vector would hold

vars == <<buffers, views, total, items, ops, content>>

View(b, e, p, d) == [begin |-> b, end |-> e, pushable |-> p, data |-> d]
Fresh(d) == View(0, 0, TRUE, d)

\* Every vector starts with one empty view of a buffer of its own.
Init ==
    LET name == SetToSeq(Vector)
        number == [v \in Vector |-> CHOOSE i \in DOMAIN name : name[i] = v]
    IN  /\ buffers = [i \in DOMAIN name |-> <<>>]
        /\ views = [v \in Vector |-> <<Fresh(number[v])>>]
        /\ total = [v \in Vector |-> 0]
        /\ items = 0 /\ ops = 0
        /\ content = [v \in Vector |-> <<>>]

Length(w) == w.end - w.begin

\* The view that index idx falls into, and the index inside it: the walk of
\* operator[], cut and sub, from view number first on.
RECURSIVE Locate(_, _, _)
Locate(vs, first, idx) ==
    IF idx + vs[first].begin >= vs[first].end
    THEN Locate(vs, first + 1, idx - Length(vs[first]))
    ELSE [view |-> first, idx |-> idx]

At(v, i) == LET l == Locate(views[v], 1, i)
                w == views[v][l.view]
            IN  buffers[w.data][l.idx + w.begin + 1]

\* push_back(view): an empty view is dropped.
Appended(vs, w) == IF Length(w) > 0 THEN Append(vs, w) ELSE vs

-----------------------------------------------------------------------------
\* push_back(item): a new buffer unless the last view may grow. The view that
\* turns out not to end where its buffer ends stops being pushable. (Mutant:
\* without that check.)
MayGrowUnchecked(w) == w.pushable

MayGrow(w) == w.pushable /\ w.end = Len(buffers[w.data])

Push(v) ==
    LET vs == views[v]
        grow == vs # <<>> /\ MayGrow(Last(vs))
        old == IF vs = <<>> \/ grow THEN vs ELSE [vs EXCEPT ![Len(vs)].pushable = FALSE]
        new == IF grow THEN vs ELSE Append(old, Fresh(Len(buffers) + 1))
        data == Last(new).data
        bs == IF grow THEN buffers ELSE Append(buffers, <<>>)
    IN  /\ items < MaxItems
        /\ buffers' = [bs EXCEPT ![data] = Append(@, items + 1)]
        /\ views' = [views EXCEPT ![v] = [new EXCEPT ![Len(new)].end = Len(buffers'[data])]]
        /\ total' = [total EXCEPT ![v] = @ + 1]
        /\ items' = items + 1
        /\ content' = [content EXCEPT ![v] = Append(@, items + 1)]
        /\ UNCHANGED ops

\* push_back(vector): its items become a view of their own.
PushAll(v, n) ==
    LET new == [i \in 1..n |-> items + i] IN
    /\ items + n <= MaxItems
    /\ buffers' = Append(buffers, new)
    /\ views' = [views EXCEPT ![v] = Append(@, View(0, n, TRUE, Len(buffers) + 1))]
    /\ total' = [total EXCEPT ![v] = @ + n]
    /\ items' = items + n
    /\ content' = [content EXCEPT ![v] = @ \o new]
    /\ UNCHANGED ops

\* cut: the items from idx on go to vector t, which loses what it had. The
\* vectors then share the buffer the cut falls into.
Cut(v, idx, t) ==
    LET vs == views[v]
        l == Locate(vs, 1, idx)
        w == vs[l.view]
        head == [SubSeq(vs, 1, l.view) EXCEPT ![l.view].end = w.begin + l.idx,
                                              ![l.view].pushable = FALSE]
        tail == FoldLeft(Appended, <<>>,
                         <<View(w.begin + l.idx, w.end, TRUE, w.data)>>
                            \o SubSeq(vs, l.view + 1, Len(vs)))
    IN  /\ v # t
        /\ idx < total[v]
        /\ views' = [views EXCEPT ![v] = head, ![t] = tail]
        /\ total' = [total EXCEPT ![v] = idx,
                                  ![t] = FoldLeft(LAMBDA n, x : n + Length(x), 0, tail)]
        /\ content' = [content EXCEPT ![v] = SubSeq(content[v], 1, idx),
                                      ![t] = SubSeq(content[v], idx + 1, Len(content[v]))]
        /\ UNCHANGED <<buffers, items>>

\* merge: the other vector's views are copied, empty ones included, and the
\* other vector keeps them too.
Merge(v, t) ==
    /\ v # t
    /\ views' = [views EXCEPT ![v] = @ \o views[t]]
    /\ total' = [total EXCEPT ![v] = @ + total[t]]
    /\ content' = [content EXCEPT ![v] = @ \o content[t]]
    /\ UNCHANGED <<buffers, items>>

\* t = v.sub(b, e). The walk to the end index runs off the views when e is
\* the vector's size, which the function's own test lets through: no step of
\* the model does.
Sub(v, b, e, t) ==
    LET vs == views[v]
        first == Locate(vs, 1, b)
        last == Locate(vs, first.view, first.idx + e - b)
        w == vs[first.view]
        z == vs[last.view]
        parts == IF first.view = last.view
                 THEN <<View(w.begin + first.idx, w.begin + last.idx, FALSE, w.data)>>
                 ELSE <<View(w.begin + first.idx, w.end, w.pushable, w.data)>>
                      \o SubSeq(vs, first.view + 1, last.view - 1)
                      \o <<View(z.begin, z.begin + last.idx, FALSE, z.data)>>
        new == FoldLeft(Appended, <<>>, parts)
    IN  /\ b < e /\ e < total[v]
        /\ views' = [views EXCEPT ![t] = new]
        /\ total' = [total EXCEPT ![t] = FoldLeft(LAMBDA n, x : n + Length(x), 0, new)]
        /\ content' = [content EXCEPT ![t] = SubSeq(content[v], b + 1, e)]
        /\ UNCHANGED <<buffers, items>>

Shrink(v) ==
    LET all == FlattenSeq([i \in DOMAIN views[v] |->
                  LET w == views[v][i] IN SubSeq(buffers[w.data], w.begin + 1, w.end)])
    IN  /\ buffers' = Append(buffers, all)
        /\ views' = [views EXCEPT ![v] = <<View(0, Len(all), TRUE, Len(buffers) + 1)>>]
        /\ UNCHANGED <<total, items, content>>

ClearAll(v) ==
    /\ buffers' = Append(buffers, <<>>)
    /\ views' = [views EXCEPT ![v] = <<Fresh(Len(buffers) + 1)>>]
    /\ total' = [total EXCEPT ![v] = 0]
    /\ content' = [content EXCEPT ![v] = <<>>]
    /\ UNCHANGED items

Next ==
    \E v, t \in Vector :
        \/ Push(v)
        \/ PushAll(v, 2)
        \/ /\ ops < MaxOps
           /\ ops' = ops + 1
           /\ \/ Merge(v, t) \/ Shrink(v) \/ ClearAll(v)
              \/ \E i \in 0..(total[v] - 1) : Cut(v, i, t)
              \/ \E b, e \in 0..(total[v] - 1) : Sub(v, b, e, t)

Spec == Init /\ [][Next]_vars

-----------------------------------------------------------------------------
(* Iteration: an iterator is a view and a place in its buffer.             *)

begin(v) == LET w == views[v][1] IN [view |-> 1, idx |-> 0, cursor |-> w.begin]
end(v) == LET w == Last(views[v]) IN [view |-> Len(views[v]), idx |-> w.end, cursor |-> w.end]

\* operator++: to the next view at the end of one; the cursor goes to the
\* start of the next view's buffer, not to where the view begins.
RECURSIVE Onward(_, _)
Onward(v, it) ==
    LET w == views[v][it.view] IN
    IF w.end <= w.begin + it.idx /\ it.view # Len(views[v])
    THEN Onward(v, [view |-> it.view + 1, idx |-> 0, cursor |-> 0])
    ELSE it

increment(v, it) == Onward(v, [it EXCEPT !.idx = @ + 1, !.cursor = @ + 1])

Equal(v, i, j) == /\ views[v][i.view].data = views[v][j.view].data
                  /\ i.cursor = j.cursor

RECURSIVE Visited(_, _)
Visited(v, it) ==
    IF Equal(v, it, end(v)) THEN <<>>
    ELSE <<buffers[views[v][it.view].data][it.cursor + 1]>> \o Visited(v, increment(v, it))

\* The vectors over which iterating is meant to work: views that start where
\* their buffers start (but for the first), none empty at the front, no
\* buffer viewed twice.
Plain(v) ==
    /\ total[v] > 0 /\ Length(views[v][1]) > 0
    /\ \A i \in 2..Len(views[v]) : views[v][i].begin = 0
    /\ \A i, j \in DOMAIN views[v] : views[v][i].data = views[v][j].data => i = j

\* Sharing never shows: whatever is pushed, cut, merged and shrunk, in
\* whichever of the vectors that share buffers, operator[] gives for every
\* index what a plain vector would hold there, the size is exact, and
\* iterating over a vector whose views start their buffers visits each item
\* once and in order.
VectorExact ==
    \A v \in Vector :
        /\ total[v] = Len(content[v])
        /\ \A i \in 1..total[v] : At(v, i - 1) = content[v][i]
        /\ Plain(v) => Visited(v, begin(v)) = content[v]
=============================================================================
