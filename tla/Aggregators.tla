----------------------------- MODULE Aggregators -----------------------------
(***************************************************************************)
(* What the aggregators of src/accumulator keep of the values merged into  *)
(* them. An accumulator splits the stream of values over writers, buffers  *)
(* and requests in ways nobody controls; the answer must not depend on it. *)
(* Values are a small set of numbers; the integral types start a maximum   *)
(* at their lowest value, the floating ones at numeric_limits::min(), the  *)
(* smallest positive number, here 1 in units of that number.               *)
(***************************************************************************)
EXTENDS Integers, Sequences, FiniteSetsExt, SequencesExt

CONSTANTS Value,     \* values written, in -Bound .. Bound
          Key,       \* keys of AvgAggregator<VAL, KEY>
          Bound,     \* the largest value of the type, and minus the lowest
          MaxLen     \* bound: values written

SmallestOf(type) == IF type = "integral" THEN -Bound ELSE 1

-----------------------------------------------------------------------------
SumInit == 0
SumMerge(a, b) == a + b

AvgInit == [value |-> 0, count |-> 0]
merge_value_internal(a, val, cnt) == [value |-> a.value + val, count |-> a.count + cnt]
AvgMergeValue(a, v) == merge_value_internal(a, v, 1)
AvgMerge(a, b) == merge_value_internal(a, b.value, b.count)

\* The keyed average: an unordered_map, default-constructed on first use.
KeyedInit == <<>>
Slot(a, k) == IF k \in DOMAIN a THEN a[k] ELSE AvgInit
KeyedMergeValue(a, kv) ==
    [k \in DOMAIN a \cup {kv[1]} |->
        IF k = kv[1] THEN AvgMergeValue(Slot(a, k), kv[2]) ELSE a[k]]
KeyedMerge(a, b) ==
    [k \in DOMAIN a \cup DOMAIN b |->
        IF k \in DOMAIN b THEN AvgMerge(Slot(a, k), b[k]) ELSE a[k]]

MaxInit(type) == SmallestOf(type)
MaxMerge(a, v) == IF v > a THEN v ELSE a

MinInit == Bound
MinMerge(a, v) == IF v < a THEN v ELSE a

TimerInit(type) ==
    [sum |-> 0, sum2 |-> 0, min |-> Bound, max |-> SmallestOf(type), count |-> 0]
TimerMergeValue(a, v) ==
    [sum |-> a.sum + v, sum2 |-> a.sum2 + v * v,
     min |-> IF a.min > v THEN v ELSE a.min, max |-> IF a.max < v THEN v ELSE a.max,
     count |-> a.count + 1]

\* (Mutant: merging an aggregator counts it as one value.)
TimerMergeOne(a, b) ==
    [sum |-> a.sum + b.sum, sum2 |-> a.sum2 + b.sum2,
     min |-> IF a.min > b.min THEN b.min ELSE a.min,
     max |-> IF a.max < b.max THEN b.max ELSE a.max,
     count |-> a.count + 1]

TimerMerge(a, b) ==
    [sum |-> a.sum + b.sum, sum2 |-> a.sum2 + b.sum2,
     min |-> IF a.min > b.min THEN b.min ELSE a.min,
     max |-> IF a.max < b.max THEN b.max ELSE a.max,
     count |-> a.count + b.count]

\* One aggregator of each class, and a value and an aggregator merged into it.
Fresh(type) == [sum |-> SumInit, avg |-> AvgInit, keyed |-> KeyedInit,
                max |-> MaxInit(type), min |-> MinInit, timer |-> TimerInit(type)]
WithValue(a, kv) ==
    [sum |-> SumMerge(a.sum, kv[2]), avg |-> AvgMergeValue(a.avg, kv[2]),
     keyed |-> KeyedMergeValue(a.keyed, kv), max |-> MaxMerge(a.max, kv[2]),
     min |-> MinMerge(a.min, kv[2]),
     timer |-> TimerMergeValue(a.timer, kv[2])]
Merged(a, b) ==
    [sum |-> SumMerge(a.sum, b.sum), avg |-> AvgMerge(a.avg, b.avg),
     keyed |-> KeyedMerge(a.keyed, b.keyed), max |-> MaxMerge(a.max, b.max),
     min |-> MinMerge(a.min, b.min),
     timer |-> TimerMerge(a.timer, b.timer)]

Direct(type, s) == FoldLeft(WithValue, Fresh(type), s)

-----------------------------------------------------------------------------
VARIABLES type, stream

vars == <<type, stream>>

Init == type \in {"integral", "floating"} /\ stream = <<>>

Observe ==
    /\ Len(stream) < MaxLen
    /\ \E k \in Key, v \in Value : stream' = Append(stream, <<k, v>>)
    /\ UNCHANGED type

Next == Observe

Spec == Init /\ [][Next]_vars

-----------------------------------------------------------------------------
\* However a stream of values is cut into two parts, collected in two
\* aggregators and merged, in either order, and whichever empty aggregators
\* are merged in between, the result is that of one aggregator that saw them
\* all; and it is the sum, the count, the sums per key and, where the type
\* is integral or a value is positive, the extremes of the stream.
SplitsAgree ==
    /\ \A i \in 0..Len(stream) :
           LET a == Direct(type, SubSeq(stream, 1, i))
               b == Direct(type, SubSeq(stream, i + 1, Len(stream)))
           IN  /\ Merged(a, b) = Direct(type, stream)
               /\ Merged(Merged(Fresh(type), b), a) = Direct(type, stream)
    /\ LET all == Direct(type, stream)
           values == {stream[i][2] : i \in DOMAIN stream}
           plus(acc, kv) == acc + kv[2]
       IN  /\ all.timer.sum = FoldLeft(plus, 0, stream) /\ all.timer.count = Len(stream)
           /\ \A k \in DOMAIN all.keyed :
                  LET mine == SelectSeq(stream, LAMBDA kv : kv[1] = k)
                  IN  all.keyed[k] = [value |-> FoldLeft(plus, 0, mine), count |-> Len(mine)]
           /\ values # {} /\ (type = "integral" \/ Max(values) > 0) =>
                  all.max = Max(values) /\ all.timer.max = Max(values)
           /\ values # {} => all.min = Min(values) /\ all.timer.min = Min(values)
=============================================================================
