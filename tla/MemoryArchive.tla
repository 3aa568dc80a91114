--------------------------- MODULE MemoryArchive ---------------------------
(***************************************************************************)
(* The buffers behind BinaryArchive and TextArchive (rpc/Archive.h): an    *)
(* archive is four pointers into one block and a deleter, and archives     *)
(* pass blocks to each other by copy, move, view, set_buffer and release.  *)
(* A block is a heap cell that remembers which allocator made it; pointers *)
(* are offsets from the start of the block.  Allocation is the allocators' *)
(* contract: a fresh block each time, freed once, by the same allocator.   *)
(***************************************************************************)
EXTENDS Integers, FiniteSets, FiniteSetsExt, SequencesExt

CONSTANTS Archive,    \* the archives of the program
          MaxBlocks,  \* blocks ever allocated
          MaxOps,     \* calls
          Grain,      \* capacities are rounded up to this (64 in the code)
          Null        \* the null pointer

VARIABLES ar,      \* [Archive -> the fields of the archive]
          heap,    \* sequence of the blocks allocated so far
          held,    \* what release_shared handed out and is not dropped yet
          shadow,  \* ghost: what each archive holds by its documentation
          strange, \* ghost: archives whose content may be another's or lost
          loose,   \* ghost: a block was allocated under another deleter
          faults,  \* ghost: deletions of a dead block or by a wrong allocator
          ops

vars == <<ar, heap, held, shadow, strange, loose, faults, ops>>

Kind(msg) == IF msg THEN "rpc" ELSE "pico"

Block(bytes, by) == [bytes |-> bytes, by |-> by, live |-> TRUE]

Fields(buf, cur, end, cap) == [buf |-> buf, cur |-> cur, end |-> end, cap |-> cap]

\* The constructor MemoryArchive(is_msg).
Fresh(msg) == Fields(Null, 0, 0, 0) @@ [msg |-> msg, dflt |-> TRUE, del |-> Kind(msg)]

Init == /\ \E msg \in [Archive -> BOOLEAN] : ar = [a \in Archive |-> Fresh(msg[a])]
        /\ heap = <<>> /\ held = {} /\ faults = 0 /\ ops = 0
        /\ shadow = [a \in Archive |-> <<>>]
        /\ strange = {} /\ loose = FALSE

Bytes(x, h) == IF x.buf = Null THEN <<>> ELSE SubSeq(h[x.buf].bytes, 1, x.end)
Pad(s, n) == [i \in 1..n |-> IF i <= Len(s) THEN s[i] ELSE 0]

\* What a deleter does to the block: noop deleters leave it alone.
Wrong(del, buf, h) == buf # Null /\ del # "none" /\ (~h[buf].live \/ h[buf].by # del)
Deleted(del, buf, h) ==
    IF buf = Null \/ del = "none" THEN h ELSE [h EXCEPT ![buf].live = FALSE]

-----------------------------------------------------------------------------
(* The steps of the operations, as functions of a state [x, h, f]: the     *)
(* archive, the heap and the number of faulty deletions.                   *)

State(x, h, f) == [x |-> x, h |-> h, f |-> f]

reset(s) ==
    State(Fields(Null, 0, 0, 0) @@ s.x, Deleted(s.x.del, s.x.buf, s.h),
          s.f + IF Wrong(s.x.del, s.x.buf, s.h) THEN 1 ELSE 0)

set_default_deleter(x) == [x EXCEPT !.dflt = TRUE, !.del = Kind(x.msg)]

Round(n) == ((n + Grain - 1) \div Grain) * Grain

\* reallocate keeps the bytes of the old block and frees it without asking
\* the deleter.  The other path copies the bytes and then resets the archive:
\* the offsets it computes next come from pointers reset has set to null.
reserve(s, want) ==
    LET x == s.x
        cap == Round(want)
        new == Len(s.h) + 1
        content == IF x.buf = Null THEN <<>> ELSE s.h[x.buf].bytes
        copy == Block(Pad(content, cap), Kind(x.msg))
    IN IF want <= x.cap THEN s
       ELSE IF x.dflt
       THEN State([x EXCEPT !.buf = new, !.cap = cap],
                  Append(Deleted(IF x.buf = Null THEN "none" ELSE "realloc", x.buf, s.h), copy), s.f)
       ELSE LET r == reset(s)
            IN State(set_default_deleter([r.x EXCEPT !.buf = new, !.cap = cap]),
                     Append(r.h, [copy EXCEPT !.bytes = Pad(SubSeq(content, 1, x.end), cap)]), r.f)

prepare_write(s, n) ==
    IF n > s.x.cap - s.x.end THEN reserve(s, Max({s.x.cap * 2, s.x.end + n})) ELSE s

write_raw(s, bytes) ==
    LET r == prepare_write(s, Len(bytes))
        block == r.h[r.x.buf]
        into == [i \in DOMAIN block.bytes |->
                    IF i > r.x.end /\ i <= r.x.end + Len(bytes) THEN bytes[i - r.x.end]
                    ELSE block.bytes[i]]
    IN IF bytes = <<>> THEN s
       ELSE State([r.x EXCEPT !.end = @ + Len(bytes)],
                  [r.h EXCEPT ![r.x.buf].bytes = into], r.f)

resize(s, n) ==
    LET r == IF n > s.x.cap THEN reserve(s, Max({s.x.cap * 2, n})) ELSE s
    IN [r EXCEPT !.x.end = n, !.x.cur = Min({@, n})]

\* The move assignment forgets the source's deleter and nothing else of it.
ReleaseKept(x) == [x EXCEPT !.end = 0, !.cur = 0]
release(x) == Fields(Null, 0, 0, 0) @@ [x EXCEPT !.del = "none"]

-----------------------------------------------------------------------------
Sharing(a) == {b \in Archive \ {a} : ar[b].buf # Null /\ ar[b].buf = ar[a].buf}

\* reserve allocates for a default archive without setting the deleter: after
\* release it frees nothing, after the copy of an empty archive it may be of
\* the other allocator.
Stray(x, y) == y.buf # x.buf /\ y.buf # Null /\ x.dflt /\ y.dflt /\ y.del # Kind(y.msg)

\* One call: archive a becomes s.x, and the ghosts follow.
Step(a, s, content, odd) ==
    /\ ops < MaxOps
    /\ Len(s.h) <= MaxBlocks
    /\ ar' = [ar EXCEPT ![a] = s.x]
    /\ heap' = s.h
    /\ faults' = s.f
    /\ shadow' = [shadow EXCEPT ![a] = content]
    /\ strange' = odd
    /\ loose' = (loose \/ Stray(ar[a], s.x))
    /\ ops' = ops + 1

Now(a) == State(ar[a], heap, faults)

\* Growing out of a buffer that is not the archive's own allocation loses its
\* content, and writers that share a block overwrite each other.
Grows(a, s) == s.x.buf # ar[a].buf
Oddities(a, s) ==
    strange \cup Sharing(a) \cup
        IF Grows(a, s) /\ ~ar[a].dflt /\ ar[a].end > 0 THEN {a} ELSE {}

\* The bytes a call brings, unlike those of any other call.
Data(n) == [i \in 1..n |-> ops + 1]

Write(a) ==
    /\ \E n \in 1..2 :
        LET bytes == Data(n)
            s == write_raw(Now(a), bytes)
        IN Step(a, s, shadow[a] \o bytes, Oddities(a, s))
    /\ UNCHANGED held

Resize(a) ==
    /\ \E n \in 0..3 :
        LET s == resize(Now(a), n)
        IN Step(a, s, Pad(SubSeq(shadow[a], 1, Min({n, Len(shadow[a])})), n), Oddities(a, s))
    /\ UNCHANGED held

\* read_raw: an over-long read aborts in prepare_read.
Read(a) ==
    /\ \E n \in 1..2 :
        /\ n <= ar[a].end - ar[a].cur
        /\ Step(a, [Now(a) EXCEPT !.x.cur = @ + n], shadow[a], strange)
    /\ UNCHANGED held

\* read_back takes bytes off the end.
read_back(a) ==
    /\ ar[a].end > ar[a].cur
    /\ Step(a, [Now(a) EXCEPT !.x.end = @ - 1], Front(shadow[a]), strange)
    /\ UNCHANGED held

rewind(a) ==
    /\ Step(a, [Now(a) EXCEPT !.x.cur = 0], shadow[a], strange)
    /\ UNCHANGED held

clear(a) ==
    /\ Step(a, [Now(a) EXCEPT !.x.cur = 0, !.x.end = 0], <<>>, strange)
    /\ UNCHANGED held

\* reset also ends the life of an archive; what shares the block dangles.
Reset(a) ==
    /\ Step(a, reset(Now(a)), <<>>, strange \cup Sharing(a))
    /\ UNCHANGED held

\* A buffer of the caller's, which the archive owns or only borrows.
set_buffer(a) ==
    /\ \E length \in 0..1, own \in BOOLEAN :
        LET r == reset(Now(a))
            bytes == Pad(Data(length), 1)
            x == Fields(Len(r.h) + 1, 0, length, 1)
                   @@ [msg |-> r.x.msg, dflt |-> FALSE, del |-> IF own THEN "user" ELSE "none"]
        IN Step(a, State(x, Append(r.h, Block(bytes, "user")), r.f),
                SubSeq(bytes, 1, length), (strange \ {a}) \cup Sharing(a))
    /\ UNCHANGED held

\* assign keeps a block that is large enough, and its deleter.
assign(a) ==
    /\ \E n \in 1..2 :
        LET bytes == Data(n)
            r == reset(Now(a))
            s == IF ar[a].buf # Null /\ n <= ar[a].cap THEN Now(a)
                 ELSE State(set_default_deleter([r.x EXCEPT !.buf = Len(r.h) + 1, !.cap = n]),
                            Append(r.h, Block(bytes, Kind(r.x.msg))), r.f)
            into == [i \in DOMAIN s.h[s.x.buf].bytes |->
                        IF i <= n THEN bytes[i] ELSE s.h[s.x.buf].bytes[i]]
        IN Step(a, State([s.x EXCEPT !.cur = 0, !.end = n],
                         [s.h EXCEPT ![s.x.buf].bytes = into], s.f),
                bytes, IF Grows(a, s) THEN (strange \ {a}) \cup Sharing(a)
                       ELSE strange \cup Sharing(a))
    /\ UNCHANGED held

\* The copy assignment: an empty source leaves the target its old deleter.
Copy(a, b) ==
    /\ a # b
    /\ LET r == reset(Now(a))
           y == [r.x EXCEPT !.msg = ar[b].msg]
           cap == ar[b].cap
       IN IF cap = 0
          THEN Step(a, State(y, r.h, r.f), <<>>, strange \cup Sharing(a))
          ELSE Step(a, State(set_default_deleter(
                                 [y EXCEPT !.buf = Len(r.h) + 1, !.cur = ar[b].cur,
                                           !.end = ar[b].end, !.cap = cap]),
                             Append(r.h, Block(Pad(Bytes(ar[b], heap), cap), Kind(ar[b].msg))), r.f),
                    shadow[b], ((strange \ {a}) \cup Sharing(a))
                               \cup IF b \in strange THEN {a} ELSE {})
    /\ UNCHANGED held

\* The move assignment hands over the block and its deleter.
Move(a, b) ==
    /\ a # b
    /\ ops < MaxOps
    /\ LET r == reset(Now(a))
       IN /\ ar' = [ar EXCEPT ![a] = ar[b], ![b] = release(ar[b])]
          /\ heap' = r.h
          /\ faults' = r.f
          /\ loose' = loose
          /\ strange' = ((strange \ {a}) \cup (Sharing(a) \ {b}))
                           \cup IF b \in strange \cup Sharing(a) THEN {a, b} ELSE {}
    /\ shadow' = [shadow EXCEPT ![a] = shadow[b], ![b] = <<>>]
    /\ ops' = ops + 1
    /\ UNCHANGED held

\* b = a.view(): the same block without the right to free it.
view(a, b) ==
    /\ a # b
    /\ ar[a].buf # Null
    /\ ar[b].buf # ar[a].buf
    /\ LET r == reset(Now(b))
       IN Step(b, State([ar[a] EXCEPT !.dflt = FALSE, !.del = "none"], r.h, r.f),
               shadow[a], ((strange \ {b}) \cup Sharing(b))
                             \cup IF a \in strange THEN {b} ELSE {})
    /\ UNCHANGED held

\* release_shared, as RpcMessage::initialize takes a request's buffer.
release_shared(a) ==
    /\ ar[a].buf # Null
    /\ Step(a, State(release(ar[a]), heap, faults), <<>>, strange)
    /\ held' = held \cup {[buf |-> ar[a].buf, del |-> ar[a].del]}

Drop ==
    \E p \in held :
        /\ held' = held \ {p}
        /\ heap' = Deleted(p.del, p.buf, heap)
        /\ faults' = faults + IF Wrong(p.del, p.buf, heap) THEN 1 ELSE 0
        /\ strange' = strange \cup {a \in Archive : ar[a].buf = p.buf}
        /\ UNCHANGED <<ar, shadow, loose, ops>>

Next == \/ \E a \in Archive : \/ Write(a) \/ Resize(a) \/ Read(a) \/ read_back(a) \/ rewind(a)
                              \/ clear(a) \/ Reset(a) \/ set_buffer(a) \/ assign(a)
                              \/ release_shared(a)
        \/ \E a, b \in Archive : Copy(a, b) \/ Move(a, b) \/ view(a, b)
        \/ Drop

Spec == Init /\ [][Next]_vars

-----------------------------------------------------------------------------
Holds(a) ==
    /\ Len(shadow[a]) = ar[a].end
    /\ \A i \in 1..ar[a].end : shadow[a][i] \in {0, Bytes(ar[a], heap)[i]}

Owners(b) ==
    Cardinality({a \in Archive : ar[a].buf = b /\ ar[a].del # "none"})
      + Cardinality({p \in held : p.buf = b /\ p.del # "none"})

\* An archive holds exactly what was written, assigned, copied or moved into
\* it, with its cursor inside, whatever block it lives in, except where it
\* shares a block with a writer or grew out of a filled buffer not its own;
\* and until a block is allocated under a stale deleter every live block of
\* the allocators has one owner, and is freed once, by its own allocator.
ArchiveSound ==
    /\ \A a \in Archive \ strange : Holds(a)
    /\ \A a \in Archive : ar[a].cur <= ar[a].end /\ ar[a].end <= ar[a].cap
    /\ ~loose =>
        /\ faults = 0
        /\ \A b \in 1..Len(heap) :
            IF ~heap[b].live THEN Owners(b) = 0
            ELSE IF heap[b].by = "user" THEN Owners(b) <= 1 ELSE Owners(b) = 1
=============================================================================
