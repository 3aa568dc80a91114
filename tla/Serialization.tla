--------------------------- MODULE Serialization ---------------------------
(***************************************************************************)
(* pico_serialize and pico_deserialize of rpc/Archive.h over the four      *)
(* kinds of archive: binary and text, in memory and in a file.  A stream   *)
(* is a sequence of bytes; a type is a record whose k names the overload;  *)
(* a value of a container is the sequence of its items in the order its    *)
(* iterator yields them.  IntBytes and SizeBytes are sizeof(int) and       *)
(* sizeof(size_t), WordBits the bits of the word a vector<bool> packs into.*)
(***************************************************************************)
EXTENDS JsonText

CONSTANTS Samples,      \* the typed values written
          IntBytes, SizeBytes, WordBits,
          MaxQueue    \* values in the stream at one time

VARIABLES kind,   \* the kind of archive
          bytes,  \* what is written and not read
          queue,  \* the typed values written and not read
          cut,    \* the last byte that was written is missing
          got     \* the last value read, with the one it should be

vars == <<kind, bytes, queue, cut, got>>

Text == kind \in {"text", "textfile"}
Gap == 32    \* the blank that ends a number or a string

\* A deserializer returns a value, or FALSE at the end of the stream, or aborts
Got(v, rest) == [ok |-> "yes", v |-> v, rest |-> rest]
Not(s) == [ok |-> "no", v |-> <<>>, rest |-> s]
Abort(s) == [ok |-> "abort", v |-> <<>>, rest |-> s]

Drop(s, n) == SubSeq(s, n + 1, Len(s))

\* read_raw_uncheck of a memory archive: false only when nothing is left
MemoryRead(s, n) == IF n = 0 THEN Got(<<>>, s) ELSE IF s = <<>> THEN Not(s)
                    ELSE IF n > Len(s) THEN Abort(s) ELSE Got(SubSeq(s, 1, n), Drop(s, n))
\* and of a file archive: false when fread falls short
FileRead(s, n) == IF n > Len(s) THEN Not(s) ELSE Got(SubSeq(s, 1, n), Drop(s, n))
read_raw_uncheck(s, n) == IF kind \in {"bin", "text"} THEN MemoryRead(s, n) ELSE FileRead(s, n)

Then(r, F(_, _)) == IF r.ok = "yes" THEN F(r.v, r.rest) ELSE r

\* write_pod, read_pod: the bytes of an integer of w bytes
write_pod(n, w) == [i \in 1..w |-> (n \div 256^(i - 1)) % 256]
PodValue(b, signed) == Wrap(FoldLeftDomain(LAMBDA n, i : n + b[i] * 256^(i - 1), 0, b), signed, 8 * Len(b))
read_pod(s, w, signed) == Then(read_raw_uncheck(s, w), LAMBDA b, rest : Got(PodValue(b, signed), rest))

\* write_arithmetic: the decimal text and a blank
write_arithmetic(n) == IntegerText(n) \o <<Gap>>

\* pico_lexical_cast to the type that is read
CastTo(type, s, count) ==
    CASE type = "int" -> cast(s, count, TRUE, IntBits) [] type = "size" -> cast(s, count, FALSE, LongBits)
      [] type = "bool" -> castBool(s, count)
CastOr(r, s, finish) == IF r.ok THEN Got(r.value, Drop(s, finish + 1)) ELSE Abort(s)
Converted(s, start, finish, type) ==
    CastOr(CastTo(type, Drop(s, start), finish - start), s, finish)
\* A text archive skips blanks, and wants a blank behind the number
MemoryArithmetic(s, type) ==
    LET start == Min({i \in 0..Len(s) : i = Len(s) \/ s[i + 1] # Gap})
        finish == Min({i \in start..Len(s) : i = Len(s) \/ s[i + 1] = Gap})
    IN IF s = <<>> THEN Not(s)
       ELSE IF finish = start \/ finish = Len(s) THEN Abort(s)
       ELSE Converted(s, start, finish, type)
\* A text file archive reads up to the next blank.  When there is none getdelim
\* answers with the size of its buffer, which has room for at least one byte more
\* than was read, so the cast finds the text too short.
Blanks(s) == {i \in DOMAIN s : s[i] = Gap}
FileText(s, n, count, type) == CastOr(CastTo(type, SubSeq(s, 1, n), count), s, n)
\* As it would be if the last byte were taken for the blank without a look.
FileArithmeticBlind(s, type) ==
    LET n == Min(Blanks(s) \cup {Len(s)}) - 1
    IN IF s = <<>> THEN Not(s) ELSE FileText(s, n, n, type)
FileArithmetic(s, type) ==
    IF s = <<>> THEN Not(s)
    ELSE IF Blanks(s) = {} THEN FileText(s, Len(s), Len(s) + 1, type)
    ELSE FileText(s, Min(Blanks(s)) - 1, Min(Blanks(s)) - 1, type)
read_arithmetic(s, type) ==
    IF kind = "text" THEN MemoryArithmetic(s, type) ELSE FileArithmetic(s, type)

-----------------------------------------------------------------------------
PutInt(n) == IF Text THEN write_arithmetic(n) ELSE write_pod(n, IntBytes)
GetInt(s) == IF Text THEN read_arithmetic(s, "int") ELSE read_pod(s, IntBytes, TRUE)

\* int8_t goes through int32_t in text
PutInt8(n) == IF Text THEN write_arithmetic(n) ELSE write_pod(n, 1)
GetInt8(s) == IF Text THEN Then(read_arithmetic(s, "int"), LAMBDA n, rest : Got(Wrap(n, TRUE, 8), rest))
              ELSE read_pod(s, 1, TRUE)

PutSize(n) == IF Text THEN write_arithmetic(n) ELSE write_pod(n, SizeBytes)
GetSize(s) == IF Text THEN read_arithmetic(s, "size") ELSE read_pod(s, SizeBytes, FALSE)

\* A char is itself in all four
PutChar(c) == <<c>>
GetChar(s) == Then(read_raw_uncheck(s, 1), LAMBDA b, rest : Got(b[1], rest))

PutBool(b) == IF Text THEN write_arithmetic(b) ELSE write_pod(b, 1)
GetBool(s) == IF Text THEN read_arithmetic(s, "bool") ELSE read_pod(s, 1, FALSE)

\* Text archives end a string with a blank
PutString(v) == PutSize(Len(v)) \o v \o IF Text THEN <<Gap>> ELSE <<>>
GetStringPlain(s) ==
    Then(GetSize(s), LAMBDA n, rest : read_raw_uncheck(rest, n))
GetStringText(s) ==
    Then(GetStringPlain(s), LAMBDA v, rest : Then(GetChar(rest), LAMBDA c, more : Got(v, more)))
GetString(s) == IF Text THEN GetStringText(s) ELSE GetStringPlain(s)

\* vector<bool>: item by item in text, else packed into words
RECURSIVE PutBools(_)
PutBools(v) == IF v = <<>> THEN <<>> ELSE PutBool(v[1]) \o PutBools(Tail(v))
RECURSIVE PutWords(_)
PutWords(v) ==
    IF v = <<>> THEN <<>>
    ELSE LET n == Min({WordBits, Len(v)})
         IN write_pod(FoldLeftDomain(LAMBDA w, i : w + v[i] * 2^(i - 1), 0, SubSeq(v, 1, n)), WordBits \div 8)
              \o PutWords(Drop(v, n))
PutBits(v) == PutSize(Len(v)) \o IF Text THEN PutBools(v) ELSE PutWords(v)

Bit(w, i) == (w \div 2^(i - 1)) % 2
RECURSIVE GetWords(_, _)
GetWords(s, n) ==
    IF n = 0 THEN Got(<<>>, s)
    ELSE Then(read_pod(s, WordBits \div 8, FALSE), LAMBDA w, rest :
           LET m == Min({WordBits, n})
           IN Then(GetWords(rest, n - m), LAMBDA v, more : Got([i \in 1..m |-> Bit(w, i)] \o v, more)))
RECURSIVE GetBools(_, _)
GetBools(s, n) ==
    IF n = 0 THEN Got(<<>>, s)
    ELSE Then(GetBool(s), LAMBDA b, rest : Then(GetBools(rest, n - 1), LAMBDA v, more : Got(<<b>> \o v, more)))
GetBits(s) == Then(GetSize(s), LAMBDA n, rest : IF Text THEN GetBools(rest, n) ELSE GetWords(rest, n))

-----------------------------------------------------------------------------
(* Containers.  The dispatch on the type is overload resolution.            *)

RECURSIVE pico_serialize(_, _)
RECURSIVE pico_deserialize(_, _)

RECURSIVE PutItems(_, _)
PutItems(t, v) == IF v = <<>> THEN <<>> ELSE pico_serialize(t, v[1]) \o PutItems(t, Tail(v))

\* n items read one after the other
RECURSIVE GetItems(_, _, _)
GetItems(t, s, n) ==
    IF n = 0 THEN Got(<<>>, s)
    ELSE Then(pico_deserialize(t, s), LAMBDA x, rest : Then(GetItems(t, rest, n - 1), LAMBDA v, more : Got(<<x>> \o v, more)))

\* The bytes of a trivially copyable item lie in a vector as write_pod puts them
Trivial(t) == t.k \in {"int", "int8", "char", "bool"}
Width(t) == IF t.k = "int" THEN IntBytes ELSE 1
RawItems(t, v) == PutItems(t, v)
ReadRawItems(t, s, n) ==
    Then(read_raw_uncheck(s, n * Width(t)), LAMBDA b, rest : [GetItems(t, b, n) EXCEPT !.rest = rest])

PutVector(t, v) == PutSize(Len(v)) \o IF ~Text /\ Trivial(t.of) THEN RawItems(t.of, v) ELSE PutItems(t.of, v)
GetVector(t, s) ==
    Then(GetSize(s), LAMBDA n, rest :
        IF ~Text /\ Trivial(t.of) THEN ReadRawItems(t.of, rest, n) ELSE GetItems(t.of, rest, n))

\* std::array has no size in the stream, a C array has one that must agree
PutArray(t, v) == PutItems(t.of, v)
GetArray(t, s) ==
    IF ~Text /\ Trivial(t.of) THEN ReadRawItems(t.of, s, t.n) ELSE GetItems(t.of, s, t.n)
PutCArray(t, v) == PutSize(t.n) \o PutItems(t.of, v)
GetCArray(t, s) == Then(GetSize(s), LAMBDA n, rest : IF n # t.n THEN Not(rest) ELSE GetArray(t, rest))

PutDeque(t, v) == PutSize(Len(v)) \o PutItems(t.of, v)
GetDeque(t, s) == Then(GetSize(s), LAMBDA n, rest : GetItems(t.of, rest, n))

PutPair(t, v) == pico_serialize(t.first, v[1]) \o pico_serialize(t.second, v[2])
GetPair(t, s) ==
    Then(pico_deserialize(t.first, s), LAMBDA x, rest : Then(pico_deserialize(t.second, rest), LAMBDA y, more : Got(<<x, y>>, more)))

\* Keys that repeat are refused: insert().second is false
Distinct(v) == \A i, j \in DOMAIN v : v[i] = v[j] => i = j
PutSet(t, v) == PutSize(Len(v)) \o PutItems(t.of, v)
GetSet(t, s) ==
    Then(GetDeque(t, s), LAMBDA v, rest : IF Distinct(v) THEN Got(v, rest) ELSE Not(rest))
MapItem(t) == [k |-> "pair", first |-> t.key, second |-> t.of]
PutMap(t, v) == PutSize(Len(v)) \o PutItems(MapItem(t), v)
GetMap(t, s) ==
    Then(GetDeque([of |-> MapItem(t)], s), LAMBDA v, rest :
        IF Distinct([i \in DOMAIN v |-> v[i][1]]) THEN Got(v, rest) ELSE Not(rest))

\* The overloads for the other containers do the same over their own iterators.
PutValarray(t, v) == PutDeque(t, v)
GetValarray(t, s) == GetDeque(t, s)
PutUnorderedSet(t, v) == PutSet(t, v)
GetUnorderedSet(t, s) == GetSet(t, s)
PutUnorderedMap(t, v) == PutMap(t, v)
GetUnorderedMap(t, s) == GetMap(t, s)
PutHashTable(t, v) == PutMap(t, v)
GetHashTable(t, s) == GetMap(t, s)

\* The fields of a tuple, or of a struct under PICO_SERIALIZATION, in order
PutTuple(t, v) == FlattenSeq([i \in DOMAIN v |-> pico_serialize(t.fields[i], v[i])])
RECURSIVE GetFields(_, _)
GetFields(fields, s) ==
    IF fields = <<>> THEN Got(<<>>, s)
    ELSE Then(pico_deserialize(fields[1], s), LAMBDA x, rest :
           Then(GetFields(Tail(fields), rest), LAMBDA v, more : Got(<<x>> \o v, more)))

\* An archive in an archive: its bytes, from the start of its buffer
PutArchive(v) == PutSize(Len(v)) \o v
GetArchive(s) == Then(GetSize(s), LAMBDA n, rest : read_raw_uncheck(rest, n))

\* A JSON node is its text
PutJson(v) == PutString(dump(v, 0))
Node(r, rest) == IF r.ok THEN Got(r.v, rest) ELSE Not(rest)
GetJson(s) == Then(GetString(s), LAMBDA text, rest : Node(parse(text, NoCallback), rest))

pico_serialize(t, v) ==
    CASE t.k \in {"int", "enum"} -> PutInt(v) [] t.k = "int8" -> PutInt8(v)
      [] t.k = "char" -> PutChar(v)           [] t.k = "bool" -> PutBool(v)
      [] t.k = "string" -> PutString(v)       [] t.k = "bits" -> PutBits(v)
      [] t.k = "vector" -> PutVector(t, v)    [] t.k = "array" -> PutArray(t, v)
      [] t.k = "carray" -> PutCArray(t, v)    [] t.k = "deque" -> PutDeque(t, v)
      [] t.k = "set" -> PutSet(t, v)          [] t.k = "map" -> PutMap(t, v)
      [] t.k = "uset" -> PutUnorderedSet(t, v) [] t.k = "umap" -> PutUnorderedMap(t, v)
      [] t.k = "valarray" -> PutValarray(t, v) [] t.k = "hash" -> PutHashTable(t, v)
      [] t.k = "pair" -> PutPair(t, v)        [] t.k = "tuple" -> PutTuple(t, v)
      [] t.k = "archive" -> PutArchive(v)     [] t.k = "json" -> PutJson(v)

pico_deserialize(t, s) ==
    CASE t.k \in {"int", "enum"} -> GetInt(s) [] t.k = "int8" -> GetInt8(s)
      [] t.k = "char" -> GetChar(s)           [] t.k = "bool" -> GetBool(s)
      [] t.k = "string" -> GetString(s)       [] t.k = "bits" -> GetBits(s)
      [] t.k = "vector" -> GetVector(t, s)    [] t.k = "array" -> GetArray(t, s)
      [] t.k = "carray" -> GetCArray(t, s)    [] t.k = "deque" -> GetDeque(t, s)
      [] t.k = "set" -> GetSet(t, s)          [] t.k = "map" -> GetMap(t, s)
      [] t.k = "uset" -> GetUnorderedSet(t, s) [] t.k = "umap" -> GetUnorderedMap(t, s)
      [] t.k = "valarray" -> GetValarray(t, s) [] t.k = "hash" -> GetHashTable(t, s)
      [] t.k = "pair" -> GetPair(t, s)        [] t.k = "tuple" -> GetFields(t.fields, s)
      [] t.k = "archive" -> GetArchive(s)     [] t.k = "json" -> GetJson(s)

-----------------------------------------------------------------------------
None == [ok |-> "none"]

Init == /\ kind \in {"bin", "text", "binfile", "textfile"}
        /\ bytes = <<>> /\ queue = <<>> /\ cut = FALSE /\ got = None

\* operator<<
Write(item) ==
    /\ Len(queue) < MaxQueue /\ ~cut
    /\ bytes' = bytes \o pico_serialize(item.type, item.value)
    /\ queue' = Append(queue, item)
    /\ got' = None
    /\ UNCHANGED <<kind, cut>>

\* The end of the stream is lost: a file that was cut short, or a number whose
\* blank somebody left out.
Cut ==
    /\ bytes # <<>> /\ ~cut
    /\ cut' = TRUE /\ bytes' = Front(bytes) /\ got' = None
    /\ UNCHANGED <<kind, queue>>

\* operator>> into the type that was written there
Read ==
    /\ queue # <<>> /\ got.ok \in {"none", "yes"}
    /\ \E r \in {pico_deserialize(Head(queue).type, bytes)} :
         /\ bytes' = r.rest
         /\ got' = [ok |-> r.ok, read |-> r.v, written |-> Head(queue).value]
    /\ queue' = Tail(queue)
    /\ UNCHANGED <<kind, cut>>

Next == (\E item \in Samples : Write(item)) \/ Cut \/ Read

Spec == Init /\ [][Next]_vars

\* What operator<< put into an archive operator>> takes out again, value by
\* value and to the last byte, in each of the four encodings and for every
\* order of types in the stream: no encoding runs into the next.  From a stream
\* that lost its last byte a value is read as it was written or refused, and
\* the one that lost the byte is refused.
ReadsBack ==
    /\ got.ok = "yes" => got.read = got.written
    /\ ~cut => got.ok \in {"none", "yes"} /\ (queue = <<>> => bytes = <<>>)
    /\ cut /\ queue = <<>> => got.ok # "yes"
=============================================================================
