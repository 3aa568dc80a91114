------------------------------ MODULE JsonText ------------------------------
(***************************************************************************)
(* What JSON is made of (PicoJsonNode.h, with the casts of                 *)
(* pico_lexical_cast.h from a text to a number). The scanner, class lexer: *)
(* the automaton re2c generated, label by label, with its one marker to    *)
(* fall back to, and what the parser takes out of a token. The values,     *)
(* basic_json, and the members that read and change one. JSON pointers,    *)
(* flatten, unflatten, patch and diff. A value as text: dump, compact or   *)
(* indented, and the recursive descent parser with its filter callback.    *)
(*                                                                         *)
(* A text, a string and a key of an object are sequences of bytes; a       *)
(* pointer is the sequence of its reference tokens; a float is a number of *)
(* halves, so that floats that are integers and floats that are not both   *)
(* occur. A member that changes a value gives the new value v and what it  *)
(* returns: true, false or "throw". Resolving a pointer gives a value or   *)
(* an Exception; "abort" stands for pico_lexical_cast_check and assert,    *)
(* which stop the process. A callback is the set of the events it answers  *)
(* false to; the depth it is told is left out. A syntax error is [ok |->   *)
(* FALSE].                                                                 *)
(***************************************************************************)
EXTENDS Integers, Sequences, FiniteSetsExt, SequencesExt

CONSTANTS IntWidth,          \* bits of number_integer_t and number_unsigned_t
          LongBits, IntBits  \* bits of a long, which strtol yields, and of int32_t

Quote == 34
Backslash == 92
Plus == 43
Minus == 45
Dot == 46
Zero == 48
Ord == [a |-> 97, b |-> 98, e |-> 101, f |-> 102, l |-> 108, n |-> 110, r |-> 114, s |-> 115,
        t |-> 116, u |-> 117]
Digit == 48..57
HexDigit == Digit \cup 65..70 \cup 97..102
Blank == {32, 9, 10, 13}
Control == 0..31
Exp == {69, 101}
At(s, i) == IF i <= Len(s) THEN s[i] ELSE 0

-----------------------------------------------------------------------------
\* What a label does with the next character: go on in a state, take it and end
\* with a token, end before it, or fall back to the marker.
Go(q) == [do |-> "go", to |-> q]
Take(t) == [do |-> "take", to |-> t]
End(t) == [do |-> "end", to |-> t]
Back == [do |-> "back", to |-> "none"]

Punctuation == [c \in {0, 44, 58, 91, 93, 123, 125} |->
  CASE c = 0 -> "end_of_input" [] c = 44 -> "value_separator" [] c = 58 -> "name_separator"
    [] c = 91 -> "begin_array" [] c = 93 -> "end_array" [] c = 123 -> "begin_object"
    [] c = 125 -> "end_object"]
Start(c) ==
  CASE c \in DOMAIN Punctuation -> Take(Punctuation[c])
    [] c = Quote -> Go("9") [] c = Minus -> Go("12") [] c = Zero -> Go("13")
    [] c \in Digit \ {Zero} -> Go("15")
    [] c = Ord.f -> Go("23") [] c = Ord.n -> Go("24") [] c = Ord.t -> Go("25") [] c = 239 -> Go("30")
    [] OTHER -> Take("parse_error")

\* Numbers: the integer part, the point, the fraction, the exponent
Integer(q, c) ==
  CASE q = "12" -> IF c = Zero THEN Go("13") ELSE IF c \in Digit THEN Go("15") ELSE End("parse_error")
    [] q = "15" /\ c \in Digit -> Go("15")
    [] c = Dot -> Go("37") [] c \in Exp -> Go("38") [] OTHER -> End("value_number")
Point(q, c) == IF c \in Digit THEN Go("44") ELSE Back
Fraction(q, c) ==
  IF c \in Digit THEN Go("44") ELSE IF c \in Exp THEN Go("38") ELSE End("value_number")
ExponentSign(q, c) ==
  IF c \in {Plus, Minus} THEN Go("46") ELSE IF c \in Digit THEN Go("47") ELSE Back
\* As the exponent's digits would be if a sign could stand alone.
ExponentLoose(q, c) == IF c \in Digit THEN Go("47") ELSE End("value_number")
Exponent(q, c) ==
  IF c \in Digit THEN Go("47") ELSE IF q = "47" THEN End("value_number") ELSE Back

\* Strings
StringBody(q, c) ==
  CASE q = "9" /\ c \in Control -> End("parse_error")
    [] c \in Control -> Back [] c = Quote -> Take("value_string") [] c = Backslash -> Go("36")
    [] OTHER -> Go("31")
Escaped == [c \in {Quote, Backslash, 47, Ord.b, Ord.f, Ord.n, Ord.r, Ord.t} |->
  CASE c = Ord.b -> 8 [] c = Ord.f -> 12 [] c = Ord.n -> 10 [] c = Ord.r -> 13 [] c = Ord.t -> 9
    [] OTHER -> c]
Escape(q, c) == IF c = Ord.u THEN Go("43") ELSE IF c \in DOMAIN Escaped THEN Go("31") ELSE Back
Hex1(q, c) == IF c \in HexDigit THEN Go("54") ELSE Back
Hex2(q, c) == IF c \in HexDigit THEN Go("60") ELSE Back
Hex3(q, c) == IF c \in HexDigit THEN Go("63") ELSE Back
Hex4(q, c) == IF c \in HexDigit THEN Go("31") ELSE Back

\* Literals and the byte order mark, by their second, third and later letters
Letter2(q, c) ==
  CASE q = "23" /\ c = Ord.a -> Go("39") [] q = "24" /\ c = Ord.u -> Go("40")
    [] q = "25" /\ c = Ord.r -> Go("41") [] q = "30" /\ c = 187 -> Go("42")
    [] OTHER -> End("parse_error")
Letter3(q, c) ==
  CASE q = "39" /\ c = Ord.l -> Go("49") [] q = "40" /\ c = Ord.l -> Go("50")
    [] q = "41" /\ c = Ord.u -> Go("51") [] q = "42" /\ c = 191 -> Take("skip")
    [] OTHER -> Back
Letter4(q, c) ==
  CASE q = "49" /\ c = Ord.s -> Go("55") [] q = "50" /\ c = Ord.l -> Take("literal_null")
    [] q = "51" /\ c = Ord.e -> Take("literal_true") [] OTHER -> Back
Letter5(q, c) == IF c = Ord.e THEN Take("literal_false") ELSE Back

Delta(q, c) ==
  CASE q = "start" -> Start(c)
    [] q \in {"12", "13", "15"} -> Integer(q, c) [] q = "37" -> Point(q, c)
    [] q = "44" -> Fraction(q, c) [] q = "38" -> ExponentSign(q, c) [] q \in {"46", "47"} -> Exponent(q, c)
    [] q \in {"9", "31"} -> StringBody(q, c) [] q = "36" -> Escape(q, c)
    [] q = "43" -> Hex1(q, c) [] q = "54" -> Hex2(q, c) [] q = "60" -> Hex3(q, c)
    [] q = "63" -> Hex4(q, c)
    [] q \in {"23", "24", "25", "30"} -> Letter2(q, c)
    [] q \in {"39", "40", "41", "42"} -> Letter3(q, c)
    [] q \in {"49", "50", "51"} -> Letter4(q, c) [] q = "55" -> Letter5(q, c)

\* Labels that set m_marker, and what falling back to it accepts (yyaccept)
Marks == {"9", "13", "15", "23", "24", "25", "30", "44"}
Accepts(q) == IF q \in {"13", "15", "44"} THEN "value_number" ELSE "parse_error"

RECURSIVE Run(_, _, _, _, _)
Follow(d, s, i, marker, accept) ==
  CASE d.do = "take" -> [token |-> d.to, cursor |-> i + 1]
    [] d.do = "end" -> [token |-> d.to, cursor |-> i]
    [] d.do = "back" -> [token |-> accept, cursor |-> marker]
    [] OTHER -> IF d.to \in Marks THEN Run(s, i + 1, d.to, i + 1, Accepts(d.to))
                ELSE Run(s, i + 1, d.to, marker, accept)
Run(s, i, q, marker, accept) == Follow(Delta(q, At(s, i)), s, i, marker, accept)

\* scan from m_cursor = i: blanks and byte order marks are skipped
RECURSIVE scan(_, _)
Scanned(r, s, i) ==
  IF r.token = "skip" THEN scan(s, r.cursor) ELSE [token |-> r.token, start |-> i, cursor |-> r.cursor]
scan(s, i) ==
  IF At(s, i) \in Blank THEN scan(s, i + 1) ELSE Scanned(Run(s, i, "start", i, "parse_error"), s, i)

-----------------------------------------------------------------------------
Throw == <<-1>>  \* an exception, no byte sequence
\* to_unicode: a code point, or two surrogates, in UTF-8
to_unicode(c1, c2) ==
  LET c == IF c1 \in 55296..56319 THEN c1 * 1024 + c2 - 56613888 ELSE c1
      Tail6(n) == 128 + ((c \div n) % 64)
  IN  IF c1 \in 55296..56319 /\ c2 \notin 56320..57343 THEN Throw
      ELSE IF c < 128 THEN <<c>>
      ELSE IF c < 2048 THEN <<192 + ((c \div 64) % 32), Tail6(1)>>
      ELSE IF c < 65536 THEN <<224 + ((c \div 4096) % 16), Tail6(64), Tail6(1)>>
      ELSE IF c < 1114112 THEN <<240 + ((c \div 262144) % 8), Tail6(4096), Tail6(64), Tail6(1)>>
      ELSE Throw


HexValue(c) == IF c \in Digit THEN c - 48 ELSE IF c \in 65..70 THEN c - 55 ELSE c - 87
Hex(s, i) == HexValue(s[i]) * 4096 + HexValue(s[i + 1]) * 256 + HexValue(s[i + 2]) * 16 + HexValue(s[i + 3])

\* get_string: the characters i..(last - 1) of a string token, unescaped
RECURSIVE Unescape(_, _, _)
Unescape(s, i, last) ==
  LET Then(out, next) ==
        IF out = Throw THEN Throw
        ELSE LET rest == Unescape(s, next, last) IN IF rest = Throw THEN Throw ELSE out \o rest
  IN  IF i >= last THEN <<>>
      ELSE IF s[i] # Backslash THEN Then(<<s[i]>>, i + 1)
      ELSE IF s[i + 1] # Ord.u THEN Then(<<Escaped[s[i + 1]]>>, i + 2)
      ELSE LET c1 == Hex(s, i + 2)
           IN  IF c1 \notin 55296..56319 THEN Then(to_unicode(c1, 0), i + 6)
               ELSE IF At(s, i + 6) # Backslash \/ At(s, i + 7) # Ord.u THEN Throw
               ELSE Then(to_unicode(c1, Hex(s, i + 8)), i + 12)
get_string(s, start, cursor) == Unescape(s, start + 1, cursor - 1)

\* get_number: an integer as long as it fits, else a float (its value is strtod's)
RECURSIVE Accumulate(_, _, _, _)
Accumulate(t, i, value, max) ==
  IF i > Len(t) THEN [type |-> "integral", value |-> value]
  ELSE IF t[i] \notin Digit THEN [type |-> "number_float", value |-> 0]
  ELSE LET temp == (value * 10 + t[i] - 48) % 2^IntWidth
       IN  IF temp < value \/ temp > max THEN [type |-> "number_float", value |-> 0]
           ELSE Accumulate(t, i + 1, temp, max)
NumberType(r, neg) ==
  CASE r.type = "number_float" -> r
    [] r.type = "integral" /\ neg -> [type |-> "number_integer", value |-> -r.value]
    [] OTHER -> [type |-> "number_unsigned", value |-> r.value]
get_number(t) ==
  IF t[1] = Minus THEN NumberType(Accumulate(t, 2, 0, 2^(IntWidth - 1)), TRUE)
  ELSE NumberType(Accumulate(t, 1, 0, 2^IntWidth - 1), FALSE)

\* escape_string, what dump writes between the quotes
HexChar(n) == IF n < 10 THEN 48 + n ELSE 87 + n
EscapeChar(c) ==
  IF \E e \in DOMAIN Escaped : Escaped[e] = c /\ e # 47
  THEN <<Backslash, CHOOSE e \in DOMAIN Escaped : Escaped[e] = c /\ e # 47>>
  ELSE IF c \in Control THEN <<Backslash, Ord.u, 48, 48, HexChar(c \div 16), HexChar(c % 16)>>
  ELSE <<c>>
RECURSIVE escape_string(_)
escape_string(s) == IF s = <<>> THEN <<>> ELSE EscapeChar(Head(s)) \o escape_string(Tail(s))

-----------------------------------------------------------------------------
\* pico_lexical_cast.h: a whole string (count = 0) or its first count characters
\* to an integer or a bool; a failed cast (an exception) is Fail.
Space == 9..13 \cup {32}
Decimal == 48..57
CStr(s) == SubSeq(s, 1, Min({i \in 1..Len(s) : s[i] = 0} \cup {Len(s) + 1}) - 1)
Fail == [ok |-> FALSE, value |-> 0]
Done(n) == [ok |-> TRUE, value |-> n]

Lowest(signed, w) == IF signed THEN -2^(w - 1) ELSE 0
Highest(signed, w) == IF signed THEN 2^(w - 1) - 1 ELSE 2^w - 1
\* Conversion to an integer type of w bits
Wrap(n, signed, w) == IF signed THEN ((n + 2^(w - 1)) % 2^w) - 2^(w - 1) ELSE n % 2^w

\* strtol and strtoul in base 10: the value, clipped to a long, the number of
\* characters used and whether errno is ERANGE.
RECURSIVE DecimalValue(_)
DecimalValue(w) == IF w = <<>> THEN 0 ELSE DecimalValue(SubSeq(w, 1, Len(w) - 1)) * 10 + w[Len(w)] - 48
Sign(s, signs) == IF s # <<>> /\ s[1] \in signs THEN 1 ELSE 0
SignedValue(s, sign, end) ==
  DecimalValue(SubSeq(s, sign + 1, end)) * (IF sign = 1 /\ s[1] = 45 THEN -1 ELSE 1)
DigitsEnd(s, sign) == Max({i \in sign..Len(s) : \A j \in (sign + 1)..i : s[j] \in Decimal} \cup {sign})
Clipped(n, lowest, highest, end) ==
  [value |-> IF n < lowest THEN lowest ELSE IF n > highest THEN highest ELSE n,
   pos |-> end, range |-> n \notin lowest..highest]
StrtoEnd(s, signed, sign, end) ==
  IF end = sign THEN [value |-> 0, pos |-> 0, range |-> FALSE]
  ELSE Clipped(SignedValue(s, sign, end), Lowest(signed, LongBits), Highest(signed, LongBits), end)
StrtoSign(s, signed, sign) == StrtoEnd(s, signed, sign, DigitsEnd(s, sign))
strto(s, signed) == StrtoSign(s, signed, Sign(s, {43, 45}))

strntox(s, count, signed) ==
  strto(IF count > 0 /\ Len(s) > count /\ s[count + 1] \notin Space THEN SubSeq(s, 1, count) ELSE s, signed)
precheck(s, count, signed) ==
  /\ (s = <<>> \/ s[1] \notin Space)
  /\ (count > 0 => Len(s) >= count)
  /\ (signed \/ s = <<>> \/ s[1] # 45)
aftcheck(s, r, count) ==
  /\ r.pos > 0
  /\ IF count > 0 THEN r.pos = count ELSE r.pos = Len(s)
  /\ ~r.range

\* The specialisations for integers of w bits: up to IntBits bits the result of
\* strtol goes through a 32-bit variable, and below that it is range-checked.
Ret(value, signed, w) == IF w = LongBits THEN value ELSE Wrap(value, signed, IntBits)
CastChecked(s, r, ret, count, signed, w) ==
  IF /\ precheck(s, count, signed)
     /\ aftcheck(s, r, count)
     /\ (w < IntBits => ret \in Lowest(signed, w)..Highest(signed, w))
  THEN Done(ret) ELSE Fail
CastRead(s, r, count, signed, w) == CastChecked(s, r, Ret(r.value, signed, w), count, signed, w)
CastStr(s, count, signed, w) == CastRead(s, strntox(s, count, signed), count, signed, w)
cast(str, count, signed, w) == CastStr(CStr(str), count, signed, w)

\* The specialisation for bool
True == {<<84, 114, 117, 101>>, <<116, 114, 117, 101>>}
False == {<<70, 97, 108, 115, 101>>, <<102, 97, 108, 115, 101>>}
castBool(str, count) ==
  LET s == CStr(str)
      len == IF count > 0 THEN count ELSE Len(s)
      word == SubSeq(s, 1, IF len < Len(s) THEN len ELSE Len(s))
  IN  IF len = 1 THEN Done(IF word = <<48>> THEN 0 ELSE 1)
      ELSE IF len = 4 /\ word \in True THEN Done(1)
      ELSE IF len = 5 /\ word \in False THEN Done(0) ELSE Fail

\* What denotes an integer: an optional sign and digits, of the right range
Denoted(s, signed, w) ==
  LET sign == Sign(s, IF signed THEN {43, 45} ELSE {43})
      n == SignedValue(s, sign, Len(s))
  IN  IF Len(s) > sign /\ (\A i \in (sign + 1)..Len(s) : s[i] \in Decimal)
         /\ n \in Lowest(signed, w)..Highest(signed, w)
      THEN Done(n) ELSE Fail

-----------------------------------------------------------------------------
\* Values
Null == [t |-> "null"]
Discarded == [t |-> "discarded"]
ErrorNode == [t |-> "error_type"]
Boolean(b) == [t |-> "boolean", b |-> b]
Signed(n) == [t |-> "number_integer", n |-> n]
Unsigned(n) == [t |-> "number_unsigned", n |-> n]
Float(h) == [t |-> "number_float", h |-> h]
Str(s) == [t |-> "string", s |-> s]
Arr(a) == [t |-> "array", a |-> a]
Obj(o) == [t |-> "object", o |-> o]

is_structured(v) == v.t \in {"array", "object"}
is_number(v) == v.t \in {"number_integer", "number_unsigned", "number_float"}
is_valid(v) == v.t # "error_type"

\* std::map keeps the keys in the order of std::string.
BytesLess(x, y) ==
  \E i \in 1..Len(y) :
    /\ \A j \in 1..(i - 1) : j <= Len(x) /\ x[j] = y[j]
    /\ i <= Len(x) => x[i] < y[i]
Keys(v) == SetToSortSeq(DOMAIN v.o, BytesLess)
With(o, k, x) == [j \in DOMAIN o \cup {k} |-> IF j = k THEN x ELSE o[j]]
Without(o, k) == [j \in DOMAIN o \ {k} |-> o[j]]

-----------------------------------------------------------------------------
\* Comparison
Halves(v) == IF v.t = "number_float" THEN v.h ELSE 2 * v.n
ToSigned(v) == IF v.t = "number_unsigned" /\ v.n >= 2^(IntWidth - 1) THEN v.n - 2^IntWidth ELSE v.n

RECURSIVE Eq(_, _)
Eq(x, y) ==
  CASE x.t = y.t ->
         (CASE x.t = "array" -> Len(x.a) = Len(y.a) /\ \A i \in DOMAIN x.a : Eq(x.a[i], y.a[i])
            [] x.t = "object" -> DOMAIN x.o = DOMAIN y.o /\ \A k \in DOMAIN x.o : Eq(x.o[k], y.o[k])
            [] x.t = "null" -> TRUE
            [] x.t \in {"discarded", "error_type"} -> FALSE
            [] OTHER -> x = y)
    [] ~(is_number(x) /\ is_number(y)) -> FALSE
    [] "number_float" \in {x.t, y.t} -> Halves(x) = Halves(y)
    [] OTHER -> ToSigned(x) = ToSigned(y)

TypeOrder == [null |-> 0, boolean |-> 1, number_integer |-> 2, number_unsigned |-> 2,
              number_float |-> 2, object |-> 3, array |-> 4, string |-> 5]
\* std::lexicographical_compare over elements that L orders
Lexicographic(x, y, L(_, _)) ==
  \E i \in 1..Len(y) :
    /\ \A j \in 1..(i - 1) : j <= Len(x) /\ ~L(x[j], y[j]) /\ ~L(y[j], x[j])
    /\ i <= Len(x) => L(x[i], y[i])
RECURSIVE Less(_, _)
Less(x, y) ==
  LET Member(v) == [i \in 1..Cardinality(DOMAIN v.o) |-> <<Keys(v)[i], v.o[Keys(v)[i]]>>]
      PairLess(p, q) == BytesLess(p[1], q[1]) \/ (~BytesLess(q[1], p[1]) /\ Less(p[2], q[2]))
  IN  CASE x.t = y.t ->
             (CASE x.t = "array" -> Lexicographic(x.a, y.a, Less)
                [] x.t = "object" -> Lexicographic(Member(x), Member(y), PairLess)
                [] x.t = "null" -> FALSE
                [] x.t = "string" -> BytesLess(x.s, y.s)
                [] x.t = "boolean" -> ~x.b /\ y.b
                [] x.t = "number_float" -> x.h < y.h
                [] OTHER -> x.n < y.n)
        [] ~(is_number(x) /\ is_number(y)) -> TypeOrder[x.t] < TypeOrder[y.t]
        [] "number_float" \in {x.t, y.t} -> Halves(x) < Halves(y)
        [] OTHER -> ToSigned(x) < ToSigned(y)

-----------------------------------------------------------------------------
\* Capacity
size(v) ==
  CASE v.t = "null" -> 0 [] v.t = "array" -> Len(v.a) [] v.t = "object" -> Cardinality(DOMAIN v.o)
    [] OTHER -> 1
empty(v) == size(v) = 0

-----------------------------------------------------------------------------
\* Members that change a value
Ok(x) == [v |-> x, ret |-> "true"]
No(x) == [v |-> x, ret |-> "false"]
Threw(x) == [v |-> x, ret |-> "throw"]

\* As push_back would be if it made its array before it looked at the type.
push_back_eager(v, x) ==
  CASE v.t = "array" -> Ok(Arr(Append(v.a, x))) [] v.t = "null" -> Ok(Arr(<<x>>)) [] OTHER -> No(Arr(<<>>))
push_back(v, x) ==
  CASE v.t = "null" -> Ok(Arr(<<x>>)) [] v.t = "array" -> Ok(Arr(Append(v.a, x))) [] OTHER -> No(v)
add(v, k, x) ==
  CASE v.t = "null" -> Ok(Obj(With(<<>>, k, x)))
    [] v.t = "object" -> IF k \in DOMAIN v.o THEN No(v) ELSE Ok(Obj(With(v.o, k, x)))
    [] OTHER -> No(v)
\* push_back of a pair: object_t::insert keeps the member that is there
push_pair(v, k, x) ==
  CASE v.t = "null" -> Ok(Obj(With(<<>>, k, x)))
    [] v.t = "object" -> Ok(IF k \in DOMAIN v.o THEN v ELSE Obj(With(v.o, k, x)))
    [] OTHER -> Threw(v)
\* v[k] = x and v[i] = x
AssignKey(v, k, x) ==
  CASE v.t = "null" -> Ok(Obj(With(<<>>, k, x))) [] v.t = "object" -> Ok(Obj(With(v.o, k, x)))
    [] OTHER -> Threw(v)
Grown(a, i) == [j \in 1..(IF i < Len(a) THEN Len(a) ELSE i + 1) |-> IF j <= Len(a) THEN a[j] ELSE Null]
AssignIndex(v, i, x) ==
  CASE v.t = "null" -> Ok(Arr([Grown(<<>>, i) EXCEPT ![i + 1] = x]))
    [] v.t = "array" -> Ok(Arr([Grown(v.a, i) EXCEPT ![i + 1] = x]))
    [] OTHER -> Threw(v)
erase_key(v, k) ==
  IF v.t = "object" /\ k \in DOMAIN v.o THEN Ok(Obj(Without(v.o, k))) ELSE No(v)
erase_index(v, i) ==
  IF v.t = "array" /\ i < Len(v.a) THEN Ok(Arr(RemoveAt(v.a, i + 1))) ELSE No(v)
\* erase(first, last), the positions from first to last - 1; erase(pos) is one position
EraseRange(v, first, last) ==
  CASE v.t = "array" -> Ok(Arr(SubSeq(v.a, 1, first) \o SubSeq(v.a, last + 1, Len(v.a))))
    [] v.t = "object" ->
         LET gone == {Keys(v)[i] : i \in (first + 1)..last}
         IN  Ok(Obj([k \in DOMAIN v.o \ gone |-> v.o[k]]))
    [] v.t = "null" -> Threw(v)
    [] OTHER -> IF first = 0 /\ last = 1 THEN Ok(Null) ELSE Threw(v)
insert(v, pos, n, x) ==
  IF v.t = "array"
  THEN Ok(Arr(SubSeq(v.a, 1, pos) \o [i \in 1..n |-> x] \o SubSeq(v.a, pos + 1, Len(v.a))))
  ELSE Threw(v)
clear(v) ==
  CASE v.t \in {"number_integer", "number_unsigned"} -> [v EXCEPT !.n = 0]
    [] v.t = "number_float" -> Float(0) [] v.t = "boolean" -> Boolean(FALSE)
    [] v.t = "string" -> Str(<<>>) [] v.t = "array" -> Arr(<<>>) [] v.t = "object" -> Obj(<<>>)
    [] OTHER -> v
\* swap with a value of the type it is called for: what this one becomes
swap(v, other) == IF v.t = other.t THEN Ok(other) ELSE Threw(v)
\* basic_json(value_t)
OfType(t) ==
  CASE t = "object" -> Obj(<<>>) [] t = "array" -> Arr(<<>>) [] t = "string" -> Str(<<>>)
    [] t = "boolean" -> Boolean(FALSE) [] t = "number_integer" -> Signed(0)
    [] t = "number_unsigned" -> Unsigned(0) [] t = "number_float" -> Float(0) [] OTHER -> [t |-> t]
\* The constructor from an initializer list: an object when every element is a pair
FromList(list) ==
  IF \A i \in DOMAIN list : list[i].t = "array" /\ Len(list[i].a) = 2 /\ list[i].a[1].t = "string"
  THEN LET First(k) == Min({i \in DOMAIN list : list[i].a[1].s = k})
       IN  Obj([k \in {list[i].a[1].s : i \in DOMAIN list} |-> list[First(k)].a[2]])
  ELSE Arr(list)

-----------------------------------------------------------------------------
\* Pointers, patches, text
Exception(e) == [t |-> "throw", e |-> e]
Raised(x) == x.t = "throw"
Unless(x, Then(_)) == IF Raised(x) THEN x ELSE Then(x)
Slash == 47
Tilde == 126
Dash == <<45>>
ZeroToken == <<48>>
RECURSIVE Concat(_)
Concat(seqs) == IF seqs = <<>> THEN <<>> ELSE seqs[1] \o Concat(Tail(seqs))
RECURSIVE to_string(_)
to_string(n) == IF n < 10 THEN <<48 + n>> ELSE Append(to_string(n \div 10), 48 + (n % 10))

-----------------------------------------------------------------------------
\* The text of a pointer
RECURSIVE replace_substring(_, _, _)
replace_substring(s, f, t) ==
  IF Len(s) < Len(f) THEN s
  ELSE IF SubSeq(s, 1, Len(f)) = f THEN t \o replace_substring(SubSeq(s, Len(f) + 1, Len(s)), f, t)
  ELSE <<s[1]>> \o replace_substring(Tail(s), f, t)
escape(s) == replace_substring(replace_substring(s, <<Tilde>>, <<Tilde, 48>>), <<Slash>>, <<Tilde, 49>>)
\* As unescape would be in the other order.
unescape_swapped(s) ==
  replace_substring(replace_substring(s, <<Tilde, 48>>, <<Tilde>>), <<Tilde, 49>>, <<Slash>>)
unescape(s) ==
  replace_substring(replace_substring(s, <<Tilde, 49>>, <<Slash>>), <<Tilde, 48>>, <<Tilde>>)
RECURSIVE PointerText(_)
PointerText(ptr) == IF ptr = <<>> THEN <<>> ELSE <<Slash>> \o escape(ptr[1]) \o PointerText(Tail(ptr))

WellEscaped(token) ==
  \A i \in DOMAIN token : token[i] = Tilde => i < Len(token) /\ token[i + 1] \in {48, 49}
RECURSIVE Tokens(_)
Tokens(s) ==
  LET slash == Min({i \in 1..Len(s) : s[i] = Slash} \cup {Len(s) + 1})
  IN  <<SubSeq(s, 1, slash - 1)>> \o (IF slash > Len(s) THEN <<>> ELSE Tokens(SubSeq(s, slash + 1, Len(s))))
\* split: the tokens, or an exception
split(s) ==
  IF s = <<>> THEN [ok |-> TRUE, ptr |-> <<>>]
  ELSE LET raw == Tokens(Tail(s))
       IN  IF s[1] # Slash \/ \E i \in DOMAIN raw : ~WellEscaped(raw[i]) THEN [ok |-> FALSE, ptr |-> <<>>]
           ELSE [ok |-> TRUE, ptr |-> [i \in DOMAIN raw |-> unescape(raw[i])]]

-----------------------------------------------------------------------------
\* Resolving a pointer
IndexOf(r) == IF r.ok THEN [t |-> "index", n |-> r.value] ELSE Exception("abort")
ArrayIndex(token) ==
  IF Len(token) > 1 /\ token[1] = 48 THEN Exception("domain_error")
  ELSE IndexOf(cast(token, 0, FALSE, LongBits))
\* One token down, as get_checked goes; missing is what inner_at does without the member
Child(v, token, missing) ==
  CASE v.t = "object" -> IF token \in DOMAIN v.o THEN v.o[token] ELSE missing
    [] v.t = "array" ->
         IF token = Dash THEN Exception("out_of_range")
         ELSE Unless(ArrayIndex(token), LAMBDA i : IF i.n < Len(v.a) THEN v.a[i.n + 1] ELSE missing)
    [] OTHER -> Exception("out_of_range")
RECURSIVE Walk(_, _, _)
Walk(v, ptr, missing) ==
  IF ptr = <<>> \/ Raised(v) THEN v ELSE Walk(Child(v, ptr[1], missing), Tail(ptr), missing)
get_checked(v, ptr) == Walk(v, ptr, Exception("out_of_range"))
\* The const overload: inner_at() const gives the error node instead of throwing
get_checked_const(v, ptr) == Walk(v, ptr, ErrorNode)
\* The path of at(key, ...): the keys are not escaped, so that a slash in a key
\* separates tokens.
generate_pico_json_path(keys) == Concat([i \in DOMAIN keys |-> <<Slash>> \o keys[i]])
\* at(): what cannot be resolved is the error node, unless the process stopped
Caught(x) == IF Raised(x) /\ x.e # "abort" THEN ErrorNode ELSE x
AtPath(v, path) ==
  IF ~is_structured(v) \/ ~path.ok THEN ErrorNode ELSE Caught(get_checked_const(v, path.ptr))
at(v, keys) == AtPath(v, split(generate_pico_json_path(keys)))
has(v, keys) == is_valid(at(v, keys))
\* value(ptr, default_value) const; the conversion to the type of default_value throws
Convertible(x, d) == x.t = d.t \/ (is_number(x) /\ is_number(d))
OrDefault(x, default_value) ==
  CASE Raised(x) -> IF x.e = "out_of_range" THEN default_value ELSE x
    [] OTHER -> IF Convertible(x, default_value) THEN x ELSE Exception("domain_error")
value(v, ptr, default_value) ==
  IF v.t # "object" THEN Exception("domain_error") ELSE OrDefault(get_checked_const(v, ptr), default_value)

\* x put where ptr, which resolves, leads
RECURSIVE Put(_, _, _)
Put(v, ptr, x) ==
  IF ptr = <<>> THEN x
  ELSE IF v.t = "object" THEN Obj(With(v.o, ptr[1], Put(v.o[ptr[1]], Tail(ptr), x)))
  ELSE Arr([v.a EXCEPT ![ArrayIndex(ptr[1]).n + 1] = Put(@, Tail(ptr), x)])

\* v[ptr] = x: get_unchecked creates what is missing, and leaves it created when
\* a later token throws.
RECURSIVE AssignUnchecked(_, _, _)
InMember(o, k, r) == [v |-> Obj(With(o, k, r.v)), ret |-> r.ret]
InElement(a, i, r) == [v |-> Arr([a EXCEPT ![i + 1] = r.v]), ret |-> r.ret]
AssignElement(v, i, ptr, x) ==
  IF Raised(i) THEN [v |-> v, ret |-> IF i.e = "abort" THEN "abort" ELSE "throw"]
  ELSE InElement(Grown(v.a, i.n), i.n, AssignUnchecked(Grown(v.a, i.n)[i.n + 1], ptr, x))
AssignUnchecked(v, ptr, x) ==
  CASE ptr = <<>> -> Ok(x)
    [] ptr # <<>> /\ v.t = "object" ->
         InMember(v.o, ptr[1],
                  AssignUnchecked(IF ptr[1] \in DOMAIN v.o THEN v.o[ptr[1]] ELSE Null, Tail(ptr), x))
    [] ptr # <<>> /\ v.t = "array" ->
         AssignElement(v, IF ptr[1] = Dash THEN [t |-> "index", n |-> Len(v.a)] ELSE ArrayIndex(ptr[1]),
                       Tail(ptr), x)
    [] OTHER -> Threw(v)

\* modify(key, ..., value): inner_at of a key or an index at a time
RECURSIVE Reaches(_, _)
Reaches(v, keys) ==
  \/ keys = <<>>
  \/ /\ v.t = "object" /\ keys[1].key /\ keys[1].k \in DOMAIN v.o
     /\ Reaches(v.o[keys[1].k], Tail(keys))
  \/ /\ v.t = "array" /\ ~keys[1].key /\ keys[1].i < Len(v.a)
     /\ Reaches(v.a[keys[1].i + 1], Tail(keys))
modify(v, keys, x) ==
  IF keys # <<>> /\ Reaches(v, keys)
  THEN Ok(Put(v, [i \in DOMAIN keys |-> IF keys[i].key THEN keys[i].k ELSE to_string(keys[i].i)], x))
  ELSE No(v)

-----------------------------------------------------------------------------
\* flatten and unflatten
RECURSIVE Flat(_, _)
Flat(ref, v) ==
  LET parts == IF v.t = "array" THEN [i \in DOMAIN v.a |-> Flat(ref \o <<Slash>> \o to_string(i - 1), v.a[i])]
               ELSE [i \in DOMAIN Keys(v) |-> Flat(ref \o <<Slash>> \o escape(Keys(v)[i]), v.o[Keys(v)[i]])]
      keys == UNION {DOMAIN parts[i] : i \in DOMAIN parts}
  IN  IF ~is_structured(v) THEN With(<<>>, ref, v)
      ELSE IF size(v) = 0 THEN With(<<>>, ref, Null)
      ELSE [k \in keys |-> parts[CHOOSE i \in DOMAIN parts : k \in DOMAIN parts[i]][k]]
flatten(v) == Obj(Flat(<<>>, v))

\* get_and_create(j) = x
RECURSIVE Create(_, _, _)
CreateMember(o, ptr, x) ==
  Unless(Create(IF ptr[1] \in DOMAIN o THEN o[ptr[1]] ELSE Null, Tail(ptr), x),
         LAMBDA c : Obj(With(o, ptr[1], c)))
CreateElement(a, i, ptr, x) ==
  IF ~i.ok THEN Exception("abort")
  ELSE Unless(Create(Grown(a, i.value)[i.value + 1], Tail(ptr), x),
              LAMBDA c : Arr([Grown(a, i.value) EXCEPT ![i.value + 1] = c]))
Create(j, ptr, x) ==
  CASE ptr = <<>> -> x
    [] ptr # <<>> /\ (j.t = "object" \/ (j.t = "null" /\ ptr[1] # ZeroToken)) ->
         CreateMember(IF j.t = "null" THEN <<>> ELSE j.o, ptr, x)
    [] ptr # <<>> /\ (j.t = "array" \/ (j.t = "null" /\ ptr[1] = ZeroToken)) ->
         CreateElement(IF j.t = "null" THEN <<>> ELSE j.a, cast(ptr[1], 0, FALSE, LongBits), ptr, x)
    [] OTHER -> Exception("domain_error")
RECURSIVE CreateAll(_, _, _)
CreateAll(j, o, keys) ==
  IF keys = <<>> \/ Raised(j) THEN j
  ELSE CreateAll(Create(j, split(keys[1]).ptr, o[keys[1]]), o, Tail(keys))
unflatten(v) == CreateAll(Null, v.o, Keys(v))

-----------------------------------------------------------------------------
\* patch: the operations one after the other on a copy
\* What v[ptr] = x leaves, or that it throws (patch passes the exception on)
Assigned(r) ==
  IF r.ret = "true" THEN r.v ELSE Exception(IF r.ret = "abort" THEN "abort" ELSE "out_of_range")
\* The parent once x is in it, last being the pointer's last token and i its number
AddedTo(parent, last, i, x) ==
  CASE parent.t \in {"null", "object"} -> AssignKey(parent, last, x).v
    [] parent.t = "array" /\ last = Dash -> push_back(parent, x).v
    [] parent.t = "array" /\ last # Dash ->
         IF ~i.ok THEN Exception("abort")
         ELSE IF i.value < 0 \/ i.value > Len(parent.a) THEN Exception("out_of_range")
         ELSE insert(parent, i.value, 1, x).v
    [] OTHER -> Exception("assert")
\* result[top_pointer] = ... where the parent was found, or was created by operator[]
AddUnder(v, ptr, parent, x) ==
  Unless(AddedTo(IF Raised(parent) THEN Null ELSE parent, Last(ptr), cast(Last(ptr), 0, TRUE, IntBits), x),
         LAMBDA p : Assigned(AssignUnchecked(v, Front(ptr), p)))
operation_add(v, ptr, x) ==
  IF ptr = <<>> THEN x
  ELSE Unless(IF Len(ptr) > 1 THEN get_checked(v, <<ptr[1]>>) ELSE v, LAMBDA top :
         Unless(Assigned(AssignUnchecked(v, Front(ptr), Null)), LAMBDA made :
           AddUnder(v, ptr, get_checked(v, Front(ptr)), x)))
\* The parent once the member is out of it
RemovedFrom(parent, last, i) ==
  CASE parent.t = "object" ->
         IF last \in DOMAIN parent.o THEN erase_key(parent, last).v ELSE Exception("out_of_range")
    [] parent.t = "array" -> IF i.ok THEN erase_index(parent, i.value).v ELSE Exception("abort")
    [] OTHER -> parent
operation_remove(v, ptr) ==
  IF ptr = <<>> THEN Exception("domain_error")
  ELSE Unless(get_checked(v, Front(ptr)), LAMBDA parent :
         Unless(RemovedFrom(parent, Last(ptr), cast(Last(ptr), 0, FALSE, LongBits)), LAMBDA p :
           Put(v, Front(ptr), p)))
Tested(v, target, x) ==
  IF Raised(target) /\ target.e # "out_of_range" THEN target
  ELSE IF ~Raised(target) /\ Eq(target, x) THEN v ELSE Exception("domain_error")
Operation(v, p) ==
  CASE p.op = "add" -> operation_add(v, p.path, p.value)
    [] p.op = "remove" -> operation_remove(v, p.path)
    [] p.op = "replace" -> Unless(get_checked(v, p.path), LAMBDA target : Put(v, p.path, p.value))
    [] p.op = "move" ->
         Unless(get_checked(v, p.from), LAMBDA source :
           Unless(operation_remove(v, p.from), LAMBDA removed : operation_add(removed, p.path, source)))
    [] p.op = "copy" ->
         Unless(get_checked(v, p.from), LAMBDA source : Assigned(AssignUnchecked(v, p.path, source)))
    [] p.op = "test" -> Tested(v, get_checked(v, p.path), p.value)
RECURSIVE patch(_, _)
patch(v, ops) == IF ops = <<>> \/ Raised(v) THEN v ELSE patch(Operation(v, ops[1]), Tail(ops))

-----------------------------------------------------------------------------
\* diff
Op(op, path, x) == [op |-> op, path |-> path, from |-> <<>>, value |-> x]
\* As the removals of surplus elements would be from the front on.
SurplusForward(a, n, path) ==
  [i \in 1..(Len(a) - n) |-> Op("remove", Append(path, to_string(n + i - 1)), Null)]
Surplus(a, n, path) ==
  [i \in 1..(IF Len(a) > n THEN Len(a) - n ELSE 0) |-> Op("remove", Append(path, to_string(Len(a) - i)), Null)]
RECURSIVE diff(_, _, _)
diff(x, y, path) ==
  LET arrays(both) ==
        Concat([i \in 1..both |-> diff(x.a[i], y.a[i], Append(path, to_string(i - 1)))])
        \o Surplus(x.a, both, path)
        \o [i \in 1..(Len(y.a) - both) |-> Op("add", Append(path, to_string(both + i - 1)), y.a[both + i])]
      new == SelectSeq(Keys(y), LAMBDA k : k \notin DOMAIN x.o)
      objects ==
        Concat([i \in DOMAIN Keys(x) |->
                  LET k == Keys(x)[i]
                  IN  IF k \in DOMAIN y.o THEN diff(x.o[k], y.o[k], Append(path, k))
                      ELSE <<Op("remove", Append(path, k), Null)>>])
        \o [i \in DOMAIN new |-> Op("add", Append(path, new[i]), y.o[new[i]])]
  IN  CASE Eq(x, y) -> <<>>
        [] ~Eq(x, y) /\ x.t # y.t -> <<Op("replace", path, y)>>
        [] ~Eq(x, y) /\ x.t = "array" /\ y.t = "array" -> arrays(IF Len(x.a) < Len(y.a) THEN Len(x.a) ELSE Len(y.a))
        [] ~Eq(x, y) /\ x.t = "object" /\ y.t = "object" -> objects
        [] OTHER -> <<Op("replace", path, y)>>

-----------------------------------------------------------------------------
\* dump
Spaces(n) == [i \in 1..n |-> 32]
IntegerText(n) == IF n < 0 THEN <<Minus>> \o to_string(-n) ELSE to_string(n)
\* What operator<< writes for a double that is a number of halves
FloatText(h) ==
  LET a == IF h < 0 THEN -h ELSE h
  IN  IF h = 0 THEN <<48, Dot, 48>>
      ELSE (IF h < 0 THEN <<Minus>> ELSE <<>>) \o to_string(a \div 2) \o (IF a % 2 = 1 THEN <<Dot, 53>> ELSE <<>>)
Quoted(s) == <<Quote>> \o escape_string(s) \o <<Quote>>

RECURSIVE Dump(_, _, _)
\* The members of a container between its brackets, one per line when indented
Bracketed(open, items, close, step, indent) ==
  LET line == IF step > 0 THEN <<10>> ELSE <<>>
      Sep(i) == IF i = 1 THEN line ELSE <<44>> \o line
  IN  <<open>> \o Concat([i \in DOMAIN items |-> Sep(i) \o Spaces(indent + step) \o items[i]])
      \o line \o Spaces(indent) \o <<close>>
Dump(v, step, indent) ==
  CASE v.t = "object" ->
         IF size(v) = 0 THEN <<123, 125>>
         ELSE Bracketed(123, [i \in DOMAIN Keys(v) |->
                Quoted(Keys(v)[i]) \o <<58>> \o (IF step > 0 THEN <<32>> ELSE <<>>)
                \o Dump(v.o[Keys(v)[i]], step, indent + step)], 125, step, indent)
    [] v.t = "array" ->
         IF size(v) = 0 THEN <<91, 93>>
         ELSE Bracketed(91, [i \in DOMAIN v.a |-> Dump(v.a[i], step, indent + step)], 93, step, indent)
    [] v.t = "string" -> Quoted(v.s)
    [] v.t = "boolean" -> IF v.b THEN <<Ord.t, Ord.r, Ord.u, Ord.e>> ELSE <<Ord.f, Ord.a, Ord.l, Ord.s, Ord.e>>
    [] v.t = "number_float" -> FloatText(v.h)
    [] v.t \in {"number_integer", "number_unsigned"} -> IntegerText(v.n)
    [] OTHER -> <<Ord.n, Ord.u, Ord.l, Ord.l>>
dump(v, step) == Dump(v, step, 0)

-----------------------------------------------------------------------------
\* parse
\* strtod of a text that FloatText writes, in halves
strtod(t) ==
  LET neg == t[1] = Minus
      u == IF neg THEN Tail(t) ELSE t
      dot == Min({i \in DOMAIN u : u[i] = Dot} \cup {Len(u) + 1})
      half == IF dot < Len(u) /\ u[dot + 1] >= 53 THEN 1 ELSE 0
  IN  (2 * DecimalValue(SubSeq(u, 1, dot - 1)) + half) * (IF neg THEN -1 ELSE 1)
NumberValue(t) ==
  LET r == get_number(t)
  IN  CASE r.type = "number_float" -> Float(strtod(t)) [] r.type = "number_integer" -> Signed(r.value)
        [] OTHER -> Unsigned(r.value)

NoCallback == {}
Reject(cb, keep, event) == keep /\ event \in cb
SyntaxError == [ok |-> FALSE]
Parsed(x, tok) == [ok |-> TRUE, v |-> x, tok |-> tok]
get_token(s, tok) == scan(s, tok.cursor)

RECURSIVE parse_internal(_, _, _, _), Members(_, _, _, _, _), Items(_, _, _, _, _)
\* Behind a member or an item: the next one, or the end of the container
Behind(s, tok, end, More(_), whole) ==
  CASE tok.token = "value_separator" -> More(get_token(s, tok))
    [] tok.token = end -> Parsed(whole, get_token(s, tok))
    [] OTHER -> SyntaxError
MemberTaken(s, o, val, cb, keep) ==
  IF ~val.ok THEN SyntaxError
  ELSE Behind(s, val.tok, "end_object", LAMBDA tok : Members(s, tok, cb, keep, o), Obj(o))
MemberRead(s, key, val, cb, keep, o) ==
  MemberTaken(s, IF val.ok /\ keep /\ ~Reject(cb, keep, "key") /\ val.v.t # "discarded"
                 THEN With(o, key, val.v) ELSE o, val, cb, keep)
MemberKey(s, key, colon, cb, keep, o) ==
  IF key = Throw \/ colon.token # "name_separator" THEN SyntaxError
  ELSE MemberRead(s, key, parse_internal(s, get_token(s, colon), cb, keep), cb, keep, o)
\* From a key on; o holds the members so far
Members(s, tok, cb, keep, o) ==
  IF tok.token # "value_string" THEN SyntaxError
  ELSE MemberKey(s, get_string(s, tok.start, tok.cursor), get_token(s, tok), cb, keep, o)
ItemTaken(s, a, val, cb, keep) ==
  IF ~val.ok THEN SyntaxError
  ELSE Behind(s, val.tok, "end_array", LAMBDA tok : Items(s, tok, cb, keep, a), Arr(a))
ItemRead(s, val, cb, keep, a) ==
  ItemTaken(s, IF val.ok /\ keep /\ val.v.t # "discarded" THEN Append(a, val.v) ELSE a, val, cb, keep)
Items(s, tok, cb, keep, a) == ItemRead(s, parse_internal(s, tok, cb, keep), cb, keep, a)

\* A container from its bracket on, next being the token behind it
ObjectBody(s, next, cb, keep) ==
  IF next.token = "end_object" THEN Parsed(Obj(<<>>), get_token(s, next)) ELSE Members(s, next, cb, keep, <<>>)
ArrayBody(s, next, cb, keep) ==
  IF next.token = "end_array" THEN Parsed(Arr(<<>>), get_token(s, next)) ELSE Items(s, next, cb, keep, <<>>)
Kept(body, gone) == IF body.ok /\ gone THEN Parsed(Discarded, body.tok) ELSE body
Container(keep2, cb, end, Body(_)) == Kept(Body(keep2), ~keep2 \/ Reject(cb, keep2, end))
\* A value that is no container
Leaf(cb, keep, x, next) == Parsed(IF Reject(cb, keep, "value") THEN Discarded ELSE x, next)
StringLeaf(cb, keep, x, next) == IF x = Throw THEN SyntaxError ELSE Leaf(cb, keep, Str(x), next)
ParseToken(s, tok, next, cb, keep) ==
  CASE tok.token = "begin_object" ->
         Container(keep /\ ~Reject(cb, keep, "object_start"), cb, "object_end",
                   LAMBDA keep2 : ObjectBody(s, next, cb, keep2))
    [] tok.token = "begin_array" ->
         Container(keep /\ ~Reject(cb, keep, "array_start"), cb, "array_end",
                   LAMBDA keep2 : ArrayBody(s, next, cb, keep2))
    [] tok.token = "literal_null" -> Leaf(cb, keep, Null, next)
    [] tok.token = "literal_true" -> Leaf(cb, keep, Boolean(TRUE), next)
    [] tok.token = "literal_false" -> Leaf(cb, keep, Boolean(FALSE), next)
    [] tok.token = "value_string" -> StringLeaf(cb, keep, get_string(s, tok.start, tok.cursor), next)
    [] tok.token = "value_number" -> Leaf(cb, keep, NumberValue(SubSeq(s, tok.start, tok.cursor - 1)), next)
    [] OTHER -> SyntaxError
parse_internal(s, tok, cb, keep) == ParseToken(s, tok, get_token(s, tok), cb, keep)
Whole(r) ==
  IF ~r.ok \/ r.tok.token # "end_of_input" THEN SyntaxError
  ELSE [ok |-> TRUE, v |-> IF r.v.t = "discarded" THEN Null ELSE r.v]
parse(s, cb) == Whole(parse_internal(s, scan(s, 1), cb, TRUE))
=============================================================================
