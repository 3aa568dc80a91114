------------------------------- MODULE Texts --------------------------------
(***************************************************************************)
(* The conversions of texts: Base64.h, URICode.h, the splitter of          *)
(* StringUtility.h, and URIs with parameters (URIConfig.h, URIConfig.cpp,  *)
(* ShellUtility::fs_type), run with the JSON scanner and the casts of      *)
(* JsonText on every text over a few bytes.  A text is a sequence of       *)
(* bytes; a parameter of a URI has a value and the level of the source     *)
(* that set it. A step types one more byte.                                *)
(***************************************************************************)
EXTENDS JsonText

Undecodable == <<-1>>  \* the process stops in SCHECK or SLOG(FATAL)

-----------------------------------------------------------------------------
\* Base64
Upper == 65..90
Lower == 97..122
Number == 48..57
Pad == 61
encode_table(n) ==
  CASE n < 26 -> 65 + n [] n \in 26..51 -> 71 + n [] n \in 52..61 -> n - 4
    [] n = 62 -> 43 [] OTHER -> 47
decode_table(c) ==
  CASE c \in Upper -> c - 65 [] c \in Lower -> c - 71 [] c \in Number -> c + 4
    [] c = 43 -> 62 [] c = 47 -> 63 [] OTHER -> 0

RECURSIVE base64_encode(_)
base64_encode(s) ==
  LET a == encode_table(s[1] \div 4)
      b(x) == encode_table((s[1] % 4) * 16 + x)
      c(x) == encode_table((s[2] % 16) * 4 + x)
  IN  CASE s = <<>> -> <<>>
        [] Len(s) = 1 -> <<a, b(0), Pad, Pad>>
        [] Len(s) = 2 -> <<a, b(s[2] \div 16), c(0), Pad>>
        [] OTHER -> <<a, b(s[2] \div 16), c(s[3] \div 64), encode_table(s[3] % 64)>>
                      \o base64_encode(SubSeq(s, 4, Len(s)))

\* A group of the decoder, were a last character of value 0 taken for a pad.
GroupShort(q) ==
  LET v(i) == decode_table(q[i])
  IN  <<v(1) * 4 + v(2) \div 16>>
      \o (IF q[3] = Pad THEN <<>> ELSE <<(v(2) % 16) * 16 + v(3) \div 4>>)
      \o (IF q[4] = Pad \/ v(4) = 0 THEN <<>> ELSE <<(v(3) % 4) * 64 + v(4)>>)
\* The decoder takes four characters at a time; a pad ends its group early.
Group(q) ==
  LET v(i) == decode_table(q[i])
  IN  <<v(1) * 4 + v(2) \div 16>>
      \o (IF q[3] = Pad THEN <<>> ELSE <<(v(2) % 16) * 16 + v(3) \div 4>>)
      \o (IF q[3] = Pad \/ q[4] = Pad THEN <<>> ELSE <<(v(3) % 4) * 64 + v(4)>>)
is_base64(c) == c \in Upper \cup Lower \cup Number \cup {43, 47}
RECURSIVE base64_decode(_)
base64_decode(s) ==
  LET rest == base64_decode(SubSeq(s, 5, Len(s)))
  IN  IF s = <<>> THEN <<>>
      ELSE IF \E i \in {1, 3, 4} : ~is_base64(s[i]) /\ ~(s[i] = Pad /\ i > 2) THEN Undecodable
      ELSE IF rest = Undecodable THEN rest ELSE Group(SubSeq(s, 1, 4)) \o rest

-----------------------------------------------------------------------------
\* URICode.  A byte from 128 on is a negative char: _hex is read outside its
\* bounds, and stray is what happens to be there.
Unreserved == Upper \cup Lower \cup Number \cup {95, 45, 46, 126}
Percent == 37
hex(n) == IF n < 10 THEN 48 + n ELSE 55 + n
EncodeChar(c, stray) ==
  IF c \in Unreserved THEN <<c>>
  ELSE <<Percent, IF c < 128 THEN hex(c \div 16) ELSE stray, hex(c % 16)>>
RECURSIVE encode(_, _)
encode(s, stray) == IF s = <<>> THEN <<>> ELSE EncodeChar(s[1], stray) \o encode(Tail(s), stray)

letter_to_hex(c) ==
  CASE c \in 65..70 -> c - 55 [] c \in 97..102 -> c - 87 [] c \in Number -> c - 48 [] OTHER -> -1
RECURSIVE decode(_)
decode(s) ==
  LET Then(c, n) == LET rest == decode(SubSeq(s, n + 1, Len(s)))
                    IN  IF rest = Undecodable THEN rest ELSE <<c>> \o rest
  IN  IF s = <<>> THEN <<>>
      ELSE IF s[1] # Percent THEN Then(s[1], 1)
      ELSE IF Len(s) < 3 \/ letter_to_hex(s[2]) < 0 \/ letter_to_hex(s[3]) < 0 THEN Undecodable
      ELSE Then(letter_to_hex(s[2]) * 16 + letter_to_hex(s[3]), 3)

-----------------------------------------------------------------------------
\* StringUtility::split and split_lines: the tokens up to the first NUL.
RECURSIVE SplitAt(_, _)
SplitAt(s, delims) ==
  LET stop == Min({i \in 1..Len(s) : s[i] \in delims \cup {0}} \cup {Len(s) + 1})
      token == SubSeq(s, 1, stop - 1)
  IN  IF stop <= Len(s) /\ s[stop] # 0 THEN <<token>> \o SplitAt(SubSeq(s, stop + 1, Len(s)), delims)
      ELSE <<token>>
StringSplit(s, delim) == SplitAt(s, {delim})
split_lines(s, delim) == SplitAt(s, {delim, 10})

-----------------------------------------------------------------------------
\* URIs
Equals == 61
Ampersand == 38
Question == 63
WhiteSpace == {9, 10, 13, 32}
SchemeEnd == <<58, 47, 47>>                    \* "://"

URILVL == [DEFAULT |-> 0, URICFG |-> 1, EXTCFG |-> 2, OVERRIDE |-> 99]

\* The schemes known: hdfs, s3, s3n, s3a; mem; file; kafka.
Schemes == {<<"HDFS", <<104, 100, 102, 115>>>>, <<"HDFS", <<115, 51>>>>, <<"HDFS", <<115, 51, 110>>>>,
            <<"HDFS", <<115, 51, 97>>>>, <<"MEM", <<109, 101, 109>>>>,
            <<"LOCAL", <<102, 105, 108, 101>>>>, <<"KAFKA", <<107, 97, 102, 107, 97>>>>}

trim(s) == LET in == {i \in DOMAIN s : s[i] \notin WhiteSpace}
           IN  IF in = {} THEN <<>> ELSE SubSeq(s, Min(in), Max(in))

\* fs_type: the scheme is looked for in the trimmed path, but its length is
\* taken off the path as it came.
fs_type(path) ==
    LET p == trim(path)
        known == {x \in Schemes : IsPrefix(x[2] \o SchemeEnd, p)}
        ends == {i \in DOMAIN p : IsPrefix(SchemeEnd, SubSeq(p, i, Len(p)))}
        type == CASE known # {} -> (CHOOSE x \in known : TRUE)[1]
                  [] ends = {} -> "LOCAL"
                  [] OTHER -> "UNKNOWN"
        name_pos == IF ends = {} \/ type = "HDFS" THEN 0 ELSE Min(ends) + 2
    IN  [store |-> type, prefix |-> SubSeq(path, 1, name_pos),
         name |-> SubSeq(path, name_pos + 1, Len(path))]

\* set_val: a parameter gives way to the same level or a higher one. (Mutant:
\* only to a higher one.)
set_val_above(params, key, val, lvl) ==
    IF key \in DOMAIN params /\ lvl <= params[key].lvl THEN params
    ELSE [k \in DOMAIN params \cup {key} |-> IF k = key THEN [val |-> val, lvl |-> lvl] ELSE params[k]]

set_val(params, key, val, lvl) ==
    IF key \in DOMAIN params /\ lvl < params[key].lvl THEN params
    ELSE [k \in DOMAIN params \cup {key} |-> IF k = key THEN [val |-> val, lvl |-> lvl] ELSE params[k]]

\* The parameters of a URI: pairs between ampersands, the last '=' of a pair
\* ending its key. The process stops at a pair without a key and at one that
\* cannot be decoded.
Aborted == [aborted |-> TRUE]

RECURSIVE ReadParams(_, _)
ReadParams(params, s) ==
    LET stop == Min({i \in DOMAIN s : s[i] = Ampersand} \cup {Len(s) + 1})
        eq == {i \in 1..(stop - 1) : s[i] = Equals}
        key == decode(SubSeq(s, 1, Max(eq) - 1))
        val == decode(SubSeq(s, Max(eq) + 1, stop - 1))
        new == set_val(params, key, val, URILVL.URICFG)
    IN  CASE eq = {} \/ 1 \in eq -> Aborted
          [] Undecodable \in {key, val} -> Aborted
          [] stop > Len(s) -> new
          [] OTHER -> ReadParams(new, SubSeq(s, stop + 1, Len(s)))

set_uri(uri) ==
    LET pos == {i \in DOMAIN uri : uri[i] = Question}
        path == decode(IF pos = {} THEN uri ELSE SubSeq(uri, 1, Min(pos) - 1))
        params == IF pos = {} THEN <<>> ELSE ReadParams(<<>>, SubSeq(uri, Min(pos) + 1, Len(uri)))
        fs == fs_type(path)
    IN  CASE trim(uri) = <<>> -> [store |-> "UNKNOWN", prefix |-> <<>>, name |-> <<>>, params |-> <<>>]
          [] path = Undecodable \/ params = Aborted -> Aborted
          [] fs.store = "UNKNOWN" -> Aborted
          [] OTHER -> [store |-> fs.store, prefix |-> fs.prefix, name |-> fs.name, params |-> params]

\* The parameters from a level up, in the order of their keys: the values
\* encoded, the keys as they are.
Before(s, t) == \/ IsStrictPrefix(s, t)
                \/ \E i \in DOMAIN s \cap DOMAIN t : /\ s[i] < t[i]
                                                     /\ \A j \in 1..(i - 1) : s[j] = t[j]

params_to_string(params, low_lvl) ==
    LET keys == SetToSortSeq({k \in DOMAIN params : params[k].lvl >= low_lvl}, Before)
    IN  FlattenSeq([i \in DOMAIN keys |->
            <<IF i = 1 THEN Question ELSE Ampersand>> \o keys[i] \o <<Equals>>
                \o encode(params[keys[i]].val, 0)])

uri_text(c) == c.prefix \o c.name \o params_to_string(c.params, 0)
value_text(c) == c.prefix \o c.name \o params_to_string(c.params, URILVL.DEFAULT + 1)

RECURSIVE replace_param(_, _)
replace_param(params, new) ==
    IF new = <<>> THEN params
    ELSE LET n == Head(new) IN replace_param(set_val(params, n.key, n.val, n.lvl), Tail(new))

-----------------------------------------------------------------------------
\* The texts
CONSTANT Kinds       \* records [prefix, bytes, len]: the texts

VARIABLES text, kind \* the text; the record of Kinds it is made from
vars == <<text, kind>>

Init == kind \in Kinds /\ text = kind.prefix
Type ==
  /\ Len(text) < Len(kind.prefix) + kind.len
  /\ \E c \in kind.bytes : text' = Append(text, c)
  /\ UNCHANGED kind
Next == Type
Spec == Init /\ [][Next]_vars

-----------------------------------------------------------------------------
\* The JSON grammar of a token, for reference
Digits(w) == w # <<>> /\ \A i \in DOMAIN w : w[i] \in Digit
IsInt(w) == Digits(w) /\ (w[1] = Zero => Len(w) = 1)
IsFrac(w) == w # <<>> => w[1] = Dot /\ Digits(Tail(w))
IsExp(w) ==
  w # <<>> => w[1] \in Exp /\ (Digits(Tail(w)) \/ (Len(w) > 1 /\ w[2] \in {Plus, Minus} /\ Digits(SubSeq(w, 3, Len(w)))))
IsNumber(w) ==
  LET u == IF w[1] = Minus THEN Tail(w) ELSE w
  IN  \E i \in 0..Len(u) : \E j \in i..Len(u) :
        IsInt(SubSeq(u, 1, i)) /\ IsFrac(SubSeq(u, i + 1, j)) /\ IsExp(SubSeq(u, j + 1, Len(u)))
RECURSIVE IsBody(_)
IsBody(w) ==
  \/ w = <<>>
  \/ w[1] \notin Control \cup {Quote, Backslash} /\ IsBody(Tail(w))
  \/ Len(w) > 1 /\ w[1] = Backslash /\ w[2] \in DOMAIN Escaped /\ IsBody(SubSeq(w, 3, Len(w)))
  \/ /\ Len(w) > 5 /\ w[1] = Backslash /\ w[2] = Ord.u /\ \A i \in 3..6 : w[i] \in HexDigit
     /\ IsBody(SubSeq(w, 7, Len(w)))
IsString(w) == Len(w) > 1 /\ w[1] = Quote /\ w[Len(w)] = Quote /\ IsBody(SubSeq(w, 2, Len(w) - 1))
Literals == [literal_true |-> <<Ord.t, Ord.r, Ord.u, Ord.e>>,
             literal_false |-> <<Ord.f, Ord.a, Ord.l, Ord.s, Ord.e>>,
             literal_null |-> <<Ord.n, Ord.u, Ord.l, Ord.l>>]
TokensOf(w) ==
  {t \in DOMAIN Literals : Literals[t] = w} \cup {Punctuation[c] : c \in {x \in DOMAIN Punctuation : w = <<x>>}}
  \cup (IF IsNumber(w) THEN {"value_number"} ELSE {}) \cup (IF IsString(w) THEN {"value_string"} ELSE {})

\* The scanner returns the longest token of the JSON grammar that the text goes
\* on with, and parse_error exactly when there is none: one marker is enough to
\* fall back to.
LongestToken ==
  LET r == scan(text, 1)
      rest == SubSeq(text, r.start, Len(text))
      ends == {n \in 1..Len(rest) : TokensOf(SubSeq(rest, 1, n)) # {}}
  IN  IF rest = <<>> THEN r.token = "end_of_input"
      ELSE IF ends = {} THEN r.token = "parse_error"
      ELSE r.cursor = r.start + Max(ends) /\ r.token \in TokensOf(SubSeq(rest, 1, Max(ends)))

\* What dump writes for a string, any bytes at all, the scanner takes for one
\* string token, and get_string gives the bytes back.
Quoting ==
  LET q == <<Quote>> \o escape_string(text) \o <<Quote>>
      r == scan(q, 1)
  IN  r.token = "value_string" /\ r.cursor = Len(q) + 1 /\ get_string(q, 1, r.cursor) = text

-----------------------------------------------------------------------------
\* A string token of one \u escape, or of two surrogates, is the UTF-8 of the
\* code point they denote; a lone high surrogate is refused.
CodePoint(b) ==
  CASE Len(b) = 1 -> b[1] [] Len(b) = 2 -> (b[1] % 32) * 64 + (b[2] % 64)
    [] Len(b) = 3 -> (b[1] % 16) * 4096 + (b[2] % 64) * 64 + (b[3] % 64)
    [] Len(b) = 4 -> (b[1] % 8) * 262144 + (b[2] % 64) * 4096 + (b[3] % 64) * 64 + (b[4] % 64)
UnicodeExact ==
  LET u(i) == Hex(text, i)
      high == u(4) \in 55296..56319
      got == get_string(text, 1, Len(text) + 1)
  IN  IsString(text) /\ Len(text) \in {8, 14} /\ text[2] = Backslash /\ text[3] = Ord.u =>
        IF Len(text) = 8 THEN IF high THEN got = Throw ELSE CodePoint(got) = u(4)
        ELSE high /\ text[8] = Backslash /\ text[9] = Ord.u =>
               IF u(10) \in 56320..57343 THEN CodePoint(got) = 65536 + (u(4) - 55296) * 1024 + u(10) - 56320
               ELSE got = Throw

\* Strings and their JSON text: what dump writes is read back, and escapes are exact.
StringsExact == Quoting /\ UnicodeExact

\* Decoding undoes encoding: Base64 for all bytes, URICode for those below 128,
\* and the text of a JSON pointer for all its tokens.
CodecsInvert ==
  /\ base64_decode(base64_encode(text)) = text
  /\ (\A i \in DOMAIN text : text[i] < 128) => decode(encode(text, 0)) = text
  /\ LET ptr == split(<<Slash>> \o text)
     IN  ptr.ok => split(PointerText(ptr.ptr)) = ptr
  /\ \A i \in 0..Len(text) :
       LET ptr == <<SubSeq(text, 1, i), SubSeq(text, i + 1, Len(text))>>
       IN  split(PointerText(ptr)) = [ok |-> TRUE, ptr |-> ptr]

\* A URI that is read and written out again reads the same, as long as its
\* name and its keys, which are written as they are, have no special bytes
\* and its values none above 127; replacing a parameter at the URI's own level takes effect, and is gone
\* from neither text.
Plainly(s) == \A i \in DOMAIN s : s[i] \notin {Percent, Equals, Ampersand, Question}
UriKeeps ==
  LET c == set_uri(text)
  IN  c # Aborted /\ trim(text) # <<>> /\ Plainly(c.prefix \o c.name) /\ (\A k \in DOMAIN c.params : Plainly(k))
      /\ (\A k \in DOMAIN c.params : \A i \in DOMAIN c.params[k].val : c.params[k].val[i] < 128) =>
        /\ set_uri(uri_text(c)) = c
        /\ value_text(c) = uri_text(c)
        /\ \A k \in DOMAIN c.params : \A v \in {<<>>, <<Percent>>, <<Equals, 97>>} :
             LET d == [c EXCEPT !.params = replace_param(@, <<[key |-> k, val |-> v, lvl |-> URILVL.DEFAULT],
                                                             [key |-> k, val |-> v, lvl |-> URILVL.URICFG]>>)]
             IN  set_uri(uri_text(d)).params[k].val = v

\* StringUtility::split cuts the string at every delimiter and only there;
\* the form for files cuts at line ends too.
RECURSIVE Joined(_, _)
Joined(tokens, delim) ==
  IF Len(tokens) = 1 THEN tokens[1] ELSE tokens[1] \o <<delim>> \o Joined(Tail(tokens), delim)
SplitsExactly ==
  \A delim \in {44, 48} :
    LET tokens == StringSplit(text, delim)
    IN  /\ Joined(tokens, delim) = CStr(text)
        /\ \A i \in DOMAIN tokens : \A j \in DOMAIN tokens[i] : tokens[i][j] # delim
        /\ split_lines(text, delim) = FlattenSeq([i \in DOMAIN tokens |-> StringSplit(tokens[i], 10)])

\* A 64-bit integer is read from a string exactly when the whole string denotes
\* one that fits, and with a count exactly when the first count characters do.
CastExact ==
  \A signed \in BOOLEAN :
    /\ cast(text, 0, signed, LongBits) = Denoted(CStr(text), signed, LongBits)
    /\ \A n \in 1..Len(CStr(text)) : cast(text, n, signed, LongBits) = Denoted(SubSeq(text, 1, n), signed, LongBits)
=============================================================================
