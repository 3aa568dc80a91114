------------------------------ MODULE Configure ------------------------------
(***************************************************************************)
(* The configuration of an application (Configure.h, ConfigureHelper.h,    *)
(* ConfigureHelper.cpp, configure_checkers.h, and URIConfig as a custom    *)
(* node): a YAML document that is loaded, edited with set and given to the *)
(* load_config of a tree of nodes, which may have been loaded before.      *)
(*                                                                         *)
(* Root is the type of the tree as the PICO_*CONFIG macros declare it. A   *)
(* type is an int, a string, a ListNode of ints (ints) or of nodes (list), *)
(* a uri, a node with fields in the order of their names, or an enum,      *)
(* which has alternatives besides. A field has a type, a default, a        *)
(* checker and may be optional. A node holds the values of its own fields, *)
(* and an enum one value for each alternative and the key loaded last.     *)
(* A text is a string; Numeral and Decimal are the casts to a number and   *)
(* back. That yaml-cpp refuses to look up a key in a scalar is its         *)
(* behaviour as the code meets it. Help texts, JSON descriptions and       *)
(* logging are left out.                                                   *)
(***************************************************************************)
EXTENDS Integers, Sequences, FiniteSets, SequencesExt

CONSTANTS Root,     \* the type of the tree
          Files,    \* documents that Configure::load parses
          Edits,    \* what set is called with: a path and a text
          Numeral,  \* texts that denote numbers |-> the number
          Decimal   \* numbers |-> their text

VARIABLES config,   \* the document (_node of a Configure)
          node,     \* the tree (an object derived from ConfigNode)
          loaded,   \* the document that load_config was given last
          result,   \* what load_config did: "ok", "refused", "thrown", "aborted"
          clean     \* no load into this tree failed
vars == <<config, node, loaded, result, clean>>

-----------------------------------------------------------------------------
\* Documents: YAML nodes, and what Configure tells about them.
NullNode == [k |-> "null"]
Scalar(t) == [k |-> "scalar", text |-> t]
Sequence(s) == [k |-> "sequence", items |-> s]
Map(f) == [k |-> "map", keys |-> f]

has(c, key) == c.k = "map" /\ key \in DOMAIN c.keys
at(c, key) == IF has(c, key) THEN c.keys[key] ELSE NullNode

\* Configure::set: the maps on the way are made when they are missing.
RECURSIVE set(_, _, _)
set(c, path, t) ==
  IF path = <<>> THEN Scalar(t)
  ELSE LET keys == IF c.k = "map" THEN c.keys ELSE <<>>
           new == set(at(c, Head(path)), Tail(path), t)
       IN Map([x \in DOMAIN keys \cup {Head(path)} |-> IF x = Head(path) THEN new ELSE keys[x]])

-----------------------------------------------------------------------------
\* The checkers.
RangeCheckerCC(min, max, v) == min <= v /\ v <= max
RangeCheckerCO(min, max, v) == min <= v /\ v < max
RangeCheckerOO(min, max, v) == min < v /\ v < max
RangeCheckerOC(min, max, v) == min < v /\ v <= max
GreaterChecker(min, v) == min < v
GreaterEqualChecker(min, v) == min <= v
LessChecker(max, v) == v < max
LessEqualChecker(max, v) == v <= max
EqualChecker(x, v) == v = x
NotEqualChecker(x, v) == ~(v = x)
EnumChecker(S, v) == v \in S

RECURSIVE Holds(_, _)
ListNodeChecker(c, v) == \A i \in DOMAIN v : Holds(c, v[i])
ListSizeChecker(c, v) == Holds(c, Len(v))
NonEmptyListNodeChecker(c, v) == Len(v) # 0 /\ \A i \in DOMAIN v : Holds(c, v[i])
Holds(c, v) ==
  CASE c.k = "default" -> TRUE
    [] c.k = "CC" -> RangeCheckerCC(c.min, c.max, v)
    [] c.k = "CO" -> RangeCheckerCO(c.min, c.max, v)
    [] c.k = "OO" -> RangeCheckerOO(c.min, c.max, v)
    [] c.k = "OC" -> RangeCheckerOC(c.min, c.max, v)
    [] c.k = "gt" -> GreaterChecker(c.min, v) [] c.k = "ge" -> GreaterEqualChecker(c.min, v)
    [] c.k = "lt" -> LessChecker(c.max, v) [] c.k = "le" -> LessEqualChecker(c.max, v)
    [] c.k = "eq" -> EqualChecker(c.x, v) [] c.k = "ne" -> NotEqualChecker(c.x, v)
    [] c.k = "enum" -> EnumChecker(c.values, v)
    [] c.k = "each" -> ListNodeChecker(c.of, v) [] c.k = "size" -> ListSizeChecker(c.of, v)
    [] c.k = "nonempty" -> NonEmptyListNodeChecker(c.of, v)

-----------------------------------------------------------------------------
\* The tree as it is constructed, and check, which a list and a uri inherit
\* without anything to check, and an enum without its alternatives.
IsNode(type) == type.k \in {"node", "enum"}

RECURSIVE Fresh(_)
Fresh(type) ==
  [own |-> [n \in DOMAIN type.fields |->
              IF IsNode(type.fields[n].type) THEN Fresh(type.fields[n].type)
              ELSE type.fields[n].default],
   alts |-> [a \in DOMAIN type.alts |-> Fresh(type.alts[a].type)],
   key |-> ""]

RECURSIVE check(_, _)
check(type, val) ==
  IsNode(type) =>
    \A n \in DOMAIN type.fields :
      check(type.fields[n].type, val.own[n]) /\ Holds(type.fields[n].check, val.own[n])

-----------------------------------------------------------------------------
\* load_config: the new value, and how the call ended.  An int that cannot be
\* cast keeps its value; a missing optional field does, too.
End(val, how) == [val |-> val, how |-> how]

try_as(type, val, c) ==
  IF c.k # "scalar" \/ (type.k = "int" /\ c.text \notin DOMAIN Numeral) THEN End(val, "refused")
  ELSE End(IF type.k = "int" THEN Numeral[c.text] ELSE c.text, "ok")

RECURSIVE load_config(_, _, _)
template_config_loader(field, val, c, missing) ==
  IF missing THEN End(val, IF field.optional THEN "ok" ELSE "refused")
  ELSE load_config(field.type, val, c)

\* Mutant: a list only grows.
ResizeUp(val, n, fill) ==
  [i \in 1 .. (IF n < Len(val) THEN Len(val) ELSE n) |-> IF i <= Len(val) THEN val[i] ELSE fill]

\* A list is resized first; elements that stay are loaded over.
Resize(val, n, fill) == [i \in 1..n |-> IF i <= Len(val) THEN val[i] ELSE fill]
ListNode_load(of, val, c) ==
  LET items == IF c.k = "sequence" THEN c.items ELSE <<c>>
      Element(r, i) == IF r.how # "ok" THEN r
                       ELSE LET x == load_config(of, r.val[i], items[i])
                            IN End([r.val EXCEPT ![i] = x.val], x.how)
  IN FoldLeft(Element, End(Resize(val, Len(items), IF IsNode(of) THEN Fresh(of) ELSE 0), "ok"),
              [i \in 1..Len(items) |-> i])

ConfigNode_load(type, val, c) ==
  LET Field(r, n) ==
        IF r.how # "ok" THEN r
        ELSE LET x == template_config_loader(type.fields[n], r.val.own[n], at(c, n), ~has(c, n))
             IN End([r.val EXCEPT !.own[n] = x.val], x.how)
      r == FoldLeft(Field, End(val, "ok"), type.names)
  IN IF c.k = "scalar" /\ type.names # <<>> THEN End(val, "thrown")
     ELSE IF r.how = "ok" /\ ~check(type, r.val) THEN End(r.val, "refused")
     ELSE r

EnumNode_load(type, val, c) ==
  LET r == ConfigNode_load(type, val, c)
      key == at(c, "type").text
      v == [r.val EXCEPT !.key = key]
      alt == type.alts[key]
      x == load_config(alt.type, v.alts[key], c)
      w == [v EXCEPT !.alts[key] = x.val]
  IN IF r.how # "ok" THEN r
     ELSE IF c.k = "scalar" THEN End(r.val, "thrown")
     ELSE IF at(c, "type").k # "scalar" THEN End(r.val, "aborted")
     ELSE IF key \notin DOMAIN type.alts THEN End(v, "ok")
     ELSE IF x.how = "ok" /\ ~(check(alt.type, x.val) /\ Holds(alt.check, x.val))
          THEN End(w, "refused")
     ELSE End(w, x.how)

\* A uri takes nothing from a document.
URIConfig_load(val) == End(val, "ok")

load_config(type, val, c) ==
  CASE type.k \in {"int", "string"} -> try_as(type, val, c)
    [] type.k = "ints" -> ListNode_load([k |-> "int"], val, c)
    [] type.k = "list" -> ListNode_load(type.of, val, c)
    [] type.k = "node" -> ConfigNode_load(type, val, c)
    [] type.k = "enum" -> EnumNode_load(type, val, c)
    [] type.k = "uri" -> URIConfig_load(val)

-----------------------------------------------------------------------------
\* to_yaml: the tree as a document again.  A node without entries is left out;
\* an enum whose key is none of its alternatives throws, so it is not Writable.
RECURSIVE Writable(_, _)
Writable(type, val) ==
  CASE IsNode(type) ->
         /\ \A n \in DOMAIN type.fields : Writable(type.fields[n].type, val.own[n])
         /\ type.k = "enum" => /\ val.key \in DOMAIN type.alts
                               /\ Writable(type.alts[val.key].type, val.alts[val.key])
    [] type.k = "list" -> \A i \in DOMAIN val : Writable(type.of, val[i])
    [] OTHER -> TRUE

RECURSIVE to_yaml(_, _)
ListNode_yaml(of, val) ==
  Sequence(SelectSeq([i \in DOMAIN val |-> to_yaml(of, val[i])], LAMBDA y : y # NullNode))
ConfigNode_yaml(type, val) ==
  LET y == [n \in DOMAIN type.fields |-> to_yaml(type.fields[n].type, val.own[n])]
      kept == {n \in DOMAIN y : y[n] # NullNode}
  IN IF kept = {} THEN NullNode ELSE Map([n \in kept |-> y[n]])
\* Mutant: the alternative is not written.
EnumNode_yaml_own(type, val) == ConfigNode_yaml(type, val)
EnumNode_yaml(type, val) ==
  LET own == ConfigNode_yaml(type, val)
      alt == to_yaml(type.alts[val.key].type, val.alts[val.key])
      Keys(y) == IF y.k = "map" THEN DOMAIN y.keys ELSE {}
  IN Map([n \in Keys(own) \cup Keys(alt) \cup {"type"} |->
            IF n \in Keys(alt) THEN alt.keys[n]
            ELSE IF n = "type" THEN Scalar(val.key) ELSE own.keys[n]])
to_yaml(type, val) ==
  CASE type.k = "int" -> Scalar(Decimal[val])
    [] type.k \in {"string", "uri"} -> Scalar(val)
    [] type.k = "ints" -> ListNode_yaml([k |-> "int"], val)
    [] type.k = "list" -> ListNode_yaml(type.of, val)
    [] type.k = "node" -> ConfigNode_yaml(type, val)
    [] type.k = "enum" -> EnumNode_yaml(type, val)

-----------------------------------------------------------------------------
Init ==
  /\ config = NullNode /\ loaded = NullNode
  /\ node = Fresh(Root) /\ result = "none" /\ clean = TRUE

\* Configure::load: another document.
load(f) ==
  /\ result # "aborted" /\ config' = f
  /\ UNCHANGED <<node, loaded, result, clean>>

\* Configure::set, on a path through maps.
Edit(e) ==
  /\ result # "aborted"
  /\ config.k # "null" /\ \A i \in 1 .. Len(e.path) - 1 :
       FoldLeft(at, config, SubSeq(e.path, 1, i)).k \in {"map", "null"}
  /\ config' = set(config, e.path, e.text)
  /\ UNCHANGED <<node, loaded, result, clean>>

\* The application loads the document into its tree.
LoadConfig ==
  /\ result # "aborted" /\ config.k # "null"
  /\ LET r == load_config(Root, node, config)
     IN node' = r.val /\ result' = r.how /\ clean' = (clean /\ r.how = "ok")
  /\ loaded' = config
  /\ UNCHANGED config

Next == (\E f \in Files : load(f)) \/ (\E e \in Edits : Edit(e)) \/ LoadConfig
Spec == Init /\ [][Next]_vars

-----------------------------------------------------------------------------
\* What a document says about a tree: every entry that the tree has a field for.
RECURSIVE Says(_, _, _)
Says(c, type, val) ==
  LET items == IF c.k = "sequence" THEN c.items ELSE <<c>>
      Each(of) == Len(val) = Len(items) /\ \A i \in DOMAIN val : Says(items[i], of, val[i])
  IN CASE type.k = "int" -> Numeral[c.text] = val
       [] type.k = "string" -> c.text = val
       [] type.k = "ints" -> Each([k |-> "int"])
       [] type.k = "list" -> Each(type.of)
       [] IsNode(type) ->
            /\ \A n \in DOMAIN type.fields :
                 has(c, n) => Says(c.keys[n], type.fields[n].type, val.own[n])
            /\ type.k = "enum" =>
                 /\ val.key = c.keys["type"].text
                 /\ val.key \in DOMAIN type.alts =>
                      Says(c, type.alts[val.key].type, val.alts[val.key])
       [] OTHER -> TRUE

\* A load that succeeded took everything that the document says, whatever the tree
\* held before (a longer list, another alternative).
TakesAll == result = "ok" => Says(loaded, Root, node)

\* A tree that was loaded and is written with to_yaml can be loaded into a fresh
\* one, which then shows the same: to_yaml leaves out nothing that load_config or
\* a checker needs, although fields that the document omits keep older values.
\* After a load that failed this is lost: the check of a ListNode does not look at
\* its elements, so a refused element stays in a list that the next document omits.
RoundTrip ==
  clean /\ result = "ok" /\ Writable(Root, node) =>
    LET y == to_yaml(Root, node)
        r == load_config(Root, Fresh(Root), y)
    IN r.how = "ok" /\ Writable(Root, r.val) /\ to_yaml(Root, r.val) = y

\* Loading the same document again changes nothing and ends the same way, also
\* after a load that was refused halfway.
LoadsAgain ==
  result \in {"ok", "refused", "thrown"} => load_config(Root, node, loaded) = End(node, result)

\* Loading, editing and reloading a configuration.
ConfigureSound == TakesAll /\ RoundTrip /\ LoadsAgain
=============================================================================
