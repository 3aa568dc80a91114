------------------------------ MODULE JsonDoc -------------------------------
(***************************************************************************)
(* A document that is edited through the members of basic_json, beside an  *)
(* earlier version of itself. A member is called on the node a pointer     *)
(* leads to; out is what the last call returned. Its iterators are         *)
(* const_iterator, which iterator and json_reverse_iterator wrap, and the  *)
(* iteration_proxy: an iterator of a value is a position in the map or     *)
(* vector, or the counter of primitive_iterator_t, 0 at the begin and 1    *)
(* past the end. A dereference that an assertion or a FATAL log stops is   *)
(* Exception("abort").                                                     *)
(***************************************************************************)
EXTENDS JsonText

\* Iterators
OneElement(v) == ~is_structured(v)  \* the default branch of every switch

\* As set_begin would be if null had an element.
set_begin_null(v) == 0
set_begin(v) == IF v.t = "null" THEN 1 ELSE 0
set_end(v) == IF OneElement(v) THEN 1 ELSE size(v)
increment(v, i) == i + 1
decrement(v, i) == i - 1

Member(v, i) == IF v.t = "object" THEN v.o[Keys(v)[i + 1]] ELSE v.a[i + 1]
deref(v, i) ==
  CASE is_structured(v) -> IF i = set_end(v) THEN Exception("abort") ELSE Member(v, i)
    [] v.t = "null" -> Exception("abort")
    [] OTHER -> IF i = 0 THEN v ELSE Exception("abort")
arrow(v, i) ==
  CASE is_structured(v) -> IF i = set_end(v) THEN Exception("abort") ELSE Member(v, i)
    [] OTHER -> IF i = 0 THEN v ELSE Exception("out_of_range")
\* The functions below answer an object iterator with a domain_error.
Ordered(v, answer) == IF v.t = "object" THEN Exception("domain_error") ELSE [t |-> "answer", is |-> answer]
equal(v, i, j) == i = j
less(v, i, j) == Ordered(v, i < j)
advance(v, i, n) == Ordered(v, i + n)
minus(v, i, j) == Ordered(v, i - j)
subscript(v, i, n) ==
  CASE v.t = "object" -> Exception("domain_error")
    [] v.t = "array" -> Member(v, i + n)
    [] v.t = "null" -> Exception("out_of_range")
    [] OTHER -> IF i = -n THEN v ELSE Exception("out_of_range")
key(v, i) == IF v.t = "object" THEN Keys(v)[i + 1] ELSE <<>>

\* iteration_proxy_internal counts its increments, for the keys of an array.
proxy_key(v, i, array_index) ==
  CASE v.t = "array" -> to_string(array_index) [] v.t = "object" -> key(v, i) [] OTHER -> <<>>

\* A reverse iterator holds the position one past the element it stands for.
rbegin(v) == set_end(v)
rend(v) == set_begin(v)
reverse_increment(v, i) == decrement(v, i)
reverse_value(v, i) == deref(v, decrement(v, i))
reverse_key(v, i) == key(v, decrement(v, i))

front(v) == deref(v, set_begin(v))
back(v) == deref(v, decrement(v, set_end(v)))
find(v, k) ==
  IF v.t = "object" /\ k \in DOMAIN v.o THEN (CHOOSE i \in 1..size(v) : Keys(v)[i] = k) - 1 ELSE set_end(v)

\* The constructor from a range of a value's iterators
FromRange(v, first, last) ==
  CASE v.t = "array" -> Arr(SubSeq(v.a, first + 1, last))
    [] v.t = "object" -> Obj([k \in {Keys(v)[i] : i \in (first + 1)..last} |-> v.o[k]])
    [] v.t \in {"null", "discarded", "error_type"} -> Exception("domain_error")
    [] OTHER -> IF first = 0 /\ last = 1 THEN v ELSE Exception("out_of_range")

\* for (it = begin; it != end; ++it) and for (it = rbegin; it != rend; ++it)
RECURSIVE Forward(_, _, _), Backward(_, _)
Forward(v, i, array_index) ==
  IF equal(v, i, set_end(v)) THEN <<>>
  ELSE <<[key |-> proxy_key(v, i, array_index), value |-> deref(v, i)]>>
       \o Forward(v, increment(v, i), array_index + 1)
Backward(v, i) ==
  IF equal(v, i, rend(v)) THEN <<>> ELSE <<reverse_value(v, i)>> \o Backward(v, reverse_increment(v, i))

-----------------------------------------------------------------------------
\* The document
CONSTANTS Leaves,     \* the values that are put into the document
          KeySet,     \* the keys
          MaxSize,    \* bound on the nodes of a document
          MaxOld,     \* bound on the nodes of the earlier version
          Written,    \* those of them that are put where a pointer leads
          Patches     \* the patches that are applied

VARIABLES doc, old, out
vars == <<doc, old, out>>

RECURSIVE Nodes(_), Paths(_)
Nodes(v) ==
  1 + (CASE v.t = "array" -> FoldSeq(LAMBDA x, s : Nodes(x) + s, 0, v.a)
         [] v.t = "object" -> FoldSeq(LAMBDA k, s : Nodes(v.o[k]) + s, 0, Keys(v))
         [] OTHER -> 0)
Paths(v) ==
  {<<>>} \cup
  (CASE v.t = "array" -> UNION {{<<to_string(i - 1)>> \o p : p \in Paths(v.a[i])} : i \in DOMAIN v.a}
     [] v.t = "object" -> UNION {{<<k>> \o p : p \in Paths(v.o[k])} : k \in DOMAIN v.o}
     [] OTHER -> {})
\* A node is replaced by what a member leaves of it.
Call(p, r) ==
  /\ doc' = Put(doc, p, r.v)
  /\ out' = r.ret
  /\ Nodes(doc') <= MaxSize
  /\ UNCHANGED old
Index == 0..1

Init == doc \in Leaves /\ old = Null /\ out = "true"
Keep == doc # old /\ Nodes(doc) <= MaxOld /\ old' = doc /\ UNCHANGED <<doc, out>>
PushBack == \E p \in Paths(doc), x \in Leaves : Call(p, push_back(get_checked(doc, p), x))
Add == \E p \in Paths(doc), k \in KeySet, x \in Leaves : Call(p, add(get_checked(doc, p), k, x))
PushPair == \E p \in Paths(doc), k \in KeySet, x \in Leaves : Call(p, push_pair(get_checked(doc, p), k, x))
SetKey == \E p \in Paths(doc), k \in KeySet, x \in Leaves : Call(p, AssignKey(get_checked(doc, p), k, x))
SetIndex == \E p \in Paths(doc), i \in Index, x \in Leaves : Call(p, AssignIndex(get_checked(doc, p), i, x))
EraseKey == \E p \in Paths(doc), k \in KeySet : Call(p, erase_key(get_checked(doc, p), k))
EraseIndex == \E p \in Paths(doc), i \in Index : Call(p, erase_index(get_checked(doc, p), i))
Erase ==
  \E p \in Paths(doc) :
    \E v \in {get_checked(doc, p)} :
      \E i \in set_begin(v)..set_end(v) : \E j \in i..set_end(v) : Call(p, EraseRange(v, i, j))
Insert ==
  \E p \in Paths(doc), x \in Leaves, n \in 1..2 :
    \E v \in {get_checked(doc, p)} : \E i \in set_begin(v)..set_end(v) : Call(p, insert(v, i, n, x))
Swap ==
  /\ old.t \in {"array", "object", "string"}
  /\ \E p \in Paths(doc) : Call(p, swap(get_checked(doc, p), old))
Retype == \E p \in Paths(doc), t \in {"object", "null"} : Call(p, Ok(OfType(t)))
Clear == \E p \in Paths(doc) : Call(p, Ok(clear(get_checked(doc, p))))
Modify ==
  \E keys \in UNION {[1..n -> [key : {TRUE}, k : KeySet] \cup [key : {FALSE}, i : Index]] : n \in 1..2},
     x \in Written : Call(<<>>, modify(doc, keys, x))
\* doc[ptr] = x for a pointer that may lead nowhere
PointerTokens == KeySet \cup {Dash, <<48>>, <<49>>}
Assign ==
  \E ptr \in UNION {[1..n -> PointerTokens] : n \in 1..2}, x \in Written :
    \E r \in {AssignUnchecked(doc, ptr, x)} : r.ret # "abort" /\ Call(<<>>, r)
Patch ==
  \E ops \in Patches :
    \E r \in {patch(doc, ops)} :
      /\ Raised(r) => r.e # "abort"
      /\ Call(<<>>, IF Raised(r) THEN Threw(doc) ELSE Ok(r))
Next ==
  \/ Keep \/ PushBack \/ Add \/ PushPair \/ SetKey \/ SetIndex \/ EraseKey \/ EraseIndex \/ Erase
  \/ Insert \/ Swap \/ Retype \/ Clear \/ Modify \/ Assign \/ Patch
Spec == Init /\ [][Next]_vars

-----------------------------------------------------------------------------
\* diff's documented invariant: the patch it makes turns the one document into
\* the other, whatever the two are.
Becomes(r, y) == ~Raised(r) /\ Eq(r, y)
Patched(x, y) == Becomes(patch(x, diff(x, y, <<>>)), y)
DiffPatch == Patched(old, doc) /\ Patched(doc, old)

\* What dump writes, indented or not, the parser reads as an equal document.
TextRoundTrip ==
  \A step \in {0, 4} : \A r \in {parse(dump(doc, step), NoCallback)} : r.ok /\ Eq(r.v, doc)

\* The parser's callback leaves out exactly what it answers false to.
RECURSIVE Filtered(_, _)
Filtered(v, cb) ==
  CASE v.t = "array" ->
         IF {"array_start", "array_end"} \cap cb # {} THEN Discarded
         ELSE Arr(SelectSeq([i \in DOMAIN v.a |-> Filtered(v.a[i], cb)], LAMBDA x : x.t # "discarded"))
    [] v.t = "object" ->
         IF {"object_start", "object_end"} \cap cb # {} THEN Discarded
         ELSE LET kept == {k \in DOMAIN v.o : "key" \notin cb /\ Filtered(v.o[k], cb).t # "discarded"}
              IN  Obj([k \in kept |-> Filtered(v.o[k], cb)])
    [] OTHER -> IF "value" \in cb THEN Discarded ELSE v
CallbackFilters ==
  \A cb \in {{e} : e \in {"object_start", "object_end", "array_start", "array_end", "key", "value"}} :
    \A r \in {parse(dump(doc, 0), cb)}, f \in {Filtered(doc, cb)} :
      r.ok /\ Eq(r.v, IF f.t = "discarded" THEN Null ELSE f)

\* unflatten undoes flatten, but for empty containers and for an object whose
\* first key is "0", which comes back as an array.
RECURSIVE Restorable(_)
Restorable(v) ==
  CASE v.t = "array" -> v.a # <<>> /\ \A i \in DOMAIN v.a : Restorable(v.a[i])
    [] v.t = "object" -> DOMAIN v.o # {} /\ Keys(v)[1] # ZeroToken /\ \A k \in DOMAIN v.o : Restorable(v.o[k])
    [] OTHER -> TRUE
FlattenRestores == Restorable(doc) => Eq(unflatten(flatten(doc)), doc)

\* Of two documents exactly one is less or they are equal.
OrderTotal ==
  Cardinality({r \in {"lt", "eq", "gt"} :
    CASE r = "lt" -> Less(old, doc) [] r = "eq" -> Eq(old, doc) [] OTHER -> Less(doc, old)}) = 1

\* A loop from begin to end visits every element once, under its key, and a loop
\* from rbegin to rend visits the same ones backwards; front, back, find, the
\* operators of random access, the range constructor and the one from a list
\* of pairs agree with the loop.
IterationExact ==
  \A p \in Paths(doc) : \A v \in {get_checked(doc, p)} : \A visited \in {Forward(v, set_begin(v), 0)} :
    LET n == Len(visited)
    IN  /\ n = size(v) /\ (empty(v) <=> visited = <<>>)
        /\ \A i \in 1..n : ~Raised(visited[i].value)
        /\ is_structured(v) => {p \o <<visited[i].key>> : i \in 1..n} = {q \in Paths(doc) : Len(q) = Len(p) + 1 /\ Front(q) = p}
        /\ is_structured(v) => \A i \in 1..n : visited[i].value = get_checked(doc, p \o <<visited[i].key>>)
        /\ Reverse(Backward(v, rbegin(v))) = [i \in 1..n |-> visited[i].value]
        /\ n > 0 => /\ front(v) = visited[1].value /\ back(v) = visited[n].value
                    /\ FromRange(v, set_begin(v), set_end(v)) = v
        /\ v.t # "object" => /\ minus(v, set_end(v), set_begin(v)).is = n
                             /\ advance(v, set_begin(v), n).is = set_end(v)
                             /\ less(v, set_begin(v), set_end(v)).is <=> n > 0
                             /\ \A i \in 1..n : subscript(v, set_begin(v), i - 1) = visited[i].value
        /\ v.t = "object" => /\ FromList([i \in 1..n |-> Arr(<<Str(visited[i].key), visited[i].value>>)]) = v
                             /\ \A i \in 1..n : /\ deref(v, find(v, visited[i].key)) = visited[i].value
                                                /\ reverse_key(v, i) = visited[i].key
        /\ \A i \in 1..n : arrow(v, set_begin(v) + i - 1) = visited[i].value

\* at(), has() and value() find exactly the node that the text of the keys, as it stands,
\* names as a pointer; a key without a slash or a tilde is its own token.
HasExactly ==
  \A keys \in UNION {[1..n -> KeySet \cup {<<48>>}] : n \in 1..2} :
    \A path \in {split(generate_pico_json_path(keys))} :
      /\ path.ok /\ ~Raised(at(doc, keys)) => (has(doc, keys) <=> path.ptr \in Paths(doc))
      /\ (\A i \in DOMAIN keys : {Slash, Tilde} \cap Range(keys[i]) = {}) => path.ptr = keys
      /\ doc.t = "object" /\ path.ptr \in Paths(doc) =>
           \A y \in {get_checked(doc, path.ptr)} : value(doc, path.ptr, y) = y

\* A call that answers false or throws has changed nothing, unless it is doc[ptr],
\* which leaves the members it created on the way.
RefusedChangesNothing == [][out' # "true" => doc' = doc \/ Assign]_vars
=============================================================================
