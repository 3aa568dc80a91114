---------------------------- MODULE MemoryStorage ----------------------------
(***************************************************************************)
(* The in-memory file tree of src/misc/MemoryStorage.h. A file is opened   *)
(* by path and closed by path, so what a close means depends on what is at *)
(* the path by then. Every operation runs under _mutex. Objects are        *)
(* numbered as they are made; object 0 stands for an empty value.          *)
(***************************************************************************)
EXTENDS Integers, Sequences, FiniteSets, SequencesExt

CONSTANTS Path,       \* the paths used: non-empty sequences of names
          Type, None, \* the types T that files are opened with, and that of an empty value
          Client,     \* users of the storage, each with at most one open file
          MaxObjects  \* bound: objects made

VARIABLES tree,       \* path of a node -> [status, readers, object, type]
          open,       \* client -> what it has open
          objects,    \* objects made so far
          removed,    \* ghost: paths removed while somebody had them open
          thrown      \* ghost: paths whose opening for writing threw

vars == <<tree, open, objects, removed, thrown>>

Nothing == [path |-> <<>>, object |-> 0, mode |-> "none"]
EmptyNode == [status |-> "CLOSED", readers |-> 0, object |-> 0, type |-> None]

Init == /\ tree = <<>>
        /\ open = [c \in Client |-> Nothing]
        /\ objects = 0 /\ removed = {} /\ thrown = {}

\* create_tree: every missing node on the way, and the last unless it exists.
create_tree(path) ==
    LET way == {SubSeq(path, 1, n) : n \in 1..Len(path)}
    IN  [p \in DOMAIN tree \cup way |-> IF p \in DOMAIN tree THEN tree[p] ELSE EmptyNode]

MkdirP(path) ==
    /\ path \notin DOMAIN tree
    /\ tree' = create_tree(path)
    /\ UNCHANGED <<open, objects, removed, thrown>>

\* open_read: not while the file is written, and only at the type stored.
OpenRead(c, path, t) ==
    /\ open[c] = Nothing
    /\ path \in DOMAIN tree /\ tree[path].status # "WRITE" /\ tree[path].type = t
    /\ tree' = [tree EXCEPT ![path].status = "READ", ![path].readers = @ + 1]
    /\ open' = [open EXCEPT ![c] = [path |-> path, object |-> tree[path].object, mode |-> "read"]]
    /\ UNCHANGED <<objects, removed, thrown>>

\* open_write: only a closed file. Mode "w" and an empty node get a new
\* object; otherwise the node's is used, and a wrong type throws after the
\* status was set. (Mutant: a file that is being read may be written.)
WritableRead(node) == node.status # "WRITE"

Writable(node) == node.status = "CLOSED"

OpenWrite(c, path, t, mode) ==
    LET made == create_tree(path)
        new == mode = "w" \/ made[path].object = 0
        node == IF new THEN [made[path] EXCEPT !.object = objects + 1, !.type = t, !.status = "WRITE"]
                ELSE [made[path] EXCEPT !.status = "WRITE"]
    IN  /\ open[c] = Nothing
        /\ Writable(made[path])
        /\ new => objects < MaxObjects
        /\ objects' = IF new THEN objects + 1 ELSE objects
        /\ tree' = [made EXCEPT ![path] = node]
        /\ IF node.type = t
           THEN /\ open' = [open EXCEPT ![c] = [path |-> path, object |-> node.object, mode |-> "write"]]
                /\ UNCHANGED thrown
           ELSE thrown' = thrown \cup {path} /\ UNCHANGED open
        /\ UNCHANGED removed

\* close by path: whatever is open there now.
Closed(node) ==
    IF node.status = "READ" /\ node.readers > 1 THEN [node EXCEPT !.readers = @ - 1]
    ELSE [node EXCEPT !.status = "CLOSED", !.readers = 0]

Close(c) ==
    LET path == open[c].path IN
    /\ open[c] # Nothing
    /\ open' = [open EXCEPT ![c] = Nothing]
    /\ tree' = IF path \in DOMAIN tree THEN [tree EXCEPT ![path] = Closed(@)] ELSE tree
    /\ UNCHANGED <<objects, removed, thrown>>

\* rmr: the node and everything below, open or not.
Below(path) == {p \in DOMAIN tree : IsPrefix(path, p)}

Rmr(path) ==
    /\ path \in DOMAIN tree
    /\ tree' = [p \in DOMAIN tree \ Below(path) |-> tree[p]]
    /\ removed' = removed \cup {p \in Below(path) : \E c \in Client : open[c].path = p}
    /\ UNCHANGED <<open, objects, thrown>>

\* finalize: everything goes.
Finalize ==
    /\ tree # <<>>
    /\ tree' = <<>>
    /\ removed' = removed \cup {p \in DOMAIN tree : \E c \in Client : open[c].path = p}
    /\ UNCHANGED <<open, objects, thrown>>

Next ==
    \/ \E p \in Path : MkdirP(p) \/ Rmr(p)
    \/ Finalize
    \/ \E c \in Client :
        \/ Close(c)
        \/ \E p \in Path, t \in Type : OpenRead(c, p, t) \/ \E m \in {"w", "a"} : OpenWrite(c, p, t, m)

Spec == Init /\ [][Next]_vars

-----------------------------------------------------------------------------
\* Files keep readers and writers apart: but for a path that was removed
\* while it was open, what a client has open is the object at its path, a
\* writer is alone with it, the node counts its readers exactly, and a node
\* marked as written has a writer, unless opening it threw. The nodes always
\* form a tree.
StorageSound ==
    /\ \A p \in DOMAIN tree : \A n \in 1..Len(p) : SubSeq(p, 1, n) \in DOMAIN tree
    /\ \A c \in Client : open[c] # Nothing /\ open[c].path \notin removed =>
        /\ open[c].path \in DOMAIN tree
        /\ open[c].object = tree[open[c].path].object
        /\ \A d \in Client \ {c} :
            open[d].object = open[c].object => open[c].mode = "read" /\ open[d].mode = "read"
    /\ \A p \in DOMAIN tree \ (removed \cup thrown) :
        LET users(m) == {c \in Client : open[c].path = p /\ open[c].mode = m}
        IN  /\ tree[p].readers = Cardinality(users("read"))
            /\ tree[p].status = "WRITE" <=> users("write") # {}
=============================================================================
