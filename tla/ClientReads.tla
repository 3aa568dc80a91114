---------------------------- MODULE ClientReads ----------------------------
(***************************************************************************)
(* Two reads through a master client that others write under.              *)
(*                                                                         *)
(* MasterClient::alloc_role_rank (src/rpc/MasterClient.cpp): the processes *)
(* of a role agree on their ranks in it through a directory of the master, *)
(* which each of them first clears (tree_clear_path) of what an earlier    *)
(* run left there. The barrier between the phases is what module           *)
(* MasterBarrier shows it to be; it is called over and over by one name.   *)
(*                                                                         *)
(* ZkMasterClient::master_get(path, value): the length of the value is not *)
(* known, so the read is repeated with a buffer of the length the last     *)
(* read reported until the two agree. zoo_get (external) fills at most     *)
(* that much of the buffer. A value is a number of bytes that all carry    *)
(* its version.                                                            *)
(***************************************************************************)
EXTENDS Naturals, FiniteSets, FiniteSetsExt, Sequences, SequencesExt

CONSTANTS Process,     \* the global ranks of the role's processes
          Leftover,    \* ranks an earlier run may have left in the directory
          Rounds,      \* bound: allocations by the same processes
          Length,      \* the lengths values may have
          First,       \* the length tried first, 100 in the code
          MaxChanges   \* bound: changes of the value

VARIABLES dir,         \* the directory exists
          children,    \* the ranks in it
          pc, round,
          listed,      \* process -> the children tree_clear_path goes through
          inside,      \* processes that wait in the barrier
          all          \* process -> the ranks it was given

VARIABLES version, length,  \* the node's value
          reader, len, dataLength, buffer,
          value,            \* what was returned
          since             \* ghost: the versions of the value since the read began

rankVars == <<dir, children, pc, round, listed, inside, all>>
valueVars == <<version, length, reader, len, dataLength, buffer, value, since>>

-----------------------------------------------------------------------------
(* alloc_role_rank                                                         *)

role_num == Cardinality(Process)

RankInit ==
    /\ children \in SUBSET Leftover
    /\ dir \in BOOLEAN /\ (children # {} => dir)
    /\ pc = [p \in Process |-> "sub"] /\ round = [p \in Process |-> 1]
    /\ listed = [p \in Process |-> {}]
    /\ inside = {}
    /\ all = [p \in Process |-> <<>>]

\* tree_clear_path: list the directory, clear every child, delete the
\* directory, and again for as long as it is there.
ClearSub(p) ==
    /\ pc[p] = "sub"
    /\ listed' = [listed EXCEPT ![p] = IF dir THEN children ELSE {}]
    /\ pc' = [pc EXCEPT ![p] = IF dir THEN "children" ELSE "cleared"]
    /\ UNCHANGED <<dir, children, round, inside, all>>

ClearChild(p) ==
    /\ pc[p] = "children" /\ listed[p] # {}
    /\ LET c == Min(listed[p])
       IN  /\ children' = children \ {c}
           /\ listed' = [listed EXCEPT ![p] = @ \ {c}]
    /\ UNCHANGED <<dir, pc, round, inside, all>>

\* tree_node_del fails on a directory that is not empty, or gone.
ClearDir(p) ==
    /\ pc[p] = "children" /\ listed[p] = {}
    /\ dir' = (dir /\ children # {})
    /\ pc' = [pc EXCEPT ![p] = "sub"]
    /\ UNCHANGED <<children, round, listed, inside, all>>

\* The barrier: enter, and leave when everybody has entered.
Phase == {"cleared", "added", "read"}
After == [cleared |-> "add", added |-> "list", read |-> "done"]

BarrierLeave == [p \in Process |-> IF pc[p] \in Phase THEN After[pc[p]] ELSE pc[p]]

Barrier(p) ==
    /\ pc[p] \in Phase /\ p \notin inside
    /\ IF inside \cup {p} = Process
       THEN /\ inside' = {}
            /\ pc' = BarrierLeave
       ELSE inside' = inside \cup {p} /\ UNCHANGED pc
    /\ UNCHANGED <<dir, children, round, listed, all>>

AddDir(p) ==
    /\ pc[p] = "add"
    /\ dir' = TRUE
    /\ pc' = [pc EXCEPT ![p] = "add_rank"]
    /\ UNCHANGED <<children, round, listed, inside, all>>

AddRank(p) ==
    /\ pc[p] = "add_rank"
    /\ children' = IF dir THEN children \cup {p} ELSE children
    /\ pc' = [pc EXCEPT ![p] = IF dir /\ p \notin children THEN "added" ELSE "aborted"]
    /\ UNCHANGED <<dir, round, listed, inside, all>>

\* All ranks in order; the process aborts unless there are role_num.
\* (Mutant: no barrier after it.)
ListThenDone == "done"
ListThen == "read"

List(p) ==
    /\ pc[p] = "list"
    /\ all' = [all EXCEPT ![p] = SetToSortSeq(children, <)]
    /\ pc' = [pc EXCEPT ![p] = IF Cardinality(children) = role_num THEN ListThen ELSE "aborted"]
    /\ UNCHANGED <<dir, children, round, listed, inside>>

Again(p) ==
    /\ pc[p] = "done" /\ round[p] < Rounds
    /\ round' = [round EXCEPT ![p] = @ + 1]
    /\ pc' = [pc EXCEPT ![p] = "sub"]
    /\ UNCHANGED <<dir, children, listed, inside, all>>

RankNext == \E p \in Process : \/ ClearSub(p) \/ ClearChild(p) \/ ClearDir(p) \/ Barrier(p)
                               \/ AddDir(p) \/ AddRank(p) \/ List(p) \/ Again(p)

RankSpec == RankInit /\ [][RankNext]_rankVars

-----------------------------------------------------------------------------
(* master_get of a ZooKeeper client                                        *)

ValueInit ==
    /\ version = 1 /\ length \in Length
    /\ reader = "idle" /\ len = 0 /\ dataLength = First
    /\ buffer = <<>> /\ value = <<>> /\ since = {}

Text(v, n) == [i \in 1..n |-> v]

Change(n) ==
    /\ version <= MaxChanges
    /\ version' = version + 1 /\ length' = n
    /\ since' = IF reader = "reading" THEN since \cup {<<version', n>>} ELSE since
    /\ UNCHANGED <<reader, len, dataLength, buffer, value>>

Start ==
    /\ reader = "idle"
    /\ reader' = "reading"
    /\ since' = {<<version, length>>}
    /\ UNCHANGED <<version, length, len, dataLength, buffer, value>>

\* One turn of the loop: resize keeps what is in the buffer and pads with NUL
\* (0); one more byte than asked for ends the string. (Mutant: one read must
\* do.)
Resize(n) == [i \in 1..(n + 1) |-> IF i <= Len(buffer) THEN buffer[i] ELSE 0]

TurnsOnce(got, reported) == FALSE
Turns(got, reported) == got # reported

Read ==
    /\ reader = "reading"
    /\ LET room == Resize(dataLength)
           got == IF length <= dataLength THEN length ELSE dataLength
       IN  /\ buffer' = [i \in DOMAIN room |-> IF i <= got THEN version ELSE room[i]]
           /\ len' = got
           /\ dataLength' = length
           /\ reader' = IF Turns(got, length) THEN "reading" ELSE "done"
           /\ value' = IF Turns(got, length) THEN value
                       ELSE SelectSeq(buffer', LAMBDA b : b # 0)
    /\ UNCHANGED <<version, length, since>>

ValueNext == Start \/ Read \/ \E n \in Length : Change(n)
ValueSpec == ValueInit /\ [][ValueNext]_valueVars

-----------------------------------------------------------------------------
\* Everybody gets the same list, of exactly the role's processes, in every
\* round and whatever an earlier run left behind, so that the index of a
\* process in it is its rank; and no process ever aborts.
RanksAgree ==
    \A p \in Process :
        /\ pc[p] # "aborted"
        /\ pc[p] \in {"read", "done"} => all[p] = SetToSortSeq(Process, <)

\* What master_get returns is a value the node had during the read, whole and
\* of its length, if every one of them fits the first buffer or none was
\* shorter than one before it. (A long value followed by a short one leaves
\* bytes of the long one in the buffer, and they are returned too.)
Harmless == \/ \A v \in since : v[2] <= First
            \/ \A v, w \in since : v[1] < w[1] => v[2] <= w[2]
ReadsWhole == reader = "done" /\ Harmless => \E v \in since : value = Text(v[1], v[2])
=============================================================================
