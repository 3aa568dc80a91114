--------------------------- MODULE MasterBarrier ---------------------------
(***************************************************************************)
(* MasterClient::barrier, run again and again under one name by as many    *)
(* processes as it is called for, against the Master.  Each arrival is a   *)
(* generated child of <base>/node; the last to arrive creates <base>/ready *)
(* and removes it when all others have left.                               *)
(***************************************************************************)
EXTENDS Naturals, FiniteSets, Sequences, FiniteSetsExt, TLC

CONSTANTS Client,    \* the participants, number = Cardinality(Client)
          Rounds,    \* bound: calls of barrier per participant
          Base, NodeKey, ReadyKey,   \* names of the barrier's nodes
          NoOwner

ASSUME RoundsAssumption == Rounds \in Nat \ {0} /\ IsFiniteSet(Client)
ASSUME NamesAssumption == NodeKey # ReadyKey /\ NoOwner \notin Client

number == Cardinality(Client)
base_path == <<Base>>
node_path == <<Base, NodeKey>>
ready_path == <<Base, ReadyKey>>

VARIABLES
  node, genId, conn, watchers, sent, reply, exiting, up,   \* of the Master
  inbox,    \* the notified paths whose callbacks each client has to run
  pc,       \* where each participant stands
  gen,      \* its generated child
  watches,  \* the paths it watches
  woken,    \* participants whose AsyncWatcher moved on since their last look
  entered,  \* history: rounds in which it generated its child
  left      \* history: calls of barrier that returned

master == <<node, genId, conn, watchers, sent, reply, exiting, up>>
local == <<gen, watches, woken, entered, left>>
vars == <<master, inbox, pc, local>>

M == INSTANCE Master WITH
  Key <- {Base, NodeKey, ReadyKey}, Value <- {Base},
  Path <- {base_path, node_path, ready_path}, GenLimit <- Rounds * number

\* The participants are connected when the barrier is first used.
Init ==
  /\ node = [p \in {<<>>} |-> [owner |-> NoOwner, value |-> Base, sub |-> {}]]
  /\ genId = [p \in {} |-> 0] /\ conn = Client /\ watchers = Client
  /\ sent = M!Nothing /\ reply = M!NoReply /\ exiting = FALSE /\ up = TRUE
  /\ inbox = [c \in Client |-> {}]
  /\ pc = [c \in Client |-> "idle"] /\ gen = [c \in Client |-> 0]
  /\ watches = [c \in Client |-> {}] /\ woken = {}
  /\ entered = [c \in Client |-> 0] /\ left = [c \in Client |-> 0]

Goto(c, s) == pc' = [pc EXCEPT ![c] = s]
Prefix(p, q) == Len(p) <= Len(q) /\ SubSeq(q, 1, Len(p)) = p
\* The watched paths among the prefixes of what the master sent in this step.
Receive ==
  inbox' = [c \in Client |-> inbox[c] \cup
              {w \in {node_path, ready_path} : \E p \in sent'[c] : Prefix(w, p)}]
Quiet ==
  /\ sent' = M!Nothing /\ reply' = M!NoReply
  /\ UNCHANGED <<node, genId, conn, watchers, exiting, up>>
Ok == reply'.status = "OK"

-----------------------------------------------------------------------------
\* A request whose answer decides where to go on.
Ask(c, from, yes, no) == pc[c] = from /\ Receive /\ Goto(c, IF Ok THEN yes ELSE no)

\* tree_watch(ready_path), and AsyncWatcher::wait reads the version
Enter(c) ==
  /\ pc[c] = "idle" /\ left[c] < Rounds
  /\ watches' = [watches EXCEPT ![c] = {ready_path}] /\ woken' = woken \ {c}
  /\ Goto(c, "fresh")
  /\ Quiet /\ UNCHANGED <<inbox, gen, entered, left>>

\* As barrier would be without the wait for the previous round's ready node.
FreshSkipped(c) ==
  /\ pc[c] = "fresh" /\ Goto(c, "base")
  /\ Quiet /\ UNCHANGED <<inbox, local>>

\* wait for the previous round's ready node to go
Fresh(c) ==
  /\ M!master_get(c, ready_path) /\ Ask(c, "fresh", "freshwait", "base")
  /\ UNCHANGED local

AddBase(c) ==
  /\ M!master_add(c, base_path, Base, FALSE) /\ Ask(c, "base", "node", "node")
  /\ UNCHANGED local
AddNode(c) ==
  /\ M!master_add(c, node_path, Base, FALSE) /\ Ask(c, "node", "gen", "gen")
  /\ UNCHANGED local

Gen(c) ==
  /\ M!master_gen(c, node_path, Base, TRUE) /\ Ask(c, "gen", "sub", "aborted")
  /\ gen' = IF Ok THEN [gen EXCEPT ![c] = CHOOSE k \in reply'.data : TRUE] ELSE gen
  /\ entered' = [entered EXCEPT ![c] = @ + 1]
  /\ UNCHANGED <<watches, woken, left>>

\* As it would be if every arrival that sees a full room took the lead.
SubNoBack(c) ==
  /\ pc[c] = "sub"
  /\ M!master_sub(c, node_path) /\ Receive
  /\ Goto(c, IF ~Ok THEN "aborted"
             ELSE IF Cardinality(reply'.data) = number THEN "lead" ELSE "follow")
  /\ woken' = woken \ {c}
  /\ UNCHANGED <<gen, watches, entered, left>>

\* As it would be with an off-by-one in the count of the arrivals.
SubOneMore(c) ==
  /\ pc[c] = "sub"
  /\ M!master_sub(c, node_path) /\ Receive
  /\ Goto(c, IF ~Ok THEN "aborted"
             ELSE IF Cardinality(reply'.data) = number + 1 /\ gen[c] = Max(reply'.data)
             THEN "lead" ELSE "follow")
  /\ woken' = woken \ {c}
  /\ UNCHANGED <<gen, watches, entered, left>>

\* tree_node_sub; a follower's wait then reads the version
Sub(c) ==
  /\ pc[c] = "sub"
  /\ M!master_sub(c, node_path) /\ Receive
  /\ Goto(c, IF ~Ok THEN "aborted"
             ELSE IF Cardinality(reply'.data) = number /\ gen[c] = Max(reply'.data)
             THEN "lead" ELSE "follow")
  /\ woken' = woken \ {c}
  /\ UNCHANGED <<gen, watches, entered, left>>

\* the last arrival: watch the room, open the door, wait until it is alone
Lead(c) ==
  /\ pc[c] = "lead"
  /\ watches' = [watches EXCEPT ![c] = @ \cup {node_path}]
  /\ Goto(c, "open")
  /\ Quiet /\ UNCHANGED <<inbox, gen, woken, entered, left>>
Open(c) ==
  /\ M!master_add(c, ready_path, Base, TRUE) /\ Ask(c, "open", "alone", "aborted")
  /\ woken' = woken \ {c}
  /\ UNCHANGED <<gen, watches, entered, left>>

Alone(c) ==
  /\ pc[c] = "alone"
  /\ M!master_sub(c, node_path) /\ Receive
  /\ Goto(c, IF ~Ok THEN "aborted"
             ELSE IF Cardinality(reply'.data) = 1 THEN "delete" ELSE "alonewait")
  /\ UNCHANGED local

\* everybody else: wait for the door
Follow(c) ==
  /\ M!master_get(c, ready_path) /\ Ask(c, "follow", "leave", "followwait")
  /\ UNCHANGED local

\* watch(atom) returns once the version has changed
Wake(c) ==
  /\ c \in woken /\ woken' = woken \ {c}
  /\ \/ pc[c] = "freshwait" /\ Goto(c, "fresh")
     \/ pc[c] = "alonewait" /\ Goto(c, "alone")
     \/ pc[c] = "followwait" /\ Goto(c, "follow")
  /\ Quiet /\ UNCHANGED <<inbox, gen, watches, entered, left>>

\* the leader's child goes, then the ready node; a follower's child goes
DeleteOwn(c) ==
  /\ M!master_del(c, Append(node_path, gen[c])) /\ Ask(c, "delete", "close", "aborted")
  /\ watches' = [watches EXCEPT ![c] = @ \ {node_path}]
  /\ UNCHANGED <<gen, woken, entered, left>>
Close(c) ==
  /\ M!master_del(c, ready_path) /\ Ask(c, "close", "return", "aborted")
  /\ UNCHANGED local
Leave(c) ==
  /\ M!master_del(c, Append(node_path, gen[c])) /\ Ask(c, "leave", "return", "aborted")
  /\ UNCHANGED local
Return(c) ==
  /\ pc[c] = "return"
  /\ watches' = [watches EXCEPT ![c] = {}]
  /\ left' = [left EXCEPT ![c] = @ + 1]
  /\ Goto(c, "idle")
  /\ Quiet /\ UNCHANGED <<inbox, gen, woken, entered>>

\* run_cb
Callback(c) ==
  /\ \E w \in inbox[c] :
       /\ inbox' = [inbox EXCEPT ![c] = @ \ {w}]
       /\ woken' = IF w \in watches[c] THEN woken \cup {c} ELSE woken
  /\ Quiet /\ UNCHANGED <<pc, gen, watches, entered, left>>

Step(c) ==
  \/ Enter(c) \/ Fresh(c) \/ AddBase(c) \/ AddNode(c) \/ Gen(c) \/ Sub(c)
  \/ Lead(c) \/ Open(c) \/ Alone(c) \/ Follow(c) \/ Wake(c)
  \/ DeleteOwn(c) \/ Close(c) \/ Leave(c) \/ Return(c)

Next == \E c \in Client : Step(c) \/ Callback(c)

Spec == Init /\ [][Next]_vars

-----------------------------------------------------------------------------
\* It is a barrier: nobody returns from a round that somebody has not entered,
\* also when fast participants are already back for the next round.
NobodyLeavesEarly == \A c, d \in Client : left[c] <= entered[d]

\* No SCHECK of barrier fails; in particular at most one participant of a round
\* creates the ready node, and nobody's child or ready node is gone too early.
NoAbort == \A c \in Client : pc[c] # "aborted"

Asleep(c) == pc[c] \in {"freshwait", "alonewait", "followwait"} /\ c \notin woken /\ inbox[c] = {}

\* Nobody is left behind: as long as a round is unfinished somebody is awake or
\* about to be woken.  The door is not closed before each participant has seen it
\* open, and no wake-up is lost between a look at the tree and the sleep.
NotAllAsleep ==
  \/ \E c \in Client : ~Asleep(c) /\ left[c] < Rounds
  \/ \A c \in Client : left[c] = Rounds

\* Nobody leaves barrier before all have come, no assertion of it fails, and
\* the participants are never all asleep with nobody to wake them.
BarrierSound == NobodyLeavesEarly /\ NoAbort /\ NotAllAsleep

\* The participants are interchangeable.
Symmetry == Permutations(Client)
=============================================================================
