---------------------------- MODULE MasterLock ----------------------------
(***************************************************************************)
(* acquire_lock and release_lock of MasterClient.cpp, run by the threads   *)
(* of several client processes against the Master.  A lock is a node; a    *)
(* thread queues up with a generated ephemeral child and holds the lock    *)
(* when its child is the first.  Between two looks it sleeps on an         *)
(* AsyncWatcher, which the client's callback thread notifies.  A process   *)
(* may crash at any time; the master notices later.                        *)
(***************************************************************************)
EXTENDS Naturals, FiniteSets, Sequences, FiniteSetsExt

CONSTANTS Client,    \* client processes
          Threads,   \* threads per process
          Lock,      \* the lock's node
          MaxGen,    \* bound: acquire_lock calls over all threads
          MayCrash,  \* whether processes crash
          NoOwner

ThreadsAssumption ==
  /\ Threads \in Nat \ {0} /\ MaxGen \in Nat /\ MayCrash \in BOOLEAN
  /\ IsFiniteSet(Client) /\ NoOwner \notin Client

Thread == Client \X (1..Threads)
LockPath == <<Lock>>

VARIABLES
  node, genId, conn, watchers, sent, reply, exiting, up,   \* of the Master
  inbox,     \* clients with a notification in _cb_ch (more of them coalesce)
  pc,        \* where each thread stands
  gen,       \* its generated child
  watching,  \* threads with a callback in the WatcherTable
  woken,     \* threads whose AsyncWatcher moved on since they last looked at it
  acquired,  \* _acquired_lock of each client: the child it holds
  mtx        \* holder of _client_mtx

master == <<node, genId, conn, watchers, sent, reply, exiting, up>>
local == <<gen, watching, woken, acquired, mtx>>
vars == <<master, inbox, pc, local>>

M == INSTANCE Master WITH Key <- {Lock}, Value <- {Lock}, Path <- {LockPath}, GenLimit <- MaxGen

None == 0
Init ==
  /\ M!Init
  /\ inbox = {}
  /\ pc = [t \in Thread |-> "idle"] /\ gen = [t \in Thread |-> None]
  /\ watching = {} /\ woken = {}
  /\ acquired = [c \in Client |-> {}] /\ mtx = [c \in Client |-> None]

Goto(t, s) == pc' = [pc EXCEPT ![t] = s]
At(t, s) == pc[t] = s
\* What the master sent in this step joins the clients' callback queues.
Receive == inbox' = inbox \cup {c \in Client : sent'[c] # {}}
\* A step without the master: the output of its last step is consumed.
Quiet ==
  /\ sent' = M!Nothing /\ reply' = M!NoReply
  /\ UNCHANGED <<node, genId, conn, watchers, exiting, up>>

-----------------------------------------------------------------------------
\* initialize: connect to the master
Connect(c) ==
  /\ \A i \in 1..Threads : pc[<<c, i>>] = "idle"
  /\ M!Accept(c)
  /\ UNCHANGED <<inbox, pc, local>>

\* acquire_lock: tree_node_add(lock_path), whose answer is ignored
AddLockNode(t) ==
  /\ At(t, "idle") /\ M!Counter(LockPath) + Cardinality({u \in Thread : At(u, "gen")}) < MaxGen
  /\ M!master_add(t[1], LockPath, Lock, FALSE) /\ Receive
  /\ Goto(t, "gen") /\ UNCHANGED local

\* As acquire_lock would be with a name that is not ephemeral.
GenChildLasting(t) ==
  /\ At(t, "gen")
  /\ M!master_gen(t[1], LockPath, Lock, FALSE) /\ Receive
  /\ IF reply'.status = "OK"
     THEN gen' = [gen EXCEPT ![t] = CHOOSE k \in reply'.data : TRUE] /\ Goto(t, "watch")
     ELSE UNCHANGED gen /\ Goto(t, "aborted")
  /\ UNCHANGED <<watching, woken, acquired, mtx>>

\* tree_node_gen(lock_path, "", true) and SCHECK(!gen.empty())
GenChild(t) ==
  /\ At(t, "gen")
  /\ M!master_gen(t[1], LockPath, Lock, TRUE) /\ Receive
  /\ IF reply'.status = "OK"
     THEN gen' = [gen EXCEPT ![t] = CHOOSE k \in reply'.data : TRUE] /\ Goto(t, "watch")
     ELSE UNCHANGED gen /\ Goto(t, "aborted")
  /\ UNCHANGED <<watching, woken, acquired, mtx>>

\* tree_watch, and the first watch() of AsyncWatcher::wait
Watch(t) ==
  /\ At(t, "watch")
  /\ watching' = watching \cup {t} /\ woken' = woken \ {t}
  /\ Goto(t, "check")
  /\ Quiet /\ UNCHANGED <<inbox, gen, acquired, mtx>>

\* As the predicate would be with children.back() for children[0].
CheckBack(t) ==
  /\ At(t, "check")
  /\ M!master_sub(t[1], LockPath) /\ Receive
  /\ Goto(t, IF reply'.status # "OK" THEN "aborted"
             ELSE IF gen[t] = Max(reply'.data) THEN "cancel" ELSE "decide")
  /\ UNCHANGED local

\* the predicate: tree_node_sub and gen == children[0]
Check(t) ==
  /\ At(t, "check")
  /\ M!master_sub(t[1], LockPath) /\ Receive
  /\ Goto(t, IF reply'.status # "OK" THEN "aborted"
             ELSE IF gen[t] = Min(reply'.data) THEN "cancel" ELSE "decide")
  /\ UNCHANGED local

\* The predicate was false; watch(atom) locks the watcher's mutex.
Sleep(t) ==
  /\ At(t, "decide") /\ Goto(t, "sleep")
  /\ Quiet /\ UNCHANGED <<inbox, local>>

\* watch(atom) returns once the version has changed
Wake(t) ==
  /\ At(t, "sleep") /\ t \in woken
  /\ woken' = woken \ {t} /\ Goto(t, "check")
  /\ Quiet /\ UNCHANGED <<inbox, gen, watching, acquired, mtx>>

CancelWatch(t) ==
  /\ At(t, "cancel")
  /\ watching' = watching \ {t} /\ Goto(t, "emplace")
  /\ Quiet /\ UNCHANGED <<inbox, gen, woken, acquired, mtx>>

\* SCHECK(_acquired_lock.emplace(...).second) under _client_mtx
Emplace(t) ==
  /\ At(t, "emplace") /\ mtx[t[1]] = None
  /\ IF acquired[t[1]] = {}
     THEN acquired' = [acquired EXCEPT ![t[1]] = {gen[t]}] /\ Goto(t, "held")
     ELSE UNCHANGED acquired /\ Goto(t, "aborted")
  /\ Quiet /\ UNCHANGED <<inbox, gen, watching, woken, mtx>>

\* release_lock: the child is deleted and then forgotten, under _client_mtx
Release(t) ==
  /\ At(t, "held") /\ mtx[t[1]] = None
  /\ mtx' = [mtx EXCEPT ![t[1]] = t[2]]
  /\ Goto(t, IF acquired[t[1]] = {} THEN "aborted" ELSE "delete")
  /\ Quiet /\ UNCHANGED <<inbox, gen, watching, woken, acquired>>

DeleteUnlocked(t) ==
  /\ At(t, "delete")
  /\ M!master_del(t[1], Append(LockPath, CHOOSE k \in acquired[t[1]] : TRUE)) /\ Receive
  /\ Goto(t, IF reply'.status = "OK" THEN "erase" ELSE "aborted")
  /\ mtx' = [mtx EXCEPT ![t[1]] = None]
  /\ UNCHANGED <<gen, watching, woken, acquired>>

Delete(t) ==
  /\ At(t, "delete")
  /\ M!master_del(t[1], Append(LockPath, CHOOSE k \in acquired[t[1]] : TRUE)) /\ Receive
  /\ Goto(t, IF reply'.status = "OK" THEN "erase" ELSE "aborted")
  /\ UNCHANGED local

Erase(t) ==
  /\ At(t, "erase")
  /\ acquired' = [acquired EXCEPT ![t[1]] = {}] /\ mtx' = [mtx EXCEPT ![t[1]] = None]
  /\ Goto(t, "idle")
  /\ Quiet /\ UNCHANGED <<inbox, gen, watching, woken>>

-----------------------------------------------------------------------------
\* As the callback would be if it woke sleepers only, without the version.
CallbackNoVersion(c) ==
  /\ c \in inbox /\ inbox' = inbox \ {c}
  /\ woken' = woken \cup {t \in watching : t[1] = c /\ At(t, "sleep")}
  /\ Quiet /\ UNCHANGED <<pc, gen, watching, acquired, mtx>>

\* run_cb: notify_watchers of the client runs the callbacks registered on a
\* prefix of the path, so those of the lock's node.
Callback(c) ==
  /\ c \in inbox /\ inbox' = inbox \ {c}
  /\ woken' = woken \cup {t \in watching : t[1] = c}
  /\ Quiet /\ UNCHANGED <<pc, gen, watching, acquired, mtx>>

\* The process dies with all its threads; later the master closes its side.
Crash(c) ==
  /\ MayCrash /\ c \in conn /\ \E t \in Thread : t[1] = c /\ pc[t] # "dead"
  /\ pc' = [t \in Thread |-> IF t[1] = c THEN "dead" ELSE pc[t]]
  /\ inbox' = inbox \ {c}
  /\ watching' = {t \in watching : t[1] # c} /\ woken' = {t \in woken : t[1] # c}
  /\ Quiet /\ UNCHANGED <<gen, acquired, mtx>>

MasterNotices(c) ==
  /\ \A i \in 1..Threads : pc[<<c, i>>] = "dead"
  /\ M!Disconnect(c)
  /\ inbox' = inbox \cup {d \in Client \ {c} : sent'[d] # {}}
  /\ UNCHANGED <<pc, local>>

Step(t) ==
  \/ AddLockNode(t) \/ GenChild(t) \/ Watch(t) \/ Check(t) \/ Sleep(t) \/ Wake(t)
  \/ CancelWatch(t) \/ Emplace(t) \/ Release(t) \/ Delete(t) \/ Erase(t)

Next ==
  \/ \E t \in Thread : Step(t)
  \/ \E c \in Client : Connect(c) \/ Callback(c) \/ Crash(c) \/ MasterNotices(c)

Spec == Init /\ [][Next]_vars

-----------------------------------------------------------------------------
Queued == {"watch", "check", "decide", "sleep"}
Inside == {"cancel", "emplace", "held", "delete"}

\* At most one thread of all processes is between the grant of the lock and
\* its release, although each decided from an answer that was already old,
\* and although holders crash.
MutualExclusion ==
  \A t, u \in Thread : pc[t] \in Inside /\ pc[u] \in Inside => t = u

\* No SCHECK of acquire_lock or release_lock fails: above all, two threads of
\* one process that pass the lock on never meet in _acquired_lock.
NoAbort == \A t \in Thread : pc[t] # "aborted"

\* The lock is handed out in the order of the generated names: nobody overtakes
\* a live thread that queued up earlier.
InOrder ==
  \A t, u \in Thread :
    pc[t] \in Inside /\ pc[u] \in Queued => gen[t] < gen[u]

\* No wake-up is lost between a look at the tree and the sleep after it: a
\* thread whose turn has come while it was deciding to sleep, or while it slept,
\* has a callback coming or a version that moved on.
FirstIsWoken ==
  \A t \in Thread :
    pc[t] \in {"decide", "sleep"} /\ gen[t] = Min(node[LockPath].sub)
      => t \in woken \/ t[1] \in inbox

\* Nobody queues behind a child that will never go: each belongs to a thread that
\* is on its way through the lock, or to a crashed process whose connection the
\* master still has to notice.
NoAbandonedChild ==
  LockPath \in DOMAIN node =>
    \A k \in node[LockPath].sub : \E t \in Thread :
      /\ gen[t] = k
      /\ pc[t] \in Queued \cup Inside \/ (pc[t] = "dead" /\ t[1] \in conn)

\* At most one thread of all processes holds the distributed lock, in the order
\* in which they queued up, and no assertion fails, although processes crash; the
\* first in the queue is awake or is going to be woken, and no child is left in
\* the queue by a thread that went away.
LockSound == MutualExclusion /\ InOrder /\ NoAbort /\ FirstIsWoken /\ NoAbandonedChild
=============================================================================
