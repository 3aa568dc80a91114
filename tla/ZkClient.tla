------------------------------ MODULE ZkClient ------------------------------
(***************************************************************************)
(* src/rpc/ZkMasterClient.cpp with the watching of MasterClient.cpp: a     *)
(* process initializes a ZooKeeper client, waits until a node has its last *)
(* value (as wait_task_ready does), and finalizes the client, while the    *)
(* library's callback thread delivers events.                              *)
(*                                                                         *)
(* ZooKeeper is external: a watch fires once; a call fails when the        *)
(* connection is lost, whether or not it was carried out; watches outlive  *)
(* a reconnection; zookeeper_close waits for the callback thread. A call   *)
(* is one step that holds _mu.                                             *)
(***************************************************************************)
EXTENDS Naturals, Sequences

CONSTANTS MaxChanges,  \* the node's values are 0..MaxChanges; the last is waited for
          MaxLosses    \* bound: losses of the connection

VARIABLES version, armed, up, losses,  \* of ZooKeeper: the value, our watch, the connection
          events,      \* events to be delivered, oldest first
          connected,   \* _connected
          main, cb,    \* where the process and the callback thread are
          watching,    \* the process's watcher is in the table
          woken        \* the AsyncWatcher moved on since its last look

vars == <<version, armed, up, losses, events, connected, main, cb, watching, woken>>

Init ==
    /\ version = 0 /\ armed = FALSE /\ up = FALSE /\ losses = 0
    /\ events = <<>>
    /\ connected = FALSE
    /\ main = "start" /\ cb = "idle"
    /\ watching = FALSE /\ woken = FALSE

\* _mu is held across zookeeper_close, and nowhere else between two steps.
MuFree == main # "closing"
ConnectedMuFree == cb \notin {"get", "sub", "notify"}

server == <<version, up, losses>>

-----------------------------------------------------------------------------
(* ZooKeeper                                                               *)

Change ==
    /\ main # "start" /\ version < MaxChanges
    /\ version' = version + 1
    /\ armed' = FALSE
    /\ events' = IF armed THEN Append(events, "node") ELSE events
    /\ UNCHANGED <<up, losses, connected, main, cb, watching, woken>>

Lose ==
    /\ up /\ losses < MaxLosses
    /\ up' = FALSE
    /\ losses' = losses + 1
    /\ UNCHANGED <<version, armed, events, connected, main, cb, watching, woken>>

Reconnect ==
    /\ main \notin {"start", "failed", "done"}
    /\ ~up
    /\ up' = TRUE
    /\ events' = Append(events, "connected")
    /\ UNCHANGED <<version, armed, losses, connected, main, cb, watching, woken>>

\* The session expires while the connection is down: the process aborts.
Expire ==
    /\ ~up /\ losses > 0 /\ main \notin {"failed", "done", "aborted"} /\ MuFree
    /\ main' = "aborted" /\ connected' = FALSE
    /\ UNCHANGED <<server, armed, events, cb, watching, woken>>

-----------------------------------------------------------------------------
\* A call with its watch argument set: DISCONNECTED, or OK and the watch is set.
\* (Mutant: master_get without a watch.)
CallUnwatched == MuFree /\ UNCHANGED armed
Call == MuFree /\ armed' = (armed \/ (connected /\ up))
Ok == connected /\ up

\* initialize: zookeeper_init, and one wait of the timeout's length for the
\* connection. It fails when the timeout comes first.
Initialize ==
    /\ main = "start"
    /\ main' = "connecting"
    /\ UNCHANGED <<server, armed, events, connected, cb, watching, woken>>

Initialized ==
    /\ main = "connecting"
    /\ main' = IF connected THEN "watch" ELSE "failed"
    /\ UNCHANGED <<server, armed, events, connected, cb, watching, woken>>

\* tree_watch: into the table, then a master_get and a master_sub whose
\* results are ignored.
TreeWatch ==
    /\ main = "watch"
    /\ watching' = TRUE
    /\ main' = "watch_get"
    /\ UNCHANGED <<server, armed, events, connected, cb, woken>>

TreeWatchCall ==
    /\ main \in {"watch_get", "watch_sub"}
    /\ Call
    /\ main' = IF main = "watch_get" THEN "watch_sub" ELSE "wait"
    /\ UNCHANGED <<server, events, connected, cb, watching, woken>>

\* AsyncWatcher::wait: the version of the watcher is read, the condition
\* evaluated, with retries while the client is disconnected, and unless it
\* holds the process sleeps until the watcher moves on.
Wait ==
    /\ main = "wait"
    /\ woken' = FALSE
    /\ main' = "check"
    /\ UNCHANGED <<server, armed, events, connected, cb, watching>>

Check ==
    /\ main = "check"
    /\ Call
    /\ main' = CASE ~Ok -> "check"
                 [] Ok /\ version = MaxChanges -> "cancel"
                 [] OTHER -> "sleep"
    /\ UNCHANGED <<server, events, connected, cb, watching, woken>>

Wake ==
    /\ main = "sleep" /\ woken
    /\ main' = "wait"
    /\ UNCHANGED <<server, armed, events, connected, cb, watching, woken>>

\* cancle_watch: not while the callbacks of the table are being run.
Cancel ==
    /\ main = "cancel"
    /\ watching' = FALSE
    /\ main' = "finalize"
    /\ UNCHANGED <<server, armed, events, connected, cb, woken>>

\* finalize: no handler of a node event is running once _connected_mu is
\* had, and none will touch the client again; then zookeeper_close, with _mu
\* held. (Mutant: _connected is not reset first.)
FinalizeAtOnce ==
    /\ main = "finalize"
    /\ main' = "closing"
    /\ UNCHANGED <<server, armed, events, connected, cb, watching, woken>>

Finalize ==
    /\ main = "finalize" /\ ConnectedMuFree
    /\ connected' = FALSE
    /\ main' = "closing"
    /\ UNCHANGED <<server, armed, events, cb, watching, woken>>

\* zookeeper_close returns once the callback thread has come back.
Closed ==
    /\ main = "closing" /\ cb = "idle"
    /\ main' = "done"
    /\ events' = <<>>
    /\ UNCHANGED <<server, armed, connected, cb, watching, woken>>

-----------------------------------------------------------------------------
(* handle_event, on the callback thread                                    *)

Deliver ==
    /\ cb = "idle" /\ events # <<>> /\ main \notin {"failed", "done", "aborted"}
    /\ events' = Tail(events)
    /\ cb' = IF Head(events) = "connected" THEN "session" ELSE "node"
    /\ UNCHANGED <<server, armed, connected, main, watching, woken>>

SessionConnected ==
    /\ cb = "session" /\ MuFree
    /\ connected' = TRUE
    /\ cb' = "idle"
    /\ UNCHANGED <<server, armed, events, main, watching, woken>>

NodeEvent ==
    /\ cb = "node"
    /\ cb' = IF connected THEN "get" ELSE "idle"
    /\ UNCHANGED <<server, armed, events, connected, main, watching, woken>>

\* master_get and master_sub set the watches again, if they succeed.
NodeCall ==
    /\ cb \in {"get", "sub"}
    /\ Call
    /\ cb' = IF cb = "get" THEN "sub" ELSE "notify"
    /\ UNCHANGED <<server, events, connected, main, watching, woken>>

NotifyWatchers ==
    /\ cb = "notify"
    /\ woken' = (woken \/ watching)
    /\ cb' = "idle"
    /\ UNCHANGED <<server, armed, events, connected, main, watching>>

Main == \/ Initialize \/ Initialized \/ TreeWatch \/ TreeWatchCall \/ Wait \/ Check \/ Wake
        \/ Cancel \/ Finalize \/ Closed
Callback == Deliver \/ SessionConnected \/ NodeEvent \/ NodeCall \/ NotifyWatchers

Next == /\ main # "aborted"
        /\ Main \/ Callback \/ Change \/ Lose \/ Reconnect \/ Expire

\* Threads run, the connection comes back, the node gets its last value.
Fairness == /\ WF_vars(main # "aborted" /\ Main) /\ WF_vars(main # "aborted" /\ Callback)
            /\ WF_vars(main # "aborted" /\ Change) /\ WF_vars(main # "aborted" /\ Reconnect)
Spec == Init /\ [][Next]_vars /\ Fairness

-----------------------------------------------------------------------------
\* One-shot watches lose no change: whatever connections are lost while a
\* watch is set or set again, whoever waits for a value sees it, unless the
\* client never got connected or its session expired.
Seen == main \in {"finalize", "closing", "done", "failed", "aborted"}
ChangeIsSeen == <>Seen

\* finalize returns: handlers of node events never hold it up, whatever event
\* is under way. The one thing that does is a session that is reconnected
\* just then, whose handler waits for the mutex finalize holds.
FinalizeReturns == main = "finalize" ~> main \in {"done", "aborted"} \/ cb = "session"
=============================================================================
