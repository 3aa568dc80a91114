---------------------------- MODULE ThreadGroup ----------------------------
(***************************************************************************)
(* The worker pool of src/thread/ThreadGroup.h and the AsyncReturn handed  *)
(* out for each task (AsyncReturn.h).  The task channel is used by its     *)
(* contract (module Channel): writes fail once it is closed, reads drain   *)
(* what it still holds.  One application thread owns the group; each task  *)
(* has one caller, which waits for its AsyncReturn.                        *)
(***************************************************************************)
EXTENDS Naturals, Sequences, FiniteSets, SequencesExt

CONSTANTS Task, Worker,
          Sizes,       \* thread_num of the constructor and of resize
          MaxResizes,  \* bound: calls of resize
          None

VARIABLES
  chan, closed,     \* _exec_chan
  workers,          \* the threads of _threads
  doing,            \* the task of each worker, or None
  wpc,              \* worker: "none", "read", "exec", "notify"
  ran,              \* how often each task was run
  returned,         \* AsyncReturnObject::_returned of each task
  tpc,              \* caller: "new", "refused", "wait", "asleep", "back"
  opc,              \* owner: "use", "join" (in resize), "leave" (in the destructor), "gone"
  resizes

vars == <<chan, closed, workers, doing, wpc, ran, returned, tpc, opc, resizes>>
owner == <<closed, workers, opc, resizes>>

Start(k) == /\ workers' \in {S \in SUBSET Worker : Cardinality(S) = k}
            /\ wpc' = [w \in Worker |-> IF w \in workers' THEN "read" ELSE "none"]

Init ==
  /\ chan = <<>> /\ closed = FALSE /\ resizes = 0 /\ opc = "use"
  /\ workers \in {S \in SUBSET Worker : Cardinality(S) \in Sizes}
  /\ wpc = [w \in Worker |-> IF w \in workers THEN "read" ELSE "none"]
  /\ doing = [w \in Worker |-> None]
  /\ ran = [t \in Task |-> 0] /\ returned = [t \in Task |-> FALSE]
  /\ tpc = [t \in Task |-> "new"]

\* async_exec(ret, func)
async_exec(t) ==
  /\ tpc[t] = "new" /\ opc # "gone"
  /\ IF closed THEN tpc' = [tpc EXCEPT ![t] = "refused"] /\ UNCHANGED chan
     ELSE tpc' = [tpc EXCEPT ![t] = "wait"] /\ chan' = Append(chan, t)
  /\ UNCHANGED <<owner, doing, wpc, ran, returned>>

\* AsyncReturnObject::wait: the predicate, at once or after the notify
wait(t) ==
  /\ tpc[t] = "wait"
  /\ tpc' = [tpc EXCEPT ![t] = IF returned[t] THEN "back" ELSE "asleep"]
  /\ UNCHANGED <<owner, chan, doing, wpc, ran, returned>>

\* run: read a task, execute it, notify its AsyncReturn; end when the channel is
\* closed and empty
Read(w) ==
  /\ wpc[w] = "read" /\ chan # <<>>
  /\ doing' = [doing EXCEPT ![w] = Head(chan)] /\ chan' = Tail(chan)
  /\ wpc' = [wpc EXCEPT ![w] = "exec"]
  /\ UNCHANGED <<owner, ran, returned, tpc>>
Exec(w) ==
  /\ wpc[w] = "exec" /\ ran' = [ran EXCEPT ![doing[w]] = @ + 1]
  /\ wpc' = [wpc EXCEPT ![w] = "notify"]
  /\ UNCHANGED <<owner, chan, doing, returned, tpc>>
\* As notify would be if it woke nobody.
NotifySilent(w) ==
  /\ wpc[w] = "notify" /\ returned' = [returned EXCEPT ![doing[w]] = TRUE]
  /\ wpc' = [wpc EXCEPT ![w] = "read"] /\ doing' = [doing EXCEPT ![w] = None]
  /\ UNCHANGED <<owner, chan, ran, tpc>>
notify(w) ==
  /\ wpc[w] = "notify" /\ returned' = [returned EXCEPT ![doing[w]] = TRUE]
  /\ tpc' = [tpc EXCEPT ![doing[w]] = IF @ = "asleep" THEN "wait" ELSE @]
  /\ wpc' = [wpc EXCEPT ![w] = "read"] /\ doing' = [doing EXCEPT ![w] = None]
  /\ UNCHANGED <<owner, chan, ran>>
\* As run would be if it ended on close before the channel is drained.
EndClosed(w) ==
  /\ wpc[w] = "read" /\ closed
  /\ wpc' = [wpc EXCEPT ![w] = "none"] /\ UNCHANGED <<owner, chan, doing, ran, returned, tpc>>
End(w) ==
  /\ wpc[w] = "read" /\ closed /\ chan = <<>>
  /\ wpc' = [wpc EXCEPT ![w] = "none"] /\ UNCHANGED <<owner, chan, doing, ran, returned, tpc>>

\* terminate, resize and the destructor close the channel; the last two join
terminate ==
  /\ opc = "use" /\ closed' = TRUE
  /\ UNCHANGED <<chan, workers, doing, wpc, ran, returned, tpc, opc, resizes>>
Close(to) ==
  /\ opc = "use" /\ closed' = TRUE /\ opc' = to
  /\ resizes' = IF to = "join" THEN resizes + 1 ELSE resizes
  /\ UNCHANGED <<chan, workers, doing, wpc, ran, returned, tpc>>
Joined == \A w \in workers : wpc[w] = "none"
\* As resize would be without its join.
ReopenUnjoined ==
  /\ opc = "join" /\ closed' = FALSE /\ opc' = "use"
  /\ \E k \in Sizes : Start(k)
  /\ UNCHANGED <<chan, doing, ran, returned, tpc, resizes>>
Reopen ==
  /\ opc = "join" /\ Joined /\ closed' = FALSE /\ opc' = "use"
  /\ \E k \in Sizes : Start(k)
  /\ UNCHANGED <<chan, doing, ran, returned, tpc, resizes>>
Gone ==
  /\ opc = "leave" /\ Joined /\ opc' = "gone"
  /\ UNCHANGED <<chan, closed, workers, doing, wpc, ran, returned, tpc, resizes>>

Next ==
  \/ \E t \in Task : async_exec(t) \/ wait(t)
  \/ \E w \in Worker : Read(w) \/ Exec(w) \/ notify(w) \/ End(w)
  \/ terminate \/ (resizes < MaxResizes /\ Close("join")) \/ Reopen \/ Close("leave") \/ Gone

Fairness ==
  /\ \A w \in Worker : WF_vars(Read(w) \/ Exec(w) \/ notify(w) \/ End(w))
  /\ \A t \in Task : WF_vars(wait(t))
  /\ WF_vars(Reopen \/ Gone)
Spec == Init /\ [][Next]_vars /\ Fairness

-----------------------------------------------------------------------------
\* wait returns only after the task ran, and a task runs once, through resize
\* and the destructor; when the group is gone nothing accepted is left.
RunsOnce ==
  /\ \A t \in Task : /\ ran[t] <= 1
                     /\ tpc[t] = "back" => ran[t] = 1
                     /\ opc = "gone" /\ tpc[t] \notin {"new", "refused"} => ran[t] = 1
  /\ \A w \in workers : wpc[w] = "none" => doing[w] = None

\* Every accepted task runs and its caller comes back, and a resize or a
\* destructor that waits for the threads ends.
NobodyWaits == \A t \in Task : tpc[t] \notin {"wait", "asleep"}
EveryoneComesBack ==
  /\ []<>NobodyWaits
  /\ opc \in {"join", "leave"} ~> opc \in {"use", "gone"}
=============================================================================
