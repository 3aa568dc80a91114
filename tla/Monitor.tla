------------------------------- MODULE Monitor -------------------------------
(***************************************************************************)
(* The timer of src/common/Monitor.h: a worker thread runs one-shot and    *)
(* periodic events in the order of their times; any thread may submit an   *)
(* event, cancel one and wait until a cancelled one is certainly not       *)
(* running any more. Time is a small counter.                              *)
(***************************************************************************)
EXTENDS Integers, Sequences, FiniteSets, SequencesExt

CONSTANTS MaxEvents,   \* bound: events submitted
          Delays,      \* delays of a submission
          Periods,     \* periods, 0 for a one-shot event
          MaxTime      \* bound on the clock

Id == 1..MaxEvents
Awake == -1            \* the worker is not in a wait
Never == MaxTime + 1   \* the worker is in a wait without a time limit

VARIABLES now,
          nextId,      \* _next_id
          active,      \* keys of _active_events
          next,        \* id -> Event::next
          period,      \* id -> Event::period
          queue,       \* _event_queue, first to last
          running,     \* the event whose handler runs, 0 if none
          canceled,    \* events with canceled set
          alarm,       \* when the worker's wait ends
          done,        \* _done
          ended,       \* the worker has left thread_run
          waits,       \* events some thread is waiting for in wait_complete
          asleep,      \* those whose waiter sleeps
          rerun,       \* events destroy_with_additional_run waits for
          gone,        \* ghost: events whose destroy has been waited for
          runs,        \* ghost: id -> handler calls
          tied,        \* ghost: events whose time a destroyed event had
          corrupt      \* an erased event has been read

vars == <<now, nextId, active, next, period, queue, running, canceled, alarm, done, ended,
          waits, asleep, rerun, gone, runs, tied, corrupt>>

Init ==
    /\ now = 0 /\ nextId = 1
    /\ active = {} /\ queue = <<>> /\ canceled = {}
    /\ next = [i \in Id |-> 0] /\ period = [i \in Id |-> 0]
    /\ running = 0 /\ alarm = Awake
    /\ done = FALSE /\ ended = FALSE
    /\ waits = {} /\ asleep = {} /\ rerun = {} /\ gone = {} /\ tied = {}
    /\ runs = [i \in Id |-> 0]
    /\ corrupt = FALSE

\* The multiset: an event goes behind those of its own time.
Insert(q, nx, i) == SelectSeq(q, LAMBDA j : nx[j] <= nx[i]) \o <<i>>
                    \o SelectSeq(q, LAMBDA j : nx[j] > nx[i])

\* _wake_up.notify_all
Notify == alarm' = Awake /\ asleep' = {}

-----------------------------------------------------------------------------
SubmitAt(delay, p) ==
    /\ nextId \in Id
    /\ next' = [next EXCEPT ![nextId] = now + delay]
    /\ period' = [period EXCEPT ![nextId] = p]
    /\ active' = active \cup {nextId}
    /\ queue' = Insert(queue, next', nextId)
    /\ nextId' = nextId + 1
    /\ Notify

Submit ==
    /\ ~done
    /\ \E delay \in Delays, p \in Periods : now + delay <= MaxTime /\ SubmitAt(delay, p)
    /\ UNCHANGED <<now, running, canceled, done, ended, waits, rerun, gone, runs, tied, corrupt>>

\* The multiset's erase takes a key: every event of that time goes with it.
EraseFromQueue(i) ==
    /\ queue' = SelectSeq(queue, LAMBDA j : next[j] # next[i])
    /\ tied' = tied \cup {j \in ToSet(queue) : j # i /\ next[j] = next[i]}

\* destroy, and the caller goes on to wait. (Mutant: a running event is
\* taken out at once.)
DestroyAtOnce(i) ==
    /\ i \in active /\ i \notin waits
    /\ EraseFromQueue(i)
    /\ active' = active \ {i}
    /\ waits' = waits \cup {i}
    /\ Notify
    /\ UNCHANGED <<now, nextId, next, period, running, canceled, done, ended, rerun, gone, runs,
                   corrupt>>

Destroy(i) ==
    /\ i \in active /\ i \notin waits
    /\ IF running = i
       THEN /\ canceled' = canceled \cup {i}
            /\ UNCHANGED <<active, queue, tied>>
       ELSE /\ EraseFromQueue(i)
            /\ active' = active \ {i}
            /\ UNCHANGED canceled
    /\ waits' = waits \cup {i}
    /\ Notify
    /\ UNCHANGED <<now, nextId, next, period, running, done, ended, rerun, gone, runs, corrupt>>

\* wait_complete
WaitSleep(i) ==
    /\ i \in waits \ asleep
    /\ i \in active
    /\ asleep' = asleep \cup {i}
    /\ UNCHANGED <<now, nextId, active, next, period, queue, running, canceled, alarm, done, ended,
                   waits, rerun, gone, runs, tied, corrupt>>

WaitReturns(i) ==
    /\ i \in waits \ asleep
    /\ i \notin active
    /\ waits' = waits \ {i}
    /\ gone' = gone \cup {i}
    /\ UNCHANGED <<now, nextId, active, next, period, queue, running, canceled, alarm, done, ended,
                   asleep, rerun, runs, tied, corrupt>>

\* destroy_with_additional_run: the event is cancelled and erased, and then
\* submitted once more from what the erased one held.
DestroyForRerun(i) ==
    /\ i \in active \ rerun
    /\ IF running = i
       THEN canceled' = canceled \cup {i} /\ UNCHANGED <<active, queue, tied>>
       ELSE EraseFromQueue(i) /\ active' = active \ {i} /\ UNCHANGED canceled
    /\ rerun' = rerun \cup {i}
    /\ UNCHANGED <<now, nextId, next, period, running, alarm, done, ended, waits, asleep, gone, runs,
                   corrupt>>

Resubmit(i) ==
    /\ i \in rerun \ active
    /\ rerun' = rerun \ {i}
    /\ corrupt' = TRUE
    /\ \E delay \in Delays : SubmitAt(delay, 0)
    /\ UNCHANGED <<now, running, canceled, done, ended, waits, gone, runs, tied>>

-----------------------------------------------------------------------------
(* The worker, which holds the mutex except in a wait and in a handler.    *)

WorkerUp == ~ended /\ running = 0 /\ (alarm = Awake \/ now >= alarm)

WorkerEnds ==
    /\ WorkerUp /\ done /\ queue = <<>>
    /\ ended' = TRUE
    /\ UNCHANGED <<now, nextId, active, next, period, queue, running, canceled, alarm, done,
                   waits, asleep, rerun, gone, runs, tied, corrupt>>

WorkerWaits ==
    /\ WorkerUp
    /\ queue = <<>> => ~done
    /\ queue # <<>> => now < next[Head(queue)]
    /\ alarm' = IF queue = <<>> THEN Never ELSE next[Head(queue)]
    /\ UNCHANGED <<now, nextId, active, next, period, queue, running, canceled, done, ended,
                   waits, asleep, rerun, gone, runs, tied, corrupt>>

WorkerStarts ==
    /\ WorkerUp
    /\ queue # <<>> /\ now >= next[Head(queue)]
    /\ running' = Head(queue)
    /\ queue' = Tail(queue)
    /\ alarm' = Awake
    /\ runs' = [runs EXCEPT ![running'] = @ + 1]
    /\ UNCHANGED <<now, nextId, active, next, period, canceled, done, ended,
                   waits, asleep, rerun, gone, tied, corrupt>>

\* The handler is over: forget the event or queue its next period.
\* (Mutant: a cancelled event that is periodic is queued once more.)
FinishedUncancelled(i) == period[i] = 0

Finished(i) == i \in canceled \/ period[i] = 0

WorkerFinishes ==
    /\ running # 0
    /\ running' = 0
    /\ IF Finished(running)
       THEN /\ active' = active \ {running}
            /\ Notify
            /\ UNCHANGED <<queue, next>>
       ELSE /\ next' = [next EXCEPT ![running] = @ + period[running]]
            /\ queue' = Insert(queue, next', running)
            /\ UNCHANGED <<active, alarm, asleep>>
    /\ UNCHANGED <<now, nextId, period, canceled, done, ended, waits, rerun, gone, runs, tied, corrupt>>

\* ~Monitor: fatal with a periodic event left; otherwise the worker drains.
Destructor ==
    /\ ~done /\ rerun = {}
    /\ \A i \in active : period[i] = 0
    /\ done' = TRUE
    /\ Notify
    /\ UNCHANGED <<now, nextId, active, next, period, queue, running, canceled, ended,
                   waits, rerun, gone, runs, tied, corrupt>>

Tick ==
    /\ now < MaxTime
    /\ now' = now + 1
    /\ UNCHANGED <<nextId, active, next, period, queue, running, canceled, alarm, done, ended,
                   waits, asleep, rerun, gone, runs, tied, corrupt>>

Worker == WorkerEnds \/ WorkerWaits \/ WorkerStarts \/ WorkerFinishes
Waiter(i) == WaitSleep(i) \/ WaitReturns(i)

Next ==
    \/ Submit \/ Worker \/ Destructor \/ Tick
    \/ \E i \in Id : Destroy(i) \/ Waiter(i) \/ DestroyForRerun(i) \/ Resubmit(i)

Spec == Init /\ [][Next]_vars

FairSpec == /\ Spec
            /\ WF_vars(Worker) /\ WF_vars(Tick)
            /\ \A i \in Id : WF_vars(Waiter(i))

-----------------------------------------------------------------------------
\* Once the waiter a destroy returned has come back, the event's handler is
\* not running and never runs again; and an event that is still active is
\* running or queued, unless it happened to have the very time of an event
\* destroyed before (the queue erases by time) or destroy_with_additional_run
\* has used an event it had erased.
DestroyedStaysGone ==
    /\ \A i \in gone : running # i /\ i \notin ToSet(queue)
    /\ ~corrupt => \A i \in active : running = i \/ i \in ToSet(queue) \/ i \in tied
    /\ running # 0 => running \in active

\* A thread that waits for a destroyed event comes back, and a one-shot event
\* that nobody destroys and no destroyed event's time hits runs exactly once.
Due(i) == i \in active /\ period[i] = 0
Served(i) == \/ runs[i] = 1 /\ i \notin active
             \/ i \in gone \cup waits \cup rerun \cup tied
             \/ corrupt
EveryEventRuns == []<>(waits = {}) /\ \A i \in Id : Due(i) ~> Served(i)
=============================================================================
