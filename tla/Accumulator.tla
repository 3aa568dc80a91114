----------------------------- MODULE Accumulator -----------------------------
(***************************************************************************)
(* The accumulators (src/accumulator): writer threads merge values into an *)
(* Accumulator of their own and flush it into the client of the process,   *)
(* whose send thread ships what is pending to the server and swaps the two *)
(* pending buffers, so that writers go on while a request is under way.    *)
(*                                                                         *)
(* An aggregator's content is the bag of the values merged into it, which  *)
(* tells a lost value and a doubled one apart; what the concrete           *)
(* aggregators keep of that bag is the business of module Aggregators.     *)
(* _pending_aggs_flag is a std::vector<bool>: setting one bit and          *)
(* appending another are a read and a write of a shared word, and          *)
(* add_aggregator does not hold the mutex that write holds.                *)
(*                                                                         *)
(* A synchronous call is never lost here (module RpcCall is about those),  *)
(* and a name has one type.                                                *)
(***************************************************************************)
EXTENDS Integers, Sequences, Bags

CONSTANTS Writer,      \* the writer threads, each with an Accumulator object
          Name,        \* accumulator names
          NameOf,      \* the name each writer's Accumulator has
          FlushFreq,   \* _flush_freq
          MaxWrites,   \* bound: values each writer writes
          MaxRounds,   \* bound: calls the main thread makes between two states of rest
          None

Main == "main"
SendThread == "sender"
Buffer == {0, 1}
Nothing == [n \in Name |-> EmptyBag]

VARIABLES
    at,         \* where each thread is
    local,      \* writer -> _agg, the bag not flushed yet
    cached,     \* writer -> _cached_count
    written,    \* writer -> values written so far
    word,       \* writer -> the flag word it has read
    client,     \* holder of _client_mutex, or None
    write,      \* holder of _write_mutex, or None
    size,       \* holder of _pending_agg_size_mutex, or None
    asleep,     \* threads waiting in _send_cond
    known,      \* names in _umap_name2id
    agg,        \* buffer -> name -> content of _pending_aggs
    flag,       \* buffer -> names whose _pending_aggs_flag is set
    cnt,        \* _write_pending_cnt
    idx,        \* _pending_aggs_idx
    sending,    \* aggs_idx2send
    closed,     \* _writer_closed
    started,    \* _started
    requests,   \* requests in the server dealer's queue
    server,     \* _umap_name2aggs: name -> content, for the names it has
    clients,    \* _client_count
    deferred,   \* wait_empty_reqs
    rounds,     \* calls of the main thread so far
    accepted,   \* ghost: name -> values the client's write has taken
    wiped       \* ghost: name -> values a reset or an erase has dropped

writers == <<local, cached, written, word>>
locks == <<client, write, size, asleep>>
pending == <<known, agg, flag, cnt, idx, sending, closed>>
remote == <<requests, server, clients, deferred>>
ghosts == <<accepted, wiped>>
vars == <<at, writers, locks, pending, started, remote, rounds, ghosts>>

Init ==
    /\ at = [w \in Writer |-> "ctor"] @@ (Main :> "idle") @@ (SendThread :> "none")
    /\ local = [w \in Writer |-> EmptyBag]
    /\ cached = [w \in Writer |-> 0]
    /\ written = [w \in Writer |-> 0]
    /\ word = [w \in Writer |-> {}]
    /\ client = None /\ write = None /\ size = None
    /\ asleep = {}
    /\ known = {}
    /\ agg = [b \in Buffer |-> Nothing]
    /\ flag = [b \in Buffer |-> {}]
    /\ cnt = [b \in Buffer |-> 0]
    /\ idx = 0 /\ sending = 0
    /\ closed = TRUE
    /\ started = FALSE
    /\ requests = <<>>
    /\ server = <<>>
    /\ clients = 0
    /\ deferred = 0
    /\ rounds = 0
    /\ accepted = Nothing /\ wiped = Nothing

Goto(t, place) == at' = [at EXCEPT ![t] = place]

-----------------------------------------------------------------------------
(* The Accumulator object of a writer.                                     *)

\* The constructor's add_aggregator: a name the client does not know gets a
\* slot in both buffers, each by reading and writing back a word of flags.
CtorKnown(w) ==
    /\ at[w] = "ctor" /\ client = None
    /\ NameOf[w] \in known
    /\ Goto(w, "idle")
    /\ UNCHANGED <<writers, locks, pending, started, remote, rounds, ghosts>>

CtorAdd(w) ==
    /\ at[w] = "ctor" /\ client = None /\ size = None
    /\ NameOf[w] \notin known
    /\ client' = w /\ size' = w
    /\ word' = [word EXCEPT ![w] = flag[0]]
    /\ Goto(w, "append0")
    /\ UNCHANGED <<local, cached, written, write, asleep, pending, started, remote, rounds, ghosts>>

Append0(w) ==
    /\ at[w] = "append0"
    /\ flag' = [flag EXCEPT ![0] = word[w]]
    /\ Goto(w, "read1")
    /\ UNCHANGED <<writers, locks, known, agg, cnt, idx, sending, closed, started, remote, rounds, ghosts>>

Read1(w) ==
    /\ at[w] = "read1"
    /\ word' = [word EXCEPT ![w] = flag[1]]
    /\ Goto(w, "append1")
    /\ UNCHANGED <<local, cached, written, locks, pending, started, remote, rounds, ghosts>>

Append1(w) ==
    /\ at[w] = "append1"
    /\ flag' = [flag EXCEPT ![1] = word[w]]
    /\ word' = [word EXCEPT ![w] = {}]
    /\ known' = known \cup {NameOf[w]}
    /\ client' = None /\ size' = None
    /\ Goto(w, "idle")
    /\ UNCHANGED <<local, cached, written, write, asleep, agg, cnt, idx, sending, closed,
                   started, remote, rounds, ghosts>>

\* Accumulator::write: merge the value, and flush when _flush_freq are cached.
Write(w) ==
    /\ at[w] = "idle"
    /\ written[w] < MaxWrites
    /\ written' = [written EXCEPT ![w] = @ + 1]
    /\ local' = [local EXCEPT ![w] = @ (+) SetToBag({<<w, written[w]>>})]
    /\ cached' = [cached EXCEPT ![w] = @ + 1]
    /\ Goto(w, IF FlushFreq > 0 /\ cached'[w] >= FlushFreq THEN "lookup" ELSE "idle")
    /\ UNCHANGED <<word, locks, pending, started, remote, rounds, ghosts>>

\* flush, also from the destructor (after which the writer writes no more).
Flush(w) ==
    /\ at[w] = "idle"
    /\ cached[w] > 0
    /\ Goto(w, "lookup")
    /\ UNCHANGED <<writers, locks, pending, started, remote, rounds, ghosts>>

\* AccumulatorClient::write: the name is looked up under _client_mutex...
Lookup(w) ==
    /\ at[w] = "lookup" /\ client = None
    /\ Goto(w, "merge")
    /\ UNCHANGED <<writers, locks, pending, started, remote, rounds, ghosts>>

\* flush_nonlock empties the local aggregator whatever the client answers.
Emptied(w) ==
    /\ local' = [local EXCEPT ![w] = EmptyBag]
    /\ cached' = [cached EXCEPT ![w] = 0]

\* ... and a closed writer takes nothing.
Refused(w) ==
    /\ at[w] = "merge" /\ write = None
    /\ closed
    /\ Emptied(w)
    /\ Goto(w, "idle")
    /\ UNCHANGED <<written, word, locks, pending, started, remote, rounds, ghosts>>

Merge(w) ==
    /\ at[w] = "merge" /\ write = None
    /\ ~closed
    /\ write' = w
    /\ agg' = [agg EXCEPT ![idx][NameOf[w]] = @ (+) local[w]]
    /\ word' = [word EXCEPT ![w] = flag[idx]]
    /\ accepted' = [accepted EXCEPT ![NameOf[w]] = @ (+) local[w]]
    /\ Goto(w, "mark")
    /\ UNCHANGED <<local, cached, written, client, size, asleep, known, flag, cnt, idx, sending,
                   closed, started, remote, rounds, wiped>>

Mark(w) ==
    /\ at[w] = "mark"
    /\ flag' = [flag EXCEPT ![idx] = word[w] \cup {NameOf[w]}]
    /\ word' = [word EXCEPT ![w] = {}]
    /\ cnt' = [cnt EXCEPT ![idx] = @ + 1]
    /\ asleep' = {}
    /\ write' = None
    /\ Emptied(w)
    /\ Goto(w, "idle")
    /\ UNCHANGED <<written, client, size, known, agg, idx, sending, closed, started, remote,
                   rounds, ghosts>>

-----------------------------------------------------------------------------
(* The send thread.                                                        *)

\* What send2server puts into a request, and the buffers it leaves behind.
Batch(b) == [n \in flag[b] |-> agg[b][n]]

send2server(b) ==
    /\ size = None
    /\ requests' = IF flag[b] = {} THEN requests
                   ELSE Append(requests, [op |-> "W", aggs |-> Batch(b), from |-> SendThread])
    /\ agg' = [agg EXCEPT ![b] = [n \in Name |-> IF n \in flag[b] THEN EmptyBag ELSE @[n]]]
    /\ flag' = [flag EXCEPT ![b] = {}]

\* The top of the loop: wait until something is pending or the writer closes.
SenderSleep ==
    /\ at[SendThread] = "loop" /\ write = None
    /\ SendThread \notin asleep
    /\ cnt[idx] = 0 /\ ~closed
    /\ asleep' = asleep \cup {SendThread}
    /\ UNCHANGED <<at, writers, client, write, size, pending, started, remote, rounds, ghosts>>

\* Something is pending: swap the buffers and send with the mutex released.
SwapAt(b) == 1 - b

Swap ==
    /\ at[SendThread] = "loop" /\ write = None
    /\ SendThread \notin asleep
    /\ cnt[idx] > 0
    /\ sending' = idx
    /\ idx' = SwapAt(idx)
    /\ Goto(SendThread, "swapped")
    /\ UNCHANGED <<writers, locks, known, agg, flag, cnt, closed, started, remote, rounds, ghosts>>

SendSwapped ==
    /\ at[SendThread] = "swapped"
    /\ send2server(sending)
    /\ Goto(SendThread, IF flag[sending] = {} THEN "sent" ELSE "calling")
    /\ UNCHANGED <<writers, locks, known, cnt, idx, sending, closed, started,
                   server, clients, deferred, rounds, ghosts>>

\* After the answer: the sent buffer counts as empty. (Mutant: the buffer in
\* use by then is the one whose counter is cleared.)
AcknowledgeCurrent ==
    /\ cnt' = [cnt EXCEPT ![idx] = 0]
    /\ asleep' = {}

Acknowledge ==
    /\ cnt' = [cnt EXCEPT ![sending] = 0]
    /\ asleep' = {}

Sent ==
    /\ at[SendThread] = "sent" /\ write = None
    /\ Acknowledge
    /\ Goto(SendThread, IF closed THEN "closing" ELSE "loop")
    /\ write' = IF closed THEN SendThread ELSE None
    /\ UNCHANGED <<writers, client, size, known, agg, flag, idx, sending, closed, started,
                   remote, rounds, ghosts>>

\* Closed with nothing pending in the current buffer.
SeesClosed ==
    /\ at[SendThread] = "loop" /\ write = None
    /\ SendThread \notin asleep
    /\ cnt[idx] = 0 /\ closed
    /\ write' = SendThread
    /\ Goto(SendThread, "closing")
    /\ UNCHANGED <<writers, client, size, asleep, pending, started, remote, rounds, ghosts>>

\* The last batch goes out with the mutex held.
SendLast ==
    /\ at[SendThread] = "closing"
    /\ cnt[idx] > 0
    /\ send2server(idx)
    /\ Goto(SendThread, IF flag[idx] = {} THEN "last" ELSE "calling last")
    /\ UNCHANGED <<writers, locks, known, cnt, idx, sending, closed, started,
                   server, clients, deferred, rounds, ghosts>>

SenderEnds ==
    /\ \/ at[SendThread] = "closing" /\ cnt[idx] = 0 /\ UNCHANGED <<cnt, asleep>>
       \/ at[SendThread] = "last" /\ cnt' = [cnt EXCEPT ![idx] = 0] /\ asleep' = {}
    /\ write' = None
    /\ Goto(SendThread, "ended")
    /\ UNCHANGED <<writers, client, size, known, agg, flag, idx, sending, closed, started,
                   remote, rounds, ghosts>>

-----------------------------------------------------------------------------
(* The main thread: initialize, wait_empty, finalize and single requests.  *)

Call(op) == requests' = Append(requests, [op |-> op, aggs |-> <<>>, from |-> Main])

Initialize ==
    /\ at[Main] = "idle" /\ ~started /\ client = None
    /\ rounds < MaxRounds
    /\ rounds' = rounds + 1
    /\ client' = Main
    /\ Call("0")
    /\ Goto(Main, "calling start")
    /\ UNCHANGED <<writers, write, size, asleep, pending, started, server, clients, deferred, ghosts>>

\* initialize_writer, once the server has answered.
InitializeWriter ==
    /\ at[Main] = "start" /\ write = None
    /\ started' = TRUE
    /\ closed' = FALSE
    /\ asleep' = {}
    /\ client' = None
    /\ at' = [at EXCEPT ![Main] = "idle", ![SendThread] = "loop"]
    /\ UNCHANGED <<writers, write, size, known, agg, flag, cnt, idx, sending, remote, rounds, ghosts>>

WaitEmpty ==
    /\ at[Main] = "idle" /\ started /\ client = None
    /\ rounds < MaxRounds
    /\ rounds' = rounds + 1
    /\ client' = Main
    /\ Goto(Main, "waiting")
    /\ UNCHANGED <<writers, write, size, asleep, pending, started, remote, ghosts>>

NonePending == closed \/ \A b \in Buffer : cnt[b] = 0

WaitSleep ==
    /\ at[Main] = "waiting" /\ write = None
    /\ Main \notin asleep
    /\ ~NonePending
    /\ asleep' = asleep \cup {Main}
    /\ UNCHANGED <<at, writers, client, write, size, pending, started, remote, rounds, ghosts>>

WaitReturns ==
    /\ at[Main] = "waiting" /\ write = None
    /\ Main \notin asleep
    /\ NonePending
    /\ client' = None
    /\ Goto(Main, "idle")
    /\ UNCHANGED <<writers, write, size, asleep, pending, started, remote, rounds, ghosts>>

\* (Mutant: the closing writer tells nobody.)
FinalizeSilently ==
    /\ at[Main] = "idle" /\ started /\ client = None /\ write = None
    /\ rounds < MaxRounds
    /\ rounds' = rounds + 1
    /\ client' = Main
    /\ closed' = TRUE
    /\ Goto(Main, "joining")
    /\ UNCHANGED <<writers, write, size, asleep, known, agg, flag, cnt, idx, sending, started,
                   remote, ghosts>>

\* finalize: close the writer, join the send thread, tell the server.
Finalize ==
    /\ at[Main] = "idle" /\ started /\ client = None /\ write = None
    /\ rounds < MaxRounds
    /\ rounds' = rounds + 1
    /\ client' = Main
    /\ closed' = TRUE
    /\ asleep' = {}
    /\ Goto(Main, "joining")
    /\ UNCHANGED <<writers, write, size, known, agg, flag, cnt, idx, sending, started, remote, ghosts>>

Joined ==
    /\ at[Main] = "joining" /\ at[SendThread] = "ended"
    /\ started' = FALSE
    /\ Call("1")
    /\ at' = [at EXCEPT ![Main] = "calling stop", ![SendThread] = "none"]
    /\ UNCHANGED <<writers, locks, pending, server, clients, deferred, rounds, ghosts>>

Finalized ==
    /\ at[Main] = "stop"
    /\ client' = None
    /\ Goto(Main, "idle")
    /\ UNCHANGED <<writers, write, size, asleep, pending, started, remote, rounds, ghosts>>

\* read, reset, erase, erase_all and AccumulatorServer::wait_empty take no
\* lock of the client; the name is irrelevant to the last two.
Ask(op, n) ==
    /\ at[Main] = "idle" /\ started
    /\ rounds < MaxRounds
    /\ rounds' = rounds + 1
    /\ requests' = Append(requests, [op |-> op, aggs |-> n, from |-> Main])
    /\ Goto(Main, "calling")
    /\ UNCHANGED <<writers, locks, pending, started, server, clients, deferred, ghosts>>

inner_read == \E n \in Name : Ask("R", n)
reset == \E n \in Name : Ask("C", n)
erase == \E n \in Name : Ask("E", n)
erase_all == Ask("A", None)
wait_empty == Ask("I", None)

-----------------------------------------------------------------------------
(* The server's process_request, one request at a time.                    *)

Has(n) == n \in DOMAIN server
ContentOf(n) == IF Has(n) THEN server[n] ELSE EmptyBag

\* Where the thread whose request is answered goes on.
Answered(place) ==
    CASE place = "calling"       -> "idle"
      [] place = "calling start" -> "start"
      [] place = "calling stop"  -> "stop"
      [] place = "calling last"  -> "last"
      [] OTHER                   -> place

Answer(t) == Goto(t, IF t = SendThread /\ at[t] = "calling" THEN "sent" ELSE Answered(at[t]))

\* The names of a batch are created or merged into.
\* (Mutant: a name the server has is replaced.)
process_write_replacing(aggs) ==
    server' = [n \in DOMAIN server \cup DOMAIN aggs |->
                  IF n \notin DOMAIN aggs THEN server[n] ELSE aggs[n]]

process_write_request(aggs) ==
    server' = [n \in DOMAIN server \cup DOMAIN aggs |->
                  IF n \notin DOMAIN aggs THEN server[n]
                  ELSE IF Has(n) THEN server[n] (+) aggs[n] ELSE aggs[n]]

Wipe(names) ==
    wiped' = [n \in Name |-> IF n \in names THEN wiped[n] (+) ContentOf(n) ELSE wiped[n]]

process_read_request(n) == UNCHANGED <<server, wiped>>

process_reset_request(n) ==
    /\ server' = IF Has(n) THEN [server EXCEPT ![n] = EmptyBag] ELSE server
    /\ Wipe({n})

process_erase_request(n) ==
    /\ server' = [m \in DOMAIN server \ {n} |-> server[m]]
    /\ Wipe({n})

process_erase_all_request ==
    /\ server' = <<>>
    /\ Wipe(Name)

process_start_request == clients' = clients + 1
process_stop_request == clients' = clients - 1

Serve ==
    /\ requests # <<>>
    /\ requests' = Tail(requests)
    /\ LET r == Head(requests) IN
       /\ \/ r.op = "W" /\ process_write_request(r.aggs) /\ UNCHANGED <<clients, deferred, wiped>>
          \/ r.op = "R" /\ process_read_request(r.aggs) /\ UNCHANGED <<clients, deferred>>
          \/ r.op = "C" /\ process_reset_request(r.aggs) /\ UNCHANGED <<clients, deferred>>
          \/ r.op = "E" /\ process_erase_request(r.aggs) /\ UNCHANGED <<clients, deferred>>
          \/ r.op = "A" /\ process_erase_all_request /\ UNCHANGED <<clients, deferred>>
          \/ r.op = "0" /\ process_start_request /\ UNCHANGED <<server, deferred, wiped>>
          \/ r.op = "1" /\ process_stop_request /\ UNCHANGED <<server, deferred, wiped>>
          \/ r.op = "I" /\ deferred' = deferred + 1 /\ UNCHANGED <<server, clients, wiped>>
       /\ IF r.op = "I" THEN UNCHANGED at ELSE Answer(r.from)
    /\ UNCHANGED <<writers, locks, pending, started, rounds, accepted>>

\* No request is left: those who wait for that are answered.
ServeDeferred ==
    /\ requests = <<>> /\ deferred > 0
    /\ deferred' = 0
    /\ Answer(Main)
    /\ UNCHANGED <<writers, locks, pending, started, requests, server, clients, rounds, ghosts>>

-----------------------------------------------------------------------------
WriterStep(w) ==
    \/ CtorKnown(w) \/ CtorAdd(w) \/ Append0(w) \/ Read1(w) \/ Append1(w)
    \/ Lookup(w) \/ Refused(w) \/ Merge(w) \/ Mark(w)

SenderStep ==
    \/ SenderSleep \/ Swap \/ SendSwapped \/ Sent \/ SeesClosed \/ SendLast \/ SenderEnds

MainStep == InitializeWriter \/ WaitSleep \/ WaitReturns \/ Joined \/ Finalized

ServerStep == Serve \/ ServeDeferred

Next ==
    \/ \E w \in Writer : WriterStep(w) \/ Write(w) \/ Flush(w)
    \/ SenderStep \/ MainStep \/ ServerStep
    \/ Initialize \/ WaitEmpty \/ Finalize
    \/ inner_read \/ reset \/ erase \/ erase_all \/ wait_empty

Spec == Init /\ [][Next]_vars

\* A thread that can go on does; nobody has to make another call.
FairSpec ==
    /\ Spec
    /\ \A w \in Writer : SF_vars(WriterStep(w))
    /\ WF_vars(SenderStep) /\ WF_vars(MainStep) /\ WF_vars(ServerStep)

-----------------------------------------------------------------------------
\* Every value the client has accepted is in exactly one place, exactly once:
\* in one of the two pending buffers, in the request under way, at the server,
\* or dropped by a reset or an erase the application asked for. (Swapping the
\* buffers, sending with the mutex released and creating or merging at the
\* server neither lose a value nor count it twice.)
InFlight(n) ==
    LET W == {i \in DOMAIN requests :
                 requests[i].op = "W" /\ n \in DOMAIN requests[i].aggs}
    IN  IF W = {} THEN EmptyBag ELSE requests[CHOOSE i \in W : TRUE].aggs[n]

CountedOnce ==
    \A n \in Name :
        accepted[n] = wiped[n] (+) ContentOf(n) (+) InFlight(n) (+) agg[0][n] (+) agg[1][n]

\* What the pending counters promise to wait_empty and to finalize: when both
\* are zero and nobody is inside write, everything accepted is at the server
\* (or was there when a reset or an erase dropped it), so that a read that
\* follows wait_empty misses nothing; and once the send thread has been joined
\* the counters are zero.
WaitedMeansDelivered ==
    /\ write = None /\ (\A b \in Buffer : cnt[b] = 0) =>
           \A n \in Name : accepted[n] = wiped[n] (+) ContentOf(n)
    /\ at[SendThread] = "none" => \A b \in Buffer : cnt[b] = 0

\* wait_empty and finalize hold _client_mutex while they wait for the send
\* thread: they come back nevertheless, since nothing the send thread or the
\* server waits for needs that mutex.
WritersIdle == \A w \in Writer : at[w] = "idle"
AlwaysReturns ==
    /\ at[Main] \in {"waiting", "joining"} ~> at[Main] = "idle"
    /\ []<>WritersIdle
=============================================================================
