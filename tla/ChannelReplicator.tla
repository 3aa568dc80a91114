-------------------------- MODULE ChannelReplicator --------------------------
(***************************************************************************)
(* src/thread/ChannelReplicator.h with two or more outputs: a caching      *)
(* thread moves values from the input channel to a ring of _data_cache,    *)
(* and one replicating thread per output copies them out.  The ring has a  *)
(* slot more than it holds values.  Channels are used by their contract    *)
(* (module Channel): the input is what it still holds and whether it is    *)
(* closed, an output is what was written to it.  Values are numbered in    *)
(* the order of the input.                                                 *)
(***************************************************************************)
EXTENDS Naturals, Sequences

CONSTANTS Output,    \* output channels
          CacheSize, \* _data_cache_size
          Values,    \* bound: values written to the input
          Runs       \* bound: initialize .. finalize rounds

VARIABLES
  inited, input, inputClosed, sent,
  ring, begin, end, readPos,   \* _data_cache, _begin, _end, _read_pos
  cachingClosed,               \* _caching_closed
  cpc, holding,                \* caching thread: where it stands and its value t
  rpc, carrying,               \* replicating threads, likewise
  out, outClosed,              \* what each output was given in this round
  runs

vars == <<inited, input, inputClosed, sent, ring, begin, end, readPos, cachingClosed, cpc,
          holding, rpc, carrying, out, outClosed, runs>>
producer == <<inited, input, inputClosed, sent, runs>>
replicators == <<rpc, carrying, out, outClosed>>

Slots == CacheSize + 1
Free == 0                      \* a slot whose value was moved out or never set

Init ==
  /\ inited = FALSE /\ input = <<>> /\ inputClosed = FALSE /\ sent = 0 /\ runs = 0
  /\ ring = [i \in 0..CacheSize |-> Free] /\ begin = 0 /\ end = 0
  /\ readPos = [o \in Output |-> 0] /\ cachingClosed = TRUE
  /\ cpc = "none" /\ holding = Free
  /\ rpc = [o \in Output |-> "none"] /\ carrying = [o \in Output |-> Free]
  /\ out = [o \in Output |-> <<>>] /\ outClosed = [o \in Output |-> TRUE]

\* add_output_chan for each output, then initialize up to the start of the
\* caching thread
initialize ==
  /\ ~inited /\ runs < Runs
  /\ inited' = TRUE /\ runs' = runs + 1 /\ inputClosed' = FALSE /\ sent' = 0
  /\ ring' = [i \in 0..CacheSize |-> Free] /\ cpc' = "read"
  /\ out' = [o \in Output |-> <<>>] /\ outClosed' = [o \in Output |-> FALSE]
  /\ UNCHANGED <<input, begin, end, readPos, cachingClosed, holding, rpc, carrying>>
\* _caching_closed = false, and the replicating threads
Starting == inited /\ \A o \in Output : rpc[o] = "none"
StartReplicators ==
  /\ Starting
  /\ cachingClosed' = FALSE /\ readPos' = [o \in Output |-> 0]
  /\ rpc' = [o \in Output |-> "wait"]
  /\ UNCHANGED <<producer, ring, begin, end, cpc, holding, carrying, out, outClosed>>

\* A producer writes to the input channel, at any time, and in the end closes
\* it, which is not done before initialize has returned.
Produce ==
  /\ inited /\ ~inputClosed /\ sent < Values
  /\ input' = Append(input, sent + 1) /\ sent' = sent + 1
  /\ UNCHANGED <<inited, inputClosed, runs, ring, begin, end, readPos, cachingClosed, cpc,
                 holding, replicators>>
close ==
  /\ inited /\ ~Starting /\ ~inputClosed /\ inputClosed' = TRUE
  /\ UNCHANGED <<inited, input, sent, runs, ring, begin, end, readPos, cachingClosed, cpc,
                 holding, replicators>>

advance_pos(pos) == (pos + 1) % Slots
front_of(p, q) == (p + Slots - begin) % Slots < (q + Slots - begin) % Slots
size == (end + Slots - begin) % Slots
\* As full would be if it filled every slot of the ring.
NeverFull == size = Slots
full == size + 1 = Slots

\* caching: read the input, then store under _cache_mutex when not full
Read ==
  /\ cpc = "read" /\ (input # <<>> \/ inputClosed)
  /\ IF input # <<>>
     THEN cpc' = "store" /\ holding' = Head(input) /\ input' = Tail(input)
     ELSE cpc' = "end" /\ UNCHANGED <<holding, input>>
  /\ UNCHANGED <<inited, inputClosed, sent, runs, ring, begin, end, readPos, cachingClosed,
                 replicators>>
Cache ==
  /\ cpc = "store" /\ ~full
  /\ ring' = [ring EXCEPT ![end] = holding] /\ end' = advance_pos(end)
  /\ cpc' = "read" /\ holding' = Free
  /\ UNCHANGED <<producer, begin, readPos, cachingClosed, replicators>>
CacheEnd ==
  /\ cpc = "end"
  /\ cachingClosed' = TRUE /\ cpc' = "done"
  /\ UNCHANGED <<producer, ring, begin, end, readPos, holding, replicators>>

\* As replicating would be if it freed the slots up to its own position.
MinPosOwn(o, pos) == pos[o]
\* The rearmost of the positions pos, looking from o's
MinPos(o, pos) ==
  CHOOSE p \in {pos[x] : x \in Output} : \A x \in Output : ~front_of(pos[x], p)

\* replicating, under _cache_mutex: take a copy, advance, free the slots that
\* every thread has passed; then write to the output outside of the mutex.
Copy(o) ==
  /\ rpc[o] = "wait" /\ readPos[o] # end
  /\ carrying' = [carrying EXCEPT ![o] = ring[readPos[o]]]
  /\ LET pos == [readPos EXCEPT ![o] = advance_pos(@)]
         min == MinPos(o, pos)
     IN  readPos' = pos /\ begin' = IF front_of(begin, min) THEN min ELSE begin
  /\ rpc' = [rpc EXCEPT ![o] = "write"]
  /\ UNCHANGED <<producer, ring, end, cachingClosed, cpc, holding, out, outClosed>>
Write(o) ==
  /\ rpc[o] = "write"
  /\ out' = [out EXCEPT ![o] = Append(@, carrying[o])]
  /\ rpc' = [rpc EXCEPT ![o] = "wait"] /\ carrying' = [carrying EXCEPT ![o] = Free]
  /\ UNCHANGED <<producer, ring, begin, end, readPos, cachingClosed, cpc, holding, outClosed>>
\* As replicating would be if it left the loop as soon as caching has ended.
CloseOutAtOnce(o) ==
  /\ rpc[o] = "wait" /\ cachingClosed
  /\ outClosed' = [outClosed EXCEPT ![o] = TRUE] /\ rpc' = [rpc EXCEPT ![o] = "done"]
  /\ UNCHANGED <<producer, ring, begin, end, readPos, cachingClosed, cpc, holding, carrying, out>>
CloseOut(o) ==
  /\ rpc[o] = "wait" /\ cachingClosed /\ readPos[o] = end
  /\ outClosed' = [outClosed EXCEPT ![o] = TRUE] /\ rpc' = [rpc EXCEPT ![o] = "done"]
  /\ UNCHANGED <<producer, ring, begin, end, readPos, cachingClosed, cpc, holding, carrying, out>>

\* join, then finalize
finalize ==
  /\ inited /\ cpc = "done" /\ \A o \in Output : rpc[o] = "done"
  /\ inited' = FALSE /\ begin' = 0 /\ end' = 0
  /\ cpc' = "none" /\ rpc' = [o \in Output |-> "none"]
  /\ UNCHANGED <<input, inputClosed, sent, runs, ring, readPos, cachingClosed, holding, carrying,
                 out, outClosed>>

Next ==
  \/ initialize \/ StartReplicators \/ Produce \/ close \/ Read \/ Cache \/ CacheEnd \/ finalize
  \/ \E o \in Output : Copy(o) \/ Write(o) \/ CloseOut(o)

Spec == Init /\ [][Next]_vars
Threads ==
  /\ WF_vars(Read \/ Cache \/ CacheEnd)
  /\ \A o \in Output : WF_vars(Copy(o) \/ Write(o) \/ CloseOut(o))
FairSpec == Spec /\ Threads

-----------------------------------------------------------------------------
\* Every output is given exactly the values of the input, in their order,
\* however far apart the replicating threads are; a closed output was given
\* all of them.
Replicates ==
  \A o \in Output :
    /\ out[o] = [i \in 1..Len(out[o]) |-> i]
    /\ outClosed[o] /\ runs > 0 => inputClosed /\ Len(out[o]) = sent

\* Once the input is closed every output is, so the readers of the outputs
\* end and join returns.
AllClosed == inputClosed /\ inited ~> \A o \in Output : outClosed[o]
=============================================================================
