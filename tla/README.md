# A TLA+ model of prpc

prpc is an RPC framework: processes register services on a master, find each
other there, and exchange requests and responses over connections that are made
on demand. This directory holds TLA+ modules for its parts, from the lock-free
queue up to service discovery and down to the archives and JSON documents that
are sent; the TLC configurations that check them on small instances; and TLAPS
proofs, for every size, of the parts that the others stand on: the send path of a
connection, the queues and the channel of a dealer, the read-write lock and the
semaphore, the serving side's tables, the master's tree, and the distributed lock
and the barrier that clients build on it.

Source paths below are relative to `src/` of the repository. `PROJECT.json` maps
every definition to the lines it models, lists the hazards of the code with the
properties that watch them, and says of each part how much of it is modelled.

## The system

| part | state | operations | what is hard |
|---|---|---|---|
| `thread/MpscQueue.h`, `SpscQueue.h` | linked nodes | push, pop | a push is two steps, and the list is cut in between; nodes are reused behind the consumer |
| `thread/RpcChannel.h` | queue, `_size`, eventfd | send, recv with time limit, terminate | counter and eventfd are changed separately; a timeout races a wake-up |
| `thread/SpinLock.h` | one 32-bit word | lock, lock_shared(_low), upgrade, downgrade, try_ forms | readers count themselves in before they know; several upgrades at once |
| `thread/ChannelEntity.h`, `Semaphore.h`, `ChannelReplicator.h`, `ThreadGroup.h` | bounded queues, permits, a ring, workers | read, write, close, reopen; acquire, release; copy to all outputs; exec, resize | wake-ups that reach the wrong sleeper, closing against blocked peers |
| `common/Monitor.h` | events by time, a worker | submit, destroy, wait | an event destroyed while it runs or is due |
| `rpc/FrontEnd.cpp` | counter, queue, `_msg`, `_sending_msg`, cursors, socket, state bits | send_msg(_nonblock), keep_writing, epipe, connect | the caller that finds the counter at zero writes for all; partial writes, failures and reconnects move that role between threads |
| `rpc/RdmaSocket.cpp` | credits, posted buffers, completions, blocks | post_send, completion handlers, acks | flow control in both directions at once |
| `rpc/TcpSocket.cpp`, `RpcSocket.cpp` | a buffer, two descriptors | handshake, try_recv_msgs | reads that end anywhere; a message and its blocks on two connections |
| `rpc/RpcContext.cpp` | tables of connections and servers, `FairQueue`s, one lock | routing, dialling, accepting, updates from the master | IO threads, senders and the watch thread meet in the tables |
| `rpc/RpcServer.cpp`, `Dealer.cpp`, `RpcClient.cpp` | dealers and their channels, request ids | create, release, terminate, send, receive | a dealer ends while requests and answers are under way to it |
| `rpc/Master.cpp` | a tree of nodes, owners, name counters, watchers | add, gen, set, get, sub, del, connect, disconnect | ephemeral nodes of clients that are gone |
| `rpc/MasterClient.cpp`, `ZkMasterClient.cpp` | watcher table, acquired locks, a ZooKeeper session | locks, barrier, registration, ranks, watches | distributed algorithms over single requests, with crashes and lost sessions |
| `rpc/RpcService.cpp` | the watch thread | create_server, create_dealer, update | a piecemeal copy of a changing tree |
| `accumulator/` | two aggregation buffers, a send thread, a server table | write, flush, read, reset, erase, wait | double buffering against a server |
| `rpc/Archive.h`, `LazyArchive.h` | buffers, cursors, blocks | reserve, release, copy, move; streams of values | who frees which block, with which deleter |
| `misc/Configure*` | a YAML document, a tree of fields with defaults and checkers | load, set, load_config, to_yaml | a tree that is loaded again, and loads that are refused halfway |
| `misc/` | hash tables, LRU cache, lazy vector, in-memory files | | rehashing spread over later calls; chains that displace each other; open files that are removed |
| `addition/PicoJsonNode.h`, `common/pico_lexical_cast.h`, `codec/`, `misc/URIConfig.*` | texts and values | scan, parse, dump, edit, patch, cast, encode | an automaton of some hundred labels; boundaries of types |

A request goes: `Dealer` → `RpcContext::send_request` → `FrontEnd` of the target
→ connection → IO thread of the target → `FairQueue` → `RpcChannel` of a dealer
there. The response goes back over the accepted connection. `MasterClient` fills
the tables that the first step routes by.

## Modules

A module models one part. The concurrent ones are at the level of atomic
accesses, of critical sections or of the requests they send, one action each with
the code up to the next one; the sequential ones have one action per call.
Variables carry the source's names where TLA+ allows it.

*Threads and queues*

* **`MpscQueue`** — push as `NewNode`, `Exchange`, `Store`, pop as `LoadTail`,
  `LoadNext`, `Advance`, `DeleteNode`. **`QueueContract`** is what its users rely
  on: a FIFO in which a value can be taken only once it is linked. `MpscQueue`
  refines it; `FrontEnd`, `RpcChannel` and `Backend` use the queue in that form.
* **`SpscQueue`** — nodes that the producer takes back behind the consumer, from a
  copy of the tail that may be old.
* **`RpcChannel`** — the sender's `Push`, `Link`, `Add`, `Wake`; recv as its fast
  path, its three answers to an empty queue and the eventfd; `Terminate`.
* **`Locks`** — `RWSpinLock`: the word, and one action per access to it; and
  `Semaphore`: permits, and sleepers that a notify chooses.
* **`Channel`** — `ChannelEntity` under its mutex, with the reserved slot, both
  condition variables, closing, reopening and a failed allocation.
  **`ThreadGroup`**, **`ChannelReplicator`** (the caching thread, the replicating
  threads, the ring), **`Monitor`** (its queue sorted by time, its worker, handlers
  that run without the lock).

*One connection*

* **`FrontEnd`** — one activity per message: the call that carries it and the
  `keep_writing` thread that may continue it. `out` records each message that
  left, with the connections that got its first and its last byte. Connections
  break at any time, writes are complete, partial or failing, IO threads handle
  events late.
* **`Rdma`** — two ends with their credits, completion queues, acks and zero-copy
  blocks. **`TcpFraming`** — the bytes of messages and blocks on two connections,
  delivered in arbitrary pieces and cut by `try_recv_msgs`.
* **`Connections`** — two processes that dial each other, accept, register
  detached, time out and finalize. `state` is the client frontend's `_state`. Who
  notices the end of a connection matters: the IO thread stores `EPIPE` alone
  (`ClientSees`), a writer's `epipe` leaves `DISCONNECT` and with it a new dial
  (`WriteFails`). Each section under `_spin_lock` is one step.

*Services*

* **`Backend`** — the server's side of `RpcContext`: `FairQueue`, `RpcServer` and
  the server half of `Dealer`. IO threads hold the read lock while they route.
* **`RpcCall`** — client dealers: ids, cached tables, late and lost answers,
  servers that move.
* **`Master`** — the tree as a function from paths to nodes, with one action per
  request type, `Accept`, `Disconnect`, `Finalize`, `Exit`, `Stop`. `sent` and
  `reply` are the output of the last step.
* **`MasterLock`**, **`MasterBarrier`**, **`Discovery`** — `INSTANCE` the master
  and run the client's code against it, one request at a time. Notifications go
  through the client's callback queue and the `AsyncWatcher`. `Discovery` uses
  the distributed lock by what `MasterLock` shows of it.
* **`ZkClient`** — watches over a ZooKeeper session that breaks and comes back.
  **`ClientReads`** — two reads while others write: the ranks of a role, which use
  the barrier by what `MasterBarrier` shows of it, and a ZooKeeper value read in
  several calls. ZooKeeper itself is external.
* **`Accumulator`** — writers, both pending buffers, the send thread, the server.
  **`Aggregators`** — what is merged.

*Data*

* **`HashTable`**, **`PoolHashTable`**, **`LRUCache`**, **`LazyVector`**,
  **`MemoryStorage`** — each beside a variable with what it should hold.
* **`MemoryArchive`** — two archives that reserve, move, copy, share and release
  blocks of a heap. **`LazyArchive`** — values and blocks from put to get.
  **`Serialization`** — every type that has an encoding, in binary, text and file
  streams, whose last byte may be lost (`Cut`).
* **`JsonText`** (scanner, casts, values, pointers, patches, dump, parser),
  **`JsonDoc`** (iterators and a document under editing calls), **`Texts`**
  (codecs, URIs, and reference definitions for all conversions).
* **`Configure`** — a document and the tree of nodes that `load_config` fills: own
  fields in the order of their names, lists, lists of nodes, enums with
  alternatives, a URI as a custom node, and every checker except the one for
  regular expressions. What the macros declare is a constant, `Root`.

*Proofs and instances*

* **`FrontEndProofs`**, **`SharedMemoryProofs`** (`SpscQueue` and `Locks`),
  **`RpcChannelProofs`** (`MpscQueue` and `RpcChannel`), **`BackendProofs`**,
  **`MasterProofs`**, **`MasterLockProofs`**, **`MasterBarrierInv`** (the invariant
  and the steps that leave room and door alone) with **`MasterBarrierProofs`** (the
  other steps, the theorems); **`MC*`** for TLC. `Master`, `MasterLock`,
  `MasterBarrier`, `Discovery` and `Backend` are checked as they are, with a `.cfg`
  alone. An `MC` module `EXTENDS` the components that theorems are about and takes the others as instances, so what TLC checks of the former is
  the very formula that is proved. To stand side by side these name their
  specifications apart: `MpscSpec`, `SpscSpec`, `LockSpec`, `SemSpec`.

Each definition whose comment says "as it would be", or that a comment calls a
mutant, is a variant of the one after it with a plausible slip. Replacing the one
by the other makes TLC report the property that `PROJECT.json` pairs with it,
which shows that the property depends on that line.

### Abstractions

Messages, names and values are model values; texts are sequences of bytes. The
atomics are sequentially consistent: the relaxed orders of the source are not
modelled. Undefined or unordered inputs are choices: the round-robin indices of
`FairQueue`, which are not initialized; `available()` while its ten-second timer
may or may not have run out; the digit that `URICode` reads outside its table; the
free slots of a `HashTable`. Integers keep their width where it matters, with
small widths as constants (`IntWidth`, `LongBits`, `IntBits`). Floating-point
numbers are numbers of halves. `info` members, logging and statistics are left
out.

### The exclusion of epipe

The comment above `FrontEnd::epipe` says that its callers make sure that one
thread at a time is inside. The code almost provides that: the worker's role is
exclusive, but epipe gives the role up with its last `fetch_sub` and stores
`DISCONNECT | EPIPE` after it. `FrontEnd!Spec` is the code as it is;
`ExclusiveSpec` are the behaviours in which the comment is true. The properties
of the send path and their proofs are about `ExclusiveSpec`: they show that this
exclusion is all that the send path needs. `frontend_split_message` runs `Spec`
and shows what follows from the gap.

## Runs

Three runs check several components that do not interact, one in each behaviour:
the variable `unit` of an `MC` module says which one moves, and the others rest in
one initial state. So a run has the sum of their states and not the product.
Components that do interact are composed in modules of their own (`MasterLock`,
`MasterBarrier`, `Discovery` with `Master`; `TcpFraming`, `Rdma`, `Connections`
with both ends; `Accumulator` with its server).

Passing:

| run | components and instance | shows |
|---|---|---|
| `transport` | `FrontEnd`: 2 callers × 2 messages, 2 connections, client and accepted sockets, blocking and non-blocking sends | `TypeOK`, `SingleWriter`, `NothingStranded`, `SpinEnds`, `LeavesOnce`, `MessageComplete`, `SendOrder` |
| | `Rdma`: 1 credit each way, messages that share buffers, span two, or have blocks | `RdmaSound` |
| | `Texts`: every text of up to 5 bytes over nine small alphabets; `Serialization`: up to 2 values of 23 types in 4 kinds of stream, whole or cut by a byte | `TextsExact` |
| | `JsonDoc`: documents of 3 nodes under all editing calls and 4 patches | `JsonExact` |
| `structures` | `Locks`, the spin lock: 3 threads | `Exclusive`, `BitsExact`, `UpgradeFirst` |
| | `Channel`: 2 writers, 2 readers, 3 values, batches, a reopening; `Locks`, the semaphore: 3 threads, 3 permits | `ChannelSound`, `LocksGoOn` |
| | `HashTable`, `PoolHashTable`: 4 keys, two of which collide; `LRUCache`: 3 keys, 2 finders; `LazyVector`: 2 vectors, 4 items; `MemoryStorage`: 3 clients, a path below another; `Aggregators`: all streams of 4 values, split anywhere | `StoresExact` |
| | `Configure`: a tree with a field of every kind, 5 documents, 2 edits, any number of loads | `ConfigureSound` |
| | `MemoryArchive`: 2 archives, 3 blocks; `LazyArchive`: 2 values of every shape | `ArchivesOwn` |
| | `SpscQueue`: 4 values | `NodesApart` |
| | `RpcChannel`: 2 senders × 2 messages, all kinds of timeout, terminate | `RpcChannelSound` |
| | `RpcCall`: 2 dealers × 2 calls, 3 ids, a server that moves, a break | `CallSound` |
| | `ClientReads`: 3 processes × 2 rounds, leftovers of an earlier run; a value with 3 changes around the first buffer's length | `ReadsAgree` |
| `threads` | `MpscQueue`: 4 values | `Refines`, `MemorySafe` |
| | `ChannelReplicator`: 2 outputs, a ring of 2, 3 values | `ReplicatorSound` |
| | `TcpFraming`: messages with and without blocks, a buffer they fill | `FramingSound` |
| | `ThreadGroup`: 2 tasks, 3 workers, a resize; `Monitor`: 2 events, periodic or not | `GroupSound`, `MonitorSound` |
| | `Accumulator`: 2 writers of one name, 2 rounds | `AccumulatorSound` |
| | `Connections`: 2 processes, 1 fault, 3 dials each, a finalize | `FinalizeSound` |
| | these, `SpscQueue`, `RpcChannel` (2 senders × 1 message) and `ZkClient` (3 changes, 2 losses), with fairness | `ComesToRest`, `WaitsEnd`, `Settles` |
| `master` | `Master`: 2 clients, three levels, 1 generated name | `TreeSound`, `EveryChangeAnnounced` |
| `master_lock` | `MasterLock`: 2 processes × 2 threads, 3 acquisitions, crashes | `LockSound` |
| `master_barrier` | `MasterBarrier`: 3 processes × 2 rounds | `BarrierSound` |
| `serving` | `Discovery`: 2 processes, 1 observer; one may crash, the other may deregister the service | `DiscoverySound`, `ViewConverges` |
| `backend` | `Backend`: 2 requests, 2 servers, 2 dealers | `BackendSound` |

A property named `...Sound`, `...Exact` or `...Own` is the conjunction of the
properties that the comment above it lists. The three liveness properties of
`threads` have one conjunct per component: what keeps coming back
(`ComesToRest`), what follows once somebody waits (`WaitsEnd`), and what is
reached for good (`Settles`).

The wake-ups of the distributed lock, of the barrier, of the channel and of the
semaphore are checked as invariants rather than as liveness, which keeps the
instances large. For the lock: the first in the queue is awake or about to be,
and each child before a waiter belongs to somebody who is on the way through or
whose death the master has still to notice, so the queue moves. For the barrier:
somebody can always go on until all rounds are done. For channel and semaphore:
whenever there is something to take or a free place, somebody who wants it is
awake.

Disagreements between the code and what the repository says of it, each with a
counterexample from TLC:

| run | property | in short |
|---|---|---|
| `frontend_split_message` | `MessageComplete` | the tail of a message goes to a newer connection (FrontEnd.cpp:128) |
| `frontend_stale_event` | `NoAbort` | an event of a replaced descriptor fails `SCHECK(fd == _fd)` (TcpSocket.h:76) |
| `rpc_channel_shutdown` | `NoAbort` | a receiver that only uses recv(-1) fails `SCHECK(sz >= 0)` after terminate (RpcChannel.h:73) |
| `rdma_send` | `SendReturns` | two ends that send to each other both wait for ever, each holding the acks the other needs (RdmaSocket.cpp:367) |

Limits of the code that the passing properties state as conditions:

* `RpcChannel` is exact only while no recv with a time limit has failed. A
  sender that has counted itself in but not yet written the eventfd when the
  limit expires leaves a token behind, and a later recv takes it for a message
  or for a termination (`Undisturbed`, `expired`).
* `create_server` adds the service's node under the distributed lock and the
  server's node after it. A `deregister_rpc_service` in between makes the second
  step fail its `SCHECK`, or, when the service is registered anew in time, leaves
  the server with its old id (`AbortsOnlyDropped`, `ServesUnderItsId`).
* A client connection whose end an IO thread sees first gets `EPIPE` without
  `DISCONNECT` (RpcContext.cpp:406); `available()` is then false, and nobody
  reconnects unless a writer that had found the frontend available before fails on
  it. `Settles` therefore claims that after a fault each frontend is linked or has
  been given up in this way (`GivenUp`), and without one that it is linked. An accepted connection that failed keeps its counter above
  zero, so what arrives later stays in its queue (`NothingStranded` excludes this
  state).
* `Monitor` takes events out of its queue by time: destroying one takes along all
  others of the same time, which then never run (`tied`). After
  `destroy_with_additional_run`, which reads an event it has erased, nothing is
  claimed (`corrupt`).
* A `MemoryArchive` that shares its block with one that writes, or grows out of a
  filled buffer that is not its own allocation, may lose or mix up its content;
  `ArchivesOwn` claims the content of the others (`strange`). That each block has
  one owner and is freed once, by its own allocator, is claimed until a block is
  allocated under a stale deleter (`loose`).
* `LRUCache` counts an entry that is inserted again a second time;
  `CacheSound` says that the counters are off by exactly that much.
* The check of a `ListNode` does not look at the checkers of its elements, so an
  element that made one load fail stays in a list that the next document leaves
  out, and what `to_yaml` then writes cannot be loaded (`RoundTrip` is claimed
  while no load has failed, variable `clean`). `EnumNode::to_yaml` calls an empty
  function for a key that is none of its alternatives (`Writable`).
* `HashTable` aborts on a move in the middle of a move, which happens only after a
  caller's own `reserve`.
* `Accumulator` has one name in its run. With two, `WaitedMeansDelivered` fails:
  `add_aggregator` appends to a `vector<bool>` whose words writers change under
  another mutex (AccumulatorClient.h:202), and a lost bit keeps a value from being
  sent.
* The maximum of floating-point values starts at the smallest positive number
  (ArithmeticMaxAggregator.h:17); `SplitsAgree`, a part of `StoresExact`, claims it for integral types and
  for streams with a positive value.
* `ZkMasterClient::finalize` is held up by a session that is reconnected just
  then, whose handler waits for the mutex finalize holds; by nothing else
  (`FinalizeReturns`). A value that shrinks between two reads is returned with
  bytes of the longer one (`Harmless`).
* Registrations that were accepted late outlive the `finalize` of their context
  (`OutlivesOnlyLate`). Answers come late after a caller gave up, and a request to
  a server that a dealer still takes for local is dropped (`DroppedOnlyStale`).
* Over TCP a message without blocks may overtake one with blocks.
* `URICode` inverts for bytes below 128; `pico_lexical_cast` is exact for 64-bit
  types, and cuts a longer value for 32-bit ones; the overflow test of the JSON
  numbers misses an overflow by more than one round. `FlattenRestores` excludes
  empty containers and objects whose first key is "0".

### Bounds

Two callers with two messages each give `FrontEnd` a worker, a message it has
popped ahead, one in the queue and one between fetch_add and push, which are all
the places a message can be; two connections give it a reconnect, three the split
message. Two senders give `RpcChannel` one that wakes and one that is late. Three
threads give the lock an upgrade, a reader and a writer; two upgrades beside a
reader and a writer were checked with four threads, and the proofs are for any
number. One credit is the smallest with which `Rdma` can wait, and it has to.
`MaxDials` gives a frontend of `Connections` one dial and two more for a fault: for
the connection that failed, and for the successor that a late registration throws
out; it never holds up a frontend that may dial. Colliding keys and capacities of 1 and 3 make the hash tables move, chain and
displace within 4 keys. The framing buffer is shorter than the longest message, and
reads end at any byte, so that every position of a cut occurs. One key in the JSON documents
looks like an index and one needs escaping in a pointer and in a string.

`MaxGen`, `Rounds`, `MaxStart`, `GenLimit`, `MaxConnect`, `Calls`, `MaxOps`,
`MaxWrites`, `MaxLosses` and the like bound counters that are unbounded in the
code; the master's name counter and the dealers' ids are also exercised at their
limits. `Discovery` lets each process create one server; with two for the
deregistering process, which reaches the server with an old id, the same
properties hold in 2.3 million states. A run whose bounded work may be done says
`CHECK_DEADLOCK FALSE`. `backend` is checked for deadlock, and for the read-write
lock, which never stops either, `LocksGoOn` claims that (`ENABLED LockNext`).

The configuration of the run has a number, an enum of a point and a list of
numbers, a list of points and a URI. Its documents fit it, omit fields, replace a
list by a single element, change the alternative, or are refused for a missing
field, a value that is no number, or a checker; edits change the alternative and a
field below it, so that loads meet trees that hold something else.

### Fairness

Weak fairness, with the exceptions named: the operating system runs every thread
that has something to do, and nobody has to begin an operation.

* `threads`: every push finishes and the consumer keeps popping (strong fairness
  says that it calls pop again and again and not only top); senders send and the
  receiver keeps calling recv; nobody has to call terminate; the threads of the
  replicator run; both ends of a connection write, and the handler of a readable
  descriptor is called (strong: the two descriptors share one IO thread); workers,
  waiters, the monitor's worker and the clock go on; a writer of the accumulator
  gets the mutex at last (strong: it competes for it), the send thread, the main
  thread and the server run; the ZooKeeper client's threads run, values keep
  changing up to the bound and a lost connection comes back; dialling, accepting
  and registering threads run, but a wait for the peer need not be the one that
  ends a dial, and no write has to come before the IO thread sees the end of a
  connection.
* `serving`: a process finishes the operation it began, the watch thread runs, the
  master notices a closed connection at some time and so does the observer. Nobody
  has to leave or crash.
* `rdma_send`: senders and handlers run and the network delivers.

All other runs check safety only and assume no fairness.

## Proofs

Each of these holds for every value of the constants that the named assumptions
allow. TLC checks the property on the instance above, the theorem for all.

| module | theorem | states | assumes |
|---|---|---|---|
| `FrontEndProofs` | `OneWriter`, `TypeCorrect`, `NoneStranded`, `NoEndlessSpin`, `AtMostOnce`, `Unsplit`, `InOrder` | `ExclusiveSpec => []P` for `SingleWriter`, `TypeOK`, `NothingStranded`, `SpinEnds`, `LeavesOnce`, `MessageComplete`, `SendOrder` | types of the constants; finitely many callers |
| `SharedMemoryProofs` | `MutualExclusion`, `ExactWord`, `UpgradeComesFirst` | `Exclusive`, `BitsExact`, `UpgradeFirst` | fewer than 32768 threads |
| `SharedMemoryProofs` | `NoPermitLost` | `PermitsReachSleepers`, the semaphore's part of `LocksGoOn` | fewer than 32768 threads |
| `RpcChannelProofs` | `NoUseAfterFree`, `ImplementsContract` | `MemorySafe`; `MpscQueue` implements `QueueContract` (`Refines`) | finitely many values; the dummy node and null are none of them |
| `SharedMemoryProofs` | `ReuseIsSafe` | `NodesApart` | finitely many nodes, at least one; null is none of them |
| `RpcChannelProofs` | `ChannelIsSound` (from `NoFalseAlarm`, `WakeupsKept`, `SendersInOrder`) | `RpcChannelSound` | finitely many senders, known kinds of timeout |
| `BackendProofs` | `BackendIsSound` (from `TablesExact`) | `BackendSound`, five invariants and action properties | `AnySid` and `None` are no servers |
| `MasterProofs` | `TreeStaysSound`, `ChangesAnnounced` | `TreeSound`; `EveryChangeAnnounced` | `NoOwner` is no client; paths are sequences of names; some value exists |
| `MasterLockProofs` | `LockIsSound` | `LockSound` | finitely many threads and processes, a bound on generated names |
| `MasterBarrierInv`, `MasterBarrierProofs` | `BarrierIsSound` (from `RoundsKept`) | `BarrierSound` | finitely many processes; at least one round; the two nodes of the barrier have different names |

None of these properties is inductive. What each `IInv` adds:

**The send path.** `Account`: every accepted message is in exactly one place (being
pushed, in the queue, in `_msg`, in `_sending_msg`, left), and
`_sending_queue_size` is the number of messages being pushed and queued plus what
the worker's `cnt` and `_more` say it has still to subtract. With it a fetch_add
that returns 0 means that no worker exists, and a fetch_sub that returns `cnt`
means that nothing is left. `Apart`: the places are disjoint. `OwnerFacts`: what
the worker knows at each control point. `ConnFacts`: a half-written message
implies that the connection it began on has not been replaced, which is where the
exclusion of epipe is used. The order of the messages is a second invariant on top
of the first (`OrderInv`): a caller's calls come one after the other, and along
the places queue, `_msg`, `_sending_msg`, `out` no message of a caller is behind a
later one; `NoOvertaking` says this of any four places, so that each action has
one lemma about what it moves.

**The read-write lock.** The word is the sum of three counts; as long as none of
them overflows its field, `Unpack` recovers them, and what a thread reads tells it
who holds the lock.

**The semaphore.** Its invariant is inductive beside its types: a permit may be
there while a thread sleeps only if as many notified threads are on their way as
there are permits. A release with `num` permits wakes `num` sleepers or all; who
takes a permit without having been woken lowers the count alone.

**The lock-free queue.** `ChainFacts` describes the list from `_tail` to `_head`:
its nodes stand in the order of the exchanges, and the link between two
neighbours is missing exactly while the push of the second one has yet to store
it. So the node that a producer will still write to is in the list
(`PrevInChain`), and `LiveFacts` says that the list, the nodes not yet exchanged
and the one being deleted are all that is allocated. The refinement mapping takes
the list without its first node for the contract's items: `Exchange` is `Enter`,
`Store` is `Link`, `Advance` is `Take`, and all other steps are stutters.

**The single-producer queue.** `IInv` exhibits the list: some sequence of distinct
nodes runs from `_first` over `_tailcopy` and `_tail`, in this order, to `_head`.
What lies before `_tail` is free for the producer, what lies behind holds the
values in order; `Bounds` ties the number of nodes to the most values ever
queued. Each step gives the new sequence as a witness.

**The channel of a dealer.** Two accounts. `_size` counts the messages in the queue
except those that their senders have not counted yet, corrected by what the
receiver has subtracted early or late (`Lag`). The eventfd holds, or a sender is
about to write, one token exactly when a receiver that announced itself was
overtaken by a sender's count (`TokenDue`). Both stop holding once a time limit
has expired, and the second one after terminate, which is where the property
stops, too. The order of each sender's messages is proved from an invariant about
what was received, followed by the queue.

**The serving side.** The argument is what the read lock of `_spin_lock` protects.
`Reading`: an IO thread holds it from its look at the tables to the end of its
push, so the dealer or the cache it has found is still there when it pushes, and
whoever changes the tables finds every push linked. `Tables`: `_sid2dealers` has
each dealer between `add_server_dealer` and `remove_server_dealer`, once, under
its server, which takes lemmas about what `erase` leaves of a sequence without
repetitions. `Lives`: what a dealer was told and which server counts it follow
from where it stands. `Places`: a waiting request is in one channel or one cache,
at one place of it; the moves of `TablesStay`, `RouteStep`, `DealStep` and
`StopStep` carry whole sequences from one to the other. That nothing vanishes is
proved of each step from this invariant.

**The master.** `TreeShape`: every path but the root has its parent, the `sub` sets
name exactly the children, and an ephemeral node has none; `Counters`: names are
generated only below nodes without an owner. The second part is what makes
`disconnect_clear_data` safe: what it removes are leaves, and no counter stays
behind. Depth and names are arbitrary. That every change is announced is proved
of each step from this invariant.

**The distributed lock.** The lemmas of the first part say what each request does
to the lock's node and its children, so that the rest argues about the set of
children and the counter alone. `Queue`: the child of each waiting thread is its
own and the names grow with the counter; `Granted`: a thread that passed the check
had the smallest child then, and children that come later are larger; `Table`: an
entry of `acquired` belongs to the thread that holds the lock or is between the
deletion and the erasure; `Watchful`, `Woken`: a thread that is about to sleep
registered its watch before it listed the children, so a deletion after the list
has left a notification; `Children`: every child has the thread that made it, or a
connection that the master has still to clear. The proof assumes the master's
requests as `Master` models them, expanded; it does not rest on `MasterProofs`.

**The barrier.** The first lemmas again say what each request does, here to a room,
the children of `<base>/node`, and to a door, `<base>/ready`. `Round`: while the
door is closed, those in the room have entered one round more than the others, and
the counter of generated names is the number of participants times the rounds that
are over, plus who is in the room. So the participant that sees the room full and
its own name as the last one is the last to have come, and it is alone in that:
`Lead1` says that the door is open exactly while one leader stands in it, that
nobody leaves a full room before it opens and nobody enters before it is closed
again, which is what the look at the previous round's door is for. `Children`:
each child belongs to a participant in the room, and, as long as a full room has no
leader, the owner of the last one has still to look. `Watchful`, `Wakes`: who
sleeps has its watch, and once the door has changed, or the leader is the only one
left, a callback is on its way to it. From this nobody is early (`NobodyEarly`), no
answer is one that an `SCHECK` refuses, and in each phase of a round somebody is
awake or told (`SomebodyAwake`).

Checked by TLC only:

* liveness (`ComesToRest`, `WaitsEnd`, `Settles`, `ViewConverges`) and what says
  `ENABLED` (the spin lock's part of `LocksGoOn`): fairness and `ENABLED` are outside the prover's reach;
* what recursive definitions compute (`TextsExact`, `JsonExact`, `ConfigureSound`,
  `FramingSound`, and `StoresExact` for the tables): there is no induction over
  data with the installed provers;
* `DiscoverySound`, `CallSound`, `RdmaSound`, `ChannelSound`, `ArchivesOwn`,
  `ReadsAgree` and the safety part of the components
  in `threads` other than the two queues: no proof yet. Nothing in them is
  out of reach in principle; each needs an inductive invariant of its own.

## Not modelled

* *Relaxed atomics.* `MpscQueue`, `SpscQueue` and `FrontEnd` use acquire, release
  and relaxed orders; the models are sequentially consistent, since TLC has no
  notion of a weak memory.
* *Code whose other half is outside the repository:* the ibverbs set-up
  (`RdmaContext`), the jemalloc arenas and malloc hooks (`ArenaAllocator`,
  `pico_memory`), Prometheus, Avro, HTTP, compression, the shell and file system
  wrappers. Each call passes its arguments on.
* *Single requests:* contexts, storages, models and task nodes of `MasterClient`
  are one tree request each, which `Master` models.
* *Declarations:* help texts and JSON descriptions of a configuration, the tables of type names
  (`AggregatorFactory`, `Factory`), logging and formatting, the templates of
  `PicoJsonNode.h` that select a constructor by the C++ type.
* *Arithmetic without a property short of its own definition:* hash functions and
  random numbers. The hash tables are modelled for a hash function that is a
  parameter.
* *Floating-point text:* `strtod` and stream formatting belong to the C library.
* Of modelled parts: the destructors of the two lock-free queues, which run alone;
  `Semaphore::set`, whose comment forbids it while a thread waits; a replicator
  with fewer than two outputs; the exchange of addresses of an RDMA connection;
  `ZkMasterClient::reconnect`, which nothing calls; more than one service in
  `Discovery`; the wait for `_spin_lock` in `Connections`, whose deadlock
  (RpcContext.cpp:543) takes three processes and a response that blocks while it
  holds the lock; writes to a stream after it was cut; the mapped values of `PoolHashTable`; `LazyVector`'s serialisation.

How far this reaches: the mapped definitions stand for some 13200 lines, out of
about 36590 under `src/src`. What is left is mostly of the kinds above, with the
templates of the JSON header the largest piece; of `rpc/`, `thread/` and
`accumulator/` most of what changes state is modelled.
