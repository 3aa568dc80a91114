----------------------------- MODULE MCThreads ------------------------------
(* Small instances for TLC of the components whose threads wait for each   *)
(* other: the queues, the channels between threads, the byte streams of a  *)
(* TcpSocket, the thread group, the monitor, the accumulators, the         *)
(* ZooKeeper client and the connections of two processes. One of them runs *)
(* in a behaviour, the others rest in an initial state, so a run has the   *)
(* states of each of them and no products.                                 *)
EXTENDS MpscQueue, TLC

CONSTANTS s1, s2, n0, n1, n2, n3, o1, o2, j1, j2, th1, th2, th3, w1, w2, acc, p1, p2, None

\* A body and blocks of every kind: none, inline and zero-copy, empty ones too, and
\* a body that does not fit the receive buffer.
Message(body, blocks) == [body |-> body, blocks |-> blocks]
Messages == <<Message(1, <<>>), Message(0, <<1, 3>>), Message(4, <<>>), Message(0, <<0, 2>>)>>

VARIABLE unit    \* the component that runs

VARIABLES rcSpc, rcQueue, rcUnlinked, rcSize, rcTokens, rcRpc, rcTimeout, rcTerminated, rcExpired,
          rcGot
rcVars == <<rcSpc, rcQueue, rcUnlinked, rcSize, rcTokens, rcRpc, rcTimeout, rcTerminated,
            rcExpired, rcGot>>
Rpc == INSTANCE RpcChannel WITH
  Sender <- {s1, s2}, Calls <- 1, Timeouts <- {"zero", "forever", "timed"}, spc <- rcSpc,
  queue <- rcQueue, unlinked <- rcUnlinked, size <- rcSize, tokens <- rcTokens, rpc <- rcRpc,
  timeout <- rcTimeout, terminated <- rcTerminated, expired <- rcExpired, got <- rcGot

VARIABLES sqNext, sqItem, sqHead, sqTail, sqFirst, sqTailcopy, sqUsed, sqPpc, sqN, sqCpc, sqPeek,
          sqPushed, sqPopped, sqPeak
sqVars == <<sqNext, sqItem, sqHead, sqTail, sqFirst, sqTailcopy, sqUsed, sqPpc, sqN, sqCpc, sqPeek,
            sqPushed, sqPopped, sqPeak>>
Spsc == INSTANCE SpscQueue WITH
  Node <- {n0, n1, n2, n3}, Values <- 4, Null <- None, next <- sqNext, item <- sqItem,
  head <- sqHead, tail <- sqTail, first <- sqFirst, tailcopy <- sqTailcopy, used <- sqUsed,
  ppc <- sqPpc, n <- sqN, cpc <- sqCpc, peek <- sqPeek, pushed <- sqPushed, popped <- sqPopped,
  peak <- sqPeak

VARIABLES crInited, crInput, crInputClosed, crSent, crRing, crBegin, crEnd, crReadPos,
          crCachingClosed, crCpc, crHolding, crRpc, crCarrying, crOut, crOutClosed, crRuns
crVars == <<crInited, crInput, crInputClosed, crSent, crRing, crBegin, crEnd, crReadPos,
            crCachingClosed, crCpc, crHolding, crRpc, crCarrying, crOut, crOutClosed, crRuns>>
Rep == INSTANCE ChannelReplicator WITH
  Output <- {o1, o2}, CacheSize <- 2, Values <- 3, Runs <- 1, inited <- crInited, input <- crInput,
  inputClosed <- crInputClosed, sent <- crSent, ring <- crRing, begin <- crBegin, end <- crEnd,
  readPos <- crReadPos, cachingClosed <- crCachingClosed, cpc <- crCpc, holding <- crHolding,
  rpc <- crRpc, carrying <- crCarrying, out <- crOut, outClosed <- crOutClosed, runs <- crRuns

VARIABLES tfSent1, tfSent2, tfSending, tfCursor, tfMsgCursor, tfEnd, tfCut, tfRead2, tfPending,
          tfBlock, tfReceived, tfPc, tfDelivered
tfVars == <<tfSent1, tfSent2, tfSending, tfCursor, tfMsgCursor, tfEnd, tfCut, tfRead2, tfPending,
            tfBlock, tfReceived, tfPc, tfDelivered>>
Tcp == INSTANCE TcpFraming WITH
  HeadSize <- 2, Desc <- 1, MinZero <- 2, BlockSize <- 5, Msgs <- Messages, sent1 <- tfSent1,
  sent2 <- tfSent2, sending <- tfSending, cursor <- tfCursor, msgCursor <- tfMsgCursor,
  end <- tfEnd, cut <- tfCut, read2 <- tfRead2, pending <- tfPending, block <- tfBlock,
  received <- tfReceived, pc <- tfPc, delivered <- tfDelivered

VARIABLES tgChan, tgClosed, tgWorkers, tgDoing, tgWpc, tgRan, tgReturned, tgTpc, tgOpc, tgResizes
tgVars == <<tgChan, tgClosed, tgWorkers, tgDoing, tgWpc, tgRan, tgReturned, tgTpc, tgOpc,
            tgResizes>>
Group == INSTANCE ThreadGroup WITH
  Task <- {j1, j2}, Worker <- {th1, th2, th3}, Sizes <- {1, 2}, MaxResizes <- 1, None <- None,
  chan <- tgChan, closed <- tgClosed, workers <- tgWorkers, doing <- tgDoing, wpc <- tgWpc,
  ran <- tgRan, returned <- tgReturned, tpc <- tgTpc, opc <- tgOpc, resizes <- tgResizes

VARIABLES moNow, moNextId, moActive, moNext, moPeriod, moQueue, moRunning, moCanceled, moAlarm,
          moDone, moEnded, moWaits, moAsleep, moRerun, moGone, moRuns, moTied, moCorrupt
moVars == <<moNow, moNextId, moActive, moNext, moPeriod, moQueue, moRunning, moCanceled, moAlarm,
            moDone, moEnded, moWaits, moAsleep, moRerun, moGone, moRuns, moTied, moCorrupt>>
Mon == INSTANCE Monitor WITH
  MaxEvents <- 2, Delays <- {0, 1}, Periods <- {0, 1}, MaxTime <- 2, now <- moNow,
  nextId <- moNextId, active <- moActive, next <- moNext, period <- moPeriod, queue <- moQueue,
  running <- moRunning, canceled <- moCanceled, alarm <- moAlarm, done <- moDone, ended <- moEnded,
  waits <- moWaits, asleep <- moAsleep, rerun <- moRerun, gone <- moGone, runs <- moRuns,
  tied <- moTied, corrupt <- moCorrupt

VARIABLES acAt, acLocal, acCached, acWritten, acWord, acClient, acWrite, acSize, acAsleep, acKnown,
          acAgg, acFlag, acCnt, acIdx, acSending, acClosed, acStarted, acRequests, acServer,
          acClients, acDeferred, acRounds, acAccepted, acWiped
acVars == <<acAt, acLocal, acCached, acWritten, acWord, acClient, acWrite, acSize, acAsleep,
            acKnown, acAgg, acFlag, acCnt, acIdx, acSending, acClosed, acStarted, acRequests,
            acServer, acClients, acDeferred, acRounds, acAccepted, acWiped>>
Acc == INSTANCE Accumulator WITH
  Writer <- {w1, w2}, Name <- {acc}, NameOf <- [w \in {w1, w2} |-> acc], FlushFreq <- 2,
  MaxWrites <- 2, MaxRounds <- 2, None <- None, at <- acAt, local <- acLocal, cached <- acCached,
  written <- acWritten, word <- acWord, client <- acClient, write <- acWrite, size <- acSize,
  asleep <- acAsleep, known <- acKnown, agg <- acAgg, flag <- acFlag, cnt <- acCnt, idx <- acIdx,
  sending <- acSending, closed <- acClosed, started <- acStarted, requests <- acRequests,
  server <- acServer, clients <- acClients, deferred <- acDeferred, rounds <- acRounds,
  accepted <- acAccepted, wiped <- acWiped

VARIABLES zkVersion, zkArmed, zkUp, zkLosses, zkEvents, zkConnected, zkMain, zkCb, zkWatching,
          zkWoken
zkVars == <<zkVersion, zkArmed, zkUp, zkLosses, zkEvents, zkConnected, zkMain, zkCb, zkWatching,
            zkWoken>>
Zk == INSTANCE ZkClient WITH
  MaxChanges <- 3, MaxLosses <- 2, version <- zkVersion, armed <- zkArmed, up <- zkUp,
  losses <- zkLosses, events <- zkEvents, connected <- zkConnected, main <- zkMain, cb <- zkCb,
  watching <- zkWatching, woken <- zkWoken

VARIABLES coCs, coSs, coBacklog, coIo, coClient, coState, coServer, coAvailable, coFin,
          coSpawnedIn, coFaults
coVars == <<coCs, coSs, coBacklog, coIo, coClient, coState, coServer, coAvailable, coFin,
            coSpawnedIn, coFaults>>
Links == INSTANCE Connections WITH
  Proc <- {p1, p2}, Stopper <- p1, MaxFaults <- 1, cs <- coCs, ss <- coSs, backlog <- coBacklog,
  io <- coIo, client <- coClient, state <- coState, server <- coServer, available <- coAvailable,
  fin <- coFin, spawnedIn <- coSpawnedIn, faults <- coFaults

-----------------------------------------------------------------------------
SumInit ==
  /\ unit \in {"mpsc", "rpc channel", "spsc", "replicator", "framing", "thread group", "monitor",
               "accumulator", "zk client", "connections"}
  /\ MpscInit
  /\ Rpc!Init /\ (unit # "rpc channel" => rcTimeout = "forever")
  /\ Spsc!SpscInit
  /\ Rep!Init
  /\ Tcp!Init
  /\ Group!Init /\ (unit # "thread group" => tgWorkers = {th1})
  /\ Mon!Init
  /\ Acc!Init
  /\ Zk!Init
  /\ Links!Init
SumNext ==
  \/ unit = "mpsc" /\ MpscNext /\ UNCHANGED <<unit, rcVars, sqVars, crVars, tfVars, tgVars, moVars,
          acVars, zkVars, coVars>>
  \/ unit = "rpc channel" /\ Rpc!Next /\ UNCHANGED <<unit, mpscVars, sqVars, crVars, tfVars,
          tgVars, moVars, acVars, zkVars, coVars>>
  \/ unit = "spsc" /\ Spsc!SpscNext /\ UNCHANGED <<unit, mpscVars, rcVars, crVars, tfVars, tgVars,
          moVars, acVars, zkVars, coVars>>
  \/ unit = "replicator" /\ Rep!Next /\ UNCHANGED <<unit, mpscVars, rcVars, sqVars, tfVars, tgVars,
          moVars, acVars, zkVars, coVars>>
  \/ unit = "framing" /\ Tcp!Next /\ UNCHANGED <<unit, mpscVars, rcVars, sqVars, crVars, tgVars,
          moVars, acVars, zkVars, coVars>>
  \/ unit = "thread group" /\ Group!Next /\ UNCHANGED <<unit, mpscVars, rcVars, sqVars, crVars,
          tfVars, moVars, acVars, zkVars, coVars>>
  \/ unit = "monitor" /\ Mon!Next /\ UNCHANGED <<unit, mpscVars, rcVars, sqVars, crVars, tfVars,
          tgVars, acVars, zkVars, coVars>>
  \/ unit = "accumulator" /\ Acc!Next /\ UNCHANGED <<unit, mpscVars, rcVars, sqVars, crVars,
          tfVars, tgVars, moVars, zkVars, coVars>>
  \/ unit = "zk client" /\ Zk!Next /\ UNCHANGED <<unit, mpscVars, rcVars, sqVars, crVars, tfVars,
          tgVars, moVars, acVars, coVars>>
  \/ unit = "connections" /\ Links!Next /\ UNCHANGED <<unit, mpscVars, rcVars, sqVars, crVars,
          tfVars, tgVars, moVars, acVars, zkVars>>
all == <<unit, mpscVars, rcVars, sqVars, crVars, tfVars, tgVars, moVars, acVars, zkVars, coVars>>
SumSpec == SumInit /\ [][SumNext]_all
\* The fairness of each component, for the one that runs.
FairSpec ==
  /\ SumSpec
  /\ \A v \in Value :
       WF_mpscVars(unit = "mpsc" /\ (NewNode(v) \/ Exchange(v) \/ Store(v)))
  /\ WF_mpscVars(unit = "mpsc" /\ (LoadTail \/ LoadNext \/ Advance \/ DeleteNode))
  /\ SF_mpscVars(unit = "mpsc" /\ LoadNext /\ cpc' = "move")
  /\ WF_rcVars(unit = "rpc channel" /\ Rpc!Receive)
  /\ \A m \in Rpc!Msg : WF_rcVars(unit = "rpc channel" /\ Rpc!Send(m))
  /\ WF_sqVars(unit = "spsc" /\ (Spsc!Look \/ Spsc!PopTake \/ Spsc!Advance))
  /\ WF_sqVars(unit = "spsc" /\ (Spsc!Fill \/ Spsc!LinkNode))
  /\ WF_crVars(unit = "replicator" /\ (Rep!Read \/ Rep!Cache \/ Rep!CacheEnd))
  /\ \A o \in {o1, o2} :
       WF_crVars(unit = "replicator" /\ (Rep!Copy(o) \/ Rep!Write(o) \/ Rep!CloseOut(o)))
  /\ WF_tfVars(unit = "framing" /\ Tcp!Begin) /\ WF_tfVars(unit = "framing" /\ Tcp!Handle)
  /\ WF_tfVars(unit = "framing" /\ Tcp!Send1) /\ WF_tfVars(unit = "framing" /\ Tcp!Send2)
  /\ SF_tfVars(unit = "framing" /\ Tcp!Event1) /\ SF_tfVars(unit = "framing" /\ Tcp!Event2)
  /\ \A w \in {th1, th2, th3} :
       WF_tgVars(unit = "thread group" /\
                   (Group!Read(w) \/ Group!Exec(w) \/ Group!notify(w) \/ Group!End(w)))
  /\ \A j \in {j1, j2} : WF_tgVars(unit = "thread group" /\ Group!wait(j))
  /\ WF_tgVars(unit = "thread group" /\ (Group!Reopen \/ Group!Gone))
  /\ WF_moVars(unit = "monitor" /\ Mon!Worker) /\ WF_moVars(unit = "monitor" /\ Mon!Tick)
  /\ \A i \in Mon!Id : WF_moVars(unit = "monitor" /\ Mon!Waiter(i))
  /\ \A w \in {w1, w2} : SF_acVars(unit = "accumulator" /\ Acc!WriterStep(w))
  /\ WF_acVars(unit = "accumulator" /\ Acc!SenderStep)
  /\ WF_acVars(unit = "accumulator" /\ Acc!MainStep)
  /\ WF_acVars(unit = "accumulator" /\ Acc!ServerStep)
  /\ WF_zkVars(unit = "zk client" /\ zkMain # "aborted" /\ Zk!Main)
  /\ WF_zkVars(unit = "zk client" /\ zkMain # "aborted" /\ Zk!Callback)
  /\ WF_zkVars(unit = "zk client" /\ zkMain # "aborted" /\ Zk!Change)
  /\ WF_zkVars(unit = "zk client" /\ zkMain # "aborted" /\ Zk!Reconnect)
  /\ \A p \in {p1, p2} :
       /\ WF_coVars(unit = "connections" /\ ~Links!Waits(p) /\ Links!Connecting(p))
       /\ WF_coVars(unit = "connections" /\ Links!Receiving(p))
       /\ WF_coVars(unit = "connections" /\ Links!Registering(p))

-----------------------------------------------------------------------------
ASSUME ValueAssumption

\* Every output of the replicator gets every value in order, and is closed after
\* the input was.
ReplicatorSound == unit = "replicator" => Rep!Replicates

\* Over TCP a message and its blocks, which travel on two connections and arrive
\* in pieces, are cut where they were put, and delivered once, in order except
\* that one without blocks may overtake.
FramingSound == unit = "framing" => Tcp!Framed /\ Tcp!InOrder

\* A task accepted by the thread group runs exactly once, also across a resize.
GroupSound == unit = "thread group" => Group!RunsOnce

\* An event that destroy has returned for is never run again, and every other
\* event is queued or running.
MonitorSound == unit = "monitor" => Mon!DestroyedStaysGone

\* Every value given to an accumulator is counted once, wherever it is, and when
\* wait_empty_writer may return everything was delivered.
AccumulatorSound == unit = "accumulator" => Acc!CountedOnce /\ Acc!WaitedMeansDelivered

\* Only registrations of connections that were accepted too late outlive the
\* finalize of a context.
FinalizeSound == unit = "connections" => Links!OutlivesOnlyLate

\* A queue is emptied and a call returns, again and again: a consumer that keeps
\* popping gets every value (MpscQueue, RpcChannel, SpscQueue), nobody waits for a
\* task or for an event that is being destroyed for ever, the writers of an
\* accumulator come back, and a watch of ZooKeeper sees every change.
ComesToRest ==
  []<>(/\ unit = "mpsc" => AllTaken
       /\ unit = "rpc channel" => Rpc!AllReceived
       /\ unit = "spsc" => Spsc!AllPopped
       /\ unit = "thread group" => Group!NobodyWaits
       /\ unit = "monitor" => moWaits = {}
       /\ unit = "accumulator" => Acc!WritersIdle
       /\ unit = "zk client" => Zk!Seen)

\* Somebody waits for a particular event (i: one of the monitor's), and has got it.
WaitsFor(i) ==
  \/ unit = "rpc channel" /\ rcTerminated /\ rcRpc = "wait"
  \/ unit = "replicator" /\ crInputClosed /\ crInited
  \/ unit = "thread group" /\ tgOpc \in {"join", "leave"}
  \/ unit = "monitor" /\ Mon!Due(i)
  \/ unit = "accumulator" /\ acAt[Acc!Main] \in {"waiting", "joining"}
  \/ unit = "zk client" /\ zkMain = "finalize"
HasGot(i) ==
  /\ unit = "rpc channel" => rcRpc # "wait"
  /\ unit = "replicator" => \A o \in {o1, o2} : crOutClosed[o]
  /\ unit = "thread group" => tgOpc \in {"use", "gone"}
  /\ unit = "monitor" => Mon!Served(i)
  /\ unit = "accumulator" => acAt[Acc!Main] = "idle"
  /\ unit = "zk client" => zkMain \in {"done", "aborted"} \/ zkCb = "session"

\* Whoever waits for a particular event sees it: terminate wakes a receiver, every
\* output is closed once the input is, a resize of the thread group ends, a
\* one-shot event of the monitor runs, wait_empty and finalize of the accumulators
\* return, and so does finalize of the ZooKeeper client unless a session event
\* holds it up.
WaitsEnd == \A i \in Mon!Id : WaitsFor(i) ~> HasGot(i)

\* What two processes work towards is reached and stays: every message of a
\* connection is delivered, once; and two processes that keep running end up
\* connected both ways, although dials, detached registrations and faults
\* interleave, but for a frontend whose IO thread saw the end of its connection.
Settles ==
  <>[](/\ unit = "framing" => Tcp!Delivered
       /\ unit = "connections" => coFin # "up" \/ Links!LinkedOrGivenUp)
=============================================================================
