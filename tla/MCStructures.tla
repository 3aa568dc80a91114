---------------------------- MODULE MCStructures ----------------------------
(* Small instances for TLC of the components that are asked for safety     *)
(* only: the structures that calls share in memory (locks, channel, the    *)
(* single-producer queue, tables and caches, archives, aggregators, the    *)
(* configuration), the channel of a dealer, the calls of client dealers,   *)
(* the ranks of a role, and a value read through ZooKeeper. One of them    *)
(* runs in a behaviour, the others rest in an initial state, so a run has  *)
(* the states of each of them and no products.                             *)
EXTENDS Locks, SpscQueue, RpcChannel, TLC

CONSTANTS t1, t2, t3, w1, w2, r1, r2, k1, k2, k3, f1, f2, o1, o2, ty1, ty2, c1, c2, c3, srv, None

\* A number hashes to itself.
Id(S) == [k \in S |-> k]

\* What is put into a LazyArchive: plain data, blocks, archives and vectors of
\* some size, and pairs and lists of them.
Plain == [k |-> "plain"]
Blob(k, len) == [k |-> k, size |-> len]
Pair(x, y) == [k |-> "pair", first |-> x, second |-> y]
List(of, items) == [k |-> "list", of |-> of, items |-> items]
Shapes ==
  {Plain, Blob("block", 2), Blob("archive", 0), Blob("archive", 3), Blob("vector", 1),
   Pair(Plain, Blob("vector", 2)),
   List(Blob("archive", 1), <<Blob("archive", 1), Blob("archive", 1)>>),
   List(Plain, <<>>),
   List(Pair(Plain, Blob("archive", 1)), <<Pair(Plain, Blob("archive", 1))>>)}

\* A configuration: a number, an enum of a point and a list of numbers, a list of
\* points, and a URI; with documents that fit it, omit fields, replace a list by
\* one element, change the alternative, or are refused.
Number == [k |-> "int"]
NoCheck == [k |-> "default"]
Field(type, default, optional, check) ==
  [type |-> type, default |-> default, optional |-> optional, check |-> check]
Struct(names, fields) == [k |-> "node", names |-> names, fields |-> fields, alts |-> <<>>]
Point ==
  Struct(<<"x", "y">>, [x |-> Field(Number, 0, TRUE, [k |-> "CO", min |-> 0, max |-> 2]),
                        y |-> Field(Number, 1, FALSE, [k |-> "ne", x |-> 0])])
Numbers ==
  Struct(<<"l">>, [l |-> Field([k |-> "ints"], <<1, 1>>, TRUE,
                               [k |-> "nonempty", of |-> [k |-> "OC", min |-> 0, max |-> 2]])])
Kind ==
  [k |-> "enum", names |-> <<"type">>,
   fields |-> [type |-> Field([k |-> "string"], "none", TRUE, NoCheck)],
   alts |-> [point |-> [type |-> Point, check |-> NoCheck],
             list |-> [type |-> Numbers, check |-> NoCheck]]]
Settings ==
  Struct(<<"a", "k", "p", "u">>,
         [a |-> Field(Number, 0, FALSE, [k |-> "ge", min |-> 1]),
          k |-> Field(Kind, <<>>, TRUE, NoCheck),
          p |-> Field([k |-> "list", of |-> Point], <<>>, TRUE,
                      [k |-> "size", of |-> [k |-> "lt", max |-> 3]]),
          u |-> Field([k |-> "uri"], "mem://", TRUE, NoCheck)])
Txt(t) == [k |-> "scalar", text |-> t]
Seqn(s) == [k |-> "sequence", items |-> s]
Obj(f) == [k |-> "map", keys |-> f]
Documents ==
  {Obj([a |-> Txt("1"),
        p |-> Seqn(<<Obj([x |-> Txt("1"), y |-> Txt("2")]), Obj([y |-> Txt("1")])>>)]),
   Obj([a |-> Txt("+1"), k |-> Obj([type |-> Txt("point"), y |-> Txt("1")]),
        p |-> Obj([y |-> Txt("2")])]),
   Obj([a |-> Txt("2"), k |-> Obj([type |-> Txt("list"), l |-> Seqn(<<Txt("1"), Txt("2")>>)]),
        u |-> Txt("x")]),
   Obj([a |-> Txt("2"), k |-> Obj([type |-> Txt("list"), l |-> Txt("2")]),
        p |-> Seqn(<<Obj([x |-> Txt("2"), y |-> Txt("1")])>>)]),
   Obj([k |-> Obj([type |-> Txt("other")]),
        p |-> Seqn(<<Obj([x |-> Txt("1"), y |-> Txt("1")]), Txt("0")>>)])}
To(path, text) == [path |-> path, text |-> text]

VARIABLE unit    \* the component that runs

VARIABLES chReserved, chData, chClosed, chOom, chShared, chCapacity, chMutex, chPc, chLeft,
          chWritten, chRead, chOpens
chVars == <<chReserved, chData, chClosed, chOom, chShared, chCapacity, chMutex, chPc, chLeft,
            chWritten, chRead, chOpens>>
Chan == INSTANCE Channel WITH
  Writer <- {w1, w2}, Reader <- {r1, r2}, Capacity <- {1, 2}, MaxBatch <- 2, MaxWrites <- 3,
  MaxOpens <- 1, None <- None, reserved <- chReserved, data <- chData, closed <- chClosed,
  oom <- chOom, shared <- chShared, capacity <- chCapacity, mutex <- chMutex, pc <- chPc,
  left <- chLeft, written <- chWritten, read <- chRead, opens <- chOpens

VARIABLES htOld, htNew, htNewBegin, htCount, htMask, htSize, htFactor, htAborted, htReserved,
          htContents
htVars == <<htOld, htNew, htNewBegin, htCount, htMask, htSize, htFactor, htAborted, htReserved,
            htContents>>
Table == INSTANCE HashTable WITH
  Key <- {0, 1, 2, 5}, Hash <- Id({0, 1, 2, 5}), Capacity <- {1, 3}, Factor <- {40},
  MaxCapacity <- 12, Garbage <- None, old <- htOld, new <- htNew, newBegin <- htNewBegin,
  count <- htCount, mask <- htMask, size <- htSize, factor <- htFactor, aborted <- htAborted,
  reserved <- htReserved, contents <- htContents

VARIABLES poTable, poFactor, poMost, poTrivial, poContents, poIt, poVisits, poDue
poVars == <<poTable, poFactor, poMost, poTrivial, poContents, poIt, poVisits, poDue>>
Pool == INSTANCE PoolHashTable WITH
  Key <- {0, 1, 4, 5}, Hash <- Id({0, 1, 4, 5}), Factor <- {500, 1000}, MaxNodes <- 6,
  None <- None, table <- poTable, factor <- poFactor, most <- poMost, trivial <- poTrivial,
  contents <- poContents, it <- poIt, visits <- poVisits, due <- poDue

VARIABLES lrMap, lrList, lrCount, lrUsage, lrAt, lrSought, lrInserts, lrCorrupt, lrAgain, lrStale
lrVars == <<lrMap, lrList, lrCount, lrUsage, lrAt, lrSought, lrInserts, lrCorrupt, lrAgain,
            lrStale>>
Cache == INSTANCE LRUCache WITH
  Key <- {k1, k2, k3}, Size <- {1, 3}, Finder <- {f1, f2}, MaxCount <- 2, MaxMemory <- 4,
  MaxAccess <- 2, MaxInserts <- 4, map <- lrMap, list <- lrList, count <- lrCount,
  usage <- lrUsage, at <- lrAt, sought <- lrSought, inserts <- lrInserts, corrupt <- lrCorrupt,
  again <- lrAgain, stale <- lrStale

VARIABLES lvBuffers, lvViews, lvTotal, lvItems, lvOps, lvContent
lvVars == <<lvBuffers, lvViews, lvTotal, lvItems, lvOps, lvContent>>
Vec == INSTANCE LazyVector WITH
  Vector <- {o1, o2}, MaxItems <- 4, MaxOps <- 2, buffers <- lvBuffers, views <- lvViews,
  total <- lvTotal, items <- lvItems, ops <- lvOps, content <- lvContent

VARIABLES msTree, msOpen, msObjects, msRemoved, msThrown
msVars == <<msTree, msOpen, msObjects, msRemoved, msThrown>>
Store == INSTANCE MemoryStorage WITH
  Path <- {<<"a">>, <<"a", "b">>}, Type <- {ty1, ty2}, None <- None, Client <- {c1, c2, c3},
  MaxObjects <- 3, tree <- msTree, open <- msOpen, objects <- msObjects, removed <- msRemoved,
  thrown <- msThrown

VARIABLES arAr, arHeap, arHeld, arShadow, arStrange, arLoose, arFaults, arOps
arVars == <<arAr, arHeap, arHeld, arShadow, arStrange, arLoose, arFaults, arOps>>
Ar == INSTANCE MemoryArchive WITH
  Archive <- {o1, o2}, MaxBlocks <- 3, MaxOps <- 3, Grain <- 2, Null <- None, ar <- arAr,
  heap <- arHeap, held <- arHeld, shadow <- arShadow, strange <- arStrange, loose <- arLoose,
  faults <- arFaults, ops <- arOps

VARIABLES laLazy, laCur, laStage, laLocal, laMeta, laData, laPos, laOut, laKept, laFreed
laVars == <<laLazy, laCur, laStage, laLocal, laMeta, laData, laPos, laOut, laKept, laFreed>>
Lazy == INSTANCE LazyArchive WITH
  Shapes <- Shapes, MaxValues <- 2, lazy <- laLazy, cur <- laCur, stage <- laStage,
  local <- laLocal, meta <- laMeta, data <- laData, pos <- laPos, out <- laOut, kept <- laKept,
  freed <- laFreed

VARIABLES agType, agStream
agVars == <<agType, agStream>>
Agg == INSTANCE Aggregators WITH
  Value <- {-2, 0, 1, 3}, Key <- {k1, k2}, Bound <- 3, MaxLen <- 4, type <- agType,
  stream <- agStream

VARIABLES cfConfig, cfNode, cfLoaded, cfResult, cfClean
cfVars == <<cfConfig, cfNode, cfLoaded, cfResult, cfClean>>
Conf == INSTANCE Configure WITH
  Root <- Settings, Files <- Documents,
  Edits <- {To(<<"k", "type">>, "point"), To(<<"k", "y">>, "0")},
  Numeral <- "0" :> 0 @@ "1" :> 1 @@ "+1" :> 1 @@ "2" :> 2,
  Decimal <- 0 :> "0" @@ 1 :> "1" @@ 2 :> "2", config <- cfConfig, node <- cfNode,
  loaded <- cfLoaded, result <- cfResult, clean <- cfClean

VARIABLES rpWhere, rpMoves, rpView, rpViewMoves, rpUp, rpBreaks, rpDpc, rpId, rpNextId, rpUsedIds,
          rpServers, rpAvailable, rpChan, rpWaitsFor, rpLate, rpTarget, rpBy, rpPlace, rpRouted,
          rpAnswered
rpVars == <<rpWhere, rpMoves, rpView, rpViewMoves, rpUp, rpBreaks, rpDpc, rpId, rpNextId,
            rpUsedIds, rpServers, rpAvailable, rpChan, rpWaitsFor, rpLate, rpTarget, rpBy, rpPlace,
            rpRouted, rpAnswered>>
Dealing == INSTANCE RpcCall WITH
  Sid <- {srv}, Where0 <- [s \in {srv} |-> "here"], Target <- {srv, "there", "any"}, Dealers <- 2,
  Calls <- 2, IdSpace <- 3, MaxMoves <- 1, MaxBreaks <- 1, where <- rpWhere, moves <- rpMoves,
  view <- rpView, viewMoves <- rpViewMoves, up <- rpUp, breaks <- rpBreaks, dpc <- rpDpc,
  id <- rpId, nextId <- rpNextId, usedIds <- rpUsedIds, servers <- rpServers,
  available <- rpAvailable, chan <- rpChan, waitsFor <- rpWaitsFor, late <- rpLate,
  target <- rpTarget, by <- rpBy, place <- rpPlace, routed <- rpRouted, answered <- rpAnswered

VARIABLES zvVersion, zvLength, zvReader, zvLen, zvDataLength, zvBuffer, zvValue, zvSince
zvVars == <<zvVersion, zvLength, zvReader, zvLen, zvDataLength, zvBuffer, zvValue, zvSince>>

VARIABLES rrDir, rrChildren, rrPc, rrRound, rrListed, rrInside, rrAll
rrVars == <<rrDir, rrChildren, rrPc, rrRound, rrListed, rrInside, rrAll>>
Reads == INSTANCE ClientReads WITH
  Process <- {1, 2, 3}, Leftover <- {2, 4}, Rounds <- 2, Length <- {0, 1, 2, 3, 4}, First <- 2,
  MaxChanges <- 3, dir <- rrDir, children <- rrChildren, pc <- rrPc, round <- rrRound,
  listed <- rrListed, inside <- rrInside, all <- rrAll, version <- zvVersion, length <- zvLength,
  reader <- zvReader, len <- zvLen, dataLength <- zvDataLength, buffer <- zvBuffer,
  value <- zvValue, since <- zvSince

-----------------------------------------------------------------------------
SumInit ==
  /\ unit \in {"lock", "semaphore", "spsc", "rpc channel", "channel", "hash table", "pool table",
               "cache", "vector", "storage", "archive", "lazy archive", "aggregators", "configure",
               "call", "zk value", "ranks"}
  /\ LockInit
  /\ SemInit /\ (unit # "semaphore" => count = 0)
  /\ SpscInit
  /\ Init /\ (unit # "rpc channel" => timeout = "forever")
  /\ Chan!Init /\ (unit # "channel" => chCapacity = 1)
  /\ Table!Init /\ (unit # "hash table" => htNew = Table!Constructed(1).new)
  /\ Pool!Init /\ (unit # "pool table" => poTrivial)
  /\ Cache!Init
  /\ Vec!Init
  /\ Store!Init
  /\ Ar!Init /\ (unit # "archive" => \A v \in {o1, o2} : ~arAr[v].msg)
  /\ Lazy!Init /\ (unit # "lazy archive" => laLocal)
  /\ Agg!Init /\ (unit # "aggregators" => agType = "integral")
  /\ Conf!Init
  /\ Dealing!Init /\ (unit # "call" => rpTarget = <<srv, srv>>)
  /\ Reads!ValueInit /\ (unit # "zk value" => zvLength = 0)
  /\ Reads!RankInit /\ (unit # "ranks" => rrChildren = {} /\ rrDir)
SumNext ==
  \/ unit = "lock" /\ LockNext /\ UNCHANGED <<unit, semVars, spscVars, vars, chVars, htVars,
          poVars, lrVars, lvVars, msVars, arVars, laVars, agVars, cfVars, rpVars, zvVars, rrVars>>
  \/ unit = "semaphore" /\ SemNext /\ UNCHANGED <<unit, lockVars, spscVars, vars, chVars, htVars,
          poVars, lrVars, lvVars, msVars, arVars, laVars, agVars, cfVars, rpVars, zvVars, rrVars>>
  \/ unit = "spsc" /\ SpscNext /\ UNCHANGED <<unit, lockVars, semVars, vars, chVars, htVars,
          poVars, lrVars, lvVars, msVars, arVars, laVars, agVars, cfVars, rpVars, zvVars, rrVars>>
  \/ unit = "rpc channel" /\ Next /\ UNCHANGED <<unit, lockVars, semVars, spscVars, chVars, htVars,
          poVars, lrVars, lvVars, msVars, arVars, laVars, agVars, cfVars, rpVars, zvVars, rrVars>>
  \/ unit = "channel" /\ Chan!Next /\ UNCHANGED <<unit, lockVars, semVars, spscVars, vars, htVars,
          poVars, lrVars, lvVars, msVars, arVars, laVars, agVars, cfVars, rpVars, zvVars, rrVars>>
  \/ unit = "hash table" /\ Table!Next /\ UNCHANGED <<unit, lockVars, semVars, spscVars, vars,
          chVars, poVars, lrVars, lvVars, msVars, arVars, laVars, agVars, cfVars, rpVars, zvVars,
          rrVars>>
  \/ unit = "pool table" /\ Pool!Next /\ UNCHANGED <<unit, lockVars, semVars, spscVars, vars,
          chVars, htVars, lrVars, lvVars, msVars, arVars, laVars, agVars, cfVars, rpVars, zvVars,
          rrVars>>
  \/ unit = "cache" /\ Cache!Next /\ UNCHANGED <<unit, lockVars, semVars, spscVars, vars, chVars,
          htVars, poVars, lvVars, msVars, arVars, laVars, agVars, cfVars, rpVars, zvVars, rrVars>>
  \/ unit = "vector" /\ Vec!Next /\ UNCHANGED <<unit, lockVars, semVars, spscVars, vars, chVars,
          htVars, poVars, lrVars, msVars, arVars, laVars, agVars, cfVars, rpVars, zvVars, rrVars>>
  \/ unit = "storage" /\ Store!Next /\ UNCHANGED <<unit, lockVars, semVars, spscVars, vars, chVars,
          htVars, poVars, lrVars, lvVars, arVars, laVars, agVars, cfVars, rpVars, zvVars, rrVars>>
  \/ unit = "archive" /\ Ar!Next /\ UNCHANGED <<unit, lockVars, semVars, spscVars, vars, chVars,
          htVars, poVars, lrVars, lvVars, msVars, laVars, agVars, cfVars, rpVars, zvVars, rrVars>>
  \/ unit = "lazy archive" /\ Lazy!Next /\ UNCHANGED <<unit, lockVars, semVars, spscVars, vars,
          chVars, htVars, poVars, lrVars, lvVars, msVars, arVars, agVars, cfVars, rpVars, zvVars,
          rrVars>>
  \/ unit = "aggregators" /\ Agg!Next /\ UNCHANGED <<unit, lockVars, semVars, spscVars, vars,
          chVars, htVars, poVars, lrVars, lvVars, msVars, arVars, laVars, cfVars, rpVars, zvVars,
          rrVars>>
  \/ unit = "configure" /\ Conf!Next /\ UNCHANGED <<unit, lockVars, semVars, spscVars, vars,
          chVars, htVars, poVars, lrVars, lvVars, msVars, arVars, laVars, agVars, rpVars, zvVars,
          rrVars>>
  \/ unit = "call" /\ Dealing!Next /\ UNCHANGED <<unit, lockVars, semVars, spscVars, vars, chVars,
          htVars, poVars, lrVars, lvVars, msVars, arVars, laVars, agVars, cfVars, zvVars, rrVars>>
  \/ unit = "zk value" /\ Reads!ValueNext /\ UNCHANGED <<unit, lockVars, semVars, spscVars, vars,
          chVars, htVars, poVars, lrVars, lvVars, msVars, arVars, laVars, agVars, cfVars, rpVars,
          rrVars>>
  \/ unit = "ranks" /\ Reads!RankNext /\ UNCHANGED <<unit, lockVars, semVars, spscVars, vars,
          chVars, htVars, poVars, lrVars, lvVars, msVars, arVars, laVars, agVars, cfVars, rpVars,
          zvVars>>
all == <<unit, lockVars, semVars, spscVars, vars, chVars, htVars, poVars, lrVars, lvVars, msVars,
         arVars, laVars, agVars, cfVars, rpVars, zvVars, rrVars>>
SumSpec == SumInit /\ [][SumNext]_all

-----------------------------------------------------------------------------
ASSUME NodeAssumption
ASSUME SenderAssumption /\ CallsAssumption /\ TimeoutsAssumption

\* The channel hands out every accepted value once, in order, across its
\* reserved slot, its deque, batches, closing and reopening; and while a value
\* or a free place is there, not every reader or writer that wants it sleeps.
ChannelSound == unit = "channel" => Chan!Fifo /\ Chan!NoLostWakeup

\* No thread sleeps in acquire while the semaphore holds a permit that nobody
\* was woken for, and the threads at the spin lock never all spin for good.
LocksGoOn ==
  /\ unit = "semaphore" => PermitsReachSleepers
  /\ unit = "lock" => ENABLED LockNext

\* Tables, caches, vectors and stores hold what was put into them: both hash
\* tables find exactly what was inserted and not erased, at every step of a rehash
\* that is spread over later calls and after every displacement, and a walk that
\* erases as it goes visits each entry once; usage and count of the LRU cache agree
\* with its list; a vector built of views reads as the concatenation of what was
\* put into it; no path is open for writing twice; and an aggregate does not depend
\* on how its inputs were split over writers.
StoresExact ==
  /\ unit = "hash table" => Table!Exact
  /\ unit = "pool table" => Pool!FindsExactly /\ Pool!VisitsOnce
  /\ unit = "cache" => Cache!CacheSound
  /\ unit = "vector" => Vec!VectorExact
  /\ unit = "storage" => Store!StorageSound
  /\ unit = "aggregators" => Agg!SplitsAgree

\* A load of a configuration takes what the document says, can be written and
\* loaded again, and is repeatable, whatever the tree held before.
ConfigureSound == unit = "configure" => Conf!ConfigureSound

\* A block of an archive is freed once and with the right deleter, and the values
\* put into a LazyArchive come out once, owned by one party.
ArchivesOwn ==
  /\ unit = "archive" => Ar!ArchiveSound
  /\ unit = "lazy archive" => Lazy!LazySound

\* A client dealer returns the answer to the call it waits for, never a late
\* answer to an earlier one; and drops only answers nobody waits for.
CallSound == unit = "call" => Dealing!RightAnswer /\ Dealing!DroppedOnlyStale

\* A value read in several calls is one the node had, whole; and all processes of
\* a role get the same list of ranks, whatever an earlier run left behind.
ReadsAgree ==
  /\ unit = "zk value" => Reads!ReadsWhole
  /\ unit = "ranks" => Reads!RanksAgree
=============================================================================
