------------------------------- MODULE Locks -------------------------------
(***************************************************************************)
(* RWSpinLock, the spin lock of src/thread/SpinLock.h, one atomic access   *)
(* per action.  A thread that holds nothing may call any of lock,          *)
(* lock_shared and lock_shared_low; a reader may upgrade; a writer may     *)
(* downgrade.  A failed attempt returns to the test: for ttas that is the  *)
(* next round of its loop, for the try_ functions the answer false.        *)
(*                                                                         *)
(* The counting semaphore of src/thread/Semaphore.h: _count under a mutex  *)
(* and a condition variable.  Each operation holds the mutex for one step; *)
(* acquire and acquire_for sleep in between.  A wake-up reaches only       *)
(* threads that a notify chose.                                            *)
(***************************************************************************)
EXTENDS Integers, FiniteSets

CONSTANTS Thread,
          MaxPermits,  \* bound: permits ever released to the semaphore
          MaxRelease   \* bound: the argument of release

\* The reader count must not run into the bits that count upgraders.
ASSUME ThreadAssumption == IsFiniteSet(Thread) /\ Cardinality(Thread) < 32768
ASSUME PermitsAssumption == MaxPermits \in Nat /\ MaxRelease \in Nat

UPGRADE == 65536
READER == 2
WRITER == 1

VARIABLES
  bits,   \* the atomic int32
  pc,     \* where each thread stands
  val     \* its local value, from test to compare_exchange

lockVars == <<bits, pc, val>>

LockInit == bits = 0 /\ pc = [t \in Thread |-> "idle"] /\ val = [t \in Thread |-> 0]

test_lock(v) == v = 0
test_lock_shared(v) == v % 2 = 0
\* As test_lock_shared_low would be without its look at the upgraders.
test_low_loose(v) == v % 2 = 0
test_lock_shared_low(v) == v < UPGRADE /\ v % 2 = 0
test_upgrade(v) == v % 2 = 0 /\ v \div UPGRADE = (v % UPGRADE) \div READER
xor_writer(v) == IF v % 2 = 1 THEN v - WRITER ELSE v + WRITER

Move(t, from, to) == pc[t] = from /\ pc' = [pc EXCEPT ![t] = to]

-----------------------------------------------------------------------------
\* bits() satisfies the test; a value that does not is loaded again.
TestLock(t) ==
  /\ Move(t, "idle", "lock") /\ test_lock(bits)
  /\ UNCHANGED <<bits, val>>
TestShared(t) ==
  /\ Move(t, "idle", "shared") /\ test_lock_shared(bits)
  /\ UNCHANGED <<bits, val>>
TestLow(t) ==
  /\ Move(t, "idle", "low") /\ test_lock_shared_low(bits)
  /\ UNCHANGED <<bits, val>>

\* compare_exchange_weak may also fail when the value is the expected one.
CasFail(t) ==
  /\ Move(t, "lock", "idle") \/ Move(t, "cas", "upgrade")
  /\ UNCHANGED <<bits, val>>

\* As try_lock would be if it only looked at the writer's bit.
LockCasLoose(t) ==
  /\ Move(t, "lock", "writer") /\ test_lock_shared(bits)
  /\ bits' = bits + WRITER
  /\ UNCHANGED val

LockCas(t) ==
  /\ Move(t, "lock", "writer") /\ bits = 0
  /\ bits' = WRITER
  /\ UNCHANGED val

\* As try_lock_shared would be if it ignored the old value.
SharedAddBlind(t) ==
  /\ Move(t, "shared", "reader")
  /\ bits' = bits + READER
  /\ UNCHANGED val

\* fetch_add(READER); the old value decides, and a loser takes it back.
SharedAdd(t) ==
  /\ Move(t, "shared", IF test_lock_shared(bits) THEN "reader" ELSE "undo")
  /\ bits' = bits + READER
  /\ UNCHANGED val

LowAdd(t) ==
  /\ Move(t, "low", IF test_lock_shared_low(bits) THEN "reader" ELSE "undo")
  /\ bits' = bits + READER
  /\ UNCHANGED val

UndoAdd(t) ==
  /\ Move(t, "undo", "idle")
  /\ bits' = bits - READER
  /\ UNCHANGED val

\* upgrade: announce, test, compare_exchange
Announce(t) ==
  /\ Move(t, "reader", "upgrade")
  /\ bits' = bits + UPGRADE
  /\ UNCHANGED val

TestUpgrade(t) ==
  /\ Move(t, "upgrade", "cas") /\ test_upgrade(bits)
  /\ val' = [val EXCEPT ![t] = bits]
  /\ UNCHANGED bits

\* As try_upgrade(value) would be if it left the reader counted.
UpgradeCasKeepReader(t) ==
  /\ Move(t, "cas", "writer") /\ bits = val[t]
  /\ bits' = bits - UPGRADE + WRITER
  /\ UNCHANGED val

UpgradeCas(t) ==
  /\ Move(t, "cas", "writer") /\ bits = val[t]
  /\ bits' = bits - UPGRADE - READER + WRITER
  /\ UNCHANGED val

\* try_upgrade(): only the sole reader succeeds.
TryUpgrade(t) ==
  /\ Move(t, "reader", "writer") /\ bits = READER
  /\ bits' = WRITER
  /\ UNCHANGED val

Unlock(t) ==
  /\ Move(t, "writer", "idle")
  /\ bits' = xor_writer(bits)
  /\ UNCHANGED val

UnlockShared(t) ==
  /\ Move(t, "reader", "idle")
  /\ bits' = bits - READER
  /\ UNCHANGED val

\* downgrade: become a reader, then stop being the writer
DowngradeAdd(t) ==
  /\ Move(t, "writer", "down")
  /\ bits' = bits + READER
  /\ UNCHANGED val

DowngradeXor(t) ==
  /\ Move(t, "down", "reader")
  /\ bits' = xor_writer(bits)
  /\ UNCHANGED val

-----------------------------------------------------------------------------
Step(t) ==
  \/ TestLock(t) \/ LockCas(t) \/ TestShared(t) \/ SharedAdd(t)
  \/ TestLow(t) \/ LowAdd(t) \/ UndoAdd(t)
  \/ Announce(t) \/ TestUpgrade(t) \/ UpgradeCas(t) \/ CasFail(t) \/ TryUpgrade(t)
  \/ Unlock(t) \/ UnlockShared(t) \/ DowngradeAdd(t) \/ DowngradeXor(t)

LockNext == \E t \in Thread : Step(t)

LockSpec == LockInit /\ [][LockNext]_lockVars

-----------------------------------------------------------------------------
\* Types: the lock's word never goes negative.
TypeOK ==
  /\ bits \in Nat
  /\ pc \in [Thread -> {"idle", "lock", "shared", "low", "undo", "reader",
                        "upgrade", "cas", "writer", "down"}]
  /\ val \in [Thread -> Nat]

Write == {"writer", "down"}

\* A writer is alone: no second writer and no reader beside it.  (A reader
\* that waits in upgrade is not reading: another upgrade may go first.)
Exclusive ==
  \A t, u \in Thread :
    t # u /\ pc[t] \in Write => pc[u] \notin Write \cup {"reader"}

Writers == {t \in Thread : pc[t] \in Write}
Readers == {t \in Thread : pc[t] \in {"reader", "undo", "upgrade", "cas", "down"}}
Upgraders == {t \in Thread : pc[t] \in {"upgrade", "cas"}}

\* The word counts exactly the holders, the attempts in flight and the
\* waiting upgrades, whatever the interleaving of adds and take-backs: when
\* all threads are idle it is 0 again.
BitsExact ==
  bits = WRITER * Cardinality(Writers) + READER * Cardinality(Readers)
           + UPGRADE * Cardinality(Upgraders)

\* lock never succeeds while a thread upgrades (comment of the class).
NoLockDuringUpgrade ==
  [][\A t \in Thread : pc[t] = "lock" /\ pc'[t] = "writer" => Upgraders = {}]_lockVars

\* lock_shared_low does not starve an upgrade: it never succeeds while a thread
\* waits in upgrade, although it tests and counts itself in in two steps.
LowYieldsToUpgrade ==
  [][\A t \in Thread : pc[t] = "low" /\ pc'[t] = "reader" => Upgraders = {}]_lockVars

\* A thread in upgrade comes first: neither lock nor lock_shared_low passes it,
\* as the comment of the class promises.
UpgradeFirst == NoLockDuringUpgrade /\ LowYieldsToUpgrade

-----------------------------------------------------------------------------
(* Semaphore                                                               *)

VARIABLES count,     \* _count
          semPc,     \* "idle", "asleep", "notified"
          timed,     \* threads whose call is acquire_for
          held,      \* permits each thread has acquired
          released   \* permits given to the semaphore so far

semVars == <<count, semPc, timed, held, released>>

SemInit ==
  /\ count \in 0..1 /\ released = count /\ timed = {}
  /\ semPc = [t \in Thread |-> "idle"] /\ held = [t \in Thread |-> 0]

Sleepers == {t \in Thread : semPc[t] = "asleep"}
Take(t) == count > 0 /\ count' = count - 1 /\ held' = [held EXCEPT ![t] = @ + 1]

\* acquire, acquire_for: the predicate holds at the call or after a wake-up, ...
acquire(t) ==
  /\ semPc[t] \in {"idle", "notified"} /\ Take(t)
  /\ semPc' = [semPc EXCEPT ![t] = "idle"] /\ timed' = timed \ {t} /\ UNCHANGED released
\* ... or the thread sleeps; a woken one sleeps on
Wait(t) ==
  /\ semPc[t] \in {"idle", "notified"} /\ count = 0
  /\ semPc' = [semPc EXCEPT ![t] = "asleep"]
  /\ \/ timed' = timed
     \/ semPc[t] = "idle" /\ timed' = timed \cup {t}
  /\ UNCHANGED <<count, held, released>>
\* As acquire_for would be if it gave up without a last look at _count.
TimeoutBlind(t) ==
  /\ t \in timed /\ semPc' = [semPc EXCEPT ![t] = "idle"] /\ timed' = timed \ {t}
  /\ UNCHANGED <<count, held, released>>
\* The time is over, before or after a notify: the predicate decides
Timeout(t) ==
  /\ t \in timed /\ semPc' = [semPc EXCEPT ![t] = "idle"] /\ timed' = timed \ {t}
  /\ Take(t) \/ (count = 0 /\ UNCHANGED <<count, held>>)
  /\ UNCHANGED released
try_acquire(t) ==
  /\ semPc[t] = "idle" /\ Take(t) /\ UNCHANGED <<semPc, timed, released>>

\* Notify up to k sleepers.
Notify(k) ==
  \E S \in SUBSET Sleepers :
    /\ Cardinality(S) = IF Cardinality(Sleepers) < k THEN Cardinality(Sleepers) ELSE k
    /\ semPc' = [t \in Thread |-> IF t \in S THEN "notified" ELSE semPc[t]]
\* As release(num) would be with one notify_one for all of them.
ReleaseNotifyOnce(num) ==
  /\ released + num <= MaxPermits
  /\ count' = count + num /\ released' = released + num
  /\ Notify(1) /\ UNCHANGED <<timed, held>>
\* release(), release(num)
release(num) ==
  /\ released + num <= MaxPermits
  /\ count' = count + num /\ released' = released + num
  /\ Notify(num) /\ UNCHANGED <<timed, held>>

SemNext ==
  \/ \E t \in Thread : acquire(t) \/ Wait(t) \/ Timeout(t) \/ try_acquire(t)
  \/ \E num \in 1..MaxRelease : release(num)

SemSpec == SemInit /\ [][SemNext]_semVars

-----------------------------------------------------------------------------
\* No permit is lost: whoever sleeps while permits are there has as many
\* notified threads before it as there are permits, through timeouts and
\* threads that come by and take a permit.
PermitsReachSleepers ==
  Sleepers # {} => count <= Cardinality({t \in Thread : semPc[t] = "notified"})
=============================================================================
