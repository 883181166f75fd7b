-------------------------------- MODULE Mutex --------------------------------
(***************************************************************************)
(* The mutex of the runtime (mutex_lock, mutex_unlock of sync.h and their  *)
(* slow paths in sync.c), one action per access to m->held or critical     *)
(* section under m->waiter_lock.                                           *)
(*                                                                         *)
(* A time stamp matters only as the one of the thread that wrote it, so    *)
(* m->oldest_tsc is that thread.  thread_park_and_unlock_np and            *)
(* thread_ready are the scheduler's: a parked thread goes on when it is    *)
(* made ready, which its waker does after it has released waiter_lock.     *)
(***************************************************************************)
EXTENDS Integers, Sequences

CONSTANTS Threads,
          NoThread   \* no thread; as a time stamp, UINT64_MAX

ASSUME ThreadsAssumption == NoThread \notin Threads

VARIABLES held,         \* m->held
          waiter_lock,  \* who holds m->waiter_lock across steps
          waiters,      \* m->waiters
          oldest,       \* m->oldest_tsc
          pc,           \* where a thread is in mutex_lock or mutex_unlock
          waking        \* the thread a waker has popped and not made ready

mvars == <<held, waiter_lock, waiters, oldest, pc, waking>>

WAITER_FLAG == 2   \* bit 31

\* Variant: the flag is added, not or-ed.
FlagAdded(h) == h + WAITER_FLAG

\* atomic_fetch_and_or(&m->held, WAITER_FLAG)
Flagged(h) == IF h < WAITER_FLAG THEN h + WAITER_FLAG ELSE h

MutexInit ==
  /\ held = 0 /\ waiter_lock = NoThread
  /\ waiters = <<>> /\ oldest = NoThread
  /\ pc = [t \in Threads |-> "out"]
  /\ waking = [t \in Threads |-> NoThread]

Goto(t, l) == pc' = [pc EXCEPT ![t] = l]

\* mutex_lock, mutex_try_lock: the cmpxchg from 0 to 1.
LockFast(t) ==
  /\ pc[t] = "out" /\ held = 0
  /\ held' = 1
  /\ Goto(t, "own")
  /\ UNCHANGED <<waiter_lock, waiters, oldest, waking>>

\* The cmpxchg failed: __mutex_lock.
LockFails(t) ==
  /\ pc[t] = "out" /\ held # 0
  /\ Goto(t, "lock")
  /\ UNCHANGED <<held, waiter_lock, waiters, oldest, waking>>

\* Variant: the thread parks even if the mutex was released meanwhile.
ParksAnyway(h) == TRUE

\* The mutex is still owned: the thread has to wait for it.
MustPark(h) == h # 0

\* Variant: a thread that finds the list empty leaves the old stamp.
KeepsOldest(t) == oldest

\* m->oldest_tsc after t was added to the list.
OldestAdded(t) == IF waiters = <<>> THEN t ELSE oldest

\* __mutex_lock: under waiter_lock the flag is set; then either the mutex is
\* taken, with waiter_lock still held, or the thread queues and parks.
LockSlow(t) ==
  /\ pc[t] = "lock" /\ waiter_lock = NoThread
  /\ held' = Flagged(held)
  /\ IF MustPark(held)
     THEN /\ waiters' = Append(waiters, t)
          /\ oldest' = OldestAdded(t)
          /\ Goto(t, "parked")
          /\ UNCHANGED waiter_lock
     ELSE /\ waiter_lock' = t
          /\ Goto(t, "claim")
          /\ UNCHANGED <<waiters, oldest>>
  /\ UNCHANGED waking

\* "did we race with mutex_unlock?": held is written without the flag.
LockClaim(t) ==
  /\ pc[t] = "claim"
  /\ held' = 1
  /\ waiter_lock' = NoThread
  /\ Goto(t, "own")
  /\ UNCHANGED <<waiters, oldest, waking>>

\* mutex_unlock: the cmpxchg from 1 to 0.
UnlockFast(t) ==
  /\ pc[t] = "own" /\ held = 1
  /\ held' = 0
  /\ Goto(t, "out")
  /\ UNCHANGED <<waiter_lock, waiters, oldest, waking>>

\* There are waiters, or there were: __mutex_unlock.
UnlockFails(t) ==
  /\ pc[t] = "own" /\ held # 1
  /\ Goto(t, "unlock")
  /\ UNCHANGED <<held, waiter_lock, waiters, oldest, waking>>

\* Variant: the mutex is released although a waiter was popped.
ReleasedToAll == 0

\* m->held after __mutex_unlock: it stays set if it is handed to a waiter.
HandedOver == IF waiters = <<>> THEN 0 ELSE held

\* m->oldest_tsc once the first waiter has been popped.
OldestLeft(l) == IF Len(l) < 2 THEN NoThread ELSE l[2]

UnlockSlow(t) ==
  /\ pc[t] = "unlock" /\ waiter_lock = NoThread
  /\ held' = HandedOver
  /\ IF waiters = <<>>
     THEN /\ Goto(t, "out")
          /\ UNCHANGED <<waiters, oldest, waking>>
     ELSE /\ waking' = [waking EXCEPT ![t] = Head(waiters)]
          /\ waiters' = Tail(waiters)
          /\ oldest' = OldestLeft(waiters)
          /\ Goto(t, "wake")
  /\ UNCHANGED waiter_lock

\* thread_ready(waketh): the waiter owns the mutex without touching it.
UnlockWake(t) ==
  /\ pc[t] = "wake"
  /\ pc' = [pc EXCEPT ![t] = "out", ![waking[t]] = "own"]
  /\ waking' = [waking EXCEPT ![t] = NoThread]
  /\ UNCHANGED <<held, waiter_lock, waiters, oldest>>

MutexLock(t) == LockFast(t) \/ LockFails(t)
MutexUnlock(t) == UnlockFast(t) \/ UnlockFails(t)

\* What a thread does once it has entered one of the slow paths.
MutexStep(t) == LockSlow(t) \/ LockClaim(t) \/ UnlockSlow(t) \/ UnlockWake(t)

MutexNext == \E t \in Threads : MutexLock(t) \/ MutexUnlock(t) \/ MutexStep(t)

MutexSpec == MutexInit /\ [][MutexNext]_mvars

-----------------------------------------------------------------------------
(* Properties.                                                             *)

MutexTypeOK ==
  /\ held \in 0 .. 3 /\ waiter_lock \in Threads \cup {NoThread}
  /\ waiters \in Seq(Threads) /\ oldest \in Threads \cup {NoThread}
  /\ pc \in [Threads -> {"out", "lock", "claim", "parked", "own", "unlock", "wake"}]
  /\ waking \in [Threads -> Threads \cup {NoThread}]

\* Threads that believe they own the mutex.
Owners == {t \in Threads : pc[t] \in {"own", "unlock"}}

\* At most one thread is between mutex_lock and mutex_unlock, whichever of the
\* fast path, the slow path and the hand-over in __mutex_unlock let it in.
MutualExclusion == \A t, u \in Owners : t = u

\* The mutex is held exactly if somebody owns it or is about to: its owner, a
\* thread that claims it, or a popped waiter that is not yet running.
HeldByOne ==
  (held = 0) <=> (\A t \in Threads : t \notin Owners /\ pc[t] \notin {"claim", "wake"})

Listed(t) == \E i \in 1 .. Len(waiters) : waiters[i] = t
Popped(t) == \E u \in Threads : waking[u] = t

\* A thread parked in __mutex_lock is in the list, once, or its waker is about
\* to make it ready; while somebody is in the list the flag is set, so that the
\* owner's mutex_unlock does not take the fast path past it; and what
\* mutex_queue_tsc reads is the stamp of the first in the list.
MutexWaitersKnown ==
  /\ \A i, j \in 1 .. Len(waiters) : waiters[i] = waiters[j] => i = j
  /\ \A t \in Threads : /\ (pc[t] = "parked") <=> (Listed(t) \/ Popped(t))
                        /\ ~ (Listed(t) /\ Popped(t))
  /\ waiters # <<>> => held >= WAITER_FLAG
  /\ oldest = IF waiters = <<>> THEN NoThread ELSE Head(waiters)

OwnerOf == IF Owners = {} THEN NoThread ELSE CHOOSE t \in Threads : t \in Owners

\* The thread that was popped and not made ready, and the queue with it.
NextUp ==
  IF \E u \in Threads : pc[u] = "wake"
  THEN waking[CHOOSE u \in Threads : pc[u] = "wake"] ELSE NoThread
QueueOf == IF NextUp = NoThread THEN waiters ELSE <<NextUp>> \o waiters

L == INSTANCE FifoLock WITH owner <- OwnerOf, queue <- QueueOf

\* The mutex is a lock without overtaking: neither a fast path of mutex_lock nor
\* a thread that races with mutex_unlock gets past a thread that has queued,
\* and __mutex_unlock hands the mutex to the one that queued first.
ImplementsLock == L!Spec

\* A thread that has parked for the mutex gets it, if owners unlock it.
MutexServed == \A t \in Threads : pc[t] = "parked" ~> pc[t] = "own"
=============================================================================
