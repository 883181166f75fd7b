------------------------------- MODULE CondVar -------------------------------
(***************************************************************************)
(* Condition variables of the runtime (condvar_* of sync.c) on top of the  *)
(* mutex, with the timer a timed wait arms (timer_start, timer_cancel,     *)
(* timer_softirq_one of timer.c).                                          *)
(*                                                                         *)
(* A thread is in a condvar function or not (call); the mutex operations   *)
(* such a function makes are the actions of module Mutex.  A timer may     *)
(* fire at any time after it was armed; its handler runs on a softirq      *)
(* thread, beside everything else.                                         *)
(***************************************************************************)
EXTENDS Mutex, FiniteSets

VARIABLES cv_lock,     \* who holds cv->waiter_lock across steps
          cv_waiters,  \* cv->waiters
          cv_oldest,   \* cv->oldest_tsc
          call,        \* where a thread is in a condvar function
          timed,       \* is it condvar_wait_timed?
          timed_out,   \* args.timed_out
          to_ready,    \* popped threads it has yet to make ready
          timer        \* the timer entry on its stack, and the handler's step

cvars == <<cv_lock, cv_waiters, cv_oldest>>
tvars == <<timed, timed_out, timer>>
vars == <<mvars, cvars, call, to_ready, tvars>>

Init ==
  /\ MutexInit
  /\ cv_lock = NoThread /\ cv_waiters = <<>> /\ cv_oldest = NoThread
  /\ call = [t \in Threads |-> "none"]
  /\ timed = [t \in Threads |-> FALSE]
  /\ timed_out = [t \in Threads |-> FALSE]
  /\ to_ready = [t \in Threads |-> <<>>]
  /\ timer = [t \in Threads |-> "off"]

CallAt(t, l) == call' = [call EXCEPT ![t] = l]

Without(l, t) == SelectSeq(l, LAMBDA u : u # t)

\* cv->oldest_tsc when the list has become l.
CvOldest(l) == IF l = <<>> THEN NoThread ELSE Head(l)

-----------------------------------------------------------------------------
(* Waiting.                                                                *)

\* condvar_wait, or condvar_wait_timed up to timer_start.  The caller holds the
\* mutex.  Every wait has a timer entry of its own: the last store of an earlier
\* handler, to an entry that is gone, has no effect on it.
Wait(t, tm) ==
  /\ call[t] = "none" /\ pc[t] = "own"
  /\ timed' = [timed EXCEPT ![t] = tm]
  /\ timed_out' = [timed_out EXCEPT ![t] = FALSE]
  /\ timer' = [timer EXCEPT ![t] = IF tm THEN "armed" ELSE @]
  /\ CallAt(t, "lock")
  /\ UNCHANGED <<mvars, cvars, to_ready>>

\* cv->waiter_lock; a wait that has timed out by now returns with the mutex.
WaitLock(t) ==
  /\ call[t] = "lock" /\ cv_lock = NoThread
  /\ IF timed[t] /\ timed_out[t]
     THEN CallAt(t, "none") /\ UNCHANGED cv_lock
     ELSE CallAt(t, "unlock") /\ cv_lock' = t
  /\ UNCHANGED <<mvars, cv_waiters, cv_oldest, to_ready, tvars>>

\* mutex_unlock(m), with cv->waiter_lock held.
WaitUnlock(t) ==
  /\ call[t] = "unlock" /\ MutexUnlock(t)
  /\ UNCHANGED <<cvars, call, to_ready, tvars>>

\* Variant: every waiter writes its stamp.
CvOldestLast(t) == t

\* cv->oldest_tsc after t was added to the list.
CvOldestAdded(t) == IF cv_waiters = <<>> THEN t ELSE cv_oldest

\* The thread queues and parks, releasing cv->waiter_lock.
WaitPark(t) ==
  /\ call[t] = "unlock" /\ pc[t] = "out"
  /\ cv_oldest' = CvOldestAdded(t)
  /\ cv_waiters' = Append(cv_waiters, t)
  /\ cv_lock' = NoThread
  /\ CallAt(t, "parked")
  /\ UNCHANGED <<mvars, to_ready, tvars>>

\* Variant: the handler is not waited for.
CancelsAtOnce(t) == TRUE

\* timer_cancel takes an armed timer off the heap and waits for the handler of
\* one that is executing.
Cancels(t) == timer[t] \in {"armed", "off"}

\* Made ready: the timer is cancelled unless it woke the thread.
WaitWoken(t) ==
  /\ call[t] = "woken"
  /\ IF timed[t] /\ ~ timed_out[t]
     THEN Cancels(t) /\ timer' = [timer EXCEPT ![t] = IF @ = "armed" THEN "off" ELSE @]
     ELSE UNCHANGED timer
  /\ CallAt(t, "relock")
  /\ UNCHANGED <<mvars, cvars, to_ready, timed, timed_out>>

\* mutex_lock(m), then return.
WaitRelock(t) ==
  /\ call[t] = "relock" /\ MutexLock(t)
  /\ UNCHANGED <<cvars, call, to_ready, tvars>>

WaitReturn(t) ==
  /\ call[t] = "relock" /\ pc[t] = "own"
  /\ CallAt(t, "none")
  /\ UNCHANGED <<mvars, cvars, to_ready, tvars>>

-----------------------------------------------------------------------------
(* Signalling, with or without the mutex.                                  *)

\* Variant: the first waiter stays in the list.
SignalKeeps(l) == l

\* What condvar_signal leaves in the list.
SignalLeaves(l) == IF l = <<>> THEN l ELSE Tail(l)

\* condvar_signal pops one waiter, condvar_broadcast all of them.
Signal(t) ==
  /\ call[t] = "none" /\ pc[t] \in {"out", "own"} /\ cv_lock = NoThread
  /\ cv_waiters' = SignalLeaves(cv_waiters)
  /\ to_ready' = [to_ready EXCEPT ![t] =
                    IF cv_waiters = <<>> THEN <<>> ELSE <<Head(cv_waiters)>>]
  /\ cv_oldest' = CvOldest(cv_waiters')
  /\ CallAt(t, "ready")
  /\ UNCHANGED <<mvars, cv_lock, tvars>>

Broadcast(t) ==
  /\ call[t] = "none" /\ pc[t] \in {"out", "own"} /\ cv_lock = NoThread
  /\ cv_waiters' = <<>>
  /\ to_ready' = [to_ready EXCEPT ![t] = cv_waiters]
  /\ cv_oldest' = NoThread
  /\ CallAt(t, "ready")
  /\ UNCHANGED <<mvars, cv_lock, tvars>>

\* thread_ready of what was popped, one after the other.
Ready(t) ==
  /\ call[t] = "ready"
  /\ IF to_ready[t] = <<>>
     THEN CallAt(t, "none") /\ UNCHANGED to_ready
     ELSE /\ call' = [call EXCEPT ![Head(to_ready[t])] = "woken"]
          /\ to_ready' = [to_ready EXCEPT ![t] = Tail(@)]
  /\ UNCHANGED <<mvars, cvars, tvars>>

-----------------------------------------------------------------------------
(* The timer of t: timer_softirq_one and condvar_timeout.                  *)

TimerAt(t, l) == timer' = [timer EXCEPT ![t] = l]

\* The entry leaves the heap and its handler is called.
TimerFire(t) ==
  /\ timer[t] = "armed"
  /\ TimerAt(t, "fired")
  /\ UNCHANGED <<mvars, cvars, call, to_ready, timed, timed_out>>

\* Variant: the thread is made ready whether or not it is in the list.
TimeoutAlways(t) == TRUE

\* condvar_timeout finds the thread in the list.
TimeoutFinds(t) == \E i \in 1 .. Len(cv_waiters) : cv_waiters[i] = t

Timeout(t) ==
  /\ timer[t] = "fired" /\ cv_lock = NoThread
  /\ cv_waiters' = Without(cv_waiters, t)
  /\ cv_oldest' = CvOldest(cv_waiters')
  /\ timed_out' = [timed_out EXCEPT ![t] = @ \/ TimeoutFinds(t)]
  /\ TimerAt(t, IF TimeoutFinds(t) THEN "wake" ELSE "end")
  /\ UNCHANGED <<mvars, cv_lock, call, to_ready, timed>>

\* thread_ready(th), after cv->waiter_lock was released.
TimeoutWake(t) ==
  /\ timer[t] = "wake"
  /\ CallAt(t, "woken")
  /\ TimerAt(t, "end")
  /\ UNCHANGED <<mvars, cvars, to_ready, timed, timed_out>>

\* store_release(&e->executing, false)
TimerEnd(t) ==
  /\ timer[t] = "end"
  /\ TimerAt(t, "off")
  /\ UNCHANGED <<mvars, cvars, call, to_ready, timed, timed_out>>

-----------------------------------------------------------------------------

\* A thread inside a mutex or condvar function.
Busy(t) ==
  \/ MutexStep(t) /\ UNCHANGED <<cvars, call, to_ready, tvars>>
  \/ WaitLock(t) \/ WaitUnlock(t) \/ WaitPark(t) \/ WaitWoken(t)
  \/ WaitRelock(t) \/ WaitReturn(t) \/ Ready(t)

\* The program leaves its critical section.
Leave(t) ==
  /\ call[t] = "none" /\ MutexUnlock(t)
  /\ UNCHANGED <<cvars, call, to_ready, tvars>>

\* The program calls another function.
Calls(t) ==
  \/ call[t] = "none" /\ MutexLock(t) /\ UNCHANGED <<cvars, call, to_ready, tvars>>
  \/ \E tm \in BOOLEAN : Wait(t, tm)
  \/ Signal(t) \/ Broadcast(t)

TimerStep(t) == TimerFire(t) \/ Timeout(t) \/ TimeoutWake(t) \/ TimerEnd(t)

Next == \E t \in Threads : Busy(t) \/ Leave(t) \/ Calls(t) \/ TimerStep(t)

Spec == Init /\ [][Next]_vars

\* Code inside the functions goes on and gets a spin lock that is free again and
\* again, timers fire, and a program that owns the mutex does not signal for ever
\* without leaving its critical section.
Fairness ==
  \A t \in Threads : /\ SF_vars(Busy(t)) /\ SF_vars(TimerStep(t))
                     /\ SF_vars(Leave(t))

FairSpec == Spec /\ Fairness

-----------------------------------------------------------------------------
(* Properties.                                                             *)

TypeOK ==
  /\ MutexTypeOK
  /\ cv_lock \in Threads \cup {NoThread} /\ cv_oldest \in Threads \cup {NoThread}
  /\ cv_waiters \in Seq(Threads) /\ to_ready \in [Threads -> Seq(Threads)]
  /\ call \in [Threads -> {"none", "lock", "unlock", "parked", "woken", "relock",
                           "ready"}]
  /\ {timed, timed_out} \subseteq [Threads -> BOOLEAN]
  /\ timer \in [Threads -> {"off", "armed", "fired", "wake", "end"}]

Places(l, t) == {i \in 1 .. Len(l) : l[i] = t}

\* What will make t ready: its place in the list, its places among the threads
\* that signallers have popped, its timer.
WaysOut(t) ==
  {<<NoThread, i>> : i \in Places(cv_waiters, t)}
    \cup UNION {{<<u, i>> : i \in Places(to_ready[u], t)} : u \in Threads}
    \cup (IF timer[t] = "wake" THEN {<<t, 0>>} ELSE {})

\* A thread parked on the condition variable has exactly one way out, so it is
\* neither forgotten nor made ready twice, whichever of condvar_signal,
\* condvar_broadcast and condvar_timeout come together; other threads have none.
OneWayOut ==
  \A t \in Threads : Cardinality(WaysOut(t)) = IF call[t] = "parked" THEN 1 ELSE 0

\* While condvar_timeout may read its argument, the frame of the timed wait the
\* argument points into is still there.
ArgumentAlive ==
  \A t \in Threads :
    timer[t] \in {"fired", "wake"} =>
      timed[t] /\ call[t] \in {"lock", "unlock", "parked", "woken"}

\* condvar_queue_tsc reads cv->oldest_tsc without the lock: it is the stamp of
\* the first waiter, after timeouts from the middle of the list, too.
CvOldestIsFirst == cv_oldest = CvOldest(cv_waiters)

\* condvar_wait_timed "Returns false if the wait timed out, true otherwise": a
\* timed wait does not stay in the list after its timer has fired in vain.
TimeoutNotLost ==
  \A t \in Threads :
    call[t] = "parked" /\ timed[t] => timer[t] # "off" \/ Places(cv_waiters, t) = {}

\* A thread that was woken returns from its wait with the mutex.
WokenReturns == \A t \in Threads : call[t] = "woken" ~> call[t] = "none"
=============================================================================
