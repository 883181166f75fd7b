---------------------------- MODULE CondVarProofs ----------------------------
(***************************************************************************)
(* Condition variables use the mutex only through its operations: every    *)
(* step of CondVar is a step of Mutex or leaves the mutex alone, so what   *)
(* MutexProofs shows of the mutex holds under waits and signals, too.      *)
(***************************************************************************)
EXTENDS CondVar, MutexProofs

LEMMA StepOfMutex == [Next]_vars => [MutexNext]_mvars
<1> SUFFICES ASSUME [Next]_vars PROVE [MutexNext]_mvars
  OBVIOUS
<1>1. CASE UNCHANGED vars
  BY <1>1 DEF vars
<1>2. ASSUME NEW t \in Threads, Busy(t) PROVE [MutexNext]_mvars
  <2>1. CASE MutexStep(t)
    BY <2>1 DEF MutexNext
  <2>2. CASE WaitUnlock(t) \/ WaitRelock(t)
    BY <2>2 DEF WaitUnlock, WaitRelock, MutexNext
  <2>3. CASE WaitLock(t) \/ WaitPark(t) \/ WaitWoken(t) \/ WaitReturn(t) \/ Ready(t)
    BY <2>3 DEF WaitLock, WaitPark, WaitWoken, WaitReturn, Ready
  <2> QED
    BY <1>2, <2>1, <2>2, <2>3 DEF Busy
<1>3. ASSUME NEW t \in Threads, Leave(t) PROVE [MutexNext]_mvars
  BY <1>3 DEF Leave, MutexNext
<1>4. ASSUME NEW t \in Threads, Calls(t) PROVE [MutexNext]_mvars
  <2>1. CASE MutexLock(t)
    BY <2>1 DEF MutexNext
  <2>2. ASSUME NEW tm \in BOOLEAN, Wait(t, tm) PROVE [MutexNext]_mvars
    BY <2>2 DEF Wait
  <2>3. CASE Signal(t) \/ Broadcast(t)
    BY <2>3 DEF Signal, Broadcast
  <2> QED
    BY <1>4, <2>1, <2>2, <2>3 DEF Calls
<1>5. ASSUME NEW t \in Threads, TimerStep(t) PROVE [MutexNext]_mvars
  BY <1>5 DEF TimerStep, TimerFire, Timeout, TimeoutWake, TimerEnd
<1> QED
  BY <1>1, <1>2, <1>3, <1>4, <1>5 DEF Next

\* The threads of CondVar, timers and all, use the mutex as Mutex says.
THEOREM UsesMutex == Spec => MutexSpec
<1>1. Init => MutexInit
  BY DEF Init
<1> QED
  BY <1>1, StepOfMutex, PTL DEF Spec, MutexSpec

\* Waiting and signalling threads exclude each other: condvar_wait gives the
\* mutex up and takes it again like any other thread.
THEOREM WaitersExclude == Spec => []MutualExclusion
  BY UsesMutex, Exclusion, PTL

\* And to them the mutex is a lock.
THEOREM WaitersLock == Spec => ImplementsLock
  BY UsesMutex, MutexIsLock, PTL
=============================================================================
