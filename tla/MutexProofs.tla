----------------------------- MODULE MutexProofs -----------------------------
(***************************************************************************)
(* Mutex: mutual exclusion and refinement of FifoLock, for any threads.    *)
(*                                                                         *)
(* The threads with a claim on the mutex are its owner, a thread that      *)
(* found it free under waiter_lock, and a waker that has popped its        *)
(* successor.  At most one thread has a claim (OneClaim), and HeldByOne    *)
(* says that held is set while one has it; so neither path lets a second   *)
(* thread in.  That a waker hands over to a thread that is still parked    *)
(* follows from MutexWaitersKnown.                                         *)
(***************************************************************************)
EXTENDS Mutex, SequenceTheorems, TLAPS

Claims == {"own", "unlock", "claim", "wake"}

OneClaim == \A t, u \in Threads : pc[t] \in Claims /\ pc[u] \in Claims => t = u

\* While a thread claims the mutex it holds waiter_lock, and nobody waits.
ClaimLock ==
  \A t \in Threads : pc[t] = "claim" => waiter_lock = t /\ waiters = <<>>

\* Only a waker has somebody to wake.
WakingKnown == \A t \in Threads : (pc[t] = "wake") <=> (waking[t] # NoThread)

IInv == /\ MutexTypeOK /\ OneClaim /\ HeldByOne /\ ClaimLock /\ WakingKnown
        /\ MutexWaitersKnown

LEMMA TailParts ==
  ASSUME NEW s \in Seq(Threads), s # <<>>
  PROVE  /\ Head(s) \in Threads /\ Tail(s) \in Seq(Threads)
         /\ Head(s) = s[1] /\ Len(s) \in Nat /\ Len(s) > 0
         /\ Len(Tail(s)) = Len(s) - 1
         /\ \A i \in 1 .. Len(Tail(s)) : Tail(s)[i] = s[i + 1]
         /\ (Tail(s) = <<>>) <=> (Len(s) < 2)
         /\ Len(s) >= 2 => Head(Tail(s)) = s[2]
<1>1. Len(s) \in Nat /\ Len(s) > 0
  BY EmptySeq
<1>2. Head(s) = s[1] /\ Head(s) \in Threads
  BY <1>1
<1>3. /\ Tail(s) \in Seq(Threads) /\ Len(Tail(s)) = Len(s) - 1
      /\ \A i \in 1 .. Len(Tail(s)) : Tail(s)[i] = s[i + 1]
  BY <1>1
<1>4. (Tail(s) = <<>>) <=> (Len(s) < 2)
  BY <1>1, <1>3, EmptySeq
<1>5. Len(s) >= 2 => Head(Tail(s)) = s[2]
  BY <1>1, <1>3
<1> QED
  BY <1>1, <1>2, <1>3, <1>4, <1>5

LEMMA AppendParts ==
  ASSUME NEW s \in Seq(Threads), NEW t \in Threads
  PROVE  /\ Append(s, t) \in Seq(Threads) /\ Len(Append(s, t)) = Len(s) + 1
         /\ Len(s) \in Nat
         /\ \A i \in 1 .. Len(s) : Append(s, t)[i] = s[i]
         /\ Append(s, t)[Len(s) + 1] = t
         /\ Append(s, t) # <<>>
         /\ Head(Append(s, t)) = IF s = <<>> THEN t ELSE Head(s)
<1>1. /\ Append(s, t) \in Seq(Threads) /\ Len(Append(s, t)) = Len(s) + 1
      /\ Len(s) \in Nat
      /\ \A i \in 1 .. Len(s) : Append(s, t)[i] = s[i]
      /\ Append(s, t)[Len(s) + 1] = t
  OBVIOUS
<1>2. Append(s, t) # <<>>
  BY <1>1, EmptySeq
<1>3. CASE s = <<>>
  BY <1>1, <1>2, <1>3
<1>4. CASE s # <<>>
  <2>1. Len(s) > 0
    BY <1>1, <1>4, EmptySeq
  <2> QED
    BY <1>1, <1>2, <1>4, <2>1
<1> QED
  BY <1>3, <1>4

LEMMA InitIInv == MutexInit => IInv
  BY ThreadsAssumption DEF MutexInit, IInv, MutexTypeOK, OneClaim, HeldByOne, Owners,
     ClaimLock, WakingKnown, MutexWaitersKnown, Listed, Popped, Claims, WAITER_FLAG

\* The steps that leave the list and the wakers alone.
LEMMA LockFastIInv == ASSUME IInv, NEW t \in Threads, LockFast(t) PROVE IInv'
  BY DEF LockFast, Goto, IInv, MutexTypeOK, OneClaim, HeldByOne, Owners, ClaimLock,
     WakingKnown, MutexWaitersKnown, Listed, Popped, Claims, WAITER_FLAG

LEMMA LockFailsIInv == ASSUME IInv, NEW t \in Threads, LockFails(t) PROVE IInv'
  BY DEF LockFails, Goto, IInv, MutexTypeOK, OneClaim, HeldByOne, Owners, ClaimLock,
     WakingKnown, MutexWaitersKnown, Listed, Popped, Claims, WAITER_FLAG

LEMMA LockClaimIInv == ASSUME IInv, NEW t \in Threads, LockClaim(t) PROVE IInv'
  BY DEF LockClaim, Goto, IInv, MutexTypeOK, OneClaim, HeldByOne, Owners, ClaimLock,
     WakingKnown, MutexWaitersKnown, Listed, Popped, Claims, WAITER_FLAG

LEMMA UnlockFastIInv == ASSUME IInv, NEW t \in Threads, UnlockFast(t) PROVE IInv'
  BY DEF UnlockFast, Goto, IInv, MutexTypeOK, OneClaim, HeldByOne, Owners, ClaimLock,
     WakingKnown, MutexWaitersKnown, Listed, Popped, Claims, WAITER_FLAG

LEMMA UnlockFailsIInv == ASSUME IInv, NEW t \in Threads, UnlockFails(t) PROVE IInv'
  BY DEF UnlockFails, Goto, IInv, MutexTypeOK, OneClaim, HeldByOne, Owners, ClaimLock,
     WakingKnown, MutexWaitersKnown, Listed, Popped, Claims, WAITER_FLAG

\* The steps that change them.
LEMMA LockSlowIInv == ASSUME IInv, NEW t \in Threads, LockSlow(t) PROVE IInv'
<1>1. CASE held = 0
  BY <1>1 DEF LockSlow, MustPark, Flagged, Goto, IInv, MutexTypeOK, OneClaim, HeldByOne,
     Owners, ClaimLock, WakingKnown, MutexWaitersKnown, Listed, Popped, Claims, WAITER_FLAG
<1>2. CASE held # 0
  <2>1. /\ held' = Flagged(held) /\ waiters' = Append(waiters, t)
        /\ oldest' = OldestAdded(t) /\ pc' = [pc EXCEPT ![t] = "parked"]
        /\ UNCHANGED <<waiter_lock, waking>>
        /\ pc[t] = "lock" /\ waiter_lock = NoThread
    BY <1>2 DEF LockSlow, MustPark, Goto
  <2>2. held' # 0 /\ held' \in 0 .. 3 /\ held' >= WAITER_FLAG
    BY <1>2, <2>1 DEF Flagged, WAITER_FLAG, IInv, MutexTypeOK
  <2>3. /\ waiters' \in Seq(Threads) /\ Len(waiters') = Len(waiters) + 1
        /\ Len(waiters) \in Nat
        /\ \A i \in 1 .. Len(waiters) : waiters'[i] = waiters[i]
        /\ waiters'[Len(waiters) + 1] = t
        /\ waiters' # <<>>
        /\ Head(waiters') = IF waiters = <<>> THEN t ELSE Head(waiters)
    BY <2>1, AppendParts DEF IInv, MutexTypeOK
  <2>4. ~ Listed(t) /\ ~ Popped(t)
    BY <2>1 DEF IInv, MutexWaitersKnown
  <2>5. MutexTypeOK'
    BY <2>1, <2>2, <2>3 DEF IInv, MutexTypeOK, OldestAdded
  <2>6. OneClaim' /\ HeldByOne' /\ WakingKnown' /\ ClaimLock'
    BY <1>2, <2>1, <2>2, ThreadsAssumption DEF IInv, MutexTypeOK, OneClaim, HeldByOne,
       Owners, WakingKnown, ClaimLock, Claims
  <2>7. \A u \in Threads : Listed(u)' <=> (Listed(u) \/ u = t)
    BY <2>3 DEF Listed
  <2>8. \A u \in Threads : Popped(u)' <=> Popped(u)
    BY <2>1 DEF Popped
  <2>9. \A i, j \in 1 .. Len(waiters') : waiters'[i] = waiters'[j] => i = j
    BY <2>3, <2>4 DEF IInv, MutexWaitersKnown, Listed
  <2>10. \A u \in Threads : /\ (pc'[u] = "parked") <=> (Listed(u)' \/ Popped(u)')
                            /\ ~ (Listed(u)' /\ Popped(u)')
    BY <2>1, <2>4, <2>7, <2>8 DEF IInv, MutexTypeOK, MutexWaitersKnown
  <2>11. oldest' = IF waiters' = <<>> THEN NoThread ELSE Head(waiters')
    BY <2>1, <2>3 DEF OldestAdded, IInv, MutexWaitersKnown
  <2>12. MutexWaitersKnown'
    BY <2>2, <2>9, <2>10, <2>11 DEF MutexWaitersKnown, WAITER_FLAG
  <2> QED
    BY <2>5, <2>6, <2>12 DEF IInv
<1> QED
  BY <1>1, <1>2

LEMMA UnlockSlowIInv == ASSUME IInv, NEW t \in Threads, UnlockSlow(t) PROVE IInv'
<1>1. CASE waiters = <<>>
  BY <1>1 DEF UnlockSlow, HandedOver, Goto, IInv, MutexTypeOK, OneClaim, HeldByOne,
     Owners, ClaimLock, WakingKnown, MutexWaitersKnown, Listed, Popped, Claims, WAITER_FLAG
<1>2. CASE waiters # <<>>
  <2> PICK h \in Threads : h = Head(waiters)
    BY <1>2, HeadTailProperties DEF IInv, MutexTypeOK
  <2>1. /\ UNCHANGED <<held, waiter_lock>> /\ waiters' = Tail(waiters)
        /\ waking' = [waking EXCEPT ![t] = h] /\ oldest' = OldestLeft(waiters)
        /\ pc' = [pc EXCEPT ![t] = "wake"]
        /\ pc[t] = "unlock" /\ waiter_lock = NoThread
    BY <1>2 DEF UnlockSlow, HandedOver, Goto
  <2>2. /\ h \in Threads /\ waiters' \in Seq(Threads)
        /\ h = waiters[1] /\ Len(waiters) \in Nat /\ Len(waiters) > 0
        /\ Len(waiters') = Len(waiters) - 1
        /\ \A i \in 1 .. Len(waiters') : waiters'[i] = waiters[i + 1]
        /\ (waiters' = <<>>) <=> (Len(waiters) < 2)
        /\ Len(waiters) >= 2 => Head(waiters') = waiters[2]
    BY <1>2, <2>1, TailParts DEF IInv, MutexTypeOK
  <2>3. waking[t] = NoThread /\ held >= WAITER_FLAG
    BY <1>2, <2>1 DEF IInv, WakingKnown, MutexWaitersKnown
  <2>4. oldest' \in Threads \cup {NoThread}
    <3>1. CASE Len(waiters) < 2
      BY <2>1, <3>1 DEF OldestLeft
    <3>2. CASE Len(waiters) >= 2
      BY <2>1, <2>2, <3>2 DEF OldestLeft, IInv, MutexTypeOK
    <3> QED
      BY <2>2, <3>1, <3>2
  <2>5. MutexTypeOK'
    BY <2>1, <2>2, <2>4 DEF IInv, MutexTypeOK
  <2>6. OneClaim' /\ HeldByOne' /\ WakingKnown' /\ ClaimLock'
    BY <2>1, <2>2, <1>2, ThreadsAssumption DEF IInv, MutexTypeOK, OneClaim, HeldByOne,
       Owners, WakingKnown, ClaimLock, Claims
  <2>7. \A u \in Threads : Listed(u) <=> (Listed(u)' \/ u = h)
    <3> SUFFICES ASSUME NEW u \in Threads PROVE Listed(u) <=> (Listed(u)' \/ u = h)
      OBVIOUS
    <3>1. ASSUME NEW i \in 1 .. Len(waiters), waiters[i] = u, u # h
          PROVE  Listed(u)'
      <4>1. i # 1 /\ i - 1 \in 1 .. Len(waiters') /\ waiters'[i - 1] = waiters[i]
        BY <2>2, <3>1
      <4> QED
        BY <3>1, <4>1 DEF Listed
    <3>2. ASSUME NEW i \in 1 .. Len(waiters'), waiters'[i] = u
          PROVE  Listed(u)
      <4>1. i + 1 \in 1 .. Len(waiters) /\ waiters[i + 1] = u
        BY <2>2, <3>2
      <4> QED
        BY <4>1 DEF Listed
    <3>3. u = h => Listed(u)
      BY <2>2 DEF Listed
    <3> QED
      BY <3>1, <3>2, <3>3 DEF Listed
  <2>8. ~ Listed(h)'
    <3> SUFFICES ASSUME NEW i \in 1 .. Len(waiters'), waiters'[i] = h PROVE FALSE
      BY DEF Listed
    <3>1. i + 1 \in 1 .. Len(waiters) /\ 1 \in 1 .. Len(waiters) /\ i + 1 # 1
          /\ waiters[i + 1] = waiters[1]
      BY <2>2
    <3> QED
      BY <3>1 DEF IInv, MutexWaitersKnown
  <2>9. \A u \in Threads : Popped(u)' <=> (Popped(u) \/ u = h)
    BY <2>1, <2>2, <2>3, ThreadsAssumption DEF Popped, IInv, MutexTypeOK
  <2>10. \A i, j \in 1 .. Len(waiters') : waiters'[i] = waiters'[j] => i = j
    <3> SUFFICES ASSUME NEW i \in 1 .. Len(waiters'), NEW j \in 1 .. Len(waiters'),
                        waiters'[i] = waiters'[j]
                 PROVE  i = j
      OBVIOUS
    <3>1. i + 1 \in 1 .. Len(waiters) /\ j + 1 \in 1 .. Len(waiters)
          /\ waiters[i + 1] = waiters[j + 1]
      BY <2>2
    <3>2. i + 1 = j + 1
      BY <3>1 DEF IInv, MutexWaitersKnown
    <3> QED
      BY <3>2, <2>2
  <2>11. \A u \in Threads : /\ (pc'[u] = "parked") <=> (Listed(u)' \/ Popped(u)')
                            /\ ~ (Listed(u)' /\ Popped(u)')
    BY <2>1, <2>2, <2>7, <2>8, <2>9 DEF IInv, MutexTypeOK, MutexWaitersKnown
  <2>12. oldest' = IF waiters' = <<>> THEN NoThread ELSE Head(waiters')
    BY <2>1, <2>2 DEF OldestLeft
  <2>13. MutexWaitersKnown'
    BY <2>1, <2>3, <2>10, <2>11, <2>12 DEF MutexWaitersKnown, WAITER_FLAG
  <2> QED
    BY <2>5, <2>6, <2>13 DEF IInv
<1> QED
  BY <1>1, <1>2

LEMMA UnlockWakeIInv == ASSUME IInv, NEW t \in Threads, UnlockWake(t) PROVE IInv'
<1>1. PICK w \in Threads : w = waking[t]
  BY DEF UnlockWake, IInv, WakingKnown, MutexTypeOK
<1>2. /\ pc[t] = "wake" /\ pc' = [pc EXCEPT ![t] = "out", ![w] = "own"]
      /\ waking' = [waking EXCEPT ![t] = NoThread]
      /\ UNCHANGED <<held, waiter_lock, waiters, oldest>>
  BY <1>1 DEF UnlockWake
<1>3. Popped(w) /\ ~ Listed(w) /\ pc[w] = "parked" /\ w # t
  BY <1>1, <1>2 DEF Popped, IInv, MutexWaitersKnown
<1>4. \A u \in Threads : u # t => waking[u] = NoThread
  BY <1>2 DEF IInv, OneClaim, WakingKnown, Claims
<1>5. \A u \in Threads : pc'[u] = IF u = t THEN "out" ELSE IF u = w THEN "own" ELSE pc[u]
  BY <1>2, <1>3 DEF IInv, MutexTypeOK
<1>6. MutexTypeOK'
  BY <1>2 DEF IInv, MutexTypeOK
<1>7. OneClaim' /\ ClaimLock'
  <2>1. \A u \in Threads : u # t => pc[u] \notin Claims
    BY <1>2 DEF IInv, OneClaim, Claims
  <2>2. \A u \in Threads : pc'[u] \in Claims => u = w
    BY <1>5, <2>1 DEF Claims
  <2>3. \A u \in Threads : pc'[u] # "claim"
    BY <1>5, <2>2 DEF Claims
  <2> QED
    BY <2>2, <2>3 DEF OneClaim, ClaimLock
<1>8. HeldByOne'
  BY <1>2, <1>3, <1>5 DEF IInv, HeldByOne, Owners
<1>9. WakingKnown'
  BY <1>2, <1>3, <1>4, <1>5 DEF IInv, WakingKnown, MutexTypeOK
<1>10. \A u \in Threads : Listed(u)' <=> Listed(u)
  BY <1>2 DEF Listed
<1>11. \A u \in Threads : ~ Popped(u)'
  BY <1>2, <1>4, ThreadsAssumption DEF Popped, IInv, MutexTypeOK
<1>12. \A u \in Threads : Popped(u) <=> u = w
  BY <1>1, <1>4, ThreadsAssumption DEF Popped
<1>13. \A u \in Threads : /\ (pc'[u] = "parked") <=> (Listed(u)' \/ Popped(u)')
                          /\ ~ (Listed(u)' /\ Popped(u)')
  <2> SUFFICES ASSUME NEW u \in Threads
               PROVE  (pc'[u] = "parked") <=> Listed(u)
    BY <1>10, <1>11
  <2>1. (pc[u] = "parked") <=> (Listed(u) \/ u = w)
    BY <1>12 DEF IInv, MutexWaitersKnown
  <2>2. (pc'[u] = "parked") <=> (pc[u] = "parked" /\ u # w)
    <3>1. pc[t] = "wake" /\ w # t
      BY <1>2, <1>3
    <3>2. pc'[u] = IF u = t THEN "out" ELSE IF u = w THEN "own" ELSE pc[u]
      BY <1>5
    <3> QED
      BY <3>1, <3>2
  <2> QED
    BY <1>3, <2>1, <2>2
<1>14. MutexWaitersKnown'
  BY <1>2, <1>13 DEF IInv, MutexWaitersKnown
<1> QED
  BY <1>6, <1>7, <1>8, <1>9, <1>14 DEF IInv

LEMMA StepIInv == IInv /\ [MutexNext]_mvars => IInv'
<1> SUFFICES ASSUME IInv, [MutexNext]_mvars PROVE IInv'
  OBVIOUS
<1>1. CASE UNCHANGED mvars
  BY <1>1 DEF mvars, IInv, MutexTypeOK, OneClaim, HeldByOne, Owners, ClaimLock,
     WakingKnown, MutexWaitersKnown, Listed, Popped
<1>2. ASSUME NEW t \in Threads, MutexLock(t) PROVE IInv'
  BY <1>2, LockFastIInv, LockFailsIInv DEF MutexLock
<1>3. ASSUME NEW t \in Threads, MutexUnlock(t) PROVE IInv'
  BY <1>3, UnlockFastIInv, UnlockFailsIInv DEF MutexUnlock
<1>4. ASSUME NEW t \in Threads, MutexStep(t) PROVE IInv'
  BY <1>4, LockSlowIInv, LockClaimIInv, UnlockSlowIInv, UnlockWakeIInv DEF MutexStep
<1> QED
  BY <1>1, <1>2, <1>3, <1>4 DEF MutexNext

LEMMA MutexInvariance == MutexSpec => []IInv
  BY InitIInv, StepIInv, PTL DEF MutexSpec

\* At most one thread is between mutex_lock and mutex_unlock.
THEOREM Exclusion == MutexSpec => []MutualExclusion
<1>1. IInv => MutualExclusion
  BY DEF IInv, OneClaim, Claims, MutualExclusion, Owners
<1> QED
  BY <1>1, MutexInvariance, PTL

\* held, the list and the parked threads agree: no waiter is forgotten on the
\* fast path of mutex_unlock, and the hand-over never leaves the mutex free.
THEOREM Bookkeeping == MutexSpec => [](HeldByOne /\ MutexWaitersKnown)
<1>1. IInv => HeldByOne /\ MutexWaitersKnown
  BY DEF IInv
<1> QED
  BY <1>1, MutexInvariance, PTL

-----------------------------------------------------------------------------
(* The refinement.                                                         *)

OwnerUnique ==
  /\ \A t \in Threads : t \in Owners => OwnerOf = t
  /\ (\A t \in Threads : t \notin Owners) => OwnerOf = NoThread

LEMMA OwnerIs == IInv => OwnerUnique
<1> SUFFICES ASSUME IInv PROVE OwnerUnique
  OBVIOUS
<1>1. \A t, u \in Threads : t \in Owners /\ u \in Owners => t = u
  BY DEF IInv, OneClaim, Claims, Owners
<1>2. Owners \subseteq Threads
  BY DEF Owners
<1> QED
  BY <1>1, <1>2 DEF OwnerOf, OwnerUnique

NextUpUnique ==
  /\ \A t \in Threads : pc[t] = "wake" => NextUp = waking[t]
  /\ (\A t \in Threads : pc[t] # "wake") => NextUp = NoThread

LEMMA NextUpIs == IInv => NextUpUnique
<1> SUFFICES ASSUME IInv PROVE NextUpUnique
  OBVIOUS
<1>1. \A t, u \in Threads : pc[t] = "wake" /\ pc[u] = "wake" => t = u
  BY DEF IInv, OneClaim, Claims
<1> QED
  BY <1>1 DEF NextUp, NextUpUnique

\* The queue with a popped thread in front of the list.
LEMMA ConsParts ==
  ASSUME NEW w \in Threads, NEW s \in Seq(Threads)
  PROVE  /\ <<w>> \o s # <<>> /\ Head(<<w>> \o s) = w /\ Tail(<<w>> \o s) = s
         /\ \A t \in Threads : Append(<<w>> \o s, t) = <<w>> \o Append(s, t)
         /\ \A t \in Threads :
              t # w /\ (\A i \in 1 .. Len(s) : s[i] # t)
              => \A i \in 1 .. Len(<<w>> \o s) : (<<w>> \o s)[i] # t
<1> DEFINE q == <<w>> \o s
<1>1. <<w>> \in Seq(Threads) /\ Len(<<w>>) = 1 /\ <<w>>[1] = w /\ Len(s) \in Nat
  OBVIOUS
<1>2. /\ q \in Seq(Threads) /\ Len(q) = 1 + Len(s)
      /\ \A i \in 1 .. 1 + Len(s) : q[i] = IF i <= 1 THEN w ELSE s[i - 1]
  BY <1>1, ConcatProperties
<1> HIDE DEF q
<1>3. q # <<>> /\ Head(q) = w
  BY <1>1, <1>2, EmptySeq
<1>4. Tail(q) = s
  <2>1. /\ Tail(q) \in Seq(Threads) /\ Len(Tail(q)) = Len(s)
        /\ \A i \in 1 .. Len(s) : Tail(q)[i] = q[i + 1]
    BY <1>1, <1>2, <1>3, TailParts
  <2>2. \A i \in 1 .. Len(s) : Tail(q)[i] = s[i]
    BY <1>1, <1>2, <2>1
  <2> QED
    BY <2>1, <2>2, SeqEqual
<1>5. ASSUME NEW t \in Threads PROVE Append(<<w>> \o s, t) = <<w>> \o Append(s, t)
  <2>1. Append(<<w>> \o s, t) = (<<w>> \o s) \o <<t>>
    BY <1>2, AppendIsConcat DEF q
  <2>2. Append(s, t) = s \o <<t>>
    BY AppendIsConcat
  <2>3. <<t>> \in Seq(Threads)
    OBVIOUS
  <2>4. (<<w>> \o s) \o <<t>> = <<w>> \o (s \o <<t>>)
    BY <1>1, <2>3, ConcatAssociative
  <2> QED
    BY <2>1, <2>2, <2>4
<1>6. ASSUME NEW t \in Threads, t # w, \A i \in 1 .. Len(s) : s[i] # t,
             NEW i \in 1 .. Len(q)
      PROVE  q[i] # t
  BY <1>1, <1>2, <1>6
<1> QED
  BY <1>3, <1>4, <1>5, <1>6 DEF q

\* A list is its head in front of its tail.
LEMMA HeadTail ==
  ASSUME NEW s \in Seq(Threads), s # <<>> PROVE <<Head(s)>> \o Tail(s) = s
<1>1. /\ Head(s) \in Threads /\ Tail(s) \in Seq(Threads) /\ Head(s) = s[1]
      /\ Len(s) \in Nat /\ Len(s) > 0 /\ Len(Tail(s)) = Len(s) - 1
      /\ \A i \in 1 .. Len(Tail(s)) : Tail(s)[i] = s[i + 1]
  BY TailParts
<1>2. <<Head(s)>> \in Seq(Threads) /\ Len(<<Head(s)>>) = 1 /\ <<Head(s)>>[1] = Head(s)
  BY <1>1
<1> DEFINE q == <<Head(s)>> \o Tail(s)
<1>3. /\ q \in Seq(Threads) /\ Len(q) = 1 + Len(Tail(s))
      /\ \A i \in 1 .. 1 + Len(Tail(s)) : q[i] = IF i <= 1 THEN Head(s) ELSE Tail(s)[i - 1]
  BY <1>1, <1>2, ConcatProperties
<1> HIDE DEF q
<1>4. \A i \in 1 .. Len(s) : q[i] = s[i]
  BY <1>1, <1>3
<1>5. q = s
  BY <1>1, <1>3, <1>4, SeqEqual
<1> QED
  BY <1>5 DEF q

-----------------------------------------------------------------------------
(* Steps of the mutex and steps of the lock.                               *)

\* The mutex is idle to a thread that finds it free.
LEMMA FreeIsIdle ==
  ASSUME IInv, waiters = <<>>, \A u \in Threads : u \notin Owners /\ pc[u] # "wake"
  PROVE  L!Idle
  BY OwnerIs, NextUpIs DEF L!Idle, OwnerUnique, NextUpUnique, QueueOf

\* Nothing but the owner changes if the list stays and nobody wakes anybody.
LEMMA QueueStays ==
  ASSUME IInv, IInv', UNCHANGED waiters,
         \A u \in Threads : pc[u] # "wake" /\ pc'[u] # "wake"
  PROVE  UNCHANGED QueueOf
<1>1. NextUpUnique /\ NextUpUnique'
  BY NextUpIs, PTL
<1>2. NextUp = NoThread /\ NextUp' = NoThread
  BY <1>1 DEF NextUpUnique
<1> QED
  BY <1>2 DEF QueueOf

LEMMA TakeStep ==
  ASSUME IInv, IInv', NEW t \in Threads, LockFast(t) \/ LockClaim(t)
  PROVE  L!TakeFree(t)
<1>1. OwnerUnique'
  BY OwnerIs, PTL
<1>2. t \in Owners' /\ pc' = [pc EXCEPT ![t] = "own"] /\ UNCHANGED waiters
  BY DEF LockFast, LockClaim, Goto, IInv, MutexTypeOK, Owners
<1>3. \A u \in Threads : u \notin Owners /\ pc[u] # "wake"
  <2>1. CASE LockFast(t)
    BY <2>1 DEF LockFast, IInv, HeldByOne
  <2>2. CASE LockClaim(t)
    BY <2>2 DEF LockClaim, IInv, OneClaim, Claims, Owners
  <2> QED
    BY <2>1, <2>2
<1>4. waiters = <<>>
  <2>1. CASE LockFast(t)
    BY <2>1 DEF LockFast, IInv, MutexWaitersKnown, WAITER_FLAG
  <2>2. CASE LockClaim(t)
    BY <2>2 DEF LockClaim, IInv, ClaimLock
  <2> QED
    BY <2>1, <2>2
<1>5. \A u \in Threads : pc'[u] # "wake"
  BY <1>2, <1>3 DEF IInv, MutexTypeOK
<1>6. L!Idle
  BY <1>3, <1>4, FreeIsIdle
<1>7. UNCHANGED QueueOf
  BY <1>2, <1>3, <1>5, QueueStays
<1> QED
  BY <1>1, <1>2, <1>6, <1>7 DEF L!TakeFree, OwnerUnique

\* Neither the owner nor who is popped changes.
LEMMA SameRoles ==
  ASSUME IInv, IInv', UNCHANGED waking,
         \A u \in Threads : /\ (u \in Owners') <=> (u \in Owners)
                            /\ (pc'[u] = "wake") <=> (pc[u] = "wake")
  PROVE  UNCHANGED <<OwnerOf, NextUp>>
<1>1. OwnerUnique /\ OwnerUnique' /\ NextUpUnique /\ NextUpUnique'
  BY OwnerIs, NextUpIs, PTL
<1>2. UNCHANGED OwnerOf
  <2>1. CASE \E u \in Threads : u \in Owners
    BY <1>1, <2>1 DEF OwnerUnique
  <2>2. CASE \A u \in Threads : u \notin Owners
    BY <1>1, <2>2 DEF OwnerUnique
  <2> QED
    BY <2>1, <2>2
<1>3. UNCHANGED NextUp
  <2>1. CASE \E u \in Threads : pc[u] = "wake"
    BY <1>1, <2>1 DEF NextUpUnique
  <2>2. CASE \A u \in Threads : pc[u] # "wake"
    BY <1>1, <2>2 DEF NextUpUnique
  <2> QED
    BY <2>1, <2>2
<1> QED
  BY <1>2, <1>3

LEMMA NextUpType == IInv => NextUp \in Threads \cup {NoThread}
<1> SUFFICES ASSUME IInv PROVE NextUp \in Threads \cup {NoThread}
  OBVIOUS
<1>1. NextUpUnique
  BY NextUpIs
<1>2. CASE \E u \in Threads : pc[u] = "wake"
  BY <1>1, <1>2 DEF NextUpUnique, IInv, MutexTypeOK
<1>3. CASE \A u \in Threads : pc[u] # "wake"
  BY <1>1, <1>3 DEF NextUpUnique
<1> QED
  BY <1>2, <1>3

LEMMA StutterStep ==
  ASSUME IInv, IInv', NEW t \in Threads,
         LockFails(t) \/ UnlockFails(t) \/ (LockSlow(t) /\ ~ MustPark(held))
  PROVE  UNCHANGED <<OwnerOf, QueueOf>>
<1>1. UNCHANGED <<waking, waiters>>
  BY DEF LockFails, UnlockFails, LockSlow
<1>2. \A u \in Threads : /\ (u \in Owners') <=> (u \in Owners)
                         /\ (pc'[u] = "wake") <=> (pc[u] = "wake")
  BY DEF LockFails, UnlockFails, LockSlow, Goto, IInv, MutexTypeOK, Owners
<1> QED
  BY <1>1, <1>2, SameRoles DEF QueueOf

LEMMA QueueStep ==
  ASSUME IInv, IInv', NEW t \in Threads, LockSlow(t), MustPark(held)
  PROVE  L!QueueUp(t)
<1>1. UNCHANGED waking /\ waiters' = Append(waiters, t) /\ pc' = [pc EXCEPT ![t] = "parked"]
  BY DEF LockSlow, Goto
<1>2. \A u \in Threads : /\ (u \in Owners') <=> (u \in Owners)
                         /\ (pc'[u] = "wake") <=> (pc[u] = "wake")
  BY <1>1 DEF LockSlow, IInv, MutexTypeOK, Owners
<1>3. UNCHANGED <<OwnerOf, NextUp>>
  BY <1>1, <1>2, SameRoles
<1>4. OwnerUnique /\ NextUpUnique /\ NextUp \in Threads \cup {NoThread}
  BY OwnerIs, NextUpIs, NextUpType
<1>5. waiters \in Seq(Threads) /\ \A i \in 1 .. Len(waiters) : waiters[i] # t
  BY DEF LockSlow, IInv, MutexTypeOK, MutexWaitersKnown, Listed
<1>6. t # NextUp
  <2>1. CASE \E u \in Threads : pc[u] = "wake"
    BY <1>4, <2>1 DEF NextUpUnique, LockSlow, IInv, MutexWaitersKnown, Popped
  <2>2. CASE \A u \in Threads : pc[u] # "wake"
    BY <1>4, <2>2, ThreadsAssumption DEF NextUpUnique
  <2> QED
    BY <2>1, <2>2
<1>7. t # OwnerOf
  <2>1. CASE \E u \in Threads : u \in Owners
    BY <1>4, <2>1 DEF OwnerUnique, LockSlow, Owners
  <2>2. CASE \A u \in Threads : u \notin Owners
    BY <1>4, <2>2, ThreadsAssumption DEF OwnerUnique
  <2> QED
    BY <2>1, <2>2
<1>8. QueueOf' = Append(QueueOf, t) /\ \A i \in 1 .. Len(QueueOf) : QueueOf[i] # t
  <2>1. CASE NextUp = NoThread
    BY <1>1, <1>3, <1>5, <2>1 DEF QueueOf
  <2>2. CASE NextUp # NoThread
    <3>1. NextUp \in Threads
      BY <1>4, <2>2
    <3>2. QueueOf = <<NextUp>> \o waiters /\ QueueOf' = <<NextUp>> \o Append(waiters, t)
      BY <1>1, <1>3, <2>2 DEF QueueOf
    <3>3. \A u \in Threads :
            Append(<<NextUp>> \o waiters, u) = <<NextUp>> \o Append(waiters, u)
      BY <1>5, <3>1, ConsParts, Zenon
    <3>4. \A i \in 1 .. Len(<<NextUp>> \o waiters) : (<<NextUp>> \o waiters)[i] # t
      BY <1>5, <1>6, <3>1, ConsParts
    <3> QED
      BY <3>2, <3>3, <3>4, Zenon
  <2> QED
    BY <2>1, <2>2
<1>9. ~ L!Idle
  <2>1. PICK u \in Threads : u \in Owners \/ pc[u] \in {"claim", "wake"}
    BY DEF MustPark, IInv, HeldByOne
  <2>2. CASE u \in Owners
    BY <1>4, <2>2, ThreadsAssumption DEF OwnerUnique, L!Idle
  <2>3. CASE pc[u] = "claim"
    BY <2>3, ThreadsAssumption DEF LockSlow, IInv, ClaimLock
  <2>4. CASE pc[u] = "wake"
    <3>1. NextUp = waking[u] /\ NextUp \in Threads /\ NextUp # NoThread
      BY <1>4, <2>4 DEF NextUpUnique, IInv, WakingKnown
    <3>2. QueueOf # <<>>
      BY <1>5, <3>1, ConsParts DEF QueueOf
    <3> QED
      BY <3>2 DEF L!Idle
  <2> QED
    BY <2>1, <2>2, <2>3, <2>4
<1> QED
  BY <1>3, <1>7, <1>8, <1>9 DEF L!QueueUp

LEMMA GiveUpStep ==
  ASSUME IInv, IInv', NEW t \in Threads, UnlockFast(t) \/ UnlockSlow(t)
  PROVE  L!GiveUp
<1>1. pc[t] \in {"own", "unlock"} /\ \E l \in {"out", "wake"} : pc' = [pc EXCEPT ![t] = l]
  BY DEF UnlockFast, UnlockSlow, Goto
<1>2. t \in Owners /\ \A u \in Threads : pc[u] # "wake" /\ (u # t => u \notin Owners)
  BY <1>1 DEF IInv, OneClaim, Claims, Owners
<1>3. \A u \in Threads : u \notin Owners'
  BY <1>1, <1>2 DEF IInv, MutexTypeOK, Owners
<1>4. OwnerUnique /\ OwnerUnique' /\ NextUpUnique /\ NextUpUnique'
  BY OwnerIs, NextUpIs, PTL
<1>5. OwnerOf = t /\ OwnerOf' = NoThread
  BY <1>2, <1>3, <1>4 DEF OwnerUnique
<1>6. UNCHANGED QueueOf
  <2>1. CASE pc' = [pc EXCEPT ![t] = "out"]
    <3>1. \A u \in Threads : pc'[u] # "wake"
      BY <1>2, <2>1 DEF IInv, MutexTypeOK
    <3>2. pc'[t] = "out"
      BY <2>1 DEF IInv, MutexTypeOK
    <3>3. UNCHANGED waiters
      BY <3>2 DEF UnlockFast, UnlockSlow, Goto, IInv, MutexTypeOK
    <3> QED
      BY <1>2, <3>1, <3>3, QueueStays
  <2>2. CASE pc' = [pc EXCEPT ![t] = "wake"]
    <3>1. pc'[t] = "wake"
      BY <2>2 DEF IInv, MutexTypeOK
    <3>2. /\ waiters # <<>> /\ waiters' = Tail(waiters)
          /\ waking' = [waking EXCEPT ![t] = Head(waiters)]
      BY <3>1 DEF UnlockFast, UnlockSlow, Goto, IInv, MutexTypeOK
    <3>3. waiters \in Seq(Threads) /\ Head(waiters) \in Threads
      BY <3>2, TailParts DEF IInv, MutexTypeOK
    <3>4. NextUp = NoThread /\ NextUp' = Head(waiters)
      BY <1>2, <1>4, <3>1, <3>2 DEF NextUpUnique, IInv, MutexTypeOK
    <3>5. QueueOf = waiters /\ QueueOf' = <<Head(waiters)>> \o Tail(waiters)
      BY <3>2, <3>3, <3>4, ThreadsAssumption DEF QueueOf
    <3> QED
      BY <3>2, <3>3, <3>5, HeadTail
  <2> QED
    BY <1>1, <2>1, <2>2
<1> QED
  BY <1>5, <1>6, ThreadsAssumption DEF L!GiveUp

LEMMA PassOnStep ==
  ASSUME IInv, IInv', NEW t \in Threads, UnlockWake(t)
  PROVE  L!PassOn
<1>1. OwnerUnique /\ OwnerUnique' /\ NextUpUnique /\ NextUpUnique'
  BY OwnerIs, NextUpIs, PTL
<1>2. PICK w \in Threads : w = waking[t]
  BY DEF UnlockWake, IInv, WakingKnown, MutexTypeOK
<1>3. /\ waiters \in Seq(Threads) /\ UNCHANGED waiters
      /\ pc' = [pc EXCEPT ![t] = "out", ![w] = "own"]
  BY <1>2 DEF UnlockWake, IInv, MutexTypeOK
<1>4. \A u \in Threads : u \notin Owners /\ (u # t => pc[u] # "wake")
  BY DEF UnlockWake, IInv, OneClaim, Claims, Owners
<1>5. w \in Owners' /\ \A u \in Threads : pc'[u] # "wake"
  BY <1>3, <1>4 DEF IInv, MutexTypeOK, Owners
<1>6. OwnerOf = NoThread /\ OwnerOf' = w
  BY <1>1, <1>4, <1>5 DEF OwnerUnique
<1>7. NextUp = w /\ NextUp' = NoThread
  BY <1>1, <1>2, <1>5 DEF NextUpUnique, UnlockWake
<1>8. QueueOf = <<w>> \o waiters /\ QueueOf' = waiters
  BY <1>3, <1>7, ThreadsAssumption DEF QueueOf
<1>9. QueueOf # <<>> /\ Head(QueueOf) = w /\ Tail(QueueOf) = waiters
  BY <1>3, <1>8, ConsParts
<1> QED
  BY <1>6, <1>8, <1>9 DEF L!PassOn

\* Every step of the mutex is a step of the lock or leaves it alone.
LEMMA LockStep ==
  IInv /\ IInv' /\ [MutexNext]_mvars => [L!Next]_<<OwnerOf, QueueOf>>
<1> SUFFICES ASSUME IInv, IInv', [MutexNext]_mvars
             PROVE  [L!Next]_<<OwnerOf, QueueOf>>
  OBVIOUS
<1>1. CASE UNCHANGED mvars
  <2>1. UNCHANGED <<OwnerOf, NextUp>>
    BY <1>1, SameRoles DEF mvars, Owners
  <2> QED
    BY <1>1, <2>1 DEF mvars, QueueOf
<1>2. ASSUME NEW t \in Threads, LockFast(t) \/ LockClaim(t) PROVE L!Next
  BY <1>2, TakeStep DEF L!Next
<1>3. ASSUME NEW t \in Threads, LockSlow(t), MustPark(held) PROVE L!Next
  BY <1>3, QueueStep DEF L!Next
<1>4. ASSUME NEW t \in Threads, UnlockFast(t) \/ UnlockSlow(t) PROVE L!Next
  BY <1>4, GiveUpStep DEF L!Next
<1>5. ASSUME NEW t \in Threads, UnlockWake(t) PROVE L!Next
  BY <1>5, PassOnStep DEF L!Next
<1>6. ASSUME NEW t \in Threads,
             LockFails(t) \/ UnlockFails(t) \/ (LockSlow(t) /\ ~ MustPark(held))
      PROVE  UNCHANGED <<OwnerOf, QueueOf>>
  BY <1>6, StutterStep
<1> QED
  BY <1>1, <1>2, <1>3, <1>4, <1>5, <1>6
     DEF MutexNext, MutexLock, MutexUnlock, MutexStep

\* The mutex implements FifoLock: ownership passes from nobody to one thread and
\* back, and a thread that has queued is never overtaken, neither on the fast
\* path of mutex_lock nor by a thread that races with mutex_unlock.
THEOREM MutexIsLock == MutexSpec => ImplementsLock
<1>1. MutexInit => L!Init
  BY DEF MutexInit, L!Init, L!Idle, OwnerOf, Owners, NextUp, QueueOf
<1> QED
  BY <1>1, LockStep, MutexInvariance, PTL DEF MutexSpec, ImplementsLock, L!Spec
=============================================================================
