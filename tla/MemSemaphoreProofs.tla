------------------------- MODULE MemSemaphoreProofs -------------------------
(***************************************************************************)
(* The safety properties of MemSemaphore, for every number of threads,     *)
(* every capacity range, both policies and every clock bound.              *)
(***************************************************************************)
EXTENDS MemSemaphore, FiniteSetTheorems, TLAPS

\* Threads queue in the order of their time stamps, none in the future.
Sorted ==
  \A i, j \in 1 .. Len(m_waiters) :
    i <= j => /\ m_waiters[i].enque_tsc <= m_waiters[j].enque_tsc
              /\ m_waiters[j].enque_tsc <= tsc

\* The inductive invariant: m_count \in Nat needs HoldersCounted (Post has a
\* holder), m_num_waiters and acc_qdel need WaitersConsistent and Sorted.
IInv == /\ TypeOK
        /\ HoldersCounted
        /\ NoStrandedWaiters
        /\ WaitersConsistent
        /\ Sorted

-----------------------------------------------------------------------------
\* Whatever policy is used, UpdateCapacity picks a capacity in 1 .. m_max_cap.
LEMMA UpdatedCapsType ==
  ASSUME TypeOK, NEW cap \in UpdatedCaps
  PROVE  cap \in 1 .. MaxCap
  BY CapAssumption, PolicyAssumption
  DEF TypeOK, UpdatedCaps, CapChoices, CapExplore, ControlDue

\* The control clock stays behind the current time.
LEMMA UpdateCapacityType ==
  ASSUME TypeOK, NEW cap \in UpdatedCaps, UpdateCapacity(cap)
  PROVE  m_cap' = cap /\ m_cap' \in 1 .. MaxCap /\ m_last_time' \in 0 .. tsc
  BY UpdatedCapsType DEF TypeOK, UpdateCapacity

\* The holders are a finite set of threads.
LEMMA HoldersFinite ==
  ASSUME TypeOK
  PROVE  IsFiniteSet(Holders) /\ Cardinality(Holders) \in Nat
  <1>1. Holders \in SUBSET Threads
    BY DEF Holders
  <1> QED
    BY <1>1, ThreadsFinite, FS_Subset, FS_CardinalityType

\* Popping n waiters wakes n different threads, none of which is a holder.
LEMMA WokenFacts ==
  ASSUME TypeOK, WaitersConsistent, NEW n \in 0 .. Len(m_waiters)
  PROVE  /\ IsFiniteSet(Woken(n))
         /\ Cardinality(Woken(n)) = n
         /\ Woken(n) \in SUBSET {t \in Threads : st[t] = "waiting"}
         /\ Woken(n) \cap Holders = {}
  <1> DEFINE f == [i \in 1 .. n |-> m_waiters[i].th]
  <1>1. \A i \in 1 .. n : i \in 1 .. Len(m_waiters)
    BY DEF TypeOK
  <1>2. f \in Bijection(1 .. n, Woken(n))
    <2>1. f \in [1 .. n -> Woken(n)]
      BY DEF Woken
    <2>2. \A i, j \in 1 .. n : f[i] = f[j] => i = j
      BY <1>1 DEF WaitersConsistent
    <2>3. \A t \in Woken(n) : \E i \in 1 .. n : f[i] = t
      BY DEF Woken
    <2> QED
      BY <2>1, <2>2, <2>3 DEF Bijection, Injection, Surjection, IsInjective
  <1>3. ExistsBijection(1 .. n, Woken(n))
    BY <1>2 DEF ExistsBijection
  <1>4. IsFiniteSet(1 .. n) /\ Cardinality(1 .. n) = n
    BY FS_Interval DEF TypeOK
  <1>5. IsFiniteSet(Woken(n)) /\ Cardinality(Woken(n)) = n
    BY <1>3, <1>4, FS_Bijection
  <1>6. Woken(n) \in SUBSET {t \in Threads : st[t] = "waiting"}
    BY <1>1 DEF Woken, WaitersConsistent
  <1>7. Woken(n) \cap Holders = {}
    BY <1>6 DEF Holders
  <1> QED
    BY <1>5, <1>6, <1>7

\* The number of waiters Wait serves never exceeds the free units.
LEMMA ServedFacts ==
  ASSUME TypeOK, NEW cap \in 1 .. MaxCap
  PROVE  /\ Served(cap) \in 0 .. Len(m_waiters)
         /\ Served(cap) > 0 => m_count + Served(cap) <= cap
         /\ m_count + Served(cap) < cap => Served(cap) = Len(m_waiters)
  BY CapAssumption DEF TypeOK, Served

\* What is left of the list after n pops is a list of WaiterThreads.
LEMMA RemainingFacts ==
  ASSUME TypeOK, NEW n \in 0 .. Len(m_waiters)
  PROVE  /\ Remaining(n) \in Seq(WaiterThread)
         /\ Len(Remaining(n)) = Len(m_waiters) - n
         /\ \A i \in 1 .. Len(Remaining(n)) :
              i + n \in 1 .. Len(m_waiters) /\ Remaining(n)[i] = m_waiters[i + n]
  <1>1. m_waiters \in Seq(WaiterThread) /\ Len(m_waiters) \in Nat
    BY DEF TypeOK
  <1>2. Len(Remaining(n)) = Len(m_waiters) - n
    BY <1>1 DEF Remaining
  <1>3. \A i \in 1 .. Len(Remaining(n)) :
              i + n \in 1 .. Len(m_waiters) /\ Remaining(n)[i] = m_waiters[i + n]
    BY <1>1, <1>2 DEF Remaining
  <1>4. Remaining(n) \in Seq(WaiterThread)
    BY <1>1 DEF Remaining
  <1> QED
    BY <1>2, <1>3, <1>4

\* Charging the delay of popped waiters never underflows.
LEMMA ChargeType ==
  ASSUME TypeOK, Sorted, NEW n \in 0 .. Len(m_waiters)
  PROVE  Charge(n) \in [Threads -> Nat]
  <1>1. ASSUME NEW t \in Threads, t \in Woken(n)
        PROVE  acc_qdel[t] + tsc - m_waiters[CHOOSE i \in 1 .. n : m_waiters[i].th = t].enque_tsc \in Nat
    <2>1. \E i \in 1 .. n : m_waiters[i].th = t
      BY <1>1 DEF Woken
    <2>2. PICK k \in 1 .. n : k = CHOOSE i \in 1 .. n : m_waiters[i].th = t
      BY <2>1
    <2>3. k \in 1 .. Len(m_waiters) /\ m_waiters[k] \in WaiterThread
      BY DEF TypeOK
    <2>4. m_waiters[k].enque_tsc \in Nat /\ m_waiters[k].enque_tsc <= tsc
      BY <2>3, ClockAssumption DEF Sorted, WaiterThread
    <2>5. acc_qdel[t] \in Nat /\ tsc \in Nat
      BY ClockAssumption DEF TypeOK
    <2> QED
      BY <2>2, <2>4, <2>5
  <1>2. \A t \in Threads : acc_qdel[t] \in Nat
    BY DEF TypeOK
  <1> QED
    BY <1>1, <1>2 DEF Charge

-----------------------------------------------------------------------------
\* Who holds the semaphore after n waiters were woken and the caller t, which
\* was not waiting, moved to the state own.
LEMMA WakeFacts ==
  ASSUME TypeOK, WaitersConsistent, NEW n \in 0 .. Len(m_waiters),
         NEW t \in Threads, st[t] # "waiting",
         NEW own \in {"idle", "holding", "waiting"}, st' = Wake(n, t, own)
  PROVE  /\ st' \in [Threads -> States]
         /\ own = "holding" /\ st[t] # "holding" =>
              Cardinality(Holders') = Cardinality(Holders) + n + 1
         /\ own # "holding" /\ st[t] # "holding" =>
              Cardinality(Holders') = Cardinality(Holders) + n
         /\ own # "holding" /\ st[t] = "holding" =>
              Cardinality(Holders') = Cardinality(Holders) + n - 1
  <1> DEFINE H == Holders \cup Woken(n)
  <1>1. /\ IsFiniteSet(Woken(n)) /\ Cardinality(Woken(n)) = n
        /\ Woken(n) \in SUBSET {u \in Threads : st[u] = "waiting"}
        /\ Woken(n) \cap Holders = {}
    BY WokenFacts
  <1>2. IsFiniteSet(Holders) /\ Cardinality(Holders) \in Nat
    BY HoldersFinite
  <1>n. n \in Nat
    BY DEF TypeOK
  <1>3. IsFiniteSet(H) /\ Cardinality(H) = Cardinality(Holders) + n
    <2>1. Cardinality(Holders \cap Woken(n)) = 0
      BY <1>1, FS_EmptySet
    <2>2. /\ IsFiniteSet(H)
          /\ Cardinality(H) = Cardinality(Holders) + Cardinality(Woken(n))
                                - Cardinality(Holders \cap Woken(n))
      BY <1>1, <1>2, FS_Union
    <2> QED
      BY <1>1, <1>2, <1>n, <2>1, <2>2
  <1>4. t \notin Woken(n) /\ (t \in H <=> st[t] = "holding")
    BY <1>1 DEF Holders
  <1>5. st' \in [Threads -> States]
    BY DEF Wake, TypeOK, States
  <1>6. own = "holding" => Holders' = H \cup {t}
    BY <1>1 DEF Holders, Wake
  <1>7. own # "holding" => Holders' = H \ {t}
    BY <1>1, <1>4 DEF Holders, Wake
  <1>8. own = "holding" /\ st[t] # "holding" => Cardinality(Holders') = Cardinality(H) + 1
    <2>1. Cardinality(H \cup {t}) = IF t \in H THEN Cardinality(H) ELSE Cardinality(H) + 1
      BY <1>3, FS_AddElement
    <2> QED
      BY <1>4, <1>6, <2>1
  <1>9. own # "holding" =>
          Cardinality(Holders') = IF st[t] = "holding" THEN Cardinality(H) - 1
                                                       ELSE Cardinality(H)
    <2>1. Cardinality(H \ {t}) = IF t \in H THEN Cardinality(H) - 1 ELSE Cardinality(H)
      BY <1>3, FS_RemoveElement
    <2> QED
      BY <1>4, <1>7, <2>1
  <1> HIDE DEF H
  <1> QED
    BY <1>2, <1>n, <1>3, <1>5, <1>8, <1>9

\* The list after n pops holds the threads that still wait, in order.
LEMMA PopFacts ==
  ASSUME TypeOK, WaitersConsistent, Sorted, NEW n \in 0 .. Len(m_waiters)
  PROVE  LET ws == Remaining(n) IN
         /\ {ws[i].th : i \in 1 .. Len(ws)} =
              {u \in Threads : st[u] = "waiting"} \ Woken(n)
         /\ \A i, j \in 1 .. Len(ws) : ws[i].th = ws[j].th => i = j
         /\ \A i, j \in 1 .. Len(ws) :
              i <= j => /\ ws[i].enque_tsc <= ws[j].enque_tsc
                        /\ ws[j].enque_tsc <= tsc
         /\ \A i \in 1 .. Len(ws) : ws[i] \in WaiterThread
  <1> DEFINE ws == Remaining(n)
  <1> HIDE DEF ws
  <1>1. /\ ws \in Seq(WaiterThread)
        /\ Len(ws) = Len(m_waiters) - n
        /\ \A i \in 1 .. Len(ws) : i + n \in 1 .. Len(m_waiters) /\ ws[i] = m_waiters[i + n]
    BY RemainingFacts DEF ws
  <1>2. Len(m_waiters) \in Nat /\ Len(ws) \in Nat
    BY <1>1 DEF TypeOK
  <1>3. \A i, j \in 1 .. Len(ws) : ws[i].th = ws[j].th => i = j
    <2> SUFFICES ASSUME NEW i \in 1 .. Len(ws), NEW j \in 1 .. Len(ws), ws[i].th = ws[j].th
                 PROVE  i = j
      OBVIOUS
    <2>1. i + n = j + n
      BY <1>1 DEF WaitersConsistent
    <2> QED
      BY <2>1, <1>2
  <1>4. \A i, j \in 1 .. Len(ws) :
          i <= j => /\ ws[i].enque_tsc <= ws[j].enque_tsc
                    /\ ws[j].enque_tsc <= tsc
    <2> SUFFICES ASSUME NEW i \in 1 .. Len(ws), NEW j \in 1 .. Len(ws), i <= j
                 PROVE  /\ ws[i].enque_tsc <= ws[j].enque_tsc
                        /\ ws[j].enque_tsc <= tsc
      OBVIOUS
    <2>1. i + n <= j + n
      BY <1>2
    <2> QED
      BY <2>1, <1>1 DEF Sorted
  <1>5. \A i \in 1 .. Len(ws) : ws[i] \in WaiterThread
    BY <1>1
  <1>6. {ws[i].th : i \in 1 .. Len(ws)} =
              {u \in Threads : st[u] = "waiting"} \ Woken(n)
    <2>1. ASSUME NEW i \in 1 .. Len(ws)
          PROVE  ws[i].th \in {u \in Threads : st[u] = "waiting"} \ Woken(n)
      <3>1. ws[i].th = m_waiters[i + n].th /\ i + n \in 1 .. Len(m_waiters)
        BY <1>1
      <3>2. ws[i].th \in {u \in Threads : st[u] = "waiting"}
        BY <3>1 DEF WaitersConsistent
      <3>3. ASSUME NEW k \in 1 .. n, m_waiters[k].th = m_waiters[i + n].th
            PROVE  FALSE
        <4>1. k = i + n
          BY <3>1, <3>3, <1>2 DEF WaitersConsistent
        <4> QED
          BY <4>1, <1>2
      <3> QED
        BY <3>1, <3>2, <3>3 DEF Woken
    <2>2. ASSUME NEW u \in Threads, st[u] = "waiting", u \notin Woken(n)
          PROVE  \E i \in 1 .. Len(ws) : ws[i].th = u
      <3>1. PICK k \in 1 .. Len(m_waiters) : m_waiters[k].th = u
        BY <2>2 DEF WaitersConsistent
      <3>2. k \notin 1 .. n
        BY <3>1, <2>2 DEF Woken
      <3>3. k - n \in 1 .. Len(ws) /\ (k - n) + n = k
        BY <3>2, <1>1, <1>2
      <3> QED
        BY <3>1, <3>3, <1>1
    <2> QED
      BY <2>1, <2>2
  <1> QED
    BY <1>3, <1>4, <1>5, <1>6 DEF ws

-----------------------------------------------------------------------------
\* TryWait takes a free unit or changes nothing but the capacity.
LEMMA TryWaitInv ==
  ASSUME IInv, NEW t \in Threads, TryWait(t)
  PROVE  IInv'
  <1> USE DEF IInv
  <1>1. PICK cap \in UpdatedCaps :
          /\ UpdateCapacity(cap)
          /\ IF m_count < cap
             THEN m_count' = m_count + 1 /\ st' = [st EXCEPT ![t] = "holding"]
             ELSE UNCHANGED <<m_count, st>>
    BY DEF TryWait
  <1>2. m_cap' \in 1 .. MaxCap /\ m_last_time' \in 0 .. tsc
    BY <1>1, UpdateCapacityType
  <1>3. UNCHANGED <<tsc, m_waiters, m_num_waiters, m_oldest_tsc, acc_qdel>> /\ st[t] = "idle"
    BY DEF TryWait
  <1>4. UINT64_MAX' = UINT64_MAX
    BY DEF UINT64_MAX
  <1>5. TypeOK'
    BY <1>1, <1>2, <1>3, <1>4 DEF TypeOK, States
  <1>6. HoldersCounted'
    <2>1. CASE m_count < cap
      <3>1. Holders' = Holders \cup {t} /\ t \notin Holders
        BY <1>1, <1>3, <2>1 DEF Holders, TypeOK
      <3> QED
        BY <1>1, <2>1, <3>1, HoldersFinite, FS_AddElement DEF HoldersCounted
    <2>2. CASE ~ (m_count < cap)
      BY <1>1, <2>2 DEF HoldersCounted, Holders
    <2> QED
      BY <2>1, <2>2
  <1>7. NoStrandedWaiters'
    BY <1>1, <1>3 DEF NoStrandedWaiters, TypeOK
  <1>8. WaitersConsistent'
    <2>1. {u \in Threads : st'[u] = "waiting"} = {u \in Threads : st[u] = "waiting"}
      BY <1>1, <1>3 DEF TypeOK
    <2> QED
      BY <1>3, <2>1 DEF WaitersConsistent, OldestTsc, UINT64_MAX
  <1>9. Sorted'
    BY <1>3 DEF Sorted
  <1> QED
    BY <1>5, <1>6, <1>7, <1>8, <1>9

\* The part of the invariant about the list, after n pops.
LEMMA PopInv ==
  ASSUME IInv, NEW n \in 0 .. Len(m_waiters), NEW t \in Threads, st[t] # "waiting",
         NEW own \in {"idle", "holding"},
         st' = Wake(n, t, own), m_waiters' = Remaining(n), tsc' = tsc,
         m_num_waiters' = m_num_waiters - n,
         m_oldest_tsc' = IF n > 0 THEN OldestTsc(Remaining(n)) ELSE m_oldest_tsc
  PROVE  /\ m_waiters' \in Seq(WaiterThread) /\ m_num_waiters' \in Nat
         /\ m_oldest_tsc' \in 0 .. UINT64_MAX
         /\ WaitersConsistent' /\ Sorted'
  <1> DEFINE ws == Remaining(n)
  <1>1. /\ {ws[i].th : i \in 1 .. Len(ws)} = {u \in Threads : st[u] = "waiting"} \ Woken(n)
        /\ \A i, j \in 1 .. Len(ws) : ws[i].th = ws[j].th => i = j
        /\ \A i, j \in 1 .. Len(ws) :
             i <= j => /\ ws[i].enque_tsc <= ws[j].enque_tsc
                       /\ ws[j].enque_tsc <= tsc
        /\ \A i \in 1 .. Len(ws) : ws[i] \in WaiterThread
    BY PopFacts DEF IInv
  <1>2. ws \in Seq(WaiterThread) /\ Len(ws) = Len(m_waiters) - n
    BY RemainingFacts DEF IInv
  <1>3. {u \in Threads : st'[u] = "waiting"} = {u \in Threads : st[u] = "waiting"} \ Woken(n)
    BY DEF Wake, IInv, TypeOK
  <1>4. m_num_waiters' = Len(ws) /\ m_num_waiters' \in Nat
    BY <1>2 DEF IInv, WaitersConsistent, TypeOK
  <1>5. m_oldest_tsc' = OldestTsc(ws)
    <2>1. CASE n > 0
      BY <2>1
    <2>2. CASE n = 0
      <3>1. ws = m_waiters
        BY <2>2 DEF IInv, TypeOK, Remaining
      <3> QED
        BY <2>2, <3>1 DEF IInv, WaitersConsistent, OldestTsc
    <2> QED
      BY <2>1, <2>2 DEF IInv, TypeOK
  <1> HIDE DEF ws
  <1>6. OldestTsc(ws) \in 0 .. UINT64_MAX
    <2>1. CASE ws = <<>>
      BY <2>1, ClockAssumption DEF OldestTsc, UINT64_MAX
    <2>2. CASE ws # <<>>
      <3>1. 1 \in 1 .. Len(ws)
        BY <1>2, <2>2
      <3> QED
        BY <1>1, <2>2, <3>1, ClockAssumption DEF OldestTsc, UINT64_MAX, WaiterThread
    <2> QED
      BY <2>1, <2>2
  <1>7. m_waiters' = ws
    BY DEF ws
  <1>8. OldestTsc(m_waiters)' = OldestTsc(ws)
    BY <1>7 DEF OldestTsc, UINT64_MAX
  <1>9. WaitersConsistent'
    BY <1>1, <1>3, <1>4, <1>5, <1>7, <1>8 DEF WaitersConsistent, OldestTsc
  <1>10. Sorted'
    BY <1>1, <1>7 DEF Sorted
  <1> QED
    BY <1>2, <1>4, <1>5, <1>6, <1>7, <1>9, <1>10

\* The same when the caller t joins the list after n pops.
LEMMA PushInv ==
  ASSUME IInv, NEW n \in 0 .. Len(m_waiters), NEW t \in Threads, st[t] # "waiting",
         st' = Wake(n, t, "waiting"), tsc' = tsc,
         m_waiters' = Append(Remaining(n), [th |-> t, enque_tsc |-> tsc]),
         m_num_waiters' = m_num_waiters - n + 1,
         m_oldest_tsc' = IF Remaining(n) = <<>> THEN tsc
                         ELSE IF n > 0 THEN OldestTsc(Remaining(n)) ELSE m_oldest_tsc
  PROVE  /\ m_waiters' \in Seq(WaiterThread) /\ m_num_waiters' \in Nat
         /\ m_oldest_tsc' \in 0 .. UINT64_MAX
         /\ WaitersConsistent' /\ Sorted'
  <1> DEFINE ws == Remaining(n)
             me == [th |-> t, enque_tsc |-> tsc]
             ns == Append(ws, me)
  <1>1. /\ {ws[i].th : i \in 1 .. Len(ws)} = {u \in Threads : st[u] = "waiting"} \ Woken(n)
        /\ \A i, j \in 1 .. Len(ws) : ws[i].th = ws[j].th => i = j
        /\ \A i, j \in 1 .. Len(ws) :
             i <= j => /\ ws[i].enque_tsc <= ws[j].enque_tsc
                       /\ ws[j].enque_tsc <= tsc
        /\ \A i \in 1 .. Len(ws) : ws[i] \in WaiterThread
    BY PopFacts DEF IInv
  <1>2. ws \in Seq(WaiterThread) /\ Len(ws) = Len(m_waiters) - n
    BY RemainingFacts DEF IInv
  <1>3. {u \in Threads : st'[u] = "waiting"} =
          ({u \in Threads : st[u] = "waiting"} \ Woken(n)) \cup {t}
    <2>1. t \notin Woken(n)
      BY WokenFacts DEF IInv
    <2> QED
      BY <2>1 DEF Wake, IInv, TypeOK
  <1>4. m_num_waiters' = Len(ws) + 1 /\ m_num_waiters' \in Nat
    BY <1>2 DEF IInv, WaitersConsistent, TypeOK
  <1>5. ws # <<>> => m_oldest_tsc' = OldestTsc(ws)
    <2>1. CASE n > 0
      BY <2>1
    <2>2. CASE n = 0
      <3>1. ws = m_waiters
        BY <2>2 DEF IInv, TypeOK, Remaining
      <3> QED
        BY <2>2, <3>1 DEF IInv, WaitersConsistent, OldestTsc
    <2> QED
      BY <2>1, <2>2 DEF IInv, TypeOK
  <1>6. ws = <<>> => m_oldest_tsc' = tsc
    OBVIOUS
  <1>7. m_waiters' = ns
    OBVIOUS
  <1>8. t \in Threads /\ tsc \in 0 .. MaxTsc /\ me \in WaiterThread
    BY DEF IInv, TypeOK, WaiterThread
  <1> HIDE DEF ws
  <1>9. /\ ns \in Seq(WaiterThread) /\ Len(ns) = Len(ws) + 1
        /\ \A i \in 1 .. Len(ws) : ns[i] = ws[i]
        /\ ns[Len(ws) + 1] = me
    BY <1>2, <1>8
  <1>10. me.th = t /\ me.enque_tsc = tsc
    OBVIOUS
  <1> HIDE DEF me, ns
  <1>11. 1 .. Len(ns) = 1 .. Len(ws) \cup {Len(ws) + 1} /\ Len(ws) \in Nat
    BY <1>2, <1>9
  <1>12. {ns[i].th : i \in 1 .. Len(ns)} = {ws[i].th : i \in 1 .. Len(ws)} \cup {t}
    <2>1. \A i \in 1 .. Len(ns) : ns[i].th \in {ws[k].th : k \in 1 .. Len(ws)} \cup {t}
      BY <1>9, <1>10, <1>11
    <2>2. \A k \in 1 .. Len(ws) : \E i \in 1 .. Len(ns) : ns[i].th = ws[k].th
      BY <1>9, <1>11
    <2>3. \E i \in 1 .. Len(ns) : ns[i].th = t
      BY <1>9, <1>10, <1>11
    <2>4. {ns[i].th : i \in 1 .. Len(ns)} \subseteq {ws[i].th : i \in 1 .. Len(ws)} \cup {t}
      BY <2>1
    <2>5. {ws[i].th : i \in 1 .. Len(ws)} \cup {t} \subseteq {ns[i].th : i \in 1 .. Len(ns)}
      BY <2>2, <2>3
    <2> QED
      BY <2>4, <2>5
  <1>13. \A i, j \in 1 .. Len(ns) : ns[i].th = ns[j].th => i = j
    <2>1. \A i \in 1 .. Len(ws) : ws[i].th # t
      BY <1>1
    <2> QED
      BY <1>1, <2>1, <1>9, <1>10, <1>11
  <1>14. \A i, j \in 1 .. Len(ns) :
           i <= j => /\ ns[i].enque_tsc <= ns[j].enque_tsc
                     /\ ns[j].enque_tsc <= tsc
    <2> SUFFICES ASSUME NEW i \in 1 .. Len(ns), NEW j \in 1 .. Len(ns), i <= j
                 PROVE  ns[i].enque_tsc <= ns[j].enque_tsc /\ ns[j].enque_tsc <= tsc
      OBVIOUS
    <2>1. CASE j \in 1 .. Len(ws)
      <3>1. i \in 1 .. Len(ws) /\ ns[i] = ws[i] /\ ns[j] = ws[j]
        BY <1>9, <1>11, <2>1
      <3> QED
        BY <1>1, <2>1, <3>1
    <2>2. CASE j = Len(ws) + 1
      <3>1. ns[j].enque_tsc = tsc /\ tsc <= tsc
        BY <1>8, <1>9, <1>10, <2>2, ClockAssumption
      <3>2. CASE i \in 1 .. Len(ws)
        <4>1. ns[i] = ws[i] /\ ws[i].enque_tsc <= tsc
          BY <1>1, <1>9, <1>11, <3>2
        <4> QED
          BY <3>1, <4>1
      <3>3. CASE i = Len(ws) + 1
        BY <2>2, <3>1, <3>3
      <3> QED
        BY <1>11, <3>2, <3>3
    <2> QED
      BY <1>11, <2>1, <2>2
  <1>15. m_oldest_tsc' = OldestTsc(ns) /\ m_oldest_tsc' \in 0 .. UINT64_MAX
    <2>1. ns # <<>> /\ 1 \in 1 .. Len(ns) /\ ns[1] \in WaiterThread
      BY <1>9, <1>11
    <2>2. ws = <<>> => ns[1] = me
      BY <1>9
    <2>3. ws # <<>> => ns[1] = ws[1]
      BY <1>2, <1>9
    <2>4. ns[1].enque_tsc \in 0 .. MaxTsc
      BY <2>1 DEF WaiterThread
    <2>5. m_oldest_tsc' = ns[1].enque_tsc
      BY <1>5, <1>6, <1>10, <2>2, <2>3 DEF OldestTsc
    <2> QED
      BY <2>1, <2>4, <2>5, ClockAssumption DEF OldestTsc, UINT64_MAX
  <1>16. WaitersConsistent'
    <2>1. OldestTsc(m_waiters)' = OldestTsc(ns)
      BY <1>7 DEF OldestTsc, UINT64_MAX
    <2>2. {ns[i].th : i \in 1 .. Len(ns)} = {u \in Threads : st'[u] = "waiting"}
      BY <1>1, <1>3, <1>12
    <2>3. m_num_waiters' = Len(ns)
      BY <1>4, <1>9
    <2>4. {m_waiters'[i].th : i \in 1 .. Len(m_waiters')} = {u \in Threads : st'[u] = "waiting"}
      BY <1>7, <2>2
    <2>5. \A i, j \in 1 .. Len(m_waiters') : m_waiters'[i].th = m_waiters'[j].th => i = j
      BY <1>7, <1>13
    <2>6. m_num_waiters' = Len(m_waiters') /\ m_oldest_tsc' = OldestTsc(m_waiters)'
      BY <1>7, <1>15, <2>1, <2>3
    <2> QED
      BY <2>4, <2>5, <2>6 DEF WaitersConsistent, OldestTsc
  <1>17. Sorted'
    BY <1>7, <1>14 DEF Sorted
  <1> QED
    BY <1>4, <1>7, <1>9, <1>15, <1>16, <1>17

-----------------------------------------------------------------------------
\* Wait serves older waiters, then takes a unit or queues.
LEMMA WaitInv ==
  ASSUME IInv, NEW t \in Threads, Wait(t)
  PROVE  IInv'
  <1>1. PICK cap \in UpdatedCaps : UpdateCapacity(cap) /\ WaitBody(t, cap)
    BY DEF Wait
  <1>2. cap \in 1 .. MaxCap /\ m_cap' \in 1 .. MaxCap /\ m_last_time' \in 0 .. tsc
    BY <1>1, UpdateCapacityType DEF IInv
  <1>3. tsc' = tsc /\ st[t] \in {"idle", "admitted"}
    BY DEF Wait
  <1> DEFINE n == Served(cap)
  <1>4. /\ n \in 0 .. Len(m_waiters)
        /\ n > 0 => m_count + n <= cap
        /\ m_count + n < cap => n = Len(m_waiters)
    BY <1>2, ServedFacts DEF IInv
  <1>5. acc_qdel' \in [Threads -> Nat]
    BY <1>1, <1>4, ChargeType DEF IInv, WaitBody
  <1>6. m_count \in Nat /\ n \in Nat /\ m_count = Cardinality(Holders)
    BY <1>4 DEF IInv, TypeOK, HoldersCounted
  <1>7. tsc' \in 0 .. MaxTsc
    BY <1>3 DEF IInv, TypeOK
  <1>8. UINT64_MAX' = UINT64_MAX
    BY DEF UINT64_MAX
  <1>9. CASE m_count + n < cap
    <2>1. /\ m_count' = m_count + n + 1
          /\ m_waiters' = Remaining(n)
          /\ m_num_waiters' = m_num_waiters - n
          /\ m_oldest_tsc' = IF n > 0 THEN OldestTsc(Remaining(n)) ELSE m_oldest_tsc
          /\ st' = Wake(n, t, "holding")
      BY <1>1, <1>9 DEF WaitBody
    <2> HIDE DEF n
    <2>2. /\ m_waiters' \in Seq(WaiterThread) /\ m_num_waiters' \in Nat
          /\ m_oldest_tsc' \in 0 .. UINT64_MAX
          /\ WaitersConsistent' /\ Sorted'
      BY <1>3, <1>4, <2>1, PopInv
    <2>3. st' \in [Threads -> States] /\ Cardinality(Holders') = Cardinality(Holders) + n + 1
      BY <1>3, <1>4, <2>1, WakeFacts DEF IInv
    <2>4. HoldersCounted'
      BY <1>6, <2>1, <2>3 DEF HoldersCounted
    <2>5. TypeOK'
      <3>1. m_count' \in Nat
        BY <1>6, <2>1
      <3>2. m_last_time' \in 0 .. tsc' /\ m_oldest_tsc' \in 0 .. UINT64_MAX'
        BY <1>2, <1>3, <1>8, <2>2
      <3> QED
        BY <1>2, <1>5, <1>7, <2>2, <2>3, <3>1, <3>2, Zenon DEF TypeOK
    <2>6. NoStrandedWaiters'
      BY <1>6, <2>1 DEF NoStrandedWaiters
    <2> QED
      BY <2>2, <2>4, <2>5, <2>6 DEF IInv
  <1>10. CASE ~ (m_count + n < cap)
    <2>1. /\ m_count' = m_count + n
          /\ m_waiters' = Append(Remaining(n), [th |-> t, enque_tsc |-> tsc])
          /\ m_num_waiters' = m_num_waiters - n + 1
          /\ m_oldest_tsc' = IF Remaining(n) = <<>> THEN tsc
                             ELSE IF n > 0 THEN OldestTsc(Remaining(n)) ELSE m_oldest_tsc
          /\ st' = Wake(n, t, "waiting")
      BY <1>1, <1>10 DEF WaitBody
    <2> HIDE DEF n
    <2>2. /\ m_waiters' \in Seq(WaiterThread) /\ m_num_waiters' \in Nat
          /\ m_oldest_tsc' \in 0 .. UINT64_MAX
          /\ WaitersConsistent' /\ Sorted'
      BY <1>3, <1>4, <2>1, PushInv
    <2>3. st' \in [Threads -> States] /\ Cardinality(Holders') = Cardinality(Holders) + n
      BY <1>3, <1>4, <2>1, WakeFacts DEF IInv
    <2>4. HoldersCounted'
      BY <1>6, <2>1, <2>3 DEF HoldersCounted
    <2>5. TypeOK'
      <3>1. m_count' \in Nat
        BY <1>6, <2>1
      <3>2. m_last_time' \in 0 .. tsc' /\ m_oldest_tsc' \in 0 .. UINT64_MAX'
        BY <1>2, <1>3, <1>8, <2>2
      <3> QED
        BY <1>2, <1>5, <1>7, <2>2, <2>3, <3>1, <3>2, Zenon DEF TypeOK
    <2>6. NoStrandedWaiters'
      BY <1>2, <1>6, <1>10, <2>1 DEF NoStrandedWaiters
    <2> QED
      BY <2>2, <2>4, <2>5, <2>6 DEF IInv
  <1> QED
    BY <1>9, <1>10

\* Post hands its unit to the oldest waiter unless the semaphore is over
\* capacity; then another holder is left, so nobody is stranded.
LEMMA PostInv ==
  ASSUME IInv, NEW t \in Threads, Post(t)
  PROVE  IInv'
  <1>1. PICK cap \in UpdatedCaps :
       /\ UpdateCapacity(cap)
       /\ m_count' = PostCount(cap)
       /\ IF KeepsUnit(cap)
          THEN /\ st' = [st EXCEPT ![t] = "idle"]
               /\ UNCHANGED <<m_waiters, m_num_waiters, m_oldest_tsc, acc_qdel>>
          ELSE /\ m_waiters' = Remaining(1)
               /\ m_num_waiters' = m_num_waiters - 1
               /\ m_oldest_tsc' = OldestTsc(Remaining(1))
               /\ acc_qdel' = Charge(1)
               /\ st' = Wake(1, t, "idle")
    BY DEF Post
  <1>2. cap \in 1 .. MaxCap /\ m_cap' \in 1 .. MaxCap /\ m_last_time' \in 0 .. tsc
    BY <1>1, UpdateCapacityType DEF IInv
  <1>3. tsc' = tsc /\ st[t] = "holding" /\ tsc' \in 0 .. MaxTsc
    BY DEF Post, IInv, TypeOK
  <1>4. UINT64_MAX' = UINT64_MAX
    BY DEF UINT64_MAX
  <1>5. m_count = Cardinality(Holders) /\ m_count \in Nat /\ m_count > 0
    <2>1. t \in Holders
      BY <1>3 DEF Holders
    <2>2. IsFiniteSet(Holders) /\ Cardinality(Holders) \in Nat
      BY HoldersFinite DEF IInv
    <2>3. Cardinality(Holders) # 0
      BY <2>1, <2>2, FS_EmptySet
    <2> QED
      BY <2>2, <2>3 DEF IInv, HoldersCounted
  <1>6. CASE KeepsUnit(cap)
    <2>1. /\ m_count' = m_count - 1 /\ st' = [st EXCEPT ![t] = "idle"]
          /\ UNCHANGED <<m_waiters, m_num_waiters, m_oldest_tsc, acc_qdel>>
      BY <1>1, <1>6 DEF PostCount
    <2>2. TypeOK'
      BY <1>2, <1>3, <1>4, <1>5, <2>1 DEF IInv, TypeOK, States
    <2>3. HoldersCounted'
      <3>1. Holders' = Holders \ {t} /\ t \in Holders
        BY <1>3, <2>1 DEF Holders, IInv, TypeOK
      <3> QED
        BY <1>5, <2>1, <3>1, HoldersFinite, FS_RemoveElement DEF HoldersCounted, IInv
    <2>4. NoStrandedWaiters'
      BY <1>2, <1>5, <1>6, <2>1 DEF KeepsUnit, NoStrandedWaiters
    <2>5. WaitersConsistent'
      <3>1. {u \in Threads : st'[u] = "waiting"} = {u \in Threads : st[u] = "waiting"}
        BY <1>3, <2>1 DEF IInv, TypeOK
      <3> QED
        BY <2>1, <3>1 DEF WaitersConsistent, OldestTsc, UINT64_MAX, IInv
    <2>6. Sorted'
      BY <1>3, <2>1 DEF Sorted, IInv
    <2> QED
      BY <2>2, <2>3, <2>4, <2>5, <2>6 DEF IInv
  <1>7. CASE ~ KeepsUnit(cap)
    <2>1. /\ m_count' = m_count
          /\ m_waiters' = Remaining(1)
          /\ m_num_waiters' = m_num_waiters - 1
          /\ m_oldest_tsc' = OldestTsc(Remaining(1))
          /\ acc_qdel' = Charge(1)
          /\ st' = Wake(1, t, "idle")
      BY <1>1, <1>7 DEF PostCount
    <2>2. 1 \in 0 .. Len(m_waiters)
      BY <1>7 DEF KeepsUnit, IInv, TypeOK
    <2>3. /\ m_waiters' \in Seq(WaiterThread) /\ m_num_waiters' \in Nat
          /\ m_oldest_tsc' \in 0 .. UINT64_MAX
          /\ WaitersConsistent' /\ Sorted'
      BY <1>3, <2>1, <2>2, PopInv
    <2>4. st' \in [Threads -> States] /\ Cardinality(Holders') = Cardinality(Holders) + 1 - 1
      BY <1>3, <2>1, <2>2, WakeFacts DEF IInv
    <2>5. HoldersCounted'
      BY <1>5, <2>1, <2>4 DEF HoldersCounted
    <2>6. acc_qdel' \in [Threads -> Nat]
      BY <2>1, <2>2, ChargeType DEF IInv
    <2>7. TypeOK'
      BY <1>2, <1>3, <1>4, <1>5, <2>1, <2>3, <2>4, <2>6 DEF TypeOK
    <2>8. NoStrandedWaiters'
      BY <1>5, <2>1 DEF NoStrandedWaiters
    <2> QED
      BY <2>3, <2>5, <2>7, <2>8 DEF IInv
  <1> QED
    BY <1>6, <1>7

\* The unlocked test and the clock do not touch the semaphore.
LEMMA OtherInv ==
  ASSUME IInv, (\E t \in Threads : CheckUncongested(t)) \/ Tick
  PROVE  IInv'
  <1>1. ASSUME NEW t \in Threads, CheckUncongested(t)
        PROVE  IInv'
    <2>1. TypeOK'
      BY <1>1 DEF CheckUncongested, IInv, TypeOK, States, UINT64_MAX
    <2>2. HoldersCounted'
      <3>1. Holders' = Holders
        BY <1>1 DEF CheckUncongested, Holders, IInv, TypeOK
      <3> QED
        BY <1>1, <3>1 DEF CheckUncongested, HoldersCounted, IInv
    <2>3. WaitersConsistent'
      <3>1. {u \in Threads : st'[u] = "waiting"} = {u \in Threads : st[u] = "waiting"}
        BY <1>1 DEF CheckUncongested, IInv, TypeOK
      <3> QED
        BY <1>1, <3>1 DEF CheckUncongested, WaitersConsistent, OldestTsc, UINT64_MAX, IInv
    <2>4. NoStrandedWaiters' /\ Sorted'
      BY <1>1 DEF CheckUncongested, NoStrandedWaiters, Sorted, IInv
    <2> QED
      BY <2>1, <2>2, <2>3, <2>4 DEF IInv
  <1>2. ASSUME Tick
        PROVE  IInv'
    <2>1. TypeOK'
      BY <1>2, ClockAssumption DEF Tick, IInv, TypeOK, UINT64_MAX
    <2>2. HoldersCounted' /\ NoStrandedWaiters' /\ WaitersConsistent'
      BY <1>2 DEF Tick, HoldersCounted, Holders, NoStrandedWaiters, WaitersConsistent,
                  OldestTsc, UINT64_MAX, IInv
    <2>3. Sorted'
      <3> SUFFICES ASSUME NEW i \in 1 .. Len(m_waiters), NEW j \in 1 .. Len(m_waiters), i <= j
                   PROVE  /\ m_waiters[i].enque_tsc <= m_waiters[j].enque_tsc
                          /\ m_waiters[j].enque_tsc <= tsc'
        BY <1>2 DEF Tick, Sorted
      <3>1. m_waiters[j] \in WaiterThread
        BY DEF IInv, TypeOK
      <3>2. /\ m_waiters[i].enque_tsc <= m_waiters[j].enque_tsc
            /\ m_waiters[j].enque_tsc <= tsc /\ m_waiters[j].enque_tsc \in Nat
            /\ tsc \in Nat
        BY <3>1, ClockAssumption DEF IInv, Sorted, WaiterThread, TypeOK
      <3> QED
        BY <1>2, <3>2 DEF Tick
    <2> QED
      BY <2>1, <2>2, <2>3 DEF IInv
  <1> QED
    BY <1>1, <1>2

-----------------------------------------------------------------------------
\* The invariant holds initially and every step keeps it.
LEMMA InitIInv == Init => IInv
  <1> SUFFICES ASSUME Init PROVE IInv
    OBVIOUS
  <1>1. TypeOK
    BY CapAssumption, ClockAssumption DEF Init, TypeOK, States, UINT64_MAX
  <1>2. Holders = {}
    BY DEF Init, Holders
  <1>3. HoldersCounted
    BY <1>2, FS_EmptySet DEF Init, HoldersCounted
  <1>4. NoStrandedWaiters /\ WaitersConsistent /\ Sorted
    BY DEF Init, NoStrandedWaiters, WaitersConsistent, Sorted, OldestTsc
  <1> QED
    BY <1>1, <1>3, <1>4 DEF IInv

LEMMA NextIInv == IInv /\ [Next]_vars => IInv'
  <1> SUFFICES ASSUME IInv, [Next]_vars PROVE IInv'
    OBVIOUS
  <1>1. CASE Next
    BY <1>1, TryWaitInv, WaitInv, PostInv, OtherInv DEF Next
  <1>2. CASE UNCHANGED vars
    BY <1>2 DEF vars, IInv, TypeOK, HoldersCounted, Holders, NoStrandedWaiters,
                WaitersConsistent, Sorted, OldestTsc, UINT64_MAX
  <1> QED
    BY <1>1, <1>2

\* The inductive invariant holds in every reachable state.
THEOREM Invariance == Spec => []IInv
  BY InitIInv, NextIInv, PTL DEF Spec

\* The state is well typed; in particular UpdateCapacity keeps m_cap between
\* 1 and m_max_cap, and neither m_count nor a charged delay underflows.
THEOREM TypeCorrect == Spec => []TypeOK
  <1>1. IInv => TypeOK
    BY DEF IInv
  <1> QED
    BY <1>1, Invariance, PTL

\* m_count is the number of holders after every TryWait, Wait and Post.
THEOREM CountIsHolders == Spec => []HoldersCounted
  <1>1. IInv => HoldersCounted
    BY DEF IInv
  <1> QED
    BY <1>1, Invariance, PTL

\* Post and Wait strand no waiter, whatever capacities UpdateCapacity picks.
THEOREM NobodyStranded == Spec => []NoStrandedWaiters
  <1>1. IInv => NoStrandedWaiters
    BY DEF IInv
  <1> QED
    BY <1>1, Invariance, PTL

\* The list, m_num_waiters and m_oldest_tsc agree after every operation.
THEOREM WaitersAgree == Spec => []WaitersConsistent
  <1>1. IInv => WaitersConsistent
    BY DEF IInv
  <1> QED
    BY <1>1, Invariance, PTL

\* QueueDelayTsc bounds the time every thread in the list has waited.
THEOREM QueueDelaySound == Spec => []QueueDelayCoversAll
  <1>1. IInv => QueueDelayCoversAll
    <2> SUFFICES ASSUME IInv, NEW i \in 1 .. Len(m_waiters)
                 PROVE  tsc - m_waiters[i].enque_tsc <= QueueDelayTsc
      BY DEF QueueDelayCoversAll
    <2>1. /\ m_waiters \in Seq(WaiterThread) /\ Len(m_waiters) \in Nat
          /\ 1 \in 1 .. Len(m_waiters) /\ 1 <= i
      BY DEF IInv, TypeOK
    <2>2. m_waiters[1] \in WaiterThread /\ m_waiters[i] \in WaiterThread
      BY <2>1
    <2>3. /\ m_waiters[1].enque_tsc \in Nat /\ m_waiters[i].enque_tsc \in Nat
          /\ tsc \in Nat
      BY <2>2, ClockAssumption DEF WaiterThread, IInv, TypeOK
    <2>4. m_waiters[1].enque_tsc <= m_waiters[i].enque_tsc /\ m_waiters[1].enque_tsc <= tsc
      BY <2>1, <2>3 DEF IInv, Sorted
    <2>5. m_oldest_tsc = m_waiters[1].enque_tsc
      BY <2>1 DEF IInv, WaitersConsistent, OldestTsc
    <2> QED
      BY <2>3, <2>4, <2>5 DEF QueueDelayTsc
  <1> QED
    BY <1>1, Invariance, PTL

\* No TryWait, Wait or Post raises m_count past the capacity it chose.
THEOREM GrantsRespectCapacity == Spec => GrantWithinCap
  <1>1. IInv /\ [Next]_vars => [m_count' > m_count => m_count' <= m_cap']_vars
    <2> SUFFICES ASSUME IInv, Next, m_count' > m_count
                 PROVE  m_count' <= m_cap'
      OBVIOUS
    <2>1. m_count \in Nat
      BY DEF IInv, TypeOK
    <2>2. ASSUME NEW t \in Threads, TryWait(t)
          PROVE  m_count' <= m_cap'
      <3>1. PICK cap \in UpdatedCaps : UpdateCapacity(cap) /\ m_count < cap /\ m_count' = m_count + 1
        BY <2>1, <2>2 DEF TryWait
      <3> QED
        BY <2>1, <3>1, UpdateCapacityType DEF IInv
    <2>3. ASSUME NEW t \in Threads, Wait(t)
          PROVE  m_count' <= m_cap'
      <3>1. PICK cap \in UpdatedCaps : UpdateCapacity(cap) /\ WaitBody(t, cap)
        BY <2>3 DEF Wait
      <3>2. cap \in 1 .. MaxCap /\ m_cap' = cap
        BY <3>1, UpdateCapacityType DEF IInv
      <3>3. /\ Served(cap) \in 0 .. Len(m_waiters)
            /\ Served(cap) > 0 => m_count + Served(cap) <= cap
        BY <3>2, ServedFacts DEF IInv
      <3>4. Served(cap) \in Nat
        BY <3>3 DEF IInv, TypeOK
      <3> QED
        BY <2>1, <3>1, <3>2, <3>3, <3>4 DEF WaitBody
    <2>4. ASSUME NEW t \in Threads, Post(t)
          PROVE  FALSE
      BY <2>1, <2>4 DEF Post, PostCount
    <2>5. ASSUME NEW t \in Threads, CheckUncongested(t) \/ Tick
          PROVE  FALSE
      BY <2>1, <2>5 DEF CheckUncongested, Tick
    <2>6. CASE Tick
      BY <2>1, <2>6 DEF Tick
    <2> QED
      BY <2>2, <2>3, <2>4, <2>5, <2>6 DEF Next
  <1> QED
    BY <1>1, Invariance, PTL DEF Spec, GrantWithinCap
=============================================================================
