---------------------------- MODULE MemSemaphore ----------------------------
(***************************************************************************)
(* The memory semaphore of m-semaphore/: a counting semaphore whose        *)
(* capacity m_cap is moved at run time by a multi-armed bandit.  TryWait,  *)
(* Wait and Post run entirely under m_spin, so each is one action; each    *)
(* starts with UpdateCapacity().  Rewards are not modelled: the best       *)
(* capacity is any capacity.  MemSemaphore_WaitIfUncongested reads the     *)
(* queue delay without the lock before it calls Wait, so it takes two      *)
(* actions.                                                                *)
(***************************************************************************)
EXTENDS Integers, Sequences, FiniteSets

CONSTANTS Threads,    \* uthreads of the application
          MaxCap,     \* m_max_cap: runtime_max_cores()
          InitCap,    \* init_cap of the constructor, which does not check it;
                      \* every caller takes the default, DEF_INIT_CAP
          CtlDelay,   \* CTL_DELAY_US, in clock ticks
          Budget,     \* queueing-delay budget of the RPC layer, in ticks
          MaxTsc,     \* bound on the clock
          Policy      \* "eg" (epsilon greedy) or "ts" (Thompson sampling)

ASSUME ThreadsFinite == IsFiniteSet(Threads)
ASSUME CapAssumption == MaxCap \in Nat \ {0} /\ InitCap \in 1 .. MaxCap
ASSUME ClockAssumption == CtlDelay \in Nat /\ MaxTsc \in Nat /\ Budget \in Nat
ASSUME PolicyAssumption == Policy \in {"eg", "ts"}

VARIABLES tsc,           \* rdtsc() and microtime(): one clock
          m_cap, m_count, m_last_time,
          m_waiters,     \* list of WaiterThread records, head first
          m_num_waiters, m_oldest_tsc,
          acc_qdel,      \* per thread: accumulated queueing delay
          st             \* per thread: what it is doing with the semaphore

vars == <<tsc, m_cap, m_count, m_last_time, m_waiters, m_num_waiters,
          m_oldest_tsc, acc_qdel, st>>

\* Larger than every reading of the clock.
UINT64_MAX == MaxTsc + 1

WaiterThread == [th : Threads, enque_tsc : 0 .. MaxTsc]

States == {"idle", "admitted", "waiting", "holding"}

Init ==
  /\ tsc = 0
  /\ m_cap = InitCap
  /\ m_count = 0
  /\ m_last_time = 0
  /\ m_waiters = <<>>
  /\ m_num_waiters = 0
  /\ m_oldest_tsc = UINT64_MAX
  /\ acc_qdel = [t \in Threads |-> 0]
  /\ st = [t \in Threads |-> "idle"]

-----------------------------------------------------------------------------
(* Capacity control.                                                       *)

\* Without the clamp, exploring below the best capacity 1 gives 0.
CapExploreUnclamped(best, dir) == best + dir

CapExplore(best, dir) ==
  LET c == best + dir IN IF c < 1 THEN 1 ELSE IF c > MaxCap THEN MaxCap ELSE c

\* Epsilon greedy: one core away from the best capacity, or the best one.
\* Thompson sampling: an arm not above the current one, or any arm.
CapChoices ==
  IF Policy = "eg"
  THEN {CapExplore(best, dir) : best \in 1 .. MaxCap, dir \in {-1, 0, 1}}
  ELSE 1 .. m_cap \cup 1 .. MaxCap

ControlDue == tsc - m_last_time >= CtlDelay

UpdatedCaps == IF ControlDue THEN CapChoices ELSE {m_cap}

UpdateCapacity(cap) ==
  /\ m_cap' = cap
  /\ m_last_time' = IF ControlDue THEN tsc ELSE m_last_time

-----------------------------------------------------------------------------
(* The waiter list.                                                        *)

\* m_oldest_tsc after the list became ws.
OldestTscOfTail(ws) == IF ws = <<>> THEN UINT64_MAX ELSE ws[Len(ws)].enque_tsc

OldestTsc(ws) == IF ws = <<>> THEN UINT64_MAX ELSE ws[1].enque_tsc

\* How many waiters the loop of Wait serves when the capacity is cap.
ServedOneTooMany(cap) ==
  IF m_count > cap THEN 0
  ELSE IF cap - m_count + 1 < Len(m_waiters) THEN cap - m_count + 1 ELSE Len(m_waiters)

Served(cap) ==
  IF m_count >= cap THEN 0
  ELSE IF cap - m_count < Len(m_waiters) THEN cap - m_count ELSE Len(m_waiters)

\* The first n waiters are popped, their delay is charged, they are readied.
Woken(n) == {m_waiters[i].th : i \in 1 .. n}

RemainingPoppedAtTail(n) == SubSeq(m_waiters, 1, Len(m_waiters) - n)

Remaining(n) == SubSeq(m_waiters, n + 1, Len(m_waiters))

Charge(n) ==
  [t \in Threads |->
     IF t \in Woken(n)
     THEN acc_qdel[t] + tsc - m_waiters[CHOOSE i \in 1 .. n : m_waiters[i].th = t].enque_tsc
     ELSE acc_qdel[t]]

Wake(n, t, own) ==
  [u \in Threads |-> IF u \in Woken(n) THEN "holding" ELSE IF u = t THEN own ELSE st[u]]

-----------------------------------------------------------------------------
(* Operations.                                                             *)

\* TryWait ignores the threads that already queue.
TryWait(t) ==
  /\ st[t] = "idle"
  /\ \E cap \in UpdatedCaps :
       /\ UpdateCapacity(cap)
       /\ IF m_count < cap
          THEN m_count' = m_count + 1 /\ st' = [st EXCEPT ![t] = "holding"]
          ELSE UNCHANGED <<m_count, st>>
  /\ UNCHANGED <<tsc, m_waiters, m_num_waiters, m_oldest_tsc, acc_qdel>>

\* Wait first serves the threads queued before the caller, then the caller.
WaitBody(t, cap) ==
  LET n      == Served(cap)
      rest   == Remaining(n)
      oldest == IF n > 0 THEN OldestTsc(rest) ELSE m_oldest_tsc
  IN  /\ acc_qdel' = Charge(n)
      /\ \/ /\ m_count + n < cap
            /\ m_count' = m_count + n + 1
            /\ m_waiters' = rest
            /\ m_num_waiters' = m_num_waiters - n
            /\ m_oldest_tsc' = oldest
            /\ st' = Wake(n, t, "holding")
         \/ /\ ~ (m_count + n < cap)
            /\ m_count' = m_count + n
            /\ m_waiters' = Append(rest, [th |-> t, enque_tsc |-> tsc])
            /\ m_num_waiters' = m_num_waiters - n + 1
            /\ m_oldest_tsc' = IF rest = <<>> THEN tsc ELSE oldest
            /\ st' = Wake(n, t, "waiting")

Wait(t) ==
  /\ st[t] \in {"idle", "admitted"}
  /\ \E cap \in UpdatedCaps : UpdateCapacity(cap) /\ WaitBody(t, cap)
  /\ UNCHANGED tsc

\* Post keeps the unit it would hand over when the semaphore is over capacity.
KeepsUnitWhenFull(cap) == m_count >= cap \/ m_waiters = <<>>

KeepsUnit(cap) == m_count > cap \/ m_waiters = <<>>

PostCountAlwaysDrops(cap) == m_count - 1

PostCount(cap) == IF KeepsUnit(cap) THEN m_count - 1 ELSE m_count

\* Post wakes at most one waiter, which inherits the caller's unit.
Post(t) ==
  /\ st[t] = "holding"
  /\ \E cap \in UpdatedCaps :
       /\ UpdateCapacity(cap)
       /\ m_count' = PostCount(cap)
       /\ IF KeepsUnit(cap)
          THEN /\ st' = [st EXCEPT ![t] = "idle"]
               /\ UNCHANGED <<m_waiters, m_num_waiters, m_oldest_tsc, acc_qdel>>
          ELSE /\ m_waiters' = Remaining(1)
               /\ m_num_waiters' = m_num_waiters - 1
               /\ m_oldest_tsc' = OldestTsc(Remaining(1))
               /\ acc_qdel' = Charge(1)
               /\ st' = Wake(1, t, "idle")
  /\ UNCHANGED tsc

QueueDelayTsc == IF tsc < m_oldest_tsc THEN 0 ELSE tsc - m_oldest_tsc

\* For a thread that serves an RPC; a thread that does not is never congested
\* and goes straight to Wait.
IsCongested(t) == acc_qdel[t] + QueueDelayTsc > Budget

\* MemSemaphore_WaitIfUncongested up to its unlocked test; Wait follows.
CheckUncongested(t) ==
  /\ st[t] = "idle"
  /\ ~ IsCongested(t)
  /\ st' = [st EXCEPT ![t] = "admitted"]
  /\ UNCHANGED <<tsc, m_cap, m_count, m_last_time, m_waiters, m_num_waiters,
                 m_oldest_tsc, acc_qdel>>

Tick ==
  /\ tsc < MaxTsc
  /\ tsc' = tsc + 1
  /\ UNCHANGED <<m_cap, m_count, m_last_time, m_waiters, m_num_waiters,
                 m_oldest_tsc, acc_qdel, st>>

Next ==
  \/ \E t \in Threads : TryWait(t) \/ Wait(t) \/ Post(t) \/ CheckUncongested(t)
  \/ Tick

Spec == Init /\ [][Next]_vars

\* A thread that acquired the semaphore releases it in the end.
FairSpec == Spec /\ \A t \in Threads : WF_vars(Post(t))

-----------------------------------------------------------------------------
(* Properties.                                                             *)

Holders == {t \in Threads : st[t] = "holding"}

\* The state of the semaphore and of its callers; the capacity the bandit
\* picks is always between 1 and m_max_cap, also after exploring at an end.
TypeOK ==
  /\ tsc \in 0 .. MaxTsc
  /\ m_cap \in 1 .. MaxCap
  /\ m_count \in Nat
  /\ m_last_time \in 0 .. tsc
  /\ m_waiters \in Seq(WaiterThread)
  /\ m_num_waiters \in Nat
  /\ m_oldest_tsc \in 0 .. UINT64_MAX
  /\ acc_qdel \in [Threads -> Nat]
  /\ st \in [Threads -> States]

\* m_count is the number of threads that hold the semaphore, across Post
\* handing its unit to a waiter, Wait serving several waiters at once and
\* capacity changes: no unit is lost and none is invented.
HoldersCounted == m_count = Cardinality(Holders)

\* Post and Wait never leave a thread queued when nobody holds the semaphore:
\* there is always a holder whose Post will serve the queue.
NoStrandedWaiters == m_waiters # <<>> => m_count >= 1

\* The list holds exactly the parked threads, each once; m_num_waiters and
\* m_oldest_tsc, which QueueLength and QueueDelayTsc read without the lock,
\* agree with it.
WaitersConsistent ==
  /\ {m_waiters[i].th : i \in 1 .. Len(m_waiters)} = {t \in Threads : st[t] = "waiting"}
  /\ \A i, j \in 1 .. Len(m_waiters) : m_waiters[i].th = m_waiters[j].th => i = j
  /\ m_num_waiters = Len(m_waiters)
  /\ m_oldest_tsc = IF m_waiters = <<>> THEN UINT64_MAX ELSE m_waiters[1].enque_tsc

\* The delay the congestion test uses is an upper bound for every thread in
\* the queue: no waiter has been queued longer than QueueDelayTsc() reports.
QueueDelayCoversAll ==
  \A i \in 1 .. Len(m_waiters) : tsc - m_waiters[i].enque_tsc <= QueueDelayTsc

\* m_count exceeds m_cap only because UpdateCapacity lowered m_cap: no step
\* of TryWait, Wait or Post raises m_count past the capacity it just chose.
GrantWithinCap == [][m_count' > m_count => m_count' <= m_cap']_vars

\* Waiters are served in the order they queued: a step pops a prefix of the
\* list, which it wakes, and adds at most the caller at the tail.
FifoService ==
  [][\E n \in 0 .. Len(m_waiters) :
       /\ \A i \in 1 .. n : st'[m_waiters[i].th] = "holding"
       /\ \/ m_waiters' = SubSeq(m_waiters, n + 1, Len(m_waiters))
          \/ \E w \in WaiterThread :
               m_waiters' = Append(SubSeq(m_waiters, n + 1, Len(m_waiters)), w)]_vars

\* A step that takes a unit past the threads that queue: a TryWait.
Barges ==
  m_waiters # <<>> /\ m_waiters' = m_waiters /\ m_count' > m_count

\* A thread parked in Wait gets the semaphore in the end if every holder posts,
\* whatever the bandit does, provided TryWait stops barging; and whatever TryWait
\* does, provided the bandit settles on a capacity.  With both for ever nothing
\* is promised: TryWait takes the unit a larger capacity offers, and Post keeps
\* it because the capacity is smaller again.
WaitersServed ==
  \/ <>[][~ Barges]_vars
  \/ \E c \in 1 .. MaxCap : <>[](m_cap = c)
  => \A t \in Threads : st[t] = "waiting" ~> st[t] = "holding"

=============================================================================
