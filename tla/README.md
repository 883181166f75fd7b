# Svalinn on Shenango: a TLA+ verification project

TLA+ models of the concurrent core of the Svalinn overload controller and of the
runtime it runs on, model-checked with TLC on small instances, with the main
safety properties proved with TLAPS for every value of the constants.

## The system

| Part | Source | State | Operations | What is hard |
|---|---|---|---|---|
| Memory semaphore | `m-semaphore/` | capacity, count, waiter list, oldest stamp | `TryWait`, `Wait`, `Post`, `QueueDelayTsc` | the capacity moves under waiters and holders; units are handed over; the congestion test is made before the lock is taken |
| Credit pool controller | `srpc_update_credit_pool` in `breakwater/src/pcc_server.c` | four-state machine, pool, original pool, statistics | run by whichever thread completed or dropped a request | statistics are counted without the lock; sessions come and go and reset the pool beside it |
| RPC server | rest of `pcc_server.c` | sessions (credit, pending, slots, flags), drained lists, counters | receiver, worker and sender threads of a session, wake-up of drained sessions, closing | three kinds of lock, decisions from copies, a session's fate kept in four places |
| RPC client | `pcc_client.c` | credit, credit used, request queue | send, receive, expire, close | requests in flight while the server takes credit away |
| Runtime mutex | `runtime/sync.c`, `inc/runtime/sync.h` | `held` with a waiter flag, list, oldest stamp | `mutex_lock`, `mutex_try_lock`, `mutex_unlock` | fast paths beside a slow path, direct hand-over |
| Condition variables and the timer of a timed wait | `runtime/sync.c`, `runtime/timer.c` | list, oldest stamp, timer entry on the waiter's stack | `condvar_wait`, `_wait_timed`, `_signal`, `_broadcast`, timer handler | signal, broadcast and timeout compete for a waiter |
| Other synchronisation | `runtime/sync.c`, `breakwater/src/sync.c` | | rwmutex, wait group, barrier, semaphore, congestion-aware locks | planned |
| Scheduler, kthreads, RCU, softirqs | `runtime/sched.c`, `kthread.c`, `rcu.c`, ... | run queues, `thread_running`, kthread states | park, ready, steal, attach | planned |
| Network stack | `runtime/net/` | TCP control blocks, queues, ARP table | segments, timers, sockets | planned |
| I/O kernel | `iokernel/` | cores, processes, kthreads, rings | core allocation, rx/tx, registration | planned |
| Other overload controllers | `breakwater/src/{bw,bw2,sd,dg,nc}_*.c` | credits, tokens, thresholds | as the RPC server | planned |
| Allocators, rings, base library | `base/` | | | planned in part |

`PROJECT.json` lists every part with its sources, the lines each definition
models, and the hazards the properties aim at.

A request takes this way. The client sends it if it has credit, else it queues it.
The server's receiver thread reserves a slot and admits it under the session's
lock; a worker runs the handler, which may block on mutexes, condition variables
and the memory semaphore. Then the worker tries to become the controller, which
moves the credit pool and wakes drained sessions. The sender thread of the session
recomputes the session's credit, sends the responses with it, and puts the session
on a drained list if no credit is left.

## Modules

### MemSemaphore

`TryWait`, `Wait` and `Post` run under one spin lock, so each is one action, and
each starts with `UpdateCapacity`, which may pick any capacity that the policy's
clamps allow once `CtlDelay` has passed. `CheckUncongested` is the unlocked test in
front of `Wait`. `Tick` moves the clock. Rewards are left out. The constructor does
not check the initial capacity; every caller in the repository takes the default, 1.

### PccController

`Control` is one run of the state machine, under `srpc_pcc_lock`; `NoControl` is a
run that comes too early or finds the lock taken. A request passes through
`RecvRead`, `RecvCheck`, `RecvCount`, `AnswerCheck`, `AnswerCount`, each one access
to the shared identifier or to a counter. `SessOpen`, `SessClose` and `SessReset`
are the sessions; the last one to close initializes the pool without
`srpc_pcc_lock`, at any point of a round. `MinSess` sessions are there from the start
and stay; with 0 that is the program, with more a part of its behaviours. The comparison of utilities may come out any way, and so may
`update_dir`, which the code leaves uninitialized on one path.

### PccServer

One record per session for the shared fields, one for the receiver, one for the
sender and its local variables, one for the thread in the controller, one for the
client. A critical section under `s->lock` is one action, unless the thread in it
waits for a drained list's lock, computes a credit from globals, or runs the
controller; then it is several, with `s->lock` held between them. Locks are not
variables: `LockFree` and `DlockFree` follow from the program counters.

A worker takes up to three steps: it publishes the credit of the downstream servers its
handler called (`WorkerDs`), completes the request under `s->lock` (`WorkerDone`), and
later, without the lock, tries to become the controller and readies the sender it took
(`WorkerLeave`). The `BUG_ON`s are outcomes: one that fires sets `bug` and stops
everything. So are the asserts of the last session to close, if `Debug` says that they
are compiled in. A payload that cannot be read because the client has closed puts its
slot back (`RecvCut`).

Abstractions: the globals `srpc_update_credit` reads are read in one
step (`Snapshot`); the pool moves anywhere its clamps allow (how it moves is
`PccController`); a TCP connection is two FIFO streams that end with `fin`; a
session's record is not reused after `sfree`. The branch of `PCC_OP_CREDIT` for a
demand of zero is left out, as no client sends it.

### FifoLock, Mutex, CondVar

`FifoLock` is what the mutex promises: one owner, and nobody gets past a thread that
has queued. `Mutex` has one action for each access to
`m->held` and each critical section under `m->waiter_lock`; the flag is bit 1 of
`held` instead of bit 31. A time stamp is represented by the thread that wrote it.
`CondVar` extends `Mutex`: a thread inside a condvar function takes the mutex
actions at the places where the function calls `mutex_lock` and `mutex_unlock`. A
timer is `armed`, its handler has `fired`, is about to `wake` the thread, or is at
its `end`. Every wait has a timer entry of its own.

The scheduler is taken as: a parked thread goes on once it was made ready, and
`thread_ready` happens after the waker has released its spin lock.

## Runs

| Run | Instance | States | Shows |
|---|---|---|---|
| `msem` | 4 threads, capacity 1..3, clock 0..1 | 9,646 | units conserved, FIFO, nobody stranded, everybody served once the capacity settles or nobody barges |
| `pccctl` | 2 requests, 0..2 sessions, 2 cores | 650,939 | pool has a credit per core or none; experiments in order; decisions start from the original or the initial pool |
| `pccctl_doc_running` | 2 requests, 2 sessions | violation | an answer is counted for a later round that reuses its identifier |
| `pcc_drain` | 2 sessions, 3 slots, 2 credits, drops by the receiver, downstream credit 1 | 939,927 | drained lists, flags and `srpc_num_drained` agree; no credit leaks while sessions are open |
| `pcc_close` | 2 sessions that close, 2 slots, 2 credits | 1,047,243 | credits stay below the window, no sender left parked, divisor positive, counters agree |
| `pcc_bug_wake` | 2 sessions | violation | `BUG_ON(s->credit > 0)` can fire |
| `pcc_bug_reset` | 2 sessions that close, asserts on | violation | `assert(srpc_credit_used == 0)` can fire when the last session goes |
| `pcc_bug_locks` | 2 sessions | violation | session lock and drained-list lock taken in both orders |
| `pcc_doc_wakeup` | 2 sessions, drops | violation | the server can rest with credit in the pool and a waiting session drained |
| `condvar` | 3 threads | 118,156 | the mutex is a FIFO lock; one waker for each waiter; stamps are right |
| `condvar_live` | 2 threads | 8,861 | lock waiters and woken threads go on |
| `condvar_bug_timeout` | 2 threads | violation | a timeout that fires before the thread has queued is lost |

Bounds. Three threads make a list of two waiters behind an owner, the least that
has a middle, and let two wakers compete. Four threads over a capacity of at most
three always leave one in the queue; with a delay of 0 between two moves of the
capacity the bandit may move it at every operation, which includes what it does with a
longer delay, so a clock of two values is enough. Two sessions and two credits on one
core make a session lose its last credit to another one; with three slots a request is
in flight while that happens, so a session can be admitted, completed and drained again
between the steps of the controller that wakes it. In `pcc_close` the pool exceeds what
the window of a session allows. `MaxCalls` bounds what clients ask for at a time,
`MaxLate` how many workers are between completing a request and trying
`srpc_pcc_lock`; neither bounds what the server does otherwise. `QLen` is 1 instead of
16: longer queues matter for the demand, which the other session's requests change as
well. The invariants of `pcc_drain`, and `TypeOK`, also hold on instances that take too
long to repeat: queues of two (5,955,102 states), and a pool of three without downstream
credit (6,854,035 states), in which a request finds no free slot. Session, thread and
request sets are symmetric where only safety is checked. `pccctl` needs two requests so
that one is counted while another is between its check and its count, and 0..2 sessions
so that the last one initializes the pool while a round runs. Deadlock is not checked
for `PccServer` and `CondVar`: clients may stop, threads may wait for a signal nobody
sends, and the lock cycle below is a deadlock of sessions that close.

Fairness. `msem` assumes that a holder posts. That alone does not serve a waiter:
`TryWait` may barge whenever the capacity has just grown and `Post` keep its unit
whenever it has just shrunk, for ever. `WaitersServed` is about the executions in which
the capacity settles or barging ends. `condvar_live` assumes strong fairness of a thread
inside a function, of a timer's handler and of leaving the critical section: the spin
locks are test-and-set locks, so a thread that spins gets one only because it is free
again and again, and a program that owns the mutex does not signal for ever. Under weak
fairness three threads can keep a timer's handler from `cv->waiter_lock`. A larger
instance (three threads, two of them waiting) passes as well but takes ten minutes.

### Findings

- A request in flight can revive a session between `srpc_choose_drained_h` and the
  `BUG_ON` in `wakeup_drained_session` (`pcc_bug_wake`).
- The same gap lets a session be drained again before it is marked as not drained: then
  `drained_core` is -1 although the session is linked, against the comment at the field
  ("-1 if not in the drained list"), and the `BUG_ON`s of `srpc_sender` on `is_linked`
  and on `credit` can fire (lines 1297 and 1298). No run repeats this; the instance of
  `pcc_drain` reaches it.
- A credit is granted under `s->lock` and charged after it, so a session that closes in
  between makes the assert of the last session fail (`pcc_bug_reset`).
- `srpc_choose_drained_h` and `srpc_remove_from_drained_list` take the two locks in
  opposite orders (`pcc_bug_locks`).
- After dropped requests nothing runs the controller again (`pcc_doc_wakeup`).
- Answers are counted for microexperiments of a later round (`pccctl_doc_running`).
- `condvar_timeout` notes a timeout only if it finds the thread in the list, and
  the timer starts before the thread queues (`condvar_bug_timeout`).

## Proofs

| Module | Theorems | Assumptions |
|---|---|---|
| `MemSemaphoreProofs` | types, `HoldersCounted`, `NoStrandedWaiters`, `WaitersConsistent`, `QueueDelayCoversAll`, `GrantWithinCap` | finitely many threads, `InitCap` in range |
| `PccControllerProofs` | types, `PoolServesCores`, `ExperimentsInOrder`; `DecidesFromKnownPool`; `PerturbedPool`, `PoolMovesByEpsilon` if sessions neither come nor go | the sizes are positive, and the windows of all sessions cover the cores |
| `MutexProofs` | `MutualExclusion`, `HeldByOne`, `MutexWaitersKnown`, and `MutexSpec => ImplementsLock` | `NoThread` is not a thread |
| `CondVarProofs` | every step of `CondVar` is a step of `Mutex`, so the mutex theorems hold for it | the same |

*MemSemaphore.* The invariant joins the four safety properties with `Sorted` (stamps
grow along the list). They need each other: `m_count` stays natural because `Post` is
called by a holder that is counted, and a charged delay stays natural because a
stamp is never in the future.

*PccController.* `SessionsBounded` (closing sessions still count) makes types, clamps
and order inductive. `PerturbedPool` says where the pool is in each state of the
machine; that every move is at most epsilon follows from it. `DecidesFromKnownPool`
needs that, where perturbing is switched off, the pool is the original or the initial one
in every state; where it is on, `END_MICRO_EXP` writes the original one back.

*Mutex.* Mutual exclusion alone is not inductive. The invariant counts a thread that
is about to claim the mutex and a waker that has popped a successor as having a
claim: at most one thread has one, and `held` is nonzero exactly while one has it. That
the hand-over meets a parked thread needs `MutexWaitersKnown`: parked threads are
listed once or popped once, never both. The refinement maps the owner to the thread
between lock and unlock and the queue to the list with a popped thread in front; a
hand-over is `GiveUp` followed by `PassOn`. That nobody overtakes rests on the flag
(`held` is not 0 while somebody is listed) and on `ClaimLock` (who claims the mutex in
a race with an unlock found the list empty and still has `waiter_lock`).

Only model-checked: liveness, everything about `PccServer`, and the properties of
`CondVar` that are not the mutex's (`OneWayOut`, `ArgumentAlive`, `CvOldestIsFirst`).
TLAPS does not handle liveness under fairness.

## Not modelled

Progress of the clients of `PccServer`: a session may stay drained (`pcc_doc_wakeup`),
and a request that finds no free slot is forgotten by the server (`RecvCall`), so
nothing is promised to a client; that no sender is left parked is checked as the
invariant `SenderNotLost`.

Memory reuse: a session freed while the controller still has a pointer to it, and
the store of `e->executing` into a frame that has returned, have no effect in the
models. Memory is sequentially consistent. Clocks matter only in `MemSemaphore`.
Formats, logging, configuration parsing and device code are left out.

## Plan

1. Proofs of `OneWayOut` and `ArgumentAlive`; an inductive invariant for the drained
   lists of `PccServer`.
2. The rest of `sync.c` on the pattern of `Mutex`: read-write mutex, wait group,
   barrier, semaphore, and writer starvation.
3. `RunQueue`: parking, readying, stealing and the `thread_running` handshake, as the
   specification that `Mutex` and `CondVar` now assume; then RCU, the timer heap,
   kthreads.
4. `PccClient`: several connections and the timer thread; then Breakwater, Protego,
   SEDA, DAGOR and the controller without overload control as further instances of
   the sender and worker protocol, against one abstract specification of a credit
   server.
5. The LRPC ring, core allocation in the I/O kernel, process registration, ARP and
   the TCP state machine.
