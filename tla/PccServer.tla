------------------------------ MODULE PccServer ------------------------------
(***************************************************************************)
(* The credit machinery of the Svalinn RPC server (pcc_server.c): per      *)
(* session a receiver thread (srpc_server, srpc_recv_one), a sender thread *)
(* (srpc_sender) and one worker thread per request (srpc_worker); the      *)
(* drained lists; and the wake-up of drained sessions, run by whichever    *)
(* thread wins srpc_pcc_lock.  The peer of a session is a client with one  *)
(* connection (pcc_client.c), talking over two FIFO byte streams.          *)
(*                                                                         *)
(* A critical section under s->lock is one action unless it also waits for *)
(* the lock of a drained list; then the wait is a state of its own, in     *)
(* which s->lock is held.  The two kinds of lock are not variables: who    *)
(* holds them follows from the program counters (LockFree, DlockFree).     *)
(* The decision how to move the credit pool is module PccController; here  *)
(* every run of the controller may move it as far as the clamps allow.     *)
(***************************************************************************)
EXTENDS Integers, Sequences, FiniteSets, FiniteSetsExt

CONSTANTS Sessions,    \* session structures, one lifetime each
          NoSession,   \* NULL
          Window,      \* SPCC_MAX_WINDOW: slots per session
          MaxCores,    \* runtime_max_cores()
          MaxPool,     \* bound standing for num_sess << SPCC_MAX_WINDOW_EXP
          QLen,        \* CRPC_QLEN: length of a client's queue
          Closing,     \* may clients close their session?
          Aqm,         \* may the queueing delay exceed SPCC_QDELAY_BUDGET?
          Drops,       \* may handlers call spcc_drop()?
          Expires,     \* may requests expire in a client's queue?
          DsCredits,   \* credits of downstream servers that handlers report
          Debug,       \* DEBUG of base/assert.h: are asserts compiled in?
          MaxCalls,    \* bound: calls that wait for a response, of all clients
          MaxLate      \* bound: workers that have completed their request and
                       \* not tried to be the controller yet

ASSUME SessionsAssumption == IsFiniteSet(Sessions) /\ NoSession \notin Sessions
ASSUME SizesAssumption ==
  /\ Window \in Nat \ {0} /\ MaxCores \in Nat \ {0} /\ QLen \in Nat \ {0}
  /\ MaxCalls \in Nat \ {0} /\ MaxLate \in Nat \ {0}
  /\ MaxPool \in Nat /\ MaxPool >= MaxCores
ASSUME SwitchesAssumption == {Closing, Aqm, Drops, Expires, Debug} \subseteq BOOLEAN
ASSUME DsAssumption == DsCredits \subseteq Nat /\ DsCredits # {}

VARIABLES credit_pool, credit_ds, credit_used, num_pending, num_drained,
          list_h, list_l,  \* drained sessions of each core, head first
          sess,            \* struct spcc_session
          rcv,             \* receiver thread of a session
          snd,             \* sender thread of a session, and its locals
          ctl,             \* the thread that holds srpc_pcc_lock
          bug,             \* a BUG_ON or an assert fired: the process is gone
          cl,              \* the client of a session
          c2s, s2c         \* the two directions of its connection

pools == <<credit_pool, credit_ds>>
globals == <<pools, credit_used, num_pending, num_drained>>
lists == <<list_h, list_l>>
peers == <<cl, c2s, s2c>>
vars == <<globals, lists, sess, rcv, snd, ctl, bug, peers>>

Cores == 0 .. MaxCores - 1

Min2(a, b) == IF a < b THEN a ELSE b
Max2(a, b) == IF a > b THEN a ELSE b

NewSession ==
  [credit |-> 0, advertised |-> 0, num_pending |-> 0, demand |-> 0,
   need_ecredit |-> FALSE, wake_up |-> FALSE, drained_core |-> -1,
   is_linked |-> FALSE, closed |-> FALSE, sender_th |-> FALSE,
   running |-> 0, returned |-> 0, completed |-> 0, dropped |-> FALSE,
   late |-> 0, late_th |-> FALSE]

NewSender ==
  [pc |-> "none", tmp |-> 0, dropped |-> FALSE, pool |-> 0, used |-> 0,
   nsess |-> 0, credit |-> 0, drained_core |-> -1]

NewClient == [init |-> FALSE, credit |-> 0, used |-> 0, queue |-> 0]

IdleCtl == [pc |-> "idle", by |-> NoSession, th |-> NoSession,
            n |-> 0, core |-> 0, pos |-> 0, s |-> NoSession,
            woken |-> NoSession]

Init ==
  /\ credit_pool = MaxCores /\ credit_ds = 0 /\ credit_used = 0
  /\ num_pending = 0 /\ num_drained = 0
  /\ list_h = [c \in Cores |-> <<>>] /\ list_l = [c \in Cores |-> <<>>]
  /\ sess = [s \in Sessions |-> NewSession]
  /\ rcv = [s \in Sessions |-> [pc |-> "none", demand |-> 0]]
  /\ snd = [s \in Sessions |-> NewSender]
  /\ ctl = IdleCtl
  /\ bug = "none"
  /\ cl = [s \in Sessions |-> NewClient]
  /\ c2s = [s \in Sessions |-> <<>>] /\ s2c = [s \in Sessions |-> <<>>]

-----------------------------------------------------------------------------
(* Locks, counters and slots.                                              *)

\* s->lock is held across a step only while its holder waits for the lock of
\* a drained list, computes a credit, or runs the controller (AQM).
LockFree(s) ==
  /\ rcv[s].pc \notin {"unlink", "aqm", "aqmctl", "aqmdone", "finunlink"}
  /\ snd[s].pc \notin {"unlink", "update", "exitunlink"}

\* The core whose drained lists the controller looks at: first the high
\* priority lists of all cores from its own on, then the low priority ones.
CtlCore == (ctl.core + ctl.pos) % MaxCores

\* srpc_drained[c].lock is held across a step only by the controller, while
\* it waits for the lock of the session at the tail of list_h.
DlockFree(c) == ~ (ctl.pc = "tail" /\ CtlCore = c)

\* Variant: a session stops counting as soon as end of file has arrived.
NumSessEarly == Cardinality({s \in Sessions :
  /\ rcv[s].pc \notin {"none", "closed", "wait", "free", "gone"}
  /\ c2s[s] = <<>> \/ Head(c2s[s]).op # "fin"})

\* srpc_num_sess: incremented at accept, decremented after the session closed.
NumSess == Cardinality({s \in Sessions :
                          rcv[s].pc \notin {"none", "wait", "free", "gone"}})

\* Slots of s that are neither with the receiver, a worker nor the sender.
Avail(s) ==
  Window - sess[s].running - sess[s].completed - snd[s].tmp
    - (IF rcv[s].pc \in {"slot", "unlink", "aqm", "aqmctl", "aqmdone"}
       THEN 1 ELSE 0)

\* thread_ready(th), where th is NULL or the parked sender of session th.
Readied(f, th) ==
  [s \in Sessions |->
     IF s # th THEN f[s]
     ELSE [f[s] EXCEPT !.pc = IF @ = "exitparked" THEN "exit" ELSE "lock"]]

\* Variant: sender_th is cleared and the thread forgotten.
NoTh(s) == NoSession

\* The sender_th of s that a critical section takes and clears.
TakenTh(s) == IF sess[s].sender_th THEN s ELSE NoSession

-----------------------------------------------------------------------------
(* The drained lists.                                                      *)

Without(l, s) == [c \in Cores |-> SelectSeq(l[c], LAMBDA x : x # s)]

\* Variant: the flag is not cleared.
RemovedStillLinked(s) == [sess[s] EXCEPT !.drained_core = -1]

\* srpc_remove_from_drained_list, with both locks held.  The session record
\* it leaves is Removed(s).
Removed(s) == [sess[s] EXCEPT !.drained_core = -1, !.is_linked = FALSE]

RemoveFromLists(s) ==
  IF sess[s].is_linked
  THEN /\ list_h' = Without(list_h, s)
       /\ list_l' = Without(list_l, s)
       /\ num_drained' = num_drained - 1
  ELSE UNCHANGED <<lists, num_drained>>

-----------------------------------------------------------------------------
(* The receiver thread: srpc_server and srpc_recv_one.                     *)

RcvAt(s, pc) == rcv' = [rcv EXCEPT ![s] = [pc |-> pc, demand |-> 0]]

HeadIs(s, op) == c2s[s] # <<>> /\ Head(c2s[s]).op = op

ReadMsg(s) == c2s' = [c2s EXCEPT ![s] = Tail(@)]

\* The client has not closed the connection.
IsOpen(s) ==
  /\ rcv[s].pc # "none" /\ ~ sess[s].closed
  /\ \A i \in 1 .. Len(c2s[s]) : c2s[s][i].op # "fin"

\* srpc_listener accepts, srpc_server sets the session up and spawns a sender.
Open(s) ==
  /\ rcv[s].pc = "none"
  /\ RcvAt(s, "read")
  /\ snd' = [snd EXCEPT ![s].pc = "lock"]
  /\ UNCHANGED <<globals, lists, sess, ctl, bug, peers>>

\* A request reserves a slot before it takes s->lock.  Without a free slot it
\* is read and forgotten: no response is ever sent for it.
RecvCall(s) ==
  /\ rcv[s].pc = "read" /\ HeadIs(s, "call")
  /\ ReadMsg(s)
  /\ rcv' = IF Avail(s) > 0
            THEN [rcv EXCEPT ![s] = [pc |-> "slot",
                                     demand |-> Head(c2s[s]).demand]]
            ELSE rcv
  /\ UNCHANGED <<globals, lists, sess, snd, ctl, bug, cl, s2c>>

\* The payload cannot be read, as the client has closed the connection: the
\* slot is put back, and what follows is the end of the stream.
RecvCut(s) ==
  /\ rcv[s].pc = "slot" /\ HeadIs(s, "fin")
  /\ RcvAt(s, "read")
  /\ UNCHANGED <<globals, lists, sess, snd, ctl, bug, peers>>

\* "adjust credit if demand changed"
CutToDemand(r) == Min2(r.credit, r.num_pending + r.demand)

\* The critical section of PCC_OP_CALL, from session record r0 on: a worker
\* is spawned, or the queueing delay is above the budget and the request is
\* about to be dropped with s->lock still held.
AdmitCall(s, r0) ==
  LET r1 == [r0 EXCEPT !.demand = rcv[s].demand, !.num_pending = @ + 1]
      r2 == [r1 EXCEPT !.credit = CutToDemand(r1)]
  IN /\ credit_used' = credit_used - (r1.credit - r2.credit)
     /\ num_pending' = num_pending + 1
     /\ \/ /\ sess' = [sess EXCEPT ![s] = [r2 EXCEPT !.running = @ + 1]]
           /\ RcvAt(s, "read")
        \/ /\ Aqm
           /\ sess' = [sess EXCEPT ![s] = r2]
           /\ RcvAt(s, "aqm")

RecvLock(s) ==
  /\ rcv[s].pc = "slot" /\ LockFree(s)
  /\ IF sess[s].drained_core = -1
     THEN AdmitCall(s, sess[s])
     ELSE /\ rcv' = [rcv EXCEPT ![s].pc = "unlink"]
          /\ UNCHANGED <<credit_used, num_pending, sess>>
  /\ UNCHANGED <<pools, num_drained, lists, snd, ctl, bug, peers>>

RecvUnlink(s) ==
  /\ rcv[s].pc = "unlink" /\ DlockFree(sess[s].drained_core)
  /\ RemoveFromLists(s)
  /\ AdmitCall(s, Removed(s))
  /\ UNCHANGED <<pools, snd, ctl, bug, peers>>

\* srpc_handle_req_drop: the receiver tries to become the controller.
AqmControl(s) ==
  /\ rcv[s].pc = "aqm"
  /\ IF ctl.pc = "idle"
     THEN ctl' = [ctl EXCEPT !.pc = "enter", !.by = s] /\ RcvAt(s, "aqmctl")
     ELSE UNCHANGED ctl /\ RcvAt(s, "aqmdone")
  /\ UNCHANGED <<globals, lists, sess, snd, bug, peers>>

\* The dropped request is completed at once and the sender made ready.
AqmDrop(s) ==
  /\ rcv[s].pc = "aqmdone"
  /\ sess' = [sess EXCEPT ![s] = [@ EXCEPT !.completed = @ + 1,
                                           !.dropped = TRUE,
                                           !.sender_th = FALSE]]
  /\ snd' = Readied(snd, TakenTh(s))
  /\ RcvAt(s, "read")
  /\ UNCHANGED <<globals, lists, ctl, bug, peers>>

\* PCC_OP_CREDIT.  A client sends it right after it queued a request, so its
\* demand is positive; the branch for demand 0 has no sender.
RecvCredit(s) ==
  /\ rcv[s].pc = "read" /\ HeadIs(s, "credit") /\ LockFree(s)
  /\ ReadMsg(s)
  /\ IF sess[s].demand > 0 \/ sess[s].drained_core > -1
     THEN /\ bug' = "unexpected cupdate"
          /\ UNCHANGED <<credit_used, sess, snd>>
     ELSE LET idle == sess[s].num_pending = 0
              r1 == [sess[s] EXCEPT !.demand = Head(c2s[s]).demand,
                                    !.need_ecredit = @ \/ idle,
                                    !.sender_th = @ /\ ~ idle]
              r2 == [r1 EXCEPT !.credit = CutToDemand(r1)]
          IN /\ sess' = [sess EXCEPT ![s] = r2]
             /\ credit_used' = credit_used - (r1.credit - r2.credit)
             /\ snd' = IF idle THEN Readied(snd, TakenTh(s)) ELSE snd
             /\ UNCHANGED bug
  /\ UNCHANGED <<pools, num_pending, num_drained, lists, rcv, ctl, cl,
                 s2c>>

\* The critical section of srpc_server once srpc_recv_one failed; r is the
\* session record after the removal from the drained list, if any.
CloseSession(s, r) ==
  /\ sess' = [sess EXCEPT ![s] = [r EXCEPT !.closed = TRUE,
                                           !.sender_th = FALSE,
                                           !.num_pending = 0, !.demand = 0]]
  /\ credit_used' = credit_used - r.credit
  /\ num_pending' = num_pending - r.num_pending
  /\ snd' = Readied(snd, TakenTh(s))
  /\ RcvAt(s, "closed")

RecvFin(s) ==
  /\ rcv[s].pc = "read" /\ HeadIs(s, "fin") /\ LockFree(s)
  /\ IF sess[s].is_linked /\ sess[s].drained_core # -1
     THEN /\ RcvAt(s, "finunlink")
          /\ UNCHANGED <<credit_used, num_pending, sess, snd>>
     ELSE CloseSession(s, sess[s])
  /\ UNCHANGED <<pools, num_drained, lists, ctl, bug, peers>>

RecvFinUnlink(s) ==
  /\ rcv[s].pc = "finunlink" /\ DlockFree(sess[s].drained_core)
  /\ RemoveFromLists(s)
  /\ CloseSession(s, Removed(s))
  /\ UNCHANGED <<pools, ctl, bug, peers>>

\* atomic_dec(&srpc_num_sess), after the critical section.
RecvLeave(s) ==
  /\ rcv[s].pc = "closed"
  /\ RcvAt(s, "wait")
  /\ UNCHANGED <<globals, lists, sess, snd, ctl, bug, peers>>

\* waitgroup_wait(&s->send_waiter); tcp_close; sfree(s)
RecvFree(s) ==
  /\ rcv[s].pc = "wait" /\ snd[s].pc = "done"
  /\ RcvAt(s, "free")
  /\ UNCHANGED <<globals, lists, sess, snd, ctl, bug, peers>>

\* The asserts of srpc_server before it initializes the credits.
ResetBug ==
  IF Debug /\ credit_used # 0 THEN "credit still used"
  ELSE IF Debug /\ num_drained # 0 THEN "session still drained" ELSE "none"

\* The last session to go initializes the credits.
RecvReset(s) ==
  /\ rcv[s].pc = "free"
  /\ IF NumSess = 0
     THEN /\ bug' = ResetBug
          /\ credit_used' = 0 /\ credit_pool' = MaxCores /\ credit_ds' = 0
     ELSE UNCHANGED <<bug, credit_used, pools>>
  /\ RcvAt(s, "gone")
  /\ UNCHANGED <<num_pending, num_drained, lists, sess, snd, ctl, peers>>

-----------------------------------------------------------------------------
(* Worker threads: srpc_worker.                                            *)

\* A handler has returned without a drop, and the worker publishes the credit
\* of the downstream servers it called.  Where no handler reports any, this
\* stores the 0 that is there, and takes no step of its own.
WorkerDs(s) ==
  /\ DsCredits # {0} /\ sess[s].running > sess[s].returned
  /\ credit_ds' \in DsCredits
  /\ sess' = [sess EXCEPT ![s].returned = @ + 1]
  /\ UNCHANGED <<credit_pool, credit_used, num_pending, num_drained, lists, rcv,
                 snd, ctl, bug, peers>>

LateWorkers == MapThenSumSet(LAMBDA s : sess[s].late, Sessions)

\* The worker, possibly after spcc_drop(), marks the slot completed and takes
\* the sender.
WorkerDone(s, drop) ==
  LET wrote == ~ drop /\ DsCredits # {0} IN
  /\ IF wrote THEN sess[s].returned > 0 ELSE sess[s].running > sess[s].returned
  /\ LockFree(s) /\ LateWorkers < MaxLate
  /\ sess' = [sess EXCEPT ![s] =
       [@ EXCEPT !.running = @ - 1, !.returned = IF wrote THEN @ - 1 ELSE @,
                 !.completed = @ + 1, !.dropped = @ \/ drop,
                 !.late = @ + 1, !.late_th = @ \/ sess[s].sender_th,
                 !.sender_th = FALSE]]
  /\ UNCHANGED <<globals, lists, rcv, snd, ctl, bug, peers>>

\* Later, without s->lock, it tries to become the controller, and makes the
\* sender, if it is the one who took it, ready after that.
WorkerLeave(s, took) ==
  LET r == sess[s]
      th == IF took THEN s ELSE NoSession
  IN
  /\ IF took THEN r.late_th ELSE r.late > (IF r.late_th THEN 1 ELSE 0)
  /\ sess' = [sess EXCEPT ![s].late = @ - 1, ![s].late_th = @ /\ ~ took]
  /\ IF ctl.pc = "idle"
     THEN ctl' = [ctl EXCEPT !.pc = "enter", !.th = th] /\ UNCHANGED snd
     ELSE snd' = Readied(snd, th) /\ UNCHANGED ctl
  /\ UNCHANGED <<globals, lists, rcv, bug, peers>>

-----------------------------------------------------------------------------
(* The sender thread: srpc_sender.                                         *)

\* Nothing to do: the sender parks.
Idle(r) ==
  ~ r.closed /\ ~ r.need_ecredit /\ ~ r.wake_up /\ r.completed = 0

\* Variant: one response at a time is taken off.
PendingLessOne(r) == r.num_pending - 1

\* s->num_pending after the sender has collected the completed slots.
PendingLeft(r) == r.num_pending - r.completed

\* The pool as srpc_update_credit sees it: downstream servers may have less.
PoolSeen ==
  IF credit_ds > 0 THEN Min2(credit_pool, credit_ds) ELSE credit_pool

\* The sender's locals after it read the globals in srpc_update_credit.
Snapshot(l, core) ==
  [l EXCEPT !.pc = "update", !.drained_core = core, !.pool = PoolSeen,
            !.used = credit_used, !.nsess = NumSess]

SndLock(s) ==
  LET r == sess[s]
      collected == [snd[s] EXCEPT !.tmp = r.completed, !.dropped = r.dropped]
  IN
  /\ snd[s].pc = "lock" /\ LockFree(s)
  /\ \/ /\ Idle(r)
        /\ sess' = [sess EXCEPT ![s].sender_th = TRUE]
        /\ snd' = [snd EXCEPT ![s].pc = "parked"]
     \/ /\ r.closed
        /\ sess' = [sess EXCEPT ![s].sender_th = FALSE]
        /\ snd' = [snd EXCEPT ![s].pc = "exit"]
     \/ /\ ~ Idle(r) /\ ~ r.closed
        /\ sess' = [sess EXCEPT ![s] =
                      [@ EXCEPT !.sender_th = FALSE, !.completed = 0,
                                !.dropped = FALSE,
                                !.num_pending = PendingLeft(r)]]
        /\ snd' = [snd EXCEPT ![s] =
                     IF r.wake_up /\ r.drained_core # -1
                     THEN [collected EXCEPT !.pc = "unlink"]
                     ELSE Snapshot(collected, r.drained_core)]
  /\ UNCHANGED <<globals, lists, rcv, ctl, bug, peers>>

\* srpc_update_credit: the new credit of session record r, from the globals
\* the sender read (l.pool, l.used, l.nsess).  The division is C's.
CreditUnused(l) == l.pool - l.used

Quotient(a, b) == IF a >= 0 THEN a \div b ELSE - ((- a) \div b)

MaxOverprovision(l) == Max2(Quotient(CreditUnused(l), l.nsess), 1)

Moved(r, l) ==
  IF l.used < l.pool
  THEN Min2(r.num_pending + r.demand + MaxOverprovision(l),
            r.credit + CreditUnused(l))
  ELSE IF l.used > l.pool THEN r.credit - 1 ELSE r.credit

Raised(r, l) ==
  IF r.wake_up \/ l.nsess <= MaxCores
  THEN Max2(Moved(r, l), MaxOverprovision(l)) ELSE Moved(r, l)

Prioritized(r, l) ==
  IF r.credit > 0 /\ Raised(r, l) = 0 /\ ~ l.dropped
  THEN MaxOverprovision(l) ELSE Raised(r, l)

\* Variant: the window of a session does not bound its credit.
ClampedToDemand(r, l) ==
  Min2(Max2(Prioritized(r, l), r.num_pending),
       r.num_pending + r.demand + MaxOverprovision(l))

Clamped(r, l) ==
  Min2(Min2(Max2(Prioritized(r, l), r.num_pending), Window - 1),
       r.num_pending + r.demand + MaxOverprovision(l))

NewCredit(r, l) == IF r.drained_core # -1 THEN r.credit ELSE Clamped(r, l)

\* Variant: the difference to what the client was told last.
DiffToAdvertised(r, credit) == credit - r.advertised

CreditDiff(r, credit) == credit - r.credit

\* The rest of the critical section: the credit, what to send, the flags.
SndUpdate(s) ==
  LET l == snd[s]
      r == sess[s]
      credit == NewCredit(r, l)
      explicit == /\ r.need_ecredit \/ r.wake_up
                  /\ l.tmp = 0 /\ r.advertised < credit
  IN
  /\ l.pc = "update"
  /\ credit_used' = credit_used + CreditDiff(r, credit)
  /\ sess' = [sess EXCEPT ![s] =
                [@ EXCEPT !.credit = credit, !.need_ecredit = FALSE,
                          !.wake_up = FALSE,
                          !.advertised = IF l.tmp > 0 \/ explicit
                                         THEN credit ELSE @]]
  /\ snd' = [snd EXCEPT ![s] =
               IF explicit THEN [NewSender EXCEPT !.pc = "ecredit"]
               ELSE [NewSender EXCEPT !.pc = IF l.tmp = 0 THEN "put" ELSE "resp",
                                      !.tmp = l.tmp, !.credit = credit,
                                      !.drained_core = l.drained_core]]
  /\ UNCHANGED <<pools, num_pending, num_drained, lists, rcv, ctl, bug,
                 peers>>

\* srpc_send_ecredit reads s->credit again, without the lock.  The write may
\* fail once the client has closed.
SndEcredit(s) ==
  /\ snd[s].pc = "ecredit"
  /\ \/ /\ s2c' = [s2c EXCEPT ![s] =
                     Append(@, [op |-> "credit", credit |-> sess[s].credit])]
        /\ snd' = [snd EXCEPT ![s] = [NewSender EXCEPT !.pc = "lock"]]
     \/ /\ ~ IsOpen(s)
        /\ snd' = [snd EXCEPT ![s] = [NewSender EXCEPT !.pc = "exit"]]
        /\ UNCHANGED s2c
  /\ UNCHANGED <<globals, lists, sess, rcv, ctl, bug, cl, c2s>>

Responses(s) ==
  [i \in 1 .. snd[s].tmp |-> [op |-> "call", credit |-> sess[s].credit]]

\* srpc_send_completion_vector up to tcp_writev_full, if there is anything to
\* send; again s->credit is read without the lock.
SndResp(s) ==
  /\ snd[s].pc = "resp"
  /\ s2c' = [s2c EXCEPT ![s] = @ \o Responses(s)]
  /\ snd' = [snd EXCEPT ![s].pc = "put"]
  /\ UNCHANGED <<globals, lists, sess, rcv, ctl, bug, cl, c2s>>

\* "(1) credit becomes zero, (2) s is not in the list already, (3) it has no
\* outstanding requests"; (1) and (2) from copies made under the lock.
ToDrain(s) ==
  /\ snd[s].credit = 0 /\ snd[s].drained_core = -1
  /\ Avail(s) + snd[s].tmp = Window

\* The slots are returned; then the sender decides, from its copies of credit
\* and drained_core, whether the session is drained.
SndPut(s) ==
  /\ snd[s].pc = "put"
  /\ num_pending' = num_pending - snd[s].tmp
  /\ snd' = [snd EXCEPT ![s] =
               [NewSender EXCEPT !.pc = IF ToDrain(s) THEN "drain" ELSE "lock"]]
  /\ UNCHANGED <<pools, credit_used, num_drained, lists, sess, rcv, ctl,
                 bug, peers>>

\* Both locks are taken at once: nobody who holds the list's lock waits for the
\* lock of a session that is not in a list; one that is meets a BUG_ON.
SndDrain(s, c) ==
  LET r == sess[s] IN
  /\ snd[s].pc = "drain" /\ LockFree(s) /\ DlockFree(c)
  /\ IF r.is_linked \/ r.credit > 0
     THEN /\ bug' = IF r.is_linked THEN "drained twice" ELSE "drained with credit"
          /\ UNCHANGED <<num_drained, lists, sess, snd>>
     ELSE /\ IF r.demand > 0
             THEN list_h' = [list_h EXCEPT ![c] = <<s>> \o @] /\ UNCHANGED list_l
             ELSE list_l' = [list_l EXCEPT ![c] = Append(@, s)] /\ UNCHANGED list_h
          /\ sess' = [sess EXCEPT ![s].is_linked = TRUE, ![s].drained_core = c]
          /\ num_drained' = num_drained + 1
          /\ snd' = [snd EXCEPT ![s].pc = "lock"]
          /\ UNCHANGED bug
  /\ UNCHANGED <<pools, credit_used, num_pending, rcv, ctl, peers>>

\* close: wait until the session is closed and every slot has come back.
SndExit(s) ==
  LET r == sess[s] IN
  /\ snd[s].pc = "exit" /\ LockFree(s)
  /\ IF ~ r.closed \/ Avail(s) + r.completed < Window
     THEN /\ sess' = [sess EXCEPT ![s].sender_th = TRUE]
          /\ snd' = [snd EXCEPT ![s].pc = "exitparked"]
     ELSE /\ sess' = [sess EXCEPT ![s].sender_th = FALSE,
                                  ![s].completed =
                                    IF r.drained_core = -1 THEN 0 ELSE @]
          /\ snd' = [snd EXCEPT ![s].pc =
                       IF r.drained_core = -1 THEN "done" ELSE "exitunlink"]
  /\ UNCHANGED <<globals, lists, rcv, ctl, bug, peers>>

\* The sender has the lock of the drained list too: srpc_remove_from_drained_list
\* before it updates the credit, or as the last thing it does.
SndUnlink(s) ==
  LET exiting == snd[s].pc = "exitunlink" IN
  /\ snd[s].pc \in {"unlink", "exitunlink"} /\ DlockFree(sess[s].drained_core)
  /\ RemoveFromLists(s)
  /\ sess' = [sess EXCEPT ![s] = [Removed(s) EXCEPT !.completed =
                                    IF exiting THEN 0 ELSE @]]
  /\ snd' = [snd EXCEPT ![s] = IF exiting THEN [@ EXCEPT !.pc = "done"]
                               ELSE Snapshot(@, -1)]
  /\ UNCHANGED <<pools, credit_used, num_pending, rcv, ctl, bug, peers>>

-----------------------------------------------------------------------------
(* The controller: srpc_update_credit_pool, wakeup_drained_session.        *)

\* What one run of the state machine may leave in the credit pool: any value the
\* clamps of update_credit_pool, incr_credit_pool and decr_credit_pool allow, so
\* none at all without a session, or a value reset from before.
PoolMoves ==
  {credit_pool} \cup MaxCores .. MaxPool \cup (IF NumSess = 0 THEN {0} ELSE {})

\* srpc_pcc_lock is released; a worker makes the sender it took ready, a
\* receiver goes on with its drop.
CtlReturn ==
  /\ ctl' = IdleCtl
  /\ snd' = Readied(Readied(snd, ctl.woken), ctl.th)
  /\ rcv' = IF ctl.by = NoSession THEN rcv
            ELSE [rcv EXCEPT ![ctl.by].pc = "aqmdone"]

\* The state machine, and whether sessions are to be woken: always when it
\* moved the pool, otherwise when SPCC_RTT_US have passed since the last time.
CtlDecide ==
  /\ ctl.pc = "enter"
  /\ \/ CtlReturn /\ UNCHANGED credit_pool
     \/ \E p \in PoolMoves, c \in Cores :
          /\ credit_pool' = p
          /\ IF p > credit_used
             THEN /\ ctl' = [ctl EXCEPT !.pc = "scan", !.core = c,
                                        !.n = p - credit_used]
                  /\ UNCHANGED <<snd, rcv>>
             ELSE CtlReturn
  /\ UNCHANGED <<credit_ds, credit_used, num_pending, num_drained, lists, sess,
                 bug, peers>>

\* No session in this list: the next list, or the end of the search.
CtlNext ==
  IF ctl.pos < 2 * MaxCores - 1
  THEN /\ ctl' = [ctl EXCEPT !.pc = "scan", !.pos = @ + 1]
       /\ UNCHANGED <<snd, rcv>>
  ELSE CtlReturn

\* srpc_choose_drained_h and srpc_choose_drained_l, up to the list's lock; the
\* low priority list is popped in the same critical section.
CtlScan ==
  LET c == CtlCore
      high == ctl.pos < MaxCores
  IN
  /\ ctl.pc = "scan"
  /\ \/ /\ (IF high THEN list_h[c] ELSE list_l[c]) = <<>>
        /\ CtlNext
        /\ UNCHANGED <<lists, sess>>
     \/ /\ high /\ list_h[c] # <<>>
        /\ ctl' = [ctl EXCEPT !.pc = "tail"]
        /\ UNCHANGED <<lists, sess, snd, rcv>>
     \/ /\ ~ high /\ list_l[c] # <<>>
        /\ list_l' = [list_l EXCEPT ![c] = Tail(@)]
        /\ sess' = [sess EXCEPT ![Head(list_l[c])].is_linked = FALSE]
        /\ ctl' = [ctl EXCEPT !.pc = "popped", !.s = Head(list_l[c])]
        /\ UNCHANGED <<list_h, snd, rcv>>
  /\ UNCHANGED <<globals, bug, peers>>

\* With the list's lock held, the controller locks the session at the tail of
\* list_h: outdated demand moves it to list_l; otherwise the head is popped.
CtlTail ==
  LET c == CtlCore
      h == list_h[c]
  IN
  /\ ctl.pc = "tail"
  /\ \/ /\ h = <<>>
        /\ CtlNext
        /\ UNCHANGED <<lists, sess>>
     \/ /\ h # <<>> /\ LockFree(h[Len(h)])
        /\ list_h' = [list_h EXCEPT ![c] = SubSeq(h, 1, Len(h) - 1)]
        /\ list_l' = [list_l EXCEPT ![c] = Append(@, h[Len(h)])]
        /\ UNCHANGED <<sess, ctl, snd, rcv>>
     \/ /\ h # <<>> /\ LockFree(h[Len(h)])
        /\ list_h' = [list_h EXCEPT ![c] = Tail(h)]
        /\ sess' = [sess EXCEPT ![Head(h)].is_linked = FALSE]
        /\ ctl' = [ctl EXCEPT !.pc = "popped", !.s = Head(h)]
        /\ UNCHANGED <<list_l, snd, rcv>>
  /\ UNCHANGED <<globals, bug, peers>>

\* The popped session is marked as not drained in a second critical section.
CtlUndrain ==
  /\ ctl.pc = "popped" /\ LockFree(ctl.s)
  /\ sess' = [sess EXCEPT ![ctl.s].drained_core = -1]
  /\ num_drained' = num_drained - 1
  /\ ctl' = [ctl EXCEPT !.pc = "wake"]
  /\ UNCHANGED <<pools, credit_used, num_pending, lists, rcv, snd, bug,
                 peers>>

\* And given its credit in a third one.
CtlWake ==
  LET s == ctl.s IN
  /\ ctl.pc = "wake" /\ LockFree(s)
  /\ IF sess[s].credit > 0
     THEN bug' = "woken with credit" /\ UNCHANGED <<sess, ctl>>
     ELSE /\ sess' = [sess EXCEPT ![s] = [@ EXCEPT !.wake_up = TRUE,
                                                   !.sender_th = FALSE,
                                                   !.credit = 1]]
          /\ ctl' = [ctl EXCEPT !.pc = "charge", !.woken = TakenTh(s)]
          /\ UNCHANGED bug
  /\ UNCHANGED <<globals, lists, rcv, snd, peers>>

\* After that critical section the credit is charged, and only then is the
\* sender of the woken session made ready.
CtlCharge ==
  /\ ctl.pc = "charge"
  /\ credit_used' = credit_used + 1
  /\ IF ctl.n > 1
     THEN /\ ctl' = [ctl EXCEPT !.pc = "scan", !.pos = 0, !.n = @ - 1,
                                !.s = NoSession, !.woken = NoSession]
          /\ snd' = Readied(snd, ctl.woken)
          /\ UNCHANGED rcv
     ELSE CtlReturn
  /\ UNCHANGED <<pools, num_pending, num_drained, lists, sess, bug,
                 peers>>

-----------------------------------------------------------------------------
(* The client of a session: cpcc_send_one, cpcc_recv_one, crpc_timer,      *)
(* cpcc_close of pcc_client.c, for one connection.                         *)

Call(demand) == [op |-> "call", demand |-> demand]

\* crpc_send_request_vector: as many queued requests as there is credit for,
\* each with what then remains queued as its demand.
Sent(c) == IF c.used < c.credit THEN Min2(c.queue, c.credit - c.used) ELSE 0

SendVector(s, c, in) ==
  /\ cl' = [cl EXCEPT ![s] = [c EXCEPT !.queue = @ - Sent(c),
                                       !.used = @ + Sent(c)]]
  /\ c2s' = [c2s EXCEPT ![s] =
               in \o [i \in 1 .. Sent(c) |-> Call(c.queue - i)]]

\* Calls of all clients that are queued or wait for a response.
CallsOutstanding == MapThenSumSet(LAMBDA s : cl[s].used + cl[s].queue, Sessions)

\* cpcc_send_one: with credit and an empty queue the request is sent (hot
\* path); otherwise it is queued, dropping the oldest one of a full queue, and
\* the very first one asks the server for credit.
ClientCall(s) ==
  LET c == cl[s]
      q == Min2(c.queue + 1, QLen)
  IN
  /\ IsOpen(s) /\ CallsOutstanding < MaxCalls
  /\ IF c.used < c.credit /\ c.queue = 0
     THEN /\ cl' = [cl EXCEPT ![s].used = @ + 1]
          /\ c2s' = [c2s EXCEPT ![s] = Append(@, Call(0))]
     ELSE SendVector(s, [c EXCEPT !.queue = q, !.init = TRUE],
                     IF c.init THEN c2s[s]
                     ELSE Append(c2s[s], [op |-> "credit", demand |-> q]))
  /\ UNCHANGED <<globals, lists, sess, rcv, snd, ctl, bug, s2c>>

\* cpcc_recv_one: a response gives a credit back; either message carries the
\* session's credit, and a positive credit drains the queue.
ClientRecv(s) ==
  LET m == Head(s2c[s])
      c == [cl[s] EXCEPT !.credit = m.credit,
                         !.used = IF m.op = "call" THEN @ - 1 ELSE @]
  IN
  /\ s2c[s] # <<>> /\ IsOpen(s)
  /\ s2c' = [s2c EXCEPT ![s] = Tail(@)]
  /\ SendVector(s, c, c2s[s])
  /\ UNCHANGED <<globals, lists, sess, rcv, snd, ctl, bug>>

\* crpc_timer, or the first loop of crpc_drain_queue: expired requests leave.
ClientExpire(s) ==
  /\ Expires /\ IsOpen(s) /\ cl[s].queue > 0
  /\ cl' = [cl EXCEPT ![s].queue = @ - 1]
  /\ UNCHANGED <<globals, lists, sess, rcv, snd, ctl, bug, c2s, s2c>>

\* cpcc_close: the server reads end of file after what was sent before.
ClientClose(s) ==
  /\ Closing /\ IsOpen(s)
  /\ c2s' = [c2s EXCEPT ![s] = Append(@, [op |-> "fin", demand |-> 0])]
  /\ UNCHANGED <<globals, lists, sess, rcv, snd, ctl, bug, cl, s2c>>

-----------------------------------------------------------------------------

Receiver(s) ==
  \/ Open(s) \/ RecvCall(s) \/ RecvCut(s) \/ RecvLock(s) \/ RecvUnlink(s)
  \/ AqmControl(s) \/ AqmDrop(s) \/ RecvCredit(s) \/ RecvFin(s)
  \/ RecvFinUnlink(s) \/ RecvLeave(s) \/ RecvFree(s) \/ RecvReset(s)

Worker(s) ==
  \/ WorkerDs(s)
  \/ \E drop \in {FALSE, Drops} : WorkerDone(s, drop)
  \/ \E took \in BOOLEAN : WorkerLeave(s, took)

Sender(s) ==
  \/ SndLock(s) \/ SndUnlink(s) \/ SndUpdate(s) \/ SndEcredit(s)
  \/ SndResp(s) \/ SndPut(s) \/ SndExit(s)
  \/ \E c \in Cores : SndDrain(s, c)

Controller ==
  CtlDecide \/ CtlScan \/ CtlTail \/ CtlUndrain \/ CtlWake \/ CtlCharge

Client(s) ==
  ClientCall(s) \/ ClientRecv(s) \/ ClientExpire(s) \/ ClientClose(s)

Next ==
  /\ bug = "none"
  /\ \/ Controller
     \/ \E s \in Sessions :
          Receiver(s) \/ Worker(s) \/ Sender(s) \/ Client(s)

Spec == Init /\ [][Next]_vars

-----------------------------------------------------------------------------
(* Properties.                                                             *)

RcvPcs == {"none", "read", "slot", "unlink", "aqm", "aqmctl", "aqmdone",
           "finunlink", "closed", "wait", "free", "gone"}
SndPcs == {"none", "lock", "parked", "unlink", "update", "ecredit", "resp",
           "put", "drain", "exit", "exitparked", "exitunlink", "done"}
CtlPcs == {"idle", "enter", "scan", "tail", "popped", "wake", "charge"}

\* Every field stays in its range.  For s->credit that is 0 .. SPCC_MAX_WINDOW
\* - 1, whatever srpc_update_credit computed from globals that other sessions
\* were changing; a client never has more requests outstanding than that.
TypeOK ==
  /\ credit_pool \in 0 .. MaxPool /\ credit_ds \in {0} \cup DsCredits /\ credit_used \in Int
  /\ num_pending \in Nat /\ num_drained \in Int
  /\ list_h \in [Cores -> Seq(Sessions)] /\ list_l \in [Cores -> Seq(Sessions)]
  /\ sess \in [Sessions ->
       [credit : 0 .. Window - 1, advertised : 0 .. Window - 1,
        num_pending : 0 .. Window, demand : 0 .. QLen,
        need_ecredit : BOOLEAN, wake_up : BOOLEAN,
        drained_core : {-1} \cup Cores, is_linked : BOOLEAN,
        closed : BOOLEAN, sender_th : BOOLEAN, running : 0 .. Window,
        returned : 0 .. Window, completed : 0 .. Window, dropped : BOOLEAN,
        late : 0 .. MaxLate, late_th : BOOLEAN]]
  /\ rcv \in [Sessions -> [pc : RcvPcs, demand : 0 .. QLen]]
  /\ snd \in [Sessions ->
       [pc : SndPcs, tmp : 0 .. Window, dropped : BOOLEAN, pool : 0 .. MaxPool,
        used : Int, nsess : Nat, credit : 0 .. Window - 1,
        drained_core : {-1} \cup Cores]]
  /\ ctl \in [pc : CtlPcs, by : Sessions \cup {NoSession},
             th : Sessions \cup {NoSession}, n : 0 .. MaxPool + Window,
             core : Cores, pos : 0 .. 2 * MaxCores,
             s : Sessions \cup {NoSession}, woken : Sessions \cup {NoSession}]
  /\ cl \in [Sessions -> [init : BOOLEAN, credit : 0 .. Window - 1,
                         used : 0 .. Window - 1, queue : 0 .. QLen]]
  /\ \A s \in Sessions : Avail(s) \in 0 .. Window

\* No lost wake-up: a sender that is parked with sender_th set has nothing to
\* do, and one whose sender_th was taken is about to be made ready by the
\* thread in the controller.  Workers, the receiver, the closing thread and the
\* controller all take sender_th, under different conditions.
SenderNotLost ==
  \A s \in Sessions :
    /\ snd[s].pc = "parked" /\ sess[s].sender_th => Idle(sess[s])
    /\ snd[s].pc = "exitparked" /\ sess[s].sender_th =>
         ~ sess[s].closed \/ Avail(s) + sess[s].completed < Window
    /\ snd[s].pc \in {"parked", "exitparked"} /\ ~ sess[s].sender_th =>
         s \in {ctl.th, ctl.woken} \/ sess[s].late_th
    /\ sess[s].sender_th => snd[s].pc \in {"parked", "exitparked", "lock", "exit"}

\* s->num_pending counts the requests admitted and not collected by the sender
\* yet; it is written by the receiver, the sender and the closing thread.
PendingCounted ==
  \A s \in Sessions :
    sess[s].num_pending =
      IF sess[s].closed THEN 0
      ELSE sess[s].running + sess[s].completed
             + (IF rcv[s].pc \in {"aqm", "aqmctl", "aqmdone"} THEN 1 ELSE 0)

\* The flag is_linked, the drained lists and srpc_num_drained agree: a session
\* is in at most one list, once, exactly if is_linked; num_drained counts those
\* and the one the controller has popped but not yet marked.
DrainedCoherent ==
  LET Times(s, c) == Len(SelectSeq(list_h[c] \o list_l[c], LAMBDA x : x = s))
      linked == {s \in Sessions : sess[s].is_linked}
  IN /\ \A s \in Sessions \ linked, c \in Cores : Times(s, c) = 0
     /\ \A s \in linked :
          \E c \in Cores : Times(s, c) = 1 /\ \A d \in Cores \ {c} : Times(s, d) = 0
     /\ num_drained = Cardinality(linked) + IF ctl.pc = "popped" THEN 1 ELSE 0

\* srpc_update_credit divides by the number of sessions it read, which other
\* sessions may be decrementing: it is never zero.
DivisorPositive ==
  \A s \in Sessions : snd[s].pc = "update" => snd[s].nsess > 0

\* The lock of a drained list and the lock of the session at its tail are never
\* waited for in a circle.  The controller takes the list's lock first,
\* srpc_remove_from_drained_list is called with the session's lock held.
NoLockCycle ==
  ctl.pc = "tail" /\ list_h[CtlCore] # <<>> =>
    LET s == list_h[CtlCore][Len(list_h[CtlCore])]
    IN ~ /\ \/ rcv[s].pc \in {"unlink", "finunlink"}
            \/ snd[s].pc \in {"unlink", "exitunlink"}
         /\ sess[s].drained_core = CtlCore

\* Nothing runs and nothing is on its way: only a client can act.
Quiet ==
  /\ ctl.pc = "idle"
  /\ \A s \in Sessions : /\ snd[s].pc = "parked" /\ rcv[s].pc = "read"
                         /\ sess[s].running + sess[s].late = 0
                         /\ c2s[s] = <<>> /\ s2c[s] = <<>>

\* wakeup_drained_session "wakes up drained session which will send explicit
\* credit if there is available credit in credit pool": the server never comes
\* to rest with credit in the pool, a session with queued requests in a drained
\* list, and no client that holds a credit.  Nothing would ever run the
\* controller again.
NeverStalls ==
  ~ /\ Quiet /\ credit_used < credit_pool
    /\ \A s \in Sessions : cl[s].used >= cl[s].credit
    /\ {s \in Sessions : sess[s].is_linked /\ cl[s].queue > 0} # {}

\* BUG_ON(s->credit > 0) of wakeup_drained_session never fires.
NeverWokenWithCredit == bug # "woken with credit"

\* "assert(atomic_read(&srpc_credit_used) == 0)": once the last session is gone,
\* every credit that was charged has been given back.
CreditsReturned == bug # "credit still used"

=============================================================================
