---------------------------- MODULE PccController ----------------------------
(***************************************************************************)
(* srpc_update_credit_pool of pcc_server.c: the state machine that runs    *)
(* two microexperiments with the credit pool moved by epsilon and then     *)
(* decides where to move it.  It is run, one thread at a time              *)
(* (srpc_pcc_lock), by threads that have completed or dropped a request.   *)
(* Receivers and workers feed its statistics without that lock: each reads *)
(* the identifier of the running microexperiment, checks it again, and     *)
(* increments a counter, in separate steps.                                *)
(*                                                                         *)
(* Clocks are abstracted: a run of the controller may or may not come too  *)
(* early for the next transition, and the comparison of the two utilities, *)
(* quotients of a count and a duration, may come out either way.           *)
(* srpc_credit_used is any value the senders may have left there.  The     *)
(* wake-up of drained sessions at the end of a run is module PccServer.    *)
(***************************************************************************)
EXTENDS Integers, FiniteSets

CONSTANTS Requests,      \* requests in the server at a time
          MaxCores,      \* runtime_max_cores()
          MinSess,       \* sessions there from the start that never close:
                         \* 0 is the program, more is a part of its behaviours
          MaxSess,       \* bound on srpc_num_sess
          WindowSize,    \* 1 << SPCC_MAX_WINDOW_EXP
          PerturbCb,     \* SPCC_MICRO_EXP_PERTURB_CB
          Strict,        \* SPCC_MICRO_EXP_STRICT_LABELLING
          CompDirs,      \* what spcc_comp_util_fn may return
          MaxCount       \* bound on the statistics counters

ASSUME SessAssumption ==
  /\ MinSess \in Nat /\ MaxSess \in Nat \ {0} /\ MinSess <= MaxSess
ASSUME PoolAssumption ==
  /\ MaxCores \in Nat \ {0} /\ WindowSize \in Nat \ {0}
  /\ MaxCores <= MaxSess * WindowSize
ASSUME FlagsAssumption ==
  /\ PerturbCb \in BOOLEAN /\ Strict \in BOOLEAN
  /\ CompDirs \subseteq {"plus", "minus", "stay"} /\ CompDirs # {}
ASSUME CountAssumption == MaxCount \in Nat \ {0}

VARIABLES pcc_state, credit_pool, orig_cp,
          micro_exp_id, num_micro_exps,
          first_dir,             \* srpc_pcc_micro_exp_dirs[1]
          in_reqs, answers,      \* out_resps and drop_reqs together
          req,                   \* the requests, each with its c->opaque
          num_sess,
          resets                 \* sessions gone that have not yet looked
                                 \* whether they were the last one

machine == <<pcc_state, orig_cp, micro_exp_id, num_micro_exps, first_dir>>
stats == <<in_reqs, answers>>
sessions == <<num_sess, resets>>
vars == <<machine, credit_pool, stats, req, sessions>>

MaxExps == 2            \* SPCC_MAX_NUM_MICRO_EXPS
Epsilon == 1            \* SPCC_EPSILON
ExpIds == 0 .. MaxExps
Exps == 1 .. MaxExps    \* entry 0 of the statistics is never read

States == {"PREPARE_MICRO_EXP", "START_MICRO_EXP", "END_MICRO_EXP",
           "MAKE_DECISION"}

NoReq == [pc |-> "none", id |-> 0]

\* srpc_pcc_gen_micro_exp_dirs: the second direction is opposite to the first.
Dir(i) == IF i = 1 THEN first_dir ELSE - first_dir

Init ==
  /\ pcc_state = "PREPARE_MICRO_EXP"
  /\ credit_pool = MaxCores /\ orig_cp = MaxCores
  /\ micro_exp_id = 0 /\ num_micro_exps = 0
  /\ first_dir \in {-1, 1}
  /\ in_reqs = [i \in Exps |-> 0] /\ answers = [i \in Exps |-> 0]
  /\ req = [r \in Requests |-> NoReq]
  /\ num_sess = MinSess /\ resets = 0

-----------------------------------------------------------------------------
(* The credit pool.                                                        *)

\* Variants of Clamp with one of the two bounds forgotten.
ClampToCores(p) == IF p < MaxCores THEN MaxCores ELSE p
ClampToWindows(p) ==
  IF p > num_sess * WindowSize THEN num_sess * WindowSize ELSE p

\* MAX(., runtime_max_cores()), then MIN(., num_sess << SPCC_MAX_WINDOW_EXP)
Clamp(p) ==
  LET q == IF p < MaxCores THEN MaxCores ELSE p
  IN IF q > num_sess * WindowSize THEN num_sess * WindowSize ELSE q

\* update_credit_pool; incr_credit_pool is dir = 1, decr_credit_pool dir = -1.
UpdatedPool(dir) == Clamp(credit_pool + dir * Epsilon)

-----------------------------------------------------------------------------
(* The four states.                                                        *)

PrepareMicroExp ==
  /\ pcc_state = "PREPARE_MICRO_EXP"
  /\ credit_pool' = IF PerturbCb THEN UpdatedPool(Dir(num_micro_exps + 1))
                    ELSE credit_pool
  /\ pcc_state' = "START_MICRO_EXP"
  /\ UNCHANGED <<orig_cp, micro_exp_id, num_micro_exps, first_dir, stats>>

StartMicroExp ==
  LET i == num_micro_exps + 1 IN
  /\ pcc_state = "START_MICRO_EXP"
  /\ in_reqs' = [in_reqs EXCEPT ![i] = 0]
  /\ answers' = [answers EXCEPT ![i] = 0]
  /\ micro_exp_id' = i
  /\ pcc_state' = "END_MICRO_EXP"
  /\ UNCHANGED <<credit_pool, orig_cp, num_micro_exps, first_dir>>

\* "Reset the rate", after the last microexperiment.
RateAfter(n) == IF n = MaxExps /\ PerturbCb THEN orig_cp ELSE credit_pool

EndCounted(n) ==
  /\ pcc_state = "END_MICRO_EXP"
  /\ num_micro_exps' = n
  /\ credit_pool' = RateAfter(n)
  /\ pcc_state' = IF n < MaxExps THEN "PREPARE_MICRO_EXP" ELSE "MAKE_DECISION"
  /\ UNCHANGED <<orig_cp, first_dir, stats>>

\* Variant: the microexperiment is not stopped.
EndNotStopped == EndCounted(num_micro_exps + 1) /\ UNCHANGED micro_exp_id

EndMicroExp == EndCounted(num_micro_exps + 1) /\ micro_exp_id' = 0

PlusExp == IF first_dir = 1 THEN 1 ELSE 2
MinusExp == IF first_dir = -1 THEN 1 ELSE 2

Inconclusive == Strict /\ in_reqs[PlusExp] <= in_reqs[MinusExp]

\* update_dir.  With equal, nonzero loads it is used without having been
\* assigned: any value of the enumeration, or none of them.
Directions ==
  IF in_reqs[1] = 0 \/ in_reqs[2] = 0 THEN {"plus"}
  ELSE IF in_reqs[1] # in_reqs[2] THEN CompDirs
  ELSE {"plus", "minus", "stay", "invalid"}

\* The new pool; exhausted is credit_used >= new_cp.
Decision(dir, exhausted) ==
  CASE dir = "minus" -> UpdatedPool(-1)
    [] dir = "stay" -> IF exhausted THEN credit_pool ELSE UpdatedPool(-1)
    [] dir = "plus" -> UpdatedPool(IF exhausted THEN 1 ELSE -1)
    [] dir = "invalid" -> credit_pool

\* Variant: the decision is not taken over as the original of the next round.
OriginalKept(cp) == orig_cp

\* srpc_pcc_orig_cp = new_cp
NewOriginal(cp) == cp

MakeDecision ==
  /\ pcc_state = "MAKE_DECISION"
  /\ \/ Inconclusive /\ credit_pool' = credit_pool
     \/ /\ ~ Inconclusive
        /\ \E dir \in Directions, exhausted \in BOOLEAN :
             credit_pool' = Decision(dir, exhausted)
  /\ orig_cp' = NewOriginal(credit_pool')
  /\ num_micro_exps' = 0 /\ micro_exp_id' = 0
  /\ first_dir' \in {-1, 1}
  /\ pcc_state' = "PREPARE_MICRO_EXP"
  /\ UNCHANGED stats

-----------------------------------------------------------------------------
(* The threads that feed the statistics.                                   *)

\* A counter at its bound stays there.
Counted(f, i) ==
  IF i = 0 THEN f ELSE [f EXCEPT ![i] = IF @ < MaxCount THEN @ + 1 ELSE @]

\* Requests that keep the receiver thread of their session busy, and those that
\* a session waits for before it is freed.
Receiving == {r \in Requests : req[r].pc \in {"read", "counting", "aqm",
                                                "dropped", "dropping"}}
InSlots == {r \in Requests : req[r].pc \notin {"none", "control"}}

\* srpc_recv_one reads the identifier that the request will carry ...
RecvRead(r) ==
  /\ req[r].pc = "none" /\ Cardinality(Receiving) < num_sess
  /\ req' = [req EXCEPT ![r] = [pc |-> "read", id |-> micro_exp_id]]
  /\ UNCHANGED <<machine, credit_pool, stats, sessions>>

\* ... checks it against the running microexperiment ...
RecvCheck(r) ==
  /\ req[r].pc = "read"
  /\ \/ micro_exp_id = req[r].id /\ req' = [req EXCEPT ![r].pc = "counting"]
     \/ /\ micro_exp_id # req[r].id
        /\ \E pc \in {"served", "aqm", "dropped"} : req' = [req EXCEPT ![r].pc = pc]
  /\ UNCHANGED <<machine, credit_pool, stats, sessions>>

\* ... and counts the request, which is then served by a worker, or dropped
\* for want of a slot or by AQM.
RecvCount(r) ==
  /\ req[r].pc = "counting"
  /\ in_reqs' = Counted(in_reqs, req[r].id)
  /\ \E pc \in {"served", "aqm", "dropped"} : req' = [req EXCEPT ![r].pc = pc]
  /\ UNCHANGED <<machine, credit_pool, answers, sessions>>

Leave(r, pc) ==
  req' = [req EXCEPT ![r] = IF pc = "none" THEN NoReq ELSE [@ EXCEPT !.pc = pc]]

\* The answer is counted if the identifier is that of the running
\* microexperiment.  A worker then runs the controller.
After(r) == IF req[r].pc \in {"served", "serving"} THEN "control" ELSE "none"

AnswerCheck(r) ==
  /\ req[r].pc \in {"served", "dropped"}
  /\ Leave(r, IF micro_exp_id # req[r].id THEN After(r)
              ELSE IF req[r].pc = "served" THEN "serving" ELSE "dropping")
  /\ UNCHANGED <<machine, credit_pool, stats, sessions>>

AnswerCount(r) ==
  /\ req[r].pc \in {"serving", "dropping"}
  /\ answers' = Counted(answers, req[r].id)
  /\ Leave(r, After(r))
  /\ UNCHANGED <<machine, credit_pool, in_reqs, sessions>>

Controlled(r) == Leave(r, IF req[r].pc = "control" THEN "none" ELSE "dropped")

\* A run of srpc_update_credit_pool: by a worker as the last thing it does, by a
\* receiver before it counts an AQM drop.
Control(r) ==
  /\ req[r].pc \in {"control", "aqm"}
  /\ PrepareMicroExp \/ StartMicroExp \/ EndMicroExp \/ MakeDecision
  /\ Controlled(r)
  /\ UNCHANGED sessions

\* srpc_pcc_lock is taken, or it is too early for the next transition.
NoControl(r) ==
  /\ req[r].pc \in {"control", "aqm"}
  /\ Controlled(r)
  /\ UNCHANGED <<machine, credit_pool, stats, sessions>>

-----------------------------------------------------------------------------
(* Sessions come and go: srpc_server.                                      *)

SessOpen ==
  /\ num_sess + resets < MaxSess
  /\ num_sess' = num_sess + 1
  /\ UNCHANGED <<machine, credit_pool, stats, req, resets>>

SessClose ==
  /\ num_sess > MinSess /\ num_sess > Cardinality(Receiving)
  /\ num_sess' = num_sess - 1
  /\ resets' = resets + 1
  /\ UNCHANGED <<machine, credit_pool, stats, req>>

\* "initialize credits", without srpc_pcc_lock, once the sender of the session
\* has seen every slot come back.
SessReset ==
  /\ resets > 0 /\ (resets = 1 /\ num_sess = 0 => InSlots = {})
  /\ resets' = resets - 1
  /\ credit_pool' = IF num_sess = 0 THEN MaxCores ELSE credit_pool
  /\ UNCHANGED <<machine, stats, req, num_sess>>

-----------------------------------------------------------------------------

Next ==
  \/ \E r \in Requests :
       \/ RecvRead(r) \/ RecvCheck(r) \/ RecvCount(r)
       \/ AnswerCheck(r) \/ AnswerCount(r) \/ Control(r) \/ NoControl(r)
  \/ SessOpen \/ SessClose \/ SessReset

Spec == Init /\ [][Next]_vars

-----------------------------------------------------------------------------
(* Properties.                                                             *)

ReqPcs == {"none", "read", "counting", "served", "serving", "dropped",
           "dropping", "aqm", "control"}

\* Every variable stays in its range; the credit pool never exceeds the windows
\* of all sessions, although the value it is reset to was clamped long before.
TypeOK ==
  /\ pcc_state \in States
  /\ credit_pool \in 0 .. MaxSess * WindowSize
  /\ orig_cp \in 0 .. MaxSess * WindowSize
  /\ micro_exp_id \in ExpIds /\ num_micro_exps \in ExpIds
  /\ first_dir \in {-1, 1}
  /\ in_reqs \in [Exps -> Nat] /\ answers \in [Exps -> Nat]
  /\ req \in [Requests -> [pc : ReqPcs, id : ExpIds]]
  /\ num_sess \in MinSess .. MaxSess /\ resets \in 0 .. MaxSess

\* One credit for every core: always, if the windows of the sessions that stay
\* are worth that many; if the window of one session is, all or nothing.
ServesCores(p) ==
  /\ MaxCores <= MinSess * WindowSize => p >= MaxCores
  /\ MaxCores <= WindowSize => p = 0 \/ p >= MaxCores

\* Perturbing, resetting and deciding never leave the pool, or the value it will
\* be reset to, between nothing and one credit for every core, while sessions
\* come and go.  Nothing is what the upper clamp makes of a run of the controller
\* by a worker that outlives the last session.
PoolServesCores == ServesCores(credit_pool) /\ ServesCores(orig_cp)

\* The asserts srpc_pcc_num_micro_exps < SPCC_MAX_NUM_MICRO_EXPS hold, and the
\* identifier that receivers and workers read is nonzero exactly while the
\* microexperiment of that number runs.
ExperimentsInOrder ==
  /\ pcc_state # "MAKE_DECISION" => num_micro_exps < MaxExps
  /\ micro_exp_id = IF pcc_state = "END_MICRO_EXP" THEN num_micro_exps + 1 ELSE 0

\* What makes the three inductive: closing sessions are still counted in
\* MaxSess.
SessionsBounded == num_sess + resets <= MaxSess

IInv == TypeOK /\ PoolServesCores /\ ExperimentsInOrder /\ SessionsBounded

\* "The original credit pool value, before we start performing the
\* microexperiments": a round starts and a decision is made with that value in
\* force, or with the one that the last session to close put there, without
\* srpc_pcc_lock, at any point of the round; never with a perturbed one.
DecidesFromKnownPool ==
  \/ pcc_state = "MAKE_DECISION"
  \/ pcc_state = "PREPARE_MICRO_EXP" /\ num_micro_exps = 0
  => credit_pool \in {orig_cp, MaxCores}

\* Where the pool is relative to the original while sessions neither come nor go:
\* the first microexperiment moves it one way, the second one back from there,
\* and the clamps may have swallowed either move.
Perturbed(n) ==
  LET one == Clamp(orig_cp + first_dir * Epsilon)
  IN IF n = 0 THEN orig_cp
     ELSE IF n = 1 THEN one ELSE Clamp(one - first_dir * Epsilon)

PerturbedPool ==
  credit_pool =
    IF ~ PerturbCb \/ pcc_state = "MAKE_DECISION" THEN orig_cp
    ELSE IF pcc_state = "PREPARE_MICRO_EXP" THEN Perturbed(num_micro_exps)
    ELSE Perturbed(num_micro_exps + 1)

\* While no session comes or goes, no run of the controller moves the pool by
\* more than epsilon, the reset at the end of a round included.
PoolMovesByEpsilon ==
  [][credit_pool' - credit_pool \in {- Epsilon, 0, Epsilon}]_vars

\* "If the microexperiment associated with this request is still running, then
\* update the performance stats for the microexperiment": no microexperiment
\* counts more answers than it counted requests.
AnswersAreItsOwn == \A i \in Exps : answers[i] <= in_reqs[i]
=============================================================================
