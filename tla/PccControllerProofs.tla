------------------------- MODULE PccControllerProofs -------------------------
(***************************************************************************)
(* PccController for every number of requests, cores and sessions, every   *)
(* window and every setting of the flags.                                  *)
(***************************************************************************)
EXTENDS PccController, TLAPS

\* The windows of more sessions are worth at least as many credits.
LEMMA WindowsMonotone ==
  ASSUME NEW a \in Nat, NEW b \in Nat, a <= b
  PROVE  a * WindowSize \in Nat /\ a * WindowSize <= b * WindowSize
<1>1. WindowSize \in Nat
  BY PoolAssumption
<1>2. b - a \in Nat /\ (b - a) * WindowSize >= 0
  BY <1>1, SMT
<1>3. b * WindowSize - a * WindowSize = (b - a) * WindowSize
  BY <1>1, SMT
<1> QED
  BY <1>1, <1>2, <1>3, SMT

\* The clamps of update_credit_pool leave a value within the windows of the
\* sessions, and not below the number of cores if the windows allow it.
LEMMA ClampRange ==
  ASSUME TypeOK, NEW p \in Int
  PROVE  Clamp(p) \in 0 .. MaxSess * WindowSize /\ ServesCores(Clamp(p))
<1>1. /\ num_sess \in Nat /\ num_sess <= MaxSess /\ MinSess <= num_sess
      /\ MaxSess \in Nat /\ MinSess \in Nat /\ MaxCores \in Nat /\ MaxCores > 0
      /\ WindowSize \in Nat
  BY SessAssumption, PoolAssumption DEF TypeOK
<1>2. /\ num_sess * WindowSize \in Nat
      /\ num_sess * WindowSize <= MaxSess * WindowSize
  BY <1>1, WindowsMonotone
<1>3. /\ MinSess * WindowSize \in Nat /\ MaxSess * WindowSize \in Nat
      /\ MinSess * WindowSize <= num_sess * WindowSize
  BY <1>1, WindowsMonotone
<1>4. num_sess * WindowSize = 0 \/ WindowSize <= num_sess * WindowSize
  <2>1. CASE num_sess = 0
    BY <1>1, <2>1
  <2>2. CASE num_sess # 0
    <3>1. 1 * WindowSize <= num_sess * WindowSize /\ 1 * WindowSize = WindowSize
      BY <1>1, <2>2, WindowsMonotone
    <3> QED
      BY <3>1
  <2> QED
    BY <2>1, <2>2
<1> DEFINE K == num_sess * WindowSize
           L == MinSess * WindowSize
           M == MaxSess * WindowSize
<1>5. /\ K \in Nat /\ L \in Nat /\ M \in Nat /\ L <= K /\ K <= M
      /\ K = 0 \/ WindowSize <= K
  BY <1>2, <1>3, <1>4
<1>6. Clamp(p) = LET q == IF p < MaxCores THEN MaxCores ELSE p
                 IN IF q > K THEN K ELSE q
  BY DEF Clamp
<1> HIDE DEF K, L, M
<1>7. /\ Clamp(p) \in 0 .. M
      /\ MaxCores <= L => Clamp(p) >= MaxCores
      /\ MaxCores <= WindowSize => Clamp(p) = 0 \/ Clamp(p) >= MaxCores
  BY <1>1, <1>5, <1>6
<1> QED
  BY <1>7 DEF L, M, ServesCores

\* A decision leaves a pool in the same range as the one it started from.
LEMMA DecisionRange ==
  ASSUME TypeOK, PoolServesCores, NEW dir \in {"plus", "minus", "stay", "invalid"},
         NEW exhausted \in BOOLEAN
  PROVE  /\ Decision(dir, exhausted) \in 0 .. MaxSess * WindowSize
         /\ ServesCores(Decision(dir, exhausted))
<1>1. credit_pool \in Int /\ credit_pool + 1 * Epsilon \in Int
        /\ credit_pool + (-1) * Epsilon \in Int
  BY DEF TypeOK, Epsilon
<1>2. /\ UpdatedPool(1) \in 0 .. MaxSess * WindowSize
      /\ UpdatedPool(-1) \in 0 .. MaxSess * WindowSize
      /\ ServesCores(UpdatedPool(1)) /\ ServesCores(UpdatedPool(-1))
  BY <1>1, ClampRange DEF UpdatedPool
<1>3. credit_pool \in 0 .. MaxSess * WindowSize /\ ServesCores(credit_pool)
  BY DEF TypeOK, PoolServesCores
<1>4. Decision(dir, exhausted) \in {credit_pool, UpdatedPool(1), UpdatedPool(-1)}
  BY DEF Decision
<1> QED
  BY <1>2, <1>3, <1>4

LEMMA DirectionsRange == Directions \subseteq {"plus", "minus", "stay", "invalid"}
BY FlagsAssumption DEF Directions

-----------------------------------------------------------------------------
(* The inductive invariant.                                                *)

LEMMA InitIInv == Init => IInv
<1> SUFFICES ASSUME Init PROVE IInv
  OBVIOUS
<1>1. /\ MaxCores \in 0 .. MaxSess * WindowSize
      /\ MinSess \in MinSess .. MaxSess /\ MinSess + 0 <= MaxSess
      /\ 0 \in 0 .. MaxSess
  BY SessAssumption, PoolAssumption, WindowsMonotone
<1>2. TypeOK
  BY <1>1 DEF Init, TypeOK, States, ExpIds, MaxExps, Exps, ReqPcs, NoReq
<1>3. PoolServesCores
  BY PoolAssumption DEF Init, PoolServesCores, ServesCores
<1>4. ExperimentsInOrder /\ SessionsBounded
  BY <1>1 DEF Init, ExperimentsInOrder, MaxExps, SessionsBounded
<1> QED
  BY <1>2, <1>3, <1>4 DEF IInv

\* The requests keep their type whatever label they move to.
LEMMA LeaveType ==
  ASSUME TypeOK, NEW r \in Requests, NEW pc \in ReqPcs, Leave(r, pc)
  PROVE  req' \in [Requests -> [pc : ReqPcs, id : ExpIds]]
BY DEF TypeOK, Leave, NoReq, ReqPcs, ExpIds, MaxExps

LEMMA CountedType ==
  ASSUME NEW f \in [Exps -> Nat], NEW i \in ExpIds
  PROVE  Counted(f, i) \in [Exps -> Nat]
BY DEF Counted, ExpIds, Exps, MaxExps

\* The steps of the state machine keep the part of the invariant they touch.
LEMMA MachineStep ==
  ASSUME IInv, PrepareMicroExp \/ StartMicroExp \/ EndMicroExp \/ MakeDecision
  PROVE  /\ pcc_state' \in States
         /\ credit_pool' \in 0 .. MaxSess * WindowSize
         /\ orig_cp' \in 0 .. MaxSess * WindowSize
         /\ micro_exp_id' \in ExpIds /\ num_micro_exps' \in ExpIds
         /\ first_dir' \in {-1, 1}
         /\ in_reqs' \in [Exps -> Nat] /\ answers' \in [Exps -> Nat]
         /\ PoolServesCores' /\ ExperimentsInOrder'
<1> USE DEF IInv
<1>1. CASE PrepareMicroExp
  <2>1. credit_pool + Dir(num_micro_exps + 1) * Epsilon \in Int
    BY DEF TypeOK, Dir, Epsilon
  <2>2. /\ credit_pool' \in 0 .. MaxSess * WindowSize
        /\ ServesCores(credit_pool')
    BY <1>1, <2>1, ClampRange
       DEF PrepareMicroExp, UpdatedPool, TypeOK, PoolServesCores
  <2>3. PoolServesCores'
    BY <1>1, <2>2 DEF PrepareMicroExp, PoolServesCores
  <2>4. ExperimentsInOrder'
    BY <1>1 DEF PrepareMicroExp, ExperimentsInOrder
  <2> QED
    BY <1>1, <2>2, <2>3, <2>4 DEF PrepareMicroExp, TypeOK, States, stats
<1>2. CASE StartMicroExp
  <2>1. num_micro_exps + 1 \in Exps /\ num_micro_exps + 1 \in ExpIds
    BY <1>2 DEF StartMicroExp, TypeOK, ExperimentsInOrder, Exps, ExpIds, MaxExps
  <2>2. in_reqs' \in [Exps -> Nat] /\ answers' \in [Exps -> Nat]
    BY <1>2 DEF StartMicroExp, TypeOK
  <2>3. PoolServesCores' /\ ExperimentsInOrder'
    BY <1>2 DEF StartMicroExp, PoolServesCores, ExperimentsInOrder
  <2> QED
    BY <1>2, <2>1, <2>2, <2>3 DEF StartMicroExp, TypeOK, States
<1>3. CASE EndMicroExp
  <2>1. num_micro_exps \in {0, 1}
    BY <1>3 DEF EndMicroExp, EndCounted, TypeOK, ExperimentsInOrder, ExpIds,
                MaxExps
  <2>2. credit_pool' \in {orig_cp, credit_pool}
    BY <1>3 DEF EndMicroExp, EndCounted, RateAfter
  <2>3. PoolServesCores'
    BY <1>3, <2>2 DEF EndMicroExp, EndCounted, PoolServesCores
  <2>4. ExperimentsInOrder'
    BY <1>3, <2>1 DEF EndMicroExp, EndCounted, ExperimentsInOrder, MaxExps
  <2> QED
    BY <1>3, <2>1, <2>2, <2>3, <2>4
       DEF EndMicroExp, EndCounted, TypeOK, States, ExpIds, MaxExps, stats
<1>4. CASE MakeDecision
  <2>1. \/ credit_pool' = credit_pool
        \/ \E dir \in Directions, exhausted \in BOOLEAN :
             credit_pool' = Decision(dir, exhausted)
    BY <1>4 DEF MakeDecision
  <2>2. /\ credit_pool' \in 0 .. MaxSess * WindowSize
        /\ ServesCores(credit_pool')
    <3>1. CASE credit_pool' = credit_pool
      BY <3>1 DEF TypeOK, PoolServesCores
    <3>2. ASSUME NEW dir \in Directions, NEW exhausted \in BOOLEAN,
                 credit_pool' = Decision(dir, exhausted)
          PROVE  /\ credit_pool' \in 0 .. MaxSess * WindowSize
                 /\ ServesCores(credit_pool')
      BY <3>2, DecisionRange, DirectionsRange
    <3> QED
      BY <2>1, <3>1, <3>2
  <2>3. orig_cp' = credit_pool'
    BY <1>4 DEF MakeDecision, NewOriginal
  <2>4. PoolServesCores'
    BY <2>2, <2>3 DEF PoolServesCores
  <2>5. ExperimentsInOrder'
    BY <1>4 DEF MakeDecision, ExperimentsInOrder, MaxExps
  <2> QED
    BY <1>4, <2>2, <2>3, <2>4, <2>5
       DEF MakeDecision, TypeOK, States, ExpIds, MaxExps, stats
<1> QED
  BY <1>1, <1>2, <1>3, <1>4

LEMMA StepIInv == IInv /\ [Next]_vars => IInv'
<1> SUFFICES ASSUME IInv, [Next]_vars PROVE IInv'
  OBVIOUS
<1> USE DEF IInv
<1>1. ASSUME NEW r \in Requests,
             RecvRead(r) \/ RecvCheck(r) \/ RecvCount(r)
      PROVE  IInv'
  <2>1. req' \in [Requests -> [pc : ReqPcs, id : ExpIds]]
    BY <1>1 DEF RecvRead, RecvCheck, RecvCount, TypeOK, ReqPcs
  <2>2. in_reqs' \in [Exps -> Nat] /\ answers' \in [Exps -> Nat]
    <3>1. req[r].id \in ExpIds
      BY DEF TypeOK
    <3> QED
      BY <1>1, <3>1, CountedType DEF RecvRead, RecvCheck, RecvCount, TypeOK, stats
  <2>3. UNCHANGED <<machine, credit_pool, sessions>>
    BY <1>1 DEF RecvRead, RecvCheck, RecvCount
  <2> QED
    BY <2>1, <2>2, <2>3 DEF TypeOK, PoolServesCores, ExperimentsInOrder,
                            SessionsBounded, machine, sessions
<1>2. ASSUME NEW r \in Requests, AnswerCheck(r) \/ AnswerCount(r) \/ NoControl(r)
      PROVE  IInv'
  <2>1. req' \in [Requests -> [pc : ReqPcs, id : ExpIds]]
    BY <1>2, LeaveType
       DEF AnswerCheck, AnswerCount, NoControl, Controlled, After, ReqPcs
  <2>2. in_reqs' \in [Exps -> Nat] /\ answers' \in [Exps -> Nat]
    <3>1. req[r].id \in ExpIds
      BY DEF TypeOK
    <3> QED
      BY <1>2, <3>1, CountedType
         DEF AnswerCheck, AnswerCount, NoControl, TypeOK, stats
  <2>3. UNCHANGED <<machine, credit_pool, sessions>>
    BY <1>2 DEF AnswerCheck, AnswerCount, NoControl
  <2> QED
    BY <2>1, <2>2, <2>3 DEF TypeOK, PoolServesCores, ExperimentsInOrder,
                            SessionsBounded, machine, sessions
<1>3. ASSUME NEW r \in Requests, Control(r)
      PROVE  IInv'
  <2>1. req' \in [Requests -> [pc : ReqPcs, id : ExpIds]]
    BY <1>3, LeaveType DEF Control, Controlled, ReqPcs
  <2>2. UNCHANGED sessions
    BY <1>3 DEF Control
  <2>3. SessionsBounded' /\ num_sess' \in MinSess .. MaxSess
          /\ resets' \in 0 .. MaxSess
    BY <2>2 DEF sessions, SessionsBounded, TypeOK
  <2> QED
    BY <1>3, <2>1, <2>3, MachineStep DEF Control, TypeOK
<1>4. CASE SessOpen
  BY <1>4, SessAssumption
     DEF SessOpen, TypeOK, PoolServesCores, ExperimentsInOrder, SessionsBounded,
         machine, stats
<1>5. CASE SessClose
  BY <1>5, SessAssumption
     DEF SessClose, TypeOK, PoolServesCores, ExperimentsInOrder, SessionsBounded,
         machine, stats
<1>6. CASE SessReset
  <2>1. MaxCores \in 0 .. MaxSess * WindowSize /\ ServesCores(MaxCores)
    BY PoolAssumption, SessAssumption, WindowsMonotone DEF ServesCores
  <2>2. /\ credit_pool' \in 0 .. MaxSess * WindowSize
        /\ ServesCores(credit_pool')
    BY <1>6, <2>1 DEF SessReset, TypeOK, PoolServesCores
  <2>3. resets' \in 0 .. MaxSess /\ SessionsBounded'
    BY <1>6, SessAssumption DEF SessReset, TypeOK, SessionsBounded
  <2> QED
    BY <1>6, <2>2, <2>3
       DEF SessReset, TypeOK, PoolServesCores, ExperimentsInOrder, machine, stats
<1>7. CASE UNCHANGED vars
  BY <1>7 DEF TypeOK, PoolServesCores, ExperimentsInOrder, SessionsBounded,
              vars, machine, stats, sessions
<1> QED
  BY <1>1, <1>2, <1>3, <1>4, <1>5, <1>6, <1>7 DEF Next

\* TypeOK, PoolServesCores and ExperimentsInOrder, with what makes them inductive.
THEOREM Invariance == Spec => []IInv
BY InitIInv, StepIInv, PTL DEF Spec

\* The pool never exceeds the windows of the sessions srpc_num_sess may count.
THEOREM TypeCorrect == Spec => []TypeOK
<1>1. IInv => TypeOK
  BY DEF IInv
<1> QED
  BY <1>1, Invariance, PTL

\* srpc_update_credit_pool never leaves fewer credits than cores while the
\* sessions that stay have windows for them; if sessions may all go, but one
\* window covers the cores, it leaves either none or enough.
THEOREM CoresServed == Spec => []PoolServesCores
<1>1. IInv => PoolServesCores
  BY DEF IInv
<1> QED
  BY <1>1, Invariance, PTL

\* The two asserts of srpc_update_credit_pool hold, and the identifier receivers
\* and workers read names the microexperiment that runs.
THEOREM AssertsHold == Spec => []ExperimentsInOrder
<1>1. IInv => ExperimentsInOrder
  BY DEF IInv
<1> QED
  BY <1>1, Invariance, PTL

-----------------------------------------------------------------------------
(* The original pool.  It, or the pool that the last session initialized, is *)
(* in force between rounds and when the decision is made; without           *)
(* perturbation always.                                                     *)

PoolKnown ==
  DecidesFromKnownPool /\ (~ PerturbCb => credit_pool \in {orig_cp, MaxCores})

LEMMA PoolKnownStep ==
  ASSUME IInv, PoolKnown, [Next]_vars
  PROVE  PoolKnown'
<1> USE DEF PoolKnown
<1>1. ASSUME NEW r \in Requests,
             RecvRead(r) \/ RecvCheck(r) \/ RecvCount(r) \/ AnswerCheck(r)
               \/ AnswerCount(r) \/ NoControl(r)
      PROVE  PoolKnown'
  BY <1>1 DEF RecvRead, RecvCheck, RecvCount, AnswerCheck, AnswerCount,
              NoControl, DecidesFromKnownPool, machine
<1>2. ASSUME NEW r \in Requests, Control(r)
      PROVE  PoolKnown'
  <2>1. CASE PrepareMicroExp
    BY <2>1 DEF PrepareMicroExp, DecidesFromKnownPool
  <2>2. CASE StartMicroExp
    BY <2>2 DEF StartMicroExp, DecidesFromKnownPool
  <2>3. CASE EndMicroExp
    <3>1. num_micro_exps \in {0, 1}
      BY <2>3 DEF EndMicroExp, EndCounted, IInv, TypeOK, ExperimentsInOrder,
                  ExpIds, MaxExps
    <3> QED
      BY <2>3, <3>1, FlagsAssumption
         DEF EndMicroExp, EndCounted, RateAfter, DecidesFromKnownPool, MaxExps
  <2>4. CASE MakeDecision
    BY <2>4 DEF MakeDecision, NewOriginal, DecidesFromKnownPool
  <2> QED
    BY <1>2, <2>1, <2>2, <2>3, <2>4 DEF Control
<1>3. CASE SessOpen \/ SessClose
  BY <1>3 DEF SessOpen, SessClose, DecidesFromKnownPool, machine
<1>4. CASE SessReset
  BY <1>4 DEF SessReset, DecidesFromKnownPool, machine
<1>5. CASE UNCHANGED vars
  BY <1>5 DEF vars, machine, DecidesFromKnownPool
<1> QED
  BY <1>1, <1>2, <1>3, <1>4, <1>5 DEF Next

\* Sessions may come and go, and the last one may initialize the pool in the
\* middle of a round: srpc_update_credit_pool still decides from the pool that
\* was in force before the round, or from the initial one.
THEOREM KnownPoolInForce == Spec => []DecidesFromKnownPool
<1>1. Init => PoolKnown
  BY DEF Init, PoolKnown, DecidesFromKnownPool
<1>2. IInv /\ PoolKnown /\ [Next]_vars => PoolKnown'
  BY PoolKnownStep
<1>3. PoolKnown => DecidesFromKnownPool
  BY DEF PoolKnown
<1> QED
  BY <1>1, <1>2, <1>3, Invariance, PTL DEF Spec

-----------------------------------------------------------------------------
(* The pool moves by epsilon.                                              *)

\* A value within the clamps that is moved and moved back, clamped each time,
\* ends within epsilon of every value on the way.
LEMMA ClampNear ==
  ASSUME TypeOK, NEW o \in Int, NEW d \in {-1, 1},
         MaxCores <= o, o <= num_sess * WindowSize
  PROVE  /\ Clamp(o + d) \in Int
         /\ Clamp(o + d) - o \in {-1, 0, 1}
         /\ Clamp(Clamp(o + d) - d) \in Int
         /\ Clamp(Clamp(o + d) - d) - Clamp(o + d) \in {-1, 0, 1}
         /\ o - Clamp(Clamp(o + d) - d) \in {-1, 0, 1}
<1> DEFINE K == num_sess * WindowSize
<1>1. K \in Nat /\ MaxCores \in Nat /\ o <= K
  <2>1. num_sess \in Nat
    BY SessAssumption DEF TypeOK
  <2> QED
    BY <2>1, PoolAssumption, WindowsMonotone
<1>2. \A p \in Int : Clamp(p) = LET q == IF p < MaxCores THEN MaxCores ELSE p
                               IN IF q > K THEN K ELSE q
  BY DEF Clamp
<1> HIDE DEF K
<1>3. /\ Clamp(o + d) \in Int /\ MaxCores <= Clamp(o + d) /\ Clamp(o + d) <= K
      /\ Clamp(o + d) - o \in {-1, 0, 1}
  BY <1>1, <1>2
<1>4. Clamp(Clamp(o + d) - d) \in Int
  BY <1>1, <1>2, <1>3
<1>5. /\ Clamp(Clamp(o + d) - d) - Clamp(o + d) \in {-1, 0, 1}
      /\ o - Clamp(Clamp(o + d) - d) \in {-1, 0, 1}
  BY <1>1, <1>2, <1>3
<1> QED
  BY <1>3, <1>4, <1>5

\* The original pool is within the clamps, all sessions being open.
LEMMA OriginalClamped ==
  ASSUME MinSess = MaxSess, IInv
  PROVE  /\ orig_cp \in Int /\ MaxCores <= orig_cp
         /\ orig_cp <= num_sess * WindowSize
<1>1. num_sess = MaxSess
  BY SessAssumption DEF IInv, TypeOK
<1>2. MaxCores <= MinSess * WindowSize /\ MaxSess * WindowSize \in Nat
  BY PoolAssumption, SessAssumption, WindowsMonotone
<1> QED
  BY <1>1, <1>2 DEF IInv, TypeOK, PoolServesCores, ServesCores

LEMMA PerturbedValues ==
  ASSUME MinSess = MaxSess, IInv
  PROVE  /\ Perturbed(0) = orig_cp
         /\ Perturbed(1) = Clamp(orig_cp + first_dir)
         /\ Perturbed(2) = Clamp(Perturbed(1) - first_dir)
         /\ orig_cp \in Int /\ Perturbed(1) \in Int /\ Perturbed(2) \in Int
         /\ Perturbed(1) - orig_cp \in {-1, 0, 1}
         /\ Perturbed(2) - Perturbed(1) \in {-1, 0, 1}
         /\ orig_cp - Perturbed(2) \in {-1, 0, 1}
<1>1. first_dir * Epsilon = first_dir /\ first_dir \in {-1, 1}
  BY DEF IInv, TypeOK, Epsilon
<1>2. /\ Perturbed(0) = orig_cp
      /\ Perturbed(1) = Clamp(orig_cp + first_dir)
      /\ Perturbed(2) = Clamp(Perturbed(1) - first_dir)
  BY <1>1 DEF Perturbed
<1>3. TypeOK
  BY DEF IInv
<1> QED
  BY <1>1, <1>2, <1>3, OriginalClamped, ClampNear

\* One step of the system moves the pool by at most epsilon and leaves it where
\* the state machine says.
LEMMA PerturbedStep ==
  ASSUME MinSess = MaxSess, IInv, PerturbedPool, [Next]_vars
  PROVE  PerturbedPool' /\ credit_pool' - credit_pool \in {- Epsilon, 0, Epsilon}
<1>0. credit_pool \in Int /\ num_micro_exps \in {0, 1, 2} /\ Epsilon = 1
  BY DEF IInv, TypeOK, ExpIds, MaxExps, Epsilon
<1>1. ASSUME UNCHANGED <<machine, credit_pool, num_sess>>
      PROVE  PerturbedPool' /\ credit_pool' - credit_pool \in {- Epsilon, 0, Epsilon}
  <2>1. UNCHANGED <<Perturbed(num_micro_exps), Perturbed(num_micro_exps + 1)>>
    BY <1>1 DEF Perturbed, Clamp, machine
  <2>2. PerturbedPool'
    BY <1>1, <2>1 DEF PerturbedPool, machine
  <2> QED
    BY <1>0, <1>1, <2>2
<1>2. ASSUME NEW r \in Requests,
             RecvRead(r) \/ RecvCheck(r) \/ RecvCount(r) \/ AnswerCheck(r)
               \/ AnswerCount(r) \/ NoControl(r)
      PROVE  UNCHANGED <<machine, credit_pool, num_sess>>
  BY <1>2 DEF RecvRead, RecvCheck, RecvCount, AnswerCheck, AnswerCount,
              NoControl, sessions
<1>3. CASE SessOpen \/ SessClose \/ SessReset
  <2>1. num_sess = MaxSess /\ num_sess # 0 /\ num_sess + resets >= MaxSess
    BY SessAssumption DEF IInv, TypeOK
  <2>2. UNCHANGED <<machine, credit_pool, num_sess>>
    <3>1. ~ SessOpen
      BY <2>1, SessAssumption DEF SessOpen, IInv, TypeOK
    <3>2. ~ SessClose
      BY <2>1, SessAssumption DEF SessClose
    <3> QED
      BY <1>3, <2>1, <3>1, <3>2 DEF SessReset
  <2> QED
    BY <1>1, <2>2
<1>4. ASSUME NEW r \in Requests, Control(r)
      PROVE  PerturbedPool' /\ credit_pool' - credit_pool \in {- Epsilon, 0, Epsilon}
  <2>0. UNCHANGED num_sess
    BY <1>4 DEF Control, sessions
  <2>1. CASE PrepareMicroExp
    <3>1. num_micro_exps \in {0, 1}
      BY <2>1, <1>0 DEF PrepareMicroExp, IInv, ExperimentsInOrder, MaxExps
    <3>3. CASE PerturbCb
      <4>1. credit_pool = Perturbed(num_micro_exps)
        BY <2>1, <3>3 DEF PerturbedPool, PrepareMicroExp
      <4>2. credit_pool' = Perturbed(num_micro_exps + 1)
        <5>1. first_dir \in {-1, 1}
          BY DEF IInv, TypeOK
        <5>2. CASE num_micro_exps = 0
          <6>1. Dir(num_micro_exps + 1) * Epsilon = first_dir
            BY <5>1, <5>2, <1>0 DEF Dir
          <6> QED
            BY <2>1, <3>3, <4>1, <5>2, <6>1, PerturbedValues
               DEF PrepareMicroExp, UpdatedPool
        <5>3. CASE num_micro_exps = 1
          <6>1. /\ Dir(num_micro_exps + 1) * Epsilon = - first_dir
                /\ Perturbed(1) + (- first_dir) = Perturbed(1) - first_dir
            BY <5>1, <5>3, <1>0, PerturbedValues DEF Dir
          <6> QED
            BY <2>1, <3>3, <4>1, <5>3, <6>1, PerturbedValues
               DEF PrepareMicroExp, UpdatedPool
        <5> QED
          BY <3>1, <5>2, <5>3
      <4>3. PerturbedPool'
        <5>1. CASE num_micro_exps = 0
          BY <2>0, <2>1, <3>3, <4>2, <5>1
             DEF PrepareMicroExp, PerturbedPool, Perturbed, Clamp
        <5>2. CASE num_micro_exps = 1
          BY <2>0, <2>1, <3>3, <4>2, <5>2
             DEF PrepareMicroExp, PerturbedPool, Perturbed, Clamp
        <5> QED
          BY <3>1, <5>1, <5>2
      <4> QED
        BY <4>1, <4>2, <4>3, <3>1, <1>0, PerturbedValues
    <3>4. CASE ~ PerturbCb
      BY <2>1, <3>4, <1>0 DEF PrepareMicroExp, PerturbedPool
    <3> QED
      BY <3>3, <3>4
  <2>2. CASE StartMicroExp
    <3>1. /\ pcc_state = "START_MICRO_EXP" /\ pcc_state' = "END_MICRO_EXP"
          /\ UNCHANGED <<credit_pool, orig_cp, num_micro_exps, first_dir>>
      BY <2>2 DEF StartMicroExp
    <3>2. UNCHANGED Perturbed(num_micro_exps + 1)
      BY <2>0, <3>1 DEF Perturbed, Clamp
    <3> QED
      BY <3>1, <3>2, <1>0 DEF PerturbedPool
  <2>3. CASE EndMicroExp
    <3>1. num_micro_exps \in {0, 1}
      BY <2>3, <1>0 DEF EndMicroExp, EndCounted, IInv, ExperimentsInOrder, MaxExps
    <3>2. CASE num_micro_exps = 0
      <4>1. /\ pcc_state = "END_MICRO_EXP" /\ pcc_state' = "PREPARE_MICRO_EXP"
            /\ num_micro_exps' = 1 /\ UNCHANGED <<credit_pool, orig_cp, first_dir>>
        BY <2>3, <3>2 DEF EndMicroExp, EndCounted, RateAfter, MaxExps
      <4>2. Perturbed(num_micro_exps)' = Perturbed(num_micro_exps + 1)
        BY <2>0, <3>2, <4>1 DEF Perturbed, Clamp
      <4>3. PerturbedPool'
        BY <4>1, <4>2 DEF PerturbedPool
      <4> QED
        BY <1>0, <4>1, <4>3
    <3>3. CASE num_micro_exps = 1
      <4>1. PerturbedPool' /\ credit_pool' = orig_cp
        BY <2>3, <3>3, FlagsAssumption
           DEF EndMicroExp, EndCounted, RateAfter, PerturbedPool, MaxExps
      <4>2. credit_pool \in {orig_cp, Perturbed(2)}
        BY <2>3, <3>3 DEF EndMicroExp, EndCounted, PerturbedPool
      <4> QED
        BY <4>1, <4>2, <1>0, PerturbedValues
    <3> QED
      BY <3>1, <3>2, <3>3
  <2>4. CASE MakeDecision
    <3>1. credit_pool = orig_cp
      BY <2>4 DEF MakeDecision, PerturbedPool
    <3>2. PerturbedPool'
      BY <2>4 DEF MakeDecision, NewOriginal, PerturbedPool, Perturbed
    <3>3. UpdatedPool(1) - credit_pool \in {-1, 0, 1}
            /\ UpdatedPool(-1) - credit_pool \in {-1, 0, 1}
      <4>1. TypeOK /\ credit_pool + 1 * Epsilon = credit_pool + 1
              /\ credit_pool + (-1) * Epsilon = credit_pool + (-1)
        BY <1>0 DEF IInv
      <4> QED
        BY <3>1, <4>1, OriginalClamped, ClampNear DEF UpdatedPool
    <3>4. credit_pool' \in {credit_pool, UpdatedPool(1), UpdatedPool(-1)}
      <4>1. ASSUME NEW dir \in Directions, NEW exhausted \in BOOLEAN
            PROVE  Decision(dir, exhausted)
                     \in {credit_pool, UpdatedPool(1), UpdatedPool(-1)}
        <5>1. dir \in {"plus", "minus", "stay", "invalid"}
          BY DirectionsRange
        <5> QED
          BY <5>1 DEF Decision
      <4> QED
        BY <2>4, <4>1 DEF MakeDecision
    <3>5. credit_pool' - credit_pool \in {-1, 0, 1}
      <4>1. credit_pool - credit_pool = 0
        BY <1>0
      <4> QED
        BY <3>3, <3>4, <4>1
    <3> QED
      BY <3>2, <3>5, <1>0
  <2> QED
    BY <1>4, <2>1, <2>2, <2>3, <2>4 DEF Control
<1>5. CASE UNCHANGED vars
  BY <1>1, <1>5 DEF vars, sessions
<1> QED
  BY <1>1, <1>2, <1>3, <1>4, <1>5 DEF Next

\* While no session comes or goes, the pool is where the state machine says, ...
THEOREM PoolPerturbed ==
  ASSUME MinSess = MaxSess
  PROVE  Spec => []PerturbedPool
<1>1. Init => PerturbedPool
  BY DEF Init, PerturbedPool, Perturbed
<1>2. IInv /\ PerturbedPool /\ [Next]_vars => PerturbedPool'
  BY PerturbedStep
<1> QED
  BY <1>1, <1>2, Invariance, PTL DEF Spec

\* ... and no run of srpc_update_credit_pool moves it by more than SPCC_EPSILON.
THEOREM EpsilonMoves ==
  ASSUME MinSess = MaxSess
  PROVE  Spec => PoolMovesByEpsilon
<1>1. IInv /\ PerturbedPool /\ [Next]_vars
        => [credit_pool' - credit_pool \in {- Epsilon, 0, Epsilon}]_vars
  BY PerturbedStep
<1> QED
  BY <1>1, PoolPerturbed, Invariance, PTL DEF Spec, PoolMovesByEpsilon

=============================================================================
