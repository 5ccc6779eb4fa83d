-------------------------- MODULE ReleaseGateProofs --------------------------
(***************************************************************************)
(* Proofs, for any number of orchestrations, operators and customers and   *)
(* any policy of attempts, that the release stage accounts for its health  *)
(* attempts, goes LIVE only after a health pass, never changes a terminal  *)
(* row and implements DeploymentLifecycle.                                 *)
(*                                                                         *)
(* What the rows hold depends on what the runs remember, so IInv adds it   *)
(* (RunKeeps): a run that probes has a number all of whose predecessors    *)
(* are taken, one that found the attempts exhausted is right, one that has *)
(* passed leaves a healthy attempt behind. All of these stay true because  *)
(* attempts are only ever added (AttemptsKept).                            *)
(***************************************************************************)
EXTENDS ReleaseGate, TLAPS

\* What a run knows about the attempts on record, and the tries it has left.
RunKeeps(r) ==
  /\ pc[r] = "probe" => number[r] # 0 /\ 1 .. (number[r] - 1) \subseteq Recorded
  /\ pc[r] = "exhausted" => Recorded = 1 .. MaxAttempts
  /\ r \in Orchestrations /\ pc[r] \in {"passed", "access", "verify", "golive"} => HasPassed
  /\ pc[r] # "failed" => tries[r] < MaxTries

RunsKeep == \A r \in Runs : RunKeeps(r)

IInv == TypeOK /\ RunsKeep /\ AttemptsAccounted

-----------------------------------------------------------------------------

LEMMA InitIInv == Init => IInv
<1> SUFFICES ASSUME Init PROVE IInv
  OBVIOUS
<1> USE GateAssumption
<1>1. TypeOK
  BY DEF Init, TypeOK, Statuses, Steps
<1>2. RunsKeep
  BY DEF Init, RunsKeep, RunKeeps
<1>3. Recorded = 1 .. 0
  BY DEF Init, Recorded
<1>4. AttemptsAccounted
  BY <1>3 DEF Init, AttemptsAccounted, Errors
<1> QED
  BY <1>1, <1>2, <1>4 DEF IInv

-----------------------------------------------------------------------------
(* Types.                                                                  *)

\* The helpers for the row and the runs' locals keep the types.
LEMMA RowTyped ==
  ASSUME TypeOK, NEW from, NEW to \in Statuses, NEW error \in Errors \cup {NULL},
         UpdateWhereStatus(from, to, error)
  PROVE  depStatus' \in Statuses /\ depError' \in Errors \cup {NULL}
  BY DEF TypeOK, UpdateWhereStatus, deployment

LEMMA ThrowTyped ==
  ASSUME TypeOK, NEW r \in Runs, RunKeeps(r), pc[r] # "failed", Throw(r)
  PROVE  /\ pc' \in [Runs -> Steps]
         /\ tries' \in [Runs -> 0 .. MaxTries]
         /\ pc'[r] \in {"access", "failed"}
         /\ pc'[r] # "failed" => tries'[r] < MaxTries
         /\ \A q \in Runs : q # r => pc'[q] = pc[q] /\ tries'[q] = tries[q]
  BY GateAssumption DEF TypeOK, RunKeeps, Throw, TriesLeft, GoTo, Steps

\* The count of a gapless history is the number of attempts it holds.
LEMMA CountIsLast ==
  ASSUME AttemptsAccounted
  PROVE  AttemptCount \in 0 .. MaxAttempts /\ Recorded = 1 .. AttemptCount
  BY DEF AttemptsAccounted, AttemptCount

\* A step of an orchestration keeps the types.
LEMMA HealthTyped ==
  ASSUME IInv, NEW o \in Orchestrations, Snapshot(o) \/ RetryHealth(o) \/ HealthStep(o)
  PROVE  TypeOK'
<1> USE GateAssumption DEF IInv, TypeOK, deployment, locals, GoTo, At, Runs
<1>1. CASE Snapshot(o) \/ RetryHealth(o)
  BY <1>1 DEF Snapshot, RetryHealth, Steps
<1>2. CASE ReadForHealth(o)
  BY <1>2 DEF ReadForHealth, Steps
<1>3. CASE BeginHealthChecks(o)
  BY <1>3, RowTyped DEF BeginHealthChecks, Steps, Statuses
<1>4. CASE CountAttempts(o)
  <2>1. AttemptCount \in 0 .. MaxAttempts
    BY CountIsLast
  <2>2. UNCHANGED <<deployment, recordedRun, attempts, tries, watch>> /\ pc' \in [Runs -> Steps]
    BY <1>4 DEF CountAttempts, Steps
  <2>3. AttemptCount + 1 <= MaxAttempts => AttemptCount + 1 \in 0 .. MaxAttempts
    BY <2>1
  <2>4. number' \in [Runs -> 0 .. MaxAttempts]
    BY <1>4, <2>3 DEF CountAttempts, healthAttemptNumber
  <2> QED
    BY <2>2, <2>4
<1>5. CASE RecordAttempt(o)
  <2>1. number[o] \in 1 .. MaxAttempts
    BY <1>5 DEF RecordAttempt, RunsKeep, RunKeeps
  <2>2. attempts' \in [1 .. MaxAttempts -> Healths \cup {NULL}]
    BY <1>5, <2>1 DEF RecordAttempt
  <2>3. pc' \in [Runs -> Steps]
    BY <1>5 DEF RecordAttempt, AfterAttempt, Steps
  <2> QED
    BY <1>5, <2>2, <2>3 DEF RecordAttempt
<1>6. CASE PassHealthCheck(o)
  BY <1>6, RowTyped DEF PassHealthCheck, Steps
<1>7. CASE FailHealthChecks(o)
  BY <1>7, RowTyped DEF FailHealthChecks, Steps, Statuses, Errors
<1> QED
  BY <1>1, <1>2, <1>3, <1>4, <1>5, <1>6, <1>7 DEF HealthStep

\* So does a step of configure-public-access, whoever runs it.
LEMMA AccessTyped ==
  ASSUME IInv, NEW r \in Runs, AccessStep(r)
  PROVE  TypeOK'
<1> USE DEF IInv, TypeOK, deployment, locals, At
<1>0. RunKeeps(r)
  BY DEF RunsKeep
<1>1. CASE ReadForAccess(r)
  <2>1. CASE publicAccessRecoveryAction(depStatus) = "throw"
    BY <1>0, <1>1, <2>1, ThrowTyped DEF ReadForAccess
  <2>2. CASE publicAccessRecoveryAction(depStatus) # "throw"
    BY <1>1, <2>2 DEF ReadForAccess, publicAccessRecoveryAction, GoTo, Steps
  <2> QED
    BY <2>1, <2>2
<1>2. CASE VerifyPublicAccess(r)
  <2>1. CASE Throw(r)
    BY <1>0, <1>2, <2>1, ThrowTyped DEF VerifyPublicAccess
  <2>2. CASE ~Throw(r)
    BY <1>2, <2>2 DEF VerifyPublicAccess, GoTo, Steps
  <2> QED
    BY <2>1, <2>2
<1>3. CASE GoLive(r)
  BY <1>3, RowTyped DEF GoLive, GoTo, Steps, Statuses
<1> QED
  BY <1>1, <1>2, <1>3 DEF AccessStep

LEMMA TypeStep ==
  ASSUME IInv, Next
  PROVE  TypeOK'
<1> USE DEF IInv, TypeOK, deployment, locals, GoTo, At, Runs
<1>1. ASSUME NEW o \in Orchestrations, Trigger(o) PROVE TypeOK'
  BY <1>1 DEF Trigger, Steps
<1>2. ASSUME NEW r \in Runs, Crash(r) PROVE TypeOK'
  BY <1>2 DEF Crash, Steps
<1>3. ASSUME NEW p \in Operators, StartByHand(p) PROVE TypeOK'
  BY <1>3 DEF StartByHand, Steps
<1>4. ASSUME NEW c \in Customers, ReadRow(c) PROVE TypeOK'
  BY <1>4 DEF ReadRow, Watches
<1>5. ASSUME NEW c \in Customers, markOrchestrationRunFailed(c) PROVE TypeOK'
  BY <1>5, RowTyped DEF markOrchestrationRunFailed, Statuses, Errors
<1>6. ASSUME abandonDeployment PROVE TypeOK'
  BY <1>6 DEF abandonDeployment, Statuses, Errors
<1> QED
  BY <1>1, <1>2, <1>3, <1>4, <1>5, <1>6, HealthTyped, AccessTyped
  DEF Next, OrchestrationStep

-----------------------------------------------------------------------------
(* The history of attempts.                                                *)

\* Attempts are recorded only by RecordAttempt.
LEMMA OnlyRecording ==
  ASSUME Next
  PROVE  (\E o \in Orchestrations : RecordAttempt(o)) \/ UNCHANGED attempts
  BY DEF Next, Trigger, OrchestrationStep, Snapshot, RetryHealth, HealthStep, ReadForHealth,
         BeginHealthChecks, CountAttempts, PassHealthCheck, FailHealthChecks, AccessStep,
         ReadForAccess, VerifyPublicAccess, GoLive, Crash, StartByHand, ReadRow,
         markOrchestrationRunFailed, abandonDeployment

\* The first number missing from 1 .. n is n + 1.
LEMMA FirstMissing ==
  ASSUME NEW n \in Nat, NEW k \in Nat, k # 0, k \notin 1 .. n, 1 .. (k - 1) \subseteq 1 .. n
  PROVE  n = k - 1
<1>1. k > n
  OBVIOUS
<1>2. k - 1 # 0 => k - 1 \in 1 .. (k - 1)
  OBVIOUS
<1>3. k - 1 # 0 => k - 1 <= n
  BY <1>2
<1> QED
  BY <1>1, <1>3

\* A recorded attempt extends a gapless history by its next number.
LEMMA RecordingExtends ==
  ASSUME IInv, NEW o \in Orchestrations, RecordAttempt(o)
  PROVE  \/ UNCHANGED attempts
         \/ \E health \in Healths :
              /\ attempts' = [attempts EXCEPT ![number[o]] = health]
              /\ pc' = [pc EXCEPT ![o] = AfterAttempt(number[o], health)]
              /\ number[o] \in 1 .. MaxAttempts
              /\ Recorded = 1 .. (number[o] - 1)
              /\ Recorded' = 1 .. number[o]
<1> USE GateAssumption DEF IInv, TypeOK, At, GoTo, Runs
<1>1. number[o] \in 1 .. MaxAttempts /\ 1 .. (number[o] - 1) \subseteq Recorded
  BY DEF RecordAttempt, RunsKeep, RunKeeps
<1>2. CASE attempts[number[o]] # NULL
  BY <1>2 DEF RecordAttempt
<1>3. CASE attempts[number[o]] = NULL
  <2>1. PICK health \in Healths :
          /\ attempts' = [attempts EXCEPT ![number[o]] = health]
          /\ pc' = [pc EXCEPT ![o] = AfterAttempt(number[o], health)]
    BY <1>3 DEF RecordAttempt
  <2>2. PICK n \in 0 .. MaxAttempts : Recorded = 1 .. n
    BY DEF AttemptsAccounted
  <2>3. number[o] \notin Recorded
    BY <1>3 DEF Recorded
  <2>4. n = number[o] - 1
    <3>1. n \in Nat /\ number[o] \in Nat /\ number[o] # 0
      BY <1>1, <2>2
    <3>2. number[o] \notin 1 .. n /\ 1 .. (number[o] - 1) \subseteq 1 .. n
      BY <1>1, <2>2, <2>3
    <3> QED
      BY ONLY <3>1, <3>2, FirstMissing
  <2>5. Recorded' = Recorded \cup {number[o]}
    BY <1>1, <2>1 DEF Recorded
  <2>6. Recorded' = 1 .. number[o]
    BY <1>1, <2>2, <2>4, <2>5
  <2> QED
    BY <1>1, <2>1, <2>2, <2>4, <2>6
<1> QED
  BY <1>2, <1>3

\* An attempt on record is never changed or removed.
LEMMA AttemptsKept ==
  ASSUME IInv, Next
  PROVE  /\ \A n \in 1 .. MaxAttempts : attempts[n] # NULL => attempts'[n] = attempts[n]
         /\ Recorded \subseteq Recorded'
         /\ HasPassed => HasPassed'
<1>1. \A n \in 1 .. MaxAttempts : attempts[n] # NULL => attempts'[n] = attempts[n]
  <2>1. ASSUME NEW o \in Orchestrations, RecordAttempt(o), NEW n \in 1 .. MaxAttempts,
               attempts[n] # NULL
        PROVE  attempts'[n] = attempts[n]
    BY <2>1 DEF RecordAttempt, IInv, TypeOK
  <2> QED
    BY <2>1, OnlyRecording
<1>2. Recorded \subseteq Recorded'
  BY <1>1 DEF Recorded
<1> QED
  BY <1>1, <1>2 DEF HasPassed, Recorded

LEMMA AccountedStep ==
  ASSUME IInv, Next
  PROVE  AttemptsAccounted'
<1>1. (\E n \in 0 .. MaxAttempts : Recorded = 1 .. n)'
  <2>1. ASSUME NEW o \in Orchestrations, RecordAttempt(o)
        PROVE  \E n \in 0 .. MaxAttempts : Recorded' = 1 .. n
    BY <2>1, RecordingExtends DEF IInv, AttemptsAccounted, Recorded
  <2> QED
    BY <2>1, OnlyRecording DEF IInv, AttemptsAccounted, Recorded
<1>2. ASSUME depError' = "HEALTH_CHECK_FAILED" PROVE Recorded = 1 .. MaxAttempts
  <2>1. ASSUME NEW o \in Orchestrations, FailHealthChecks(o)
        PROVE  Recorded = 1 .. MaxAttempts
    BY <2>1 DEF FailHealthChecks, At, IInv, RunsKeep, RunKeeps, Runs
  <2>2. \/ \E o \in Orchestrations : FailHealthChecks(o)
        \/ depError = "HEALTH_CHECK_FAILED"
    BY <1>2, GateAssumption
    DEF Next, Trigger, OrchestrationStep, Snapshot, RetryHealth, HealthStep, ReadForHealth,
        BeginHealthChecks, CountAttempts, RecordAttempt, PassHealthCheck, AccessStep,
        ReadForAccess, VerifyPublicAccess, GoLive, Crash, StartByHand, ReadRow, Errors,
        markOrchestrationRunFailed, abandonDeployment, UpdateWhereStatus, deployment
  <2> QED
    BY <2>1, <2>2 DEF IInv, AttemptsAccounted
<1>3. Recorded' \subseteq 1 .. MaxAttempts
  BY DEF Recorded
<1> QED
  BY <1>1, <1>2, <1>3, AttemptsKept DEF AttemptsAccounted

-----------------------------------------------------------------------------
(* What the runs remember.                                                 *)

\* A run that does not move, keeps what it knows.
LEMMA BystanderKeeps ==
  ASSUME IInv, Next, NEW r \in Runs,
         pc'[r] = pc[r], number'[r] = number[r], tries'[r] = tries[r]
  PROVE  RunKeeps(r)'
<1>1. Recorded' \subseteq 1 .. MaxAttempts
  BY DEF Recorded
<1>2. RunKeeps(r)
  BY DEF IInv, RunsKeep
<1> QED
  BY <1>1, <1>2, AttemptsKept DEF RunKeeps

\* The run that takes a health step knows what it should afterwards.
LEMMA HealthKeeps ==
  ASSUME IInv, Next, NEW o \in Orchestrations,
         Trigger(o) \/ Snapshot(o) \/ RetryHealth(o) \/ HealthStep(o)
  PROVE  RunKeeps(o)'
<1> USE GateAssumption DEF IInv, TypeOK, At, GoTo, locals, Runs
<1>1. RunKeeps(o)
  BY DEF RunsKeep
<1>2. CASE Trigger(o) \/ Snapshot(o) \/ RetryHealth(o) \/ ReadForHealth(o) \/ BeginHealthChecks(o)
  BY <1>1, <1>2 DEF Trigger, Snapshot, RetryHealth, ReadForHealth, BeginHealthChecks, RunKeeps
<1>3. CASE CountAttempts(o)
  <2>1. AttemptCount \in 0 .. MaxAttempts /\ Recorded = 1 .. AttemptCount
    BY CountIsLast
  <2>2. Recorded' = Recorded
    BY <1>3 DEF CountAttempts, Recorded
  <2> QED
    BY <1>1, <1>3, <2>1, <2>2 DEF CountAttempts, healthAttemptNumber, RunKeeps
<1>4. CASE RecordAttempt(o)
  <2>1. CASE UNCHANGED attempts
    <3>1. attempts[number[o]] # NULL
      BY <1>4, <2>1 DEF RecordAttempt, Healths, RunsKeep, RunKeeps
    <3> QED
      BY <1>1, <1>4, <3>1 DEF RecordAttempt, RunKeeps
  <2>2. CASE ~UNCHANGED attempts
    <3>1. PICK health \in Healths :
            /\ attempts' = [attempts EXCEPT ![number[o]] = health]
            /\ pc' = [pc EXCEPT ![o] = AfterAttempt(number[o], health)]
            /\ number[o] \in 1 .. MaxAttempts
            /\ Recorded' = 1 .. number[o]
      BY <1>4, <2>2, RecordingExtends
    <3>2. health = "HEALTHY" => HasPassed'
      BY <3>1 DEF HasPassed
    <3>3. pc'[o] = "exhausted" => number[o] = MaxAttempts
      BY <3>1 DEF AfterAttempt, LastAttempt
    <3>4. pc'[o] = "passed" => health = "HEALTHY"
      BY <3>1 DEF AfterAttempt
    <3>5. pc'[o] \in {"passed", "exhausted", "waiting"} /\ tries'[o] = tries[o] /\ pc[o] = "probe"
      BY <1>4, <3>1 DEF AfterAttempt, RecordAttempt
    <3> QED
      BY <1>1, <3>1, <3>2, <3>3, <3>4, <3>5 DEF RunKeeps
  <2> QED
    BY <2>1, <2>2
<1>5. CASE PassHealthCheck(o) \/ FailHealthChecks(o)
  BY <1>1, <1>5, AttemptsKept DEF PassHealthCheck, FailHealthChecks, RunKeeps
<1> QED
  BY <1>2, <1>3, <1>4, <1>5 DEF HealthStep

LEMMA AccessKeeps ==
  ASSUME IInv, Next, NEW r \in Runs, AccessStep(r)
  PROVE  RunKeeps(r)'
<1> USE DEF IInv, TypeOK, At, locals
<1>1. RunKeeps(r) /\ pc[r] \in {"access", "verify", "golive"}
  BY DEF RunsKeep, AccessStep, ReadForAccess, VerifyPublicAccess, GoLive
<1>2. CASE Throw(r)
  BY <1>1, <1>2, ThrowTyped, AttemptsKept DEF RunKeeps
<1>3. CASE ~Throw(r)
  <2>1. pc'[r] \in {"ended", "verify", "golive"} /\ tries' = tries
    BY <1>3 DEF AccessStep, ReadForAccess, VerifyPublicAccess, GoLive, GoTo,
                publicAccessRecoveryAction
  <2> QED
    BY <1>1, <2>1, AttemptsKept DEF RunKeeps
<1> QED
  BY <1>2, <1>3

\* No step moves a run other than its own.
LEMMA OneRunMoves ==
  ASSUME IInv, Next
  PROVE  \/ \E o \in Orchestrations :
              /\ Trigger(o) \/ OrchestrationStep(o) \/ Crash(o)
              /\ \A q \in Runs : q # o => pc'[q] = pc[q] /\ number'[q] = number[q] /\ tries'[q] = tries[q]
         \/ \E p \in Operators :
              /\ StartByHand(p) \/ AccessStep(p) \/ Crash(p)
              /\ \A q \in Runs : q # p => pc'[q] = pc[q] /\ number'[q] = number[q] /\ tries'[q] = tries[q]
         \/ UNCHANGED <<pc, number, tries>>
<1> USE DEF IInv, TypeOK, GoTo, locals, Runs
<1>1. ASSUME NEW o \in Orchestrations, Trigger(o) \/ OrchestrationStep(o) \/ Crash(o),
             NEW q \in Runs, q # o
      PROVE  pc'[q] = pc[q] /\ number'[q] = number[q] /\ tries'[q] = tries[q]
  BY <1>1 DEF Trigger, OrchestrationStep, Snapshot, RetryHealth, HealthStep, ReadForHealth,
         BeginHealthChecks, CountAttempts, RecordAttempt, PassHealthCheck, FailHealthChecks,
         AccessStep, ReadForAccess, VerifyPublicAccess, Throw, GoLive, Crash
<1>2. ASSUME NEW p \in Operators, StartByHand(p) \/ AccessStep(p) \/ Crash(p),
             NEW q \in Runs, q # p
      PROVE  pc'[q] = pc[q] /\ number'[q] = number[q] /\ tries'[q] = tries[q]
  BY <1>2 DEF StartByHand, AccessStep, ReadForAccess, VerifyPublicAccess, Throw, GoLive, Crash
<1>3. ASSUME \/ \E c \in Customers : ReadRow(c) \/ markOrchestrationRunFailed(c)
             \/ abandonDeployment
      PROVE  UNCHANGED <<pc, number, tries>>
  BY <1>3 DEF ReadRow, markOrchestrationRunFailed, abandonDeployment
<1> QED
  BY <1>1, <1>2, <1>3 DEF Next

LEMMA RunsKeepStep ==
  ASSUME IInv, Next
  PROVE  RunsKeep'
<1> SUFFICES ASSUME NEW r \in Runs PROVE RunKeeps(r)'
  BY DEF RunsKeep
<1>1. CASE pc'[r] = pc[r] /\ number'[r] = number[r] /\ tries'[r] = tries[r]
  BY <1>1, BystanderKeeps
<1>2. CASE Crash(r)
  BY <1>2, GateAssumption DEF Crash, GoTo, IInv, TypeOK, RunKeeps
<1>3. CASE r \in Operators /\ StartByHand(r)
  BY <1>3, GateAssumption DEF StartByHand, GoTo, At, locals, IInv, TypeOK, RunsKeep, RunKeeps
<1>4. CASE r \in Orchestrations /\ (Trigger(r) \/ OrchestrationStep(r))
  BY <1>4, HealthKeeps, AccessKeeps DEF OrchestrationStep
<1>5. CASE AccessStep(r)
  BY <1>5, AccessKeeps
<1> QED
  BY <1>1, <1>2, <1>3, <1>4, <1>5, OneRunMoves

-----------------------------------------------------------------------------
(* The theorems.                                                           *)

LEMMA NextIInv == IInv /\ [Next]_vars => IInv'
<1> SUFFICES ASSUME IInv, [Next]_vars PROVE IInv'
  OBVIOUS
<1>1. CASE Next
  BY <1>1, TypeStep, RunsKeepStep, AccountedStep DEF IInv
<1>2. CASE UNCHANGED vars
  BY <1>2 DEF vars, deployment, locals, IInv, TypeOK, RunsKeep, RunKeeps, AttemptsAccounted,
              Recorded, HasPassed
<1> QED
  BY <1>1, <1>2

LEMMA Inductive == Spec => []IInv
  BY InitIInv, NextIInv, PTL DEF Spec

\* Every variable keeps its type; no run tries or numbers beyond its limit.
THEOREM TypeCorrect == Spec => []TypeOK
<1>1. IInv => TypeOK
  BY DEF IInv
<1> QED
  BY <1>1, Inductive, PTL

\* However many runs count and record at once, attempts have no gap, and a
\* deployment fails for its health only after all attempts of its policy.
THEOREM AttemptsAlwaysAccounted == Spec => []AttemptsAccounted
<1>1. IInv => AttemptsAccounted
  BY DEF IInv
<1> QED
  BY <1>1, Inductive, PTL

\* How one step may change the row.
LEMMA RowSteps ==
  ASSUME IInv, Next
  PROVE  \/ UNCHANGED deployment
         \/ /\ depStatus \in RESUMABLE_STATUSES
            /\ depStatus' = "FAILED"
         \/ /\ depStatus = "DEPLOYING" /\ depStatus' = "HEALTH_CHECKING"
         \/ /\ depStatus = "HEALTH_CHECKING" /\ depStatus' = "HEALTH_CHECKING"
         \/ /\ depStatus = "HEALTH_CHECKING" /\ depStatus' = "LIVE"
            /\ \E r \in Runs : GoLive(r)
<1> USE DEF deployment, UpdateWhereStatus, Runs, RESUMABLE_STATUSES
<1>1. ASSUME NEW o \in Orchestrations, Trigger(o) \/ Snapshot(o) \/ RetryHealth(o)
      PROVE  UNCHANGED deployment
  BY <1>1 DEF Trigger, Snapshot, RetryHealth
<1>2. ASSUME NEW o \in Orchestrations, ReadForHealth(o) \/ CountAttempts(o) \/ RecordAttempt(o)
      PROVE  UNCHANGED deployment
  BY <1>2 DEF ReadForHealth, CountAttempts, RecordAttempt
<1>3. ASSUME NEW r \in Runs, Crash(r) \/ StartByHand(r) \/ ReadForAccess(r) \/ VerifyPublicAccess(r)
      PROVE  UNCHANGED deployment
  BY <1>3 DEF Crash, StartByHand, ReadForAccess, VerifyPublicAccess
<1>4. ASSUME NEW c \in Customers, markOrchestrationRunFailed(c)
      PROVE  \/ UNCHANGED deployment
             \/ depStatus \in RESUMABLE_STATUSES /\ depStatus' = "FAILED"
  BY <1>4, GateAssumption DEF markOrchestrationRunFailed, IInv, TypeOK, Watches
<1>5. ASSUME NEW c \in Customers, ReadRow(c) PROVE UNCHANGED deployment
  BY <1>5 DEF ReadRow
<1> QED
  BY <1>1, <1>2, <1>3, <1>4, <1>5
  DEF Next, OrchestrationStep, HealthStep, AccessStep, BeginHealthChecks, PassHealthCheck,
      FailHealthChecks, GoLive, abandonDeployment

\* LIVE rests on a health pass unless an operator verified by hand: whichever
\* orchestration verifies the public access, a healthy attempt is on record.
THEOREM LiveOnlyAfterHealthPass == Spec => LiveAfterHealthPass
<1>1. ASSUME IInv, [Next]_vars, depStatus # "LIVE", depStatus' = "LIVE"
      PROVE  HasPassed \/ \E p \in Operators : GoLive(p)
  <2>1. PICK r \in Runs : GoLive(r)
    BY <1>1, RowSteps DEF vars, deployment
  <2> QED
    BY <1>1, <2>1 DEF GoLive, At, IInv, RunsKeep, RunKeeps, Runs
<1>2. IInv /\ [Next]_vars =>
        [depStatus # "LIVE" /\ depStatus' = "LIVE" =>
           HasPassed \/ \E p \in Operators : GoLive(p)]_vars
  BY <1>1
<1> QED
  BY <1>2, Inductive, PTL DEF Spec, LiveAfterHealthPass

\* LIVE and FAILED, and the reason for it, are final in this stage.
THEOREM TerminalNeverChanges == Spec => TerminalFrozen
<1>1. IInv /\ [Next]_vars => [(depStatus \in TERMINAL_STATUSES) => UNCHANGED deployment]_vars
  BY RowSteps DEF vars, TERMINAL_STATUSES, RESUMABLE_STATUSES
<1> QED
  BY <1>1, Inductive, PTL DEF Spec, TerminalFrozen

\* The release stage implements the life cycle of the deployment row.
THEOREM ImplementsLifecycle == Spec => RefinesLifecycle
<1> USE GateAssumption
    DEF LC!DeploymentStatus, LC!PastBuild, LC!transitions, LC!canTransition
<1>1. Init => LC!Init
  BY DEF Init, LC!Init
<1>2. ASSUME IInv, Next PROVE LC!Next \/ UNCHANGED LC!vars
  BY <1>2, RowSteps DEF LC!Next, LC!Move, LC!vars, deployment, RESUMABLE_STATUSES
<1>3. IInv /\ [Next]_vars => [LC!Next]_LC!vars
  BY <1>2 DEF vars, deployment, LC!vars
<1> QED
  BY <1>1, <1>3, Inductive, PTL DEF Spec, RefinesLifecycle, LC!Spec
=============================================================================
