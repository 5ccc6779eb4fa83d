------------------------- MODULE DeploymentGatesProofs -------------------------
(***************************************************************************)
(* Proofs, for any variables, commits, requests and orchestrations, that a *)
(* build gets every variable its source reads, that the operations opened  *)
(* for the first time stay within the workspace's limit, and that requests *)
(* start no more deployments of an app refused for its failures than were  *)
(* under way at the refusal.                                               *)
(*                                                                         *)
(* What is written only grows: variables are required, saved and applied,  *)
(* never taken back, and a row keeps the source it was inserted with. So   *)
(* what a run has established of its deployment holds although other runs  *)
(* and requests go on, and the invariant says for each step of a run what  *)
(* it has established (RunReady). The run that has counted the operations  *)
(* is alone until it has written its own (OneCounts), and leaves room for  *)
(* it (WithinLimit). The requests still under way at an app that was       *)
(* refused are never more than what is left of those the refusal found     *)
(* (PauseLasts): a new one meets the pause, and each starts one deployment *)
(* and is gone.                                                            *)
(***************************************************************************)
EXTENDS DeploymentGates, FiniteSetTheorems, WellFoundedInduction, TLAPS

\* An input, a snapshot and an operation are those of a row.
InputsOfRows == \A d \in Ids : input[d] => d \in Rows

SnapshotRequired == \A d \in Ids : snapshot[d] => uses[d] \subseteq required

PassedDetection == \A d \in Ids : status[d] \in {"PROVISIONING", "BUILDING"} => snapshot[d]

ReadyIsRow == \A q \in Requests : at[q] = "ready" => on[q] \in Rows

RunReady(r) ==
  /\ pc[r] # "idle" => of[r] \in Rows
  /\ pc[r] = "detect" => input[of[r]]
  /\ pc[r] \in {"verify", "decide", "apply", "operation", "locking", "counted", "claim", "create"} =>
       snapshot[of[r]]
  /\ pc[r] = "apply" => keys[r] \subseteq saved /\ uses[of[r]] \subseteq remote \cup keys[r]
  /\ pc[r] \in {"operation", "locking", "counted", "claim", "create"} => uses[of[r]] \subseteq remote

RunsReady == \A r \in Runs : RunReady(r)

OneCounts == \A r, s \in Runs : pc[r] = "counted" /\ pc[s] = "counted" => r = s

FirstOperations == ActiveOperations \ again

WithinLimit ==
  /\ Cardinality(FirstOperations) <= max_concurrent_provider_operations
  /\ (\E r \in Runs : pc[r] = "counted") =>
       Cardinality(FirstOperations) < max_concurrent_provider_operations

PauseLasts == refused => paused /\ Cardinality(UnderWay) <= spare

IInv ==
  /\ TypeOK /\ InputsOfRows /\ SnapshotRequired /\ PassedDetection /\ ReadyIsRow
  /\ RunsReady /\ OneCounts /\ WithinLimit /\ PauseLasts /\ BuiltConfigured

\* TypeOK, its two halves: what the columns hold, and how they go together.
Typings ==
  /\ count \in 0..MaxDeployments
  /\ status \in [Ids -> Statuses] /\ err \in [Ids -> Errors]
  /\ uses \in [Ids -> Sources \cup {{}}]
  /\ input \in [Ids -> BOOLEAN] /\ snapshot \in [Ids -> BOOLEAN] /\ started \in [Ids -> BOOLEAN]
  /\ built \in [Ids -> SUBSET remote]
  /\ op \in [Ids -> {"none", "INTENT_RECORDED", "CREATE_REQUESTED", "OBSERVED", "FAILED"}]
  /\ again \subseteq Ids /\ paused \in BOOLEAN /\ refused \in BOOLEAN /\ spare \in Int
  /\ at \in [Requests -> Phases] /\ on \in [Requests -> 0..MaxDeployments]
  /\ pc \in [Runs -> Steps] /\ of \in [Runs -> 0..MaxDeployments]
  /\ keys \in [Runs -> SUBSET required]

Contents ==
  /\ \A d \in Ids : status[d] = "none" <=> d > count
  /\ required \subseteq UNION { uses[d] : d \in Rows }
  /\ saved \subseteq required /\ remote \subseteq saved
  /\ \A d \in Ids : (snapshot[d] => input[d]) /\ (op[d] # "none" => snapshot[d])
  /\ old \subseteq Failures

LEMMA TypeHalves == TypeOK <=> Typings /\ Contents
  BY DEF TypeOK, Typings, Contents

LEMMA RowsAreIds ==
  ASSUME count \in 0..MaxDeployments
  PROVE  /\ Rows \subseteq Ids /\ Rows \subseteq 0..MaxDeployments
         /\ \A d \in Ids : d \in Rows <=> ~(d > count)
         /\ \A d \in 0..MaxDeployments : d \in Ids <=> d # 0
         /\ count > 0 => count \in Rows
         /\ count < MaxDeployments => count + 1 \in Ids
  BY GatesAssumption DEF Rows, Ids

\* Rows have a newest one: the one whose later rows are fewest.
LEMMA NewestThereIs ==
  ASSUME NEW S, S \subseteq 0..MaxDeployments, S # {}
  PROVE  \E d \in S : \A e \in S : e <= d
<1> DEFINE After(d) == { e \in S : e > d }
           T == { After(d) : d \in S }
<1>0. \A A, B \in SUBSET S : A \subseteq B /\ A # B => <<A, B>> \in StrictSubsetOrdering(S)
  BY DEF StrictSubsetOrdering
<1>1. IsFiniteSet(S)
  <2>1. IsFiniteSet(0..MaxDeployments)
    BY GatesAssumption, FS_Interval
  <2> QED
    BY <2>1, FS_Subset
<1>2. T \subseteq FiniteSubsetsOf(S) /\ T # {}
  <2>1. FiniteSubsetsOf(S) = SUBSET S
    BY <1>1, FS_FiniteSubsetsOfFinite
  <2>2. T \subseteq SUBSET S
    OBVIOUS
  <2>3. T # {}
    OBVIOUS
  <2> QED
    BY <2>1, <2>2, <2>3
<1>3. \E x \in T : \A y \in T : ~(<<y, x>> \in StrictSubsetOrdering(S))
  <2> HIDE DEF T
  <2> QED
    BY <1>2, FS_StrictSubsetOrderingWellFounded, WFMin
<1>4. PICK d \in S : \A y \in T : ~(<<y, After(d)>> \in StrictSubsetOrdering(S))
  BY <1>3
<1>5. ASSUME NEW e \in S, e > d PROVE FALSE
  <2>1. After(e) \subseteq After(d) /\ e \in After(d) /\ e \notin After(e)
    <3>1. S \subseteq Nat
      BY GatesAssumption
    <3>2. ~(e > e) /\ \A f \in S : f > e => f > d
      BY <1>5, <3>1
    <3> QED
      BY <1>5, <3>2
  <2>2. <<After(e), After(d)>> \in StrictSubsetOrdering(S)
    <3>1. After(e) \in SUBSET S /\ After(d) \in SUBSET S /\ After(e) # After(d)
      BY <2>1
    <3> HIDE DEF After
    <3> QED
      BY <1>0, <2>1, <3>1
  <2>3. After(e) \in T
    OBVIOUS
  <2> QED
    BY <1>4, <2>2, <2>3
<1> QED
  BY <1>5, GatesAssumption

LEMMA InitIInv == Init => IInv
<1> SUFFICES ASSUME Init PROVE IInv
  OBVIOUS
<1>1. /\ Rows = {} /\ \A d \in Ids : d > count
      /\ 0 \in 0..MaxDeployments
  BY GatesAssumption DEF Init, Rows, Ids
<1>2. Typings
  <2>1. at \in [Requests -> Phases] /\ pc \in [Runs -> Steps] /\ spare \in Int
    BY DEF Init, Phases, Steps
  <2> QED
    BY <1>1, <2>1 DEF Init, Typings, Statuses, Errors
<1>3. Contents
  BY <1>1 DEF Init, Contents
<1>4. FirstOperations = {}
  BY DEF Init, FirstOperations, ActiveOperations
<1>5. WithinLimit
  BY <1>4, FS_EmptySet, GatesAssumption DEF WithinLimit, Init
<1>6. InputsOfRows /\ SnapshotRequired /\ PassedDetection /\ ReadyIsRow
  BY DEF Init, InputsOfRows, SnapshotRequired, PassedDetection, ReadyIsRow
<1>7. RunsReady /\ OneCounts /\ PauseLasts /\ BuiltConfigured
  BY DEF Init, RunsReady, RunReady, OneCounts, PauseLasts, BuiltConfigured
<1> QED
  BY <1>2, <1>3, <1>5, <1>6, <1>7, TypeHalves DEF IInv

-----------------------------------------------------------------------------
(* What is written only grows, so every step keeps what was established.   *)

\* The invariant after a step, from what the step does.
LEMMA StepKeeps ==
  ASSUME IInv, TypeOK', OneCounts', WithinLimit', PauseLasts',
         Rows \subseteq Rows', required \subseteq required', saved \subseteq saved',
         remote \subseteq remote',
         \A d \in Rows : /\ uses'[d] = uses[d]
                         /\ (input[d] => input'[d]) /\ (snapshot[d] => snapshot'[d]),
         \A d \in Ids : input'[d] => input[d] \/ d \in Rows',
         \A d \in Ids : snapshot'[d] => snapshot[d] \/ uses'[d] \subseteq required',
         \A d \in Ids : status'[d] \in {"PROVISIONING", "BUILDING"} =>
           status[d] \in {"PROVISIONING", "BUILDING"} \/ snapshot[d],
         \A q \in Requests : at'[q] = "ready" =>
           (at[q] = "ready" /\ on'[q] = on[q]) \/ on'[q] \in Rows',
         \A r \in Runs : (pc'[r] = pc[r] /\ of'[r] = of[r] /\ keys'[r] = keys[r]) \/ RunReady(r)',
         \A d \in Ids : op'[d] = "OBSERVED" =>
           (op[d] = "OBSERVED" /\ built[d] \subseteq built'[d]) \/ uses'[d] \subseteq built'[d]
  PROVE  IInv'
<1>0. /\ TypeOK /\ InputsOfRows /\ SnapshotRequired /\ PassedDetection /\ ReadyIsRow
      /\ RunsReady /\ BuiltConfigured /\ Typings /\ Contents
  BY TypeHalves DEF IInv
<1>1. \A d \in Ids : snapshot[d] => d \in Rows
  BY <1>0 DEF Contents, InputsOfRows
<1>2. InputsOfRows'
  BY <1>0 DEF InputsOfRows
<1>3. SnapshotRequired'
  BY <1>0, <1>1 DEF SnapshotRequired
<1>4. PassedDetection'
  BY <1>0, <1>1 DEF PassedDetection
<1>5. ReadyIsRow'
  BY <1>0 DEF ReadyIsRow
<1>6. RunsReady'
  <2> SUFFICES ASSUME NEW r \in Runs, pc'[r] = pc[r], of'[r] = of[r], keys'[r] = keys[r]
               PROVE  RunReady(r)'
    BY DEF RunsReady
  <2>1. PICK d : d = of[r]
    OBVIOUS
  <2>2. pc[r] # "idle" => d \in Rows /\ uses'[d] = uses[d]
    BY <1>0, <2>1 DEF RunsReady, RunReady
  <2>3. /\ pc[r] = "detect" => input'[d]
        /\ pc[r] \in {"verify", "decide", "apply", "operation", "locking", "counted", "claim", "create"} =>
             snapshot'[d]
    BY <1>0, <2>1, <2>2 DEF RunsReady, RunReady
  <2>4. /\ pc[r] = "apply" => keys[r] \subseteq saved' /\ uses'[d] \subseteq remote' \cup keys[r]
        /\ pc[r] \in {"operation", "locking", "counted", "claim", "create"} => uses'[d] \subseteq remote'
    BY <1>0, <2>1, <2>2 DEF RunsReady, RunReady
  <2> QED
    BY <2>1, <2>2, <2>3, <2>4 DEF RunReady
<1>7. BuiltConfigured'
  <2> SUFFICES ASSUME NEW d \in Ids, op'[d] = "OBSERVED", op[d] = "OBSERVED", built[d] \subseteq built'[d]
               PROVE  uses'[d] \subseteq built'[d]
    BY DEF BuiltConfigured
  <2>1. d \in Rows
    BY <1>0, <1>1 DEF Contents
  <2> QED
    BY <1>0, <2>1 DEF BuiltConfigured
<1> QED
  BY <1>2, <1>3, <1>4, <1>5, <1>6, <1>7 DEF IInv

LEMMA FirstOperationsCounted ==
  ASSUME NEW S, S \subseteq Ids
  PROVE  /\ IsFiniteSet(S) /\ Cardinality(S) \in Nat
         /\ \A T \in SUBSET S : Cardinality(T) \in Nat /\ Cardinality(T) <= Cardinality(S)
<1>1. IsFiniteSet(Ids)
  BY GatesAssumption, FS_Interval DEF Ids
<1>2. IsFiniteSet(S)
  BY <1>1, FS_Subset
<1>3. \A T \in SUBSET S : IsFiniteSet(T) /\ Cardinality(T) <= Cardinality(S)
  BY <1>2, FS_Subset
<1> QED
  BY <1>2, <1>3, FS_CardinalityType

\* No new run counts, and no operation is opened for the first time.
LEMMA CountsKept ==
  ASSUME IInv, FirstOperations' \subseteq FirstOperations,
         \A r \in Runs : pc'[r] = "counted" => pc[r] = "counted"
  PROVE  OneCounts' /\ WithinLimit'
<1>1. OneCounts /\ WithinLimit
  BY DEF IInv
<1>2. OneCounts'
  BY <1>1 DEF OneCounts
<1>3. FirstOperations \subseteq Ids
  BY DEF FirstOperations, ActiveOperations
<1>4. /\ Cardinality(FirstOperations) \in Nat /\ Cardinality(FirstOperations') \in Nat
      /\ Cardinality(FirstOperations') <= Cardinality(FirstOperations)
  BY <1>3, FirstOperationsCounted
<1>5. WithinLimit'
  BY <1>1, <1>4, GatesAssumption DEF WithinLimit
<1> QED
  BY <1>2, <1>5

-----------------------------------------------------------------------------
(* The requests under way and the pause.                                   *)

LEMMA UnderWayCounted ==
  ASSUME NEW S, S \subseteq Requests
  PROVE  /\ IsFiniteSet(S) /\ Cardinality(S) \in Nat
         /\ \A q \in S : Cardinality(S \ {q}) = Cardinality(S) - 1
<1>1. IsFiniteSet(S)
  BY GatesAssumption, FS_Subset
<1> QED
  BY <1>1, FS_CardinalityType, FS_RemoveElement

\* A request that is answered is under way no more.
LEMMA AnswerLeaves ==
  ASSUME Typings, NEW q \in Requests, at[q] # "idle", Answer(q)
  PROVE  /\ UnderWay' = UnderWay \ {q} /\ q \in UnderWay /\ UnderWay \subseteq Requests
         /\ Cardinality(UnderWay) \in Nat /\ Cardinality(UnderWay') = Cardinality(UnderWay) - 1
<1>1. at \in [Requests -> Phases] /\ at' = [at EXCEPT ![q] = "idle"]
  BY DEF Typings, Answer
<1>2. UnderWay' = UnderWay \ {q} /\ q \in UnderWay /\ UnderWay \subseteq Requests
  BY <1>1 DEF UnderWay
<1> QED
  BY <1>2, UnderWayCounted

\* What the step leaves of the pause, seen from a step that does not touch it.
LEMMA PauseUntouched ==
  ASSUME PauseLasts, Typings, UNCHANGED <<paused, refused, spare>>,
         \/ \A p \in Requests : at'[p] # "idle" => at[p] # "idle"
         \/ ~refused
  PROVE  PauseLasts'
<1>1. CASE ~refused
  BY <1>1 DEF PauseLasts
<1>2. CASE \A p \in Requests : at'[p] # "idle" => at[p] # "idle"
  <2>1. UnderWay' \subseteq UnderWay /\ UnderWay \subseteq Requests
    BY <1>2 DEF UnderWay
  <2>2. /\ Cardinality(UnderWay') <= Cardinality(UnderWay)
        /\ Cardinality(UnderWay') \in Nat /\ Cardinality(UnderWay) \in Nat
    <3>1. IsFiniteSet(UnderWay)
      BY <2>1, UnderWayCounted
    <3> QED
      BY <2>1, <3>1, FS_Subset, FS_CardinalityType
  <2>3. spare \in Int
    BY DEF Typings
  <2> QED
    BY <2>2, <2>3 DEF PauseLasts
<1> QED
  BY <1>1, <1>2

\* A request that starts a deployment is one of those the refusal found.
LEMMA StartIsSpared ==
  ASSUME PauseLasts, Typings, NEW q \in Requests, at[q] # "idle", Answer(q), CountStart
  PROVE  /\ PauseLasts' /\ spare' \in Int /\ UNCHANGED <<paused, old, refused>>
<1>1. UNCHANGED <<paused, old, refused>> /\ spare' = IF refused THEN spare - 1 ELSE 0
  BY DEF CountStart
<1>2. spare \in Int
  BY DEF Typings
<1>3. /\ Cardinality(UnderWay) \in Nat /\ Cardinality(UnderWay') = Cardinality(UnderWay) - 1
  BY AnswerLeaves
<1>4. spare' \in Int
  BY <1>1, <1>2
<1>5. refused => Cardinality(UnderWay') <= spare'
  BY <1>1, <1>2, <1>3 DEF PauseLasts
<1> QED
  BY <1>1, <1>4, <1>5 DEF PauseLasts

\* The refusal itself: what is still under way is counted, unless an earlier
\* refusal has counted it.
LEMMA RefusalCounts ==
  ASSUME PauseLasts, Typings, NEW q \in Requests, PauseApp(q)
  PROVE  PauseLasts' /\ spare' \in Int /\ paused' = TRUE /\ refused' = TRUE /\ old' = old
<1>1. /\ paused' = TRUE /\ refused' = TRUE /\ old' = old /\ Answer(q) /\ at[q] # "idle"
      /\ spare' = IF refused THEN spare ELSE Cardinality(UnderWay \ {q})
  BY DEF PauseApp, WritePause
<1>2. spare \in Int
  BY DEF Typings
<1>3. /\ UnderWay' = UnderWay \ {q} /\ Cardinality(UnderWay) \in Nat
      /\ Cardinality(UnderWay') = Cardinality(UnderWay) - 1
  BY <1>1, AnswerLeaves
<1>4. spare' \in Int /\ Cardinality(UnderWay') <= spare'
  <2>1. CASE refused
    BY <1>1, <1>2, <1>3, <2>1 DEF PauseLasts
  <2>2. CASE ~refused
    BY <1>1, <1>3, <2>2
  <2> QED
    BY <2>1, <2>2
<1> QED
  BY <1>1, <1>4 DEF PauseLasts

-----------------------------------------------------------------------------
(* Requests, and what happens to the app outside its runs.                 *)

\* The requests that touch neither a row nor a run.
LEMMA RequestKeeps ==
  ASSUME IInv,
         \/ \E k \in Keys : saveCustomerAppSecret(k)
         \/ ResumeApp
         \/ \E q \in Requests : \/ ReadPause(q) \/ CountFailures(q) \/ PauseApp(q)
                               \/ getDeploymentReadiness(q) \/ Refuse(q)
         \/ \E d \in Ids : FailureAges(d)
  PROVE  IInv'
<1>0. Typings /\ Contents /\ PauseLasts
  BY TypeHalves DEF IInv
<1>1. /\ UNCHANGED <<count, status, err, uses, input, snapshot, started, required, remote, built,
                     op, again, pc, of, keys>>
      /\ saved \subseteq saved' /\ saved' \subseteq required
  BY <1>0 DEF saveCustomerAppSecret, ResumeApp, ReadPause, CountFailures, PauseApp,
              getDeploymentReadiness, Refuse, FailureAges, rows, config, project, ledger, task, Contents
<1>2. Rows' = Rows /\ Failures' = Failures /\ FirstOperations' = FirstOperations
  BY <1>1 DEF Rows, Failures, FirstOperations, ActiveOperations
<1>3. /\ at' \in [Requests -> Phases] /\ on' \in [Requests -> 0..MaxDeployments]
      /\ \A q \in Requests : at'[q] = "ready" =>
           (at[q] = "ready" /\ on'[q] = on[q]) \/ on'[q] \in Rows
  <2>1. /\ at \in [Requests -> Phases]
        /\ on \in [Requests -> 0..MaxDeployments] /\ count \in 0..MaxDeployments
        /\ 0 \in 0..MaxDeployments
    BY <1>0, GatesAssumption DEF Typings
  <2>2. count > 0 => count \in Rows
    BY <2>1, RowsAreIds
  <2>3. CASE \E q \in Requests : ReadPause(q) \/ CountFailures(q)
    BY <2>1, <2>3 DEF ReadPause, CountFailures, Phases
  <2>4. CASE \E q \in Requests : getDeploymentReadiness(q)
    BY <2>1, <2>2, <2>4 DEF getDeploymentReadiness, Phases
  <2>5. CASE \E q \in Requests : Refuse(q) \/ PauseApp(q)
    BY <2>1, <2>5 DEF Refuse, PauseApp, Answer, Phases
  <2>6. CASE UNCHANGED web
    BY <2>1, <2>6 DEF web
  <2> QED
    BY <2>3, <2>4, <2>5, <2>6 DEF saveCustomerAppSecret, ResumeApp, FailureAges
<1>4. /\ paused' \in BOOLEAN /\ refused' \in BOOLEAN /\ spare' \in Int /\ old' \subseteq Failures
      /\ PauseLasts'
  <2>1. /\ paused \in BOOLEAN /\ refused \in BOOLEAN /\ spare \in Int /\ old \subseteq Failures
        /\ at \in [Requests -> Phases]
    BY <1>0 DEF Typings, Contents
  <2>2. CASE ResumeApp
    <3>1. paused' = FALSE /\ refused' = FALSE /\ spare' = 0 /\ old' = old
      BY <2>2 DEF ResumeApp
    <3>2. paused' \in BOOLEAN /\ refused' \in BOOLEAN /\ PauseLasts'
      BY <3>1 DEF PauseLasts
    <3> QED
      BY <2>1, <3>1, <3>2
  <2>3. CASE \E q \in Requests : PauseApp(q)
    BY <1>0, <2>1, <2>3, RefusalCounts
  <2>4. CASE \E q \in Requests : ReadPause(q)
    <3>1. UNCHANGED hold /\ ~refused
      BY <1>0, <2>4 DEF ReadPause, PauseLasts
    <3> QED
      BY <1>0, <2>1, <3>1, PauseUntouched DEF hold
  <2>5. CASE \E q \in Requests : CountFailures(q) \/ getDeploymentReadiness(q) \/ Refuse(q)
    <3>1. UNCHANGED hold
      BY <2>5 DEF CountFailures, getDeploymentReadiness, Refuse
    <3>2. \A p \in Requests : at'[p] # "idle" => at[p] # "idle"
      BY <2>1, <2>5 DEF CountFailures, getDeploymentReadiness, Refuse, Answer
    <3> QED
      BY <1>0, <2>1, <3>1, <3>2, PauseUntouched DEF hold
  <2>6. CASE (\E k \in Keys : saveCustomerAppSecret(k)) \/ \E d \in Ids : FailureAges(d)
    <3>1. /\ UNCHANGED <<paused, refused, spare, web>>
          /\ old' = old \/ \E d \in Failures : old' = old \cup {d}
      BY <2>6 DEF saveCustomerAppSecret, FailureAges, hold
    <3> QED
      BY <1>0, <2>1, <3>1, PauseUntouched DEF web
  <2> QED
    BY <2>2, <2>3, <2>4, <2>5, <2>6
<1>5. TypeOK'
  <2>1. Typings'
    BY <1>0, <1>1, <1>3, <1>4 DEF Typings
  <2>2. Contents'
    BY <1>0, <1>1, <1>2, <1>4 DEF Contents
  <2> QED
    BY <2>1, <2>2 DEF TypeOK, Typings, Contents
<1>6. OneCounts' /\ WithinLimit'
  BY <1>1, <1>2, CountsKept
<1>7. \A d \in Ids : op'[d] = "OBSERVED" => op[d] = "OBSERVED" /\ built[d] \subseteq built'[d]
  BY <1>1
<1> QED
  BY <1>1, <1>2, <1>3, <1>4, <1>5, <1>6, <1>7, StepKeeps

\* A run is triggered for a row that is there.
LEMMA TriggerFacts ==
  ASSUME IInv, NEW d, d \in Rows', d \in 0..MaxDeployments, Trigger(d)
  PROVE  /\ pc' \in [Runs -> Steps] /\ of' \in [Runs -> 0..MaxDeployments] /\ keys' = keys
         /\ \A r \in Runs : (pc'[r] = pc[r] /\ of'[r] = of[r] /\ keys'[r] = keys[r]) \/ RunReady(r)'
         /\ \A r \in Runs : pc'[r] = "counted" => pc[r] = "counted"
<1>1. pc \in [Runs -> Steps] /\ of \in [Runs -> 0..MaxDeployments]
  BY TypeHalves DEF IInv, Typings
<1>2. PICK r \in Runs : /\ pc' = [pc EXCEPT ![r] = "dispatch"] /\ of' = [of EXCEPT ![r] = d]
                        /\ keys' = keys
  BY DEF Trigger
<1>3. RunReady(r)'
  BY <1>1, <1>2 DEF RunReady
<1> QED
  BY <1>1, <1>2, <1>3 DEF Steps

\* A start, or a resume: a row that is there gets a run.
LEMMA StartKeeps ==
  ASSUME IInv,
         \/ \E q \in Requests : startReadyDeployment(q) \/ RedeployInProgress(q)
         \/ \E d \in Ids : Resume(d)
  PROVE  IInv'
<1>0. Typings /\ Contents /\ ReadyIsRow /\ PauseLasts
  BY TypeHalves DEF IInv
<1>1. UNCHANGED <<count, status, err, uses, input, snapshot, required, saved, remote, built,
                  op, again, paused, old, refused>>
  BY DEF startReadyDeployment, RedeployInProgress, Resume, rows, config, project, ledger, hold,
         CountStart
<1>2. /\ Rows' = Rows /\ Failures' = Failures /\ FirstOperations' = FirstOperations
      /\ Rows \subseteq Ids /\ Rows \subseteq 0..MaxDeployments
  BY <1>0, <1>1, RowsAreIds DEF Rows, Failures, FirstOperations, ActiveOperations, Typings
<1>3. PICK d \in Rows : Trigger(d) /\ started' \in {started, [started EXCEPT ![d] = TRUE]}
  BY <1>0 DEF startReadyDeployment, RedeployInProgress, Resume, ResumeAllowed, InProgress,
              ReadyIsRow, rows
<1>4. /\ pc' \in [Runs -> Steps] /\ of' \in [Runs -> 0..MaxDeployments] /\ keys' = keys
      /\ \A r \in Runs : (pc'[r] = pc[r] /\ of'[r] = of[r] /\ keys'[r] = keys[r]) \/ RunReady(r)'
      /\ \A r \in Runs : pc'[r] = "counted" => pc[r] = "counted"
  BY <1>2, <1>3, TriggerFacts
<1>5. /\ at' \in [Requests -> Phases] /\ on' \in [Requests -> 0..MaxDeployments]
      /\ \A q \in Requests : at'[q] = "ready" => at[q] = "ready" /\ on'[q] = on[q]
  <2>1. /\ at \in [Requests -> Phases]
        /\ on \in [Requests -> 0..MaxDeployments] /\ 0 \in 0..MaxDeployments
    BY <1>0, GatesAssumption DEF Typings
  <2>2. UNCHANGED web \/ \E q \in Requests : Answer(q)
    BY DEF startReadyDeployment, RedeployInProgress, Resume
  <2> QED
    BY <2>1, <2>2 DEF web, Answer, Phases
<1>6. PauseLasts' /\ spare' \in Int
  <2>1. CASE \E q \in Requests : startReadyDeployment(q) \/ RedeployInProgress(q)
    BY <1>0, <2>1, StartIsSpared DEF startReadyDeployment, RedeployInProgress
  <2>2. CASE \E e \in Ids : Resume(e)
    <3>1. UNCHANGED <<hold, web>> /\ spare \in Int
      BY <1>0, <2>2 DEF Resume, Typings
    <3> QED
      BY <1>0, <3>1, PauseUntouched DEF hold, web
  <2> QED
    BY <2>1, <2>2
<1>7. TypeOK'
  <2>1. started' \in [Ids -> BOOLEAN]
    BY <1>0, <1>3 DEF Typings
  <2>2. Typings'
    BY <1>0, <1>1, <1>4, <1>5, <1>6, <2>1 DEF Typings
  <2>3. Contents'
    BY <1>0, <1>1, <1>2 DEF Contents
  <2> QED
    BY <2>2, <2>3 DEF TypeOK, Typings, Contents
<1>8. OneCounts' /\ WithinLimit'
  BY <1>2, <1>4, CountsKept
<1>9. \A d1 \in Ids : op'[d1] = "OBSERVED" => op[d1] = "OBSERVED" /\ built[d1] \subseteq built'[d1]
  BY <1>1
<1> QED
  BY <1>1, <1>2, <1>4, <1>5, <1>6, <1>7, <1>8, <1>9, StepKeeps

\* A new row, with or without its analysis and a run.
LEMMA InsertKeeps ==
  ASSUME IInv, NEW source \in Sources \cup {{}}, NEW analysed \in BOOLEAN,
         Insert(source, analysed),
         required' = IF analysed THEN required \cup source ELSE required,
         err' \in [Ids -> Errors], started' \in [Ids -> BOOLEAN],
         UNCHANGED <<saved, project, ledger>>,
         \/ UNCHANGED task
         \/ Trigger(count'),
         \/ UNCHANGED <<web, hold>>
         \/ \E q \in Requests : at[q] # "idle" /\ Answer(q) /\ CountStart
  PROVE  IInv'
<1>0. Typings /\ Contents /\ InputsOfRows /\ PauseLasts
  BY TypeHalves DEF IInv
<1>1. PICK new \in Ids : new = count + 1 /\ count' = new
  BY <1>0, RowsAreIds DEF Insert, Typings
<1>2. /\ status' = [status EXCEPT ![new] = "ANALYZING"] /\ uses' = [uses EXCEPT ![new] = source]
      /\ input' = [input EXCEPT ![new] = analysed] /\ snapshot' = [snapshot EXCEPT ![new] = analysed]
  BY <1>1 DEF Insert
<1>3. UNCHANGED <<saved, remote, built, op, again, paused, old, refused>>
  BY DEF project, ledger, hold, CountStart
<1>4. /\ new \notin Rows /\ Rows' = Rows \cup {new} /\ Rows \subseteq Ids /\ new \in 0..MaxDeployments
      /\ \A d \in Ids : d > new <=> d > count /\ d # new
      /\ new > count /\ ~(new > new)
  <2>1. count \in 0..MaxDeployments
    BY <1>0 DEF Typings
  <2> QED
    BY <1>1, <2>1, GatesAssumption DEF Rows, Ids
<1>5. /\ status' \in [Ids -> Statuses] /\ uses' \in [Ids -> Sources \cup {{}}]
      /\ input' \in [Ids -> BOOLEAN] /\ snapshot' \in [Ids -> BOOLEAN]
      /\ status'[new] = "ANALYZING" /\ uses'[new] = source
      /\ input'[new] = analysed /\ snapshot'[new] = analysed
      /\ \A d \in Ids \ {new} : /\ status'[d] = status[d] /\ uses'[d] = uses[d]
                                /\ input'[d] = input[d] /\ snapshot'[d] = snapshot[d]
  BY <1>0, <1>2 DEF Typings, Statuses
<1>6. \A d \in Rows : d \in Ids \ {new}
  BY <1>4
<1>7. op[new] = "none" /\ ~input[new]
  BY <1>0, <1>4 DEF Contents, InputsOfRows, Typings
<1>8. /\ pc' \in [Runs -> Steps] /\ of' \in [Runs -> 0..MaxDeployments] /\ keys' = keys
      /\ \A r \in Runs : (pc'[r] = pc[r] /\ of'[r] = of[r] /\ keys'[r] = keys[r]) \/ RunReady(r)'
      /\ \A r \in Runs : pc'[r] = "counted" => pc[r] = "counted"
  <2>1. CASE UNCHANGED task
    BY <1>0, <2>1 DEF task, Typings
  <2>2. CASE Trigger(count')
    <3>1. Trigger(new) /\ new \in Rows'
      BY <1>1, <1>4, <2>2
    <3> QED
      BY <1>4, <3>1, TriggerFacts
  <2> QED
    BY <2>1, <2>2
<1>9. /\ at' \in [Requests -> Phases] /\ on' \in [Requests -> 0..MaxDeployments]
      /\ \A q \in Requests : at'[q] = "ready" => at[q] = "ready" /\ on'[q] = on[q]
  <2>1. /\ at \in [Requests -> Phases]
        /\ on \in [Requests -> 0..MaxDeployments] /\ 0 \in 0..MaxDeployments
    BY <1>0, GatesAssumption DEF Typings
  <2> QED
    BY <2>1 DEF web, Answer, Phases
<1>10. required \subseteq required' /\ (analysed => source \subseteq required')
  OBVIOUS
<1>11. PauseLasts' /\ spare' \in Int
  <2>1. CASE UNCHANGED <<web, hold>>
    <3>1. spare \in Int
      BY <1>0 DEF Typings
    <3> QED
      BY <1>0, <2>1, <3>1, PauseUntouched DEF web, hold
  <2>2. CASE \E q \in Requests : at[q] # "idle" /\ Answer(q) /\ CountStart
    BY <1>0, <2>2, StartIsSpared
  <2> QED
    BY <2>1, <2>2
<1>12. Typings'
  <2>1. count' \in 0..MaxDeployments
    BY <1>1, <1>4
  <2>2. keys' \in [Runs -> SUBSET required']
    BY <1>0, <1>8, <1>10 DEF Typings
  <2> QED
    BY <1>0, <1>3, <1>5, <1>8, <1>9, <1>11, <2>1, <2>2 DEF Typings
<1>13. Contents'
  <2>1. \A d \in Ids : status'[d] = "none" <=> d > count'
    BY <1>0, <1>1, <1>4, <1>5 DEF Contents
  <2>2. required' \subseteq UNION { uses'[d] : d \in Rows' }
    <3> SUFFICES ASSUME NEW k \in required' PROVE \E d \in Rows' : k \in uses'[d]
      OBVIOUS
    <3>1. CASE k \in required
      <4>1. PICK d \in Rows : k \in uses[d]
        BY <1>0, <3>1 DEF Contents
      <4> QED
        BY <1>4, <1>5, <1>6, <4>1
    <3>2. CASE k \notin required
      BY <1>4, <1>5, <3>2
    <3> QED
      BY <3>1, <3>2
  <2>3. \A d \in Ids : (snapshot'[d] => input'[d]) /\ (op'[d] # "none" => snapshot'[d])
    BY <1>0, <1>3, <1>5, <1>7 DEF Contents
  <2>4. old' \subseteq Failures'
    <3>1. Failures \subseteq Failures'
      BY <1>4, <1>5, <1>6 DEF Failures
    <3> QED
      BY <1>0, <1>3, <3>1 DEF Contents
  <2> QED
    BY <1>0, <1>3, <1>10, <2>1, <2>2, <2>3, <2>4 DEF Contents
<1>14. TypeOK'
  BY <1>12, <1>13 DEF TypeOK, Typings, Contents
<1>15. OneCounts' /\ WithinLimit' /\ PauseLasts'
  <2>1. FirstOperations' = FirstOperations
    BY <1>3 DEF FirstOperations, ActiveOperations
  <2> QED
    BY <1>8, <1>11, <2>1, CountsKept
<1>16. \A d \in Rows : /\ uses'[d] = uses[d] /\ (input[d] => input'[d]) /\ (snapshot[d] => snapshot'[d])
  BY <1>5, <1>6
<1>17. \A d \in Ids : /\ input'[d] => input[d] \/ d \in Rows'
                      /\ snapshot'[d] => snapshot[d] \/ uses'[d] \subseteq required'
                      /\ status'[d] \in {"PROVISIONING", "BUILDING"} =>
                           status[d] \in {"PROVISIONING", "BUILDING"}
                      /\ op'[d] = "OBSERVED" => op[d] = "OBSERVED" /\ built[d] \subseteq built'[d]
  BY <1>3, <1>4, <1>5, <1>10
<1> QED
  BY <1>3, <1>4, <1>8, <1>9, <1>10, <1>14, <1>15, <1>16, <1>17, StepKeeps

LEMMA InsertsKeep ==
  ASSUME IInv,
         \/ \E source \in Sources : Analyse(source) \/ markUnsupported(source)
         \/ \E q \in Requests : retryFailedCustomerDeployment(q) \/ redeployLiveCustomerApp(q)
  PROVE  IInv'
<1>0. /\ err \in [Ids -> Errors] /\ started \in [Ids -> BOOLEAN] /\ count \in 0..MaxDeployments
      /\ uses \in [Ids -> Sources \cup {{}}]
  BY TypeHalves DEF IInv, Typings
<1>1. ASSUME NEW source \in Sources, Analyse(source) PROVE IInv'
  BY <1>0, <1>1, InsertKeeps DEF Analyse, sourceDetectedRequirement
<1>2. ASSUME NEW source \in Sources, markUnsupported(source) PROVE IInv'
  BY <1>0, <1>2, InsertKeeps DEF markUnsupported, config, Errors
<1>3. ASSUME NEW q \in Requests, NEW d \in Rows, at[q] # "idle", StartCopyOf(d), Answer(q),
             CountStart, UNCHANGED <<err, config, project, ledger>>
      PROVE  IInv'
  <2>1. uses[d] \in Sources \cup {{}}
    BY <1>0, RowsAreIds
  <2> QED
    BY <1>0, <1>3, <2>1, InsertKeeps DEF StartCopyOf, config
<1>4. ASSUME NEW q \in Requests, retryFailedCustomerDeployment(q) PROVE IInv'
  BY <1>0, <1>3, <1>4, RowsAreIds DEF retryFailedCustomerDeployment
<1>5. ASSUME NEW q \in Requests, redeployLiveCustomerApp(q) PROVE IInv'
  <2>1. Newest(Lives) \in Rows
    <3>1. Lives \subseteq Rows /\ Lives \subseteq 0..MaxDeployments /\ Lives # {}
      BY <1>0, <1>5, RowsAreIds DEF Lives, redeployLiveCustomerApp
    <3> QED
      BY <3>1, NewestThereIs DEF Newest
  <2> QED
    BY <1>3, <1>5, <2>1 DEF redeployLiveCustomerApp
<1> QED
  BY <1>1, <1>2, <1>4, <1>5

-----------------------------------------------------------------------------
(* The orchestrations.                                                     *)

RunStep(r) ==
  \/ Dispatch(r) \/ prepareBuildInput(r) \/ detectEnvRequirements(r)
  \/ ReadRequirements(r) \/ BlockForConfiguration(r) \/ AdvanceToProvisioning(r)
  \/ Provision(r) \/ enforceResourcePolicy(r) \/ ReadBindings(r)
  \/ (\E k \in Keys : ApplyVariable(r, k)) \/ AllApplied(r)
  \/ FindOperation(r) \/ CountOperations(r) \/ RecordIntent(r) \/ ClaimOperation(r)
  \/ CreateBuild(r) \/ ProviderRefuses(r) \/ ExecuteBuildThrows(r)
  \/ RunDies(r)

\* A run moves no other run and no request, and inserts no row.
LEMMA RunKeepsOthers ==
  ASSUME IInv, NEW r \in Runs, RunStep(r)
  PROVE  /\ UNCHANGED <<count, uses, started, saved, paused, old, refused, spare, at, on>>
         /\ pc[r] # "idle" /\ of[r] \in Rows /\ of[r] \in Ids
         /\ pc' \in [Runs -> Steps] /\ of' \in [Runs -> 0..MaxDeployments]
         /\ \A s \in Runs \ {r} : pc'[s] = pc[s] /\ of'[s] = of[s] /\ keys'[s] = keys[s]
         /\ pc'[r] # "idle" => of'[r] = of[r]
<1>0. Typings /\ RunReady(r)
  BY TypeHalves DEF IInv, RunsReady
<1>1. /\ pc \in [Runs -> Steps] /\ of \in [Runs -> 0..MaxDeployments]
      /\ keys \in [Runs -> SUBSET required] /\ 0 \in 0..MaxDeployments
  BY <1>0, GatesAssumption DEF Typings
<1>2. UNCHANGED <<count, uses, started, saved, paused, old, refused, spare, at, on>>
  BY DEF RunStep, Dispatch, prepareBuildInput, detectEnvRequirements, ReadRequirements,
         BlockForConfiguration, AdvanceToProvisioning, Provision, enforceResourcePolicy, Blocked,
         ReadBindings, ApplyVariable, AllApplied, FindOperation, CountOperations, RecordIntent, ClaimOperation,
         CreateBuild, ProviderRefuses, ExecuteBuildThrows, RunDies, rows, config, project, hold, web
<1>3. pc[r] # "idle"
  BY DEF RunStep, Dispatch, prepareBuildInput, detectEnvRequirements, ReadRequirements,
         BlockForConfiguration, AdvanceToProvisioning, Provision, enforceResourcePolicy,
         ReadBindings, ApplyVariable, AllApplied, FindOperation, CountOperations, RecordIntent, ClaimOperation,
         CreateBuild, ProviderRefuses, ExecuteBuildThrows, RunDies
<1>4. of[r] \in Rows /\ of[r] \in Ids
  BY <1>0, <1>3, RowsAreIds DEF RunReady, Typings
<1>5. \/ Return(r)
      \/ /\ of' = of
         /\ pc' = pc \/ \E step \in Steps : pc' = [pc EXCEPT ![r] = step]
         /\ keys' = keys \/ \E K : keys' = [keys EXCEPT ![r] = K]
  <2>1. CASE Dispatch(r)
    BY <2>1 DEF Dispatch, Go, Steps
  <2>2. CASE prepareBuildInput(r) \/ detectEnvRequirements(r) \/ AdvanceToProvisioning(r) \/ Provision(r)
    BY <2>2 DEF prepareBuildInput, detectEnvRequirements, AdvanceToProvisioning, Provision, Go, Steps
  <2>3. CASE BlockForConfiguration(r) \/ CreateBuild(r) \/ ProviderRefuses(r) \/ ExecuteBuildThrows(r)
             \/ RunDies(r)
    BY <2>3 DEF BlockForConfiguration, CreateBuild, ProviderRefuses, ExecuteBuildThrows, RunDies
  <2>4. CASE ReadRequirements(r) \/ ReadBindings(r)
    BY <2>4 DEF ReadRequirements, ReadBindings, Go, Steps
  <2>5. CASE \E k \in Keys : ApplyVariable(r, k)
    BY <2>5 DEF ApplyVariable
  <2>6. CASE enforceResourcePolicy(r) \/ FindOperation(r) \/ CountOperations(r)
    BY <2>6 DEF enforceResourcePolicy, FindOperation, CountOperations, Blocked, Go, Steps
  <2>7. CASE AllApplied(r) \/ RecordIntent(r) \/ ClaimOperation(r)
    BY <2>7 DEF AllApplied, RecordIntent, ClaimOperation, Go, Steps
  <2> QED
    BY <2>1, <2>2, <2>3, <2>4, <2>5, <2>6, <2>7 DEF RunStep
<1>6. CASE Return(r)
  BY <1>1, <1>2, <1>3, <1>4, <1>6 DEF Return, Steps
<1>7. CASE /\ of' = of
           /\ pc' = pc \/ \E step \in Steps : pc' = [pc EXCEPT ![r] = step]
           /\ keys' = keys \/ \E K : keys' = [keys EXCEPT ![r] = K]
  <2>1. pc' \in [Runs -> Steps] /\ \A s \in Runs \ {r} : pc'[s] = pc[s]
    BY <1>1, <1>7
  <2>2. \A s \in Runs \ {r} : keys'[s] = keys[s]
    BY <1>1, <1>7
  <2> QED
    BY <1>1, <1>2, <1>3, <1>4, <1>7, <2>1, <2>2
<1> QED
  BY <1>5, <1>6, <1>7

\* What a run has read and still has to use.
LEMMA RunKeys ==
  ASSUME IInv, NEW r \in Runs, RunStep(r), required \subseteq required'
  PROVE  keys' \in [Runs -> SUBSET required']
<1>1. keys \in [Runs -> SUBSET required] /\ saved \subseteq required
  BY TypeHalves DEF IInv, Typings, Contents
<1>2. \/ keys' = keys
      \/ \E K \in SUBSET required : keys' = [keys EXCEPT ![r] = K]
  <2>1. CASE ReadRequirements(r) \/ ReadBindings(r)
    BY <1>1, <2>1 DEF ReadRequirements, ReadBindings, missingRequiredEnvKeys
  <2>2. CASE \E k \in Keys : ApplyVariable(r, k)
    <3>1. PICK k \in Keys : keys' = [keys EXCEPT ![r] = keys[r] \ {k}]
      BY <2>2 DEF ApplyVariable
    <3> QED
      BY <1>1, <3>1
  <2>3. CASE Return(r)
    BY <2>3 DEF Return
  <2>4. \/ ReadRequirements(r) \/ ReadBindings(r) \/ (\E k \in Keys : ApplyVariable(r, k))
        \/ Return(r) \/ keys' = keys
    BY DEF RunStep, Dispatch, prepareBuildInput, detectEnvRequirements,
           BlockForConfiguration, AdvanceToProvisioning, Provision, enforceResourcePolicy, Blocked,
           AllApplied, FindOperation, CountOperations, RecordIntent, ClaimOperation,
           CreateBuild, ProviderRefuses, ExecuteBuildThrows, RunDies
  <2> QED
    BY <2>1, <2>2, <2>3, <2>4
<1>3. CASE keys' = keys
  BY <1>1, <1>3
<1>4. CASE \E K \in SUBSET required : keys' = [keys EXCEPT ![r] = K]
  BY <1>1, <1>4
<1> QED
  BY <1>2, <1>3, <1>4

\* What a run writes of its row, and of the app's configuration.
LEMMA RunWrites ==
  ASSUME IInv, NEW r \in Runs, RunStep(r)
  PROVE  /\ err' \in [Ids -> Errors]
         /\ \/ status' = status
            \/ /\ status[of[r]] = "ANALYZING" /\ snapshot[of[r]]
               /\ status' = [status EXCEPT ![of[r]] = "PROVISIONING"]
            \/ /\ status[of[r]] \in {"PROVISIONING", "BUILDING"}
               /\ status' = [status EXCEPT ![of[r]] = "BUILDING"]
         /\ input' = input \/ input' = [input EXCEPT ![of[r]] = TRUE]
         /\ \/ snapshot' = snapshot /\ required' = required
            \/ /\ snapshot' = [snapshot EXCEPT ![of[r]] = TRUE] /\ input[of[r]]
               /\ \/ snapshot[of[r]] /\ required' = required
                  \/ required' = required \cup uses[of[r]]
         /\ remote' = remote \/ \E k \in saved : remote' = remote \cup {k}
<1>0. Typings /\ RunReady(r) /\ of[r] \in Ids
  BY TypeHalves, RunKeepsOthers DEF IInv, RunsReady
<1>1. err' \in [Ids -> Errors]
  <2>1. err' = err \/ \E e \in Errors : err' = [err EXCEPT ![of[r]] = e]
    <3>1. CASE BlockForConfiguration(r) \/ AdvanceToProvisioning(r)
      BY <3>1 DEF BlockForConfiguration, AdvanceToProvisioning, Errors
    <3>2. CASE Blocked(r) \/ ProviderRefuses(r)
      BY <3>2 DEF Blocked, ProviderRefuses, Errors
    <3>3. \/ BlockForConfiguration(r) \/ AdvanceToProvisioning(r) \/ Blocked(r) \/ ProviderRefuses(r)
          \/ err' = err
      BY DEF RunStep, Dispatch, prepareBuildInput, detectEnvRequirements, ReadRequirements,
             Provision, enforceResourcePolicy, ReadBindings, ApplyVariable,
             AllApplied, FindOperation, CountOperations, RecordIntent, ClaimOperation,
             CreateBuild, ExecuteBuildThrows, RunDies, rows
    <3> QED
      BY <3>1, <3>2, <3>3
  <2> QED
    BY <1>0, <2>1 DEF Typings
<1>2. \/ status' = status
      \/ /\ status[of[r]] = "ANALYZING" /\ snapshot[of[r]]
         /\ status' = [status EXCEPT ![of[r]] = "PROVISIONING"]
      \/ /\ status[of[r]] \in {"PROVISIONING", "BUILDING"}
         /\ status' = [status EXCEPT ![of[r]] = "BUILDING"]
  <2>1. CASE AdvanceToProvisioning(r)
    BY <1>0, <2>1 DEF AdvanceToProvisioning, RunReady
  <2>2. CASE Provision(r)
    BY <2>2 DEF Provision
  <2>3. AdvanceToProvisioning(r) \/ Provision(r) \/ status' = status
    BY DEF RunStep, Dispatch, prepareBuildInput, detectEnvRequirements, ReadRequirements,
           BlockForConfiguration, enforceResourcePolicy, Blocked, ReadBindings, ApplyVariable,
           AllApplied, FindOperation, CountOperations, RecordIntent, ClaimOperation,
           CreateBuild, ProviderRefuses, ExecuteBuildThrows, RunDies, rows
  <2> QED
    BY <2>1, <2>2, <2>3
<1>3. /\ input' = input \/ input' = [input EXCEPT ![of[r]] = TRUE]
      /\ \/ snapshot' = snapshot /\ required' = required
         \/ /\ snapshot' = [snapshot EXCEPT ![of[r]] = TRUE] /\ input[of[r]]
            /\ \/ snapshot[of[r]] /\ required' = required
               \/ required' = required \cup uses[of[r]]
  <2>1. CASE detectEnvRequirements(r)
    BY <1>0, <2>1 DEF detectEnvRequirements, Detected, sourceDetectedRequirement, RunReady
  <2>2. CASE ~detectEnvRequirements(r)
    BY <2>2 DEF RunStep, Dispatch, prepareBuildInput, ReadRequirements,
                BlockForConfiguration, AdvanceToProvisioning, Provision, enforceResourcePolicy, Blocked,
                ReadBindings, ApplyVariable, AllApplied, FindOperation, CountOperations, RecordIntent, ClaimOperation,
                CreateBuild, ProviderRefuses, ExecuteBuildThrows, RunDies, rows, config
  <2> QED
    BY <2>1, <2>2
<1>4. remote' = remote \/ \E k \in saved : remote' = remote \cup {k}
  <2>1. CASE \E k \in Keys : ApplyVariable(r, k)
    BY <1>0, <2>1 DEF ApplyVariable, RunReady
  <2>2. (\E k \in Keys : ApplyVariable(r, k)) \/ remote' = remote
    BY DEF RunStep, Dispatch, prepareBuildInput, detectEnvRequirements, ReadRequirements,
           BlockForConfiguration, AdvanceToProvisioning, Provision, enforceResourcePolicy, Blocked,
           ReadBindings, AllApplied, FindOperation, CountOperations, RecordIntent, ClaimOperation,
           CreateBuild, ProviderRefuses, ExecuteBuildThrows, RunDies, project
  <2> QED
    BY <2>1, <2>2
<1> QED
  BY <1>1, <1>2, <1>3, <1>4

\* What a run writes of the create operation, and what the build got.
LEMMA RunLedger ==
  ASSUME IInv, NEW r \in Runs, RunStep(r)
  PROVE  \/ UNCHANGED <<op, again, built>>
         \/ /\ pc[r] = "counted" /\ pc'[r] = "claim" /\ op[of[r]] = "none"
            /\ op' = [op EXCEPT ![of[r]] = "INTENT_RECORDED"] /\ UNCHANGED <<again, built>>
         \/ /\ pc[r] = "claim" /\ pc'[r] = "create" /\ op[of[r]] \in {"INTENT_RECORDED", "FAILED"}
            /\ op' = [op EXCEPT ![of[r]] = "CREATE_REQUESTED"]
            /\ again' = IF op[of[r]] = "FAILED" THEN again \cup {of[r]} ELSE again
            /\ UNCHANGED built
         \/ /\ pc[r] = "create" /\ pc'[r] = "idle"
            /\ op' = [op EXCEPT ![of[r]] = "OBSERVED"]
            /\ built' = [built EXCEPT ![of[r]] = remote] /\ UNCHANGED <<again, remote>>
         \/ /\ pc'[r] = "idle" /\ op[of[r]] = "CREATE_REQUESTED"
            /\ op' = [op EXCEPT ![of[r]] = "FAILED"] /\ UNCHANGED <<again, built>>
<1>0. pc \in [Runs -> Steps]
  BY TypeHalves DEF IInv, Typings
<1>1. CASE RecordIntent(r)
  BY <1>0, <1>1 DEF RecordIntent, Go, project
<1>2. CASE ClaimOperation(r)
  BY <1>0, <1>2 DEF ClaimOperation, Go, project
<1>3. CASE CreateBuild(r)
  BY <1>0, <1>3 DEF CreateBuild, Return
<1>4. CASE ProviderRefuses(r) \/ ExecuteBuildThrows(r)
  BY <1>0, <1>4 DEF ProviderRefuses, ExecuteBuildThrows, Return, ReleaseClaim, project
<1>5. \/ RecordIntent(r) \/ ClaimOperation(r) \/ CreateBuild(r) \/ ProviderRefuses(r)
      \/ ExecuteBuildThrows(r) \/ UNCHANGED <<op, again, built>>
  BY DEF RunStep, Dispatch, prepareBuildInput, detectEnvRequirements, ReadRequirements,
         BlockForConfiguration, AdvanceToProvisioning, Provision, enforceResourcePolicy, Blocked,
         ReadBindings, ApplyVariable, AllApplied, FindOperation, CountOperations, RunDies, project, ledger
<1> QED
  BY <1>1, <1>2, <1>3, <1>4, <1>5

\* A run gets to the count under the lock and below the limit only.
LEMMA RunCounts ==
  ASSUME IInv, NEW r \in Runs, RunStep(r), pc'[r] = "counted"
  PROVE  \/ pc[r] = "counted"
         \/ /\ WorkspacePolicyLock /\ Cardinality(ActiveOperations) < max_concurrent_provider_operations
            /\ UNCHANGED <<op, again>>
<1>0. pc \in [Runs -> Steps]
  BY TypeHalves DEF IInv, Typings
<1>1. CASE CountOperations(r)
  BY <1>0, <1>1 DEF CountOperations, Blocked, Return, Go, ledger
<1>2. CASE Return(r) \/ pc' = pc
  BY <1>0, <1>2 DEF Return
<1>3. CASE \E step \in Steps \ {"counted"} : Go(r, step)
  BY <1>0, <1>3 DEF Go
<1>4. CountOperations(r) \/ Return(r) \/ pc' = pc \/ \E step \in Steps \ {"counted"} : Go(r, step)
  <2>1. CASE Dispatch(r)
    BY <2>1 DEF Dispatch, Steps
  <2>2. CASE prepareBuildInput(r) \/ detectEnvRequirements(r) \/ AdvanceToProvisioning(r) \/ Provision(r)
    BY <2>2 DEF prepareBuildInput, detectEnvRequirements, AdvanceToProvisioning, Provision, Steps
  <2>3. CASE BlockForConfiguration(r) \/ CreateBuild(r) \/ ProviderRefuses(r) \/ ExecuteBuildThrows(r)
             \/ RunDies(r)
    BY <2>3 DEF BlockForConfiguration, CreateBuild, ProviderRefuses, ExecuteBuildThrows, RunDies
  <2>4. CASE ReadRequirements(r) \/ ReadBindings(r) \/ \E k \in Keys : ApplyVariable(r, k)
    BY <2>4 DEF ReadRequirements, ReadBindings, ApplyVariable, Steps
  <2>5. CASE enforceResourcePolicy(r)
    BY <2>5 DEF enforceResourcePolicy, Blocked, Steps
  <2>6. CASE AllApplied(r) \/ FindOperation(r) \/ RecordIntent(r) \/ ClaimOperation(r)
    BY <2>6 DEF AllApplied, FindOperation, RecordIntent, ClaimOperation, Steps
  <2> QED
    BY <2>1, <2>2, <2>3, <2>4, <2>5, <2>6 DEF RunStep
<1> QED
  BY <1>1, <1>2, <1>3, <1>4

LEMMA RunKeepsCounts ==
  ASSUME IInv, NEW r \in Runs, RunStep(r)
  PROVE  OneCounts' /\ WithinLimit'
<1>0. /\ OneCounts /\ WithinLimit
      /\ op \in [Ids -> {"none", "INTENT_RECORDED", "CREATE_REQUESTED", "OBSERVED", "FAILED"}]
      /\ of[r] \in Ids /\ \A s \in Runs \ {r} : pc'[s] = pc[s]
  BY TypeHalves, RunKeepsOthers DEF IInv, Typings
<1>1. /\ FirstOperations \subseteq Ids /\ ActiveOperations \subseteq Ids
      /\ FirstOperations \subseteq ActiveOperations
  BY DEF FirstOperations, ActiveOperations
<1>2. /\ IsFiniteSet(FirstOperations) /\ Cardinality(FirstOperations) \in Nat
      /\ Cardinality(ActiveOperations) \in Nat
      /\ Cardinality(FirstOperations) <= Cardinality(ActiveOperations)
  BY <1>1, FirstOperationsCounted
<1>3. CASE pc[r] = "counted" /\ pc'[r] # "counted" /\ FirstOperations' \subseteq FirstOperations \cup {of[r]}
  <2>1. /\ Cardinality(FirstOperations \cup {of[r]}) <= Cardinality(FirstOperations) + 1
        /\ FirstOperations \cup {of[r]} \subseteq Ids
    <3>1. Cardinality(FirstOperations \cup {of[r]}) =
            IF of[r] \in FirstOperations THEN Cardinality(FirstOperations)
                                         ELSE Cardinality(FirstOperations) + 1
      BY <1>2, FS_AddElement
    <3> QED
      BY <1>0, <1>1, <1>2, <3>1
  <2>2. /\ Cardinality(FirstOperations') \in Nat
        /\ Cardinality(FirstOperations') <= Cardinality(FirstOperations \cup {of[r]})
        /\ Cardinality(FirstOperations \cup {of[r]}) \in Nat
    BY <1>3, <2>1, FirstOperationsCounted
  <2>3. Cardinality(FirstOperations) < max_concurrent_provider_operations
    BY <1>0, <1>3 DEF WithinLimit
  <2>4. Cardinality(FirstOperations') <= max_concurrent_provider_operations
    BY <1>2, <2>1, <2>2, <2>3, GatesAssumption
  <2>5. \A s \in Runs : pc'[s] # "counted"
    BY <1>0, <1>3 DEF OneCounts
  <2> QED
    BY <2>4, <2>5 DEF OneCounts, WithinLimit
<1>4. CASE /\ \A s \in Runs : pc[s] # "counted"
           /\ Cardinality(ActiveOperations) < max_concurrent_provider_operations
           /\ UNCHANGED <<op, again>>
  <2>1. FirstOperations' = FirstOperations
    BY <1>4 DEF FirstOperations, ActiveOperations
  <2>2. Cardinality(FirstOperations) < max_concurrent_provider_operations
    BY <1>2, <1>4, GatesAssumption
  <2>3. WithinLimit'
    BY <1>2, <2>1, <2>2, GatesAssumption DEF WithinLimit
  <2>4. OneCounts'
    BY <1>0, <1>4 DEF OneCounts
  <2> QED
    BY <2>3, <2>4
<1>5. CASE FirstOperations' \subseteq FirstOperations /\ (pc'[r] = "counted" => pc[r] = "counted")
  BY <1>0, <1>5, CountsKept
<1>6. \/ FirstOperations' \subseteq FirstOperations
      \/ /\ pc[r] = "counted" /\ pc'[r] = "claim"
         /\ FirstOperations' \subseteq FirstOperations \cup {of[r]}
  <2>1. CASE UNCHANGED <<op, again>>
    BY <2>1 DEF FirstOperations, ActiveOperations
  <2>2. CASE \E s \in {"INTENT_RECORDED", "CREATE_REQUESTED", "OBSERVED", "FAILED"} :
               op' = [op EXCEPT ![of[r]] = s]
    <3>1. PICK d \in Ids : d = of[r]
      BY <1>0
    <3>2. \A e \in Ids \ {d} : op'[e] = op[e]
      BY <1>0, <2>2, <3>1
    <3>3. again \subseteq again'
      BY RunLedger
    <3>4. FirstOperations' \subseteq FirstOperations \cup {d}
      BY <3>2, <3>3 DEF FirstOperations, ActiveOperations
    <3>5. \/ pc[r] = "counted" /\ pc'[r] = "claim"
          \/ op[d] = "INTENT_RECORDED" \/ op[d] = "CREATE_REQUESTED"
          \/ d \in again'
          \/ op'[d] \in {"OBSERVED", "FAILED"}
      <4>1. CASE UNCHANGED <<op, again>> /\ op[d] = "none"
        BY <1>0, <2>2, <3>1, <4>1
      <4>2. \A s : op' = [op EXCEPT ![of[r]] = s] => op'[d] = s
        BY <1>0, <3>1
      <4>3. op[d] \in {"none", "INTENT_RECORDED", "CREATE_REQUESTED", "OBSERVED", "FAILED"}
        BY <1>0
      <4> QED
        BY <3>1, <4>1, <4>2, <4>3, RunLedger
    <3>6. op[d] \in {"INTENT_RECORDED", "CREATE_REQUESTED"} => d \in ActiveOperations
      BY DEF ActiveOperations
    <3>7. d \in again' \/ op'[d] \in {"OBSERVED", "FAILED"} => d \notin FirstOperations'
      BY DEF FirstOperations, ActiveOperations
    <3>8. d \in again => d \in again'
      BY <3>3
    <3> QED
      BY <3>1, <3>4, <3>5, <3>6, <3>7, <3>8 DEF FirstOperations
  <2> QED
    BY <2>1, <2>2, RunLedger
<1> QED
  BY <1>3, <1>4, <1>5, <1>6, RunCounts DEF WorkspacePolicyLock

\* What the run has established at its next step.
LEMMA RunGetsReady ==
  ASSUME IInv, NEW r \in Runs, RunStep(r)
  PROVE  (pc'[r] = pc[r] /\ of'[r] = of[r] /\ keys'[r] = keys[r]) \/ RunReady(r)'
<1>0. /\ Typings /\ Contents /\ RunReady(r) /\ SnapshotRequired /\ PassedDetection
      /\ of[r] \in Ids /\ of[r] \in Rows /\ Rows' = Rows
      /\ pc \in [Runs -> Steps] /\ of \in [Runs -> 0..MaxDeployments]
      /\ keys \in [Runs -> SUBSET required]
      /\ snapshot \in [Ids -> BOOLEAN] /\ input \in [Ids -> BOOLEAN]
  BY TypeHalves, RunKeepsOthers DEF IInv, RunsReady, Typings, Rows
<1>1. CASE Return(r) \/ \E step \in {"dispatch", "prepare", "provision", "policy", "bindings"} : Go(r, step) /\ of' = of
  BY <1>0, <1>1 DEF Return, Go, RunReady
<1>2. CASE prepareBuildInput(r)
  BY <1>0, <1>2 DEF prepareBuildInput, Go, RunReady
<1>3. CASE detectEnvRequirements(r)
  BY <1>0, <1>3 DEF detectEnvRequirements, Go, RunReady
<1>4. CASE ReadRequirements(r)
  <2>1. pc'[r] = "decide" /\ of' = of /\ snapshot' = snapshot /\ pc[r] = "verify"
    BY <1>0, <1>4 DEF ReadRequirements, Go, rows
  <2> QED
    BY <1>0, <2>1 DEF RunReady
<1>5. CASE ReadBindings(r)
  <2>1. /\ pc'[r] = "apply" /\ of' = of /\ keys'[r] = saved /\ required \subseteq saved
        /\ status[of[r]] = "BUILDING" /\ UNCHANGED <<uses, snapshot, saved, remote>>
    BY <1>0, <1>5 DEF ReadBindings, Go, rows, config, project, missingRequiredEnvKeys
  <2>2. snapshot[of[r]] /\ uses[of[r]] \subseteq required
    BY <1>0, <2>1 DEF PassedDetection, SnapshotRequired
  <2> QED
    BY <1>0, <2>1, <2>2 DEF RunReady
<1>6. ASSUME NEW k \in Keys, ApplyVariable(r, k) PROVE RunReady(r)'
  <2>1. /\ pc[r] = "apply" /\ pc' = pc /\ of' = of /\ keys'[r] = keys[r] \ {k} /\ k \in keys[r]
        /\ remote' = remote \cup {k} /\ UNCHANGED <<uses, snapshot, saved>>
    BY <1>0, <1>6 DEF ApplyVariable, rows, config
  <2>2. keys[r] \subseteq saved /\ uses[of[r]] \subseteq remote \cup keys[r] /\ snapshot[of[r]]
    BY <1>0, <2>1 DEF RunReady
  <2>3. keys'[r] \subseteq saved /\ uses[of[r]] \subseteq remote' \cup keys'[r]
    BY <2>1, <2>2
  <2> QED
    BY <1>0, <2>1, <2>2, <2>3 DEF RunReady
<1>7. CASE AllApplied(r)
  <2>1. /\ pc[r] = "apply" /\ pc'[r] = "operation" /\ of' = of /\ keys[r] = {}
        /\ UNCHANGED <<uses, snapshot, remote>>
    BY <1>0, <1>7 DEF AllApplied, Go, rows, project
  <2> QED
    BY <1>0, <2>1 DEF RunReady
<1>8. CASE FindOperation(r) \/ CountOperations(r) \/ RecordIntent(r) \/ ClaimOperation(r)
  <2>1. \/ Return(r)
        \/ /\ pc[r] \in {"operation", "locking", "counted", "claim"}
           /\ pc'[r] \in {"locking", "counted", "claim", "create"}
           /\ of' = of /\ UNCHANGED <<uses, snapshot, remote>>
    BY <1>0, <1>8 DEF FindOperation, CountOperations, Blocked, RecordIntent, ClaimOperation, Go, rows, project
  <2> QED
    BY <1>0, <1>1, <2>1 DEF RunReady
<1>9. \/ Return(r)
      \/ \E step \in {"dispatch", "prepare", "provision", "policy", "bindings"} : Go(r, step) /\ of' = of
      \/ prepareBuildInput(r) \/ detectEnvRequirements(r) \/ ReadRequirements(r) \/ ReadBindings(r)
      \/ (\E k \in Keys : ApplyVariable(r, k)) \/ AllApplied(r)
      \/ FindOperation(r) \/ CountOperations(r) \/ RecordIntent(r) \/ ClaimOperation(r)
  <2>1. CASE Dispatch(r)
    BY <2>1 DEF Dispatch
  <2>2. CASE AdvanceToProvisioning(r) \/ Provision(r) \/ enforceResourcePolicy(r)
    BY <2>2 DEF AdvanceToProvisioning, Provision, enforceResourcePolicy, Blocked
  <2>3. CASE BlockForConfiguration(r) \/ CreateBuild(r) \/ ProviderRefuses(r) \/ ExecuteBuildThrows(r)
             \/ RunDies(r)
    BY <2>3 DEF BlockForConfiguration, CreateBuild, ProviderRefuses, ExecuteBuildThrows, RunDies
  <2> QED
    BY <2>1, <2>2, <2>3 DEF RunStep
<1> QED
  BY <1>1, <1>2, <1>3, <1>4, <1>5, <1>6, <1>7, <1>8, <1>9

\* A step of a run.
LEMMA RunKeeps ==
  ASSUME IInv, NEW r \in Runs, RunStep(r)
  PROVE  IInv'
<1>0. Typings /\ Contents /\ InputsOfRows /\ SnapshotRequired /\ PauseLasts /\ RunReady(r)
  BY TypeHalves DEF IInv, RunsReady
<1>1. /\ UNCHANGED <<count, uses, started, saved, paused, old, refused, spare, at, on>>
      /\ pc[r] # "idle" /\ of[r] \in Rows /\ of[r] \in Ids
      /\ pc' \in [Runs -> Steps] /\ of' \in [Runs -> 0..MaxDeployments]
      /\ \A s \in Runs \ {r} : pc'[s] = pc[s] /\ of'[s] = of[s] /\ keys'[s] = keys[s]
  BY RunKeepsOthers
<1>2. PICK d \in Rows : d = of[r] /\ d \in Ids
  BY <1>1
<1>3. /\ err' \in [Ids -> Errors]
      /\ \/ status' = status
         \/ /\ status[d] = "ANALYZING" /\ snapshot[d]
            /\ status' = [status EXCEPT ![d] = "PROVISIONING"]
         \/ /\ status[d] \in {"PROVISIONING", "BUILDING"}
            /\ status' = [status EXCEPT ![d] = "BUILDING"]
      /\ input' = input \/ input' = [input EXCEPT ![d] = TRUE]
      /\ \/ snapshot' = snapshot /\ required' = required
         \/ /\ snapshot' = [snapshot EXCEPT ![d] = TRUE] /\ input[d]
            /\ \/ snapshot[d] /\ required' = required
               \/ required' = required \cup uses[d]
      /\ remote' = remote \/ \E k \in saved : remote' = remote \cup {k}
  BY <1>2, RunWrites
<1>4. Rows' = Rows /\ Rows \subseteq Ids
  BY <1>0, <1>1, RowsAreIds DEF Rows, Typings
<1>5. /\ required \subseteq required' /\ required' \subseteq required \cup uses[d]
      /\ remote \subseteq remote' /\ remote' \subseteq saved
  BY <1>0, <1>3 DEF Contents
<1>6. /\ status' \in [Ids -> Statuses]
      /\ \A e \in Ids : /\ status'[e] = "none" <=> status[e] = "none"
                        /\ status[e] = "FAILED" => status'[e] = "FAILED"
                        /\ status'[e] \in {"PROVISIONING", "BUILDING"} =>
                             status[e] \in {"PROVISIONING", "BUILDING"} \/ snapshot[e]
  <2>1. status \in [Ids -> Statuses]
    BY <1>0 DEF Typings
  <2> QED
    BY <1>2, <1>3, <2>1 DEF Statuses
<1>7. /\ input' \in [Ids -> BOOLEAN] /\ snapshot' \in [Ids -> BOOLEAN]
      /\ \A e \in Ids : /\ (input[e] => input'[e]) /\ (snapshot[e] => snapshot'[e])
                        /\ input'[e] => input[e] \/ e = d
                        /\ snapshot'[e] => snapshot[e] \/ (e = d /\ input[d] /\ uses[d] \subseteq required')
  <2>1. input \in [Ids -> BOOLEAN] /\ snapshot \in [Ids -> BOOLEAN]
    BY <1>0 DEF Typings
  <2>2. /\ input' \in [Ids -> BOOLEAN]
        /\ \A e \in Ids : (input[e] => input'[e]) /\ (input'[e] => input[e] \/ e = d)
    BY <1>2, <1>3, <2>1
  <2>3. /\ snapshot' \in [Ids -> BOOLEAN]
        /\ \A e \in Ids : /\ snapshot[e] => snapshot'[e]
                          /\ snapshot'[e] => snapshot[e] \/ (e = d /\ input[d] /\ uses[d] \subseteq required')
    BY <1>2, <1>3, <2>1
  <2> QED
    BY <2>2, <2>3
<1>8. /\ op' \in [Ids -> {"none", "INTENT_RECORDED", "CREATE_REQUESTED", "OBSERVED", "FAILED"}]
      /\ again' \subseteq Ids /\ built' \in [Ids -> SUBSET remote']
      /\ \A e \in Ids : op'[e] # "none" => op[e] # "none" \/ (e = d /\ snapshot[d])
      /\ \A e \in Ids : op'[e] = "OBSERVED" =>
           (op[e] = "OBSERVED" /\ built[e] \subseteq built'[e]) \/ (e = d /\ uses[d] \subseteq built'[d])
  <2>1. /\ op \in [Ids -> {"none", "INTENT_RECORDED", "CREATE_REQUESTED", "OBSERVED", "FAILED"}]
        /\ again \subseteq Ids /\ built \in [Ids -> SUBSET remote]
        /\ built \in [Ids -> SUBSET remote']
    BY <1>0, <1>5 DEF Typings
  <2>2. pc[r] = "counted" => snapshot[d]
    BY <1>0, <1>2 DEF RunReady
  <2>3. pc[r] = "create" => uses[d] \subseteq remote
    BY <1>0, <1>2 DEF RunReady
  <2>4. \/ UNCHANGED <<op, again, built>>
        \/ /\ pc[r] = "counted"
           /\ op' = [op EXCEPT ![d] = "INTENT_RECORDED"] /\ UNCHANGED <<again, built>>
        \/ /\ op[d] # "none" /\ \E s \in {"CREATE_REQUESTED", "FAILED"} : op' = [op EXCEPT ![d] = s]
           /\ again' \in {again, again \cup {d}} /\ UNCHANGED built
        \/ /\ pc[r] = "create"
           /\ op' = [op EXCEPT ![d] = "OBSERVED"] /\ UNCHANGED again
           /\ built' = [built EXCEPT ![d] = remote] /\ UNCHANGED remote
    BY <1>2, RunLedger
  <2>5. CASE UNCHANGED <<op, again, built>>
    BY <2>1, <2>5
  <2>6. CASE /\ pc[r] = "counted"
             /\ op' = [op EXCEPT ![d] = "INTENT_RECORDED"] /\ UNCHANGED <<again, built>>
    BY <1>2, <2>1, <2>2, <2>6
  <2>7. CASE /\ op[d] # "none" /\ \E s \in {"CREATE_REQUESTED", "FAILED"} : op' = [op EXCEPT ![d] = s]
             /\ again' \in {again, again \cup {d}} /\ UNCHANGED built
    BY <1>2, <2>1, <2>7
  <2>8. CASE /\ pc[r] = "create"
             /\ op' = [op EXCEPT ![d] = "OBSERVED"] /\ UNCHANGED again
             /\ built' = [built EXCEPT ![d] = remote] /\ UNCHANGED remote
    <3>1. /\ built' \in [Ids -> SUBSET remote'] /\ built'[d] = remote
          /\ \A e \in Ids \ {d} : built'[e] = built[e]
      BY <1>2, <2>1, <2>8
    <3>2. /\ op' \in [Ids -> {"none", "INTENT_RECORDED", "CREATE_REQUESTED", "OBSERVED", "FAILED"}]
          /\ \A e \in Ids \ {d} : op'[e] = op[e]
      BY <1>2, <2>1, <2>8
    <3>3. snapshot[d] /\ again' \subseteq Ids
      BY <1>0, <1>2, <2>1, <2>8 DEF RunReady
    <3> QED
      BY <1>2, <2>3, <2>8, <3>1, <3>2, <3>3
  <2> QED
    BY <2>4, <2>5, <2>6, <2>7, <2>8
<1>9. Typings'
  <2>1. keys' \in [Runs -> SUBSET required']
    BY <1>5, RunKeys
  <2> QED
    BY <1>0, <1>1, <1>3, <1>6, <1>7, <1>8, <2>1 DEF Typings
<1>10. Contents'
  <2>1. \A e \in Ids : status'[e] = "none" <=> e > count'
    BY <1>0, <1>1, <1>6 DEF Contents
  <2>2. required' \subseteq UNION { uses'[e] : e \in Rows' }
    BY <1>0, <1>1, <1>4, <1>5 DEF Contents
  <2>3. saved' \subseteq required' /\ remote' \subseteq saved'
    BY <1>0, <1>1, <1>5 DEF Contents
  <2>4. \A e \in Ids : (snapshot'[e] => input'[e]) /\ (op'[e] # "none" => snapshot'[e])
    BY <1>0, <1>7, <1>8 DEF Contents
  <2>5. old' \subseteq Failures'
    BY <1>0, <1>1, <1>4, <1>6 DEF Contents, Failures
  <2> QED
    BY <2>1, <2>2, <2>3, <2>4, <2>5 DEF Contents
<1>11. TypeOK'
  BY <1>9, <1>10 DEF TypeOK, Typings, Contents
<1>12. PauseLasts'
  BY <1>0, <1>1, PauseUntouched
<1>13. \A s \in Runs : (pc'[s] = pc[s] /\ of'[s] = of[s] /\ keys'[s] = keys[s]) \/ RunReady(s)'
  BY <1>1, RunGetsReady
<1>14. \A e \in Rows : /\ uses'[e] = uses[e]
                       /\ (input[e] => input'[e]) /\ (snapshot[e] => snapshot'[e])
  BY <1>1, <1>4, <1>7
<1>15. \A e \in Ids : /\ input'[e] => input[e] \/ e \in Rows'
                      /\ snapshot'[e] => snapshot[e] \/ uses'[e] \subseteq required'
                      /\ op'[e] = "OBSERVED" =>
                           (op[e] = "OBSERVED" /\ built[e] \subseteq built'[e]) \/ uses'[e] \subseteq built'[e]
  BY <1>1, <1>4, <1>7, <1>8
<1>16. OneCounts' /\ WithinLimit'
  BY RunKeepsCounts
<1> QED
  BY <1>1, <1>4, <1>5, <1>6, <1>11, <1>12, <1>13, <1>14, <1>15, <1>16, StepKeeps

\* A deployment comes to its end, or nothing happens.
LEMMA EndKeeps ==
  ASSUME IInv,
         \/ \E d \in Ids, outcome \in {"LIVE", "FAILED"} : DeploymentEnds(d, outcome)
         \/ UNCHANGED vars
  PROVE  IInv'
<1>0. Typings /\ Contents /\ PauseLasts
  BY TypeHalves DEF IInv
<1>1. UNCHANGED <<count, uses, input, snapshot, started, required, saved, remote, built, op, again,
                  paused, old, refused, spare, at, on, pc, of, keys>>
  BY DEF DeploymentEnds, vars, rows, config, project, hold, ledger, web, task
<1>2. /\ err' \in [Ids -> Errors] /\ status' \in [Ids -> Statuses]
      /\ \A e \in Ids : \/ status'[e] = status[e]
                        \/ e \in InProgress /\ status'[e] \in {"LIVE", "FAILED"}
  <2>1. status \in [Ids -> Statuses] /\ err \in [Ids -> Errors]
    BY <1>0 DEF Typings
  <2>2. CASE UNCHANGED vars
    BY <2>1, <2>2 DEF vars, rows
  <2>3. CASE \E d \in Ids, outcome \in {"LIVE", "FAILED"} : DeploymentEnds(d, outcome)
    <3>1. PICK d \in InProgress, outcome \in {"LIVE", "FAILED"} :
            /\ status' = [status EXCEPT ![d] = outcome]
            /\ \E e \in Errors : err' = [err EXCEPT ![d] = e]
      BY <2>3 DEF DeploymentEnds, Errors
    <3> QED
      BY <2>1, <3>1 DEF Statuses
  <2> QED
    BY <2>2, <2>3
<1>3. Rows' = Rows /\ FirstOperations' = FirstOperations
  BY <1>1 DEF Rows, FirstOperations, ActiveOperations
<1>4. TypeOK'
  <2>1. Typings'
    BY <1>0, <1>1, <1>2 DEF Typings
  <2>2. \A e \in Ids : status'[e] = "none" <=> status[e] = "none"
    BY <1>2 DEF InProgress
  <2>3. old' \subseteq Failures'
    <3>1. Rows \subseteq Ids
      BY <1>0, RowsAreIds DEF Typings
    <3>2. Failures \subseteq Failures'
      BY <1>2, <1>3, <3>1 DEF Failures, InProgress
    <3> QED
      BY <1>0, <1>1, <3>2 DEF Contents
  <2>4. Contents'
    BY <1>0, <1>1, <1>3, <2>2, <2>3 DEF Contents
  <2> QED
    BY <2>1, <2>4 DEF TypeOK, Typings, Contents
<1>5. OneCounts' /\ WithinLimit' /\ PauseLasts'
  <2>1. PauseLasts'
    BY <1>0, <1>1, PauseUntouched
  <2> QED
    BY <1>1, <1>3, <2>1, CountsKept
<1>6. \A e \in Ids : status'[e] \in {"PROVISIONING", "BUILDING"} => status[e] \in {"PROVISIONING", "BUILDING"}
  BY <1>2
<1>7. \A e \in Ids : op'[e] = "OBSERVED" => op[e] = "OBSERVED" /\ built[e] \subseteq built'[e]
  BY <1>1
<1> QED
  BY <1>1, <1>3, <1>4, <1>5, <1>6, <1>7, StepKeeps

-----------------------------------------------------------------------------
(* The invariant, and what follows from it.                                *)

LEMMA NextIInv ==
  ASSUME IInv, [Next]_vars
  PROVE  IInv'
<1>1. ASSUME NEW r \in Runs, RunStep(r) PROVE IInv'
  BY <1>1, RunKeeps
<1>2. ASSUME NEW q \in Requests,
             \/ ReadPause(q) \/ CountFailures(q) \/ PauseApp(q)
             \/ getDeploymentReadiness(q) \/ startReadyDeployment(q)
             \/ retryFailedCustomerDeployment(q) \/ redeployLiveCustomerApp(q)
             \/ RedeployInProgress(q) \/ Refuse(q)
      PROVE  IInv'
  BY <1>2, RequestKeeps, StartKeeps, InsertsKeep
<1>3. ASSUME NEW d \in Ids,
             \/ FailureAges(d) \/ Resume(d)
             \/ \E outcome \in {"LIVE", "FAILED"} : DeploymentEnds(d, outcome)
      PROVE  IInv'
  BY <1>3, RequestKeeps, StartKeeps, EndKeeps
<1>4. CASE \/ \E source \in Sources : Analyse(source) \/ markUnsupported(source)
           \/ \E k \in Keys : saveCustomerAppSecret(k)
           \/ ResumeApp
           \/ UNCHANGED vars
  BY <1>4, InsertsKeep, RequestKeeps, EndKeeps
<1> QED
  BY <1>1, <1>2, <1>3, <1>4 DEF Next, RunStep

LEMMA Invariance == Spec => []IInv
<1>1. Init => IInv
  BY InitIInv
<1>2. IInv /\ [Next]_vars => IInv'
  BY NextIInv
<1> QED
  BY <1>1, <1>2, PTL DEF Spec

\* Requirements, saved values and applied variables always go together as
\* the tables mean them to: only what a source reads is required, only what
\* is required is saved, only what is saved reaches the project and a build.
THEOREM TypeCorrect == Spec => []TypeOK
<1>1. IInv => TypeOK
  BY DEF IInv
<1> QED
  BY <1>1, Invariance, PTL

\* A build that was created got every variable its source reads, whatever
\* other commits, resumed runs and redeployments did in between
\* (verify-env-requirements.ts, apply-runtime-env.ts).
THEOREM BuildsAreConfigured == Spec => []BuiltConfigured
<1>1. IInv => BuiltConfigured
  BY DEF IInv
<1> QED
  BY <1>1, Invariance, PTL

\* The operations opened for the first time never exceed the limit of the
\* workspace: the policy's row is locked from the count to the insert.
THEOREM LimitHolds == Spec => []OperationsWithinLimit
<1>1. IInv => OperationsWithinLimit
  BY DEF IInv, WithinLimit, FirstOperations, OperationsWithinLimit
<1> QED
  BY <1>1, Invariance, PTL

\* From the refusal of an attempt for the failures of the app until an
\* operator resumes it, requests start no more deployments than were under
\* way at the refusal (enforceFailureCooldown): the pause outlives the
\* refusal, and the ageing of the failures.
THEOREM RefusalContains == Spec => []FewAfterRefusal
<1>1. IInv => FewAfterRefusal
  <2> SUFFICES ASSUME IInv, refused PROVE spare >= 0
    BY DEF FewAfterRefusal
  <2>1. Cardinality(UnderWay) <= spare /\ spare \in Int
    BY TypeHalves DEF IInv, PauseLasts, Typings
  <2>2. Cardinality(UnderWay) \in Nat
    BY UnderWayCounted DEF UnderWay
  <2> QED
    BY <2>1, <2>2
<1> QED
  BY <1>1, Invariance, PTL

=============================================================================
