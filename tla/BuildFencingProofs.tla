------------------------- MODULE BuildFencingProofs -------------------------
(***************************************************************************)
(* Proofs, for any number of runs, tasks and provider ids, that the        *)
(* BUILDING stage keeps its safety invariants and implements               *)
(* DeploymentLifecycle.                                                    *)
(*                                                                         *)
(* The invariants of BuildFencing say what the rows hold; they are not     *)
(* inductive, because a task acts on what it read before. IInv adds what   *)
(* every task in flight remembers: a run about to attach holds a visible   *)
(* provider deployment, a reconciliation about to advance saw a build      *)
(* that still is READY, a timeout holds a build that was announced and,   *)
(* before it fails the deployment, a recorded outcome. All of these stay   *)
(* true because the provider never takes back an id or a final state and   *)
(* announcements are never deleted (ProviderKeeps, AnnouncementsKept).     *)
(***************************************************************************)
EXTENDS BuildFencing, TLAPS

Visible(id) == remote[id] \notin {"unused", "accepted"}

\* A run that is about to attach holds a deployment the provider shows.
TargetsVisible ==
  \A r \in Runs : pc[r] = "attach" => target[r] \in RemoteIds /\ Visible(target[r])

\* A reconciliation about to advance saw an announced build READY, and READY
\* is final.
ChecksTraced ==
  \A c \in Checkers : check[c] = "advance-deploying" =>
    buildPid # NULL /\ \E id \in traced : remote[id] = "READY"

\* Once a timeout or abandon task contains, the outcome it is about to record
\* is true, and a timeout fails the deployment only with an outcome on record.
StopTraced(s) ==
  /\ stop[s].pid \in traced \cup {NULL}
  /\ stop[s].step \in {"lookup", "cancel", "record"} => stop[s].pid # NULL
  /\ stop[s].step = "record" =>
       /\ stop[s].outcome # "NONE"
       /\ stop[s].outcome = "CANCEL_CONFIRMED" => remote[stop[s].pid] = "CANCELED"
       /\ stop[s].outcome = "ALREADY_TERMINAL" => remote[stop[s].pid] \in RemoteTerminal
  /\ stop[s].step = "fail" => containment # "NONE"

StopsTraced == \A s \in Stoppers : StopTraced(s)

IInv ==
  /\ TypeOK
  /\ TargetsVisible
  /\ RowsAgree
  /\ ResultsTraced
  /\ ChecksTraced
  /\ StopsTraced
  /\ DeployingHasReadyBuild
  /\ ContainmentEvidence

-----------------------------------------------------------------------------
(* Types.                                                                  *)

\* A run's locals stay well typed when it moves on or ends.
LEMMA LocalsTyped ==
  ASSUME TypeOK, NEW r \in Runs, NEW step \in Steps,
         GoTo(r, step) \/ Finish(r)
  PROVE  /\ pc' \in [Runs -> Steps]
         /\ opSeen' \in [Runs -> OperationStatuses]
         /\ target' \in [Runs -> RemoteIds \cup {NULL}]
         /\ posts' \in [Runs -> 0 .. MaxPosts]
<1> USE ConstantsAssumption DEF TypeOK
<1>1. CASE GoTo(r, step)
  BY <1>1 DEF GoTo
<1>2. CASE Finish(r)
  BY <1>2 DEF Finish, Steps, OperationStatuses
<1> QED
  BY <1>1, <1>2

LEMMA ReleaseTyped ==
  ASSUME TypeOK, ReleaseClaim
  PROVE  opStatus' \in OperationStatuses /\ opResource' = opResource
  BY DEF TypeOK, ReleaseClaim, OperationStatuses

\* An execute-build step keeps the types.
LEMMA BuildTyped ==
  ASSUME TypeOK, TargetsVisible, NEW r \in Runs, BuildRun(r)
  PROVE  TypeOK'
<1> USE DEF TypeOK, deployment, ledger, evidence, builders
<1>1. CASE StartBuild(r)
  BY <1>1, LocalsTyped, ReleaseTyped DEF StartBuild, Steps
<1>2. CASE ensureBuildOperation(r)
  <2>1. opStatus' \in OperationStatuses
    BY <1>2 DEF ensureBuildOperation, OperationStatuses
  <2>2. depError' \in Errors \cup {NULL}
    BY <1>2 DEF ensureBuildOperation, Errors
  <2>3. /\ pc' \in [Runs -> Steps]
        /\ opSeen' \in [Runs -> OperationStatuses]
        /\ target' \in [Runs -> RemoteIds \cup {NULL}]
        /\ posts' \in [Runs -> 0 .. MaxPosts]
    <3>1. CASE Finish(r)
      BY <3>1, LocalsTyped
    <3>2. CASE ~Finish(r)
      BY <1>2, <2>1, <3>2 DEF ensureBuildOperation, Steps
    <3> QED
      BY <3>1, <3>2
  <2> QED
    BY <1>2, <2>1, <2>2, <2>3 DEF ensureBuildOperation
<1>3. CASE ListCandidates(r)
  <2>1. UNCHANGED <<deployment, buildPid, opResource, traced, evidence, remote, check, stop>>
    BY <1>3 DEF ListCandidates
  <2>2. CASE opStatus' = "AMBIGUOUS" /\ Finish(r)
    BY <2>1, <2>2, LocalsTyped DEF OperationStatuses, Steps
  <2>3. CASE /\ pc' = [pc EXCEPT ![r] = "attach"]
             /\ \E id \in matchingSscDeployments : target' = [target EXCEPT ![r] = id]
             /\ UNCHANGED <<opStatus, opSeen, posts>>
    BY <2>1, <2>3 DEF matchingSscDeployments, Steps
  <2>4. CASE (Finish(r) \/ GoTo(r, "claim")) /\ UNCHANGED opStatus
    BY <2>1, <2>4, LocalsTyped DEF Steps
  <2> QED
    BY <1>3, <2>2, <2>3, <2>4 DEF ListCandidates
<1>4. CASE claimProviderCreateOperation(r)
  BY <1>4, LocalsTyped DEF claimProviderCreateOperation, Steps, OperationStatuses
<1>5. CASE PostAnswered(r)
  BY <1>5 DEF PostAnswered, Creates, RemoteStates, Steps
<1>6. CASE PostRetryable(r)
  BY <1>6, ConstantsAssumption DEF PostRetryable, Creates, AttemptsLeft, RemoteStates, Steps
<1>7. CASE PostRefused(r)
  BY <1>7, LocalsTyped, ConstantsAssumption DEF PostRefused, Steps
<1>8. CASE ClassifyOnDeployment(r)
  BY <1>8, LocalsTyped DEF ClassifyOnDeployment, Steps, Errors
<1>9. CASE ClassifyOnOperation(r)
  BY <1>9, LocalsTyped DEF ClassifyOnOperation, Steps, OperationStatuses
<1>10. CASE attachProviderDeployment(r)
  <2>1. target[r] \in RemoteIds
    BY <1>10 DEF attachProviderDeployment, TargetsVisible
  <2> QED
    BY <1>10, <2>1, LocalsTyped
    DEF attachProviderDeployment, TraceResult, OperationStatuses, Steps
<1>11. CASE ThrowBuild(r)
  BY <1>11, LocalsTyped, ReleaseTyped DEF ThrowBuild, Steps
<1>12. CASE CrashBuild(r)
  BY <1>12, LocalsTyped DEF CrashBuild, Steps
<1> QED
  BY <1>1, <1>2, <1>3, <1>4, <1>5, <1>6, <1>7, <1>8, <1>9, <1>10, <1>11, <1>12
  DEF BuildRun

\* What a timeout or abandon task becomes is well typed.
LEMMA StopTyped ==
  ASSUME TypeOK, NEW s \in Stoppers
  PROVE  /\ NoStop \in Stops
         /\ AfterContainment(s) \in Stops
         /\ stop[s].pid \in RemoteIds \cup {NULL}
         /\ stop[s].outcome \in Containments
         /\ \A pid \in RemoteIds \cup {NULL} :
              /\ [NoStop EXCEPT !.step = "lookup", !.pid = pid] \in Stops
              /\ [NoStop EXCEPT !.step = "lock", !.kind = "abandon", !.pid = pid] \in Stops
         /\ [stop[s] EXCEPT !.step = "lookup"] \in Stops
         /\ [stop[s] EXCEPT !.step = "cancel"] \in Stops
         /\ \A outcome \in Containments :
              [stop[s] EXCEPT !.step = "record", !.outcome = outcome] \in Stops
<1>1. stop[s] \in Stops
  BY DEF TypeOK
<1>2. NoStop \in Stops
  BY DEF NoStop, Stops, Containments
<1>3. AfterContainment(s) \in Stops
  BY <1>1, <1>2 DEF Stops, AfterContainment
<1>4. ASSUME NEW pid \in RemoteIds \cup {NULL}
      PROVE  /\ [NoStop EXCEPT !.step = "lookup", !.pid = pid] \in Stops
             /\ [NoStop EXCEPT !.step = "lock", !.kind = "abandon", !.pid = pid] \in Stops
  BY DEF NoStop, Stops, Containments
<1>5. /\ [stop[s] EXCEPT !.step = "lookup"] \in Stops
      /\ [stop[s] EXCEPT !.step = "cancel"] \in Stops
  BY <1>1 DEF Stops
<1>6. ASSUME NEW outcome \in Containments
      PROVE  [stop[s] EXCEPT !.step = "record", !.outcome = outcome] \in Stops
  BY <1>1 DEF Stops
<1>7. stop[s].pid \in RemoteIds \cup {NULL} /\ stop[s].outcome \in Containments
  BY <1>1 DEF Stops
<1> QED
  BY <1>2, <1>3, <1>4, <1>5, <1>6, <1>7

LEMMA ReconcileTyped ==
  ASSUME TypeOK, NEW c \in Checkers, ReconcileRun(c)
  PROVE  TypeOK'
<1> USE DEF TypeOK, deployment, ledger, evidence, builders
<1>1. CASE FetchBuild(c)
  BY <1>1 DEF FetchBuild, buildReconciliationAction, Verdicts
<1>2. CASE ApplyReconciliation(c)
  BY <1>2 DEF ApplyReconciliation, UpdateBuildingDeployment, ReconcileError, Statuses, Errors,
              Verdicts
<1>3. CASE CrashReconcile(c)
  BY <1>3 DEF CrashReconcile, Verdicts
<1> QED
  BY <1>1, <1>2, <1>3 DEF ReconcileRun

LEMMA StopRunTyped ==
  ASSUME TypeOK, NEW s \in Stoppers, StopRun(s)
  PROVE  TypeOK'
<1> USE StopTyped DEF TypeOK, deployment, ledger, evidence, builders
<1>1. CASE StartTimeout(s)
  BY <1>1 DEF StartTimeout
<1>2. CASE StartAbandon(s)
  <2> DEFINE pid == IF buildPid # NULL THEN buildPid
                    ELSE IF opStatus \in {"OBSERVED", "OBSERVED_STALE"}
                      THEN opResource ELSE NULL
  <2>1. pid \in RemoteIds \cup {NULL}
    OBVIOUS
  <2>2. [NoStop EXCEPT !.step = "lock", !.kind = "abandon", !.pid = pid] \in Stops
    BY <2>1
  <2> QED
    BY <1>2, <2>2 DEF StartAbandon
<1>3. CASE AbandonLocked(s)
  BY <1>3 DEF AbandonLocked, Statuses, Errors
<1>4. CASE LookupContainment(s)
  BY <1>4 DEF LookupContainment
<1>5. CASE cancelVercelDeployment(s)
  <2>1. remote' \in [RemoteIds -> RemoteStates]
    BY <1>5 DEF cancelVercelDeployment, CancelVerified, RemoteStates
  <2>2. PICK outcome \in Containments :
          stop' = [stop EXCEPT ![s] = [@ EXCEPT !.step = "record", !.outcome = outcome]]
    BY <1>5 DEF cancelVercelDeployment
  <2>3. stop' \in [Stoppers -> Stops]
    BY <2>2
  <2> QED
    BY <1>5, <2>1, <2>3 DEF cancelVercelDeployment
<1>6. CASE RecordContainment(s)
  BY <1>6 DEF RecordContainment
<1>7. CASE FailBuildTimeout(s)
  BY <1>7 DEF FailBuildTimeout, UpdateBuildingDeployment, Statuses, Errors
<1>8. CASE CrashStop(s)
  BY <1>8 DEF CrashStop
<1> QED
  BY <1>1, <1>2, <1>3, <1>4, <1>5, <1>6, <1>7, <1>8 DEF StopRun

LEMMA TypeStep ==
  ASSUME TypeOK, TargetsVisible, Next
  PROVE  TypeOK'
<1> USE DEF TypeOK, deployment, ledger, evidence, builders
<1>1. ASSUME NEW id \in RemoteIds, ProviderStep(id) PROVE TypeOK'
  BY <1>1 DEF ProviderStep, RemoteStates, RemoteTerminal
<1>2. ASSUME markOrchestrationRunFailed PROVE TypeOK'
  BY <1>2 DEF markOrchestrationRunFailed, Statuses, Errors
<1>3. ASSUME NEW o \in Operators, ResetStuckOperation(o) PROVE TypeOK'
  BY <1>3, ReleaseTyped DEF ResetStuckOperation
<1> QED
  BY <1>1, <1>2, <1>3, BuildTyped, ReconcileTyped, StopRunTyped DEF Next

-----------------------------------------------------------------------------
(* What never goes back.                                                   *)

\* The provider keeps every id it has shown, and its final states.
LEMMA ProviderKeeps ==
  ASSUME TypeOK, Next, NEW id \in RemoteIds
  PROVE  /\ Visible(id) => Visible(id)'
         /\ remote[id] \in RemoteTerminal => remote'[id] = remote[id]
<1> USE DEF TypeOK, Visible, RemoteTerminal
<1>1. ASSUME NEW r \in Runs, BuildRun(r)
      PROVE  \/ UNCHANGED remote
             \/ \E new \in RemoteIds, state \in RemoteStates : Creates(new, state)
  BY <1>1 DEF BuildRun, StartBuild, ensureBuildOperation, ListCandidates,
              claimProviderCreateOperation, PostAnswered, PostRetryable, PostRefused,
              ClassifyOnDeployment, ClassifyOnOperation, attachProviderDeployment,
              ThrowBuild, CrashBuild, RemoteStates
<1>2. ASSUME NEW new \in RemoteIds, NEW state \in RemoteStates, Creates(new, state)
      PROVE  /\ Visible(id) => Visible(id)'
             /\ remote[id] \in RemoteTerminal => remote'[id] = remote[id]
  BY <1>2 DEF Creates
<1>3. ASSUME NEW c \in Checkers, ReconcileRun(c) PROVE UNCHANGED remote
  BY <1>3 DEF ReconcileRun, FetchBuild, ApplyReconciliation, CrashReconcile
<1>4. ASSUME NEW s \in Stoppers, StopRun(s)
      PROVE  UNCHANGED remote \/ CancelVerified(stop[s].pid)
  BY <1>4 DEF StopRun, StartTimeout, StartAbandon, AbandonLocked, LookupContainment,
              cancelVercelDeployment, RecordContainment, FailBuildTimeout, CrashStop
<1>5. ASSUME NEW s \in Stoppers, CancelVerified(stop[s].pid)
      PROVE  /\ Visible(id) => Visible(id)'
             /\ remote[id] \in RemoteTerminal => remote'[id] = remote[id]
  BY <1>5 DEF CancelVerified
<1>6. ASSUME NEW new \in RemoteIds, ProviderStep(new)
      PROVE  /\ Visible(id) => Visible(id)'
             /\ remote[id] \in RemoteTerminal => remote'[id] = remote[id]
  BY <1>6 DEF ProviderStep
<1>7. ASSUME markOrchestrationRunFailed \/ \E o \in Operators : ResetStuckOperation(o)
      PROVE  UNCHANGED remote
  BY <1>7 DEF markOrchestrationRunFailed, ResetStuckOperation
<1> QED
  BY <1>1, <1>2, <1>3, <1>4, <1>5, <1>6, <1>7 DEF Next

\* Announcements are never deleted, and a build once attached is only
\* replaced by another one.
LEMMA AnnouncementsKept ==
  ASSUME TypeOK, TargetsVisible, Next
  PROVE  traced \subseteq traced' /\ (buildPid # NULL => buildPid' # NULL)
<1>1. ASSUME NEW r \in Runs, attachProviderDeployment(r)
      PROVE  traced \subseteq traced' /\ (buildPid # NULL => buildPid' # NULL)
  BY <1>1, ConstantsAssumption DEF attachProviderDeployment, TraceResult, TargetsVisible
<1>2. ASSUME NEW r \in Runs, BuildRun(r)
      PROVE  attachProviderDeployment(r) \/ UNCHANGED <<traced, buildPid>>
  BY <1>2 DEF BuildRun, StartBuild, ensureBuildOperation, ListCandidates,
              claimProviderCreateOperation, PostAnswered, PostRetryable, PostRefused,
              ClassifyOnDeployment, ClassifyOnOperation, ThrowBuild, CrashBuild
<1>3. ASSUME NEW c \in Checkers, ReconcileRun(c) PROVE UNCHANGED <<traced, buildPid>>
  BY <1>3 DEF ReconcileRun, FetchBuild, ApplyReconciliation, CrashReconcile
<1>4. ASSUME NEW s \in Stoppers, StopRun(s) PROVE UNCHANGED <<traced, buildPid>>
  BY <1>4 DEF StopRun, StartTimeout, StartAbandon, AbandonLocked, LookupContainment,
              cancelVercelDeployment, RecordContainment, FailBuildTimeout, CrashStop
<1>5. ASSUME \/ \E id \in RemoteIds : ProviderStep(id)
             \/ markOrchestrationRunFailed
             \/ \E o \in Operators : ResetStuckOperation(o)
      PROVE  UNCHANGED <<traced, buildPid>>
  BY <1>5 DEF ProviderStep, markOrchestrationRunFailed, ResetStuckOperation
<1> QED
  BY <1>1, <1>2, <1>3, <1>4, <1>5 DEF Next

-----------------------------------------------------------------------------
(* One lemma per part of IInv: each step keeps it.                         *)

LEMMA TargetsStep ==
  ASSUME TypeOK, TargetsVisible, Next
  PROVE  TargetsVisible'
<1> USE DEF TypeOK, TargetsVisible
<1>0. \A id \in RemoteIds : Visible(id) => Visible(id)'
  BY ProviderKeeps
<1>1. ASSUME NEW r \in Runs, ListCandidates(r) PROVE TargetsVisible'
  BY <1>0, <1>1 DEF ListCandidates, matchingSscDeployments, GoTo, Finish, Visible
<1>2. ASSUME NEW r \in Runs, PostAnswered(r) PROVE TargetsVisible'
  BY <1>0, <1>2 DEF PostAnswered, Creates, Visible
<1>3. ASSUME NEW r \in Runs, BuildRun(r)
      PROVE  \/ ListCandidates(r)
             \/ PostAnswered(r)
             \/ /\ UNCHANGED target \/ Finish(r)
                /\ \A q \in Runs : pc'[q] = "attach" => q # r /\ pc[q] = "attach"
             \/ UNCHANGED builders
  BY <1>3 DEF BuildRun, StartBuild, ensureBuildOperation, claimProviderCreateOperation,
              PostRetryable, PostRefused, ClassifyOnDeployment, ClassifyOnOperation,
              attachProviderDeployment, ThrowBuild, CrashBuild, GoTo, Finish
<1>4. ASSUME NEW r \in Runs, UNCHANGED target \/ Finish(r),
             \A q \in Runs : pc'[q] = "attach" => q # r /\ pc[q] = "attach"
      PROVE  TargetsVisible'
  <2>1. \A q \in Runs : pc'[q] = "attach" => target'[q] = target[q]
    BY <1>4 DEF Finish
  <2> QED
    BY <1>0, <1>4, <2>1 DEF Visible
<1>5. ASSUME UNCHANGED builders PROVE TargetsVisible'
  BY <1>0, <1>5 DEF builders, Visible
<1>6. ASSUME NEW c \in Checkers, ReconcileRun(c) PROVE UNCHANGED builders
  BY <1>6 DEF ReconcileRun, FetchBuild, ApplyReconciliation, CrashReconcile
<1>7. ASSUME NEW s \in Stoppers, StopRun(s) PROVE UNCHANGED builders
  BY <1>7 DEF StopRun, StartTimeout, StartAbandon, AbandonLocked, LookupContainment,
              cancelVercelDeployment, RecordContainment, FailBuildTimeout, CrashStop
<1>8. ASSUME \/ \E id \in RemoteIds : ProviderStep(id)
             \/ markOrchestrationRunFailed
             \/ \E o \in Operators : ResetStuckOperation(o)
      PROVE  UNCHANGED builders
  BY <1>8 DEF ProviderStep, markOrchestrationRunFailed, ResetStuckOperation
<1> QED
  BY <1>1, <1>2, <1>3, <1>4, <1>5, <1>6, <1>7, <1>8 DEF Next

LEMMA RowsStep ==
  ASSUME TypeOK, TargetsVisible, RowsAgree, Next
  PROVE  RowsAgree'
<1> USE DEF RowsAgree
<1>1. ASSUME NEW r \in Runs, attachProviderDeployment(r) PROVE RowsAgree'
  <2>1. target[r] # NULL
    BY <1>1, ConstantsAssumption DEF attachProviderDeployment, TargetsVisible
  <2>2. CASE buildResultAttachmentDecision
    BY <1>1, <2>1, <2>2 DEF attachProviderDeployment, buildResultAttachmentDecision
  <2>3. CASE ~buildResultAttachmentDecision
    BY <1>1, <2>1, <2>3 DEF attachProviderDeployment
  <2> QED
    BY <2>2, <2>3
<1>2. ASSUME NEW r \in Runs, claimProviderCreateOperation(r) PROVE RowsAgree'
  BY <1>2 DEF claimProviderCreateOperation, claimable, deployment
<1>3. ASSUME NEW r \in Runs, ListCandidates(r) \/ ClassifyOnOperation(r) PROVE RowsAgree'
  BY <1>3 DEF ListCandidates, ClassifyOnOperation, deployment
<1>4. ASSUME NEW r \in Runs, ensureBuildOperation(r) PROVE RowsAgree'
  BY <1>4 DEF ensureBuildOperation, deployment
<1>5. ASSUME UNCHANGED <<depPid, buildPid>>, ReleaseClaim PROVE RowsAgree'
  BY <1>5 DEF ReleaseClaim
<1>6. ASSUME UNCHANGED <<depPid, buildPid, ledger>> PROVE RowsAgree'
  BY <1>6 DEF ledger
<1>7. ASSUME NEW r \in Runs, BuildRun(r)
      PROVE  \/ attachProviderDeployment(r)
             \/ claimProviderCreateOperation(r)
             \/ ListCandidates(r) \/ ClassifyOnOperation(r)
             \/ ensureBuildOperation(r)
             \/ UNCHANGED <<depPid, buildPid>> /\ ReleaseClaim
             \/ UNCHANGED <<depPid, buildPid, ledger>>
  BY <1>7 DEF BuildRun, StartBuild, PostAnswered, PostRetryable, PostRefused,
              ClassifyOnDeployment, ThrowBuild, CrashBuild, deployment
<1>8. ASSUME NEW c \in Checkers, ReconcileRun(c)
      PROVE  UNCHANGED <<depPid, buildPid, ledger>>
  BY <1>8 DEF ReconcileRun, FetchBuild, ApplyReconciliation, CrashReconcile, deployment
<1>9. ASSUME NEW s \in Stoppers, StopRun(s)
      PROVE  UNCHANGED <<depPid, buildPid, ledger>>
  BY <1>9 DEF StopRun, StartTimeout, StartAbandon, AbandonLocked, LookupContainment,
              cancelVercelDeployment, RecordContainment, FailBuildTimeout, CrashStop,
              deployment
<1>10. ASSUME (\E id \in RemoteIds : ProviderStep(id)) \/ markOrchestrationRunFailed
       PROVE  UNCHANGED <<depPid, buildPid, ledger>>
  BY <1>10 DEF ProviderStep, markOrchestrationRunFailed, deployment
<1>11. ASSUME NEW o \in Operators, ResetStuckOperation(o)
       PROVE  UNCHANGED <<depPid, buildPid>> /\ ReleaseClaim
  BY <1>11 DEF ResetStuckOperation, deployment
<1> QED
  BY <1>1, <1>2, <1>3, <1>4, <1>5, <1>6, <1>7, <1>8, <1>9, <1>10, <1>11 DEF Next

LEMMA TracedStep ==
  ASSUME TypeOK, TargetsVisible, ResultsTraced, StopsTraced, Next
  PROVE  ResultsTraced'
<1> USE DEF ResultsTraced
<1>1. /\ traced \subseteq traced'
      /\ \A id \in traced : Visible(id)'
  BY ProviderKeeps, AnnouncementsKept DEF Visible, TypeOK
<1>2. ASSUME NEW r \in Runs, attachProviderDeployment(r) PROVE ResultsTraced'
  <2>1. /\ traced' = traced \cup {target[r]}
        /\ opResource' = target[r]
        /\ buildPid' \in {buildPid, target[r]}
        /\ UNCHANGED <<remote, containedPid>>
    BY <1>2 DEF attachProviderDeployment, TraceResult, evidence
  <2>2. Visible(target[r])
    BY <1>2 DEF attachProviderDeployment, TargetsVisible
  <2> QED
    BY <2>1, <2>2 DEF Visible
<1>3. ASSUME NEW s \in Stoppers, RecordContainment(s) PROVE ResultsTraced'
  BY <1>1, <1>3 DEF RecordContainment, StopsTraced, StopTraced, Visible, ledger
<1>4. ASSUME UNCHANGED <<buildPid, opResource, traced, containedPid>> PROVE ResultsTraced'
  BY <1>1, <1>4 DEF Visible
<1>5. ASSUME NEW r \in Runs, BuildRun(r)
      PROVE  \/ attachProviderDeployment(r)
             \/ UNCHANGED <<buildPid, opResource, traced, containedPid>>
  BY <1>5 DEF BuildRun, StartBuild, ensureBuildOperation, ListCandidates,
              claimProviderCreateOperation, PostAnswered, PostRetryable, PostRefused,
              ClassifyOnDeployment, ClassifyOnOperation, ThrowBuild, CrashBuild,
              ReleaseClaim, ledger, evidence
<1>6. ASSUME NEW c \in Checkers, ReconcileRun(c)
      PROVE  UNCHANGED <<buildPid, opResource, traced, containedPid>>
  BY <1>6 DEF ReconcileRun, FetchBuild, ApplyReconciliation, CrashReconcile, ledger, evidence
<1>7. ASSUME NEW s \in Stoppers, StopRun(s)
      PROVE  RecordContainment(s) \/ UNCHANGED <<buildPid, opResource, traced, containedPid>>
  BY <1>7 DEF StopRun, StartTimeout, StartAbandon, AbandonLocked, LookupContainment,
              cancelVercelDeployment, FailBuildTimeout, CrashStop, ledger, evidence
<1>8. ASSUME \/ \E id \in RemoteIds : ProviderStep(id)
             \/ markOrchestrationRunFailed
             \/ \E o \in Operators : ResetStuckOperation(o)
      PROVE  UNCHANGED <<buildPid, opResource, traced, containedPid>>
  BY <1>8 DEF ProviderStep, markOrchestrationRunFailed, ResetStuckOperation, ReleaseClaim,
              ledger, evidence
<1> QED
  BY <1>2, <1>3, <1>4, <1>5, <1>6, <1>7, <1>8 DEF Next

LEMMA ChecksStep ==
  ASSUME TypeOK, TargetsVisible, ResultsTraced, ChecksTraced, Next
  PROVE  ChecksTraced'
<1> USE DEF ChecksTraced, TypeOK
<1>1. /\ buildPid # NULL => buildPid' # NULL
      /\ traced \subseteq traced'
      /\ \A id \in RemoteIds : remote[id] = "READY" => remote'[id] = "READY"
  BY ProviderKeeps, AnnouncementsKept DEF RemoteTerminal
<1>2. ASSUME NEW c \in Checkers, FetchBuild(c) PROVE ChecksTraced'
  BY <1>1, <1>2 DEF FetchBuild, buildReconciliationAction, ResultsTraced
<1>3. ASSUME \A c \in Checkers : check'[c] \in {check[c], "none"} PROVE ChecksTraced'
  BY <1>1, <1>3
<1>4. ASSUME NEW c \in Checkers, ReconcileRun(c)
      PROVE  FetchBuild(c) \/ \A d \in Checkers : check'[d] \in {check[d], "none"}
  BY <1>4 DEF ReconcileRun, ApplyReconciliation, CrashReconcile
<1>5. ASSUME NEW r \in Runs, BuildRun(r) PROVE UNCHANGED check
  BY <1>5 DEF BuildRun, StartBuild, ensureBuildOperation, ListCandidates,
              claimProviderCreateOperation, PostAnswered, PostRetryable, PostRefused,
              ClassifyOnDeployment, ClassifyOnOperation, attachProviderDeployment,
              ThrowBuild, CrashBuild
<1>6. ASSUME NEW s \in Stoppers, StopRun(s) PROVE UNCHANGED check
  BY <1>6 DEF StopRun, StartTimeout, StartAbandon, AbandonLocked, LookupContainment,
              cancelVercelDeployment, RecordContainment, FailBuildTimeout, CrashStop
<1>7. ASSUME \/ \E id \in RemoteIds : ProviderStep(id)
             \/ markOrchestrationRunFailed
             \/ \E o \in Operators : ResetStuckOperation(o)
      PROVE  UNCHANGED check
  BY <1>7 DEF ProviderStep, markOrchestrationRunFailed, ResetStuckOperation
<1> QED
  BY <1>2, <1>3, <1>4, <1>5, <1>6, <1>7 DEF Next

LEMMA StopsStep ==
  ASSUME TypeOK, TargetsVisible, ResultsTraced, StopsTraced, Next
  PROVE  StopsTraced'
<1>1. /\ traced \subseteq traced'
      /\ \A id \in RemoteIds : remote[id] \in RemoteTerminal => remote'[id] = remote[id]
  BY ProviderKeeps, AnnouncementsKept
<1>2. \A s \in Stoppers : StopTraced(s)
  BY DEF StopsTraced
<1>3. SUFFICES ASSUME NEW q \in Stoppers PROVE StopTraced(q)'
  BY DEF StopsTraced
<1>4. stop[q] \in Stops /\ traced \subseteq RemoteIds
  BY DEF TypeOK
\* Nobody who leaves the containment record and this task alone disturbs it.
<1>5. ASSUME containment' = containment \/ containment' # "NONE", stop'[q] = stop[q]
      PROVE  StopTraced(q)'
  BY <1>1, <1>2, <1>4, <1>5 DEF StopTraced, RemoteTerminal
<1>6. ASSUME NEW s \in Stoppers, StopRun(s)
      PROVE  StopTraced(q)'
  <2> USE DEF StopTraced
  <2>1. stop \in [Stoppers -> Stops]
    BY DEF TypeOK
  <2>2. StopTraced(s) /\ stop[s] \in Stops
    BY <1>2, <2>1
  <2>3. containment' = containment \/ containment' # "NONE"
    BY <1>6, <2>2 DEF StopRun, StartTimeout, StartAbandon, AbandonLocked,
              LookupContainment, cancelVercelDeployment, RecordContainment,
              FailBuildTimeout, CrashStop, evidence
  <2>4. CASE q # s
    <3>1. stop'[q] = stop[q]
      BY <1>6, <2>1, <2>4 DEF StopRun, StartTimeout, StartAbandon, AbandonLocked,
              LookupContainment, cancelVercelDeployment, RecordContainment,
              FailBuildTimeout, CrashStop
    <3> QED
      BY <1>5, <2>3, <3>1
  <2>5. CASE q = s
    <3> SUFFICES StopTraced(s)'
      BY <2>5
    <3>1. ASSUME stop'[s] = NoStop PROVE StopTraced(s)'
      BY <3>1 DEF NoStop
    <3>2. CASE StartTimeout(s)
      BY <3>2, <2>1, <1>1 DEF StartTimeout, NoStop, ResultsTraced
    <3>3. CASE StartAbandon(s)
      BY <3>3, <2>1, <1>1 DEF StartAbandon, NoStop, ResultsTraced
    <3>4. CASE AbandonLocked(s)
      BY <3>1, <3>4, <2>1, <2>2, <1>1 DEF AbandonLocked, Stops
    <3>5. CASE LookupContainment(s)
      BY <3>1, <3>5, <2>1, <2>2, <1>1 DEF LookupContainment, AfterContainment, Stops, evidence
    <3>6. CASE cancelVercelDeployment(s)
      <4>1. stop[s].pid \in RemoteIds
        BY <2>2, <3>6, <1>4 DEF cancelVercelDeployment, Stops
      <4> QED
        BY <4>1, <3>6, <2>1, <2>2, <1>1
        DEF cancelVercelDeployment, CancelVerified, Stops, Containments, TypeOK
    <3>7. CASE RecordContainment(s)
      BY <3>1, <3>7, <2>1, <2>2, <1>1 DEF RecordContainment, AfterContainment, Stops
    <3>8. CASE FailBuildTimeout(s) \/ CrashStop(s)
      BY <3>1, <3>8, <2>1 DEF FailBuildTimeout, CrashStop
    <3> QED
      BY <1>6, <3>2, <3>3, <3>4, <3>5, <3>6, <3>7, <3>8 DEF StopRun
  <2> QED
    BY <2>4, <2>5
<1>7. ASSUME UNCHANGED <<containment, stop>> PROVE StopTraced(q)'
  BY <1>5, <1>7
<1>8. ASSUME NEW r \in Runs, BuildRun(r) PROVE UNCHANGED <<containment, stop>>
  BY <1>8 DEF BuildRun, StartBuild, ensureBuildOperation, ListCandidates,
              claimProviderCreateOperation, PostAnswered, PostRetryable, PostRefused,
              ClassifyOnDeployment, ClassifyOnOperation, attachProviderDeployment,
              ThrowBuild, CrashBuild, evidence
<1>9. ASSUME NEW c \in Checkers, ReconcileRun(c) PROVE UNCHANGED <<containment, stop>>
  BY <1>9 DEF ReconcileRun, FetchBuild, ApplyReconciliation, CrashReconcile, evidence
<1>10. ASSUME \/ \E id \in RemoteIds : ProviderStep(id)
              \/ markOrchestrationRunFailed
              \/ \E o \in Operators : ResetStuckOperation(o)
       PROVE  UNCHANGED <<containment, stop>>
  BY <1>10 DEF ProviderStep, markOrchestrationRunFailed, ResetStuckOperation, evidence
<1> QED
  BY <1>6, <1>7, <1>8, <1>9, <1>10 DEF Next

\* The steps that write deployments.status, or leave it alone.
LEMMA StatusSteps ==
  ASSUME Next
  PROVE  \/ \E c \in Checkers : ApplyReconciliation(c)
         \/ \E s \in Stoppers : AbandonLocked(s) \/ FailBuildTimeout(s)
         \/ markOrchestrationRunFailed
         \/ UNCHANGED depStatus
<1>1. ASSUME NEW r \in Runs, BuildRun(r) PROVE UNCHANGED depStatus
  BY <1>1 DEF BuildRun, StartBuild, ensureBuildOperation, ListCandidates,
              claimProviderCreateOperation, PostAnswered, PostRetryable, PostRefused,
              ClassifyOnDeployment, ClassifyOnOperation, attachProviderDeployment,
              ThrowBuild, CrashBuild, deployment
<1>2. ASSUME NEW c \in Checkers, ReconcileRun(c)
      PROVE  ApplyReconciliation(c) \/ UNCHANGED depStatus
  BY <1>2 DEF ReconcileRun, FetchBuild, CrashReconcile, deployment
<1>3. ASSUME NEW s \in Stoppers, StopRun(s)
      PROVE  AbandonLocked(s) \/ FailBuildTimeout(s) \/ UNCHANGED depStatus
  BY <1>3 DEF StopRun, StartTimeout, StartAbandon, LookupContainment,
              cancelVercelDeployment, RecordContainment, CrashStop, deployment
<1>4. ASSUME \/ \E id \in RemoteIds : ProviderStep(id)
             \/ \E o \in Operators : ResetStuckOperation(o)
      PROVE  UNCHANGED depStatus
  BY <1>4 DEF ProviderStep, ResetStuckOperation, deployment
<1> QED
  BY <1>1, <1>2, <1>3, <1>4 DEF Next

\* A reconciliation moves the row to DEPLOYING only on a READY answer.
LEMMA AdvanceOnReady ==
  ASSUME NEW c \in Checkers, ApplyReconciliation(c), depStatus' # depStatus
  PROVE  /\ depStatus = "BUILDING"
         /\ \/ depStatus' = "FAILED"
            \/ depStatus' = "DEPLOYING" /\ check[c] = "advance-deploying"
  BY DEF ApplyReconciliation, UpdateBuildingDeployment

LEMMA DeployingStep ==
  ASSUME TypeOK, TargetsVisible, ResultsTraced, ChecksTraced, DeployingHasReadyBuild, Next
  PROVE  DeployingHasReadyBuild'
<1>1. /\ buildPid # NULL => buildPid' # NULL
      /\ traced \subseteq traced' /\ traced \subseteq RemoteIds
      /\ \A id \in RemoteIds : remote[id] = "READY" => remote'[id] = "READY"
  BY ProviderKeeps, AnnouncementsKept DEF RemoteTerminal, TypeOK
<1>2. SUFFICES ASSUME depStatus' = "DEPLOYING", depStatus # "DEPLOYING"
               PROVE  buildPid # NULL /\ \E id \in traced : remote[id] = "READY"
  BY <1>1 DEF DeployingHasReadyBuild
<1>3. PICK c \in Checkers : ApplyReconciliation(c)
  BY <1>2, StatusSteps DEF AbandonLocked, FailBuildTimeout, UpdateBuildingDeployment,
              markOrchestrationRunFailed
<1>4. check[c] = "advance-deploying"
  BY <1>2, <1>3, AdvanceOnReady
<1> QED
  BY <1>4 DEF ChecksTraced

LEMMA EvidenceStep ==
  ASSUME TypeOK, ResultsTraced, StopsTraced, ContainmentEvidence, Next
  PROVE  ContainmentEvidence'
<1> USE DEF ContainmentEvidence
<1>1. /\ traced \subseteq RemoteIds
      /\ \A id \in RemoteIds : remote[id] \in RemoteTerminal => remote'[id] = remote[id]
  BY ProviderKeeps DEF TypeOK
<1>2. ASSUME NEW s \in Stoppers, RecordContainment(s) PROVE ContainmentEvidence'
  BY <1>2 DEF RecordContainment, StopsTraced, StopTraced, deployment
<1>3. ASSUME UNCHANGED evidence,
             depError' = "BUILD_TIMEOUT" => depError = "BUILD_TIMEOUT" \/ containment # "NONE"
      PROVE  ContainmentEvidence'
  <2>1. containment # "NONE" => containedPid \in RemoteIds
    BY <1>1 DEF ResultsTraced
  <2> QED
    BY <1>1, <1>3, <2>1 DEF evidence, RemoteTerminal
<1>4. ASSUME NEW r \in Runs, BuildRun(r)
      PROVE  UNCHANGED evidence /\ (depError' = "BUILD_TIMEOUT" => depError = "BUILD_TIMEOUT")
  <2>1. NULL # "BUILD_TIMEOUT"
    BY ConstantsAssumption DEF Errors
  <2> QED
    BY <1>4, <2>1 DEF BuildRun, StartBuild, ensureBuildOperation, ListCandidates,
              claimProviderCreateOperation, PostAnswered, PostRetryable, PostRefused,
              ClassifyOnDeployment, ClassifyOnOperation, attachProviderDeployment,
              ThrowBuild, CrashBuild, deployment
<1>5. ASSUME NEW c \in Checkers, ReconcileRun(c)
      PROVE  UNCHANGED evidence /\ (depError' = "BUILD_TIMEOUT" => depError = "BUILD_TIMEOUT")
  <2>1. NULL # "BUILD_TIMEOUT"
    BY ConstantsAssumption DEF Errors
  <2> QED
    BY <1>5, <2>1 DEF ReconcileRun, FetchBuild, ApplyReconciliation, CrashReconcile,
              UpdateBuildingDeployment, ReconcileError, deployment
<1>6. ASSUME NEW s \in Stoppers, StopRun(s), ~RecordContainment(s)
      PROVE  /\ UNCHANGED evidence
             /\ depError' = "BUILD_TIMEOUT" => depError = "BUILD_TIMEOUT" \/ containment # "NONE"
  BY <1>6 DEF StopRun, StartTimeout, StartAbandon, AbandonLocked, LookupContainment,
              cancelVercelDeployment, FailBuildTimeout, CrashStop, UpdateBuildingDeployment,
              StopsTraced, StopTraced, deployment
<1>7. ASSUME \/ \E id \in RemoteIds : ProviderStep(id)
             \/ markOrchestrationRunFailed
             \/ \E o \in Operators : ResetStuckOperation(o)
      PROVE  UNCHANGED evidence /\ (depError' = "BUILD_TIMEOUT" => depError = "BUILD_TIMEOUT")
  BY <1>7 DEF ProviderStep, markOrchestrationRunFailed, ResetStuckOperation, deployment
<1> QED
  BY <1>2, <1>3, <1>4, <1>5, <1>6, <1>7 DEF Next

-----------------------------------------------------------------------------
(* Theorems.                                                               *)

LEMMA InitIInv == Init => IInv
<1> SUFFICES ASSUME Init PROVE IInv
  OBVIOUS
<1>1. TypeOK
  BY ConstantsAssumption
  DEF Init, TypeOK, Statuses, OperationStatuses, RemoteStates, Containments, Steps, Stops, NoStop,
      Verdicts
<1>2. TargetsVisible /\ ChecksTraced
  BY DEF Init, TargetsVisible, ChecksTraced
<1>3. RowsAgree /\ ResultsTraced /\ DeployingHasReadyBuild
  BY DEF Init, RowsAgree, ResultsTraced, DeployingHasReadyBuild
<1>4. StopsTraced /\ ContainmentEvidence
  BY ConstantsAssumption DEF Init, StopsTraced, StopTraced, ContainmentEvidence, NoStop, Errors
<1> QED
  BY <1>1, <1>2, <1>3, <1>4 DEF IInv

LEMMA NextIInv == IInv /\ [Next]_vars => IInv'
<1> SUFFICES ASSUME IInv, [Next]_vars PROVE IInv'
  OBVIOUS
<1>1. CASE Next
  BY <1>1, TypeStep, TargetsStep, RowsStep, TracedStep, ChecksStep, StopsStep,
     DeployingStep, EvidenceStep
  DEF IInv
<1>2. CASE UNCHANGED vars
  <2> USE <1>2 DEF vars, deployment, ledger, evidence, builders, Visible
  <2>1. TypeOK'
    BY DEF IInv, TypeOK
  <2>2. TargetsVisible' /\ ChecksTraced' /\ StopsTraced'
    BY DEF IInv, TargetsVisible, ChecksTraced, StopsTraced, StopTraced
  <2>3. RowsAgree' /\ ResultsTraced' /\ DeployingHasReadyBuild' /\ ContainmentEvidence'
    BY DEF IInv, RowsAgree, ResultsTraced, DeployingHasReadyBuild, ContainmentEvidence
  <2> QED
    BY <2>1, <2>2, <2>3 DEF IInv
<1> QED
  BY <1>1, <1>2

LEMMA Inductive == Spec => []IInv
  BY InitIInv, NextIInv, PTL DEF Spec

\* Every variable keeps its type: the retry budget is never exceeded, an
\* attached id is always one the provider handed out.
THEOREM TypeCorrect == Spec => []TypeOK
<1>1. IInv => TypeOK
  BY DEF IInv
<1> QED
  BY <1>1, Inductive, PTL

\* The deployment, build and operation rows never disagree about the build.
THEOREM RowsAlwaysAgree == Spec => []RowsAgree
<1>1. IInv => RowsAgree
  BY DEF IInv
<1> QED
  BY <1>1, Inductive, PTL

\* No row names a provider deployment that was not announced and shown.
THEOREM ResultsAlwaysTraced == Spec => []ResultsTraced
<1>1. IInv => ResultsTraced
  BY DEF IInv
<1> QED
  BY <1>1, Inductive, PTL

\* DEPLOYING is reached only after a READY answer about an announced build.
THEOREM DeployingAfterReady == Spec => []DeployingHasReadyBuild
<1>1. IInv => DeployingHasReadyBuild
  BY DEF IInv
<1> QED
  BY <1>1, Inductive, PTL

\* Containment events tell the truth and come before a timeout failure.
THEOREM EvidenceAlwaysHonest == Spec => []ContainmentEvidence
<1>1. IInv => ContainmentEvidence
  BY DEF IInv
<1> QED
  BY <1>1, Inductive, PTL

\* Once the ledger knows a resource no run starts to create another: only a
\* successful claim makes a run a creator, and a claim needs an empty row.
THEOREM CreationStopsOnceObserved == Spec => NoCreateOnceObserved
<1>1. ASSUME TypeOK, [Next]_vars, opResource # NULL
      PROVE  Creators' \subseteq Creators
  <2> USE DEF Creators, TypeOK
  <2>1. ASSUME NEW r \in Runs, BuildRun(r) PROVE Creators' \subseteq Creators
    <3>1. pc'[r] \in {"post", "upload"} => pc[r] \in {"post", "upload"}
      BY <1>1, <2>1 DEF BuildRun, StartBuild, ensureBuildOperation, ListCandidates,
              claimProviderCreateOperation, claimable, PostAnswered, PostRetryable,
              PostRefused, ClassifyOnDeployment, ClassifyOnOperation,
              attachProviderDeployment, ThrowBuild, CrashBuild, GoTo, Finish, builders
    <3>2. \A q \in Runs : q # r => pc'[q] = pc[q]
      BY <1>1, <2>1 DEF BuildRun, StartBuild, ensureBuildOperation, ListCandidates,
              claimProviderCreateOperation, PostAnswered, PostRetryable,
              PostRefused, ClassifyOnDeployment, ClassifyOnOperation,
              attachProviderDeployment, ThrowBuild, CrashBuild, GoTo, Finish, builders
    <3> QED
      BY <3>1, <3>2
  <2>2. ASSUME NEW c \in Checkers, ReconcileRun(c) PROVE UNCHANGED pc
    BY <2>2 DEF ReconcileRun, FetchBuild, ApplyReconciliation, CrashReconcile, builders
  <2>3. ASSUME NEW s \in Stoppers, StopRun(s) PROVE UNCHANGED pc
    BY <2>3 DEF StopRun, StartTimeout, StartAbandon, AbandonLocked, LookupContainment,
              cancelVercelDeployment, RecordContainment, FailBuildTimeout, CrashStop, builders
  <2>4. ASSUME \/ \E id \in RemoteIds : ProviderStep(id)
               \/ markOrchestrationRunFailed
               \/ \E o \in Operators : ResetStuckOperation(o)
        PROVE  UNCHANGED pc
    BY <2>4 DEF ProviderStep, markOrchestrationRunFailed, ResetStuckOperation, builders
  <2>5. CASE UNCHANGED vars
    BY <2>5 DEF vars, builders
  <2>6. CASE UNCHANGED pc
    BY <2>6
  <2> QED
    BY <1>1, <2>1, <2>2, <2>3, <2>4, <2>5, <2>6 DEF Next
<1>2. TypeOK /\ [Next]_vars => [opResource # NULL => Creators' \subseteq Creators]_vars
  BY <1>1
<1> QED
  BY <1>2, TypeCorrect, PTL DEF Spec, NoCreateOnceObserved

LEMMA InitMapsToInit == Init => LC!Init
  BY DEF Init, LC!Init, LC!DeploymentStatus, LC!PastBuild

LEMMA StepMapsToStep ==
  ASSUME IInv, Next
  PROVE  LC!Next \/ UNCHANGED LC!vars
<1> USE DEF LC!Next, LC!Move, LC!Attach, LC!vars, LC!canTransition, LC!transitions,
            LC!DeploymentStatus, LC!PastBuild, IInv
<1>1. ASSUME NEW r \in Runs, attachProviderDeployment(r)
      PROVE  LC!Next \/ UNCHANGED LC!vars
  BY <1>1 DEF attachProviderDeployment, buildResultAttachmentDecision, TargetsVisible
<1>2. \/ \E r \in Runs : attachProviderDeployment(r)
      \/ UNCHANGED buildPid
  BY DEF Next, BuildRun, StartBuild, ensureBuildOperation, ListCandidates,
         claimProviderCreateOperation, PostAnswered, PostRetryable, PostRefused,
         ClassifyOnDeployment, ClassifyOnOperation, ThrowBuild, CrashBuild,
         ReconcileRun, FetchBuild, ApplyReconciliation, CrashReconcile,
         StopRun, StartTimeout, StartAbandon, AbandonLocked, LookupContainment,
         cancelVercelDeployment, RecordContainment, FailBuildTimeout, CrashStop,
         ProviderStep, markOrchestrationRunFailed, ResetStuckOperation
<1>3. ASSUME UNCHANGED buildPid, depStatus' # depStatus
      PROVE  LC!Next
  <2>1. /\ depStatus \in {"BUILDING", "DEPLOYING"}
        /\ \/ depStatus' = "FAILED"
           \/ depStatus = "BUILDING" /\ depStatus' = "DEPLOYING" /\ buildPid # NULL
    BY <1>3, StatusSteps, AdvanceOnReady
    DEF AbandonLocked, FailBuildTimeout, UpdateBuildingDeployment,
        markOrchestrationRunFailed, ChecksTraced, TypeOK, Statuses
  <2> QED
    BY <1>3, <2>1
<1> QED
  BY <1>1, <1>2, <1>3

\* The BUILDING stage implements the life cycle of the deployment row: its
\* only status steps are the reconciliation's and the failures, and only
\* attachProviderDeployment replaces the build, under the BUILDING check.
THEOREM ImplementsLifecycle == Spec => RefinesLifecycle
<1>1. IInv /\ [Next]_vars => [LC!Next]_LC!vars
  BY StepMapsToStep DEF vars, deployment, LC!vars
<1> QED
  BY <1>1, InitMapsToInit, Inductive, PTL DEF Spec, RefinesLifecycle, LC!Spec
=============================================================================
