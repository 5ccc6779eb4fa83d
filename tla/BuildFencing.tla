---------------------------- MODULE BuildFencing ----------------------------
(***************************************************************************)
(* The BUILDING stage of one deployment: how concurrent runs of the        *)
(* execute-build task create the provider (Vercel) deployment and attach   *)
(* it, fenced by one row of the provider-operation ledger, while other     *)
(* tasks reconcile, time out, abandon or fail the same deployment.         *)
(*                                                                         *)
(* Rows of the control-plane database:                                     *)
(*   depStatus, depError, depPid   deployments.status, .error_code,        *)
(*                                 .provider_deployment_id                 *)
(*   buildPid                      deployment_builds.provider_deployment_id*)
(*   opStatus, opResource          deployment_provider_operations.status,  *)
(*                                 .provider_resource_id                   *)
(*   traced                        ids named by attach events in           *)
(*                                 deployment_events                       *)
(*   containment, containedPid     the last PROVIDER_CANCEL_CONFIRMED,     *)
(*                                 PROVIDER_ALREADY_TERMINAL or            *)
(*                                 PROVIDER_CANCEL_FAILED event            *)
(* The provider:                                                           *)
(*   remote                        its deployments that carry this         *)
(*                                 deployment's metadata                   *)
(* Tasks in flight:                                                        *)
(*   pc, opSeen, target, posts     execute-build runs                      *)
(*   check                         reconcile-build runs between the        *)
(*                                 provider's answer and the transaction   *)
(*   stop                          timeout and abandon tasks               *)
(*                                                                         *)
(* deployment_builds.status is left out: nothing in this stage reads it.   *)
(* The workspace limit on new operations may refuse any run (it is counted *)
(* in DeploymentGates). A step stands for a transaction, for a single      *)
(* statement outside one, or for a provider call together with the reads   *)
(* just before it, which nothing in between can tell apart.                *)
(***************************************************************************)
EXTENDS Naturals, FiniteSets

CONSTANTS
  Runs,       \* execute-build runs that can be in flight at once
  Checkers,   \* reconcile-build runs that can be in flight at once
  Stoppers,   \* timeout and abandon tasks that can be in flight at once
  Operators,  \* operators who reset a stuck provider operation
  RemoteIds,  \* ids the provider can hand out (bounds the creations)
  MaxPosts,   \* attempts of one create request, 3 in the code
  NULL

VARIABLES
  depStatus, depError, depPid, buildPid, opStatus, opResource,
  traced, containment, containedPid,
  remote,
  pc, opSeen, target, posts, check, stop

deployment == <<depStatus, depError, depPid>>
ledger     == <<opStatus, opResource>>
evidence   == <<containment, containedPid>>
builders   == <<pc, opSeen, target, posts>>
vars == <<deployment, buildPid, ledger, traced, evidence, remote,
          builders, check, stop>>

-----------------------------------------------------------------------------

Statuses == {"BUILDING", "DEPLOYING", "FAILED"}

Errors == {"PROVIDER_ERROR", "BUILD_FAILED", "BUILD_SOURCE_MISMATCH",
           "SOURCE_IDENTITY_UNAVAILABLE", "BUILD_TIMEOUT",
           "DEPLOYMENT_ABANDONED", "ORCHESTRATION_RUN_FAILED",
           "WORKSPACE_PROVIDER_OPERATION_LIMIT_REACHED"}

ASSUME ConstantsAssumption ==
  /\ MaxPosts \in Nat \ {0}
  /\ NULL \notin RemoteIds \cup Errors

\* "ABSENT" before the row exists.
OperationStatuses == {"ABSENT", "INTENT_RECORDED", "CREATE_REQUESTED",
                      "OBSERVED", "OBSERVED_STALE", "AMBIGUOUS", "FAILED"}

\* "unused": id not handed out. "accepted": a create request got through,
\* but lists do not show the deployment yet.
RemoteStates == {"unused", "accepted", "BUILDING", "READY", "ERROR", "CANCELED"}

RemoteTerminal == {"READY", "ERROR", "CANCELED"}

\* What the last containment event of the deployment says.
Containments == {"NONE", "CANCEL_CONFIRMED", "ALREADY_TERMINAL",
                 "CANCEL_PENDING_RECONCILIATION", "CONTAINMENT_FAILED"}

Steps == {"idle", "preflight", "list", "claim", "post", "upload",
          "attach", "classify", "settle"}

SourceVerdicts == {"MATCH", "MISMATCH", "UNAVAILABLE"}

\* What a reconciliation concluded from what it read, "none" when none is
\* between its reading and its transaction.
Verdicts == {"none", "mismatch", "source-unverified", "advance-deploying", "fail-build"}

Stops == [step : {"idle", "lock", "lookup", "cancel", "record", "fail"},
          kind : {"timeout", "abandon"},
          pid  : RemoteIds \cup {NULL},
          outcome : Containments]

NoStop == [step |-> "idle", kind |-> "timeout", pid |-> NULL, outcome |-> "NONE"]

TypeOK ==
  /\ depStatus \in Statuses
  /\ depError \in Errors \cup {NULL}
  /\ depPid \in RemoteIds \cup {NULL}
  /\ buildPid \in RemoteIds \cup {NULL}
  /\ opStatus \in OperationStatuses
  /\ opResource \in RemoteIds \cup {NULL}
  /\ traced \in SUBSET RemoteIds
  /\ containment \in Containments
  /\ containedPid \in RemoteIds \cup {NULL}
  /\ remote \in [RemoteIds -> RemoteStates]
  /\ pc \in [Runs -> Steps]
  /\ opSeen \in [Runs -> OperationStatuses]
  /\ target \in [Runs -> RemoteIds \cup {NULL}]
  /\ posts \in [Runs -> 0 .. MaxPosts]
  /\ check \in [Checkers -> Verdicts]
  /\ stop \in [Stoppers -> Stops]

-----------------------------------------------------------------------------

\* provision-runtime has just moved the deployment to BUILDING.
Init ==
  /\ depStatus = "BUILDING" /\ depError = NULL /\ depPid = NULL
  /\ buildPid = NULL
  /\ opStatus = "ABSENT" /\ opResource = NULL
  /\ traced = {}
  /\ containment = "NONE" /\ containedPid = NULL
  /\ remote = [id \in RemoteIds |-> "unused"]
  /\ pc = [r \in Runs |-> "idle"]
  /\ opSeen = [r \in Runs |-> "ABSENT"]
  /\ target = [r \in Runs |-> NULL]
  /\ posts = [r \in Runs |-> 0]
  /\ check = [c \in Checkers |-> "none"]
  /\ stop = [s \in Stoppers |-> NoStop]

-----------------------------------------------------------------------------
(* The execute-build task. A run moves through the steps of its handler;   *)
(* GoTo and Finish only touch the run's own locals.                        *)

GoTo(r, step) ==
  /\ pc' = [pc EXCEPT ![r] = step]
  /\ UNCHANGED <<opSeen, target, posts>>

Finish(r) ==
  /\ pc' = [pc EXCEPT ![r] = "idle"]
  /\ opSeen' = [opSeen EXCEPT ![r] = "ABSENT"]
  /\ target' = [target EXCEPT ![r] = NULL]
  /\ posts' = [posts EXCEPT ![r] = 0]

\* The catch-all of runExecuteBuild: whatever was thrown, the deployment's
\* operation goes back to FAILED if a claim of any run is pending on it.
ReleaseClaim ==
  /\ opStatus' = IF opStatus = "CREATE_REQUESTED" /\ opResource = NULL
                   THEN "FAILED" ELSE opStatus
  /\ UNCHANGED opResource

\* A run begins: a build row makes it a replay that changes nothing, a
\* deployment that left BUILDING makes it throw.
StartBuild(r) ==
  /\ pc[r] = "idle"
  /\ buildPid = NULL
  /\ \/ /\ depStatus = "BUILDING"
        /\ GoTo(r, "preflight")
        /\ UNCHANGED ledger
     \/ /\ depStatus # "BUILDING"
        /\ ReleaseClaim
        /\ UNCHANGED builders
  /\ UNCHANGED <<deployment, buildPid, traced, evidence, remote, check, stop>>

\* Project checks passed: read the operation row, or insert it. At the limit
\* the reason is written on the deployment, whatever its status, and the run
\* ends.
ensureBuildOperation(r) ==
  /\ pc[r] = "preflight"
  /\ \/ /\ opStatus' = IF opStatus = "ABSENT" THEN "INTENT_RECORDED" ELSE opStatus
        /\ opSeen' = [opSeen EXCEPT ![r] = opStatus']
        /\ pc' = [pc EXCEPT ![r] = "list"]
        /\ UNCHANGED <<depError, target, posts>>
     \/ /\ opStatus = "ABSENT"
        /\ depError' = "WORKSPACE_PROVIDER_OPERATION_LIMIT_REACHED"
        /\ Finish(r)
        /\ UNCHANGED opStatus
  /\ UNCHANGED <<depStatus, depPid, buildPid, opResource, traced, evidence, remote,
                 check, stop>>

\* The provider's deployments that carry this deployment's metadata.
matchingSscDeployments == {id \in RemoteIds : remote[id] \notin {"unused", "accepted"}}

\* What a run does after it saw operation status op and these matches.
buildRecoveryAction(op, matches) ==
  IF op = "AMBIGUOUS" \/ Cardinality(matches) > 1 THEN "ambiguous"
  ELSE IF Cardinality(matches) = 1 THEN "attach"
  ELSE IF op = "CREATE_REQUESTED" THEN "pending"
  ELSE "create"

\* Whether a run that saw the operation in this status tries to claim it. (The
\* decision also looks at the resource it saw, as the claim itself does.)
providerCreateClaimDecision(op) == op \in {"INTENT_RECORDED", "FAILED"}

\* List the candidates and decide. The operation status is the one read at
\* the step before; the rows may have moved on since.
ListCandidates(r) ==
  /\ pc[r] = "list"
  /\ LET matches == matchingSscDeployments
         action  == buildRecoveryAction(opSeen[r], matches)
     IN \/ /\ action = "ambiguous"
           /\ opStatus' = "AMBIGUOUS"
           /\ Finish(r)
        \/ /\ action = "attach"
           /\ pc' = [pc EXCEPT ![r] = "attach"]
           /\ \E id \in matches : target' = [target EXCEPT ![r] = id]
           /\ UNCHANGED <<opStatus, opSeen, posts>>
        \/ /\ \/ action = "pending"
              \/ action = "create" /\ ~providerCreateClaimDecision(opSeen[r])
           /\ Finish(r)
           /\ UNCHANGED opStatus
        \/ /\ action = "create"
           /\ providerCreateClaimDecision(opSeen[r])
           /\ GoTo(r, "claim")
           /\ UNCHANGED opStatus
  /\ UNCHANGED <<deployment, buildPid, opResource, traced, evidence, remote,
                 check, stop>>

\* The compare-and-set of the ledger row.
ClaimableUnlessPending == opStatus # "CREATE_REQUESTED"

claimable == opStatus \in {"INTENT_RECORDED", "FAILED"} /\ opResource = NULL

claimProviderCreateOperation(r) ==
  /\ pc[r] = "claim"
  /\ \/ /\ claimable
        /\ opStatus' = "CREATE_REQUESTED"
        /\ GoTo(r, "post")
     \/ /\ ~claimable
        /\ Finish(r)
        /\ UNCHANGED opStatus
  /\ UNCHANGED <<deployment, buildPid, opResource, traced, evidence, remote,
                 check, stop>>

\* The provider's side of one create request: a fresh deployment, or none.
Creates(id, state) ==
  /\ remote[id] = "unused"
  /\ remote' = [remote EXCEPT ![id] = state]

\* The create request is answered with the new deployment.
PostAnswered(r) ==
  /\ pc[r] \in {"post", "upload"}
  /\ \E id \in RemoteIds :
       /\ Creates(id, "BUILDING")
       /\ target' = [target EXCEPT ![r] = id]
  /\ pc' = [pc EXCEPT ![r] = "attach"]
  /\ UNCHANGED <<deployment, buildPid, ledger, traced, evidence, opSeen, posts,
                 check, stop>>

\* The retry budget of withTransientRetry after n failed attempts.
AttemptsLeftOffByOne(n) == n <= MaxPosts

AttemptsLeft(n) == n < MaxPosts

\* It times out or is rate limited: send it again while attempts remain. A
\* request that timed out may still have been accepted.
PostRetryable(r) ==
  /\ pc[r] \in {"post", "upload"}
  /\ AttemptsLeft(posts[r])
  /\ \/ UNCHANGED remote
     \/ \E id \in RemoteIds : Creates(id, "accepted")
  /\ posts' = [posts EXCEPT ![r] = @ + 1]
  /\ pc' = [pc EXCEPT ![r] = IF AttemptsLeft(posts[r] + 1) THEN @ ELSE "classify"]
  /\ UNCHANGED <<deployment, buildPid, ledger, traced, evidence, opSeen, target,
                 check, stop>>

\* It is refused: for quota or credentials, or because the provider cannot
\* reach the Git source, after which the run uploads the files instead.
PostRefused(r) ==
  /\ pc[r] \in {"post", "upload"}
  /\ \/ GoTo(r, "classify")
     \/ /\ pc[r] = "post"
        /\ pc' = [pc EXCEPT ![r] = "upload"]
        /\ posts' = [posts EXCEPT ![r] = 0]
        /\ UNCHANGED <<opSeen, target>>
  /\ UNCHANGED <<deployment, buildPid, ledger, traced, evidence, remote, check, stop>>

\* recordClassifiedFailure, first statement: no condition on the status.
ClassifyOnDeployment(r) ==
  /\ pc[r] = "classify"
  /\ depError' = "PROVIDER_ERROR"
  /\ GoTo(r, "settle")
  /\ UNCHANGED <<depStatus, depPid, buildPid, ledger, traced, evidence, remote,
                 check, stop>>

\* Second statement: the operation may be claimed again.
ClassifyOnOperation(r) ==
  /\ pc[r] = "settle"
  /\ opStatus' = "FAILED"
  /\ Finish(r)
  /\ UNCHANGED <<deployment, buildPid, opResource, traced, evidence, remote,
                 check, stop>>

\* Whether a provider result may still become the deployment's build.
AttachmentIgnoringStatus == opStatus \in {"INTENT_RECORDED", "CREATE_REQUESTED", "OBSERVED"}

buildResultAttachmentDecision ==
  /\ depStatus = "BUILDING"
  /\ opStatus \in {"INTENT_RECORDED", "CREATE_REQUESTED", "OBSERVED"}

\* The event that names the result, whichever way the decision goes.
TraceAttachedOnly(id) ==
  traced' = IF buildResultAttachmentDecision THEN traced \cup {id} ELSE traced

TraceResult(id) == traced' = traced \cup {id}

\* Both rows are locked, the decision is made on what they hold now, and
\* the result becomes the build or is recorded as stale.
attachProviderDeployment(r) ==
  /\ pc[r] = "attach"
  /\ TraceResult(target[r])
  /\ opResource' = target[r]
  /\ \/ /\ buildResultAttachmentDecision
        /\ buildPid' = target[r]
        /\ IF depStatus = "BUILDING"
             THEN depPid' = target[r] /\ depError' = NULL
             ELSE UNCHANGED <<depPid, depError>>
        /\ opStatus' = "OBSERVED"
     \/ /\ ~buildResultAttachmentDecision
        /\ opStatus' = "OBSERVED_STALE"
        /\ UNCHANGED <<buildPid, depPid, depError>>
  /\ Finish(r)
  /\ UNCHANGED <<depStatus, evidence, remote, check, stop>>

\* Any other error: the catch-all releases the claim and the run ends.
ThrowBuild(r) ==
  /\ pc[r] # "idle"
  /\ ReleaseClaim
  /\ Finish(r)
  /\ UNCHANGED <<deployment, buildPid, traced, evidence, remote, check, stop>>

\* The worker disappears: nothing is written.
CrashBuild(r) ==
  /\ pc[r] # "idle"
  /\ Finish(r)
  /\ UNCHANGED <<deployment, buildPid, ledger, traced, evidence, remote, check, stop>>

\* Operator o runs reset-stuck-provider-operation.
ResetStuckOperation(o) ==
  /\ opStatus = "CREATE_REQUESTED"
  /\ ReleaseClaim
  /\ UNCHANGED <<deployment, buildPid, traced, evidence, remote, builders, check, stop>>

-----------------------------------------------------------------------------
(* The reconcile-build task: read the rows and ask the provider about the  *)
(* attached build, then one transaction on what it answered.               *)

\* The verdict on the build from the deployment status, the provider's answer
\* and the source it reports.
AdvanceUnlessFailed(status, provider, source) ==
  IF provider \in {"ERROR", "CANCELED"} THEN "fail-build" ELSE "advance-deploying"

buildReconciliationAction(status, provider, source) ==
  IF source = "MISMATCH" THEN "mismatch"
  ELSE IF status = "BUILDING" /\ provider = "READY"
    THEN IF source = "MATCH" THEN "advance-deploying" ELSE "source-unverified"
  ELSE IF status = "BUILDING" /\ provider \in {"ERROR", "CANCELED"} THEN "fail-build"
  ELSE "pending"

\* Read the rows and ask the provider. A pending verdict changes nothing.
FetchBuild(c) ==
  /\ check[c] = "none"
  /\ buildPid # NULL
  /\ depStatus # "FAILED"
  /\ \E source \in SourceVerdicts :
       LET action == buildReconciliationAction(depStatus, remote[buildPid], source)
       IN /\ action # "pending"
          /\ check' = [check EXCEPT ![c] = action]
  /\ UNCHANGED <<deployment, buildPid, ledger, traced, evidence, remote,
                 builders, stop>>

ReconcileError(action) ==
  CASE action = "mismatch"          -> "BUILD_SOURCE_MISMATCH"
    [] action = "source-unverified" -> "SOURCE_IDENTITY_UNAVAILABLE"
    [] action = "fail-build"        -> "BUILD_FAILED"

\* UPDATE deployments SET status, error_code WHERE status = 'BUILDING'.
UpdateAnyDeployment(status, error) == depStatus' = status /\ depError' = error

UpdateBuildingDeployment(status, error) ==
  \/ /\ depStatus = "BUILDING"
     /\ depStatus' = status
     /\ depError' = error
  \/ /\ depStatus # "BUILDING"
     /\ UNCHANGED <<depStatus, depError>>

ApplyReconciliation(c) ==
  /\ \/ /\ check[c] = "advance-deploying"
        /\ UpdateBuildingDeployment("DEPLOYING", NULL)
     \/ /\ check[c] \in {"mismatch", "source-unverified", "fail-build"}
        /\ UpdateBuildingDeployment("FAILED", ReconcileError(check[c]))
  /\ check' = [check EXCEPT ![c] = "none"]
  /\ UNCHANGED <<depPid, buildPid, ledger, traced, evidence, remote, builders, stop>>

\* The reconciling worker disappears, or its request fails.
CrashReconcile(c) ==
  /\ check[c] # "none"
  /\ check' = [check EXCEPT ![c] = "none"]
  /\ UNCHANGED <<deployment, buildPid, ledger, traced, evidence, remote, builders, stop>>

-----------------------------------------------------------------------------
(* Timeout (failBuildTimeout, containTimedOutBuild) and abandonment. Both  *)
(* call recordRemoteBuildContainment, which is not a transaction: it looks *)
(* up the last recorded outcome, cancels, and records what came out.       *)

\* The build deadline passed. failBuildTimeout contains the build first and
\* fails the deployment afterwards; a replay on the failed row contains it.
StartTimeout(s) ==
  /\ stop[s].step = "idle"
  /\ buildPid # NULL
  /\ depStatus = "BUILDING" \/ (depStatus = "FAILED" /\ depError = "BUILD_TIMEOUT")
  /\ stop' = [stop EXCEPT ![s] = [NoStop EXCEPT !.step = "lookup", !.pid = buildPid]]
  /\ UNCHANGED <<deployment, buildPid, ledger, traced, evidence, remote, builders, check>>

\* The abandon task's SELECT ... FOR UPDATE takes its snapshot of the build
\* and operation rows, then waits for the lock on the deployment row.
StartAbandon(s) ==
  /\ stop[s].step = "idle"
  /\ stop' = [stop EXCEPT ![s] =
                [NoStop EXCEPT !.step = "lock", !.kind = "abandon",
                   !.pid = IF buildPid # NULL THEN buildPid
                           ELSE IF opStatus \in {"OBSERVED", "OBSERVED_STALE"}
                             THEN opResource ELSE NULL]]
  /\ UNCHANGED <<deployment, buildPid, ledger, traced, evidence, remote, builders, check>>

\* With the lock held: fail an active deployment; a terminal one is left as
\* it is, and contained again only if it was abandoned before.
AbandonLocked(s) ==
  /\ stop[s].step = "lock"
  /\ LET contains == /\ stop[s].pid # NULL
                     /\ depStatus = "FAILED" => depError = "DEPLOYMENT_ABANDONED"
     IN stop' = [stop EXCEPT ![s] =
                   IF contains THEN [@ EXCEPT !.step = "lookup"] ELSE NoStop]
  /\ \/ /\ depStatus # "FAILED"
        /\ depStatus' = "FAILED"
        /\ depError' = "DEPLOYMENT_ABANDONED"
     \/ /\ depStatus = "FAILED"
        /\ UNCHANGED <<depStatus, depError>>
  /\ UNCHANGED <<depPid, buildPid, ledger, traced, evidence, remote, builders, check>>

\* After containment a timeout still has to fail the deployment.
AfterContainment(s) ==
  IF stop[s].kind = "timeout" THEN [stop[s] EXCEPT !.step = "fail"] ELSE NoStop

\* A recorded outcome is final unless it is a failure marked retryable.
LookupContainment(s) ==
  /\ stop[s].step = "lookup"
  /\ stop' = [stop EXCEPT ![s] =
                IF containment \in {"NONE", "CANCEL_PENDING_RECONCILIATION"}
                  THEN [@ EXCEPT !.step = "cancel"] ELSE AfterContainment(s)]
  /\ UNCHANGED <<deployment, buildPid, ledger, traced, evidence, remote, builders, check>>

\* The cancel was accepted and a second look shows the build canceled.
CancelUnverified(pid) ==
  /\ remote[pid] \notin RemoteTerminal
  /\ remote' \in {remote, [remote EXCEPT ![pid] = "CANCELED"]}

CancelVerified(pid) ==
  /\ remote[pid] \notin RemoteTerminal
  /\ remote' = [remote EXCEPT ![pid] = "CANCELED"]

\* Look up, cancel what is not terminal, look again. Answers may be lost
\* after the provider acted, and the provider may refuse.
cancelVercelDeployment(s) ==
  /\ stop[s].step = "cancel"
  /\ LET pid == stop[s].pid
     IN \E outcome \in Containments \ {"NONE"} :
          /\ \/ /\ outcome = "ALREADY_TERMINAL"
                /\ remote[pid] \in RemoteTerminal
                /\ UNCHANGED remote
             \/ /\ outcome = "CANCEL_CONFIRMED"
                /\ CancelVerified(pid)
             \/ /\ outcome \in {"CANCEL_PENDING_RECONCILIATION", "CONTAINMENT_FAILED"}
                /\ UNCHANGED remote \/ CancelVerified(pid)
          /\ stop' = [stop EXCEPT ![s] = [@ EXCEPT !.step = "record", !.outcome = outcome]]
  /\ UNCHANGED <<deployment, buildPid, ledger, traced, evidence, builders, check>>

RecordContainment(s) ==
  /\ stop[s].step = "record"
  /\ containment' = stop[s].outcome
  /\ containedPid' = stop[s].pid
  /\ stop' = [stop EXCEPT ![s] = AfterContainment(s)]
  /\ UNCHANGED <<deployment, buildPid, ledger, traced, remote, builders, check>>

\* The deployment fails if it is still BUILDING.
FailBuildTimeout(s) ==
  /\ stop[s].step = "fail"
  /\ UpdateBuildingDeployment("FAILED", "BUILD_TIMEOUT")
  /\ stop' = [stop EXCEPT ![s] = NoStop]
  /\ UNCHANGED <<depPid, buildPid, ledger, traced, evidence, remote, builders, check>>

\* A timeout or abandon worker disappears.
CrashStop(s) ==
  /\ stop[s].step # "idle"
  /\ stop' = [stop EXCEPT ![s] = NoStop]
  /\ UNCHANGED <<deployment, buildPid, ledger, traced, evidence, remote, builders, check>>

-----------------------------------------------------------------------------

\* The customer's progress request finds the orchestration run failed. The
\* provider is not told.
markOrchestrationRunFailed ==
  /\ depStatus \in {"BUILDING", "DEPLOYING"}
  /\ depStatus' = "FAILED"
  /\ depError' = "ORCHESTRATION_RUN_FAILED"
  /\ UNCHANGED <<depPid, buildPid, ledger, traced, evidence, remote, builders, check, stop>>

\* The provider makes progress: a request shows up, a build ends (a cancel
\* accepted before may take effect only now).
ProviderStep(id) ==
  /\ \/ /\ remote[id] = "accepted"
        /\ remote' = [remote EXCEPT ![id] = "BUILDING"]
     \/ /\ remote[id] = "BUILDING"
        /\ \E outcome \in RemoteTerminal : remote' = [remote EXCEPT ![id] = outcome]
  /\ UNCHANGED <<deployment, buildPid, ledger, traced, evidence, builders, check, stop>>

BuildRun(r) ==
  \/ StartBuild(r)
  \/ ensureBuildOperation(r)
  \/ ListCandidates(r)
  \/ claimProviderCreateOperation(r)
  \/ PostAnswered(r)
  \/ PostRetryable(r)
  \/ PostRefused(r)
  \/ ClassifyOnDeployment(r)
  \/ ClassifyOnOperation(r)
  \/ attachProviderDeployment(r)
  \/ ThrowBuild(r)
  \/ CrashBuild(r)

ReconcileRun(c) == FetchBuild(c) \/ ApplyReconciliation(c) \/ CrashReconcile(c)

StopRun(s) ==
  \/ StartTimeout(s)
  \/ StartAbandon(s)
  \/ AbandonLocked(s)
  \/ LookupContainment(s)
  \/ cancelVercelDeployment(s)
  \/ RecordContainment(s)
  \/ FailBuildTimeout(s)
  \/ CrashStop(s)

Next ==
  \/ \E r \in Runs : BuildRun(r)
  \/ \E c \in Checkers : ReconcileRun(c)
  \/ \E s \in Stoppers : StopRun(s)
  \/ \E id \in RemoteIds : ProviderStep(id)
  \/ markOrchestrationRunFailed
  \/ \E o \in Operators : ResetStuckOperation(o)

Spec == Init /\ [][Next]_vars

-----------------------------------------------------------------------------
(* Safety.                                                                 *)

\* The rows that name a build never disagree: the deployment row and the
\* build row name the same provider deployment, an OBSERVED operation names
\* it too, a pending claim or a fresh intent hides no known resource, and
\* there is no build without an operation that knows a resource
\* (attachProviderDeployment, claimProviderCreateOperation).
RowsAgree ==
  /\ depPid = buildPid
  /\ opStatus = "OBSERVED" => opResource = buildPid /\ buildPid # NULL
  /\ opStatus \in {"ABSENT", "INTENT_RECORDED", "CREATE_REQUESTED"} => opResource = NULL
  /\ buildPid # NULL => opResource # NULL

\* Whatever id a row or a containment event names was announced by an attach
\* event, stale results included, and exists at the provider.
ResultsTraced ==
  /\ {buildPid, opResource, containedPid} \subseteq traced \cup {NULL}
  /\ \A id \in traced : remote[id] \notin {"unused", "accepted"}

\* A deployment goes on to DEPLOYING only after the provider reported one of
\* its announced builds READY. (Which one is attached by then may differ:
\* a second run can replace the build between the answer and the update.)
DeployingHasReadyBuild ==
  depStatus = "DEPLOYING" =>
    buildPid # NULL /\ \E id \in traced : remote[id] = "READY"

\* What the containment events claim is so: each names a build, a confirmed cancellation or an
\* already ended build has ended at the provider, and no deployment is marked
\* timed out before a containment outcome is on record.
ContainmentEvidence ==
  /\ containment # "NONE" => containedPid # NULL
  /\ containment = "CANCEL_CONFIRMED" => remote[containedPid] = "CANCELED"
  /\ containment = "ALREADY_TERMINAL" => remote[containedPid] \in RemoteTerminal
  /\ depError = "BUILD_TIMEOUT" => containment # "NONE"

Creators == {r \in Runs : pc[r] \in {"post", "upload"}}

\* Once the ledger knows a resource, no further run starts to create one,
\* whatever it had read before (the claim is a compare-and-set).
NoCreateOnceObserved ==
  [][opResource # NULL => Creators' \subseteq Creators]_vars

LC == INSTANCE DeploymentLifecycle WITH
        Builds <- RemoteIds, status <- depStatus, build <- buildPid

\* Whatever the interleaving, readers of the deployment row see it follow the
\* transition table, with the build replaced only while BUILDING and FAILED
\* never left.
RefinesLifecycle == LC!Spec

-----------------------------------------------------------------------------
(* What the repository's documents promise and the code does not keep.     *)

\* "One logical provider operation cannot create two provider resources under
\* supported retry/concurrency behavior": a create request that timed out is
\* sent again without looking whether it was accepted.
OneProviderResource == Cardinality({id \in RemoteIds : remote[id] # "unused"}) <= 1

\* "Atomic claim permits exactly one creator": the catch-all of one run gives
\* back the claim another run holds.
AtMostOneCreator == Cardinality(Creators) <= 1

\* "Terminal state cannot be overwritten by a stale worker": recording a
\* classified provider failure writes error_code whatever the status is.
TerminalStateNotOverwritten ==
  [][depStatus = "FAILED" => UNCHANGED deployment]_vars
=============================================================================
