-------------------------- MODULE DeploymentReports --------------------------
(***************************************************************************)
(* What an operator is told about one deployment: the tasks                *)
(* get-deployment-diagnostic and get-deployment-timeline read the          *)
(* deployment row and then, one query after the other and in no            *)
(* transaction, its events, its build and its health checks, while         *)
(* orchestration tasks, operators and customers go on writing them.        *)
(*                                                                         *)
(* Rows of the control-plane database:                                     *)
(*   row       deployments: status, error_code, provider_deployment_id     *)
(*             (known or not)                                              *)
(*   events    deployment_events, oldest first: type and to_status         *)
(*   build     deployment_builds.status                                    *)
(*   attempts  number of deployment_health_checks                          *)
(*   missing   a required variable has no value                            *)
(* In flight:                                                              *)
(*   at, saw   control-plane tasks: the step they are at and the status    *)
(*             they read when they began                                   *)
(*   reader    a report: what its queries have returned so far             *)
(*                                                                         *)
(* Only what the reports show is kept of the tasks. How runs share the     *)
(* provider operation is in BuildFencing, the health loop in ReleaseGate,  *)
(* the checks before a build in DeploymentGates. Events are ordered by     *)
(* their commit. Titles, explanations and the wording of the evidence are  *)
(* left out; the event a report takes its evidence from is kept.           *)
(***************************************************************************)
EXTENDS Naturals, Sequences, FiniteSets, SequencesExt

CONSTANTS
  Tasks,       \* control-plane tasks of this deployment in flight at once
  ProviderErrors, \* classified failures of the provider
  eventLimit,  \* newest events a diagnostic reads, 25 in the code
  MaxAttempts, \* max_health_attempts of the resource policy
  MaxEvents,   \* bound on the events of the deployment
  MaxRepeats,  \* and on those of one type
  NULL

VARIABLES row, events, build, attempts, missing, at, saw, reader

database == <<row, events, build, attempts, missing>>
locals == <<at, saw>>
reportsVars == <<database, locals, reader>>

-----------------------------------------------------------------------------

Statuses == {"ANALYZING", "PROVISIONING", "BUILDING", "DEPLOYING",
             "HEALTH_CHECKING", "LIVE", "FAILED", "DELETING", "DELETED"}

terminalStatuses == {"LIVE", "FAILED", "DELETED"}

PolicyErrors == {"DEPLOYMENT_DAILY_LIMIT_EXCEEDED"}

OtherErrors ==
  {"ENV_CONFIGURATION_REQUIRED", "BUILD_TIMEOUT", "BUILD_SOURCE_MISMATCH",
   "BUILD_FAILED", "HEALTH_CHECK_FAILED", "SOURCE_IDENTITY_UNAVAILABLE",
   "DEPLOYMENT_ABANDONED", "ORCHESTRATION_RUN_FAILED", "UNSUPPORTED_PROJECT"}

Errors == PolicyErrors \cup ProviderErrors \cup OtherErrors

\* The provider's failures have codes of their own, and NULL is no code.
ASSUME ReportsAssumption ==
  /\ ProviderErrors \cap (PolicyErrors \cup OtherErrors) = {}
  /\ NULL \notin Errors

DiagnosticSeverity == {"BLOCKED", "FAILED", "WARNING", "NONE"}

DiagnosticStage == {"ANALYSIS", "ENVIRONMENT", "PROVISIONING", "BUILD",
                    "HEALTH", "PUBLIC_ACCESS", "POLICY", "UNKNOWN"}

\* The events whose category the timeline's summary looks at.
BuildEvents == {"BUILD_STARTED", "BUILD_SUCCEEDED", "BUILD_FAILED", "BUILD_TIMEOUT",
                "BUILD_SOURCE_MISMATCH", "BUILD_SOURCE_UNVERIFIED"}

HealthEvents == {"HEALTH_CHECK_STARTED", "HEALTH_CHECK_PASSED", "HEALTH_CHECK_FAILED"}

Builds == {"QUEUED", "READY", "ERROR", "SOURCE_MISMATCH",
           "SOURCE_IDENTITY_UNVERIFIED", "POLICY_TIMEOUT"}

Rows == [status : Statuses, error : Errors \cup {NULL}, provider : BOOLEAN]

\* The order in which a task's one connection sends them.
Queries == <<"events", "build", "attempts">>

NoReport == [pending |-> <<>>, row |-> NULL]

TypeOK ==
  /\ row \in Rows
  /\ Len(events) <= MaxEvents
  /\ \A i \in 1 .. Len(events) : events[i].to \in Statuses
  /\ build \in Builds \cup {NULL}
  /\ attempts \in 0 .. MaxAttempts
  /\ missing \in BOOLEAN
  /\ saw \in [Tasks -> Statuses \cup {NULL}]
  /\ IsSuffix(reader.pending, Queries)

\* The analysis has just created the deployment.
ReportsInit ==
  /\ row = [status |-> "ANALYZING", error |-> NULL, provider |-> FALSE]
  /\ events = <<[type |-> "STATUS_CHANGED", to |-> "ANALYZING"]>>
  /\ build = NULL /\ attempts = 0
  /\ missing \in BOOLEAN
  /\ at = [t \in Tasks |-> "idle"]
  /\ saw = [t \in Tasks |-> NULL]
  /\ reader = NoReport

-----------------------------------------------------------------------------
(* Writing.                                                                *)

Occurrences(type) == Cardinality({i \in 1 .. Len(events) : events[i].type = type})

Insert(type, to) ==
  /\ Len(events) < MaxEvents
  /\ Occurrences(type) < MaxRepeats
  /\ events' = Append(events, [type |-> type, to |-> to])

\* UPDATE deployments SET status, error_code WHERE status = from, and the
\* event of the change in the same transaction when a row was updated.
Move(from, to, error, type) ==
  IF row.status = from
  THEN /\ row' = [row EXCEPT !.status = to, !.error = error]
       /\ Insert(type, to)
  ELSE UNCHANGED <<row, events>>

GoTo(t, step) == at' = [at EXCEPT ![t] = step]

End(t) == GoTo(t, "idle") /\ saw' = [saw EXCEPT ![t] = NULL]

Known(type) == Occurrences(type) > 0

-----------------------------------------------------------------------------
(* The analysis, the customer's settings and what happens to the           *)
(* deployment as a whole.                                                  *)

recordAnalysisCompleted ==
  /\ row.status = "ANALYZING"
  /\ ~Known("PROJECT_ANALYSIS_COMPLETED")
  /\ row' = [row EXCEPT !.error = NULL]
  /\ Insert("PROJECT_ANALYSIS_COMPLETED", "ANALYZING")
  /\ UNCHANGED <<build, attempts, missing, locals, reader>>

markUnsupported ==
  /\ row.status = "ANALYZING"
  /\ ~Known("PROJECT_ANALYSIS_UNSUPPORTED")
  /\ row' = [row EXCEPT !.error = "UNSUPPORTED_PROJECT"]
  /\ Insert("PROJECT_ANALYSIS_UNSUPPORTED", "ANALYZING")
  /\ UNCHANGED <<build, attempts, missing, locals, reader>>

saveCustomerAppSecret ==
  /\ missing
  /\ missing' = FALSE
  /\ UNCHANGED <<row, events, build, attempts, locals, reader>>

abandonDeployment ==
  /\ row.status \notin terminalStatuses \cup {"DELETING"}
  /\ row' = [row EXCEPT !.status = "FAILED", !.error = "DEPLOYMENT_ABANDONED"]
  /\ Insert("DEPLOYMENT_ABANDONED", "FAILED")
  /\ UNCHANGED <<build, attempts, missing, locals, reader>>

markOrchestrationRunFailed ==
  /\ row.status \in {"PROVISIONING", "BUILDING", "DEPLOYING", "HEALTH_CHECKING"}
  /\ Move(row.status, "FAILED", "ORCHESTRATION_RUN_FAILED", "ORCHESTRATION_RUN_FAILED")
  /\ UNCHANGED <<build, attempts, missing, locals, reader>>

\* Deleting the app moves all its deployments and tells no event of it.
deleteApp ==
  /\ \/ /\ row.status \notin {"DELETING", "DELETED"}
        /\ row' = [row EXCEPT !.status = "DELETING"]
     \/ /\ row.status = "DELETING"
        /\ row' = [row EXCEPT !.status = "DELETED"]
  /\ UNCHANGED <<events, build, attempts, missing, locals, reader>>

-----------------------------------------------------------------------------
(* The tasks. A task that insists on a status reads it when it begins; the *)
(* resource policy does not look at it.                                    *)

FirstSteps ==
  CASE row.status = "ANALYZING" -> {IF missing THEN "block" ELSE "advance"}
    [] row.status = "PROVISIONING" -> {"provision"}
    [] row.status = "BUILDING" ->
         IF build = NULL THEN {"policy", "create"} ELSE {"create", "reconcile", "contain"}
    [] row.status = "DEPLOYING" -> {"health"}
    [] row.status = "HEALTH_CHECKING" -> {"health"}
    [] OTHER -> {}

Begin(t) ==
  /\ at[t] = "idle"
  /\ \E step \in FirstSteps : GoTo(t, step)
  /\ saw' = [saw EXCEPT ![t] = IF row.status = "DEPLOYING" THEN row.status ELSE NULL]
  /\ UNCHANGED <<database, reader>>

BlockForConfiguration(t) ==
  /\ at[t] = "block"
  /\ row' = IF row.status = "ANALYZING"
            THEN [row EXCEPT !.error = "ENV_CONFIGURATION_REQUIRED"] ELSE row
  /\ Insert("ENV_REQUIREMENTS_BLOCKED", "ANALYZING")
  /\ End(t)
  /\ UNCHANGED <<build, attempts, missing, reader>>

AdvanceToProvisioning(t) ==
  /\ at[t] = "advance"
  /\ Move("ANALYZING", "PROVISIONING", NULL, "ENV_REQUIREMENTS_VERIFIED")
  /\ End(t)
  /\ UNCHANGED <<build, attempts, missing, reader>>

provisionRuntime(t) ==
  /\ at[t] = "provision"
  /\ IF row.status = "PROVISIONING"
     THEN Move("PROVISIONING", "BUILDING", row.error, "RUNTIME_PROVISIONED")
     ELSE UNCHANGED row /\ (UNCHANGED events \/ Insert("RUNTIME_PROVIDER_RESULT_STALE", row.status))
  /\ End(t)
  /\ UNCHANGED <<build, attempts, missing, reader>>

\* The error is written whatever the status has become meanwhile.
enforceResourcePolicy(t) ==
  /\ at[t] = "policy"
  /\ \/ End(t) /\ UNCHANGED row
     \/ /\ \E error \in PolicyErrors : row' = [row EXCEPT !.error = error]
        /\ GoTo(t, "policyBlocked")
        /\ UNCHANGED saw
  /\ UNCHANGED <<events, build, attempts, missing, reader>>

RecordPolicyBlock(t) ==
  /\ at[t] = "policyBlocked"
  /\ Insert("RESOURCE_POLICY_BLOCKED", "BUILDING")
  /\ End(t)
  /\ UNCHANGED <<row, build, attempts, missing, reader>>

attachProviderDeployment(t) ==
  /\ at[t] = "create"
  /\ IF row.status = "BUILDING"
     THEN /\ build' = "QUEUED"
          /\ row' = [row EXCEPT !.provider = TRUE, !.error = NULL]
          /\ Insert(IF build = NULL THEN "BUILD_STARTED" ELSE "BUILD_RECOVERY_ATTACHED", "BUILDING")
     ELSE /\ Insert("BUILD_PROVIDER_RESULT_STALE", row.status)
          /\ UNCHANGED <<build, row>>
  /\ End(t)
  /\ UNCHANGED <<attempts, missing, reader>>

\* The error is written whatever the status has become meanwhile.
recordClassifiedFailure(t) ==
  /\ at[t] = "create"
  /\ \E error \in ProviderErrors : row' = [row EXCEPT !.error = error]
  /\ GoTo(t, "providerBlocked")
  /\ UNCHANGED <<events, build, attempts, missing, saw, reader>>

RecordProviderBlock(t) ==
  /\ at[t] = "providerBlocked"
  /\ Insert("BUILD_PROVIDER_BLOCKED", "BUILDING")
  /\ End(t)
  /\ UNCHANGED <<row, build, attempts, missing, reader>>

\* The build the provider shows is READY, failed or of another commit.
reconcileBuild(t) ==
  /\ at[t] = "reconcile"
  /\ \/ /\ build' = "READY"
        /\ Move("BUILDING", "DEPLOYING", NULL, "BUILD_SUCCEEDED")
     \/ /\ build' = "ERROR"
        /\ Move("BUILDING", "FAILED", "BUILD_FAILED", "BUILD_FAILED")
     \/ /\ build' = "SOURCE_IDENTITY_UNVERIFIED"
        /\ Move("BUILDING", "FAILED", "SOURCE_IDENTITY_UNAVAILABLE", "BUILD_SOURCE_UNVERIFIED")
  /\ End(t)
  /\ UNCHANGED <<attempts, missing, reader>>

\* The event of a mismatch is inserted even when the row was not updated.
RejectSourceMismatch(t) ==
  /\ at[t] = "reconcile"
  /\ build' = "SOURCE_MISMATCH"
  /\ row' = IF row.status = "BUILDING"
            THEN [row EXCEPT !.status = "FAILED", !.error = "BUILD_SOURCE_MISMATCH"] ELSE row
  /\ Insert("BUILD_SOURCE_MISMATCH", "FAILED")
  /\ End(t)
  /\ UNCHANGED <<attempts, missing, reader>>

\* The deadline has passed: stop the provider's build, once, ...
recordRemoteBuildContainment(t) ==
  /\ at[t] = "contain"
  /\ IF Known("PROVIDER_CANCEL_CONFIRMED") \/ row.status # "BUILDING"
     THEN UNCHANGED events ELSE Insert("PROVIDER_CANCEL_CONFIRMED", "BUILDING")
  /\ GoTo(t, "timeout")
  /\ UNCHANGED <<row, build, attempts, missing, saw, reader>>

\* ... and fail the deployment.
failBuildTimeout(t) ==
  /\ at[t] = "timeout"
  /\ build' = IF row.status = "BUILDING" THEN "POLICY_TIMEOUT" ELSE build
  /\ Move("BUILDING", "FAILED", "BUILD_TIMEOUT", "BUILD_TIMEOUT")
  /\ End(t)
  /\ UNCHANGED <<attempts, missing, reader>>

StartHealthChecks(t) ==
  /\ at[t] = "health"
  /\ IF saw[t] = "DEPLOYING"
     THEN Move("DEPLOYING", "HEALTH_CHECKING", row.error, "HEALTH_CHECK_STARTED")
     ELSE UNCHANGED <<row, events>>
  /\ GoTo(t, "probe")
  /\ UNCHANGED <<build, attempts, missing, saw, reader>>

\* One attempt, healthy or not, or none left.
Probe(t) ==
  /\ at[t] = "probe"
  /\ \/ attempts < MaxAttempts /\ attempts' = attempts + 1 /\ GoTo(t, "healthy") /\ UNCHANGED saw
     \/ attempts < MaxAttempts /\ attempts' = attempts + 1
        /\ IF attempts' = MaxAttempts THEN GoTo(t, "exhausted") /\ UNCHANGED saw ELSE End(t)
     \/ attempts = MaxAttempts /\ GoTo(t, "exhausted") /\ UNCHANGED <<attempts, saw>>
  /\ UNCHANGED <<row, events, build, missing, reader>>

HealthPassed(t) ==
  /\ at[t] = "healthy"
  /\ row' = IF row.status = "HEALTH_CHECKING" THEN [row EXCEPT !.error = NULL] ELSE row
  /\ Insert("HEALTH_CHECK_PASSED", "HEALTH_CHECKING")
  /\ GoTo(t, "access")
  /\ UNCHANGED <<build, attempts, missing, saw, reader>>

HealthExhausted(t) ==
  /\ at[t] = "exhausted"
  /\ Move("HEALTH_CHECKING", "FAILED", "HEALTH_CHECK_FAILED", "HEALTH_CHECK_FAILED")
  /\ End(t)
  /\ UNCHANGED <<build, attempts, missing, reader>>

\* A healthy deployment that another run has moved on is left alone.
ConfigurePublicAccess(t) ==
  /\ at[t] = "access"
  /\ IF row.status = "HEALTH_CHECKING" THEN GoTo(t, "checking") /\ UNCHANGED saw ELSE End(t)
  /\ UNCHANGED <<database, reader>>

PublicAccessBlocked(t) ==
  /\ at[t] = "checking"
  /\ Insert("PUBLIC_ACCESS_BLOCKED", "HEALTH_CHECKING")
  /\ End(t)
  /\ UNCHANGED <<row, build, attempts, missing, reader>>

\* The event of going live is inserted even when the row was not updated.
PublicAccessVerified(t) ==
  /\ at[t] = "checking"
  /\ row' = IF row.status = "HEALTH_CHECKING"
            THEN [row EXCEPT !.status = "LIVE", !.error = NULL] ELSE row
  /\ Insert("PUBLIC_ACCESS_VERIFIED", "LIVE")
  /\ End(t)
  /\ UNCHANGED <<build, attempts, missing, reader>>

-----------------------------------------------------------------------------
(* Reading: the row first, then the other queries.                         *)

StartReport ==
  /\ reader.row = NULL
  /\ reader' = [pending |-> Queries, row |-> row, events |-> <<>>, build |-> NULL, attempts |-> 0]
  /\ UNCHANGED <<database, locals>>

\* (mutant) The row is read again at the end.
RowReadLast ==
  /\ reader.pending # <<>>
  /\ LET query == Head(reader.pending)
     IN reader' = [reader EXCEPT
          !.pending = Tail(@),
          !.row = IF query = "attempts" THEN row ELSE @,
          !.events = IF query = "events" THEN events ELSE @,
          !.build = IF query = "build" THEN build ELSE @,
          !.attempts = IF query = "attempts" THEN attempts ELSE @]
  /\ UNCHANGED <<database, locals>>

runIndependentQueries ==
  /\ reader.pending # <<>>
  /\ LET query == Head(reader.pending)
     IN reader' = [reader EXCEPT
          !.pending = Tail(@),
          !.events = IF query = "events" THEN events ELSE @,
          !.build = IF query = "build" THEN build ELSE @,
          !.attempts = IF query = "attempts" THEN attempts ELSE @]
  /\ UNCHANGED <<database, locals>>

-----------------------------------------------------------------------------
(* The diagnostic.                                                         *)

\* What the diagnostic's context has of the events; the timeline's has them all.
Newest(ctx) ==
  LET n == Len(ctx.events)
  IN IF n <= eventLimit THEN ctx
     ELSE [ctx EXCEPT !.events = SubSeq(@, n - eventLimit + 1, n)]

\* The position of the newest event of one of these types, 0 if there is none.
latestProgressionEvent(ctx, types) ==
  SelectLastInSeq(ctx.events, LAMBDA e : e.type \in types)

latestEvent(ctx, type) == latestProgressionEvent(ctx, {type})

diagnostic(severity, part, code, retryable, evidence) ==
  [severity |-> severity, stage |-> part, code |-> code,
   retryable |-> retryable, evidence |-> evidence]

publicAccessStillBlocked(ctx) ==
  /\ ctx.row.status # "LIVE"
  /\ latestEvent(ctx, "PUBLIC_ACCESS_BLOCKED") > latestEvent(ctx, "PUBLIC_ACCESS_VERIFIED")

envStillBlocked(ctx) ==
  \/ ctx.row.error = "ENV_CONFIGURATION_REQUIRED"
  \/ /\ ctx.row.status = "ANALYZING"
     /\ latestEvent(ctx, "ENV_REQUIREMENTS_BLOCKED") > latestEvent(ctx, "ENV_REQUIREMENTS_VERIFIED")

policyStillBlocked(ctx) ==
  \/ ctx.row.error \in PolicyErrors
  \/ /\ ctx.row.status = "BUILDING"
     /\ ~ctx.row.provider /\ ctx.build = NULL
     /\ latestEvent(ctx, "RESOURCE_POLICY_BLOCKED")
          > latestProgressionEvent(ctx, {"BUILD_STARTED", "BUILD_RECOVERY_ATTACHED", "BUILD_SUCCEEDED",
                                         "BUILD_FAILED", "BUILD_TIMEOUT", "BUILD_SOURCE_MISMATCH"})

stageForStatus(status) ==
  CASE status = "ANALYZING" -> "ANALYSIS"
    [] status = "PROVISIONING" -> "PROVISIONING"
    [] status \in {"BUILDING", "DEPLOYING"} -> "BUILD"
    [] status = "HEALTH_CHECKING" -> "HEALTH"
    [] OTHER -> "UNKNOWN"

EnvironmentDiagnostic(ctx) ==
  diagnostic("BLOCKED", "ENVIRONMENT", "ENV_CONFIGURATION_REQUIRED", TRUE,
             latestEvent(ctx, "ENV_REQUIREMENTS_BLOCKED"))

PolicyDiagnostic(ctx) ==
  diagnostic("BLOCKED", "POLICY",
             IF ctx.row.error = NULL THEN "RESOURCE_POLICY_BLOCKED" ELSE ctx.row.error, FALSE,
             latestEvent(ctx, "RESOURCE_POLICY_BLOCKED"))

ProviderDiagnostic(ctx) ==
  diagnostic("BLOCKED", "BUILD", ctx.row.error, ctx.row.error = "VERCEL_RATE_LIMIT",
             latestEvent(ctx, "BUILD_PROVIDER_BLOCKED"))

\* A build that failed, timed out or was of another commit.
BuildDiagnostic(ctx) ==
  diagnostic("FAILED", "BUILD", ctx.row.error, ctx.row.error # "BUILD_SOURCE_MISMATCH",
             latestEvent(ctx, ctx.row.error))

HealthDiagnostic(ctx) ==
  diagnostic("FAILED", "HEALTH", "HEALTH_CHECK_FAILED", TRUE, latestEvent(ctx, "HEALTH_CHECK_FAILED"))

PublicAccessDiagnostic(ctx) ==
  diagnostic("BLOCKED", "PUBLIC_ACCESS", "PUBLIC_ACCESS_BLOCKED", TRUE,
             latestEvent(ctx, "PUBLIC_ACCESS_BLOCKED"))

LiveDiagnostic(ctx) == diagnostic("NONE", "UNKNOWN", "DEPLOYMENT_LIVE", FALSE, 0)

UnknownDiagnostic(ctx) ==
  diagnostic(IF ctx.row.status = "FAILED" THEN "FAILED" ELSE "WARNING", "UNKNOWN",
             IF ctx.row.error = NULL THEN "UNKNOWN" ELSE ctx.row.error, FALSE,
             latestEvent(ctx, "PROVIDER_CANCEL_CONFIRMED"))

NoIssueDiagnostic(ctx) ==
  diagnostic("NONE", stageForStatus(ctx.row.status), "NO_CURRENT_ISSUE", FALSE, 0)

\* The first of these that applies.
normalizeDeploymentDiagnostic(ctx) ==
  CASE envStillBlocked(ctx) -> EnvironmentDiagnostic(ctx)
    [] ~envStillBlocked(ctx) /\ policyStillBlocked(ctx) -> PolicyDiagnostic(ctx)
    [] OTHER ->
  CASE ctx.row.error \in ProviderErrors -> ProviderDiagnostic(ctx)
    [] ctx.row.error \in {"BUILD_TIMEOUT", "BUILD_SOURCE_MISMATCH", "BUILD_FAILED"} -> BuildDiagnostic(ctx)
    [] ctx.row.error = "HEALTH_CHECK_FAILED" -> HealthDiagnostic(ctx)
    [] OTHER ->
  IF publicAccessStillBlocked(ctx) THEN PublicAccessDiagnostic(ctx)
  ELSE IF ctx.row.status = "LIVE" THEN LiveDiagnostic(ctx)
  ELSE IF ctx.row.status = "FAILED" \/ ctx.row.error # NULL THEN UnknownDiagnostic(ctx)
  ELSE NoIssueDiagnostic(ctx)

(* The timeline's summary.                                                 *)

transitioned(ctx, status) == \E i \in 1 .. Len(ctx.events) : ctx.events[i].to = status

SomeEvent(ctx, types) == \E i \in 1 .. Len(ctx.events) : ctx.events[i].type \in types

normalizeDeploymentTimeline(ctx) ==
  [ diagnostic |-> normalizeDeploymentDiagnostic(ctx),
    reachedProviderBuild |->
      \/ ctx.build # NULL \/ ctx.row.provider
      \/ SomeEvent(ctx, BuildEvents \cup {"BUILD_RECOVERY_ATTACHED"}),
    reachedHealthCheck |->
      \/ ctx.attempts > 0
      \/ SomeEvent(ctx, HealthEvents)
      \/ ctx.row.status \in {"HEALTH_CHECKING", "LIVE"},
    reachedLive |-> ctx.row.status = "LIVE" \/ transitioned(ctx, "LIVE"),
    terminal |-> ctx.row.status \in terminalStatuses ]

-----------------------------------------------------------------------------

TaskStep(t) ==
  \/ Begin(t) \/ BlockForConfiguration(t) \/ AdvanceToProvisioning(t) \/ provisionRuntime(t)
  \/ enforceResourcePolicy(t) \/ RecordPolicyBlock(t)
  \/ attachProviderDeployment(t) \/ recordClassifiedFailure(t) \/ RecordProviderBlock(t)
  \/ reconcileBuild(t) \/ RejectSourceMismatch(t)
  \/ recordRemoteBuildContainment(t) \/ failBuildTimeout(t)
  \/ StartHealthChecks(t) \/ Probe(t) \/ HealthPassed(t) \/ HealthExhausted(t)
  \/ ConfigurePublicAccess(t) \/ PublicAccessBlocked(t) \/ PublicAccessVerified(t)

ReportsNext ==
  \/ recordAnalysisCompleted \/ markUnsupported \/ saveCustomerAppSecret
  \/ abandonDeployment \/ markOrchestrationRunFailed \/ deleteApp
  \/ \E t \in Tasks : TaskStep(t)
  \/ StartReport \/ runIndependentQueries

ReportsSpec == ReportsInit /\ [][ReportsNext]_reportsVars

-----------------------------------------------------------------------------

Reported == reader.row # NULL /\ reader.pending = <<>>

Timeline == normalizeDeploymentTimeline(reader)

(* The row is read before everything else and every status is reached in   *)
(* the transaction of its event, so a full timeline explains what it says  *)
(* of the deployment: it shows the event that led to the status, the event *)
(* a failure is explained with, and the stages a deployment passes on the  *)
(* way to where it is. Only the deletion of the app leaves no event.       *)
TimelineExplainsReport ==
  Reported =>
    /\ reader.row.status \notin {"DELETING", "DELETED"} => transitioned(reader, reader.row.status)
    /\ Timeline.diagnostic.severity = "FAILED" /\ Timeline.diagnostic.stage \in {"BUILD", "HEALTH"}
         => Timeline.diagnostic.evidence # 0
    /\ reader.row.status \in {"DEPLOYING", "HEALTH_CHECKING", "LIVE"} => Timeline.reachedProviderBuild
    /\ reader.row.status = "LIVE" => Timeline.reachedHealthCheck /\ Timeline.reachedLive

(* A diagnostic of a deployment that is live has no issue to show.         *)
LiveHasNoIssue ==
  Reported /\ reader.row.status = "LIVE" =>
    normalizeDeploymentDiagnostic(Newest(reader)).severity = "NONE"
=============================================================================
