# Utplava control plane: a TLA+ verification project

Utplava ("Small Software Cloud") puts a customer's GitHub repository, or a
folder of files, live on Vercel, with a Neon database where one is needed. A web
application (the customer interface, which also serves the MCP tools) and a set
of Trigger.dev tasks share one PostgreSQL database, the *control plane*. There is
no scheduler in between: any number of requests, tasks, retries and operator
scripts may work on the same rows at once, every one of them may be killed between
two statements, and what keeps them apart is `WHERE` clauses, row locks and unique
indexes. This project models those protocols, checks them with TLC and proves the
main results with TLAPS.

## 1. Inventory

Paths are relative to `src/`; `cp` is `control-plane`, `ci` is `customer-interface/src/server`.

| component | state it keeps | operations | must be true of it |
|---|---|---|---|
| Deployment life cycle (`cp/src/deployment-state.mjs`) | `deployments.status` | the transition table | every writer follows the table although none consults it |
| Customer deployment control (`ci/customer-deployments.mjs`) | `orchestrator_run_id`, retry lineage | start, resume, retry, redeploy, rollback | the run on record is the run of the last claim; retries of one failure form one chain |
| GitHub push deploys (`ci/github-push-deploy.mjs`) | `github_webhook_deliveries` | record, wait, analyse, start | no older commit replaces a newer one |
| Gates before a build (`cp/trigger/verify-env-requirements.ts`, `apply-runtime-env.ts`, `enforce-resource-policy.ts`, `cp/src/workspace-resource-policy.mjs`, `deployment-failure-cooldown.mjs`, `ci/customer-configuration.mjs`) | requirements, secrets, variables at Vercel, `apps.paused_at`, policies | pause, readiness, configuration, limits, variables | a build gets what its source reads; limits hold under concurrency; a pause lasts |
| Build execution and the operation ledger (`cp/trigger/execute-build.ts`, `cp/src/provider-mutation-fencing.mjs`, `vercel-deployment-recovery.mjs`, `transient-retry.mjs`) | `deployment_provider_operations`, `deployment_builds`, the provider's deployments | intend, list, claim, create, attach, classify a failure, release, operator reset | no creation once a resource is known, no result without a trace, rows that never name different builds |
| Build reconciliation (`cp/trigger/reconcile-build.ts`) | build and deployment rows | ask the provider, advance or fail | DEPLOYING only for a READY build of the right source |
| Timeout, containment, abandonment (`cp/trigger/orchestrate-deployment.ts`, `abandon-deployment.ts`, `cp/src/vercel-deployment-cancellation.mjs`) | containment events | look up, cancel, verify, record, fail | recorded evidence is true; containment is tried before the row fails |
| Release gate (`cp/trigger/health-check.ts`, `configure-public-access.ts`) | `deployment_health_checks`, status | probe attempts, public access, LIVE | LIVE follows a health pass, attempts are accounted for, the loop ends |
| Orchestration (`cp/trigger/orchestrate-deployment.ts`) | the run, its snapshots | dispatch on status, build poll, health loop | it always ends, and two of them for one row do no harm |
| Runtime provisioning (`cp/trigger/provision-runtime.ts`) | `app_runtimes` | find or create a project, attach | one project per app, none left for a deleted app |
| Managed database (`cp/src/managed-database-lifecycle.mjs`, `cp/trigger/provision-database.ts`) | `app_databases` | intend, claim, create, attach, reconcile, delete | one Neon project per app, a deleted one stays deleted |
| App deletion (`cp/trigger/delete-app.ts`, `ci/customer-app-deletion.mjs`) | `app_deletions` | request, delete at the providers, complete | restartable; COMPLETED means nothing is left |
| Apps of a workspace (`ci/repository-analysis.mjs`, `direct-publish.mjs`, `customer-github.mjs`) | `apps`, `github_repositories`, `direct_publishes`, managed branches | connect, select, publish, update, analyse | one app per name and repository; the limit holds; no upload is lost |
| Custom domains (`cp/trigger/manage-custom-domain.ts`, `ci/customer-custom-domain.mjs`) | `app_custom_domains`, the provider's domains | connect, attach, check, recheck, remove | no shared name; proof before reuse; a removal is finished |
| MCP grants (`ci/mcp-auth.mjs`, `mcp-registration.mjs`, `session.mjs`) | clients, codes, token families | register, authorise, exchange, rotate, revoke | a code yields one family; an ended family has no usable token |
| Reports (`cp/src/deployment-diagnostics.mjs`, `deployment-timeline.mjs` and their tasks) | nothing: a sequence of queries | diagnostic, timeline | what is reported is explained by the events next to it |
| App panel (`customer-interface/app/github-panel.js`, `ci/customer-shell.mjs`) | the page's state, requests on their way | poll, refresh, start, retry, redeploy, analyse, save | a click is sent once; what is shown as running comes to an end |
| Public app check (`ci/app-check.mjs`, `app-check-limits.mjs`) | hourly counters, one scan | spend an allowance, ask, report | requests that fail hide trouble and invent none; a report does not contradict itself |
| Identity checks, encryption, sign-in, file selection, logs, mail, operator scripts | single rows | parsing, formatting, lookups | left to unit tests |

How they interact. A customer's request writes the deployment row and triggers
`orchestrate-deployment`, which runs the phases in order as child tasks: analysis,
configuration, database, provisioning, policy, variables, build, reconciliation,
health, public access. The tasks talk to each other through the rows only. The
customer's server reads the same rows, asks Trigger.dev about the recorded run,
and may trigger a second orchestration when a row looks stale (five minutes without
an update, which a long build exceeds). A push arrives as a webhook and goes
through the same analysis and start. The browser polls those rows and refreshes
its page from them. Operators run scripts against the same rows, and a schedule
starts domain checks nobody asked for.

What is hard here: two runs of the same task; a provider's answer that is lost or
arrives after the row moved on; a request that times out although it was accepted; a
worker lost between two transactions; a decision made on a row read before a provider
call; catch-all error handlers that write for somebody else; loops that end only
on certain answers; a page on which the answer to an old question arrives last.
`PROJECT.json` lists each hazard at its line with the properties that cover it, or
why none does.

## 2. Modules

| module | what it is |
|---|---|
| `DeploymentLifecycle` | abstract specification: the status table plus what a reader of a row relies on |
| `BuildFencing`, `BuildFencingProofs` | the BUILDING stage of one deployment, and its theorems |
| `ReleaseGate`, `ReleaseGateProofs` | from DEPLOYING to LIVE, and its theorems |
| `AppResources`, `AppResourcesProofs` | database and runtime project of one app against its deletion, and its theorems |
| `DeploymentControl`, `DeploymentControlProofs` | what requests, pushes and pages do to the deployments of one app, and its theorems |
| `DeploymentGates`, `DeploymentGatesProofs` | what a deployment passes between its analysis and its build, and its theorems |
| `WorkspaceApps` | how apps come to be in one workspace |
| `CustomDomains`, `CustomDomainsProofs` | domains of apps: dashboard, task and schedule, and its theorems |
| `McpGrants` | the grants of AI tools on a workspace |
| `WorkspaceProofs` | theorems about the two modules of a workspace, `McpGrants` and `WorkspaceApps` |
| `DeploymentReports` | diagnostic and timeline, read while tasks write |
| `AppPage` | the panel in the browser against the server |
| `AppCheck` | the allowances and the scan of the public app check |
| `ViewProofs` | theorems about the three modules of what people are shown, `AppCheck`, `AppPage` and `DeploymentReports` |
| `MC...` | constants, symmetry and constraints of each for TLC |

The modules meet at the deployment row, and each one keeps what the others do to
it at the grain its own questions need. `DeploymentControl` has whole runs that
advance, block, fail or vanish; `DeploymentGates` follows a run up to the create
operation; `BuildFencing` starts where the row is BUILDING and has DEPLOYING and
FAILED as its end; `ReleaseGate` starts at DEPLOYING and ends with LIVE or FAILED.
The two stages are shown to implement `DeploymentLifecycle` under their own
refinement mapping (in the second the build is fixed). Assumption at the seam: in
the release stage no `execute-build` run is still in flight, and in neither stage is
the app being deleted. Deletion is in `AppResources`, which follows several
deployments of one app and keeps of the stages only that they end ("SETTLED");
its effect on names is in `WorkspaceApps` and on domains in `CustomDomains`.
`DeploymentReports` takes the events the stages write, and `AppPage` what the
server answers, with BUILDING for every status in between.

### DeploymentLifecycle

`transitions` is the table of `deployment-state.mjs`, `Move` one step along it and
`Attach` a provider deployment becoming the build of the row. It promises three
things beyond the table: the build changes only while BUILDING, the row goes
beyond BUILDING only with a build, and a failed row is not queued again (a retry
inserts a new row, so `FAILED -> QUEUED` of the table is never used). `Init`
allows any row, for a stage starts in the middle of a life.

### BuildFencing

| state | code |
|---|---|
| `depStatus`, `depError`, `depPid` | `deployments.status`, `.error_code`, `.provider_deployment_id` |
| `buildPid` | `deployment_builds.provider_deployment_id` |
| `opStatus`, `opResource` | the one `deployment_provider_operations` row (unique per deployment and type) |
| `traced` | ids named by attach and stale-result events |
| `containment`, `containedPid` | the last containment event |
| `remote` | the provider's deployments with this deployment's metadata |
| `pc`, `opSeen`, `target`, `posts` | locals of the `execute-build` runs |
| `check`, `stop` | `reconcile-build`, timeout and abandon tasks in flight |

An `execute-build` run is `StartBuild`, `ensureBuildOperation`, `ListCandidates`,
`claimProviderCreateOperation`, the `Post...` actions, then
`attachProviderDeployment` or the two statements of `recordClassifiedFailure`
(`ClassifyOnDeployment`, `ClassifyOnOperation`, separate because they are separate
statements outside a transaction). `ThrowBuild` is the catch-all of the handler,
with the release of claims it performs; `CrashBuild` writes nothing.
A `reconcile-build` run is `FetchBuild`, then `ApplyReconciliation` on what was
fetched. A timeout or an abandonment is its start, `LookupContainment`,
`cancelVercelDeployment`, `RecordContainment` and `FailBuildTimeout`; abandonment
first fails the row under its lock. `ResetStuckOperation` is the operator's
script. `ProviderStep` is the build's own progress. A create request that times
out may or may not have been accepted (`PostRetryable`), and an accepted
deployment is not listed until a provider step shows it.

### ReleaseGate

| state | code |
|---|---|
| `depStatus`, `depError` | `deployments.status`, `.error_code` |
| `recordedRun` | `deployments.orchestrator_run_id` |
| `attempts` | `deployment_health_checks`, unique by attempt number |
| `pc`, `number`, `tries` | a run's place, the attempt number it chose, how often its task threw |
| `watch` | a customer's request between reading the row and hearing about the run |

An orchestration is `Trigger`, `Snapshot`, then the health check (`ReadForHealth`,
`BeginHealthChecks`, `CountAttempts`, `RecordAttempt`, `PassHealthCheck` or
`FailHealthChecks`), pauses (`RetryHealth`) and the public access check
(`ReadForAccess`, `VerifyPublicAccess`, `GoLive`), each step one statement or
transaction. `StartByHand` is the operator script that runs the access check on
its own. `Crash` ends a run as failed: the task has no second attempt.
`abandonDeployment` and `markOrchestrationRunFailed` act from outside.

### AppResources

| state | code |
|---|---|
| `status`, `appDeleted` | `deployments.status` of the app's deployments, `apps.deleted_at` |
| `db` | the `app_databases` row: status, project, whether a secret is stored, `deleted_at` |
| `runtime` | `app_runtimes.provider_project_id` |
| `deletion` | the `app_deletions` row |
| `events` | the `deployment_events` that name a runtime project |
| `neonLive`, `neonMade`, `vercelLive`, `vercelMade` | the providers; a project is the number of its creation |
| `pc`, `dep`, `found`, `key`, `seen` | locals of the runs |
| `marked` | row locks of a final transaction that has not committed |
| `quiet` | history variable: no other run overlapped the last deletion |

A provisioning run is one orchestration's two tasks in order:
`StartProvisioning`, `ensureManagedDatabaseIntent`, `listNeonProjectsByName`,
`claimManagedDatabaseCreate`, `createNeonProject`,
`markManagedDatabaseReconciliationRequired` or `persistManagedDatabaseReady`, then
`ReadRuntime`, `ReconcileRuntime` or `ensureRuntime` and `AttachRuntime`. A
deletion is the customer's request, the first transaction (`ReadApp`,
`BeginDeletion`: the `LEFT JOIN` is evaluated in the statement's snapshot and the
lock is awaited after it), the database (`ReadDatabase`, `SearchDatabase`,
`DiscardDatabase`, `BindDatabase`, `DeleteNeonProject`, `RecordDatabaseDeleted`),
`DeleteVercelProject`, and the final transaction in three steps (`Unbind`,
`MarkDeployments`, `CompleteDeletion`), because it deletes the runtime row before
it holds any lock of the app. `StopProvisioning`, `ThrowDeletion` and
`LoseDeletion` end a run anywhere. Both age limits of the request (30 and 10
minutes) are a free choice.

### DeploymentControl

| state | code |
|---|---|
| `count`, `status`, `error`, `input`, `commit`, `parent` | the app's `deployments`, in order of `created_at` |
| `recorded` | `orchestrator_run_id`: none, the start marker, the marker of one resume, or a run |
| `stale` | no update for five minutes |
| `head`, `undelivered` | the branch at GitHub, webhooks not yet recorded |
| `runOf`, `runKey`, `runState` | Trigger.dev: what a run works for, its idempotency key, its state |
| `pc`, `dep`, `seen`, `run`, `was`, `push` | locals of the web requests |
| `claimed` | history: the marker of the last claim |

Every operation is its statements in order: a claim (`ClaimStart`, `ClaimRetry`,
`ClaimRedeploy`, `ClaimRollback`, `ClaimResume`), the trigger (`TriggerRun`, which
gives the same run for the same key, or throws after it may have been accepted), the
record or the withdrawal of the claim. The attempts behind a row (`PreviousAttempts`)
and the lineage a retry counts (`Lineage`) are closures, stated as the smallest set
closed under one step of the code's loops. A resume first reads the row
(`ReadForResume`), asks about the run it read (`AskRun`) and may fail the row
(`markOrchestrationRunFailed`). A push is `ReceivePush`, `PushClear`, the
inspection of the branch's head and the analysis (`AnalyseNew` or `AnalyseKnown`), then
a start. `Drop` kills a request at any statement. Runs act through `RunAdvance`,
`RunBlocked`, `RunBuild`, `RunEnds`.

### DeploymentGates

Rows as in its header comment: requirements and saved secrets of the app
(`required`, `saved`), variables of the Vercel project (`remote`) and of the
build (`built`), the create operation (`op`), the pause (`paused`, `old`). A web
request goes through `enforceFailureCooldown` in its own statements: `ReadPause`,
`CountFailures`, and `PauseApp` when there are too many, whose pause survives its own
refusal. A failure may leave the window between any two of them (`FailureAges`). Then it
reads the readiness and starts, retries or redeploys. `refused` and `spare` are history: how many requests
were under way when the app was refused, less the starts since. A run goes through `Dispatch`, `prepareBuildInput`,
`detectEnvRequirements`, `ReadRequirements`, then `BlockForConfiguration` or
`AdvanceToProvisioning`, `Provision`, `enforceResourcePolicy`, `ReadBindings`,
`ApplyVariable` for each variable, `FindOperation`, `CountOperations` and `RecordIntent` under the
workspace's lock, `ClaimOperation`, `CreateBuild`. `RunDies` ends one anywhere,
`ExecuteBuildThrows` releases the claims of its deployment. `saveCustomerAppSecret` and `Analyse` of
other commits go on beside them.

### WorkspaceApps

| state | code |
|---|---|
| `connected`, `repo` | the workspace's installation, `github_repositories` |
| `head`, `parent`, `stored` | Git branches of managed repositories; `direct_publishes` |
| `app`, `limit` | `apps` with their slugs; `max_active_apps` |
| `pc`, `on`, `name`, `base` | locals of the requests |

An upload is `AskPublish` or `AskUpdate`, `createManagedRepository`, `ReadHead`,
`CommitFiles` (or `RefusedByGitHub`), `RecordPublish`, then the analysis:
`LockRepository`, `ReuseApp` or `CheckName` (which takes the name of a deleted
app), `enforceActiveAppLimit`, `CreateApp` or `RefuseApp`. The two locks are the
conditions `WorkspaceLock` and `Takeable`, one for each `FOR UPDATE`.

### CustomDomains

The rows of `app_custom_domains`, the holder of each name at Vercel, the one
running task with what it read when it began, and a request of each app. Connecting
is `AskConnect`, `InsertRow` (two partial unique indexes), `Triggered` or
`TriggerThrows` and `Release`. The task is `Prove`, `AddName`, `AddWww`, `Attached`,
or `CheckName`, `Record`, or `RemoveName`, `RemoveWww`, `Removed`; it throws at any
provider call, and `FailRun` is what it writes then. What DNS says is a choice at
every look. `Recheck` is the schedule, `DeleteProject` and `CommitDeletion` the
deletion of the app, `TakenOff` a name taken away at the provider by hand.

### McpGrants

The workspaces of a customer, browser sessions, `mcp_clients`,
`mcp_authorization_codes` and `mcp_tokens`. `SignIn` and `CreateWorkspace` are
`ensureInitialWorkspace` under its advisory lock. `Authorize`, `Allow`, `Deny` are
the consent screen. A token request is `ClaimCode` then `IssueFirstPair`, or
`LocateRow`, `LockAndRead`, then `Rotate` or `EndFamily` (reuse or age). The panel is
`LoadGrants`, `BeginRevoke` and `EndRevoke`, whose `UPDATE` waits for row locks on the
rows of its snapshot only.

### DeploymentReports

A report is `StartReport` (the row) and `runIndependentQueries` one query at a
time; `normalizeDeploymentDiagnostic` and `normalizeDeploymentTimeline` are operators
over what they returned, the order of their cases being the code's. The writers are
the statements of every task and request that writes an event, with the status
each one requires or does not require.

### AppPage

`props` is what the server rendered, `analysisState`, `configurationState`,
`deploymentState`, `deploymentPending` the state of the panel's hooks, `requests`
everything on its way. A button is `Click...`, `startDeployment`, `retryDeployment` or
`redeployApp`, guarded by what the page shows; the server's part is `Read`,
`Answer`, `Analyse`, `Start`, `Retry`, `Redeploy` at a moment of its own, and
`...Arrives` the handler of the answer. `Poll` and `LiveReveal` are the two effects,
`Draw` what React keeps of an effect when its dependencies change. `Elsewhere` is
another tab or an assistant. `Retry` looks up the `Lineage` of the deployment as
`resolveRetryLineage` does: the newest member is the answer or is retried, and a
lineage that forks (a live deployment that was redeployed twice, say) is refused
with `DEPLOYMENT_RETRY_LINEAGE_AMBIGUOUS`.

### AppCheck

`bump` and `consumeCheckAllowance` are the counters. The scan is `FetchPage`,
`FetchInsecure`, `FetchScript`, `scanTextForSecrets`, `FetchProbe`, `checkHeaders`,
`resolveHost`, `checkSupabaseBackend`, `Finish`, every request of them through `fetch`,
which spends one budget and ends in an answer, a failure or the end of the budget; `Redirected`
spends it too. A site is a record of what it answers: `plain` has every answer of an http address
that `app-check.mjs:490-510` tells apart, `files` every kind of answer to a probe, and the detectors
(`looksLikeTheFile`, `HeaderPasses`, `AnyScript`, `supabaseProjectHosts`) judge those. The *complete report*
(`Complete`) is what a scan says when every request is sent and answered; `missed` and
`redirects` are history, and record how a scan fell short of that.

## 3. What is checked

Run `tlc -config X.cfg MCX.tla` (`NoOldCodeBack.cfg` with `MCDeploymentControl.tla`).

| run | shows |
|---|---|
| `BuildFencing.cfg` | `TypeOK`; `RowsAgree`: the rows never name different builds; `ResultsTraced`: every id a row names was announced by an event and exists; `DeployingHasReadyBuild`; `ContainmentEvidence`: events are true and precede a timeout failure; `NoCreateOnceObserved`: no run begins to create once a resource is known; `RefinesLifecycle` |
| `ReleaseGate.cfg` | `TypeOK`; `AttemptsAccounted`: attempts have no gaps and HEALTH_CHECK_FAILED comes after all of them; `LiveAfterHealthPass`; `TerminalFrozen`; `RefinesLifecycle`; `HealthLoopBounded`: a run in the health loop ends or the row is LIVE |
| `AppResources.cfg` | `TypeOK`; `OneDatabaseProject`: at most one Neon project is ever created; `DatabaseTraceable`: a Neon project is never behind a row that says none was asked for; `QuietDeletionComplete`: a deletion no other run overlapped leaves nothing that was ever bound and no unreported database; `NothingAttachedAfterDelete` |
| `DeploymentControl.cfg` | `RecordedRunIsLastClaim`: of a late start and a resume the later claim keeps the column; `RetryLineageSound`: retries of one failure form one chain of one commit within the limit, whoever clicks where; `TerminalStays`: LIVE and FAILED are left by no request, no late run and no report of a failed run |
| `NoOldCodeBack.cfg` | violation: two pushes both find no running deployment, and the older commit's build finishes last |
| `DeploymentGates.cfg` | `BuiltConfigured`: every build got every variable its source reads; `OperationsWithinLimit`: operations opened for the first time stay within the workspace's limit; `FewAfterRefusal`: after an app was refused for its failures, and until an operator resumes it, requests start no more deployments of it than were under way then, whatever leaves the failure window |
| `WorkspaceApps.cfg` | `OneAppPerName`: active apps differ in name and repository; `NoLostUpload`: a recorded upload stays in the history of its branch; `NeverGrowsPastLimit` |
| `CustomDomains.cfg` | `NoSharedName`, the www of an apex counted; `ProofBeforeReuse`: a name that was live in another workspace is attached only after a proof; `DemotedAfterTwoInARow`; `RemovalFinishes`: again and again no row is left in REMOVING |
| `McpGrants.cfg` | `EndedStaysEnded`: a family that ended has no accepted token, whatever rotation was in flight; `OneFamilyPerCode`; `FirstWorkspaceOnce` |
| `DeploymentReports.cfg` | `TimelineExplainsReport`: a timeline, although read query by query, shows the event of the status it reports, of the failure it explains and of the stages on the way |
| `AppCheck.cfg` | `AllowanceKept`: an hour lets no more checks through than a visitor's limit and everyone's limit say; `FailuresOnlyHide`: a report holds only what the complete report holds (and the notice about Supabase), its score is not lower, and it is the complete one when no request failed and the budget was enough; `SaysOneThing`: a report does not say of one thing that it is well and that it is not, and the score follows the findings |
| `AppPage.cfg` | `SubmitsOnce`: no start, retry or redeploy is sent twice at a time for one deployment; `CatchesUp`: what is shown as running comes to be shown as it ended. Both for the page of an uploaded app, as long as no poll or refresh is lost |

### Statements the models refute

Where the code differs from one of its own comments, documents or tests, the
statement is a definition of the module all the same. `NoOldCodeBack` is a
standard run: `github-push-deploy.mjs:126` says that two deployments of one app
never run at once, and line 129 looks for a running deployment long before the claim,
under no lock. The others are kept out of the standard runs; add the name to
the module's cfg to see the trace (a formula with `[]` or `~>` is a `PROPERTY`, the others are
`INVARIANT`s). A note says where one
needs something else.

| statement | where it comes from | what happens |
|---|---|---|
| `BuildFencing!OneProviderResource` | NODE-16 evidence | `execute-build.ts:465` posts again inside `withTransientRetry` without listing first |
| `BuildFencing!AtMostOneCreator` | comment at `execute-build.ts:513` | a failing run releases every pending claim of the deployment, another run's included |
| `BuildFencing!TerminalStateNotOverwritten` | remediation graph | `execute-build.ts:453` updates the error of a row without looking at its status (the *status* of a terminal row is safe: `RefinesLifecycle`) |
| `ReleaseGate!OrchestrationStops` | `orchestrate-deployment.ts:23` | the replay answer for a row another run made LIVE ends no health loop |
| `ReleaseGate!FailedMeansUnhealthy` | `health-check.ts:140` | healthy attempts of resumed runs count against the limit (note: three orchestrations) |
| `AppResources!LeftoversTraceable` | remediation graph | `provision-runtime.ts:45` gives up on a create request after 25 s and keeps no intent |
| `AppResources!DeletionRetriable` | provider contract | `delete-app.ts:120` compares the runtime with the one recorded when the deletion began, and throws for ever when a provisioning run overlapped the beginning |
| `DeploymentControl!FailedForItsOwnRun` | comment at `customer-deployments.mjs:716` | the report of a failed run compares the status only, so a concurrent resume's run is failed (note: `Kinds <- MCWatchers`) |
| `DeploymentControl!PushesStartTheNewest` | comment at `github-push-deploy.mjs:126` | a delivery reads the head before another push, and starts after it (note: the constants of `NoOldCodeBack.cfg`) |
| `CustomDomains!KeepsChecking` | `custom-domain-card.js` | a domain that stopped resolving is never looked at again once its row is 14 days old |
| `DeploymentGates!NeverStartsPaused` | `customer-deployments.test.mjs:429`: "the orchestrator must never be triggered for a paused app" | the pause is read before the failures are counted (`deployment-failure-cooldown.mjs:53`, `:63`) and never again: who read it before it was written starts all the same. `FewAfterRefusal` is what remains true |
| `DeploymentGates!SavedConfigurationUnblocks` | text shown to the customer | a row stopped in ANALYZING for configuration with an error code is taken up by neither start nor resume |
| `DeploymentReports!LiveHasNoIssue` | the diagnostic for LIVE | a policy or provider error that is written late onto a LIVE row makes its diagnostic BLOCKED (note: `CONSTRAINT MCLive`) |
| `AppCheck!HttpAlarmIsTrue` | `app-check.mjs:502`: "The insecure http:// version still works" | line 497 takes four codes with a Location that begins with `https://` for a move to https; a 303 to https, and a redirect to a relative or another http address that goes on to it, are reported as well |
| `AppCheck!PassedMeansChecked` | the text of the passed check | a scan that ran out before the probes still reports that no public file was found |
| `AppPage!MarkersAreCurrent` | comment in `github-panel.js` | after a retry or redeploy of an analysis made on the page, the marker of the analysed deployment keeps the retry's first picture |

Other behaviours the models show and no statement of the code speaks about: a
revocation in the panel misses the row a rotation in flight issues; a publish whose
app is then refused for the limit leaves its managed repository behind; an update
in flight while its app is deleted creates the app again; a run that dies between
intent and result holds one of the workspace's operations until an operator resets it; a policy
block puts an error code on a BUILDING row, which no resume takes up then; one failed poll stops polling until the next change of the
page; "Check GitHub for new code" answers with the oldest deployment of a commit.

### Bounds

| run | instance | distinct states |
|---|---|---|
| `BuildFencing.cfg` | two `execute-build` runs, a reconciliation, a timeout or abandonment, an operator, two provider ids, `MaxPosts` 2 | 816,000 (symmetry) |
| `ReleaseGate.cfg` | two orchestrations, an operator, a customer's request, two attempts, two tries | 293,000 |
| `AppResources.cfg` | two deployments, two provisioning runs, a deletion run | 891,000 (symmetry) |
| `DeploymentControl.cfg` | two requests at a time, three rows, two runs, two commits | 1,266,000 |
| `DeploymentGates.cfg` | two deployments, two runs and a web request with two variables, or a run and two requests with none; limits of one and two, a threshold of one | 2,694,000 (symmetry) |
| `WorkspaceApps.cfg` | two requests, names, repositories and commits, three apps, limits of one and two, a crash | 1,109,000 (symmetry) |
| `CustomDomains.cfg` | two apps, an apex and its www, two rows, a failure | 755,000 |
| `McpGrants.cfg` | two sessions, a client, two token requests, two codes, three rows | 1,711,000 (symmetry) |
| `DeploymentReports.cfg` | two tasks, nine events, a limit of two | 2,508,000 (symmetry) |
| `AppCheck.cfg` | five visits of three visitors in two hours, limits of two and three; a scan of 26 sites | 180,000 (symmetry) |
| `AppPage.cfg` | three deployments, two commits, two clicks, two polls, a failure, six openings | 633,000 |

`BuildFencing`: two `execute-build` runs are what the claim is for; two ids are
enough for a lost creation next to a known one; runs start again after they end, so a
third generation of a run is covered. `MaxPosts` bounds the attempts of one request (3 in
the code); with 2 there is a first, a repeated and a last one. `RemoteIds` bounds
creations: when they are used up no request is answered with a new deployment.

`ReleaseGate`: two orchestrations are needed for every interleaving the
properties speak about; two attempts distinguish the first from the last. Runs are
used once here, because a run's outcome is looked up later by its id. `MaxTries` is 2
in the code.

`AppResources`: two deployments (one may come while the app is being deleted), two
provisioning runs (for the claim), one deletion run. Runs start again without
limit, so retries need no bound, and the counters of creations are bounded by the
protocol itself: Neon's by `OneDatabaseProject`, Vercel's because a deletion only ever
deletes the one project in its row. Overlapping deletions are not in this run; the
theorems cover them.

`DeploymentControl`: three rows are a failed source, its retry and one more, which
with `MAX_CUSTOMER_RETRY_DEPTH = 1` (3 in the code) is
where a chain would fork or grow too long; two requests at a time are any pair of
operations, as each starts again; two runs are the original and the resumed one. One
request analyses, the other is somebody at the page; `MCPushes` and `MCWatchers` have
two alike. `MCConstraint` leaves out the end of an analysis by hand that finds its commit
known, which writes nothing.

`DeploymentGates`: two deployments of one app that read different variables, of which
the policy allows one, two runs and one request: enough for one run to add a
requirement between another's reading and its decision, and for a limit of one
operation to be contested. A threshold of one failure stands for three.
The race for the pause needs two requests, the one that pauses and one under way, and no
configuration: `MCConstraint` explores the two requests on an app whose commits read no
variable, with one run, and one request on an app whose commits do.

`WorkspaceApps`: two requests and two names, limits one and two, a third app row so
that a freed name is used again, one crash. `McpGrants`: three token rows are a row, its
successor and one more family or generation; two requests are the double redemption, the double
rotation, and the reuse during a rotation. `CustomDomains`: two apps of two
workspaces, an apex and its www, two rows (a name and its second use), one failure, of which
the second attempt is a run like any other; one row may grow old and one app may be deleted.

`DeploymentReports`: nine events bring a deployment to LIVE; one event more than those
is allowed (`MCAside`), which is what makes an evidence ambiguous; the limit of newest
events is 2 instead of 25, so that a report meets its limit. `MCConstraint` stops a
behaviour at its finished report. `AppCheck`: the real budgets of the scan; 26 sites, with each thing that may be
wrong and the pairs that share a finding, two of which need every one of the 16 requests, so that one redirect too many
cuts them short; a visitor with more visits than the limit of two, and more visitors than
everyone's limit of three lets through, on both sides of an hour's edge; neither limit implies the other. A scan shares
nothing with visits: `MCConstraint` starts it after one of them and keeps the others apart. `AppPage`: three
deployments (an older one, a retry, a newer one), two clicks, two polls
at once, one failure.

Deadlock checking is off in every run but `BuildFencing`'s: when the rows are final
(or the bounds are used up) and the requests have ended nothing is left to happen.

### Fairness

`ReleaseGate` assumes weak fairness of `OrchestrationStep(o)` for each
orchestration: the probes have a timeout, a provider call that hangs (`vercelRequest` of
`health-check.ts:36-49` has none) is ended by the task's `maxDuration`, the pauses are
durable waits of the platform, and the platform runs a task it accepted. Nothing
is assumed of triggers, crashes, operators, customers or abandonment.

`CustomDomains` assumes weak fairness of `TaskStep` (a run that began goes on: its
calls have timeouts and its platform restarts it) and strong fairness of
`Recheck(r)`: the schedule comes every ten minutes, but one task runs at a time, so a row
that is due can be taken up again and again rather than all the time. Nothing is promised of the customer,
of DNS or of a web request.

`AppPage` assumes that what is under way ends (`Pending`: deployments, refreshes,
answers), that the polling timer fires (`Poll`) and that a poll's answer is handled or
delivered (`PollGoesOn`, for the effect that is current and the ones that were replaced). Clicks need
not happen. A poll or a refresh that is lost is outside the promise (`lost`).

The other modules are checked for safety only.

## 4. What is proved

Every invariant and action property that a passing run checks, in all eleven modules with
such a run, and both refinements of `DeploymentLifecycle`, is proved for all values of
the constants that satisfy the assumptions of its module. Each proof has the same
shape: an inductive invariant, a conjunction of named parts that TLC checked on the
module's run before it was proved; `Init => IInv`; one lemma per group of actions that
disturb the same parts; `IInv /\ [Next]_vars => IInv'`; and a few lines from `IInv` to
each property. It is called `IInv`; where a proof module extends several models their
invariants, initial predicates and next-state relations have names of their own
(`GrantsInv`, `AllowanceInv`, `ScanInv`, `PageInv`, `ReportsInv`). Run `tlapm XProofs.tla`.

What is assumed: bounds are numbers, those that stand for a row or an attempt at
least one; a value that means "none" is none of the values it stands beside. Beyond
that: `ResourcesAssumption`: provisioning and deletion runs are different runs, and
there is a deployment and a deletion run. `ControlAssumption`: a request is no
number of a run (the marker a resume writes is no run id). `DomainAssumption`: there is an
app and a name, and `Www` of an apex is a name that is no apex. `GatesAssumption`: the
variables are finitely many. `AllowanceAssumption`: the visits are. `SitesAssumption`: the sites
are of the kind `SiteRecords` describes. `PageAssumption`: the page of an uploaded app opens
on a deployment in one of the statuses of the model. `ReportsAssumption`: the provider's
error codes are not those of the policy or of the other tasks. None of them excludes a state of the program.

`BuildFencingProofs`: `TypeCorrect`, `RowsAlwaysAgree`, `ResultsAlwaysTraced`,
`DeployingAfterReady`, `EvidenceAlwaysHonest`, `CreationStopsOnceObserved`,
`ImplementsLifecycle`. `ResultsTraced` needs
that a run in its attach step holds an id the provider has (`TargetsVisible`), that
pending reconciliations and stops refer to announced ids, and that the provider
never takes an id back; `RowsAgree` needs the ledger and the build row to be
written together. Two lemmas carry the argument through the many actions: what a step of a
task may do to the provider (`ProviderKeeps`: a terminal build stays what it is)
and to the announcements (`AnnouncementsKept`: they only grow).

`ReleaseGateProofs`: `TypeCorrect`, `AttemptsAlwaysAccounted`, `LiveOnlyAfterHealthPass`,
`TerminalNeverChanges`, `ImplementsLifecycle`. The strengthening is about the runs
(`RunsKeep`): a run that probes holds a number all of whose predecessors are
taken, a run past its health pass has a healthy attempt recorded, a run about to
fail the row is right that all attempts are used. It is stable under the other runs
because attempts are only ever added (`AttemptsKept`).

`AppResourcesProofs`: `Typing`, `OneProject`, `Traceable`, `DeletedStaysBare`,
`QuietDeletionLeavesNothing`. For the database the strengthening is `Unclaimed` (while
the row is absent or INTENT_RECORDED there is no project and nobody about to
create one) and `OneClaim` (a run that holds the claim is alone and comes before
any project). Almost every step falls under one lemma (`ClaimKept`): it makes no
project, does not take a row back to INTENT_RECORDED and lets nobody begin to create.
The quiet deletion needs the whole history: earlier deletions may have stopped
anywhere, so `BoundIsRuntime` says that until the app is deleted the runtime row names the only
project any event ever bound (a second one is refused under the app's lock),
and `Progresses` what a lone deletion has dealt with when it reaches each of its steps. Both
hold only while nobody else is busy (`Alone`), which is what `quiet` records.

`DeploymentControlProofs`: `TypeCorrect`, `RunOnRecordIsOfLastClaim`,
`RetriesWithinLimit`, `EndsAreFinal`. Two requests may trigger and record for one row, so
the first needs what each of them holds (`HeldRuns`: a run that was begun for its own
key) and that a row has its claim's marker or a run (`RunOrClaim`). The limit is
counted on the row that was clicked and the new row is put under another, the latest of its
lineage: `AttemptsInLineage` shows that the lineage holds every attempt behind that one, and
`AttemptsShrink` that a row that leaves FAILED or is inserted never adds attempts behind
another, because only rows that have ended have children (`ParentsEnded`). These are lemmas
about closures, for any forest of rows.

`DeploymentGatesProofs`: `TypeCorrect`, `BuildsAreConfigured`, `LimitHolds`,
`RefusalContains`. Requirements, secrets and variables are only added and a row keeps its
source, so what a run has established stays true (`RunReady`, one line per step). A run
counts operations and records its own in two steps: the lock makes it the only one in between
(`OneCounts`), and `WithinLimit` says that its room is still there.
The pause is
`PauseLasts`: after a refusal the app is paused and no more requests are under way than the refusal
left to spare, so none can begin and every start uses one up.

`WorkspaceProofs`, about `WorkspaceApps`: `TypeCorrect`, `AppsDiffer`, `UploadsStay`, `GrowthWithinLimit`.
What an analysis looked at still holds when it inserts: its repository has no app
(`NoAppYet`, under the repository's lock), the count is below the limit
(`CountHolds`, under the workspace's). The name is not locked, and there the unique index
of the insert carries the proof. An upload stays because a branch only moves to a commit
whose parent is its head (`MadeStays`, and `HistoryGrows` about ancestors).

`WorkspaceProofs`, about `McpGrants`: `GrantsTypes`, `EndedFamiliesStayEnded`, `OneFamilyForOneCode`,
`OneFirstWorkspace`. A rotation inserts a row into a family it read earlier: `SawTheRow`
says that the row it holds is still as it read it, and `OnePerFamily` that no other
request is inside a transaction on the family. A code is claimed once (`ClaimHeld`), and the
advisory lock makes the creator of the first workspace alone (`CreatorAlone`).

`CustomDomainsProofs`: `TypeCorrect`, `NamesNotShared`, `ProofComesFirst`,
`TwoFailuresToDemote`. No index of the table knows that an apex brings its www. What keeps two apps
apart is the provider's rule that a name is on one project: `NamesHeld` says what an attached
row has there and `TaskHolds` what the running task has put there so far. A task may take
names off a project, so no other row of that app is attached (`TaskAlone`). The proof is
looked for before the name is attached; `OlderRemoved` shows that no later claim of
another workspace can make it out of date.

`ViewProofs`, about `AppCheck`: `AllowanceIsKept`, `FailuresHide`, `OneThingIsSaid`. A visit
bumps the counter of its visitor and then everyone's, in two statements, and may be
refused at either, so a counter is more than the number of visits an hour let through.
`AllowedAreCounted` bounds those by the counter and by the limit at once; `BumpCounts` and
`StillWithin` (a set that gains one member when its count gains one stays within both)
carry it through every step. The scan needs that each finding is in the complete report (`AllSo`) and, stage
by stage, that nothing was said of a subject before its turn (`OneThing`). The score is
a sum over the five severities; `ScoreFollows` needs only that a finding makes the count of
its own severity positive, and `ScoreHides` that a smaller set of findings costs less.
That an unhurt scan reports everything takes two invariants side by side, stage by stage: `InBudget`, that the
requests sent are at most those the stages so far needed and their redirects, and `Whole`, that what
the stages so far had to read was read and what they had to find was found. The first makes the second inductive: while
no request failed and the total is within the budget, the next one is sent (`Answered`).

`ViewProofs`, about `AppPage`: `NothingIsSubmittedTwice`. What stops a second submission is
a mark of the deployment it is for, set by the click and cleared by the answer. The mark
that disables a button is looked up for the deployment the page is about, and the request
is made for the one that is shown, which an answer may already have moved on. `PageInv`
therefore follows three things together: every submission on its way has marked its
deployment and no two are for one (`RequestsOf`); a deployment is shown as a later one
only while a refresh is on its way that will bring a page about that one or a later
one (`ShownOf`, `Promised`); and only the newest deployment may be on its way
(`RowsInv`), so a retry or a redeploy is answered with the deployment it was asked for or
with a later one. It is proved for the page of an uploaded app, of which `SubmitsOnce` speaks.

`ViewProofs`, about `DeploymentReports`: `TimelineExplains`. The row and its event are
written in one transaction by every task, so the events always explain the row
(`Explained`: its status was reached, its failure and a finished build were told). A report
reads the row first and the events in a later statement; events are only added
(`Grown`), so they still explain the row it holds (`ReaderExplained`). In the other
order they would not.

Only model-checked: `HealthLoopBounded`, `RemovalFinishes`, `CatchesUp` and the refuted
`OrchestrationStops`, `KeepsChecking`, `MarkersAreCurrent` (liveness, which the provers do
not handle: fairness is stated with ENABLED), and the other refuted statements, which are
traces and need no proof. The closures of `DeploymentControl`, `WorkspaceApps` and `AppPage`
are intersections of closed sets, not recursive definitions, so their lemmas need no
induction of the provers; where an order of rows is needed the proofs use minimal
elements. No module declares a RECURSIVE operator.

## 5. Plan

1. `DeploymentLifecycle`, `BuildFencing`, `ReleaseGate`, `AppResources` and their proofs. Done.
2. `DeploymentControl`, `DeploymentGates`, `WorkspaceApps`, `CustomDomains`,
   `McpGrants`, `DeploymentReports`, `AppCheck`, `AppPage`. Done.
3. Theorems for the first five of them, and the inductive invariant behind
   `QuietDeletionComplete`. Done.
4. Theorems for `AppPage`, `AppCheck` and `DeploymentReports`, so that every invariant and
   action property of the runs is a theorem. Done.
5. The branded domain of `configure-public-access.ts` and the links it writes; the
   fixed windows of `rate-limit.mjs` against a sliding count; the classification of
   Vercel deployments by the orphan scan.

## 6. Not modelled, and why

What the text of files, answers and records says (project detection, the scan for
environment variables, the parsing of domain names and DNS records, the signature of a
webhook) is an input of the models: it computes an output from one input and unit
tests reach it. So are encryption, identity and boundary checks, file selection and hashing for an
upload, logs, mail and wording. Sessions, password login and workspace pages are
single-row requests. Backup, restore and recovery drills are sequential operator
scripts outside the running system; the JSON schemas of the MCP tools, the other
web pages, the spikes and the documents hold no protocol.

Times are abstracted to "may have elapsed": the five-minute staleness, the build
timeout, the failure window and the windows of the limits decide *when* something may happen, and the
models let it happen at any time. Left out of modelled components: the rate
limits, the branded host, the poll interval of a build, the limit on databases and
database restore, the performance report (`PROJECT.json` says where).

Smaller things that are left out of definitions: the provider loses no deployment of its own
accord, so a cancellation answered with 404 (`vercel-deployment-cancellation.mjs:109`) does not occur; `AppPage` has
no fallback of the shown deployment through `analysis.currentDeployment` (`github-panel.js:406`), which names
the same row while both are the newest, and no upload of the page's app from another tab. `HttpAlarmIsTrue` speaks of
answers as `plain` names them: a redirect that never reaches https is none of those. `DeployingHasReadyBuild`
says that an announced build was READY, not that it is the one attached in the end: the update of
`reconcile-build.ts` looks at the status alone. `TimelineExplainsReport` speaks of failed rows in the
build and health stages, so a classified failure written late onto another row (`execute-build.ts:453`) is outside it.
