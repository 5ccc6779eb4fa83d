---------------------------- MODULE DeploymentGates ----------------------------
(***************************************************************************)
(* What a deployment of one app has to pass on its way from an analysed    *)
(* repository to a build: the pause of an app that keeps failing, the      *)
(* readiness shown to the customer, the verification of its configuration, *)
(* the app's and the workspace's limits, and the writing of its secrets to *)
(* the hosting project. Web requests and orchestrations work on several    *)
(* deployments of the app at once and die between two statements.          *)
(*                                                                         *)
(*   count      deployments of the app, numbered in order of created_at,   *)
(*              all within 24 hours                                        *)
(*   status     deployments.status; "BUILDING" lasts to the end of the     *)
(*              health checks here                                         *)
(*   err        deployments.error_code: NoError, Configuration             *)
(*              (ENV_CONFIGURATION_REQUIRED) or Other                      *)
(*   uses       environment variables the source of the deployment reads   *)
(*   input      deployment_build_inputs has its row                        *)
(*   snapshot   deployment_env_detection_snapshots has its row             *)
(*   started    orchestrator_run_id is set                                 *)
(*   required   app_env_requirements (required) of the app                 *)
(*   saved      app_secret_bindings of the app, for production             *)
(*   remote     variables of the app's project at Vercel                   *)
(*   built      variables the provider's build of a deployment got         *)
(*   op         the create operation: "none" or its status; "OBSERVED" is  *)
(*              every status after the provider's answer                   *)
(*   paused     apps.paused_at is set; old: failures older than the window *)
(* In flight: web requests (at: what they have read so far; on: the        *)
(* deployment whose readiness they read) and orchestrations (pc, of: their deployment, keys: what they     *)
(* read and still have to use).                                            *)
(*                                                                         *)
(* Variables the platform provides (DATABASE_URL among them) are never     *)
(* detected and are left out, and so are public flags. Database and        *)
(* hosting project are AppResources, builds BuildFencing, and the recorded *)
(* run DeploymentControl; a run here is triggered or not.                  *)
(***************************************************************************)
EXTENDS Integers, FiniteSets

CONSTANTS
  Requests,        \* web requests in flight together
  Runs,            \* orchestrations in flight together
  Keys,            \* environment variables
  Sources,         \* sets of variables a commit may read
  MaxDeployments,  \* bound on the rows
  max_env_vars, max_deployments_per_day, max_concurrent_provider_operations,
  DEFAULT_FAILURE_COOLDOWN_THRESHOLD

VARIABLES count, status, err, uses, input, snapshot, started,
          required, saved, remote, built, op, paused, old, at, on, pc, of, keys,
          refused, \* history: the app was refused for its failures, not resumed since
  spare,   \* history: the requests that were under way at that refusal, less what requests started since
  again    \* history: operations claimed once more after they failed

rows    == <<count, status, err, uses, input, snapshot, started>>
config  == <<required, saved>>
project == <<remote, built>>
hold    == <<paused, old, refused, spare>>
ledger  == <<op, again>>
web     == <<at, on>>
task    == <<pc, of, keys>>
vars    == <<rows, config, project, ledger, hold, web, task>>

Ids == 1..MaxDeployments
Errors == {"NoError", "Configuration", "Other"}
Statuses == {"none", "ANALYZING", "PROVISIONING", "BUILDING", "LIVE", "FAILED"}
Steps == {"idle", "dispatch", "prepare", "detect", "verify", "decide", "provision", "policy",
          "bindings", "apply", "operation", "locking", "counted", "claim", "create"}
Phases == {"idle", "read", "failing", "passed", "ready"}

ASSUME GatesAssumption ==
  /\ MaxDeployments \in Nat \ {0}
  /\ IsFiniteSet(Requests)
  /\ Sources \subseteq SUBSET Keys /\ Sources # {} /\ IsFiniteSet(Keys)
  /\ max_env_vars \in Nat /\ max_deployments_per_day \in Nat
  /\ max_concurrent_provider_operations \in Nat /\ DEFAULT_FAILURE_COOLDOWN_THRESHOLD \in Nat

Rows == 1..count
InProgress == { d \in Rows : status[d] \in {"ANALYZING", "PROVISIONING", "BUILDING"} }
Lives == { d \in Rows : status[d] = "LIVE" }
Failures == { d \in Rows : status[d] = "FAILED" }
Newest(S) == CHOOSE d \in S : \A e \in S : e <= d
missingRequiredEnvKeys == required \ saved
ActiveOperations == { d \in Ids : op[d] \in {"INTENT_RECORDED", "CREATE_REQUESTED"} }

(***************************************************************************)
(* What the tables may hold: only detected variables are required, only    *)
(* required ones are saved, only saved ones reach the project, a build     *)
(* gets variables of the project, and a row that was never analysed has    *)
(* neither snapshot nor operation.                                         *)
(***************************************************************************)
TypeOK ==
  /\ count \in 0..MaxDeployments
  /\ status \in [Ids -> Statuses] /\ err \in [Ids -> Errors]
  /\ \A d \in Ids : status[d] = "none" <=> d > count
  /\ uses \in [Ids -> Sources \cup {{}}]
  /\ input \in [Ids -> BOOLEAN] /\ snapshot \in [Ids -> BOOLEAN] /\ started \in [Ids -> BOOLEAN]
  /\ required \subseteq UNION { uses[d] : d \in Rows }
  /\ saved \subseteq required /\ remote \subseteq saved
  /\ built \in [Ids -> SUBSET remote]
  /\ op \in [Ids -> {"none", "INTENT_RECORDED", "CREATE_REQUESTED", "OBSERVED", "FAILED"}]
  /\ \A d \in Ids : (snapshot[d] => input[d]) /\ (op[d] # "none" => snapshot[d])
  /\ again \subseteq Ids /\ paused \in BOOLEAN /\ refused \in BOOLEAN /\ spare \in Int
  /\ old \subseteq Failures
  /\ at \in [Requests -> Phases] /\ on \in [Requests -> 0..MaxDeployments]
  /\ pc \in [Runs -> Steps] /\ of \in [Runs -> 0..MaxDeployments]
  /\ keys \in [Runs -> SUBSET required]

Init ==
  /\ count = 0
  /\ status = [d \in Ids |-> "none"] /\ err = [d \in Ids |-> "NoError"]
  /\ uses = [d \in Ids |-> {}]
  /\ input = [d \in Ids |-> FALSE] /\ snapshot = [d \in Ids |-> FALSE]
  /\ started = [d \in Ids |-> FALSE]
  /\ required = {} /\ saved = {} /\ remote = {}
  /\ built = [d \in Ids |-> {}]
  /\ op = [d \in Ids |-> "none"] /\ again = {}
  /\ paused = FALSE /\ old = {} /\ refused = FALSE /\ spare = 0
  /\ at = [q \in Requests |-> "idle"] /\ on = [q \in Requests |-> 0]
  /\ pc = [r \in Runs |-> "idle"] /\ of = [r \in Runs |-> 0]
  /\ keys = [r \in Runs |-> {}]

-----------------------------------------------------------------------------
(* Runs and requests move on.                                              *)

Go(r, step) == pc[r] # "idle" /\ pc' = [pc EXCEPT ![r] = step]

Return(r) ==
  /\ pc' = [pc EXCEPT ![r] = "idle"]
  /\ of' = [of EXCEPT ![r] = 0]
  /\ keys' = [keys EXCEPT ![r] = {}]

Trigger(d) ==
  \E r \in Runs :
    /\ pc[r] = "idle"
    /\ pc' = [pc EXCEPT ![r] = "dispatch"]
    /\ of' = [of EXCEPT ![r] = d]
    /\ keys' = keys

Answer(q) == at' = [at EXCEPT ![q] = "idle"] /\ on' = [on EXCEPT ![q] = 0]

-----------------------------------------------------------------------------
(* Requests of the customer.                                               *)

\* (mutant) a variable found in the source is not required
NotBlocking(keysFound) == {}

sourceDetectedRequirement(keysFound) == keysFound

Insert(source, analysed) ==
  /\ count < MaxDeployments /\ count' = count + 1
  /\ status' = [status EXCEPT ![count'] = "ANALYZING"]
  /\ uses' = [uses EXCEPT ![count'] = source]
  /\ input' = [input EXCEPT ![count'] = analysed]
  /\ snapshot' = [snapshot EXCEPT ![count'] = analysed]

\* persistRepositoryAnalysis of a commit that has no deployment yet.
Analyse(source) ==
  /\ Insert(source, TRUE)
  /\ required' = required \cup sourceDetectedRequirement(source)
  /\ UNCHANGED <<err, started, saved, project, ledger, hold, web, task>>

markUnsupported(source) ==
  /\ Insert(source, FALSE)
  /\ err' = [err EXCEPT ![count'] = "Other"]
  /\ UNCHANGED <<started, config, project, ledger, hold, web, task>>

saveCustomerAppSecret(k) ==
  /\ k \in required
  /\ saved' = saved \cup {k}
  /\ UNCHANGED <<rows, required, project, ledger, hold, web, task>>

failureCooldownDecision == Cardinality(Failures \ old) >= DEFAULT_FAILURE_COOLDOWN_THRESHOLD

UnderWay == { q \in Requests : at[q] # "idle" }

\* enforceFailureCooldown, before any transaction of a start, a retry or a
\* redeploy: two reads and a write, each a statement of its own.
ReadPause(q) ==
  /\ at[q] = "idle" /\ ~paused
  /\ at' = [at EXCEPT ![q] = "read"]
  /\ UNCHANGED <<rows, config, project, ledger, hold, on, task>>

CountFailures(q) ==
  /\ at[q] = "read"
  /\ at' = [at EXCEPT ![q] = IF failureCooldownDecision THEN "failing" ELSE "passed"]
  /\ UNCHANGED <<rows, config, project, ledger, hold, on, task>>

\* (mutant) the pause is part of the transaction that its refusal rolls back
PauseRolledBack == paused' = paused

WritePause == paused' = TRUE

PauseApp(q) ==
  /\ at[q] = "failing" /\ Answer(q)
  /\ WritePause
  /\ refused' = TRUE
  /\ spare' = IF refused THEN spare ELSE Cardinality(UnderWay \ {q})
  /\ UNCHANGED <<rows, config, project, ledger, old, task>>

ResumeApp ==
  /\ paused /\ paused' = FALSE /\ refused' = FALSE /\ spare' = 0
  /\ UNCHANGED <<rows, config, project, ledger, old, web, task>>

FailureAges(d) ==
  /\ d \in Failures \ old /\ old' = old \cup {d}
  /\ UNCHANGED <<rows, config, project, ledger, paused, refused, spare, web, task>>

\* A request has started a deployment: one less of those the refusal left under way.
CountStart ==
  /\ spare' = IF refused THEN spare - 1 ELSE 0
  /\ UNCHANGED <<paused, old, refused>>

\* readinessFrom: READY_TO_DEPLOY.
ReadyToDeploy(d) == input[d] /\ err[d] = "NoError" /\ missingRequiredEnvKeys = {}

getDeploymentReadiness(q) ==
  /\ at[q] = "passed" /\ count > 0 /\ ReadyToDeploy(count)
  /\ at' = [at EXCEPT ![q] = "ready"] /\ on' = [on EXCEPT ![q] = count]
  /\ UNCHANGED <<rows, config, project, ledger, hold, task>>

StartAllowed(d) ==
  d = count /\ status[d] = "ANALYZING" /\ input[d] /\ ~started[d] /\ err[d] = "NoError"

startReadyDeployment(q) ==
  /\ at[q] = "ready" /\ StartAllowed(on[q])
  /\ started' = [started EXCEPT ![on[q]] = TRUE]
  /\ Trigger(on[q]) /\ Answer(q) /\ CountStart
  /\ UNCHANGED <<count, status, err, uses, input, snapshot, config, project, ledger>>

\* A new row for the code of the parent, started in the same request.
StartCopyOf(d) ==
  /\ Insert(uses[d], FALSE)
  /\ started' = [started EXCEPT ![count'] = TRUE]
  /\ Trigger(count')

retryFailedCustomerDeployment(q) ==
  /\ at[q] = "passed" /\ count > 0 /\ status[count] = "FAILED"
  /\ StartCopyOf(count) /\ Answer(q) /\ CountStart
  /\ UNCHANGED <<err, config, project, ledger>>

redeployLiveCustomerApp(q) ==
  /\ at[q] = "passed" /\ Lives # {} /\ InProgress = {}
  /\ StartCopyOf(Newest(Lives)) /\ Answer(q) /\ CountStart
  /\ UNCHANGED <<err, config, project, ledger>>

\* A deployment in progress is started instead, ready or not.
RedeployStarts(d) ==
  Lives # {} /\ InProgress # {} /\ d = Newest(InProgress) /\ status[d] = "ANALYZING" /\ ~started[d]

RedeployInProgress(q) ==
  /\ at[q] = "passed"
  /\ \E d \in Rows :
       /\ RedeployStarts(d)
       /\ started' = [started EXCEPT ![d] = TRUE]
       /\ Trigger(d)
  /\ Answer(q) /\ CountStart
  /\ UNCHANGED <<count, status, err, uses, input, snapshot, config, project, ledger>>

ResumeAllowed(d) == d \in InProgress /\ started[d] /\ err[d] = "NoError"

\* A page finds no progress for five minutes.
Resume(d) ==
  /\ ResumeAllowed(d) /\ Trigger(d)
  /\ UNCHANGED <<rows, config, project, ledger, hold, web>>

Refuse(q) ==
  /\ at[q] # "idle" /\ Answer(q)
  /\ UNCHANGED <<rows, config, project, ledger, hold, task>>

-----------------------------------------------------------------------------
(* The orchestration of a deployment up to its build.                      *)

Dispatch(r) ==
  LET d == of[r]
      section == CASE status[d] = "ANALYZING" -> "prepare"
                   [] status[d] = "PROVISIONING" -> "provision"
                   [] status[d] = "BUILDING" /\ op[d] # "OBSERVED" -> "policy"
                   [] OTHER -> "idle"
  IN /\ pc[r] = "dispatch"
     /\ IF section = "idle" THEN Return(r) ELSE Go(r, section) /\ UNCHANGED <<of, keys>>
     /\ UNCHANGED <<rows, config, project, ledger, hold, web>>

prepareBuildInput(r) ==
  /\ pc[r] = "prepare" /\ status[of[r]] = "ANALYZING"
  /\ input' = [input EXCEPT ![of[r]] = TRUE]
  /\ Go(r, "detect")
  /\ UNCHANGED <<count, status, err, uses, snapshot, started, config, project, ledger, hold, web, of, keys>>

Detected(d) == IF snapshot[d] THEN required ELSE required \cup sourceDetectedRequirement(uses[d])

\* A snapshot that is there already is left alone.
detectEnvRequirements(r) ==
  LET d == of[r] IN
  /\ pc[r] = "detect" /\ status[d] = "ANALYZING"
  /\ snapshot' = [snapshot EXCEPT ![d] = TRUE]
  /\ required' = Detected(d)
  /\ Go(r, "verify")
  /\ UNCHANGED <<count, status, err, uses, input, started, saved, project, ledger, hold, web, of, keys>>

\* The requirements are read before the transaction that decides.
ReadRequirements(r) ==
  /\ pc[r] = "verify" /\ status[of[r]] = "ANALYZING"
  /\ keys' = [keys EXCEPT ![r] = missingRequiredEnvKeys]
  /\ Go(r, "decide")
  /\ UNCHANGED <<rows, config, project, ledger, hold, web, of>>

BlockForConfiguration(r) ==
  /\ pc[r] = "decide" /\ keys[r] # {}
  /\ err' = IF status[of[r]] = "ANALYZING" THEN [err EXCEPT ![of[r]] = "Configuration"] ELSE err
  /\ Return(r)
  /\ UNCHANGED <<count, status, uses, input, snapshot, started, config, project, ledger, hold, web>>

AdvanceToProvisioning(r) ==
  LET d == of[r] IN
  /\ pc[r] = "decide" /\ keys[r] = {}
  /\ IF status[d] = "ANALYZING"
       THEN status' = [status EXCEPT ![d] = "PROVISIONING"] /\ err' = [err EXCEPT ![d] = "NoError"]
       ELSE UNCHANGED <<status, err>>
  /\ Go(r, "dispatch")
  /\ UNCHANGED <<count, uses, input, snapshot, started, config, project, ledger, hold, web, of, keys>>

\* provision-database and provision-runtime, when they come to an end.
Provision(r) ==
  /\ pc[r] = "provision" /\ status[of[r]] \in {"PROVISIONING", "BUILDING"}
  /\ status' = [status EXCEPT ![of[r]] = "BUILDING"]
  /\ Go(r, "dispatch")
  /\ UNCHANGED <<count, err, uses, input, snapshot, started, config, project, ledger, hold, web, of, keys>>

PolicyViolated ==
  Cardinality(required) > max_env_vars \/ count > max_deployments_per_day

Blocked(r) ==
  /\ err' = [err EXCEPT ![of[r]] = "Other"]
  /\ Return(r)
  /\ UNCHANGED <<count, status, uses, input, snapshot, started, config, project, ledger, hold, web>>

enforceResourcePolicy(r) ==
  /\ pc[r] = "policy"
  /\ \/ PolicyViolated /\ Blocked(r)
     \/ /\ ~PolicyViolated /\ Go(r, "bindings")
        /\ UNCHANGED <<rows, config, project, ledger, hold, web, of, keys>>

\* apply-runtime-env: bindings, then the backstop; a missing variable throws.
ReadBindings(r) ==
  /\ pc[r] = "bindings" /\ status[of[r]] = "BUILDING" /\ missingRequiredEnvKeys = {}
  /\ keys' = [keys EXCEPT ![r] = saved]
  /\ Go(r, "apply")
  /\ UNCHANGED <<rows, config, project, ledger, hold, web, of>>

ApplyVariable(r, k) ==
  /\ pc[r] = "apply" /\ k \in keys[r]
  /\ remote' = remote \cup {k}
  /\ keys' = [keys EXCEPT ![r] = @ \ {k}]
  /\ UNCHANGED <<rows, config, built, ledger, hold, web, pc, of>>

AllApplied(r) ==
  /\ pc[r] = "apply" /\ keys[r] = {}
  /\ Go(r, "operation")
  /\ UNCHANGED <<rows, config, project, ledger, hold, web, of, keys>>

\* (mutant) the workspace's policy row is not locked
UnlockedPolicy == Runs # {}

WorkspacePolicyLock == \A r \in Runs : pc[r] # "counted"

\* An operation the deployment has is used, without the lock.
FindOperation(r) ==
  /\ pc[r] = "operation" /\ status[of[r]] = "BUILDING"
  /\ Go(r, IF op[of[r]] # "none" THEN "claim" ELSE "locking")
  /\ UNCHANGED <<rows, config, project, ledger, hold, web, of, keys>>

\* A new one must be within the limit; nobody looks again whether a sibling
\* has opened it while the lock was waited for.
CountOperations(r) ==
  LET allowed == Cardinality(ActiveOperations) < max_concurrent_provider_operations IN
  /\ pc[r] = "locking" /\ WorkspacePolicyLock
  /\ \/ ~allowed /\ Blocked(r)
     \/ /\ allowed /\ Go(r, "counted")
        /\ UNCHANGED <<rows, config, project, ledger, hold, web, of, keys>>

\* The unique index on (deployment, type) refuses a second row: the run throws.
RecordIntent(r) ==
  /\ pc[r] = "counted" /\ op[of[r]] = "none"
  /\ op' = [op EXCEPT ![of[r]] = "INTENT_RECORDED"] /\ again' = again
  /\ Go(r, "claim")
  /\ UNCHANGED <<rows, config, project, hold, web, of, keys>>

ClaimOperation(r) ==
  /\ pc[r] = "claim" /\ op[of[r]] \in {"INTENT_RECORDED", "FAILED"}
  /\ op' = [op EXCEPT ![of[r]] = "CREATE_REQUESTED"]
  /\ again' = IF op[of[r]] = "FAILED" THEN again \cup {of[r]} ELSE again
  /\ Go(r, "create")
  /\ UNCHANGED <<rows, config, project, hold, web, of, keys>>

\* The provider builds with what the project holds at this moment.
CreateBuild(r) ==
  /\ pc[r] = "create" /\ op[of[r]] = "CREATE_REQUESTED"
  /\ op' = [op EXCEPT ![of[r]] = "OBSERVED"] /\ again' = again
  /\ built' = [built EXCEPT ![of[r]] = remote]
  /\ Return(r)
  /\ UNCHANGED <<rows, config, remote, hold, web>>

ReleaseClaim(d) ==
  /\ op' = IF op[d] = "CREATE_REQUESTED" THEN [op EXCEPT ![d] = "FAILED"] ELSE op
  /\ again' = again

\* A classified provider error gives the claim back and stays on the row.
ProviderRefuses(r) ==
  /\ pc[r] = "create" /\ ReleaseClaim(of[r])
  /\ err' = [err EXCEPT ![of[r]] = "Other"]
  /\ Return(r)
  /\ UNCHANGED <<count, status, uses, input, snapshot, started, config, project, hold, web>>

\* execute-build throws: the claim is given back, and nothing stays on the row.
ExecuteBuildThrows(r) ==
  /\ pc[r] \in {"operation", "locking", "counted", "claim", "create"} /\ ReleaseClaim(of[r])
  /\ Return(r)
  /\ UNCHANGED <<rows, config, project, hold, web>>

\* Another task throws (the row has moved on, a variable is missing), or a worker dies.
RunDies(r) ==
  /\ pc[r] # "idle" /\ Return(r)
  /\ UNCHANGED <<rows, config, project, ledger, hold, web>>

-----------------------------------------------------------------------------

\* Build and health checks end; an abandoned deployment fails at any time.
DeploymentEnds(d, outcome) ==
  /\ d \in InProgress
  /\ outcome = "LIVE" => status[d] = "BUILDING" /\ op[d] = "OBSERVED"
  /\ status' = [status EXCEPT ![d] = outcome]
  /\ err' = [err EXCEPT ![d] = IF outcome = "LIVE" THEN "NoError" ELSE "Other"]
  /\ UNCHANGED <<count, uses, input, snapshot, started, config, project, ledger, hold, web, task>>

Next ==
  \/ \E source \in Sources : Analyse(source) \/ markUnsupported(source)
  \/ \E k \in Keys : saveCustomerAppSecret(k)
  \/ ResumeApp
  \/ \E q \in Requests :
       \/ ReadPause(q) \/ CountFailures(q) \/ PauseApp(q) \/ getDeploymentReadiness(q) \/ startReadyDeployment(q)
       \/ retryFailedCustomerDeployment(q) \/ redeployLiveCustomerApp(q)
       \/ RedeployInProgress(q) \/ Refuse(q)
  \/ \E d \in Ids :
       \/ FailureAges(d) \/ Resume(d)
       \/ \E outcome \in {"LIVE", "FAILED"} : DeploymentEnds(d, outcome)
  \/ \E r \in Runs :
       \/ Dispatch(r) \/ prepareBuildInput(r) \/ detectEnvRequirements(r)
       \/ ReadRequirements(r) \/ BlockForConfiguration(r) \/ AdvanceToProvisioning(r)
       \/ Provision(r) \/ enforceResourcePolicy(r) \/ ReadBindings(r)
       \/ (\E k \in Keys : ApplyVariable(r, k)) \/ AllApplied(r)
       \/ FindOperation(r) \/ CountOperations(r) \/ RecordIntent(r) \/ ClaimOperation(r)
       \/ CreateBuild(r) \/ ProviderRefuses(r) \/ ExecuteBuildThrows(r)
       \/ RunDies(r)

Spec == Init /\ [][Next]_vars

-----------------------------------------------------------------------------

(***************************************************************************)
(* Every build that was created got every variable its source reads,       *)
(* although requirements grow with other commits of the app while the run  *)
(* is on its way, the check reads them before it decides, a run may resume *)
(* after its variables were written, and redeployments and rollbacks skip  *)
(* the readiness the customer is shown.                                    *)
(***************************************************************************)
BuiltConfigured == \A d \in Ids : op[d] = "OBSERVED" => uses[d] \subseteq built[d]

(***************************************************************************)
(* The create operations of a workspace that are open for the first time   *)
(* are never more than its policy allows: runs of different deployments    *)
(* count and insert at the same time and die with an open operation. (One  *)
(* that failed may be claimed again at the limit, as the code intends.)    *)
(***************************************************************************)
OperationsWithinLimit ==
  Cardinality(ActiveOperations \ again) <= max_concurrent_provider_operations

(***************************************************************************)
(* After an app was refused an attempt for its failures, and until an      *)
(* operator resumes it, requests start no more deployments of it than were *)
(* under way at that moment: the pause survives the refusal that decides   *)
(* it, it does not end when the failures are no longer recent, and only    *)
(* who has read it before it was written may still pass.                   *)
(***************************************************************************)
FewAfterRefusal == refused => spare >= 0

(***************************************************************************)
(* A paused app is never started ("the orchestrator must never be          *)
(* triggered for a paused app"). The code does not keep it: the pause is   *)
(* read before the failures are counted and before the transaction that    *)
(* starts, and is not read again.                                          *)
(***************************************************************************)
NeverStartsPaused == [][paused => started' = started]_vars

(***************************************************************************)
(* Once the customer has saved everything a deployment was stopped for,    *)
(* the newest deployment can go on ("Review and save required              *)
(* configuration before deploying."): a start, a resume or a redeploy      *)
(* takes it up.                                                            *)
(***************************************************************************)
SavedConfigurationUnblocks ==
  \A d \in Rows :
    d = count /\ err[d] = "Configuration" /\ status[d] = "ANALYZING" /\ missingRequiredEnvKeys = {}
      => StartAllowed(d) \/ ResumeAllowed(d) \/ RedeployStarts(d)

=============================================================================
