--------------------------- MODULE DeploymentControl ---------------------------
(***************************************************************************)
(* What customers, pushes and pages do to the deployments of one app:      *)
(* analyse a repository, start, retry, redeploy, roll back, watch and      *)
(* resume. Every request is a web request that may be killed between two   *)
(* statements, and several run at once; orchestrations run beside them in  *)
(* Trigger.dev and are known to the control plane by one column only.      *)
(*                                                                         *)
(* Rows of the control-plane database, numbered in order of created_at:    *)
(*   count      how many deployments the app has                           *)
(*   status     deployments.status; "BUILDING" stands for PROVISIONING to  *)
(*              HEALTH_CHECKING, which no request here tells apart         *)
(*   error      deployments.error_code is set                              *)
(*   input      the row has a build input with a build command             *)
(*   commit     source_commit_sha, in order of the pushes                  *)
(*   parent     parent_deployment_id, 0 for none                           *)
(*   recorded   orchestrator_run_id: NoRun, StartMarker, the unique resume *)
(*              marker of a request (the request itself), or a run         *)
(*   stale      rows without progress for five minutes                     *)
(* Outside: head is the branch at GitHub and undelivered the pushes whose  *)
(* webhook has not been recorded; run i of Trigger.dev works for runOf[i], *)
(* was triggered with key runKey[i] and is in runState[i].                 *)
(* In flight: where each request is (pc), its deployment (dep), the commit *)
(* it read (seen), the run it holds, the status it read (was), and whether *)
(* it works for a push.                                                    *)
(*                                                                         *)
(* A request refused by authorisation, a rate limit or the pause of the    *)
(* app, or for missing configuration, writes none of this and is a request *)
(* that ends (Drop). A second delivery of a recorded push changes nothing  *)
(* (recordWebhookDelivery) and is not an action.                           *)
(***************************************************************************)
EXTENDS Naturals, FiniteSets

CONSTANTS
  Requests,           \* web requests that may be in flight together
  Kinds,              \* what each of them may ask for, see AllKinds
  MaxDeployments,     \* bound on the app's rows
  MaxRuns,            \* bound on the orchestrations triggered
  MaxCommit,          \* bound on the pushes
  Unsupported,        \* commits the analysis finds it cannot deploy
  MAX_CUSTOMER_RETRY_DEPTH,
  NoRun, StartMarker  \* values of orchestrator_run_id that are no run

VARIABLES count, status, error, input, commit, parent, recorded, stale,
          head, undelivered, runOf, runKey, runState,
          pc, dep, seen, run, was, push,
          claimed   \* history: the marker of the last claim on the row, if not undone

rows    == <<count, status, error, input, commit, parent, recorded, stale, claimed>>
github  == <<head, undelivered>>
trigger == <<runOf, runKey, runState>>
locals  == <<pc, dep, seen, run, was, push>>
vars    == <<rows, github, trigger, locals>>

Ids      == 1..MaxDeployments
RunIds   == 1..MaxRuns
Commits  == 1..MaxCommit
AllKinds == {"push", "analyse", "start", "retry", "redeploy", "rollback", "watch"}

ASSUME ControlAssumption ==
  /\ MaxDeployments \in Nat \ {0} /\ MaxRuns \in Nat /\ MaxCommit \in Nat \ {0}
  /\ Unsupported \subseteq Commits
  /\ Kinds \in [Requests -> SUBSET AllKinds]
  /\ MAX_CUSTOMER_RETRY_DEPTH \in Nat
  /\ NoRun \notin RunIds \cup Requests /\ StartMarker \notin RunIds \cup Requests
  /\ NoRun # StartMarker
  /\ Requests \cap RunIds = {}

-----------------------------------------------------------------------------

Statuses == {"NONE", "ANALYZING", "BUILDING", "LIVE", "FAILED"}

REDEPLOY_IN_PROGRESS_STATUSES == {"ANALYZING", "BUILDING"}
RESUMABLE_STATUSES            == {"ANALYZING", "BUILDING"}

Steps == {"idle", "wait", "inspect", "persist", "start",
          "triggerStart", "recordStart", "clearStart",
          "ask", "markFailed", "resume", "triggerResume", "recordResume", "clearResume"}

Markers == {NoRun, StartMarker} \cup Requests

TypeOK ==
  /\ count \in Ids
  /\ status \in [Ids -> Statuses]
  /\ error \in [Ids -> BOOLEAN] /\ input \in [Ids -> BOOLEAN]
  /\ commit \in [Ids -> Commits]
  /\ parent \in [Ids -> {0} \cup Ids]
  /\ recorded \in [Ids -> Markers \cup RunIds]
  /\ claimed \in [Ids -> Markers]
  /\ stale \subseteq Ids
  /\ head \in Commits /\ undelivered \subseteq Commits
  /\ runOf \in [RunIds -> {0} \cup Ids]
  /\ runKey \in [RunIds -> Markers]
  /\ runState \in [RunIds -> {"none", "running", "completed", "failed"}]
  /\ pc \in [Requests -> Steps]
  /\ dep \in [Requests -> Ids]
  /\ seen \in [Requests -> Commits]
  /\ run \in [Requests -> {0} \cup RunIds]
  /\ was \in [Requests -> Statuses]
  /\ push \in [Requests -> BOOLEAN]

\* The app has been analysed for the first time.
Init ==
  /\ count = 1
  /\ status = [d \in Ids |-> IF d = 1 THEN "ANALYZING" ELSE "NONE"]
  /\ error = [d \in Ids |-> FALSE]
  /\ input = [d \in Ids |-> d = 1]
  /\ commit = [d \in Ids |-> 1]
  /\ parent = [d \in Ids |-> 0]
  /\ recorded = [d \in Ids |-> NoRun]
  /\ claimed = [d \in Ids |-> NoRun]
  /\ stale = {}
  /\ head = 1 /\ undelivered = {}
  /\ runOf = [i \in RunIds |-> 0]
  /\ runKey = [i \in RunIds |-> NoRun]
  /\ runState = [i \in RunIds |-> "none"]
  /\ pc = [q \in Requests |-> "idle"]
  /\ dep = [q \in Requests |-> 1]
  /\ seen = [q \in Requests |-> 1]
  /\ run = [q \in Requests |-> 0]
  /\ was = [q \in Requests |-> "NONE"]
  /\ push = [q \in Requests |-> FALSE]

-----------------------------------------------------------------------------
(* Reading the rows.                                                       *)

Rows == 1..count

\* assertLatestDeployment: by created_at, whatever its commit or status.
Newest(d) == d = count

\* orchestrator_run_id lets a start go ahead: nobody, or an earlier start.
Unstarted(d) == status[d] = "ANALYZING" /\ recorded[d] \in {NoRun, StartMarker}

Live == { d \in Rows : status[d] = "LIVE" }

\* The live deployment of the app, by created_at.
LiveDeployment == CHOOSE d \in Live : \A e \in Live : e <= d

InProgress == { d \in Rows : status[d] \in REDEPLOY_IN_PROGRESS_STATUSES }

\* The newest row that is not finished.
loadRedeploymentInProgress == { d \in InProgress : \A e \in InProgress : e <= d }

Children(d) == { e \in Rows : parent[e] = d }

\* A parent that did not fail is not an attempt.
FollowsFailure(d) == parent[d] \in Rows /\ status[parent[d]] = "FAILED"

\* The attempts at one source up to d: d, and the failed parents, one by one.
PreviousAttempts(d) ==
  { e \in 1..d : \A S \in SUBSET (1..d) :
      d \in S /\ e \notin S => \E x \in S : FollowsFailure(x) /\ parent[x] \notin S }

\* The first of them.
retryLineageRoot(d) == CHOOSE e \in PreviousAttempts(d) : ~FollowsFailure(e)

\* From there down, child by child. A row with two children cannot be followed
\* (DEPLOYMENT_RETRY_LINEAGE_AMBIGUOUS).
Lineage(d) ==
  LET root == retryLineageRoot(d) IN
  { e \in Rows : \A S \in SUBSET Rows :
      root \in S /\ e \notin S => \E x \in S : Cardinality(Children(x)) = 1 /\ ~(Children(x) \subseteq S) }

Latest(d) == CHOOSE e \in Lineage(d) : \A f \in Lineage(d) : f <= e

\* (mutant) the root is not counted
DepthBelowRoot(d) == Cardinality(Lineage(d)) - 2

Depth(d) == Cardinality(Lineage(d)) - 1

resumeEligible(d) ==
  status[d] \in RESUMABLE_STATUSES /\ ~error[d] /\ d \in stale

\* A deployment counts as running for a push: started and not finished, and
\* touched in the last half hour (a stale one may or may not have been).
Running(d) ==
  \/ status[d] = "BUILDING"
  \/ status[d] = "ANALYZING" /\ recorded[d] # NoRun

At(q, step) == pc[q] = step

GoTo(q, step) == pc' = [pc EXCEPT ![q] = step]

\* What the request read of the run and the status is not used again.
Forget(q) == run' = [run EXCEPT ![q] = 0] /\ was' = [was EXCEPT ![q] = "NONE"]

\* The request q has come for d and is at a step.
Enter(q, step, d) == GoTo(q, step) /\ dep' = [dep EXCEPT ![q] = d]

\* The request has ended and what it read is gone.
End(q) ==
  /\ GoTo(q, "idle")
  /\ dep' = [dep EXCEPT ![q] = 1] /\ seen' = [seen EXCEPT ![q] = 1]
  /\ Forget(q)
  /\ push' = [push EXCEPT ![q] = FALSE]

Comes(q, kind) == kind \in Kinds[q] /\ At(q, "idle")

\* What an UPDATE of the row does to the five minutes.
Touch(d) == stale' = stale \ {d}

\* UPDATE deployments SET orchestrator_run_id by somebody who claims the row.
Claim(d, marker) ==
  /\ recorded' = [recorded EXCEPT ![d] = marker]
  /\ claimed' = [claimed EXCEPT ![d] = marker]
  /\ Touch(d)

\* INSERT INTO deployments, ANALYZING, with the marker of the request or none.
Insert(c, from, prepared, refused, marker) ==
  LET d == count + 1 IN
  /\ count < MaxDeployments
  /\ count' = d
  /\ status' = [status EXCEPT ![d] = "ANALYZING"]
  /\ commit' = [commit EXCEPT ![d] = c]
  /\ parent' = [parent EXCEPT ![d] = from]
  /\ input' = [input EXCEPT ![d] = prepared]
  /\ error' = [error EXCEPT ![d] = refused]
  /\ recorded' = [recorded EXCEPT ![d] = marker]
  /\ claimed' = [claimed EXCEPT ![d] = marker]
  /\ stale' = stale

-----------------------------------------------------------------------------
(* The branch and its webhook.                                             *)

Push ==
  /\ head < MaxCommit
  /\ head' = head + 1
  /\ undelivered' = undelivered \cup {head + 1}
  /\ UNCHANGED <<rows, trigger, locals>>

\* recordWebhookDelivery, answered with 202; an app that has never been live
\* is left alone (not_yet_live).
ReceivePush(q, c) ==
  /\ Comes(q, "push") /\ c \in undelivered
  /\ undelivered' = undelivered \ {c}
  /\ IF Live = {} THEN UNCHANGED <<pc, push>>
     ELSE GoTo(q, "wait") /\ push' = [push EXCEPT ![q] = TRUE]
  /\ UNCHANGED <<rows, head, trigger, dep, seen, run, was>>

\* waitForRunningDeployment finds none. (When four minutes pass first, the
\* push is given up: Drop.)
PushClear(q) ==
  /\ At(q, "wait")
  /\ \A d \in Rows : Running(d) => d \in stale
  /\ GoTo(q, "inspect")
  /\ UNCHANGED <<rows, github, trigger, dep, seen, run, was, push>>

\* inspectRepositorySource: the branch's head, before the transaction.
InspectSource(q) ==
  /\ At(q, "inspect") \/ Comes(q, "analyse")
  /\ GoTo(q, "persist") /\ seen' = [seen EXCEPT ![q] = head]
  /\ UNCHANGED <<rows, github, trigger, dep, run, was, push>>

\* What createOrReuseDeployment finds for a commit: the oldest of its rows.
Reusable(c) == { d \in Rows : commit[d] = c /\ \A e \in Rows : commit[e] = c => d <= e }

\* The end of an analysis: a push goes on to start what it analysed.
Analysed(q, d) ==
  IF push[q] /\ seen[q] \notin Unsupported
    THEN /\ Enter(q, "start", d)
         /\ seen' = [seen EXCEPT ![q] = 1] /\ UNCHANGED <<run, was, push>>
    ELSE End(q)

\* persistRepositoryAnalysis inserts, under the lock on the app.
AnalyseNew(q) ==
  /\ At(q, "persist") /\ Reusable(seen[q]) = {}
  /\ LET c == seen[q] IN Insert(c, 0, c \notin Unsupported, c \in Unsupported, NoRun)
  /\ Analysed(q, count + 1)
  /\ UNCHANGED <<github, trigger>>

\* persistRepositoryAnalysis reuses; a row that has its input and its
\* completed analysis stays as it is.
AnalyseKnown(q) ==
  /\ At(q, "persist")
  /\ \E d \in Reusable(seen[q]) : Analysed(q, d)
  /\ UNCHANGED <<rows, github, trigger>>

-----------------------------------------------------------------------------
(* Start, retry, redeploy, roll back: the transaction that claims.         *)

\* The request goes on to trigger an orchestration for d.
ToTrigger(q, d) ==
  /\ Enter(q, "triggerStart", d) /\ push' = [push EXCEPT ![q] = FALSE]
  /\ UNCHANGED <<seen, run, was>>

\* The analysis of d allows a start, and d is still the app's newest.
Startable(d) == Newest(d) /\ Unstarted(d) /\ input[d] /\ ~error[d]

\* startCustomerDeployment. (It answers alreadyStarted or refuses otherwise.)
ClaimStart(q) ==
  /\ \E d \in Rows :
       /\ (At(q, "start") /\ dep[q] = d) \/ Comes(q, "start")
       /\ Startable(d)
       /\ Claim(d, StartMarker)
       /\ ToTrigger(q, d)
  /\ UNCHANGED <<count, status, error, input, commit, parent, github, trigger>>

\* retryFailedCustomerDeployment follows the retries of the failed row.
ClaimRetry(q) ==
  /\ Comes(q, "retry")
  /\ \E d \in Rows :
       LET e == Latest(d) IN
       /\ status[d] = "FAILED" /\ Children(e) = {}
       /\ \/ /\ status[e] = "FAILED" /\ Depth(d) < MAX_CUSTOMER_RETRY_DEPTH /\ Newest(e)
             /\ Insert(commit[e], e, FALSE, FALSE, StartMarker)
             /\ ToTrigger(q, count + 1)
          \/ /\ Unstarted(e)
             /\ Claim(e, StartMarker)
             /\ ToTrigger(q, e)
             /\ UNCHANGED <<count, status, error, input, commit, parent>>
  /\ UNCHANGED <<github, trigger>>

\* redeployLiveCustomerApp: the commit of the live row, unless a deployment is
\* in progress: that one is started, if nobody has.
ClaimRedeploy(q) ==
  /\ Comes(q, "redeploy") /\ Live # {}
  /\ \/ /\ InProgress = {}
        /\ Insert(commit[LiveDeployment], LiveDeployment, FALSE, FALSE, StartMarker)
        /\ ToTrigger(q, count + 1)
     \/ \E d \in loadRedeploymentInProgress :
          /\ Unstarted(d)
          /\ Claim(d, StartMarker)
          /\ ToTrigger(q, d)
          /\ UNCHANGED <<count, status, error, input, commit, parent>>
  /\ UNCHANGED <<github, trigger>>

\* ... with rollbackToDeploymentId: a row that was live, with other code.
ClaimRollback(q) ==
  /\ Comes(q, "rollback") /\ InProgress = {}
  /\ \E d \in Live :
       /\ commit[d] # commit[LiveDeployment]
       /\ Insert(commit[d], LiveDeployment, FALSE, FALSE, StartMarker)
  /\ ToTrigger(q, count + 1)
  /\ UNCHANGED <<github, trigger>>

-----------------------------------------------------------------------------
(* Trigger.dev and what a start records of it.                             *)

RunsBegun == { i \in RunIds : runOf[i] # 0 }

\* Trigger.dev's run for a key: the known one, or a new one.
TriggerRun(i, d, key) ==
  \/ runOf[i] = d /\ runKey[i] = key /\ UNCHANGED trigger
  \/ /\ ~\E j \in RunIds : runOf[j] = d /\ runKey[j] = key
     /\ i = Cardinality(RunsBegun) + 1
     /\ runOf' = [runOf EXCEPT ![i] = d] /\ runKey' = [runKey EXCEPT ![i] = key]
     /\ runState' = [runState EXCEPT ![i] = "running"]

\* The answer comes with the run's id ...
Triggered(q, key, step) ==
  \E i \in RunIds :
    /\ TriggerRun(i, dep[q], key)
    /\ run' = [run EXCEPT ![q] = i] /\ GoTo(q, step)

\* ... or is lost, when a run may have begun, or is a refusal.
TriggerThrows(q, key, step) ==
  /\ (\E i \in RunIds : TriggerRun(i, dep[q], key)) \/ UNCHANGED trigger
  /\ GoTo(q, step) /\ UNCHANGED run

\* deploymentStartIdempotencyKey: one for all starts of a deployment.
TriggerStart(q) ==
  /\ At(q, "triggerStart")
  /\ Triggered(q, StartMarker, "recordStart") \/ TriggerThrows(q, StartMarker, "clearStart")
  /\ UNCHANGED <<rows, github, dep, seen, was, push>>

\* (mutant) a start that comes late writes its run over a resume's marker
StartRecordsAlways(d, i) == TRUE

\* The rows on which a start may record its run i.
StartMayRecord(d, i) == recorded[d] \in {NoRun, StartMarker, i}

RecordStart(q) ==
  LET d == dep[q] IN
  /\ At(q, "recordStart")
  /\ IF StartMayRecord(d, run[q])
       THEN recorded' = [recorded EXCEPT ![d] = run[q]] /\ Touch(d)
       ELSE UNCHANGED <<recorded, stale>>
  /\ End(q)
  /\ UNCHANGED <<count, status, error, input, commit, parent, claimed, github, trigger>>

\* SET orchestrator_run_id = NULL WHERE it is still the marker.
Unclaim(d, marker) ==
  IF recorded[d] = marker
    THEN /\ recorded' = [recorded EXCEPT ![d] = NoRun]
         /\ claimed' = [claimed EXCEPT ![d] = NoRun]
         /\ Touch(d)
    ELSE UNCHANGED <<recorded, claimed, stale>>

ClearStart(q) ==
  /\ At(q, "clearStart")
  /\ Unclaim(dep[q], StartMarker)
  /\ End(q)
  /\ UNCHANGED <<count, status, error, input, commit, parent, github, trigger>>

-----------------------------------------------------------------------------
(* Watching a deployment, and resuming one that makes no progress.         *)

\* resumeCustomerDeployment reads the row, without a lock: from the page when
\* it looks stale, from the operator's script always.
ReadForResume(q) ==
  /\ Comes(q, "watch")
  /\ \E d \in InProgress :
       IF recorded[d] \in RunIds /\ ~error[d]
         THEN /\ Enter(q, "ask", d)
              /\ run' = [run EXCEPT ![q] = recorded[d]]
              /\ was' = [was EXCEPT ![q] = status[d]]
         ELSE Enter(q, "resume", d) /\ UNCHANGED <<run, was>>
  /\ UNCHANGED <<rows, github, trigger, seen, push>>

\* fetchOrchestratorRunStatus: an answer that the run failed, or any other
\* answer, or none.
AskRun(q) ==
  /\ At(q, "ask")
  /\ \/ runState[run[q]] = "failed" /\ GoTo(q, "markFailed") /\ UNCHANGED <<run, was>>
     \/ GoTo(q, "resume") /\ Forget(q)
  /\ UNCHANGED <<rows, github, trigger, dep, seen, push>>

\* (mutant) UPDATE deployments WHERE id = $1
FailWhatever(q) == TRUE

\* The row markOrchestrationRunFailed may write: the guard is the status.
StillAsRead(q) == status[dep[q]] = was[q]

markOrchestrationRunFailed(q) ==
  LET d == dep[q] IN
  /\ At(q, "markFailed")
  /\ IF StillAsRead(q)
       THEN /\ status' = [status EXCEPT ![d] = "FAILED"]
            /\ error' = [error EXCEPT ![d] = TRUE]
            /\ Touch(d) /\ End(q)
       ELSE /\ GoTo(q, "resume") /\ Forget(q)
            /\ UNCHANGED <<status, error, stale, dep, seen, push>>
  /\ UNCHANGED <<count, input, commit, parent, recorded, claimed, github, trigger>>

\* Under the lock the request takes the row over, whoever had claimed it.
ClaimResume(q) ==
  LET d == dep[q] IN
  /\ At(q, "resume")
  /\ Newest(d) /\ resumeEligible(d)
  /\ Claim(d, q)
  /\ GoTo(q, "triggerResume")
  /\ UNCHANGED <<count, status, error, input, commit, parent, github, trigger,
                 dep, seen, run, was, push>>

\* The key is of the marker, which is unique: always a new run.
ResumeRun(i, d, q) ==
  /\ i = Cardinality(RunsBegun) + 1
  /\ runOf' = [runOf EXCEPT ![i] = d] /\ runKey' = [runKey EXCEPT ![i] = q]
  /\ runState' = [runState EXCEPT ![i] = "running"]

TriggerResume(q) ==
  /\ At(q, "triggerResume")
  /\ \/ \E i \in RunIds :
          /\ ResumeRun(i, dep[q], q)
          /\ \/ run' = [run EXCEPT ![q] = i] /\ GoTo(q, "recordResume")
             \/ run' = run /\ GoTo(q, "clearResume")
     \/ GoTo(q, "clearResume") /\ UNCHANGED <<trigger, run>>
  /\ UNCHANGED <<rows, github, dep, seen, was, push>>

\* The rows on which a resume may record its run.
ResumeMayRecord(d, q) == recorded[d] = q

RecordResume(q) ==
  LET d == dep[q] IN
  /\ At(q, "recordResume")
  /\ IF ResumeMayRecord(d, q)
       THEN recorded' = [recorded EXCEPT ![d] = run[q]] /\ Touch(d)
       ELSE UNCHANGED <<recorded, stale>>
  /\ End(q)
  /\ UNCHANGED <<count, status, error, input, commit, parent, claimed, github, trigger>>

ClearResume(q) ==
  /\ At(q, "clearResume")
  /\ Unclaim(dep[q], q)
  /\ End(q)
  /\ UNCHANGED <<count, status, error, input, commit, parent, github, trigger>>

\* The request answers without writing, is refused, or is killed with its
\* server between two statements.
Drop(q) ==
  /\ ~At(q, "idle")
  /\ End(q)
  /\ UNCHANGED <<rows, github, trigger>>

-----------------------------------------------------------------------------
(* The orchestrations, seen from here, and the clock.                      *)

Works(i, d) == runState[i] = "running" /\ runOf[i] = d

Finish(i) == runState' = [runState EXCEPT ![i] = "completed"]

\* prepare-build-input to provision-runtime.
RunAdvance(i) ==
  \E d \in InProgress :
    /\ Works(i, d) /\ status[d] = "ANALYZING"
    /\ status' = [status EXCEPT ![d] = "BUILDING"]
    /\ input' = [input EXCEPT ![d] = TRUE] /\ error' = [error EXCEPT ![d] = FALSE]
    /\ Touch(d)
    /\ UNCHANGED <<count, commit, parent, recorded, claimed, github, runOf, runKey, runState, locals>>

\* verify-env-requirements misses a value: ENV_CONFIGURATION_REQUIRED.
RunBlocked(i) ==
  \E d \in InProgress :
    /\ Works(i, d) /\ status[d] = "ANALYZING"
    /\ input' = [input EXCEPT ![d] = TRUE] /\ error' = [error EXCEPT ![d] = TRUE]
    /\ Touch(d) /\ Finish(i)
    /\ UNCHANGED <<count, status, commit, parent, recorded, claimed, github, runOf, runKey, locals>>

\* execute-build to configure-public-access, to either end.
RunBuild(i) ==
  \E d \in InProgress, to \in {"LIVE", "FAILED"} :
    /\ Works(i, d) /\ status[d] = "BUILDING"
    /\ status' = [status EXCEPT ![d] = to]
    /\ error' = [error EXCEPT ![d] = to = "FAILED"]
    /\ Touch(d) /\ Finish(i)
    /\ UNCHANGED <<count, input, commit, parent, recorded, claimed, github, runOf, runKey, locals>>

\* The run throws, or ends without another write (blocked, or nothing to do):
\* the latter is a failed one of which AskRun does not hear.
RunEnds(i) ==
  /\ runState[i] = "running"
  /\ runState' = [runState EXCEPT ![i] = "failed"]
  /\ UNCHANGED <<rows, github, runOf, runKey, locals>>

\* DEFAULT_RESUME_STALE_AFTER_MS without an update or an event of the row.
FiveMinutesPass(d) ==
  /\ d \in InProgress \ stale
  /\ stale' = stale \cup {d}
  /\ UNCHANGED <<count, status, error, input, commit, parent, recorded, claimed,
                 github, trigger, locals>>

Next ==
  \/ Push
  \/ \E q \in Requests, c \in Commits : ReceivePush(q, c)
  \/ \E q \in Requests :
       \/ PushClear(q) \/ InspectSource(q) \/ AnalyseNew(q) \/ AnalyseKnown(q)
       \/ ClaimStart(q) \/ ClaimRetry(q) \/ ClaimRedeploy(q) \/ ClaimRollback(q)
       \/ TriggerStart(q) \/ RecordStart(q) \/ ClearStart(q)
       \/ ReadForResume(q) \/ AskRun(q) \/ markOrchestrationRunFailed(q)
       \/ ClaimResume(q) \/ TriggerResume(q) \/ RecordResume(q) \/ ClearResume(q)
       \/ Drop(q)
  \/ \E i \in RunIds : RunAdvance(i) \/ RunBlocked(i) \/ RunBuild(i) \/ RunEnds(i)
  \/ \E d \in Ids : FiveMinutesPass(d)

Spec == Init /\ [][Next]_vars

-----------------------------------------------------------------------------
(* Safety.                                                                 *)

\* A run on record is the run of the last claim on the row. Of a start whose
\* answer comes late and a resume that took the row over meanwhile, the later
\* keeps the column: customer-deployments.mjs 882-892, 917-924, 1102-1109.
RecordedRunIsLastClaim ==
  \A d \in Rows : recorded[d] \in RunIds => claimed[d] \in {NoRun, runKey[recorded[d]]}

\* Retries of one failed source form one chain of one commit, of the length
\* the limit allows, whichever of its rows the customer clicks and however
\* many requests race (customer-deployments.mjs 335-435, 1191-1240).
RetryLineageSound ==
  \A d \in Rows :
    /\ Cardinality(PreviousAttempts(d)) <= MAX_CUSTOMER_RETRY_DEPTH + 1
    /\ status[d] = "FAILED" => /\ Cardinality(Children(d)) <= 1
                               /\ \A e \in Children(d) : commit[e] = commit[d]

\* A deployment that went live or failed is left so by every request and
\* every late orchestration, above all by a report that an earlier run of it
\* failed (customer-deployments.mjs 716-757).
TerminalStays ==
  [][\A d \in Ids : status[d] \in {"LIVE", "FAILED"} => status'[d] = status[d]]_vars

(* What comments of the code say and the code does not do.                 *)

\* customer-deployments.mjs 716-725: failing a deployment for a failed run "is
\* a no-op if the deployment already moved on by the time this runs - e.g. a
\* concurrent resume got there first".
FailedForItsOwnRun ==
  [][\A q \in Requests :
       LET d == dep[q] IN
       At(q, "markFailed") /\ pc'[q] # "markFailed" /\ status'[d] # status[d]
         => recorded[d] = run[q]]_vars

\* github-push-deploy.mjs 124-126: "Never run two deployments of one app at
\* once: an older build finishing after a newer one would put old code back
\* live."
NoOldCodeBack ==
  [][\A d, e \in Rows :
       status[d] = "LIVE" /\ commit[e] < commit[d] /\ e < d => status'[e] # "LIVE" \/ status[e] = "LIVE"]_vars

\* github-push-deploy.mjs 126-127: "Analysis then reads the branch's CURRENT
\* head, so a burst of pushes deploys only the newest commit".
PushesStartTheNewest ==
  [][\A q \in Requests :
       At(q, "start") /\ pc'[q] = "triggerStart"
         => \A d \in Rows : commit[d] <= commit[dep[q]]]_vars
=============================================================================
