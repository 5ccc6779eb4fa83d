----------------------------- MODULE ReleaseGate -----------------------------
(***************************************************************************)
(* The last stage of one deployment, DEPLOYING to LIVE: orchestration runs *)
(* that overlap (resumed while an earlier one is alive) each loop over the *)
(* health-check task and then run the configure-public-access task, while  *)
(* operators run the latter on its own or abandon the deployment and the   *)
(* customer's server fails it when its recorded run has failed.            *)
(*                                                                         *)
(* Rows of the control-plane database:                                     *)
(*   depStatus, depError   deployments.status, .error_code                 *)
(*   recordedRun           deployments.orchestrator_run_id                 *)
(*   attempts              deployment_health_checks, by attempt_number     *)
(* In flight:                                                              *)
(*   pc, number, tries     runs: where they are, the attempt number they   *)
(*                         chose, how often configure-public-access threw  *)
(*   watch                 customer requests: the row they read before     *)
(*                         they asked how the recorded run had ended       *)
(*                                                                         *)
(* The build of the deployment is attached by now and does not change. No  *)
(* execute-build run is in flight any more (BuildFencing shows what a late *)
(* one can still write) and the app is not being deleted. live_url and the *)
(* branded domain are left out: they decide nothing here. What the         *)
(* provider and the application answer is a free choice.                   *)
(***************************************************************************)
EXTENDS Naturals

CONSTANTS
  Orchestrations,  \* orchestration runs this deployment gets
  Operators,       \* runs of configure-public-access started by hand
  Customers,       \* customer requests in flight that check on the run
  MaxAttempts,     \* max_health_attempts of the resource policy
  MaxTries,        \* maxAttempts of configure-public-access, 2 in the code
  Build,           \* the build attached to the deployment
  NULL

VARIABLES depStatus, depError, recordedRun, attempts, pc, number, tries, watch

deployment == <<depStatus, depError>>
locals     == <<number, tries>>
vars == <<deployment, recordedRun, attempts, pc, locals, watch>>

-----------------------------------------------------------------------------

Runs == Orchestrations \cup Operators

Statuses == {"DEPLOYING", "HEALTH_CHECKING", "LIVE", "FAILED"}

RESUMABLE_STATUSES == {"DEPLOYING", "HEALTH_CHECKING"}

TERMINAL_STATUSES == {"LIVE", "FAILED"}

Errors == {"HEALTH_CHECK_FAILED", "DEPLOYMENT_ABANDONED", "ORCHESTRATION_RUN_FAILED"}

Healths == {"HEALTHY", "UNHEALTHY"}

Steps == {"queued", "start", "health", "begin", "count", "probe", "passed",
          "exhausted", "waiting", "access", "verify", "golive", "ended", "failed"}

ASSUME GateAssumption ==
  /\ Orchestrations \cap Operators = {}
  /\ MaxAttempts \in Nat \ {0} /\ MaxTries \in Nat \ {0}
  /\ NULL \notin Runs \cup Errors \cup Healths \cup {Build}

Watches == [status : RESUMABLE_STATUSES, run : Orchestrations]

TypeOK ==
  /\ depStatus \in Statuses
  /\ depError \in Errors \cup {NULL}
  /\ recordedRun \in Orchestrations \cup {NULL}
  /\ attempts \in [1 .. MaxAttempts -> Healths \cup {NULL}]
  /\ pc \in [Runs -> Steps]
  /\ number \in [Runs -> 0 .. MaxAttempts]
  /\ tries \in [Runs -> 0 .. MaxTries]
  /\ watch \in [Customers -> Watches \cup {NULL}]

\* The build has just been verified.
Init ==
  /\ depStatus = "DEPLOYING" /\ depError = NULL
  /\ recordedRun = NULL
  /\ attempts = [n \in 1 .. MaxAttempts |-> NULL]
  /\ pc = [r \in Runs |-> "queued"]
  /\ number = [r \in Runs |-> 0]
  /\ tries = [r \in Runs |-> 0]
  /\ watch = [c \in Customers |-> NULL]

-----------------------------------------------------------------------------
(* Updates of the deployment row, all of them with a WHERE on the status.  *)

At(r, step) == pc[r] = step

GoTo(r, step) == pc' = [pc EXCEPT ![r] = step]

\* UPDATE deployments SET status, error_code WHERE status = from.
UpdateAnyStatus(from, to, error) == depStatus' = to /\ depError' = error

UpdateWhereStatus(from, to, error) ==
  IF depStatus = from THEN depStatus' = to /\ depError' = error
                      ELSE UNCHANGED deployment

-----------------------------------------------------------------------------
(* Orchestration.                                                          *)

\* Somebody triggers an orchestration: the customer's server for a row it may
\* resume, which it records, or an operator, which it does not.
Trigger(o) ==
  /\ At(o, "queued")
  /\ GoTo(o, "start")
  /\ \/ /\ depStatus \in RESUMABLE_STATUSES /\ depError = NULL
        /\ recordedRun' = o
     \/ UNCHANGED recordedRun
  /\ UNCHANGED <<deployment, attempts, locals, watch>>

\* The run takes its snapshot: into the health loop, or nothing to do.
Snapshot(o) ==
  /\ At(o, "start")
  /\ GoTo(o, IF depStatus \in TERMINAL_STATUSES THEN "ended" ELSE "health")
  /\ UNCHANGED <<deployment, recordedRun, attempts, locals, watch>>

\* The pause between two health checks.
RetryHealth(o) ==
  /\ At(o, "waiting")
  /\ GoTo(o, "health")
  /\ UNCHANGED <<deployment, recordedRun, attempts, locals, watch>>

-----------------------------------------------------------------------------
(* The health-check task, run by orchestration o.                          *)

\* It reads the row and asks the provider to lift its authentication, which
\* may fail. For a LIVE row it reports a replay, which the loop takes neither
\* for a pass nor for a failure; any other status makes it throw.
ReadForHealth(o) ==
  /\ At(o, "health")
  /\ \/ GoTo(o, CASE depStatus = "LIVE"            -> "waiting"
                  [] depStatus = "DEPLOYING"       -> "begin"
                  [] depStatus = "HEALTH_CHECKING" -> "count"
                  [] OTHER                         -> "failed")
     \/ depStatus \in RESUMABLE_STATUSES /\ GoTo(o, "failed")
  /\ UNCHANGED <<deployment, recordedRun, attempts, locals, watch>>

BeginAnyHealthChecks(o) ==
  /\ At(o, "begin")
  /\ depStatus' = "HEALTH_CHECKING" /\ UNCHANGED depError
  /\ GoTo(o, "count")
  /\ UNCHANGED <<recordedRun, attempts, locals, watch>>

BeginHealthChecks(o) ==
  /\ At(o, "begin")
  /\ UpdateWhereStatus("DEPLOYING", "HEALTH_CHECKING", depError)
  /\ GoTo(o, "count")
  /\ UNCHANGED <<recordedRun, attempts, locals, watch>>

Recorded == {n \in 1 .. MaxAttempts : attempts[n] # NULL}

\* count(*) of the attempts recorded, which are numbered from 1.
AttemptCount == CHOOSE n \in 0 .. MaxAttempts : Recorded = 1 .. n

\* The number of the next attempt, given how many there were. A number above
\* MaxAttempts means that they are exhausted.
healthAttemptNumber(count) == count + 1

CountAttempts(o) ==
  /\ At(o, "count")
  /\ LET next == healthAttemptNumber(AttemptCount)
     IN \/ /\ next > MaxAttempts
           /\ GoTo(o, "exhausted")
           /\ UNCHANGED number
        \/ /\ next <= MaxAttempts
           /\ GoTo(o, "probe")
           /\ number' = [number EXCEPT ![o] = next]
  /\ UNCHANGED <<deployment, recordedRun, attempts, tries, watch>>

\* Whether an unhealthy attempt of this number was the last one.
LastAttemptOffByOne(n) == n + 1 >= MaxAttempts

LastAttempt(n) == n >= MaxAttempts

\* Where a run goes after an attempt of this number and health.
AfterAttemptIfNotExhausted(n, health) ==
  IF health = "UNHEALTHY" /\ LastAttempt(n) THEN "exhausted" ELSE "passed"

AfterAttempt(n, health) ==
  CASE health = "HEALTHY" -> "passed"
    [] LastAttempt(n)     -> "exhausted"
    [] OTHER              -> "waiting"

\* The probe's answer is inserted under the number chosen before the probe.
\* If another run has used that number meanwhile, the insert throws.
RecordAttempt(o) ==
  /\ At(o, "probe")
  /\ \/ /\ attempts[number[o]] = NULL
        /\ \E health \in Healths :
             /\ attempts' = [attempts EXCEPT ![number[o]] = health]
             /\ GoTo(o, AfterAttempt(number[o], health))
     \/ /\ attempts[number[o]] # NULL
        /\ GoTo(o, "failed")
        /\ UNCHANGED attempts
  /\ number' = [number EXCEPT ![o] = 0]
  /\ UNCHANGED <<deployment, recordedRun, tries, watch>>

\* A pass clears the error of the row and hands over to configure-public-access.
PassHealthCheck(o) ==
  /\ At(o, "passed")
  /\ UpdateWhereStatus("HEALTH_CHECKING", depStatus, NULL)
  /\ GoTo(o, "access")
  /\ UNCHANGED <<recordedRun, attempts, locals, watch>>

\* Out of attempts: the deployment fails, and the run with it ends.
KeepTryingHealthChecks(o) ==
  /\ At(o, "exhausted")
  /\ GoTo(o, "waiting")
  /\ UNCHANGED <<deployment, recordedRun, attempts, locals, watch>>

FailHealthChecks(o) ==
  /\ At(o, "exhausted")
  /\ UpdateWhereStatus("HEALTH_CHECKING", "FAILED", "HEALTH_CHECK_FAILED")
  /\ GoTo(o, "ended")
  /\ UNCHANGED <<recordedRun, attempts, locals, watch>>

-----------------------------------------------------------------------------
(* The configure-public-access task, run by an orchestration or on its own.*)

\* What the task does next for a row in this status. Only a row that is being
\* health checked is verified; LIVE is a replay, FAILED is left alone.
publicAccessRecoveryAction(status) ==
  CASE status = "HEALTH_CHECKING"      -> "verify"
    [] status \in TERMINAL_STATUSES    -> "ended"
    [] OTHER                           -> "throw"

StartByHand(p) ==
  /\ p \in Operators
  /\ At(p, "queued")
  /\ GoTo(p, "access")
  /\ UNCHANGED <<deployment, recordedRun, attempts, locals, watch>>

\* Whether the task is run again after it threw n times.
TriesLeftOffByOne(n) == n <= MaxTries

TriesLeft(n) == n < MaxTries

\* Something the task did threw: it is run again, until it gives up.
Throw(r) ==
  /\ tries' = [tries EXCEPT ![r] = @ + 1]
  /\ GoTo(r, IF TriesLeft(tries[r] + 1) THEN "access" ELSE "failed")

ReadForAccess(r) ==
  /\ At(r, "access")
  /\ LET action == publicAccessRecoveryAction(depStatus)
     IN IF action = "throw" THEN Throw(r)
                            ELSE GoTo(r, action) /\ UNCHANGED tries
  /\ UNCHANGED <<deployment, recordedRun, attempts, number, watch>>

\* The provider's deployment, its source, its binding to the public host, then
\* an anonymous request. Each may throw; an unproven binding or a blocked
\* request ends the run and leaves the deployment where it is.
VerifyPublicAccess(r) ==
  /\ At(r, "verify")
  /\ \/ GoTo(r, "golive") /\ UNCHANGED tries
     \/ GoTo(r, "ended") /\ UNCHANGED tries
     \/ Throw(r)
  /\ UNCHANGED <<deployment, recordedRun, attempts, number, watch>>

\* Up to a minute later (the branded host is tried first) the row goes LIVE, if
\* it is still being health checked.
GoLive(r) ==
  /\ At(r, "golive")
  /\ UpdateWhereStatus("HEALTH_CHECKING", "LIVE", NULL)
  /\ GoTo(r, "ended")
  /\ UNCHANGED <<recordedRun, attempts, locals, watch>>

\* The worker of a run is lost: its platform reports the run as failed.
Crash(r) ==
  /\ pc[r] \notin {"queued", "ended", "failed"}
  /\ GoTo(r, "failed")
  /\ UNCHANGED <<deployment, recordedRun, attempts, locals, watch>>

-----------------------------------------------------------------------------
(* Those who stop a deployment from outside.                               *)

abandonDeployment ==
  /\ depStatus \in RESUMABLE_STATUSES
  /\ depStatus' = "FAILED" /\ depError' = "DEPLOYMENT_ABANDONED"
  /\ UNCHANGED <<recordedRun, attempts, pc, locals, watch>>

\* A customer's request reads the row before it asks about the recorded run.
ReadRow(c) ==
  /\ watch[c] = NULL
  /\ depStatus \in RESUMABLE_STATUSES /\ depError = NULL
  /\ recordedRun # NULL
  /\ watch' = [watch EXCEPT ![c] = [status |-> depStatus, run |-> recordedRun]]
  /\ UNCHANGED <<deployment, recordedRun, attempts, pc, locals>>

\* The answer: if that run has failed the deployment is failed too, provided
\* that it still has the status that was read.
markOrchestrationRunFailed(c) ==
  /\ watch[c] # NULL
  /\ IF pc[watch[c].run] = "failed"
       THEN UpdateWhereStatus(watch[c].status, "FAILED", "ORCHESTRATION_RUN_FAILED")
       ELSE UNCHANGED deployment
  /\ watch' = [watch EXCEPT ![c] = NULL]
  /\ UNCHANGED <<recordedRun, attempts, pc, locals>>

-----------------------------------------------------------------------------

HealthStep(o) ==
  \/ ReadForHealth(o) \/ BeginHealthChecks(o) \/ CountAttempts(o)
  \/ RecordAttempt(o) \/ PassHealthCheck(o) \/ FailHealthChecks(o)

AccessStep(r) == ReadForAccess(r) \/ VerifyPublicAccess(r) \/ GoLive(r)

\* What the platform does for a run without anybody asking for it.
OrchestrationStep(o) == Snapshot(o) \/ RetryHealth(o) \/ HealthStep(o) \/ AccessStep(o)

Next ==
  \/ \E o \in Orchestrations : Trigger(o) \/ OrchestrationStep(o) \/ Crash(o)
  \/ \E p \in Operators : StartByHand(p) \/ AccessStep(p) \/ Crash(p)
  \/ \E c \in Customers : ReadRow(c) \/ markOrchestrationRunFailed(c)
  \/ abandonDeployment

Spec == Init /\ [][Next]_vars

\* A run that was started goes on: every call it makes has a timeout, and the
\* platform wakes it after its pauses. Nobody has to trigger, abandon or ask.
FairSpec == Spec /\ \A o \in Orchestrations : WF_vars(OrchestrationStep(o))

-----------------------------------------------------------------------------
(* Correctness.                                                            *)

\* Attempts are numbered 1, 2, 3... without a gap even if several runs count
\* and record at once, and a deployment fails for its health only after all
\* the attempts its policy allows (healthAttemptAction, UNIQUE attempt_number).
AttemptsAccounted ==
  /\ \E n \in 0 .. MaxAttempts : Recorded = 1 .. n
  /\ depError = "HEALTH_CHECK_FAILED" => Recorded = 1 .. MaxAttempts

HasPassed == \E n \in Recorded : attempts[n] = "HEALTHY"

\* A deployment that nobody verified by hand becomes LIVE only after one of
\* its recorded attempts was healthy, whichever of the overlapping runs did
\* the probe and whichever verified the public access.
LiveAfterHealthPass ==
  [][depStatus # "LIVE" /\ depStatus' = "LIVE" =>
       HasPassed \/ \E p \in Operators : GoLive(p)]_vars

\* LIVE and FAILED are final: no late probe, late verification, late answer
\* about a run or abandonment changes the status or the reason it shows.
TerminalFrozen ==
  [][(depStatus \in TERMINAL_STATUSES) => UNCHANGED deployment]_vars

LC == INSTANCE DeploymentLifecycle WITH
        Builds <- {Build}, status <- depStatus, build <- Build

\* The stage follows the transition table of the deployment life cycle.
RefinesLifecycle == LC!Spec

\* A run in the health loop ends, or the deployment is LIVE: attempts run out
\* and the run then stops instead of looping (orchestrate-deployment).
HealthLoopBounded ==
  \A o \in Orchestrations :
    At(o, "health") ~> (pc[o] \in {"ended", "failed"} \/ depStatus = "LIVE")

-----------------------------------------------------------------------------
(* What the repository's documents promise and the code does not keep.     *)

\* "Orchestrator stops when terminal": a run in the health loop ends. When
\* another run has made the deployment LIVE, the replay answer of the health
\* check is not one the loop leaves on.
OrchestrationStops ==
  \A o \in Orchestrations : At(o, "health") ~> pc[o] \in {"ended", "failed"}

\* "The deployment exhausted readiness checks without becoming healthy": at
\* least one attempt was not healthy. Each run resumed after its public access
\* was blocked uses up an attempt, healthy ones too.
FailedMeansUnhealthy ==
  depError = "HEALTH_CHECK_FAILED" => \E n \in Recorded : attempts[n] = "UNHEALTHY"
=============================================================================
