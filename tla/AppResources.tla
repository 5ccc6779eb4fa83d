---------------------------- MODULE AppResources ----------------------------
(***************************************************************************)
(* The provider resources of one app, its managed database (a Neon         *)
(* project) and its runtime (a Vercel project), against the deletion of    *)
(* the app. Orchestrations of its deployments provision both; deletion     *)
(* runs take them away; either may be repeated, overlap, fail or be lost.  *)
(*                                                                         *)
(* Rows of the control-plane database:                                     *)
(*   status       deployments.status; "NONE" is no row yet                 *)
(*   appDeleted   apps.deleted_at is set                                   *)
(*   db           the row of app_databases                                 *)
(*   runtime      app_runtimes.provider_project_id, 0 for no row           *)
(*   deletion     the row of app_deletions                                 *)
(*   events       the deployment_events that name a Vercel project         *)
(* The providers, where a project is the number of its creation:           *)
(*   neonLive, neonMade       Neon's projects, how many were ever made     *)
(*   vercelLive, vercelMade   Vercel's: one name, so one project, or 0     *)
(* In flight:                                                              *)
(*   pc           where each run is                                        *)
(*   dep, found   a provisioning run's deployment and provider project     *)
(*   key, seen    a deletion run's key and the project it read last        *)
(*   marked       deployments locked by a deletion about to commit         *)
(*   quiet        history: no other run overlapped the last deletion run   *)
(*                                                                         *)
(* The app has database mode SSC_MANAGED and its projects' names depend on *)
(* the app alone. Transactions that lock before they decide are one step.  *)
(* The other stages of a deployment, and its abandonment, only matter as   *)
(* the one status "SETTLED". Secrets are db.secret. Workspace limits are   *)
(* not modelled, and a run stopped by one is a run that throws.            *)
(***************************************************************************)
EXTENDS Naturals

CONSTANTS
  Deployments,   \* the rows the app may get
  Provisioners,  \* orchestrations that may be in flight together
  Deleters       \* deletion runs that may be in flight together

VARIABLES status, appDeleted, db, runtime, deletion, events,
          neonLive, neonMade, vercelLive, vercelMade,
          pc, dep, found, key, seen, marked, quiet

neon   == <<neonLive, neonMade>>
vercel == <<vercelLive, vercelMade>>
vars == <<status, appDeleted, db, runtime, deletion, events, neon, vercel,
          pc, dep, found, key, seen, marked, quiet>>

ASSUME ResourcesAssumption ==
  /\ Provisioners \cap Deleters = {}
  /\ Deployments # {} /\ Deleters # {}

-----------------------------------------------------------------------------

Runs == Provisioners \cup Deleters

Statuses == {"NONE", "ANALYZING", "PROVISIONING", "BUILDING", "SETTLED",
             "DELETING", "DELETED"}

ManagedDatabaseStatus ==
  {"NONE", "INTENT_RECORDED", "CREATE_REQUESTED", "RECONCILIATION_REQUIRED",
   "READY", "DELETING", "DELETED", "DELETE_FAILED"}

DeletionStatuses ==
  {"NONE", "DELETING", "PROVIDER_DELETED", "COMPLETED", "FAILED"}

RUNTIME_ATTACH_STATUSES == {"PROVISIONING", "BUILDING"}

IN_FLIGHT == {"DELETING", "PROVIDER_DELETED"}

RuntimeEvents == {"RUNTIME_PROVISIONED", "RUNTIME_PROVIDER_RESULT_STALE"}

Steps == {"idle",
  "intent", "list", "claim", "create", "mark", "persist",
  "runtime", "reconcile", "ensure", "attach",
  "requested", "lock", "database", "search", "discard", "bind", "delete",
  "gone", "project", "finish", "unbound", "commit"}

TypeOK ==
  /\ status \in [Deployments -> Statuses]
  /\ appDeleted \in BOOLEAN
  /\ db \in [status : ManagedDatabaseStatus, project : Nat,
             secret : BOOLEAN, deletedAt : BOOLEAN]
  /\ runtime \in Nat
  /\ deletion \in [status : DeletionStatuses, key : Deleters, project : Nat]
  /\ events \subseteq [event : RuntimeEvents, project : Nat]
  /\ neonLive \subseteq Nat /\ neonMade \in Nat
  /\ vercelLive \in Nat /\ vercelMade \in Nat
  /\ pc \in [Runs -> Steps]
  /\ dep \in [Provisioners -> Deployments]
  /\ found \in [Provisioners -> Nat]
  /\ key \in [Deleters -> Deleters]
  /\ seen \in [Deleters -> Nat]
  /\ marked \subseteq Deployments
  /\ quiet \in BOOLEAN

\* An app and its first deployment are inserted together.
Init ==
  /\ \E first \in Deployments :
       status = [d \in Deployments |-> IF d = first THEN "ANALYZING" ELSE "NONE"]
  /\ appDeleted = FALSE
  /\ db = [status |-> "NONE", project |-> 0, secret |-> FALSE, deletedAt |-> FALSE]
  /\ runtime = 0
  /\ deletion = [status |-> "NONE", key |-> CHOOSE x \in Deleters : TRUE, project |-> 0]
  /\ events = {}
  /\ neonLive = {} /\ neonMade = 0
  /\ vercelLive = 0 /\ vercelMade = 0
  /\ pc = [r \in Runs |-> "idle"]
  /\ dep \in [Provisioners -> Deployments]
  /\ found = [p \in Provisioners |-> 0]
  /\ key = [x \in Deleters |-> x]
  /\ seen = [x \in Deleters |-> 0]
  /\ marked = {}
  /\ quiet = FALSE

At(r, step) == pc[r] = step

GoTo(r, step) == pc' = [pc EXCEPT ![r] = step]

-----------------------------------------------------------------------------
(* Deployments of the app, as far as they matter here.                     *)

\* A repository analysis inserts a deployment for an app that is not deleted,
\* even while a deletion is under way.
InsertDeployment(d) ==
  /\ status[d] = "NONE" /\ ~appDeleted
  /\ status' = [status EXCEPT ![d] = "ANALYZING"]
  /\ quiet' = FALSE
  /\ UNCHANGED <<appDeleted, db, runtime, deletion, events, neon, vercel, pc,
                 dep, found, key, seen, marked>>

\* UPDATE deployments ... WHERE status: a row that a committing deletion holds
\* is not touched.
UpdateDeployment(d, from, to) ==
  /\ status[d] \in from /\ d \notin marked
  /\ status' = [status EXCEPT ![d] = to]
  /\ UNCHANGED <<appDeleted, db, runtime, deletion, events, neon, vercel, pc,
                 dep, found, key, seen, marked, quiet>>

VerifyEnvironment(d) == UpdateDeployment(d, {"ANALYZING"}, "PROVISIONING")

\* The deployment fails, is abandoned or gets on to its later stages.
Settle(d) == UpdateDeployment(d, {"ANALYZING", "PROVISIONING", "BUILDING"}, "SETTLED")

-----------------------------------------------------------------------------
(* provision-database, for the deployment of an orchestration.             *)

StartProvisioning(p, d) ==
  /\ At(p, "idle")
  /\ status[d] \in {"PROVISIONING", "BUILDING"}
  /\ GoTo(p, "intent")
  /\ dep' = [dep EXCEPT ![p] = d]
  /\ quiet' = FALSE
  /\ UNCHANGED <<status, appDeleted, db, runtime, deletion, events, neon,
                 vercel, found, key, seen, marked>>

\* The row is taken as it is, or inserted; what became of the app or of the
\* deployment since they were read is not looked at. (UpsertIntent: instead
\* sets the intent of a row that is not ready yet once more.)
UpsertIntent(p) ==
  /\ At(p, "intent")
  /\ db' = IF db.status = "READY" THEN db ELSE [db EXCEPT !.status = "INTENT_RECORDED"]
  /\ GoTo(p, IF db.status = "READY" /\ db.secret THEN "runtime" ELSE "list")
  /\ UNCHANGED <<status, appDeleted, runtime, deletion, events, neon, vercel,
                 dep, found, key, seen, marked, quiet>>

ensureManagedDatabaseIntent(p) ==
  /\ At(p, "intent")
  /\ IF db.status = "NONE"
       THEN db' = [db EXCEPT !.status = "INTENT_RECORDED"]
       ELSE UNCHANGED db
  /\ GoTo(p, IF db.status = "READY" /\ db.secret THEN "runtime" ELSE "list")
  /\ UNCHANGED <<status, appDeleted, runtime, deletion, events, neon, vercel,
                 dep, found, key, seen, marked, quiet>>

Sole(projects) == \A n, m \in projects : n = m

listNeonProjectsByName(p) ==
  /\ At(p, "list")
  /\ IF neonLive = {} THEN GoTo(p, "claim") /\ UNCHANGED found
     ELSE IF Sole(neonLive)
       THEN GoTo(p, "persist") /\ \E n \in neonLive : found' = [found EXCEPT ![p] = n]
       ELSE GoTo(p, "mark") /\ UNCHANGED found
  /\ UNCHANGED <<status, appDeleted, db, runtime, deletion, events, neon,
                 vercel, dep, key, seen, marked, quiet>>

\* The statuses a creation is claimed from. (ClaimableAgain: also from the
\* claim of a run that may have died.)
ClaimableAgain == {"INTENT_RECORDED", "CREATE_REQUESTED"}

Claimable == {"INTENT_RECORDED"}

\* A run that does not get the claim leaves: the creation is in flight.
claimManagedDatabaseCreate(p) ==
  /\ At(p, "claim")
  /\ IF db.status \in Claimable
       THEN db' = [db EXCEPT !.status = "CREATE_REQUESTED"] /\ GoTo(p, "create")
       ELSE UNCHANGED db /\ GoTo(p, "idle")
  /\ UNCHANGED <<status, appDeleted, runtime, deletion, events, neon, vercel,
                 dep, found, key, seen, marked, quiet>>

\* Neon creates the project and answers, creates it and the answer is lost, or
\* creates nothing.
createNeonProject(p) ==
  /\ At(p, "create")
  /\ \/ /\ neonMade' = neonMade + 1
        /\ neonLive' = neonLive \cup {neonMade'}
        /\ \/ GoTo(p, "persist") /\ found' = [found EXCEPT ![p] = neonMade']
           \/ GoTo(p, "mark") /\ UNCHANGED found
     \/ GoTo(p, "mark") /\ UNCHANGED <<neon, found>>
  /\ UNCHANGED <<status, appDeleted, db, runtime, deletion, events, vercel,
                 dep, key, seen, marked, quiet>>

markManagedDatabaseReconciliationRequired(p) ==
  /\ At(p, "mark")
  /\ db' = [db EXCEPT !.status = "RECONCILIATION_REQUIRED"]
  /\ GoTo(p, "idle")
  /\ UNCHANGED <<status, appDeleted, runtime, deletion, events, neon, vercel,
                 dep, found, key, seen, marked, quiet>>

\* runtimeResultAttachmentDecision, and the first half of the database's.
\* (DeploymentRuns: by the deployment alone.)
DeploymentRuns(d) == status[d] \in RUNTIME_ATTACH_STATUSES

DeploymentAccepts(d) == ~appDeleted /\ status[d] \in RUNTIME_ATTACH_STATUSES

DatabaseAccepts ==
  db.status \in {"INTENT_RECORDED", "CREATE_REQUESTED", "RECONCILIATION_REQUIRED"}

\* A committing deletion holds the row of the database.
persistManagedDatabaseReady(p) ==
  /\ At(p, "persist")
  /\ dep[p] \notin marked /\ \A x \in Deleters : pc[x] \notin {"unbound", "commit"}
  /\ db' = IF DeploymentAccepts(dep[p]) /\ DatabaseAccepts
             THEN [db EXCEPT !.status = "READY", !.project = found[p], !.secret = TRUE]
             ELSE [db EXCEPT !.project = IF @ = 0 THEN found[p] ELSE @]
  /\ GoTo(p, "runtime")
  /\ UNCHANGED <<status, appDeleted, runtime, deletion, events, neon, vercel,
                 dep, found, key, seen, marked, quiet>>

-----------------------------------------------------------------------------
(* provision-runtime, for the same deployment.                             *)

\* A bound project that is gone, or a deployment that moved on, throws. A
\* deployment that is building already needs no more than the check.
ReadRuntime(p) ==
  /\ At(p, "runtime")
  /\ status[dep[p]] \in RUNTIME_ATTACH_STATUSES
  /\ \/ runtime = 0 /\ GoTo(p, "ensure") /\ UNCHANGED found
     \/ /\ runtime # 0 /\ vercelLive = runtime
        /\ GoTo(p, IF status[dep[p]] = "PROVISIONING" THEN "reconcile" ELSE "idle")
        /\ found' = [found EXCEPT ![p] = runtime]
  /\ UNCHANGED <<status, appDeleted, db, runtime, deletion, events, neon,
                 vercel, dep, key, seen, marked, quiet>>

\* PROVISIONING to BUILDING, once the runtime is there.
AdvanceToBuilding(d) ==
  status' = [status EXCEPT ![d] = IF @ = "PROVISIONING" THEN "BUILDING" ELSE @]

ReconcileRuntime(p) ==
  /\ At(p, "reconcile") /\ dep[p] \notin marked
  /\ IF DeploymentAccepts(dep[p]) THEN AdvanceToBuilding(dep[p]) ELSE UNCHANGED status
  /\ GoTo(p, "idle")
  /\ UNCHANGED <<appDeleted, db, runtime, deletion, events, neon, vercel, dep,
                 found, key, seen, marked, quiet>>

\* Get the project by its name or create it. Vercel refuses a second project
\* of the name, and then the run gets the first. An answer that does not come
\* within 25 s throws, whether or not the project was created.
ensureRuntime(p) ==
  /\ At(p, "ensure")
  /\ \/ /\ vercelLive # 0
        /\ found' = [found EXCEPT ![p] = vercelLive]
        /\ GoTo(p, "attach") /\ UNCHANGED vercel
     \/ /\ vercelLive = 0
        /\ vercelMade' = vercelMade + 1 /\ vercelLive' = vercelMade'
        /\ \/ found' = [found EXCEPT ![p] = vercelLive'] /\ GoTo(p, "attach")
           \/ UNCHANGED found /\ GoTo(p, "idle")
  /\ UNCHANGED <<status, appDeleted, db, runtime, deletion, events, neon, dep,
                 key, seen, marked, quiet>>

\* A second insert into app_runtimes violates its UNIQUE(app_id) and throws.
AttachRuntime(p) ==
  /\ At(p, "attach") /\ dep[p] \notin marked
  /\ GoTo(p, "idle")
  /\ IF ~DeploymentAccepts(dep[p])
       THEN /\ events' = events \cup {[event |-> "RUNTIME_PROVIDER_RESULT_STALE",
                                       project |-> found[p]]}
            /\ UNCHANGED <<runtime, status>>
     ELSE IF runtime # 0 THEN UNCHANGED <<events, runtime, status>>
     ELSE /\ runtime' = found[p]
          /\ events' = events \cup {[event |-> "RUNTIME_PROVISIONED", project |-> found[p]]}
          /\ AdvanceToBuilding(dep[p])
  /\ UNCHANGED <<appDeleted, db, deletion, neon, vercel, dep, found, key, seen,
                 marked, quiet>>

\* A provisioning run throws or is lost. Its retry is another run.
StopProvisioning(p) ==
  /\ pc[p] # "idle"
  /\ GoTo(p, "idle")
  /\ UNCHANGED <<status, appDeleted, db, runtime, deletion, events, neon,
                 vercel, dep, found, key, seen, marked, quiet>>

-----------------------------------------------------------------------------
(* The deletion of the app.                                                *)

Running == \E d \in Deployments : status[d] \in RUNTIME_ATTACH_STATUSES

\* A customer asks. What counts is a deployment that ran within 30 minutes and
\* a deletion touched within 10; how old the rows are is a free choice. A
\* repeated deletion reuses the key of the first.
requestCustomerAppDeletion(x) ==
  /\ At(x, "idle")
  /\ ~appDeleted /\ deletion.status # "COMPLETED"
  /\ \E oldDeployments, oldDeletion \in BOOLEAN :
       /\ Running => oldDeployments
       /\ deletion.status \in IN_FLIGHT => oldDeletion
  /\ key' = [key EXCEPT ![x] = IF deletion.status = "NONE" THEN x ELSE deletion.key]
  /\ GoTo(x, "requested")
  /\ UNCHANGED <<status, appDeleted, db, runtime, deletion, events, neon,
                 vercel, dep, found, seen, marked, quiet>>

\* SELECT ... LEFT JOIN app_runtimes ... FOR UPDATE OF a: the runtime is read
\* in the snapshot the statement starts with, and the lock awaited after it.
ReadApp(x) ==
  /\ At(x, "requested")
  /\ seen' = [seen EXCEPT ![x] = runtime]
  /\ quiet' = (~appDeleted /\ \A r \in Runs \ {x} : pc[r] \in {"idle", "requested"})
  /\ GoTo(x, "lock")
  /\ UNCHANGED <<status, appDeleted, db, runtime, deletion, events, neon,
                 vercel, dep, found, key, marked>>

\* The catch of the task; it may be started again with the same key.
FailDeletion(x) ==
  /\ deletion' = IF deletion.status # "NONE" /\ deletion.key = key[x]
                   THEN [deletion EXCEPT !.status = "FAILED"] ELSE deletion
  /\ \/ GoTo(x, "idle") \/ GoTo(x, "requested")

\* What makes the first transaction throw. (RefusedByKey: only a wrong key.)
RefusedByKey(x) == deletion.status # "NONE" /\ deletion.key # key[x]

Refused(x) ==
  /\ deletion.status # "NONE"
  /\ deletion.key # key[x] \/ (deletion.status # "COMPLETED" /\ deletion.project # seen[x])

\* The first transaction, once it has the lock on the app.
BeginDeletion(x) ==
  /\ At(x, "lock") /\ marked = {}
  /\ IF Refused(x) THEN FailDeletion(x) /\ UNCHANGED status
     ELSE IF deletion.status = "COMPLETED"
       THEN GoTo(x, "idle") /\ UNCHANGED <<deletion, status>>
     ELSE
       /\ deletion' = IF deletion.status = "NONE"
            THEN [status |-> "DELETING", key |-> key[x], project |-> seen[x]]
            ELSE [deletion EXCEPT !.status = "DELETING"]
       /\ status' = [d \in Deployments |->
            IF status[d] \in {"NONE", "DELETED"} THEN status[d] ELSE "DELETING"]
       /\ GoTo(x, "database")
  /\ UNCHANGED <<appDeleted, db, runtime, events, neon, vercel, dep, found, key,
                 seen, marked, quiet>>

\* deleteManagedDatabaseForApp reads the row (its FOR UPDATE ends with the
\* statement) and decides; every later UPDATE is by id alone.
ReadDatabase(x) ==
  /\ At(x, "database")
  /\ GoTo(x, IF db.status \in {"NONE", "DELETED"} THEN "project"
             ELSE IF db.project # 0 THEN "bind"
             ELSE IF db.status = "INTENT_RECORDED" THEN "discard" ELSE "search")
  /\ seen' = [seen EXCEPT ![x] = db.project]
  /\ UNCHANGED <<status, appDeleted, db, runtime, deletion, events, neon,
                 vercel, dep, found, key, marked, quiet>>

\* No project under the name: discard the row. Several: fail.
SearchDatabase(x) ==
  /\ At(x, "search")
  /\ IF neonLive = {} THEN GoTo(x, "discard") /\ UNCHANGED <<db, deletion, seen>>
     ELSE IF Sole(neonLive)
       THEN /\ \E n \in neonLive : seen' = [seen EXCEPT ![x] = n]
            /\ GoTo(x, "bind") /\ UNCHANGED <<db, deletion>>
     ELSE /\ db' = [db EXCEPT !.status = "DELETE_FAILED"]
          /\ FailDeletion(x) /\ UNCHANGED seen
  /\ UNCHANGED <<status, appDeleted, runtime, events, neon, vercel, dep, found,
                 key, marked, quiet>>

\* UPDATE app_databases SET status='DELETED', deleted_at. (SetDatabaseGone:
\* with the status that an app's deletion has at this point.)
SetDatabaseGone ==
  db' = [db EXCEPT !.status = "PROVIDER_DELETED", !.deletedAt = TRUE]

SetDatabaseDeleted == db' = [db EXCEPT !.status = "DELETED", !.deletedAt = TRUE]

DiscardDatabase(x) ==
  /\ At(x, "discard")
  /\ SetDatabaseDeleted
  /\ GoTo(x, "project")
  /\ UNCHANGED <<status, appDeleted, runtime, deletion, events, neon, vercel,
                 dep, found, key, seen, marked, quiet>>

BindDatabase(x) ==
  /\ At(x, "bind")
  /\ db' = [db EXCEPT !.status = "DELETING", !.project = seen[x]]
  /\ GoTo(x, "delete")
  /\ UNCHANGED <<status, appDeleted, runtime, deletion, events, neon, vercel,
                 dep, found, key, seen, marked, quiet>>

\* Neon deletes the project, or has none of this id; or the call fails, which
\* may also be an answer that got lost.
DeleteNeonProject(x) ==
  /\ At(x, "delete")
  /\ \/ /\ neonLive' = neonLive \ {seen[x]}
        /\ GoTo(x, "gone") /\ UNCHANGED <<neonMade, db, deletion>>
     \/ /\ db' = [db EXCEPT !.status = "DELETE_FAILED"]
        /\ neonLive' \in {neonLive, neonLive \ {seen[x]}}
        /\ FailDeletion(x) /\ UNCHANGED neonMade
  /\ UNCHANGED <<status, appDeleted, runtime, events, vercel, dep, found, key,
                 seen, marked, quiet>>

RecordDatabaseDeleted(x) ==
  /\ At(x, "gone")
  /\ SetDatabaseDeleted
  /\ GoTo(x, "project")
  /\ UNCHANGED <<status, appDeleted, runtime, deletion, events, neon, vercel,
                 dep, found, key, seen, marked, quiet>>

\* The project named in the deletion's row is deleted or was not found.
DeleteVercelProject(x) ==
  /\ At(x, "project")
  /\ vercelLive' = IF deletion.project = vercelLive THEN 0 ELSE vercelLive
  /\ GoTo(x, "finish")
  /\ UNCHANGED <<status, appDeleted, db, runtime, deletion, events, neon,
                 vercelMade, dep, found, key, seen, marked, quiet>>

\* PROVIDER_DELETED; then the last transaction begins. Its first statements
\* delete the runtime row they see and clear the secrets, uncommitted yet.
Unbind(x) ==
  /\ At(x, "finish")
  /\ deletion' = [deletion EXCEPT !.status = "PROVIDER_DELETED"]
  /\ seen' = [seen EXCEPT ![x] = runtime]
  /\ GoTo(x, "unbound")
  /\ UNCHANGED <<status, appDeleted, db, runtime, events, neon, vercel, dep,
                 found, key, marked, quiet>>

\* Its UPDATE of the deployments locks those it sees ...
MarkDeployments(x) ==
  /\ At(x, "unbound") /\ marked = {}
  /\ marked' = {d \in Deployments : status[d] # "NONE"}
  /\ GoTo(x, "commit")
  /\ UNCHANGED <<status, appDeleted, db, runtime, deletion, events, neon,
                 vercel, dep, found, key, seen, quiet>>

\* ... and it commits once it has the lock on the app.
CompleteDeletion(x) ==
  /\ At(x, "commit")
  /\ runtime' = IF runtime = seen[x] THEN 0 ELSE runtime
  /\ db' = [db EXCEPT !.secret = FALSE]
  /\ status' = [d \in Deployments |-> IF d \in marked THEN "DELETED" ELSE status[d]]
  /\ appDeleted' = TRUE
  /\ deletion' = [deletion EXCEPT !.status = "COMPLETED"]
  /\ marked' = {}
  /\ GoTo(x, "idle")
  /\ UNCHANGED <<events, neon, vercel, dep, found, key, seen, quiet>>

\* A deletion run throws, and what its transaction did is undone ...
ThrowDeletion(x) ==
  /\ pc[x] \notin {"idle", "requested"}
  /\ FailDeletion(x)
  /\ marked' = IF At(x, "commit") THEN {} ELSE marked
  /\ UNCHANGED <<status, appDeleted, db, runtime, events, neon, vercel, dep,
                 found, key, seen, quiet>>

\* ... or is lost, and writes nothing.
LoseDeletion(x) ==
  /\ pc[x] # "idle"
  /\ GoTo(x, "idle")
  /\ marked' = IF At(x, "commit") THEN {} ELSE marked
  /\ UNCHANGED <<status, appDeleted, db, runtime, deletion, events, neon,
                 vercel, dep, found, key, seen, quiet>>

-----------------------------------------------------------------------------

ProvisionDatabase(p) ==
  \/ \E d \in Deployments : StartProvisioning(p, d)
  \/ ensureManagedDatabaseIntent(p) \/ listNeonProjectsByName(p)
  \/ claimManagedDatabaseCreate(p) \/ createNeonProject(p)
  \/ markManagedDatabaseReconciliationRequired(p)
  \/ persistManagedDatabaseReady(p)

ProvisionRuntime(p) ==
  \/ ReadRuntime(p) \/ ReconcileRuntime(p) \/ ensureRuntime(p) \/ AttachRuntime(p)

DeleteApp(x) ==
  \/ requestCustomerAppDeletion(x) \/ ReadApp(x) \/ BeginDeletion(x)
  \/ ReadDatabase(x) \/ SearchDatabase(x) \/ DiscardDatabase(x)
  \/ BindDatabase(x) \/ DeleteNeonProject(x) \/ RecordDatabaseDeleted(x)
  \/ DeleteVercelProject(x) \/ Unbind(x) \/ MarkDeployments(x)
  \/ CompleteDeletion(x) \/ ThrowDeletion(x) \/ LoseDeletion(x)

Next ==
  \/ \E d \in Deployments : InsertDeployment(d) \/ VerifyEnvironment(d) \/ Settle(d)
  \/ \E p \in Provisioners :
       ProvisionDatabase(p) \/ ProvisionRuntime(p) \/ StopProvisioning(p)
  \/ \E x \in Deleters : DeleteApp(x)

Spec == Init /\ [][Next]_vars

-----------------------------------------------------------------------------
(* Properties.                                                             *)

\* However many runs claim, create, lose the answer, fail or start again, at
\* most one database project is ever created for the app: the claim is taken
\* once, from INTENT_RECORDED, and no later write gives it back.
OneDatabaseProject == neonMade <= 1

\* What the orphan scan says of a database project that has the app's name.
classifyManagedDatabaseResource(n) ==
  CASE db.status = "NONE" -> "ORPHAN"
    [] db.status = "DELETED" \/ db.deletedAt -> "ORPHAN"
    [] db.status # "NONE" /\ db.status # "DELETED" /\ ~db.deletedAt ->
         IF db.project = n THEN "KNOWN" ELSE "RECOVERABLE"

\* A database project is never behind a row that says none was asked for, even
\* if the run that created it crashed or never heard of it: a deletion that
\* reads the row now deletes or searches for the project, or the orphan scan
\* reports it.
DatabaseTraceable ==
  \A n \in neonLive : \/ db.status \notin {"NONE", "INTENT_RECORDED", "DELETED"}
                      \/ classifyManagedDatabaseResource(n) = "ORPHAN"

\* Projects that were at some time the app's runtime.
OnceBound == {e.project : e \in {f \in events : f.event = "RUNTIME_PROVISIONED"}}

\* A deletion that no other run overlapped leaves no runtime project that was
\* ever bound and no database project that the orphan scan does not report,
\* whatever earlier deletion attempts and provisioning runs left behind. This
\* is why a deletion is refused while a deployment is running.
QuietDeletionComplete ==
  appDeleted /\ quiet =>
    /\ vercelLive \notin OnceBound
    /\ \A n \in neonLive : classifyManagedDatabaseResource(n) = "ORPHAN"

\* Once the app is deleted no run that is still in flight, and no deployment
\* that slipped in, binds a runtime or brings database credentials back.
NothingAttachedAfterDelete ==
  [][appDeleted => runtime' \in {0, runtime} /\ (db'.secret => db.secret)]_vars

-----------------------------------------------------------------------------
(* Claims of the documents that the code does not keep.                    *)

\* Once the app is deleted and every run has ended, each of its runtime
\* projects that still exists is named by an event.
LeftoversTraceable ==
  appDeleted /\ (\A r \in Runs : pc[r] = "idle") =>
    vercelLive \in {0} \cup {e.project : e \in events}

\* A deletion that failed can be repeated: its row and the app name the same
\* runtime project. If they do not, every further attempt throws.
DeletionRetriable ==
  deletion.status = "FAILED" /\ ~appDeleted => deletion.project = runtime

=============================================================================
