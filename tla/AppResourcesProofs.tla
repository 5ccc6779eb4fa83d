------------------------- MODULE AppResourcesProofs -------------------------
(***************************************************************************)
(* Proofs, for any number of deployments, provisioning runs and deletion   *)
(* runs, that an app gets at most one database project, that the project   *)
(* can always be traced, that nothing is attached to a deleted app, and    *)
(* that a deletion nobody overlaps leaves nothing behind.                  *)
(*                                                                         *)
(* The first two rest on what the row says about Neon. Until a creation is *)
(* claimed there is no project and nobody about to create one (Unclaimed); *)
(* the claim is held by one run at a time, which comes before any project  *)
(* (OneClaim). The row never returns to a status a claim is taken from, so *)
(* a second creation has nobody to make it.                                *)
(*                                                                         *)
(* The last rests on the runtime row naming the only project ever bound    *)
(* until the app is deleted (BoundIsRuntime), and on what a run that is    *)
(* alone has dealt with by each of its steps (Progresses).                 *)
(***************************************************************************)
EXTENDS AppResources, TLAPS

Unclaimed ==
  db.status \in {"NONE", "INTENT_RECORDED"} =>
    neonMade = 0 /\ neonLive = {} /\ \A p \in Provisioners : pc[p] # "create"

OneClaim ==
  \A p \in Provisioners : pc[p] = "create" =>
    neonMade = 0 /\ \A q \in Provisioners : pc[q] = "create" => q = p

IInv == TypeOK /\ Unclaimed /\ OneClaim /\ OneDatabaseProject

\* An app and its first deployment begin with nothing provisioned.
LEMMA InitIInv == Init => IInv
<1> SUFFICES ASSUME Init PROVE IInv
  OBVIOUS
<1> USE ResourcesAssumption DEF Init
<1>1. (CHOOSE x \in Deleters : TRUE) \in Deleters
  OBVIOUS
<1>2. TypeOK
  <2>1. status \in [Deployments -> Statuses]
    BY DEF Statuses
  <2>2. /\ db \in [status : ManagedDatabaseStatus, project : Nat,
                   secret : BOOLEAN, deletedAt : BOOLEAN]
        /\ deletion \in [status : DeletionStatuses, key : Deleters, project : Nat]
    BY <1>1 DEF ManagedDatabaseStatus, DeletionStatuses
  <2>3. /\ pc \in [Runs -> Steps] /\ dep \in [Provisioners -> Deployments]
        /\ found \in [Provisioners -> Nat] /\ key \in [Deleters -> Deleters]
        /\ seen \in [Deleters -> Nat]
    BY DEF Steps
  <2> QED
    BY <2>1, <2>2, <2>3 DEF TypeOK
<1>3. Unclaimed /\ OneClaim /\ OneDatabaseProject
  BY DEF Unclaimed, OneClaim, OneDatabaseProject, Runs
<1> QED
  BY <1>2, <1>3 DEF IInv

-----------------------------------------------------------------------------
(* Types, one lemma for each kind of step.                                 *)

LEMMA DeploymentTyped ==
  ASSUME TypeOK, NEW d \in Deployments,
         InsertDeployment(d) \/ VerifyEnvironment(d) \/ Settle(d)
  PROVE  TypeOK'
  BY DEF TypeOK, InsertDeployment, VerifyEnvironment, Settle, UpdateDeployment,
         Statuses, neon, vercel

LEMMA DatabaseTyped ==
  ASSUME TypeOK, NEW p \in Provisioners, ProvisionDatabase(p)
  PROVE  TypeOK'
<1> USE DEF TypeOK, At, GoTo, Runs, neon, vercel
<1>1. ASSUME NEW d \in Deployments, StartProvisioning(p, d) PROVE TypeOK'
  BY <1>1 DEF StartProvisioning, Steps
<1>2. CASE ensureManagedDatabaseIntent(p)
  BY <1>2 DEF ensureManagedDatabaseIntent, ManagedDatabaseStatus, Steps
<1>3. CASE listNeonProjectsByName(p)
  BY <1>3 DEF listNeonProjectsByName, Steps
<1>4. CASE claimManagedDatabaseCreate(p)
  BY <1>4 DEF claimManagedDatabaseCreate, ManagedDatabaseStatus, Steps
<1>5. CASE createNeonProject(p)
  <2>1. neonMade' \in Nat /\ neonLive' \subseteq Nat
    <3>1. CASE UNCHANGED neon
      BY <3>1
    <3>2. CASE neonMade' = neonMade + 1 /\ neonLive' = neonLive \cup {neonMade'}
      BY <3>2
    <3> QED
      BY <1>5, <3>1, <3>2 DEF createNeonProject
  <2>2. found' \in [Provisioners -> Nat]
    BY <1>5, <2>1 DEF createNeonProject
  <2>3. pc' \in [Runs -> Steps]
    BY <1>5 DEF createNeonProject, Steps
  <2> QED
    BY <1>5, <2>1, <2>2, <2>3 DEF createNeonProject
<1>6. CASE markManagedDatabaseReconciliationRequired(p)
  BY <1>6 DEF markManagedDatabaseReconciliationRequired, ManagedDatabaseStatus, Steps
<1>7. CASE persistManagedDatabaseReady(p)
  BY <1>7 DEF persistManagedDatabaseReady, ManagedDatabaseStatus, Steps
<1> QED
  BY <1>1, <1>2, <1>3, <1>4, <1>5, <1>6, <1>7 DEF ProvisionDatabase

LEMMA RuntimeTyped ==
  ASSUME TypeOK, NEW p \in Provisioners, ProvisionRuntime(p) \/ StopProvisioning(p)
  PROVE  TypeOK'
<1> USE DEF TypeOK, At, GoTo, Runs, neon, vercel
<1>1. CASE ReadRuntime(p)
  BY <1>1 DEF ReadRuntime, Steps
<1>2. CASE ReconcileRuntime(p)
  BY <1>2 DEF ReconcileRuntime, AdvanceToBuilding, Statuses, Steps
<1>3. CASE ensureRuntime(p)
  BY <1>3 DEF ensureRuntime, Steps
<1>4. CASE AttachRuntime(p)
  <2>1. pc' \in [Runs -> Steps] /\ status' \in [Deployments -> Statuses] /\ runtime' \in Nat
    BY <1>4 DEF AttachRuntime, AdvanceToBuilding, Statuses, Steps
  <2>2. events' \subseteq [event : RuntimeEvents, project : Nat]
    BY <1>4 DEF AttachRuntime, RuntimeEvents
  <2> QED
    BY <1>4, <2>1, <2>2 DEF AttachRuntime
<1>5. CASE StopProvisioning(p)
  BY <1>5 DEF StopProvisioning, Steps
<1> QED
  BY <1>1, <1>2, <1>3, <1>4, <1>5 DEF ProvisionRuntime

\* The catch of a deletion run.
LEMMA FailTyped ==
  ASSUME TypeOK, NEW x \in Deleters, FailDeletion(x)
  PROVE  /\ pc' \in [Runs -> Steps]
         /\ deletion' \in [status : DeletionStatuses, key : Deleters, project : Nat]
         /\ \A p \in Provisioners : pc'[p] = pc[p]
  BY ResourcesAssumption DEF TypeOK, FailDeletion, GoTo, Runs, Steps, DeletionStatuses

LEMMA DeletionTyped ==
  ASSUME TypeOK, NEW x \in Deleters, DeleteApp(x)
  PROVE  TypeOK'
<1> USE DEF TypeOK, At, GoTo, Runs, neon, vercel
<1>1. CASE requestCustomerAppDeletion(x)
  BY <1>1 DEF requestCustomerAppDeletion, Steps
<1>2. CASE ReadApp(x)
  BY <1>2 DEF ReadApp, Steps
<1>3. CASE BeginDeletion(x)
  <2>1. CASE Refused(x)
    BY <1>3, <2>1, FailTyped DEF BeginDeletion
  <2>2. CASE ~Refused(x)
    BY <1>3, <2>2 DEF BeginDeletion, Steps, Statuses, DeletionStatuses
  <2> QED
    BY <2>1, <2>2
<1>4. CASE ReadDatabase(x)
  BY <1>4 DEF ReadDatabase, Steps
<1>5. CASE SearchDatabase(x)
  <2>1. CASE neonLive # {} /\ ~Sole(neonLive)
    BY <1>5, <2>1, FailTyped DEF SearchDatabase, ManagedDatabaseStatus
  <2>2. CASE neonLive = {} \/ Sole(neonLive)
    BY <1>5, <2>2 DEF SearchDatabase, Steps
  <2> QED
    BY <2>1, <2>2
<1>6. CASE DiscardDatabase(x) \/ RecordDatabaseDeleted(x)
  BY <1>6 DEF DiscardDatabase, RecordDatabaseDeleted, SetDatabaseDeleted,
              ManagedDatabaseStatus, Steps
<1>7. CASE BindDatabase(x)
  BY <1>7 DEF BindDatabase, ManagedDatabaseStatus, Steps
<1>8. CASE DeleteNeonProject(x)
  <2>1. CASE FailDeletion(x) /\ db' = [db EXCEPT !.status = "DELETE_FAILED"]
    BY <1>8, <2>1, FailTyped DEF DeleteNeonProject, ManagedDatabaseStatus, Steps
  <2>2. CASE ~(FailDeletion(x) /\ db' = [db EXCEPT !.status = "DELETE_FAILED"])
    BY <1>8, <2>2 DEF DeleteNeonProject, Steps
  <2> QED
    BY <2>1, <2>2
<1>9. CASE DeleteVercelProject(x)
  BY <1>9 DEF DeleteVercelProject, Steps
<1>10. CASE Unbind(x)
  BY <1>10 DEF Unbind, Steps, DeletionStatuses
<1>11. CASE MarkDeployments(x)
  BY <1>11 DEF MarkDeployments, Steps
<1>12. CASE CompleteDeletion(x)
  BY <1>12 DEF CompleteDeletion, Steps, Statuses, DeletionStatuses
<1>13. CASE ThrowDeletion(x)
  BY <1>13, FailTyped DEF ThrowDeletion
<1>14. CASE LoseDeletion(x)
  BY <1>14 DEF LoseDeletion, Steps
<1> QED
  BY <1>1, <1>2, <1>3, <1>4, <1>5, <1>6, <1>7, <1>8, <1>9, <1>10, <1>11,
     <1>12, <1>13, <1>14 DEF DeleteApp

LEMMA TypeStep == TypeOK /\ [Next]_vars => TypeOK'
<1> SUFFICES ASSUME TypeOK, [Next]_vars PROVE TypeOK'
  OBVIOUS
<1>1. CASE UNCHANGED vars
  BY <1>1 DEF TypeOK, vars, neon, vercel
<1>2. CASE Next
  BY <1>2, DeploymentTyped, DatabaseTyped, RuntimeTyped, DeletionTyped DEF Next
<1> QED
  BY <1>1, <1>2

-----------------------------------------------------------------------------
(* The claim.                                                              *)

Claim == Unclaimed /\ OneClaim /\ OneDatabaseProject

\* What most steps do: no project is made, a row that has been claimed stays
\* so, and nobody begins to create.
LEMMA ClaimKept ==
  ASSUME Claim,
         neonMade' = neonMade, neonLive' \subseteq neonLive,
         db'.status \in {"NONE", "INTENT_RECORDED"} =>
           db.status \in {"NONE", "INTENT_RECORDED"},
         \A p \in Provisioners : pc'[p] = "create" => pc[p] = "create"
  PROVE  Claim'
  BY DEF Claim, Unclaimed, OneClaim, OneDatabaseProject

\* A deletion run does not touch where the provisioning runs are.
LEMMA OthersStay ==
  ASSUME TypeOK, NEW x \in Deleters, NEW step, GoTo(x, step)
  PROVE  \A p \in Provisioners : pc'[p] = pc[p]
  BY ResourcesAssumption DEF TypeOK, GoTo, Runs

LEMMA DatabaseKeepsClaim ==
  ASSUME TypeOK, Claim, NEW p \in Provisioners, ProvisionDatabase(p)
  PROVE  Claim'
<1> USE DEF TypeOK, At, GoTo, Runs, neon
<1>1. ASSUME NEW d \in Deployments, StartProvisioning(p, d) PROVE Claim'
  BY <1>1, ClaimKept DEF StartProvisioning
<1>2. CASE ensureManagedDatabaseIntent(p)
  BY <1>2, ClaimKept DEF ensureManagedDatabaseIntent
<1>3. CASE listNeonProjectsByName(p)
  BY <1>3, ClaimKept DEF listNeonProjectsByName
<1>4. CASE claimManagedDatabaseCreate(p)
  <2>1. CASE db.status = "INTENT_RECORDED"
    <3>1. /\ neonMade = 0 /\ neonMade' = 0
          /\ \A q \in Provisioners : pc[q] # "create"
          /\ \A q \in Provisioners : q # p => pc'[q] = pc[q]
          /\ db'.status = "CREATE_REQUESTED"
      BY <1>4, <2>1 DEF claimManagedDatabaseCreate, Claimable, Claim, Unclaimed
    <3> QED
      BY <3>1 DEF Claim, Unclaimed, OneClaim, OneDatabaseProject
  <2>2. CASE db.status # "INTENT_RECORDED"
    BY <1>4, <2>2, ClaimKept DEF claimManagedDatabaseCreate, Claimable
  <2> QED
    BY <2>1, <2>2
<1>5. CASE createNeonProject(p)
  <2>1. /\ neonMade = 0
        /\ db.status \notin {"NONE", "INTENT_RECORDED"}
        /\ \A q \in Provisioners : pc[q] = "create" => q = p
    BY <1>5 DEF createNeonProject, Claim, OneClaim, Unclaimed
  <2>2. /\ neonMade' = neonMade + 1 \/ neonMade' = neonMade
        /\ db' = db
        /\ \A q \in Provisioners : pc'[q] # "create"
    BY <1>5, <2>1 DEF createNeonProject
  <2> QED
    BY <2>1, <2>2 DEF Claim, Unclaimed, OneClaim, OneDatabaseProject
<1>6. CASE markManagedDatabaseReconciliationRequired(p)
  BY <1>6, ClaimKept DEF markManagedDatabaseReconciliationRequired
<1>7. CASE persistManagedDatabaseReady(p)
  BY <1>7, ClaimKept DEF persistManagedDatabaseReady
<1> QED
  BY <1>1, <1>2, <1>3, <1>4, <1>5, <1>6, <1>7 DEF ProvisionDatabase

LEMMA RuntimeKeepsClaim ==
  ASSUME TypeOK, Claim, NEW p \in Provisioners,
         ProvisionRuntime(p) \/ StopProvisioning(p)
  PROVE  Claim'
<1>1. /\ UNCHANGED <<db, neon>>
      /\ \A q \in Provisioners : pc'[q] = "create" => pc[q] = "create"
  <2> USE DEF TypeOK, At, GoTo, Runs, neon
  <2>1. CASE ReadRuntime(p)
    BY <2>1 DEF ReadRuntime
  <2>2. CASE ReconcileRuntime(p)
    BY <2>2 DEF ReconcileRuntime
  <2>3. CASE ensureRuntime(p)
    BY <2>3 DEF ensureRuntime
  <2>4. CASE AttachRuntime(p)
    BY <2>4 DEF AttachRuntime
  <2>5. CASE StopProvisioning(p)
    BY <2>5 DEF StopProvisioning
  <2> QED
    BY <2>1, <2>2, <2>3, <2>4, <2>5 DEF ProvisionRuntime
<1> QED
  BY <1>1, ClaimKept DEF neon

\* Every write of a deletion run leaves the row claimed, or past any claim.
LEMMA DeletionKeepsClaim ==
  ASSUME TypeOK, Claim, NEW x \in Deleters, DeleteApp(x)
  PROVE  Claim'
<1>1. \A p \in Provisioners : pc'[p] = pc[p]
  BY FailTyped, OthersStay
     DEF DeleteApp, requestCustomerAppDeletion, ReadApp, BeginDeletion,
         ReadDatabase, SearchDatabase, DiscardDatabase, BindDatabase,
         DeleteNeonProject, RecordDatabaseDeleted, DeleteVercelProject, Unbind,
         MarkDeployments, CompleteDeletion, ThrowDeletion, LoseDeletion
<1>2. neonMade' = neonMade /\ neonLive' \subseteq neonLive
  BY DEF DeleteApp, requestCustomerAppDeletion, ReadApp, BeginDeletion,
         ReadDatabase, SearchDatabase, DiscardDatabase, BindDatabase,
         DeleteNeonProject, RecordDatabaseDeleted, DeleteVercelProject, Unbind,
         MarkDeployments, CompleteDeletion, ThrowDeletion, LoseDeletion, neon
<1>3. db'.status = db.status \/ db'.status \in {"DELETED", "DELETING", "DELETE_FAILED"}
  BY DEF TypeOK, DeleteApp, requestCustomerAppDeletion, ReadApp, BeginDeletion,
         ReadDatabase, SearchDatabase, DiscardDatabase, BindDatabase,
         SetDatabaseDeleted,
         DeleteNeonProject, RecordDatabaseDeleted, DeleteVercelProject, Unbind,
         MarkDeployments, CompleteDeletion, ThrowDeletion, LoseDeletion
<1> QED
  BY <1>1, <1>2, <1>3, ClaimKept

LEMMA ClaimStep == TypeOK /\ Claim /\ [Next]_vars => Claim'
<1> SUFFICES ASSUME TypeOK, Claim, [Next]_vars PROVE Claim'
  OBVIOUS
<1>1. CASE UNCHANGED vars
  BY <1>1, ClaimKept DEF vars, neon
<1>2. ASSUME NEW d \in Deployments,
             InsertDeployment(d) \/ VerifyEnvironment(d) \/ Settle(d)
      PROVE  Claim'
  BY <1>2, ClaimKept DEF InsertDeployment, VerifyEnvironment, Settle, UpdateDeployment, neon
<1> QED
  BY <1>1, <1>2, DatabaseKeepsClaim, RuntimeKeepsClaim, DeletionKeepsClaim DEF Next

LEMMA Invariance == Spec => []IInv
<1>1. IInv /\ [Next]_vars => IInv'
  BY TypeStep, ClaimStep DEF IInv, Claim
<1> QED
  BY InitIInv, <1>1, PTL DEF Spec

-----------------------------------------------------------------------------
(* The deletion that nobody overlaps.                                      *)

Busy(x) == pc[x] \notin {"idle", "requested"}

\* Until the app is deleted its runtime is all that was ever bound.
BoundIsRuntime == ~appDeleted => \A n \in OnceBound : n = runtime

BoundIsProject == 0 \notin OnceBound /\ \A p \in Provisioners : pc[p] = "attach" => found[p] # 0

\* A deletion that nobody overlaps is alone, and by then has done its part.
Alone ==
  quiet =>
    /\ \A p \in Provisioners : ~Busy(p)
    /\ \A x, y \in Deleters : Busy(x) /\ Busy(y) => x = y
    /\ appDeleted => \A x \in Deleters : ~Busy(x)

Progress(x) ==
  /\ pc[x] = "lock" => seen[x] = runtime
  /\ pc[x] \in {"database", "search", "discard", "bind", "delete", "gone", "project"} =>
       deletion.project = runtime
  /\ pc[x] \in {"finish", "unbound", "commit"} => vercelLive \notin OnceBound
  /\ pc[x] \in {"project", "finish", "unbound", "commit"} => db.status \in {"NONE", "DELETED"}

Progresses == quiet => \A x \in Deleters : Progress(x)

Quiet == BoundIsRuntime /\ BoundIsProject /\ Alone /\ Progresses /\ QuietDeletionComplete


LEMMA InitQuiet == Init => Quiet
<1> SUFFICES ASSUME Init PROVE Quiet
  OBVIOUS
<1>1. OnceBound = {} /\ ~quiet
  BY DEF Init, OnceBound
<1>2. \A p \in Provisioners : pc[p] # "attach"
  BY DEF Init, Runs
<1> QED
  BY <1>1, <1>2 DEF Quiet, BoundIsRuntime, BoundIsProject, Alone, Progresses, QuietDeletionComplete

\* A step of one run.
LEMMA OneMoves ==
  ASSUME TypeOK, NEW r \in Runs, NEW step, GoTo(r, step)
  PROVE  pc'[r] = step /\ \A s \in Runs : s # r => pc'[s] = pc[s]
  BY DEF TypeOK, GoTo

LEMMA BoundKept ==
  ASSUME BoundIsRuntime, BoundIsProject, UNCHANGED events,
         appDeleted' \/ (~appDeleted /\ runtime' = runtime),
         \A p \in Provisioners : pc'[p] = "attach" => (pc[p] = "attach" /\ found'[p] = found[p]) \/ found'[p] # 0
  PROVE  BoundIsRuntime' /\ BoundIsProject'
<1>1. OnceBound' = OnceBound
  BY DEF OnceBound
<1> QED
  BY <1>1 DEF BoundIsRuntime, BoundIsProject

\* A run binds a runtime only where none was bound.
LEMMA ProvisioningKeepsBound ==
  ASSUME TypeOK, BoundIsRuntime, BoundIsProject, NEW p \in Provisioners,
         ProvisionDatabase(p) \/ ProvisionRuntime(p) \/ StopProvisioning(p)
  PROVE  BoundIsRuntime' /\ BoundIsProject'
<1> USE DEF TypeOK, At, GoTo, Runs, neon, vercel
<1>1. CASE AttachRuntime(p)
  <2>1. /\ appDeleted' = appDeleted /\ found' = found
        /\ \A q \in Provisioners : pc'[q] = "attach" => pc[q] = "attach"
    BY <1>1 DEF AttachRuntime
  <2>2. CASE UNCHANGED runtime /\ OnceBound' = OnceBound
    BY <2>1, <2>2 DEF BoundIsRuntime, BoundIsProject
  <2>3. CASE /\ DeploymentAccepts(dep[p]) /\ runtime = 0
    <3>1. events' = events \cup {[event |-> "RUNTIME_PROVISIONED", project |-> found[p]]}
      BY <1>1, <2>3 DEF AttachRuntime
    <3>2. OnceBound' = OnceBound \cup {found[p]}
      <4>1. PICK e : e = [event |-> "RUNTIME_PROVISIONED", project |-> found[p]]
        OBVIOUS
      <4>2. e.event = "RUNTIME_PROVISIONED" /\ e.project = found[p] /\ events' = events \cup {e}
        BY <3>1, <4>1
      <4> QED
        BY <4>2 DEF OnceBound
    <3>3. runtime' = found[p] /\ found[p] # 0 /\ ~appDeleted
      BY <1>1, <2>3 DEF AttachRuntime, BoundIsProject, DeploymentAccepts
    <3>4. OnceBound = {}
      BY <2>3, <3>3 DEF BoundIsRuntime, BoundIsProject
    <3>5. 0 \notin OnceBound' /\ \A n \in OnceBound' : n = runtime'
      BY <3>2, <3>3, <3>4
    <3> QED
      BY <2>1, <3>5 DEF BoundIsRuntime, BoundIsProject
  <2>4. CASE ~DeploymentAccepts(dep[p])
    <3>1. /\ runtime' = runtime
          /\ events' = events \cup {[event |-> "RUNTIME_PROVIDER_RESULT_STALE", project |-> found[p]]}
      BY <1>1, <2>4 DEF AttachRuntime
    <3> QED
      BY <2>2, <3>1 DEF OnceBound
  <2>5. CASE DeploymentAccepts(dep[p]) /\ runtime # 0
    <3>1. UNCHANGED <<events, runtime>>
      BY <1>1, <2>5 DEF AttachRuntime
    <3> QED
      BY <2>2, <3>1 DEF OnceBound
  <2> QED
    BY <2>3, <2>4, <2>5
<1>2. CASE ensureRuntime(p)
  <2>1. UNCHANGED <<events, appDeleted, runtime>>
    BY <1>2 DEF ensureRuntime
  <2>2. \A q \in Provisioners : pc'[q] = "attach" => (pc[q] = "attach" /\ found'[q] = found[q]) \/ found'[q] # 0
    BY <1>2 DEF ensureRuntime
  <2> QED
    BY <2>1, <2>2, BoundKept
<1>3. CASE ProvisionDatabase(p)
  <2>1. UNCHANGED <<events, appDeleted, runtime>>
    BY <1>3 DEF ProvisionDatabase, StartProvisioning, ensureManagedDatabaseIntent,
         listNeonProjectsByName, claimManagedDatabaseCreate, createNeonProject,
         markManagedDatabaseReconciliationRequired, persistManagedDatabaseReady
  <2>2. \A q \in Provisioners : pc'[q] = "attach" => pc[q] = "attach" /\ found'[q] = found[q]
    BY <1>3 DEF ProvisionDatabase, StartProvisioning, ensureManagedDatabaseIntent,
         listNeonProjectsByName, claimManagedDatabaseCreate, createNeonProject,
         markManagedDatabaseReconciliationRequired, persistManagedDatabaseReady
  <2> QED
    BY <2>1, <2>2, BoundKept
<1>4. CASE ReadRuntime(p) \/ ReconcileRuntime(p) \/ StopProvisioning(p)
  <2>1. UNCHANGED <<events, appDeleted, runtime>>
    BY <1>4 DEF ReadRuntime, ReconcileRuntime, StopProvisioning
  <2>2. \A q \in Provisioners : pc'[q] = "attach" => pc[q] = "attach" /\ found'[q] = found[q]
    BY <1>4 DEF ReadRuntime, ReconcileRuntime, StopProvisioning
  <2> QED
    BY <2>1, <2>2, BoundKept
<1> QED
  BY <1>1, <1>2, <1>3, <1>4 DEF ProvisionRuntime

\* While a deletion is quiet a provisioning run can only begin, which ends it.
LEMMA ProvisioningKeepsQuiet ==
  ASSUME TypeOK, Quiet, NEW p \in Provisioners,
         ProvisionDatabase(p) \/ ProvisionRuntime(p) \/ StopProvisioning(p)
  PROVE  Quiet'
<1>1. BoundIsRuntime' /\ BoundIsProject'
  BY ProvisioningKeepsBound DEF Quiet
<1>2. quiet' => quiet
  BY DEF ProvisionDatabase, StartProvisioning, ensureManagedDatabaseIntent,
         listNeonProjectsByName, claimManagedDatabaseCreate, createNeonProject,
         markManagedDatabaseReconciliationRequired, persistManagedDatabaseReady,
         ProvisionRuntime, ReadRuntime, ReconcileRuntime, ensureRuntime, AttachRuntime,
         StopProvisioning
<1>3. ASSUME quiet' PROVE StopProvisioning(p)
  <2>1. pc[p] \in {"idle", "requested"}
    BY <1>2, <1>3 DEF Quiet, Alone, Busy
  <2>2. ~ProvisionRuntime(p)
    BY <2>1 DEF ProvisionRuntime, ReadRuntime, ReconcileRuntime, ensureRuntime, AttachRuntime, At
  <2>3. ~ProvisionDatabase(p)
    BY <1>3, <2>1 DEF ProvisionDatabase, StartProvisioning, ensureManagedDatabaseIntent,
         listNeonProjectsByName, claimManagedDatabaseCreate, createNeonProject,
         markManagedDatabaseReconciliationRequired, persistManagedDatabaseReady, At
  <2> QED
    BY <2>2, <2>3
<1>4. ASSUME quiet' PROVE Alone' /\ Progresses' /\ QuietDeletionComplete'
  <2>1. StopProvisioning(p) /\ quiet
    BY <1>2, <1>3, <1>4
  <2>2. UNCHANGED <<appDeleted, db, runtime, deletion, events, neon, vercel, seen>>
    BY <2>1 DEF StopProvisioning
  <2>3. pc'[p] = "idle" /\ \A r \in Runs : r # p => pc'[r] = pc[r]
    BY <2>1, OneMoves DEF StopProvisioning, Runs
  <2>4. /\ \A q \in Provisioners : ~Busy(q)
        /\ \A x, y \in Deleters : Busy(x) /\ Busy(y) => x = y
        /\ appDeleted => \A x \in Deleters : ~Busy(x)
    BY <2>1 DEF Quiet, Alone
  <2>5. /\ \A x \in Deleters : pc'[x] = pc[x] /\ (Busy(x)' <=> Busy(x))
        /\ \A q \in Provisioners : Busy(q)' => Busy(q)
    BY <2>3, ResourcesAssumption DEF Runs, Busy
  <2>6. Alone'
    BY <2>2, <2>4, <2>5 DEF Alone
  <2>7. Progresses'
    BY <2>1, <2>2, <2>5 DEF Quiet, Progresses, Progress, OnceBound, vercel
  <2>8. QuietDeletionComplete'
    BY <2>1, <2>2 DEF Quiet, QuietDeletionComplete, OnceBound, classifyManagedDatabaseResource,
                      neon, vercel
  <2> QED
    BY <2>6, <2>7, <2>8
<1>5. ASSUME ~quiet' PROVE Alone' /\ Progresses' /\ QuietDeletionComplete'
  BY <1>5 DEF Alone, Progresses, QuietDeletionComplete
<1> QED
  BY <1>1, <1>4, <1>5 DEF Quiet

\* A deletion run at a step of its own, while it is quiet: what the step has
\* to establish.
LEMMA QuietStep ==
  ASSUME TypeOK, Quiet, quiet, NEW x \in Deleters, Busy(x),
         \A r \in Runs : r # x => pc'[r] = pc[r],
         appDeleted' => ~Busy(x)', Progress(x)',
         BoundIsRuntime', BoundIsProject', QuietDeletionComplete'
  PROVE  Quiet'
<1>1. \A y \in Deleters : y # x => ~Busy(y)'
  BY DEF Quiet, Alone, Busy, Runs
<1>2. \A p \in Provisioners : ~Busy(p)'
  BY ResourcesAssumption DEF Quiet, Alone, Busy, Runs
<1>3. \A y \in Deleters : ~Busy(y)' => Progress(y)'
  BY DEF Busy, Progress
<1>4. Alone'
  BY <1>1, <1>2 DEF Alone
<1>5. Progresses'
  BY <1>1, <1>3 DEF Progresses
<1> QED
  BY <1>4, <1>5 DEF Quiet

\* What a deletion that is quiet has done by each of its steps.
LEMMA DeletionProgresses ==
  ASSUME TypeOK, NEW x \in Deleters, Progress(x), DeleteApp(x), Busy(x), ~CompleteDeletion(x),
         UNCHANGED runtime, OnceBound' = OnceBound, \A n \in OnceBound : n = runtime /\ n # 0
  PROVE  Progress(x)'
<1> USE DEF Progress
<1>0. /\ pc \in [Runs -> Steps] /\ x \in Runs /\ seen \in [Deleters -> Nat]
      /\ \A step : GoTo(x, step) => pc'[x] = step
  BY DEF TypeOK, Runs, GoTo
<1>1. ASSUME FailDeletion(x) \/ ThrowDeletion(x) \/ LoseDeletion(x) PROVE Progress(x)'
  BY <1>0, <1>1 DEF FailDeletion, ThrowDeletion, LoseDeletion
<1>2. CASE BeginDeletion(x)
  <2>1. CASE Refused(x)
    BY <1>1, <1>2, <2>1 DEF BeginDeletion
  <2>2. CASE ~Refused(x) /\ deletion.status = "COMPLETED"
    BY <1>0, <1>2, <2>2 DEF BeginDeletion
  <2>3. CASE ~Refused(x) /\ deletion.status # "COMPLETED"
    <3>1. seen[x] = runtime /\ pc'[x] = "database"
      BY <1>0, <1>2, <2>3 DEF BeginDeletion, At
    <3>2. deletion'.project = runtime
      BY <1>2, <2>3, <3>1 DEF BeginDeletion, Refused, TypeOK
    <3> QED
      BY <3>1, <3>2
  <2> QED
    BY <2>1, <2>2, <2>3
<1>3. CASE ReadDatabase(x)
  BY <1>0, <1>3 DEF ReadDatabase, At
<1>4. CASE SearchDatabase(x)
  BY <1>0, <1>1, <1>4 DEF SearchDatabase, At
<1>5. CASE DiscardDatabase(x) \/ RecordDatabaseDeleted(x)
  BY <1>0, <1>5 DEF DiscardDatabase, RecordDatabaseDeleted, SetDatabaseDeleted, At, TypeOK
<1>6. CASE BindDatabase(x)
  BY <1>0, <1>6 DEF BindDatabase, At
<1>7. CASE DeleteNeonProject(x)
  BY <1>0, <1>1, <1>7 DEF DeleteNeonProject, At
<1>8. CASE DeleteVercelProject(x)
  <2>1. /\ deletion.project = runtime /\ db.status \in {"NONE", "DELETED"} /\ UNCHANGED db
        /\ pc'[x] = "finish"
    BY <1>0, <1>8 DEF DeleteVercelProject, At
  <2>2. vercelLive' \notin OnceBound
    BY <1>8, <2>1 DEF DeleteVercelProject
  <2> QED
    BY <2>1, <2>2
<1>9. CASE Unbind(x) \/ MarkDeployments(x)
  BY <1>0, <1>9 DEF Unbind, MarkDeployments, At, vercel
<1> QED
  BY <1>1, <1>2, <1>3, <1>4, <1>5, <1>6, <1>7, <1>8, <1>9
     DEF DeleteApp, requestCustomerAppDeletion, ReadApp, At, Busy

\* A deletion run that asks, or ends before it has begun.
LEMMA IdleStep ==
  ASSUME TypeOK, Quiet, quiet, NEW x \in Deleters, ~Busy(x), pc'[x] \in {"idle", "requested"},
         \A r \in Runs : r # x => pc'[r] = pc[r],
         UNCHANGED <<appDeleted, db, runtime, deletion, neon, vercel, seen>>,
         BoundIsRuntime', BoundIsProject', OnceBound' = OnceBound
  PROVE  Quiet'
<1>1. \A r \in Runs : Busy(r)' <=> (r # x /\ Busy(r))
  BY DEF Busy
<1>2. /\ Deleters \subseteq Runs /\ Provisioners \subseteq Runs
      /\ \A p \in Provisioners : ~Busy(p)
      /\ \A y, z \in Deleters : Busy(y) /\ Busy(z) => y = z
      /\ appDeleted => \A y \in Deleters : ~Busy(y)
  BY DEF Quiet, Alone, Runs
<1>3. Alone'
  BY <1>1, <1>2 DEF Alone
<1>4. Progresses'
  <2> SUFFICES ASSUME NEW y \in Deleters PROVE Progress(y)'
    BY DEF Progresses
  <2>1. CASE y = x
    BY <2>1 DEF Progress
  <2>2. CASE y # x
    <3>1. Progress(y) /\ pc'[y] = pc[y]
      BY <1>2, <2>2 DEF Quiet, Progresses
    <3> QED
      BY <3>1 DEF Progress, vercel
  <2> QED
    BY <2>1, <2>2
<1>5. QuietDeletionComplete'
  BY DEF Quiet, QuietDeletionComplete, classifyManagedDatabaseResource, neon, vercel
<1> QED
  BY <1>3, <1>4, <1>5 DEF Quiet

LEMMA DeletionKeepsQuiet ==
  ASSUME TypeOK, Quiet, NEW x \in Deleters, DeleteApp(x)
  PROVE  Quiet'
<1>0. BoundIsRuntime /\ BoundIsProject /\ Alone /\ Progresses /\ x \in Runs
  BY DEF Quiet, Runs
<1>1. /\ \A r \in Runs : r # x => pc'[r] = pc[r]
      /\ UNCHANGED <<events, found, neonMade, vercelMade>>
  <2>1. /\ UNCHANGED <<events, found, neonMade, vercelMade>>
        /\ \E step : GoTo(x, step)
    BY DEF DeleteApp, requestCustomerAppDeletion, ReadApp, BeginDeletion, FailDeletion,
         ReadDatabase, SearchDatabase, DiscardDatabase, BindDatabase,
         DeleteNeonProject, RecordDatabaseDeleted, DeleteVercelProject, Unbind,
         MarkDeployments, CompleteDeletion, ThrowDeletion, LoseDeletion, neon, vercel
  <2> QED
    BY <1>0, <2>1, OneMoves
<1>2. BoundIsRuntime' /\ BoundIsProject'
  <2>1. appDeleted' \/ (~appDeleted /\ runtime' = runtime)
    BY DEF DeleteApp, requestCustomerAppDeletion, ReadApp, BeginDeletion,
         ReadDatabase, SearchDatabase, DiscardDatabase, BindDatabase,
         DeleteNeonProject, RecordDatabaseDeleted, DeleteVercelProject, Unbind,
         MarkDeployments, CompleteDeletion, ThrowDeletion, LoseDeletion
  <2>2. \A p \in Provisioners : pc'[p] = pc[p] /\ found'[p] = found[p]
    BY <1>1, ResourcesAssumption DEF Runs
  <2> QED
    BY <1>0, <1>1, <2>1, <2>2, BoundKept
<1>3. OnceBound' = OnceBound
  BY <1>1 DEF OnceBound
<1>4. CASE ~quiet'
  BY <1>2, <1>4 DEF Quiet, Alone, Progresses, QuietDeletionComplete
<1>5. CASE ReadApp(x) /\ quiet'
  <2>1. /\ ~appDeleted' /\ \A r \in Runs \ {x} : pc[r] \in {"idle", "requested"}
        /\ seen'[x] = runtime' /\ pc'[x] = "lock"
    BY <1>0, <1>5 DEF ReadApp, GoTo, TypeOK
  <2>2. \A r \in Runs : r # x => ~Busy(r)'
    BY <1>1, <2>1 DEF Busy
  <2>3. Alone'
    BY <2>1, <2>2, ResourcesAssumption DEF Alone, Runs
  <2>4. Progresses'
    <3>1. Progress(x)'
      BY <2>1 DEF Progress
    <3>2. \A y \in Deleters : ~Busy(y)' => Progress(y)'
      BY DEF Busy, Progress
    <3> QED
      BY <2>2, <3>1, <3>2 DEF Progresses, Runs
  <2> QED
    BY <1>2, <2>1, <2>3, <2>4 DEF Quiet, QuietDeletionComplete
<1>6. CASE requestCustomerAppDeletion(x) /\ quiet'
  <2>1. /\ quiet /\ UNCHANGED <<appDeleted, db, runtime, deletion, neon, vercel, seen>>
        /\ ~Busy(x) /\ pc'[x] = "requested" /\ ~appDeleted
    BY <1>0, <1>6 DEF requestCustomerAppDeletion, GoTo, TypeOK, At, Busy
  <2> QED
    BY <1>1, <1>2, <1>3, <2>1, IdleStep
<1>7. CASE LoseDeletion(x) /\ ~Busy(x) /\ quiet'
  <2>1. /\ quiet /\ UNCHANGED <<appDeleted, db, runtime, deletion, neon, vercel, seen>>
        /\ pc'[x] = "idle"
    BY <1>0, <1>7 DEF LoseDeletion, GoTo, TypeOK
  <2> QED
    BY <1>1, <1>2, <1>3, <1>7, <2>1, IdleStep
<1>8. CASE /\ quiet' /\ ~ReadApp(x) /\ ~requestCustomerAppDeletion(x)
           /\ ~(LoseDeletion(x) /\ ~Busy(x))
  <2>1. quiet /\ Busy(x)
    BY <1>8 DEF DeleteApp, BeginDeletion, ReadDatabase, SearchDatabase, DiscardDatabase, BindDatabase,
         DeleteNeonProject, RecordDatabaseDeleted, DeleteVercelProject, Unbind,
         MarkDeployments, CompleteDeletion, ThrowDeletion, LoseDeletion, At, Busy
  <2>2. ~appDeleted /\ Progress(x)
    BY <1>0, <2>1 DEF Alone, Progresses
  <2>3. \A n \in OnceBound : n = runtime /\ n # 0
    BY <1>0, <2>2 DEF BoundIsRuntime, BoundIsProject
  <2>4. CASE CompleteDeletion(x)
    <3>1. pc'[x] = "idle" /\ db'.status = db.status /\ UNCHANGED <<neon, vercel>>
      BY <1>0, <2>4 DEF CompleteDeletion, GoTo, TypeOK
    <3>2. vercelLive \notin OnceBound /\ db.status \in {"NONE", "DELETED"}
      BY <2>2, <2>4 DEF CompleteDeletion, At, Progress
    <3>3. QuietDeletionComplete'
      BY <1>3, <3>1, <3>2 DEF QuietDeletionComplete, classifyManagedDatabaseResource, vercel
    <3>4. ~Busy(x)' /\ Progress(x)'
      BY <3>1 DEF Busy, Progress
    <3> QED
      BY <1>1, <1>2, <2>1, <3>3, <3>4, QuietStep
  <2>5. CASE ~CompleteDeletion(x)
    <3>1. ~appDeleted' /\ runtime' = runtime
      <4>1. UNCHANGED <<appDeleted, runtime>>
        BY <1>8, <2>5 DEF DeleteApp, BeginDeletion, ReadDatabase, SearchDatabase, DiscardDatabase,
           BindDatabase, DeleteNeonProject, RecordDatabaseDeleted, DeleteVercelProject, Unbind,
           MarkDeployments, ThrowDeletion, LoseDeletion
      <4> QED
        BY <2>2, <4>1
    <3>2. Progress(x)'
      BY <1>0, <1>3, <1>8, <2>1, <2>2, <2>3, <2>5, <3>1, DeletionProgresses
    <3>3. QuietDeletionComplete'
      BY <3>1 DEF QuietDeletionComplete
    <3> QED
      BY <1>1, <1>2, <2>1, <3>1, <3>2, <3>3, QuietStep
  <2> QED
    BY <2>4, <2>5
<1> QED
  BY <1>4, <1>5, <1>6, <1>7, <1>8

LEMMA QuietInductive == TypeOK /\ Quiet /\ [Next]_vars => Quiet'
<1> SUFFICES ASSUME TypeOK, Quiet, [Next]_vars PROVE Quiet'
  OBVIOUS
<1>1. CASE UNCHANGED vars
  BY <1>1 DEF vars, neon, vercel, Quiet, BoundIsRuntime, BoundIsProject, Alone, Busy, Progresses,
              Progress, QuietDeletionComplete, OnceBound, classifyManagedDatabaseResource
<1>2. ASSUME NEW d \in Deployments,
             InsertDeployment(d) \/ VerifyEnvironment(d) \/ Settle(d)
      PROVE  Quiet'
  <2>1. /\ UNCHANGED <<appDeleted, db, runtime, deletion, events, neon, vercel, pc, found, seen>>
        /\ quiet' => quiet
    BY <1>2 DEF InsertDeployment, VerifyEnvironment, Settle, UpdateDeployment
  <2> QED
    BY <2>1 DEF neon, vercel, Quiet, BoundIsRuntime, BoundIsProject, Alone, Busy, Progresses,
              Progress, QuietDeletionComplete, OnceBound, classifyManagedDatabaseResource
<1> QED
  BY <1>1, <1>2, ProvisioningKeepsQuiet, DeletionKeepsQuiet DEF Next

-----------------------------------------------------------------------------
(* Theorems.                                                               *)

\* The rows, the providers and the runs keep their types.
THEOREM Typing == Spec => []TypeOK
<1>1. IInv => TypeOK
  BY DEF IInv
<1> QED
  BY Invariance, <1>1, PTL

\* However many provisioning runs overlap, crash or lose an answer, at most one
\* database project is ever created for the app.
THEOREM OneProject == Spec => []OneDatabaseProject
<1>1. IInv => OneDatabaseProject
  BY DEF IInv
<1> QED
  BY Invariance, <1>1, PTL

\* A database project that exists is behind a row that leads to it, or the
\* orphan scan reports it.
THEOREM Traceable == Spec => []DatabaseTraceable
<1>1. IInv => DatabaseTraceable
  <2> SUFFICES ASSUME IInv, NEW n \in neonLive,
                      db.status \in {"NONE", "INTENT_RECORDED", "DELETED"}
               PROVE  classifyManagedDatabaseResource(n) = "ORPHAN"
    BY DEF DatabaseTraceable
  <2>1. db.status = "DELETED"
    BY DEF IInv, Unclaimed
  <2> QED
    BY <2>1 DEF classifyManagedDatabaseResource
<1> QED
  BY Invariance, <1>1, PTL

\* Nothing binds a runtime to a deleted app or brings its credentials back: the
\* two attaching steps look at deleted_at under the lock of the app.
THEOREM DeletedStaysBare == Spec => NothingAttachedAfterDelete
<1>1. ASSUME TypeOK, [Next]_vars, appDeleted
      PROVE  runtime' \in {0, runtime} /\ (db'.secret => db.secret)
  <2> USE <1>1 DEF TypeOK, neon, vercel
  <2>1. CASE UNCHANGED vars
    BY <2>1 DEF vars
  <2>2. ASSUME NEW d \in Deployments,
               InsertDeployment(d) \/ VerifyEnvironment(d) \/ Settle(d)
        PROVE  UNCHANGED <<runtime, db>>
    BY <2>2 DEF InsertDeployment, VerifyEnvironment, Settle, UpdateDeployment
  <2>3. ASSUME NEW p \in Provisioners, ProvisionDatabase(p)
        PROVE  runtime' = runtime /\ db'.secret = db.secret
    BY <2>3 DEF ProvisionDatabase, StartProvisioning, ensureManagedDatabaseIntent,
         listNeonProjectsByName, claimManagedDatabaseCreate, createNeonProject,
         markManagedDatabaseReconciliationRequired, persistManagedDatabaseReady,
         DeploymentAccepts
  <2>4. ASSUME NEW p \in Provisioners, ProvisionRuntime(p) \/ StopProvisioning(p)
        PROVE  UNCHANGED <<runtime, db>>
    BY <2>4 DEF ProvisionRuntime, ReadRuntime, ReconcileRuntime, ensureRuntime,
         AttachRuntime, StopProvisioning, DeploymentAccepts
  <2>5. ASSUME NEW x \in Deleters, DeleteApp(x)
        PROVE  runtime' \in {0, runtime} /\ (db'.secret => db.secret)
    BY <2>5 DEF DeleteApp, requestCustomerAppDeletion, ReadApp, BeginDeletion,
         ReadDatabase, SearchDatabase, DiscardDatabase, BindDatabase,
         SetDatabaseDeleted, DeleteNeonProject, RecordDatabaseDeleted,
         DeleteVercelProject, Unbind, MarkDeployments, CompleteDeletion,
         ThrowDeletion, LoseDeletion
  <2> QED
    BY <2>1, <2>2, <2>3, <2>4, <2>5 DEF Next
<1>2. TypeOK /\ [Next]_vars =>
        [appDeleted => runtime' \in {0, runtime} /\ (db'.secret => db.secret)]_vars
  BY <1>1
<1> QED
  BY Typing, <1>2, PTL DEF Spec, NothingAttachedAfterDelete

LEMMA QuietInvariance == Spec => []Quiet
BY InitQuiet, QuietInductive, Typing, PTL DEF Spec

\* A deletion that no other run overlapped leaves no runtime project that was
\* ever bound and no database project that the orphan scan does not report,
\* whatever earlier attempts and provisioning runs left behind.
THEOREM QuietDeletionLeavesNothing == Spec => []QuietDeletionComplete
<1>1. Quiet => QuietDeletionComplete
  BY DEF Quiet
<1> QED
  BY QuietInvariance, <1>1, PTL

=============================================================================
