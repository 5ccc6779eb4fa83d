----------------------------- MODULE WorkspaceApps -----------------------------
(***************************************************************************)
(* How apps come to be in one workspace: the customer connects GitHub and  *)
(* selects repositories, or uploads files to a repository Utplava keeps;   *)
(* an analysis creates the app or reuses it, under the workspace's limit   *)
(* on active apps. Requests run at once and die between two statements.    *)
(*                                                                         *)
(*   connected  workspace_github_installations has a row                   *)
(*   limit      workspace_resource_policies.max_active_apps                *)
(*   repo       github_repositories, in order of creation: the slug an app *)
(*              of it gets, and managed_by_utplava                         *)
(*   head       the branch of a managed repository at GitHub (0: the       *)
(*              commit of auto_init); parent[c] is the parent of commit c  *)
(*   stored     commits a row of direct_publishes records                  *)
(*   app        apps, in order of creation; slug "--deleted-" is a freed   *)
(*              name                                                       *)
(* In flight: each request's step (pc), the repository it works on (on),   *)
(* the name it was given (name), the head it read or moved to, and later   *)
(* the deleted app whose name it takes (base).                             *)
(*                                                                         *)
(* File contents are what checkPublishUpload tells apart. The hourly and   *)
(* daily limits, and the configuration of the publisher, only refuse       *)
(* (a request that never starts); what an analysis finds in the source is  *)
(* left to DeploymentControl and the deployments of an app to there too.   *)
(* Deleting an app is AppResources; here it is the commit that ends it.    *)
(***************************************************************************)
EXTENDS Naturals, FiniteSets

CONSTANTS
  Requests,     \* web requests in flight together
  Names,        \* app names, as slugs
  Limits,       \* values an operator gives max_active_apps
  MaxRepos,     \* bound on the repositories
  MaxApps,      \* bound on the app rows
  MaxCommits,   \* bound on the commits uploaded
  MaxFaults     \* bound on requests that die

VARIABLES connected, limit, repo, head, parent, stored, app, pc, on, name, base, faults

github   == <<connected, repo>>
branches == <<head, parent, stored>>
locals   == <<pc, on, name, base>>
vars     == <<github, limit, branches, app, locals, faults>>

RepoIds == 1..MaxRepos
AppIds  == 1..MaxApps
Commits == 1..MaxCommits
NoName  == "none"
Freed   == "--deleted-"

ASSUME WorkspaceAssumption ==
  /\ MaxRepos \in Nat \ {0} /\ MaxApps \in Nat \ {0} /\ MaxCommits \in Nat \ {0}
  /\ MaxFaults \in Nat /\ Limits \subseteq Nat /\ Limits # {}
  /\ NoName \notin Names /\ Freed \notin Names

Repos == { r \in RepoIds : repo[r].slug # NoName }
Rows  == { a \in AppIds : app[a].repo # 0 }
ActiveApps == { a \in Rows : app[a].alive }
AppOf(r) == { a \in ActiveApps : app[a].repo = r }
Committed == { c \in Commits : parent[c] # MaxCommits + 1 }

Steps == {"idle", "checked", "ready", "read", "committed",
          "inspect", "locked", "named", "counted"}

(***************************************************************************)
(* What the rows may hold: an app has a name and belongs to a repository   *)
(* that exists, a branch is at one of the commits, and no commit is its    *)
(* own ancestor (parents are older).                                       *)
(***************************************************************************)
TypeOK ==
  /\ connected \in BOOLEAN /\ limit \in Limits
  /\ repo \in [RepoIds -> [slug : Names \cup {NoName}, managed : BOOLEAN]]
  /\ head \in [RepoIds -> {0} \cup Committed]
  /\ parent \in [Commits -> 0..MaxCommits + 1]
  /\ stored \subseteq Committed \X Repos
  /\ app \in [AppIds -> [repo : 0..MaxRepos, slug : Names \cup {NoName, Freed}, alive : BOOLEAN]]
  /\ pc \in [Requests -> Steps]
  /\ on \in [Requests -> 0..MaxRepos]
  /\ name \in [Requests -> Names \cup {NoName}]
  /\ base \in [Requests -> 0..(MaxCommits + MaxApps)]
  /\ faults \in 0..MaxFaults
  /\ \A a \in Rows : app[a].repo \in Repos /\ app[a].slug # NoName
  /\ \A c \in Committed : parent[c] < c

Init ==
  /\ connected = FALSE /\ limit \in Limits
  /\ repo = [r \in RepoIds |-> [slug |-> NoName, managed |-> FALSE]]
  /\ head = [r \in RepoIds |-> 0]
  /\ parent = [c \in Commits |-> MaxCommits + 1]
  /\ stored = {}
  /\ app = [a \in AppIds |-> [repo |-> 0, slug |-> NoName, alive |-> FALSE]]
  /\ pc = [q \in Requests |-> "idle"]
  /\ on = [q \in Requests |-> 0]
  /\ name = [q \in Requests |-> NoName]
  /\ base = [q \in Requests |-> 0]
  /\ faults = 0

-----------------------------------------------------------------------------

At(q, step) == pc[q] = step
GoTo(q, step) == pc' = [pc EXCEPT ![q] = step]
WorkOn(q, what) == on' = [on EXCEPT ![q] = what]

End(q) ==
  /\ GoTo(q, "idle") /\ WorkOn(q, 0)
  /\ name' = [name EXCEPT ![q] = NoName]
  /\ base' = [base EXCEPT ![q] = 0]

NextRepo == Cardinality(Repos) + 1
NextApp  == Cardinality(Rows) + 1
NextCommit == Cardinality(Committed) + 1

-----------------------------------------------------------------------------
(* The customer's own GitHub.                                              *)

\* The installation is a user's, and the user is the signed-in customer.
connectGitHubInstallationToWorkspace ==
  /\ ~connected
  /\ connected' = TRUE
  /\ UNCHANGED <<repo, limit, branches, app, locals, faults>>

\* Selecting a repository again refreshes its row (ON CONFLICT full_name).
Selected(slug) == [slug |-> slug, managed |-> FALSE]

selectWorkspaceRepository(slug) ==
  /\ connected /\ NextRepo \in RepoIds
  /\ repo' = [repo EXCEPT ![NextRepo] = Selected(slug)]
  /\ UNCHANGED <<connected, limit, branches, app, locals, faults>>

-----------------------------------------------------------------------------
(* publishFiles.                                                           *)

\* The checks that need neither database nor network; a refused upload ends here.
checkPublishUpload(upload) ==
  /\ upload.entry /\ upload.webFilesOnly
  /\ ~upload.secret /\ ~upload.phishing

Uploads == [entry : BOOLEAN, webFilesOnly : BOOLEAN, secret : BOOLEAN, phishing : BOOLEAN]

assertNameFree(slug) == \A a \in ActiveApps : app[a].slug # slug

UnderLimit == Cardinality(ActiveApps) < limit

\* (mutant) the workspace's row is read without a lock
UnlockedPolicy == limit \in Limits

\* lockWorkspacePolicy waits for a transaction that has counted.
WorkspaceLock == \A p \in Requests : pc[p] # "counted"

\* A new app; an update of an uploaded one.
AskPublish(q, slug, upload) ==
  /\ At(q, "idle") /\ checkPublishUpload(upload)
  /\ assertNameFree(slug) /\ WorkspaceLock /\ UnderLimit
  /\ GoTo(q, "checked")
  /\ name' = [name EXCEPT ![q] = slug]
  /\ UNCHANGED <<github, limit, branches, app, on, base, faults>>

loadManagedApp(a) == a \in ActiveApps /\ repo[app[a].repo].managed

AskUpdate(q, a, upload) ==
  /\ At(q, "idle") /\ checkPublishUpload(upload) /\ loadManagedApp(a)
  /\ GoTo(q, "ready") /\ WorkOn(q, app[a].repo)
  /\ UNCHANGED <<github, limit, branches, app, name, base, faults>>

\* In Utplava's organisation, whose installation is linked to no workspace.
Managed(slug) == [slug |-> slug, managed |-> TRUE]

\* The repository at GitHub and its row; a request that dies in between
\* leaves a repository no row names.
createManagedRepository(q) ==
  /\ At(q, "checked") /\ NextRepo \in RepoIds
  /\ repo' = [repo EXCEPT ![NextRepo] = Managed(name[q])]
  /\ GoTo(q, "ready") /\ WorkOn(q, NextRepo)
  /\ UNCHANGED <<connected, limit, branches, app, name, base, faults>>

ReadHead(q) ==
  /\ At(q, "ready")
  /\ base' = [base EXCEPT ![q] = head[on[q]]]
  /\ GoTo(q, "read")
  /\ UNCHANGED <<github, limit, branches, app, on, name, faults>>

\* (mutant) updateRef with force: true
Forced(q) == head[on[q]] \in Committed \cup {0}

\* updateRef with force: false refuses a commit that is no descendant.
FastForward(q) == head[on[q]] = base[q]

CommitFiles(q) ==
  /\ At(q, "read") /\ FastForward(q) /\ NextCommit \in Commits
  /\ parent' = [parent EXCEPT ![NextCommit] = base[q]]
  /\ head' = [head EXCEPT ![on[q]] = NextCommit]
  /\ base' = [base EXCEPT ![q] = NextCommit]
  /\ GoTo(q, "committed")
  /\ UNCHANGED <<github, limit, stored, app, on, name, faults>>

RefusedByGitHub(q) ==
  /\ At(q, "read") /\ head[on[q]] # base[q]
  /\ End(q)
  /\ UNCHANGED <<github, limit, branches, app, faults>>

RecordPublish(q) ==
  /\ At(q, "committed")
  /\ stored' = stored \cup {<<base[q], on[q]>>}
  /\ base' = [base EXCEPT ![q] = 0]
  /\ GoTo(q, "inspect")
  /\ UNCHANGED <<github, limit, head, parent, app, on, name, faults>>

-----------------------------------------------------------------------------
(* Analysis: the transaction of persistRepositoryAnalysis.                 *)

loadSelectedRepository(r) == r \in Repos /\ (connected \/ repo[r].managed)

AskAnalysis(q, r) ==
  /\ At(q, "idle") /\ loadSelectedRepository(r)
  /\ GoTo(q, "inspect") /\ WorkOn(q, r)
  /\ UNCHANGED <<github, limit, branches, app, name, base, faults>>

InTransaction == { q \in Requests : pc[q] \in {"locked", "named", "counted"} }

LockRepository(q) ==
  /\ At(q, "inspect")
  /\ \A p \in InTransaction : on[p] # on[q]
  /\ GoTo(q, "locked")
  /\ UNCHANGED <<github, limit, branches, app, on, name, base, faults>>

ReuseApp(q) ==
  /\ At(q, "locked") /\ AppOf(on[q]) # {}
  /\ End(q)
  /\ UNCHANGED <<github, limit, branches, app, faults>>

\* display_name of an uploaded app, the name of the repository otherwise.
Slug(q) == repo[on[q]].slug

\* (mutant) slugs are unique within a repository
UniqueForRepo(q) == \A a \in Rows \ {base[q]} : app[a].slug = Slug(q) => app[a].repo # on[q]

UniqueIndex(q) == \A a \in Rows \ {base[q]} : app[a].slug # Slug(q)

\* Row locks: a transaction that takes a deleted row's name holds the row.
DeletedWith(slug) == { a \in Rows : app[a].slug = slug /\ ~app[a].alive }
Takeable(slug) == DeletedWith(slug) \cap { base[p] : p \in InTransaction } = {}

CheckName(q) ==
  /\ At(q, "locked") /\ AppOf(on[q]) = {}
  /\ assertNameFree(Slug(q)) /\ Takeable(Slug(q))
  /\ \/ \E a \in DeletedWith(Slug(q)) : base' = [base EXCEPT ![q] = a]
     \/ DeletedWith(Slug(q)) = {} /\ base' = base
  /\ GoTo(q, "named")
  /\ UNCHANGED <<github, limit, branches, app, on, name, faults>>

enforceActiveAppLimit(q) ==
  /\ At(q, "named") /\ WorkspaceLock /\ UnderLimit
  /\ GoTo(q, "counted")
  /\ UNCHANGED <<github, limit, branches, app, on, name, base, faults>>

\* APP_SLUG_CONFLICT, WORKSPACE_APP_LIMIT_REACHED, or the unique index.
RefuseApp(q) ==
  /\ \/ At(q, "locked") /\ AppOf(on[q]) = {} /\ ~assertNameFree(Slug(q))
     \/ At(q, "named") /\ WorkspaceLock /\ ~UnderLimit
     \/ At(q, "counted") /\ ~UniqueIndex(q)
  /\ End(q)
  /\ UNCHANGED <<github, limit, branches, app, faults>>

\* The commit: the app, and the deleted row that gave its name up.
CreateApp(q) ==
  /\ At(q, "counted") /\ UniqueIndex(q) /\ NextApp \in AppIds
  /\ app' = [a \in AppIds |->
       CASE a = NextApp -> [repo |-> on[q], slug |-> Slug(q), alive |-> TRUE]
         [] a = base[q] -> [app[a] EXCEPT !.slug = Freed]
         [] OTHER -> app[a]]
  /\ End(q)
  /\ UNCHANGED <<github, limit, branches, faults>>

\* delete-app's last transaction: the row stays and keeps its slug.
CommitDeletion(a) ==
  /\ a \in ActiveApps
  /\ app' = [app EXCEPT ![a].alive = FALSE]
  /\ UNCHANGED <<github, limit, branches, locals, faults>>

SetPolicy(n) ==
  /\ WorkspaceLock /\ limit # n /\ limit' = n
  /\ UNCHANGED <<github, branches, app, locals, faults>>

-----------------------------------------------------------------------------

Drop(q) ==
  /\ faults < MaxFaults /\ faults' = faults + 1
  /\ ~At(q, "idle") /\ End(q)
  /\ UNCHANGED <<github, limit, branches, app>>

Next ==
  \/ connectGitHubInstallationToWorkspace
  \/ \E slug \in Names : selectWorkspaceRepository(slug)
  \/ \E q \in Requests :
       \/ \E slug \in Names, upload \in Uploads : AskPublish(q, slug, upload)
       \/ \E a \in AppIds, upload \in Uploads : AskUpdate(q, a, upload)
       \/ createManagedRepository(q) \/ ReadHead(q)
       \/ CommitFiles(q) \/ RefusedByGitHub(q) \/ RecordPublish(q)
       \/ \E r \in RepoIds : AskAnalysis(q, r)
       \/ LockRepository(q) \/ ReuseApp(q) \/ CheckName(q) \/ enforceActiveAppLimit(q)
       \/ RefuseApp(q)
       \/ CreateApp(q) \/ Drop(q)
  \/ \E a \in AppIds : CommitDeletion(a)
  \/ \E n \in Limits : SetPolicy(n)

Spec == Init /\ [][Next]_vars

-----------------------------------------------------------------------------

(***************************************************************************)
(* The number of active apps never grows beyond the limit in force, though *)
(* analyses and uploads of different repositories count and insert at the  *)
(* same time and an operator changes the limit (the workspace row is       *)
(* locked from the count to the commit). A limit lowered below the number  *)
(* of apps removes none.                                                   *)
(***************************************************************************)
NeverGrowsPastLimit ==
  [][Cardinality(ActiveApps') > Cardinality(ActiveApps)
       => Cardinality(ActiveApps') <= limit']_vars

(***************************************************************************)
(* Two active apps have different names and different repositories, from   *)
(* whatever the uploads and analyses found free when they looked.          *)
(***************************************************************************)
OneAppPerName ==
  \A a, b \in ActiveApps : a # b => app[a].slug # app[b].slug /\ app[a].repo # app[b].repo

\* The commits c builds on, c included: what each set of commits that holds c
\* and the parents of its members holds.
History(c) ==
  { d \in Committed : c # 0 /\ \A S \in SUBSET Committed :
      c \in S /\ (\A e \in S : parent[e] \in S \cup {0}) => d \in S }

(***************************************************************************)
(* An upload that was recorded is never overwritten by another upload that *)
(* had not seen it: it stays in the history of its repository's branch     *)
(* (commitFiles reads the head, builds the commit, moves the branch with   *)
(* force: false).                                                          *)
(***************************************************************************)
NoLostUpload == \A p \in stored : p[1] \in History(head[p[2]])

=============================================================================
