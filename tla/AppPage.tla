------------------------------ MODULE AppPage ------------------------------
(***************************************************************************)
(* The panel on an app's page and on the New app page: what a browser      *)
(* shows of a deployment, the buttons it offers, and the answers it waits  *)
(* for. Every answer was read on the server at one moment and reaches the  *)
(* page at a later one, in any order; polls, refreshes of the whole page,  *)
(* clicks and analyses overlap.                                            *)
(*                                                                         *)
(*   rows       the app's deployments on the server, oldest first          *)
(*   configured no setting that the app needs is missing                   *)
(*   page       "uploaded", "app" (from GitHub) or "new"                   *)
(*   props      what the server gave with the page                         *)
(*   refresh    a router.refresh on its way                                *)
(*   listed, focus, stored   the picker of the New app page                *)
(*   analysisState, configurationState, deploymentState, deploymentPending *)
(*              the state of the panel, by deployment where the code is    *)
(*   poll       the effect that polls: off, waiting to ask, or asked       *)
(*   requests   answers that are waited for                                *)
(*   clicks, failures   so far; lost: of a poll or a refresh              *)
(*                                                                         *)
(* BUILDING stands for every status between the start and the end. An      *)
(* answer that fails has a status code; one that is dropped never comes.   *)
(***************************************************************************)
EXTENDS Naturals, Sequences, FiniteSets

CONSTANTS
  MaxDeployments,  \* bound on the rows; a retry beyond it is refused
  MaxCommits,      \* bound on the commits on the branch
  MaxClicks,       \* bound on what people do, here and in another tab
  MaxPolls,        \* bound on the polls under way at a time
  MaxFailures,     \* bound on the requests that fail
  Openings,        \* kinds of page, and the app's deployment when it opens
  Nothing

VARIABLES rows, configured, page, props, refresh, listed, focus, stored,
          analysisState, configurationState, deploymentState,
          deploymentPending, poll, requests, clicks, failures, lost

server == <<rows, configured>>
picker == <<listed, focus, stored>>
panel == <<analysisState, configurationState, deploymentState, deploymentPending>>
pageVars == <<server, page, props, refresh, picker, panel, poll, requests, clicks, failures, lost>>

Ids == 1 .. MaxDeployments

\* The page of an app opens on a deployment in one of these statuses.
ASSUME PageAssumption ==
  /\ MaxDeployments \in Nat \ {0}
  /\ \A o \in Openings : o.page = "uploaded" => o.status \in {"ANALYZING", "BUILDING", "LIVE", "FAILED"}

-----------------------------------------------------------------------------
(* What the server answers with.                                           *)

\* safeCustomerDeployment of a row.
Snapshot(all, d) ==
  [ id |-> d, status |-> all[d].status,
    active |-> all[d].status = "BUILDING" \/ (all[d].status = "ANALYZING" /\ all[d].started) ]

\* The newest deployment of the app, and whether it may be deployed.
ReadPage(all, ready) ==
  [ analysis |-> Len(all), ready |-> ready,
    currentDeployment |-> IF all = <<>> THEN Nothing ELSE Snapshot(all, Len(all)) ]

Row(status, started, commit, parent) ==
  [status |-> status, started |-> started, commit |-> commit, parent |-> parent]

Live == {d \in 1 .. Len(rows) : rows[d].status = "LIVE"}

InProgress == {d \in 1 .. Len(rows) : rows[d].status \in {"ANALYZING", "BUILDING"}}

Children(d) == {e \in 1 .. Len(rows) : rows[e].parent = d}

\* d, what was made of it, and so on down. Only the newest of an app is
\* retried, so a failed one above d has no second child.
Lineage(d) ==
  {e \in 1 .. Len(rows) :
     \A S \in SUBSET (1 .. Len(rows)) : d \in S /\ (\A x \in S : Children(x) \subseteq S) => e \in S}

Oldest(commit) ==
  {d \in 1 .. Len(rows) : rows[d].commit = commit /\ \A e \in 1 .. d - 1 : rows[e].commit # commit}

NewestOf(ds) == {d \in ds : \A e \in ds : e <= d}

NoAnalysis == [at |-> "none", deployment |-> 0, status |-> Nothing]

-----------------------------------------------------------------------------
(* What the page shows.                                                    *)

\* What was analysed here goes before what came with the page.
analysis ==
  IF analysisState.at = "done"
  THEN [deployment |-> analysisState.deployment, status |-> analysisState.status,
        currentDeployment |-> Nothing]
  ELSE [deployment |-> props.analysis, status |-> Nothing, currentDeployment |-> props.currentDeployment]

Visible == (page = "new" => focus) /\ analysis.deployment # 0

deployment == deploymentState[analysis.deployment]

\* Without a status of its own, the analysis has one that never runs.
currentDeployment ==
  IF deployment # Nothing THEN deployment
  ELSE IF analysis.currentDeployment # Nothing THEN analysis.currentDeployment
  ELSE [id |-> analysis.deployment, status |-> analysis.status, active |-> FALSE]

ShownRunning == Visible /\ currentDeployment.active

ready == IF configurationState = Nothing THEN props.ready ELSE configurationState

isPending == refresh.at # "none"

\* (mutant) The buttons look at the deployment alone.
PendingOnly == isPending

Disabled == isPending \/ deploymentPending[analysis.deployment]

-----------------------------------------------------------------------------

\* A fetch: for which deployment, shown under which, and the click it is of.
Ask(kind, d, shownAs, n) ==
  [kind |-> kind, deployment |-> d, shownAs |-> shownAs, n |-> n, mine |-> kind = "poll", answer |-> Nothing]

PageInit ==
  /\ \E o \in Openings :
       /\ page = o.page
       /\ rows = IF o.page = "new" THEN <<>> ELSE <<Row(o.status, o.status # "ANALYZING", 1, 0)>>
  /\ configured \in IF rows = <<>> \/ ~rows[1].started THEN BOOLEAN ELSE {TRUE}
  /\ props = ReadPage(rows, configured)
  /\ refresh = [at |-> "none", page |-> Nothing, again |-> FALSE]
  /\ listed = FALSE /\ focus = FALSE /\ stored \in IF page = "new" THEN BOOLEAN ELSE {TRUE}
  /\ analysisState = NoAnalysis /\ configurationState = Nothing
  /\ deploymentState = [d \in 0 .. MaxDeployments |-> Nothing]
  /\ deploymentPending = [d \in 0 .. MaxDeployments |-> FALSE]
  /\ poll = IF ShownRunning THEN "timer" ELSE "off"
  /\ requests = IF page = "new" THEN {Ask("list", 0, 0, 0)} ELSE {}
  /\ clicks = 0 /\ failures = 0 /\ lost = FALSE

\* What the effect depends on.
PollKey ==
  IF ~Visible THEN Nothing
  ELSE <<currentDeployment.active, currentDeployment.id, IF deployment = Nothing THEN Nothing ELSE deployment.status>>

\* The page is drawn again. When what the effect depends on is another, an
\* answer that is waited for does not ask again and a new timer starts.
Draw(next, waiting) ==
  IF PollKey' # PollKey
  THEN /\ poll' = IF ShownRunning' THEN "timer" ELSE "off"
       /\ requests' = {[r EXCEPT !.mine = FALSE] : r \in waiting}
  ELSE poll' = next /\ requests' = waiting

\* (mutant) Nobody asks for the page again.
NotRefreshed == refresh

\* startTransition(() => router.refresh()): one after the other.
Refreshed == IF refresh.at = "none" THEN [refresh EXCEPT !.at = "sent"]
                                    ELSE [refresh EXCEPT !.again = TRUE]

Click(kind, d, shownAs) ==
  /\ clicks < MaxClicks
  /\ clicks' = clicks + 1
  /\ Draw(poll, requests \cup {Ask(kind, d, shownAs, IF d = 0 THEN 0 ELSE clicks + 1)})

-----------------------------------------------------------------------------
(* The person.                                                             *)

ClickList ==
  /\ page = "new" /\ ~focus /\ ~isPending
  /\ UNCHANGED <<server, page, props, refresh, picker, panel, failures, lost>>
  /\ Click("list", 0, 0)

chooseAnother ==
  /\ page = "new" /\ focus /\ ~isPending
  /\ focus' = FALSE
  /\ UNCHANGED <<server, page, props, refresh, listed, stored, panel, failures, lost>>
  /\ Click("list", 0, 0)

\* The list folds away and the analysis starts.
focusOn ==
  /\ listed' = FALSE /\ focus' = TRUE
  /\ analysisState' = [NoAnalysis EXCEPT !.at = "pending"]

\* A repository that is known already is analysed straight away.
ClickStored ==
  /\ page = "new" /\ listed /\ stored /\ ~isPending
  /\ focusOn
  /\ UNCHANGED <<server, page, props, refresh, stored, configurationState, deploymentState,
                 deploymentPending, failures, lost>>
  /\ Click("analyse", 0, 0)

ClickSelect ==
  /\ page = "new" /\ listed /\ ~stored /\ ~isPending
  /\ UNCHANGED <<server, page, props, refresh, picker, panel, failures, lost>>
  /\ Click("select", 0, 0)

\* "Analyse again" on the New app page; "Check GitHub for new code" next to a
\* live app from GitHub.
ClickAnalyse ==
  /\ \/ page = "new" /\ focus
     \/ page = "app" /\ Visible /\ currentDeployment.status = "LIVE"
  /\ ~isPending /\ analysisState.at # "pending"
  /\ analysisState' = [NoAnalysis EXCEPT !.at = "pending"]
  /\ UNCHANGED <<server, page, props, refresh, picker, configurationState, deploymentState,
                 deploymentPending, failures, lost>>
  /\ Click("analyse", 0, 0)

ClickSave ==
  /\ Visible /\ ~ready /\ ~isPending
  /\ UNCHANGED <<server, page, props, refresh, picker, panel, failures, lost>>
  /\ Click("save", 0, 0)

\* A button marks the deployment it is about.
Submit(kind, d) ==
  /\ Visible /\ ~Disabled
  /\ deploymentPending' = [deploymentPending EXCEPT ![d] = TRUE]
  /\ UNCHANGED <<server, page, props, refresh, picker, analysisState, configurationState,
                 deploymentState, failures, lost>>
  /\ Click(kind, d, analysis.deployment)

startDeployment ==
  /\ ready /\ ~currentDeployment.active /\ currentDeployment.status \notin {"LIVE", "FAILED"}
  /\ Submit("start", analysis.deployment)

retryDeployment ==
  /\ currentDeployment.status = "FAILED"
  /\ Submit("retry", currentDeployment.id)

redeployApp ==
  /\ currentDeployment.status = "LIVE"
  /\ Submit("redeploy", analysis.deployment)

-----------------------------------------------------------------------------
(* The timers.                                                             *)

\* loadDeploymentProgress for what is shown, at the end of the effect's timer.
Poll ==
  /\ poll = "timer"
  /\ Cardinality({r \in requests : r.kind \in {"poll", "look"}}) < MaxPolls
  /\ poll' = "asked"
  /\ requests' = requests \cup {Ask("poll", currentDeployment.id, 0, 0)}
  /\ UNCHANGED <<server, page, props, refresh, picker, panel, clicks, failures, lost>>

\* The link of a live app is asked for again until it is the final one.
LiveReveal ==
  /\ Visible /\ currentDeployment.status = "LIVE"
  /\ ~\E r \in requests : r.kind = "look"
  /\ Cardinality({r \in requests : r.kind \in {"poll", "look"}}) < MaxPolls
  /\ requests' = requests \cup {Ask("look", currentDeployment.id, 0, 0)}
  /\ UNCHANGED <<server, page, props, refresh, picker, panel, poll, clicks, failures, lost>>

-----------------------------------------------------------------------------
(* The server.                                                             *)

\* The orchestration of a started deployment.
Advance(d) ==
  /\ d <= Len(rows) /\ Snapshot(rows, d).active
  /\ \E s \in IF rows[d].status = "ANALYZING" THEN {"BUILDING", "FAILED"} ELSE {"LIVE", "FAILED"} :
       rows' = [rows EXCEPT ![d].status = s]
  /\ UNCHANGED <<configured, page, props, refresh, picker, panel, poll, requests, clicks, failures, lost>>

Fail == failures < MaxFailures /\ failures' = failures + 1

Replies(r, answer) == requests' = (requests \ {r}) \cup {[r EXCEPT !.answer = answer]}

Unhandled(r, kinds) == r \in requests /\ r.kind \in kinds /\ r.answer = Nothing

\* An answer with a deployment.
Deployment(d) == [ok |-> TRUE, snapshot |-> Snapshot(rows', d)]

Refuse(r) == Replies(r, [ok |-> FALSE])

Unchanged == UNCHANGED <<page, props, refresh, picker, panel, poll, clicks, lost>>

Read(r) ==
  /\ Unhandled(r, {"poll", "look"})
  /\ UNCHANGED server
  /\ UNCHANGED failures
  /\ Replies(r, Deployment(r.deployment))
  /\ Unchanged

Answer(r) ==
  /\ Unhandled(r, {"list", "select", "save", "configuration"})
  /\ configured' = (configured \/ r.kind = "save")
  /\ UNCHANGED rows
  /\ Replies(r, [ok |-> TRUE, ready |-> configured'])
  /\ UNCHANGED failures
  /\ Unchanged

\* The oldest deployment of the branch's head, or a new one. The head may be
\* newer than what was deployed.
Analyse(r) ==
  /\ Unhandled(r, {"analyse"})
  /\ \E head \in 1 .. MaxCommits :
       /\ \A d \in 1 .. Len(rows) : rows[d].commit <= head
       /\ IF Oldest(head) # {} THEN UNCHANGED rows
          ELSE Len(rows) < MaxDeployments /\ rows' = Append(rows, Row("ANALYZING", FALSE, head, 0))
       /\ LET d == IF Oldest(head) # {} THEN CHOOSE x \in Oldest(head) : TRUE ELSE Len(rows')
          IN Replies(r, [ok |-> TRUE, analysis |-> [NoAnalysis EXCEPT !.at = "done", !.deployment = d,
                                                                     !.status = rows'[d].status]])
  /\ UNCHANGED <<configured, failures>>
  /\ Unchanged

\* Start d, which may have been started.
Started(d) == rows' = [rows EXCEPT ![d].started = TRUE] /\ UNCHANGED <<configured, failures>>

InsertRow(commit, parent) ==
  /\ Len(rows) < MaxDeployments
  /\ rows' = Append(rows, Row("ANALYZING", TRUE, commit, parent))
  /\ UNCHANGED <<configured, failures>>

Refused(r) == Refuse(r) /\ UNCHANGED <<server, failures>>

\* Only the newest deployment starts, unless it ended or misses a setting.
Start(r) ==
  /\ Unhandled(r, {"start"})
  /\ LET d == r.deployment
     IN IF d = Len(rows) /\ rows[d].status # "FAILED" /\ (rows[d].started \/ configured)
        THEN Started(d) /\ Replies(r, Deployment(d)) ELSE Refused(r)
  /\ Unchanged

\* The last retry is the answer, or is retried when it failed and is the
\* app's newest deployment. A lineage that forks is refused.
Retry(r) ==
  /\ Unhandled(r, {"retry"})
  /\ IF \E d \in Lineage(r.deployment) : Cardinality(Children(d)) > 1
     THEN Refused(r)
     ELSE \E d \in NewestOf(Lineage(r.deployment)) :
            CASE rows[d].status # "FAILED" -> Started(d) /\ Replies(r, Deployment(d))
              [] rows[d].status = "FAILED" /\ d = Len(rows) ->
                   InsertRow(rows[d].commit, d) /\ Replies(r, Deployment(Len(rows')))
              [] OTHER -> Refused(r)
  /\ Unchanged

\* The code that is live again, or what is in progress.
Redeploy(r) ==
  /\ Unhandled(r, {"redeploy"})
  /\ \E live \in NewestOf(Live) :
       IF InProgress = {}
       THEN InsertRow(rows[live].commit, live) /\ Replies(r, Deployment(Len(rows')))
       ELSE \E d \in NewestOf(InProgress) : Started(d) /\ Replies(r, Deployment(d))
  /\ Unchanged

\* Another tab or an assistant starts, redeploys or retries the last one.
Elsewhere ==
  /\ rows # <<>> /\ clicks < MaxClicks
  /\ clicks' = clicks + 1
  /\ LET last == rows[Len(rows)]
     IN \/ last.status = "ANALYZING" /\ ~last.started /\ configured /\ Started(Len(rows))
        \/ last.status = "FAILED" /\ InsertRow(last.commit, Len(rows))
        \/ last.status = "LIVE" /\ InProgress = {} /\ InsertRow(last.commit, Len(rows))
  /\ UNCHANGED <<page, props, refresh, picker, panel, poll, requests, lost>>

\* An error status, at a limit, in a pause or for a reason of the server's.
Fails(r) ==
  /\ r \in requests /\ r.answer = Nothing
  /\ Fail
  /\ Refuse(r)
  /\ UNCHANGED server
  /\ Unchanged

AnswerRefresh ==
  /\ refresh.at = "sent"
  /\ refresh' = [refresh EXCEPT !.at = "answered", !.page = ReadPage(rows, configured)]
  /\ UNCHANGED <<server, page, props, picker, panel, poll, requests, clicks, failures, lost>>

-----------------------------------------------------------------------------
(* Answers reach the page.                                                 *)

AfterRefresh == [at |-> IF refresh.again THEN "sent" ELSE "none", page |-> Nothing, again |-> FALSE]

RefreshArrives ==
  /\ refresh.at = "answered"
  /\ props' = refresh.page
  /\ refresh' = AfterRefresh
  /\ UNCHANGED <<server, page, picker, panel, clicks, failures, lost>>
  /\ Draw(poll, requests)

RefreshFails ==
  /\ refresh.at # "none"
  /\ Fail
  /\ refresh' = AfterRefresh
  /\ lost' = TRUE
  /\ UNCHANGED <<server, page, props, picker, panel, poll, requests, clicks>>

Arrives(r, kinds) == r \in requests /\ r.kind \in kinds /\ r.answer # Nothing

Good(r) == r.answer.ok

\* loadDeploymentProgress: the answer is kept whether or not its poll still
\* counts, and asks again only when it does.
ProgressArrives(r) ==
  /\ Arrives(r, {"poll", "look"})
  /\ deploymentState' = IF Good(r) THEN [deploymentState EXCEPT ![r.deployment] = r.answer.snapshot]
                                   ELSE deploymentState
  /\ lost' = (lost \/ (r.kind = "poll" /\ ~Good(r)))
  /\ UNCHANGED <<server, page, props, refresh, picker, analysisState, configurationState,
                 deploymentPending, clicks, failures>>
  /\ Draw(IF ~r.mine THEN poll ELSE IF Good(r) /\ r.answer.snapshot.active THEN "timer" ELSE "off",
          requests \ {r})

\* A start answers for its deployment; a retry and a redeploy for the one of
\* the analysis too, and theirs may be another.
Shows(r) == [deploymentState EXCEPT ![r.shownAs] = r.answer.snapshot, ![r.answer.snapshot.id] = r.answer.snapshot]

SubmitArrives(r) ==
  /\ Arrives(r, {"start", "retry", "redeploy"})
  /\ deploymentPending' = [deploymentPending EXCEPT ![r.deployment] = FALSE]
  /\ deploymentState' = IF Good(r) THEN Shows(r) ELSE deploymentState
  /\ refresh' = IF Good(r) THEN Refreshed ELSE refresh
  /\ UNCHANGED <<server, page, props, picker, analysisState, configurationState, clicks, failures, lost>>
  /\ Draw(poll, requests \ {r})

ListArrives(r) ==
  /\ Arrives(r, {"list"})
  /\ listed' = (listed \/ Good(r))
  /\ UNCHANGED <<server, page, props, refresh, focus, stored, panel, clicks, failures, lost>>
  /\ Draw(poll, requests \ {r})

SelectArrives(r) ==
  /\ Arrives(r, {"select"})
  /\ IF Good(r)
     THEN /\ stored' = TRUE /\ refresh' = Refreshed
          /\ focusOn
          /\ UNCHANGED <<server, page, props, configurationState, deploymentState, deploymentPending, clicks, failures, lost>>
          /\ Draw(poll, (requests \ {r}) \cup {Ask("analyse", 0, 0, r.n)})
     ELSE /\ UNCHANGED <<server, page, props, refresh, picker, panel, clicks, failures, lost>>
          /\ Draw(poll, requests \ {r})

AnalysisArrives(r) ==
  /\ Arrives(r, {"analyse"})
  /\ analysisState' = IF Good(r) THEN r.answer.analysis ELSE [NoAnalysis EXCEPT !.at = "error"]
  /\ UNCHANGED <<server, page, props, refresh, picker, configurationState, deploymentState,
                 deploymentPending, clicks, failures, lost>>
  /\ Draw(poll, (requests \ {r}) \cup (IF Good(r) THEN {Ask("configuration", 0, 0, r.n)} ELSE {}))

\* After an analysis, the page is asked for again whatever was answered.
ConfigurationArrives(r) ==
  /\ Arrives(r, {"configuration", "save"})
  /\ configurationState' = IF Good(r) THEN r.answer.ready ELSE configurationState
  /\ refresh' = IF Good(r) \/ r.kind = "configuration" THEN Refreshed ELSE refresh
  /\ UNCHANGED <<server, page, props, picker, analysisState, deploymentState, deploymentPending, clicks, failures, lost>>
  /\ Draw(poll, requests \ {r})

\* The connection breaks: only an analysis has a handler for that.
Dropped(r) ==
  /\ r \in requests
  /\ Fail
  /\ analysisState' = IF r.kind = "analyse" THEN [NoAnalysis EXCEPT !.at = "error"] ELSE analysisState
  /\ lost' = (lost \/ r.kind = "poll")
  /\ UNCHANGED <<server, page, props, refresh, picker, configurationState, deploymentState,
                 deploymentPending, clicks>>
  /\ Draw(IF r.mine THEN "off" ELSE poll, requests \ {r})

-----------------------------------------------------------------------------

Handle(r) == Read(r) \/ Answer(r) \/ Analyse(r) \/ Start(r) \/ Retry(r) \/ Redeploy(r) \/ Fails(r)

Deliver(r) ==
  \/ ProgressArrives(r) \/ SubmitArrives(r) \/ ListArrives(r) \/ SelectArrives(r)
  \/ AnalysisArrives(r) \/ ConfigurationArrives(r)

PageNext ==
  \/ ClickList \/ chooseAnother \/ ClickStored \/ ClickSelect \/ ClickAnalyse \/ ClickSave
  \/ startDeployment \/ retryDeployment \/ redeployApp
  \/ Poll \/ LiveReveal
  \/ Elsewhere \/ \E d \in Ids : Advance(d)
  \/ AnswerRefresh \/ RefreshArrives \/ RefreshFails
  \/ \E r \in requests : Handle(r) \/ Deliver(r) \/ Dropped(r)

\* What deployments, refreshes and clicks still lead to: it ends.
Pending ==
  \/ \E d \in Ids : Advance(d)
  \/ AnswerRefresh \/ RefreshArrives
  \/ \E r \in requests : r.kind \notin {"poll", "look"} /\ (Handle(r) \/ Deliver(r))

PollGoesOn(own) == \E r \in requests : r.kind = "poll" /\ r.mine = own /\ (Handle(r) \/ Deliver(r))

\* Timers end, deployments end, requests are answered or fail, and answers
\* reach the page. A person need not click.
Fairness == WF_pageVars(Pending) /\ WF_pageVars(Poll) /\ WF_pageVars(PollGoesOn(TRUE)) /\ WF_pageVars(PollGoesOn(FALSE))

PageSpec == PageInit /\ [][PageNext]_pageVars /\ Fairness

-----------------------------------------------------------------------------

Submitted == {r \in requests : r.kind \in {"start", "retry", "redeploy"}}

(* A double click does nothing: on the page of an uploaded app, no two     *)
(* starts, retries or redeploys of the same deployment are on their way,   *)
(* whatever has come to be shown since the first, as long as no refresh of *)
(* the page failed.                                                        *)
SubmitsOnce ==
  page = "uploaded" /\ ~lost =>
    Cardinality({r.deployment : r \in Submitted}) = Cardinality(Submitted)

(* The page of an uploaded app that shows a deployment as running comes to *)
(* show how it ended, whichever older answers arrive in between, as long   *)
(* as no poll and no refresh of the page is lost.                          *)
CatchesUp == (page = "uploaded" /\ ShownRunning) ~> (lost \/ ~ShownRunning)

(* "Every marker reflects the deployment's actual current status": what is *)
(* shown as running comes to be shown as it ended.                         *)
MarkersAreCurrent == ShownRunning ~> (lost \/ ~ShownRunning)
=============================================================================
