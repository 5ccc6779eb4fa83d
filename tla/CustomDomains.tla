----------------------------- MODULE CustomDomains -----------------------------
(***************************************************************************)
(* A customer's own domain on an app: the dashboard writes the row and     *)
(* starts a task by name, the task (one run at a time) does every call to  *)
(* Vercel and reads DNS, a schedule starts the tasks nobody asked for.     *)
(*                                                                         *)
(* Rows of app_custom_domains, numbered in order of creation:              *)
(*   rows       how many there are; app[r] and name[r] are who and what    *)
(*   status     the status, "NONE" for a row that does not exist yet       *)
(*   www        include_www; suspect: problem_code = 'STOPPED_RESOLVING'   *)
(*   live       active_at is set; old: created more than 14 days ago       *)
(* deleted are the apps whose deletion has removed the Vercel project, and *)
(* gone those whose deletion has committed.                                *)
(* Outside: holder[n] is the app whose Vercel project has name n, NoApp,   *)
(* or Stranger for somebody else's project. What DNS, https and the TXT    *)
(* record of the proof say may change between two looks at them: each look *)
(* is a choice.                                                            *)
(* The running task: at (its step), row, and what it read of the row when  *)
(* it began (wasActive, hadWww, hadSuspect). Which runs are queued is not  *)
(* kept: a run reads everything when it begins, so one may begin whenever  *)
(* somebody can have asked for it, and the second attempt of a run that    *)
(* threw is a run like any other.                                          *)
(*                                                                         *)
(* Times are sets: a row is due for a new check whenever its status lets   *)
(* it be.                                                                  *)
(***************************************************************************)
EXTENDS Naturals, FiniteSets

CONSTANTS
  Apps, Names,
  Apexes,             \* the names that are the apex of their zone
  Www(_),             \* 'www.' || name
  Workspace(_),       \* the workspace of an app
  NoApp, Stranger,
  Foreign,            \* names a stranger's project has from the start
  MayWant,            \* the names an app may ask for
  MaxRows,            \* bound on the rows
  Ageing, Deletable,  \* the rows that may grow old, the apps that may be deleted
  MaxFaults           \* bound on calls that fail or whose answer is lost

VARIABLES rows, app, name, status, www, suspect, live, old, deleted, gone,
          holder,
          at, row, wasActive, hadWww, hadSuspect,
          pc, wants, faults,
          proven,    \* history: rows whose proof the task has seen
          failed     \* history: ACTIVE rows whose last check found them not reachable

table   == <<rows, app, name, status, www, suspect, live, old, deleted, gone>>
running == <<at, row, wasActive, hadWww, hadSuspect>>
web     == <<pc, wants>>
history == <<proven, failed>>
vars    == <<table, holder, running, web, faults, history>>

Ids     == 1..MaxRows
Reach   == {"away", "points", "secure"}

\* An apex is a registrable domain; its www is a name, and registers nothing.
ASSUME DomainAssumption ==
  /\ Apps # {} /\ Names # {}
  /\ \A n \in Apexes : Www(n) \in Names \ Apexes
  /\ Apexes \subseteq Names /\ Foreign \subseteq Names
  /\ {NoApp, Stranger} \cap Apps = {} /\ NoApp # Stranger
  /\ MayWant \in [Apps -> SUBSET Names]
  /\ MaxRows \in Nat \ {0} /\ MaxFaults \in Nat

-----------------------------------------------------------------------------

Statuses == {"NONE", "PENDING", "NEEDS_DNS", "SECURING", "ACTIVE", "FAILED",
             "REMOVING", "REMOVED"}

TaskSteps == {"idle", "prove", "add", "www", "attached", "check", "record",
              "remove", "removeWww", "removed", "fail"}
WebSteps  == {"idle", "insert", "trigger", "release"}

TypeOK ==
  /\ rows \in 0..MaxRows
  /\ app \in [Ids -> Apps] /\ name \in [Ids -> Names]
  /\ status \in [Ids -> Statuses]
  /\ \A flags \in {www, suspect, live, old, proven, failed} : flags \subseteq Ids
  /\ deleted \subseteq Apps /\ gone \subseteq deleted
  /\ holder \in [Names -> Apps \cup {NoApp, Stranger}]
  /\ at \in TaskSteps /\ row \in Ids
  /\ wasActive \in BOOLEAN /\ hadWww \in BOOLEAN /\ hadSuspect \in BOOLEAN
  /\ pc \in [Apps -> WebSteps]
  /\ wants \in [Apps -> [name : Names, row : Ids]]
  /\ faults \in 0..MaxFaults

anApp   == CHOOSE a \in Apps : TRUE
aName   == CHOOSE n \in Names : TRUE
Nothing == [name |-> aName, row |-> 1]

Init ==
  /\ rows = 0
  /\ app = [r \in Ids |-> anApp] /\ name = [r \in Ids |-> aName]
  /\ status = [r \in Ids |-> "NONE"]
  /\ www = {} /\ suspect = {} /\ live = {} /\ old = {}
  /\ deleted = {} /\ gone = {}
  /\ holder = [n \in Names |-> IF n \in Foreign THEN Stranger ELSE NoApp]
  /\ at = "idle" /\ row = 1
  /\ wasActive = FALSE /\ hadWww = FALSE /\ hadSuspect = FALSE
  /\ pc = [a \in Apps |-> "idle"]
  /\ wants = [a \in Apps |-> Nothing]
  /\ faults = 0 /\ proven = {} /\ failed = {}

-----------------------------------------------------------------------------
(* What the table says.                                                    *)

Rows == 1..rows

\* The rows the unique indexes and the queries of the dashboard look at.
Current == { r \in Rows : status[r] # "REMOVED" }

loadCurrentDomain(a) == { r \in Current : app[r] = a }

\* occupiedNames
occupiedNames(n, includeWww) == IF includeWww THEN {n, Www(n)} ELSE {n}

\* connectCustomDomain's query: the name itself, the www that comes with an
\* attached apex, or an app on the www of the name.
Taken(n) ==
  \E r \in Current : \/ name[r] = n
                     \/ r \in www /\ Www(name[r]) = n
                     \/ name[r] = Www(n)

Fault == faults < MaxFaults /\ faults' = faults + 1

-----------------------------------------------------------------------------
(* The dashboard; at most one connect of an app is in flight.              *)

Answer(a) == /\ pc' = [pc EXCEPT ![a] = "idle"]
             /\ wants' = [wants EXCEPT ![a] = Nothing]

\* connectCustomDomain up to the queries that refuse it.
AskConnect(a, n) ==
  /\ pc[a] = "idle" /\ a \notin gone /\ n \in MayWant[a]
  /\ loadCurrentDomain(a) = {}
  /\ ~Taken(n)
  /\ rows < MaxRows
  /\ pc' = [pc EXCEPT ![a] = "insert"]
  /\ wants' = [wants EXCEPT ![a].name = n]
  /\ UNCHANGED <<table, holder, running, faults, history>>

\* The INSERT, under app_custom_domains_one_per_app and _domain_unique.
UniqueIndexes(a, n) == \A r \in Current : app[r] # a /\ name[r] # n

InsertRow(a) ==
  LET r == rows + 1 IN
  /\ pc[a] = "insert" /\ UniqueIndexes(a, wants[a].name)
  /\ r \in Ids
  /\ rows' = r
  /\ app' = [app EXCEPT ![r] = a]
  /\ name' = [name EXCEPT ![r] = wants[a].name]
  /\ status' = [status EXCEPT ![r] = "PENDING"]
  /\ pc' = [pc EXCEPT ![a] = "trigger"]
  /\ wants' = [wants EXCEPT ![a] = [Nothing EXCEPT !.row = r]]
  /\ UNCHANGED <<www, suspect, live, old, deleted, gone, holder, running, faults, history>>

\* triggerCustomDomainTask answers.
Triggered(a) ==
  /\ pc[a] = "trigger"
  /\ Answer(a)
  /\ UNCHANGED <<table, holder, running, faults, history>>

\* It throws; Trigger.dev may have started the task all the same.
TriggerThrows(a) ==
  /\ pc[a] = "trigger" /\ Fault
  /\ pc' = [pc EXCEPT ![a] = "release"]
  /\ UNCHANGED <<table, holder, running, wants, history>>

\* connectCustomDomain's catch.
Release(a) ==
  /\ pc[a] = "release"
  /\ status' = [status EXCEPT ![wants[a].row] = "REMOVED"]
  /\ Answer(a)
  /\ UNCHANGED <<rows, app, name, www, suspect, live, old, deleted, gone, holder,
                 running, faults, history>>

\* The INSERT is refused (23505). A request that is killed leaves what one
\* leaves that was never made, or whose trigger answered.
Refused(a) ==
  /\ pc[a] = "insert" /\ ~UniqueIndexes(a, wants[a].name)
  /\ Answer(a)
  /\ UNCHANGED <<table, holder, running, faults, history>>

Connect(a) ==
  \/ \E n \in Names : AskConnect(a, n)
  \/ InsertRow(a) \/ Triggered(a) \/ TriggerThrows(a) \/ Release(a) \/ Refused(a)

\* The row whose buttons the app's page shows.
Shown(r) == r \in Current /\ app[r] \notin gone

\* removeCustomDomain: the row first, then the task, which may not start.
removeCustomDomain(r) ==
  /\ Shown(r)
  /\ status' = [status EXCEPT ![r] = "REMOVING"]
  /\ UNCHANGED <<rows, app, name, www, suspect, live, old, deleted, gone, holder, running, web,
                 faults, history>>

-----------------------------------------------------------------------------
(* The task.                                                               *)

\* What a run does with the row it read.
FirstStep(r) ==
  CASE status[r] = "REMOVING" -> IF app[r] \in gone THEN "removed" ELSE "remove"
    [] status[r] = "PENDING"  -> IF app[r] \in gone THEN "fail" ELSE "prove"
    [] OTHER                  -> IF app[r] \in gone THEN "fail" ELSE "check"

\* To the next step, and to the end of the run.
Goes(step) == at' = step /\ UNCHANGED <<row, web>>

Forget == /\ at' = "idle" /\ row' = 1
          /\ wasActive' = FALSE /\ hadWww' = FALSE /\ hadSuspect' = FALSE

Ends == Forget /\ UNCHANGED web

\* loadRow, and the branches of run: FAILED and REMOVED rows are left alone.
Begin(r) ==
  /\ at = "idle" /\ status[r] \notin {"NONE", "FAILED", "REMOVED"}
  /\ at' = FirstStep(r)
  /\ row' = r
  /\ wasActive' = (status[r] = "ACTIVE") /\ hadWww' = (r \in www) /\ hadSuspect' = (r \in suspect)
  /\ UNCHANGED <<table, holder, web, faults, history>>

\* checkCustomDomain: REMOVING and FAILED rows are only shown. What it
\* stamps on the row afterwards is nothing the model keeps.
checkCustomDomain(r) == Shown(r) /\ status[r] # "REMOVING" /\ Begin(r)

\* recheckCustomDomains.
\* (mutant) the schedule forgets removals.
DueButRemovals(r) == \/ status[r] \in {"PENDING", "NEEDS_DNS", "SECURING"} /\ r \notin old
                     \/ status[r] = "ACTIVE"

Due(r) == \/ status[r] \in {"PENDING", "NEEDS_DNS", "SECURING"} /\ r \notin old
          \/ status[r] \in {"ACTIVE", "REMOVING"}

Recheck(r) == Due(r) /\ Begin(r)

\* A call throws, or the run dies.
Throws ==
  /\ Forget
  /\ UNCHANGED <<table, holder, web, history>>

TaskThrows == at # "idle" /\ Fault /\ Throws

\* proofRequired: the name, or its www, was live in another workspace.
Related(m, n) == m = n \/ m = Www(n) \/ Www(m) = n

\* (mutant) the comparison of the workspaces the other way round.
ProofFromOwner(r) == \E p \in Rows : /\ status[p] = "REMOVED" /\ p \in live
                                     /\ Workspace(app[p]) = Workspace(app[r])
                                     /\ Related(name[p], name[r])

proofRequired(r) ==
  \E p \in Rows : /\ status[p] = "REMOVED" /\ p \in live
                  /\ Workspace(app[p]) # Workspace(app[r])
                  /\ Related(name[p], name[r])

\* ownershipProven; whether the TXT record is seen is a choice.
Prove ==
  /\ at = "prove"
  /\ \/ /\ ~proofRequired(row) /\ UNCHANGED proven
        /\ Goes("add") /\ UNCHANGED <<wasActive, hadWww, hadSuspect>>
     \/ /\ proofRequired(row) /\ proven' = proven \cup {row}
        /\ Goes("add") /\ UNCHANGED <<wasActive, hadWww, hadSuspect>>
     \/ /\ proofRequired(row) /\ UNCHANGED proven
        /\ Ends
  /\ UNCHANGED <<table, holder, faults, failed>>

\* ensureProjectDomain: the name is on the project, or can be added to it.
\* A call for a project that is gone throws.
CanHold(n) == holder[n] \in {NoApp, app[row]}

Ensure(n) == holder' = [holder EXCEPT ![n] = app[row]]

ProjectGone == at \in {"add", "www", "check"} /\ app[row] \in deleted /\ Throws /\ UNCHANGED faults

\* fail.
Fail ==
  /\ status' = IF status[row] \in {"REMOVING", "REMOVED"} THEN status
               ELSE [status EXCEPT ![row] = "FAILED"]
  /\ suspect' = IF status[row] \in {"REMOVING", "REMOVED"} THEN suspect ELSE suspect \ {row}
  /\ Ends
  /\ UNCHANGED <<rows, app, name, www, live, old, deleted, gone, holder, history>>

\* The name is somebody else's; it is rejected; or there is no project.
FailRun ==
  \/ at \in {"add", "check"} /\ app[row] \notin deleted /\ ~CanHold(name[row]) /\ Fail
     /\ UNCHANGED faults
  \/ at = "add" /\ app[row] \notin deleted /\ Fail /\ Fault
  \/ at = "fail" /\ Fail /\ UNCHANGED faults

\* attach: the name, then its www if it is an apex.
AddName ==
  /\ at = "add" /\ app[row] \notin deleted /\ CanHold(name[row])
  /\ Ensure(name[row])
  /\ Goes(IF name[row] \in Apexes THEN "www" ELSE "attached")
  /\ hadWww' = FALSE
  /\ UNCHANGED <<table, wasActive, hadSuspect, faults, history>>

\* A www that is taken elsewhere is no failure.
\* (mutant) include_www is recorded whatever ensureProjectDomain answered.
WwwAssumed(n) == TRUE

WwwAdded(n) == CanHold(n)

AddWww ==
  /\ at = "www" /\ app[row] \notin deleted
  /\ hadWww' = WwwAdded(Www(name[row]))
  /\ IF CanHold(Www(name[row])) THEN Ensure(Www(name[row])) ELSE UNCHANGED holder
  /\ Goes("attached")
  /\ UNCHANGED <<table, wasActive, hadSuspect, faults, history>>

\* UPDATE ... WHERE status = 'PENDING'; the check goes on whatever it did.
Attached ==
  /\ at = "attached"
  /\ IF status[row] = "PENDING"
     THEN /\ status' = [status EXCEPT ![row] = "NEEDS_DNS"]
          /\ www' = IF hadWww THEN www \cup {row} ELSE www \ {row}
          /\ suspect' = suspect \ {row}
     ELSE UNCHANGED <<status, www, suspect>>
  /\ wasActive' = FALSE
  /\ Goes("check")
  /\ UNCHANGED <<rows, app, name, live, old, deleted, gone, holder, hadWww, hadSuspect, faults, history>>

\* check: put the name back if it was taken off the project.
CheckName ==
  /\ at = "check" /\ app[row] \notin deleted /\ CanHold(name[row])
  /\ Ensure(name[row])
  /\ Goes("record")
  /\ UNCHANGED <<table, wasActive, hadWww, hadSuspect, faults, history>>

decideStatus(reach) ==
  CASE reach = "away" -> "NEEDS_DNS" [] reach = "points" -> "SECURING" [] reach = "secure" -> "ACTIVE"

\* A domain that was live and now is not must be seen failing twice.
OnlySuspect(new) == wasActive /\ new # "ACTIVE" /\ ~hadSuspect

\* STOPPED_RESOLVING stays on a second failure; every other outcome clears it.
\* (mutant) a good check leaves STOPPED_RESOLVING on the row.
SuspectForEver(new) == wasActive

StillSuspect(new) == wasActive /\ new = "NEEDS_DNS"

\* verify, config, DNS and the https request, and what is written of them.
Record ==
  /\ at = "record"
  /\ \E reach \in Reach : LET new == decideStatus(reach) IN
       /\ CASE OnlySuspect(new) /\ status[row] = "ACTIVE" ->
                 suspect' = suspect \cup {row} /\ UNCHANGED <<status, live>>
            [] ~OnlySuspect(new) /\ status[row] \notin {"REMOVING", "REMOVED", "FAILED"} ->
                 /\ status' = [status EXCEPT ![row] = new]
                 /\ suspect' = IF StillSuspect(new) THEN suspect \cup {row} ELSE suspect \ {row}
                 /\ live' = IF new = "ACTIVE" THEN live \cup {row} ELSE live
            [] OTHER -> UNCHANGED <<status, suspect, live>>
       /\ failed' = IF status'[row] = "ACTIVE" /\ new # "ACTIVE" THEN failed \cup {row}
                                                                 ELSE failed \ {row}
  /\ Ends
  /\ UNCHANGED <<rows, app, name, www, old, deleted, gone, holder, faults, proven>>

\* remove: www only if the row says Utplava added it.
TakeOff(n) == holder' = IF holder[n] = app[row] THEN [holder EXCEPT ![n] = NoApp] ELSE holder

RemoveName ==
  /\ at = "remove"
  /\ TakeOff(name[row])
  /\ Goes(IF hadWww THEN "removeWww" ELSE "removed")
  /\ UNCHANGED <<table, wasActive, hadWww, hadSuspect, faults, history>>

RemoveWww ==
  /\ at = "removeWww"
  /\ TakeOff(Www(name[row]))
  /\ Goes("removed")
  /\ UNCHANGED <<table, wasActive, hadWww, hadSuspect, faults, history>>

Removed ==
  /\ at = "removed"
  /\ status' = [status EXCEPT ![row] = "REMOVED"]
  /\ Ends
  /\ UNCHANGED <<rows, app, name, www, suspect, live, old, deleted, gone, holder, faults, history>>

TaskStep == \/ Prove \/ AddName \/ AddWww \/ Attached \/ CheckName \/ Record
            \/ RemoveName \/ RemoveWww \/ Removed \/ FailRun \/ ProjectGone

-----------------------------------------------------------------------------
(* recheckCustomDomains' release, the deletion of an app, and the world.   *)

\* The rows never finished within 14 days.
Unfinished(r) == status[r] \in {"PENDING", "NEEDS_DNS", "FAILED"} /\ r \notin live /\ r \in old

ReleaseUnfinished(r) ==
  /\ r \in Rows /\ Unfinished(r)
  /\ status' = [status EXCEPT ![r] = "REMOVING"]
  /\ suspect' = suspect \ {r}
  /\ UNCHANGED <<rows, app, name, www, live, old, deleted, gone, holder, running,
                 web, faults, history>>

\* deleteApp: Vercel's project, with its domains, then the transaction.
DeleteProject(a) ==
  /\ a \in Deletable \ deleted
  /\ deleted' = deleted \cup {a}
  /\ holder' = [n \in Names |-> IF holder[n] = a THEN NoApp ELSE holder[n]]
  /\ UNCHANGED <<rows, app, name, status, www, suspect, live, old, gone,
                 running, web, faults, history>>

CommitDeletion(a) ==
  /\ a \in deleted \ gone
  /\ gone' = gone \cup {a}
  /\ status' = [r \in Ids |-> IF r \in Rows /\ app[r] = a THEN "REMOVED" ELSE status[r]]
  /\ UNCHANGED <<rows, app, name, www, suspect, live, old, deleted, holder, running, web,
                 faults, history>>

GrowsOld(r) ==
  /\ r \in (Ageing \cap Current) \ old
  /\ old' = old \cup {r}
  /\ UNCHANGED <<rows, app, name, status, www, suspect, live, deleted, gone, holder,
                 running, web, faults, history>>

\* Somebody takes a name off the project at Vercel, by hand: an apex only,
\* for nobody ever puts a www back.
TakenOff(r) ==
  /\ r \in Rows /\ name[r] \in Apexes /\ holder[name[r]] = app[r] /\ Fault
  /\ holder' = [holder EXCEPT ![name[r]] = NoApp]
  /\ UNCHANGED <<table, running, web, history>>

Next ==
  \/ \E a \in Apps : Connect(a)
  \/ \E r \in Ids : checkCustomDomain(r) \/ removeCustomDomain(r)
  \/ TaskStep \/ TaskThrows
  \/ \E r \in Ids : Recheck(r) \/ ReleaseUnfinished(r) \/ GrowsOld(r) \/ TakenOff(r)
  \/ \E a \in Apps : DeleteProject(a) \/ CommitDeletion(a)

\* A run that has begun goes on, and the schedule does not pass over a row
\* for ever; nothing is promised of the customer, of DNS or of a web request.
Fairness ==
  /\ WF_vars(TaskStep)
  /\ \A r \in Ids : SF_vars(Recheck(r))

Spec == Init /\ [][Next]_vars /\ Fairness

-----------------------------------------------------------------------------
(* Properties.                                                             *)

\* The attached rows of the apps that still have a project at Vercel.
Serving == { r \in Rows : /\ status[r] \in {"NEEDS_DNS", "SECURING", "ACTIVE"}
                          /\ app[r] \notin deleted }

\* Two apps never get as far as sharing a name, the www of an apex counted,
\* although neither index knows about www and the query that does runs
\* before the INSERT and before www is recorded (customer-custom-domain.mjs:
\* "so two apps can't end up sharing one").
NoSharedName ==
  \A r, s \in Serving :
    r # s => occupiedNames(name[r], r \in www) \cap occupiedNames(name[s], s \in www) = {}

\* A name that was live in one workspace is attached in another one only
\* after its owner has shown the proof ("so nobody can pick up a domain
\* someone else forgot to unpoint").
ProofBeforeReuse ==
  \A r \in Serving, p \in live :
    (p < r /\ name[p] = name[r] /\ Workspace(app[p]) # Workspace(app[r])) => r \in proven

\* A live domain stops being one only when two checks in a row found it
\* unreachable ("a DNS blip shouldn't flip the app's main link back").
DemotedAfterTwoInARow ==
  [][\A r \in Rows : (status[r] = "ACTIVE" /\ status'[r] \in {"NEEDS_DNS", "SECURING"})
                        => r \in failed]_vars

\* Whatever failed on the way, a removal the customer asked for is finished
\* by the schedule: again and again there is no row left in REMOVING.
RemovalFinishes == []<>(\A r \in Ids : status[r] # "REMOVING")

\* "Utplava keeps checking, so you can close this page"
\* (custom-domain-card.js): a domain that stopped resolving is looked at
\* again, so that it can become live again.
KeepsChecking ==
  \A r \in Ids :
    (status[r] = "NEEDS_DNS" /\ r \in live)
      ~> (row = r /\ at = "record") \/ status[r] # "NEEDS_DNS"

=============================================================================
