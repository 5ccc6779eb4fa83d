-------------------------- MODULE CustomDomainsProofs --------------------------
(***************************************************************************)
(* Proofs, for any apps, names and rows, that two apps never share a name, *)
(* that a name that was live in one workspace is attached in another only  *)
(* after the proof, and that a live domain stops being one only after two  *)
(* failed checks in a row.                                                 *)
(*                                                                         *)
(* No index knows of the www that comes with an apex: what keeps two apps  *)
(* apart is that a name is on one project at a time. So the invariant says *)
(* which names an attached row has on its app's project (NamesHeld), and   *)
(* what the running task has put there already (TaskHolds). A task may     *)
(* take names off its app's project: no other row of that app is attached  *)
(* (TaskAlone). Rows of one name follow each other: the older one is       *)
(* REMOVED for good (OlderRemoved), so what the proof looked for cannot    *)
(* appear after it looked.                                                 *)
(***************************************************************************)
EXTENDS CustomDomains, TLAPS

Up(r) == status[r] \in {"NEEDS_DNS", "SECURING", "ACTIVE"}

RowsOnly ==
  /\ \A r \in Ids : r \notin Rows => status[r] = "NONE"
  /\ \A r \in Rows : status[r] # "NONE"
  /\ \A a \in Apps : pc[a] \in {"trigger", "release"} => wants[a].row \in Rows

OneCurrentRow == \A r, s \in Current : r # s => app[r] # app[s]

OlderRemoved == \A p, r \in Rows : p < r /\ name[p] = name[r] => status[p] = "REMOVED"

\* What the row of the running task can have become meanwhile.
TaskRow ==
  at # "idle" =>
    /\ row \in Rows
    /\ at \in {"prove", "add", "www", "attached"} => status[row] \in {"PENDING", "REMOVING", "REMOVED"}
    /\ at \in {"check", "record"} => Up(row) \/ status[row] \in {"REMOVING", "REMOVED"}
    /\ at \in {"remove", "removeWww", "removed"} => status[row] \in {"REMOVING", "REMOVED"}

TaskAlone == at # "idle" => \A r \in Rows \ {row} : Up(r) => app[r] # app[row]

HasName(r) == name[r] \notin Apexes => holder[name[r]] = app[r]
HasWww(r)  == name[r] \in Apexes /\ holder[Www(name[r])] = app[r]

NamesHeld ==
  \A r \in Rows : Up(r) /\ app[r] \notin deleted => HasName(r) /\ (r \in www => HasWww(r))

TaskHolds ==
  /\ at = "www" => name[row] \in Apexes
  /\ at \in {"www", "attached"} /\ app[row] \notin deleted => HasName(row)
  /\ at = "attached" /\ hadWww /\ app[row] \notin deleted => HasWww(row)

\* Nobody of another workspace had the name live before, or the proof was seen.
Cleared(r) ==
  \A p \in live : (p < r /\ name[p] = name[r] /\ Workspace(app[p]) # Workspace(app[r])) => r \in proven

AllCleared ==
  /\ \A r \in Rows : Up(r) => Cleared(r)
  /\ at \in {"add", "www", "attached"} => Cleared(row)

\* STOPPED_RESOLVING on a live domain means its last check failed.
SuspectFailed ==
  /\ \A r \in suspect : status[r] = "ACTIVE" => r \in failed
  /\ at \in {"check", "record"} /\ status[row] = "ACTIVE" =>
       wasActive /\ (hadSuspect => row \in failed)

IInv ==
  /\ TypeOK /\ RowsOnly /\ OneCurrentRow /\ OlderRemoved
  /\ TaskRow /\ TaskAlone /\ NamesHeld /\ TaskHolds
  /\ AllCleared /\ SuspectFailed

\* Row 1 stands for no row.
LEMMA NoRowTyped == 1 \in Ids /\ 0 \in 0..MaxRows /\ 0 \in 0..MaxFaults
  BY DomainAssumption DEF Ids

LEMMA InitIInv == Init => IInv
<1> SUFFICES ASSUME Init PROVE IInv
  OBVIOUS
<1>1. anApp \in Apps /\ aName \in Names
  BY DomainAssumption DEF anApp, aName
<1>2. /\ Rows = {} /\ at = "idle" /\ \A a \in Apps : pc[a] = "idle"
      /\ \A r \in Ids : status[r] = "NONE"
      /\ suspect = {}
  BY DEF Init, Rows
<1>3. TypeOK
  <2>1. /\ rows \in 0..MaxRows
        /\ app \in [Ids -> Apps] /\ name \in [Ids -> Names]
        /\ status \in [Ids -> Statuses]
    BY <1>1, NoRowTyped DEF Init, Statuses
  <2>2. /\ \A flags \in {www, suspect, live, old, proven, failed} : flags \subseteq Ids
        /\ deleted \subseteq Apps /\ gone \subseteq deleted
        /\ holder \in [Names -> Apps \cup {NoApp, Stranger}]
    BY DEF Init
  <2>3. /\ at \in TaskSteps /\ row \in Ids
        /\ wasActive \in BOOLEAN /\ hadWww \in BOOLEAN /\ hadSuspect \in BOOLEAN
        /\ faults \in 0..MaxFaults
    BY NoRowTyped DEF Init, TaskSteps
  <2>4. pc \in [Apps -> WebSteps] /\ wants \in [Apps -> [name : Names, row : Ids]]
    BY <1>1, NoRowTyped DEF Init, WebSteps, Nothing
  <2> QED
    BY <2>1, <2>2, <2>3, <2>4 DEF TypeOK
<1>4. RowsOnly /\ OneCurrentRow /\ OlderRemoved
  BY <1>2 DEF RowsOnly, OneCurrentRow, Current, OlderRemoved
<1>5. TaskRow /\ TaskAlone /\ NamesHeld /\ TaskHolds
  BY <1>2 DEF TaskRow, TaskAlone, NamesHeld, TaskHolds
<1>6. AllCleared /\ SuspectFailed
  BY <1>2 DEF AllCleared, SuspectFailed
<1> QED
  BY <1>3, <1>4, <1>5, <1>6 DEF IInv

-----------------------------------------------------------------------------
(* Steps that attach nothing: rows are given up, names taken off a project *)
(* by hand or with it, a request or the run of the task ends.              *)

LEMMA GivesUpKeeps ==
  ASSUME IInv,
         UNCHANGED <<rows, app, name, www, live, proven, failed>>,
         status' \in [Ids -> Statuses],
         \A r \in Ids : \/ status'[r] = status[r]
                        \/ /\ r \in Rows /\ status[r] # "REMOVED"
                           /\ status'[r] \in {"REMOVING", "REMOVED", "FAILED"},
         suspect' \subseteq suspect, old' \subseteq Ids,
         deleted \subseteq deleted', deleted' \subseteq Apps, gone' \subseteq deleted',
         pc' \in [Apps -> WebSteps], wants' \in [Apps -> [name : Names, row : Ids]],
         faults' \in 0..MaxFaults,
         \A a \in Apps : pc'[a] \in {"trigger", "release"} =>
           pc[a] \in {"trigger", "release"} /\ wants'[a] = wants[a],
         holder' \in [Names -> Apps \cup {NoApp, Stranger}],
         \A n \in Names \ Apexes : holder'[n] # holder[n] => holder[n] \in deleted',
         \/ Forget
         \/ UNCHANGED running /\ status'[row] \in {status[row], "REMOVING", "REMOVED"}
  PROVE  IInv'
<1>0. /\ TypeOK /\ RowsOnly /\ OneCurrentRow /\ OlderRemoved /\ TaskRow /\ TaskAlone
      /\ NamesHeld /\ TaskHolds /\ AllCleared /\ SuspectFailed
  BY DEF IInv
<1>1. /\ Rows' = Rows /\ Rows \subseteq Ids /\ \A r \in Rows : name[r] \in Names /\ app[r] \in Apps
      /\ Current' \subseteq Current
  <2>1. Rows' = Rows /\ Rows \subseteq Ids
    BY <1>0, DomainAssumption DEF Rows, TypeOK, Ids
  <2>2. \A r \in Rows : name[r] \in Names /\ app[r] \in Apps
    BY <1>0, <2>1 DEF TypeOK
  <2> QED
    BY <2>1, <2>2 DEF Current
<1>2. \A r \in Ids : Up(r)' => Up(r) /\ status'[r] = status[r]
  BY DEF Up
<1>3. at' = "idle" \/ UNCHANGED <<at, row, wasActive, hadWww, hadSuspect>>
  BY DEF Forget, running
<1>4. TypeOK'
  <2>1. /\ at' \in TaskSteps /\ row' \in Ids
        /\ wasActive' \in BOOLEAN /\ hadWww' \in BOOLEAN /\ hadSuspect' \in BOOLEAN
    <3>1. CASE Forget
      BY <3>1, NoRowTyped DEF Forget, TaskSteps
    <3>2. CASE UNCHANGED running
      BY <1>0, <3>2 DEF running, TypeOK
    <3> QED
      BY <3>1, <3>2
  <2>2. suspect' \subseteq Ids
    BY <1>0 DEF TypeOK
  <2> QED
    BY <1>0, <2>1, <2>2 DEF TypeOK
<1>5. RowsOnly'
  <2>1. \A r \in Ids : r \notin Rows => status'[r] = "NONE"
    BY <1>0, <1>1 DEF RowsOnly
  <2>2. \A r \in Rows : status'[r] # "NONE"
    BY <1>0, <1>1 DEF RowsOnly
  <2> QED
    BY <1>0, <1>1, <2>1, <2>2 DEF RowsOnly
<1>6. OneCurrentRow' /\ OlderRemoved'
  BY <1>0, <1>1 DEF OneCurrentRow, OlderRemoved
<1>7. TaskRow'
  BY <1>0, <1>1, <1>3 DEF TaskRow, Forget, Up
<1>8. TaskAlone'
  BY <1>0, <1>1, <1>2, <1>3 DEF TaskAlone
<1>9. \A r \in Rows : app[r] \notin deleted' =>
        /\ HasName(r) => HasName(r)'
        /\ HasWww(r) => HasWww(r)'
  <2> SUFFICES ASSUME NEW r \in Rows, app[r] \notin deleted'
               PROVE  (HasName(r) => HasName(r)') /\ (HasWww(r) => HasWww(r)')
    OBVIOUS
  <2>1. name[r] \in Names /\ name' = name /\ app' = app
    BY <1>1
  <2>2. HasName(r) => HasName(r)'
    BY <2>1 DEF HasName
  <2>3. HasWww(r) => HasWww(r)'
    BY <2>1, DomainAssumption DEF HasWww
  <2> QED
    BY <2>2, <2>3
<1>10. NamesHeld'
  BY <1>0, <1>1, <1>2, <1>9 DEF NamesHeld
<1>11. TaskHolds'
  <2>1. CASE at' = "idle"
    BY <2>1 DEF TaskHolds
  <2>2. CASE at # "idle" /\ UNCHANGED <<at, row, wasActive, hadWww, hadSuspect>>
    <3>1. row \in Rows
      BY <1>0, <2>2 DEF TaskRow
    <3>2. HasName(row)' = (name[row] \notin Apexes => holder'[name[row]] = app[row])
      BY <2>2 DEF HasName
    <3>3. HasWww(row)' = (name[row] \in Apexes /\ holder'[Www(name[row])] = app[row])
      BY <2>2 DEF HasWww
    <3>4. app[row] \notin deleted' => (HasName(row) => HasName(row)') /\ (HasWww(row) => HasWww(row)')
      <4>1. PICK r \in Rows : r = row
        BY <3>1
      <4>2. app[r] \notin deleted' => (HasName(r) => HasName(r)') /\ (HasWww(r) => HasWww(r)')
        BY <1>9
      <4> QED
        BY <3>2, <3>3, <4>1, <4>2 DEF HasName, HasWww
    <3> QED
      BY <1>0, <2>2, <3>4 DEF TaskHolds
  <2> QED
    BY <1>3, <2>1, <2>2
<1>12. AllCleared'
  <2>1. \A r : Cleared(r)' = Cleared(r)
    BY DEF Cleared
  <2>2. row' = row => Cleared(row)' = Cleared(row)
    BY DEF Cleared
  <2> QED
    BY <1>0, <1>1, <1>2, <1>3, <2>1, <2>2 DEF AllCleared
<1>13. SuspectFailed'
  <2>1. \A r \in suspect' : status'[r] = "ACTIVE" => status[r] = "ACTIVE" /\ r \in suspect
    BY <1>0 DEF TypeOK
  <2>2. row \in Ids
    BY <1>0 DEF TypeOK
  <2> QED
    BY <1>0, <1>3, <2>1, <2>2 DEF SuspectFailed
<1> QED
  BY <1>4, <1>5, <1>6, <1>7, <1>8, <1>10, <1>11, <1>12, <1>13 DEF IInv

\* The web requests, but for the INSERT.
LEMMA RequestKeeps ==
  ASSUME IInv, NEW a \in Apps,
         \/ \E n \in Names : AskConnect(a, n)
         \/ Triggered(a) \/ TriggerThrows(a) \/ Release(a) \/ Refused(a)
  PROVE  IInv'
<1>1. /\ status \in [Ids -> Statuses] /\ suspect \subseteq Ids /\ old \subseteq Ids
      /\ deleted \subseteq Apps /\ gone \subseteq deleted
      /\ pc \in [Apps -> WebSteps] /\ wants \in [Apps -> [name : Names, row : Ids]]
      /\ holder \in [Names -> Apps \cup {NoApp, Stranger}] /\ faults \in 0..MaxFaults
  BY DEF IInv, TypeOK
<1>2. /\ UNCHANGED <<rows, app, name, www, suspect, live, old, deleted, gone, holder, running, history>>
      /\ UNCHANGED status \/ Release(a)
  BY DEF AskConnect, Triggered, TriggerThrows, Release, Refused, table
<1>3. /\ pc' \in [Apps -> WebSteps] /\ wants' \in [Apps -> [name : Names, row : Ids]]
      /\ \A b \in Apps : pc'[b] \in {"trigger", "release"} =>
           pc[b] \in {"trigger", "release"} /\ wants'[b] = wants[b]
  <2>1. CASE \E n \in Names : AskConnect(a, n)
    BY <1>1, <2>1 DEF AskConnect, WebSteps
  <2>2. CASE Triggered(a) \/ Release(a) \/ Refused(a)
    <3>1. Nothing \in [name : Names, row : Ids]
      BY NoRowTyped, DomainAssumption DEF Nothing, aName
    <3>2. pc' = [pc EXCEPT ![a] = "idle"] /\ wants' = [wants EXCEPT ![a] = Nothing]
      BY <2>2 DEF Triggered, Release, Refused, Answer
    <3> QED
      BY <1>1, <3>1, <3>2 DEF WebSteps
  <2>3. CASE TriggerThrows(a)
    BY <1>1, <2>3 DEF TriggerThrows, WebSteps
  <2> QED
    BY <2>1, <2>2, <2>3
<1>4. /\ status' \in [Ids -> Statuses]
      /\ \A r \in Ids : \/ status'[r] = status[r]
                        \/ /\ r \in Rows /\ status[r] # "REMOVED" /\ status'[r] = "REMOVED"
  <2>1. CASE UNCHANGED status
    BY <1>1, <2>1
  <2>2. CASE Release(a)
    <3>1. wants[a].row \in Rows /\ status' = [status EXCEPT ![wants[a].row] = "REMOVED"]
      BY <2>2 DEF IInv, RowsOnly, Release
    <3> QED
      BY <1>1, <3>1 DEF Statuses
  <2> QED
    BY <1>2, <2>1, <2>2
<1>5. faults' \in 0..MaxFaults
  BY <1>1, DomainAssumption
     DEF AskConnect, Triggered, TriggerThrows, Release, Refused, Fault
<1>6. status'[row] \in {status[row], "REMOVING", "REMOVED"}
  BY <1>4 DEF IInv, TypeOK
<1> QED
  BY <1>1, <1>2, <1>3, <1>4, <1>5, <1>6, GivesUpKeeps DEF history

\* What happens to rows and names outside a run of the task.
LEMMA OutsideKeeps ==
  ASSUME IInv,
         \/ \E r \in Ids : removeCustomDomain(r) \/ ReleaseUnfinished(r) \/ GrowsOld(r) \/ TakenOff(r)
         \/ \E a \in Apps : DeleteProject(a) \/ CommitDeletion(a)
  PROVE  IInv'
<1>1. /\ status \in [Ids -> Statuses] /\ suspect \subseteq Ids /\ old \subseteq Ids
      /\ deleted \subseteq Apps /\ gone \subseteq deleted
      /\ pc \in [Apps -> WebSteps] /\ wants \in [Apps -> [name : Names, row : Ids]]
      /\ holder \in [Names -> Apps \cup {NoApp, Stranger}] /\ faults \in 0..MaxFaults
      /\ row \in Ids /\ name \in [Ids -> Names] /\ Rows \subseteq Ids
  BY DomainAssumption DEF IInv, TypeOK, Rows, Ids
<1>2. /\ UNCHANGED <<rows, app, name, www, live, proven, failed, pc, wants>> /\ UNCHANGED running
      /\ suspect' \subseteq suspect /\ old' \subseteq Ids
  BY <1>1 DEF removeCustomDomain, ReleaseUnfinished, GrowsOld, TakenOff, DeleteProject,
              CommitDeletion, web, history, table
<1>3. /\ deleted \subseteq deleted' /\ deleted' \subseteq Apps /\ gone' \subseteq deleted'
      /\ faults' \in 0..MaxFaults
  BY <1>1, DomainAssumption
     DEF removeCustomDomain, ReleaseUnfinished, GrowsOld, TakenOff, DeleteProject,
         CommitDeletion, table, Fault
<1>4. /\ status' \in [Ids -> Statuses]
      /\ \A r \in Ids : \/ status'[r] = status[r]
                        \/ /\ r \in Rows /\ status[r] # "REMOVED"
                           /\ status'[r] \in {"REMOVING", "REMOVED"}
  <2>1. \/ status' = status
        \/ \E r \in Current : status' = [status EXCEPT ![r] = "REMOVING"]
        \/ \E a \in Apps : status' = [r \in Ids |-> IF r \in Rows /\ app[r] = a THEN "REMOVED"
                                                                              ELSE status[r]]
    BY DEF removeCustomDomain, ReleaseUnfinished, GrowsOld, TakenOff, DeleteProject,
           CommitDeletion, table, Shown, Current, Unfinished
  <2>2. CASE status' = status
    BY <1>1, <2>2
  <2>3. CASE \E r \in Current : status' = [status EXCEPT ![r] = "REMOVING"]
    BY <1>1, <2>3 DEF Current, Statuses
  <2>4. CASE \E a \in Apps : status' = [r \in Ids |-> IF r \in Rows /\ app[r] = a THEN "REMOVED"
                                                                                ELSE status[r]]
    BY <1>1, <2>4 DEF Statuses
  <2> QED
    BY <2>1, <2>2, <2>3, <2>4
<1>5. /\ holder' \in [Names -> Apps \cup {NoApp, Stranger}]
      /\ \A n \in Names \ Apexes : holder'[n] # holder[n] => holder[n] \in deleted'
  <2>1. CASE holder' = holder
    BY <1>1, <2>1
  <2>2. CASE \E r \in Ids : TakenOff(r)
    BY <1>1, <2>2 DEF TakenOff
  <2>3. CASE \E a \in Apps : DeleteProject(a)
    BY <1>1, <2>3 DEF DeleteProject
  <2>4. \/ holder' = holder
        \/ \E r \in Ids : TakenOff(r)
        \/ \E a \in Apps : DeleteProject(a)
    BY DEF removeCustomDomain, ReleaseUnfinished, GrowsOld, CommitDeletion
  <2> QED
    BY <2>1, <2>2, <2>3, <2>4
<1> QED
  BY <1>1, <1>2, <1>3, <1>4, <1>5, GivesUpKeeps

\* A run that ends: it failed, was killed, or has nothing left to do.
LEMMA EndingKeeps ==
  ASSUME IInv,
         \/ TaskThrows \/ ProjectGone \/ FailRun \/ Removed
         \/ Prove /\ UNCHANGED proven /\ Ends
  PROVE  IInv'
<1>1. /\ status \in [Ids -> Statuses] /\ suspect \subseteq Ids /\ old \subseteq Ids
      /\ deleted \subseteq Apps /\ gone \subseteq deleted
      /\ pc \in [Apps -> WebSteps] /\ wants \in [Apps -> [name : Names, row : Ids]]
      /\ holder \in [Names -> Apps \cup {NoApp, Stranger}] /\ faults \in 0..MaxFaults
      /\ row \in Ids
  BY DEF IInv, TypeOK
<1>2. Forget /\ at # "idle"
  BY DEF TaskThrows, ProjectGone, Throws, FailRun, Fail, Removed, Ends, Prove
<1>3. row \in Rows /\ (at = "removed" => status[row] \in {"REMOVING", "REMOVED"})
  BY <1>2 DEF IInv, TaskRow
<1>4. /\ UNCHANGED <<rows, app, name, www, live, old, deleted, gone, holder, proven, failed, pc, wants>>
      /\ suspect' \subseteq suspect
  BY DEF TaskThrows, ProjectGone, Throws, FailRun, Fail, Removed, Ends, Prove, table, web, history
<1>5. faults' \in 0..MaxFaults
  BY <1>1, DomainAssumption DEF TaskThrows, ProjectGone, Throws, FailRun, Fail, Removed, Prove, Fault
<1>6. /\ status' \in [Ids -> Statuses]
      /\ \A r \in Ids : \/ status'[r] = status[r]
                        \/ /\ r \in Rows /\ status[r] # "REMOVED"
                           /\ status'[r] \in {"REMOVING", "REMOVED", "FAILED"}
  <2>1. CASE status' = status
    BY <1>1, <2>1
  <2>2. CASE FailRun
    <3>1. \/ status' = status
          \/ status[row] # "REMOVED" /\ status' = [status EXCEPT ![row] = "FAILED"]
      BY <2>2 DEF FailRun, Fail
    <3> QED
      BY <1>1, <1>3, <3>1 DEF Statuses
  <2>3. CASE Removed
    BY <1>1, <1>3, <2>3 DEF Removed, Statuses
  <2>4. status' = status \/ FailRun \/ Removed
    BY DEF TaskThrows, ProjectGone, Throws, Prove, table
  <2> QED
    BY <2>1, <2>2, <2>3, <2>4
<1> QED
  BY <1>1, <1>2, <1>4, <1>5, <1>6, GivesUpKeeps

-----------------------------------------------------------------------------
(* The INSERT of a row.                                                    *)

LEMMA InsertRowKeeps ==
  ASSUME IInv, NEW a \in Apps, InsertRow(a)
  PROVE  IInv'
<1>0. /\ TypeOK /\ RowsOnly /\ OneCurrentRow /\ OlderRemoved /\ TaskRow /\ TaskAlone
      /\ NamesHeld /\ TaskHolds /\ AllCleared /\ SuspectFailed
  BY DEF IInv
<1>1. PICK new \in Ids : new = rows + 1
  BY DEF InsertRow
<1>2. PICK n \in Names : n = wants[a].name
  BY <1>0 DEF TypeOK
<1>3. /\ UniqueIndexes(a, n) /\ rows' = new
      /\ app' = [app EXCEPT ![new] = a] /\ name' = [name EXCEPT ![new] = n]
      /\ status' = [status EXCEPT ![new] = "PENDING"]
      /\ pc' = [pc EXCEPT ![a] = "trigger"]
      /\ wants' = [wants EXCEPT ![a] = [Nothing EXCEPT !.row = new]]
      /\ UNCHANGED <<www, suspect, live, old, deleted, gone, holder, running, faults, history>>
  BY <1>1, <1>2 DEF InsertRow
<1>4. /\ app \in [Ids -> Apps] /\ name \in [Ids -> Names] /\ status \in [Ids -> Statuses]
      /\ pc \in [Apps -> WebSteps] /\ wants \in [Apps -> [name : Names, row : Ids]]
      /\ rows \in 0..MaxRows /\ live \subseteq Ids /\ suspect \subseteq Ids
  BY <1>0 DEF TypeOK
<1>5. /\ new \notin Rows /\ Rows' = Rows \cup {new} /\ Rows' \subseteq Ids
      /\ \A r \in Rows : r < new /\ r \in Ids
  BY <1>1, <1>3, <1>4, DomainAssumption DEF Rows, Ids
<1>6. /\ app' \in [Ids -> Apps] /\ name' \in [Ids -> Names] /\ status' \in [Ids -> Statuses]
      /\ app'[new] = a /\ name'[new] = n /\ status'[new] = "PENDING"
      /\ \A r \in Ids \ {new} : app'[r] = app[r] /\ name'[r] = name[r] /\ status'[r] = status[r]
  BY <1>3, <1>4 DEF Statuses
<1>7. /\ pc' \in [Apps -> WebSteps] /\ wants' \in [Apps -> [name : Names, row : Ids]]
      /\ wants'[a].row = new
      /\ \A b \in Apps \ {a} : pc'[b] = pc[b] /\ wants'[b] = wants[b]
  <2>1. aName \in Names
    BY DomainAssumption DEF aName
  <2>2. [Nothing EXCEPT !.row = new] = [name |-> aName, row |-> new]
    BY DEF Nothing
  <2> QED
    BY <1>3, <1>4, <2>1, <2>2 DEF WebSteps
<1>8. TypeOK'
  <2>1. rows' \in 0..MaxRows /\ faults' \in 0..MaxFaults
    BY <1>0, <1>1, <1>3, DomainAssumption DEF TypeOK, Ids
  <2>2. UNCHANGED <<www, suspect, live, old, proven, failed, deleted, gone, holder,
                    at, row, wasActive, hadWww, hadSuspect>>
    BY <1>3 DEF running, history
  <2> QED
    BY <1>0, <1>6, <1>7, <2>1, <2>2 DEF TypeOK
<1>9. RowsOnly'
  <2>1. \A r \in Ids : r \notin Rows' => status'[r] = "NONE"
    BY <1>0, <1>5, <1>6 DEF RowsOnly
  <2>2. \A r \in Rows' : status'[r] # "NONE"
    BY <1>0, <1>5, <1>6 DEF RowsOnly
  <2>3. \A b \in Apps : pc'[b] \in {"trigger", "release"} => wants'[b].row \in Rows'
    BY <1>0, <1>5, <1>7 DEF RowsOnly
  <2> QED
    BY <2>1, <2>2, <2>3 DEF RowsOnly
<1>10. \A r \in Rows : r \in Ids \ {new}
  BY <1>5
<1>11. Current' = Current \cup {new}
  BY <1>5, <1>6, <1>10 DEF Current
<1>12. OneCurrentRow'
  <2>1. \A r \in Current : r \in Ids \ {new} /\ app[r] # a
    BY <1>3, <1>10 DEF UniqueIndexes, Current
  <2> QED
    BY <1>0, <1>6, <1>11, <2>1 DEF OneCurrentRow
<1>13. OlderRemoved'
  <2>1. \A r \in Rows : name[r] = n => status[r] = "REMOVED"
    BY <1>3 DEF UniqueIndexes, Current
  <2>2. ~(new < new) /\ \A r \in Rows : ~(new < r)
    BY <1>5, DomainAssumption DEF Ids
  <2> SUFFICES ASSUME NEW p \in Rows', NEW r \in Rows', p < r, name'[p] = name'[r]
               PROVE  status'[p] = "REMOVED"
    BY DEF OlderRemoved
  <2>3. p \in Rows /\ name'[p] = name[p] /\ status'[p] = status[p]
    <3>1. p # new
      BY <1>5, <2>2
    <3>2. p \in Rows /\ p \in Ids \ {new}
      BY <1>5, <3>1
    <3> QED
      BY <1>6, <3>2
  <2>4. CASE r = new
    BY <1>6, <2>1, <2>3, <2>4
  <2>5. CASE r # new
    BY <1>0, <1>5, <1>6, <1>10, <2>3, <2>5 DEF OlderRemoved
  <2> QED
    BY <2>4, <2>5
<1>14. \A r \in Rows' : Up(r)' => r \in Rows /\ r \in Ids \ {new} /\ Up(r)
  BY <1>5, <1>6, <1>10 DEF Up
<1>15. UNCHANGED <<at, row, wasActive, hadWww, hadSuspect, proven, failed>>
  BY <1>3 DEF running, history
<1>16. at # "idle" => row \in Rows /\ row \in Ids \ {new}
  BY <1>0, <1>10 DEF TaskRow
<1>17. TaskRow' /\ TaskAlone'
  <2>1. TaskRow'
    BY <1>0, <1>5, <1>6, <1>15, <1>16 DEF TaskRow, Up
  <2>2. TaskAlone'
    BY <1>0, <1>5, <1>6, <1>14, <1>15, <1>16 DEF TaskAlone
  <2> QED
    BY <2>1, <2>2
<1>18. NamesHeld'
  BY <1>0, <1>3, <1>6, <1>14 DEF NamesHeld, HasName, HasWww
<1>19. TaskHolds'
  <2>1. CASE at = "idle"
    BY <1>15, <2>1 DEF TaskHolds
  <2>2. CASE at # "idle"
    <3>1. app'[row] = app[row] /\ name'[row] = name[row]
      BY <1>6, <1>16, <2>2
    <3> QED
      BY <1>0, <1>3, <1>15, <3>1 DEF TaskHolds, HasName, HasWww
  <2> QED
    BY <2>1, <2>2
<1>20. \A r \in Rows : Cleared(r) => Cleared(r)'
  <2>1. \A r \in Rows, p \in live : p < r => p \in Ids \ {new}
    <3>1. ~(new < new) /\ \A r \in Rows : ~(new < r)
      BY <1>5, DomainAssumption DEF Ids
    <3> QED
      BY <1>4, <3>1
  <2> QED
    BY <1>3, <1>6, <1>10, <1>15, <2>1 DEF Cleared
<1>21. AllCleared'
  <2>1. at # "idle" /\ Cleared(row) => Cleared(row)'
    <3>1. SUFFICES ASSUME at # "idle", Cleared(row) PROVE Cleared(row)'
      OBVIOUS
    <3>2. PICK r \in Rows : r = row /\ r = row'
      BY <1>15, <1>16, <3>1
    <3>3. Cleared(r)'
      BY <1>20, <3>1, <3>2
    <3> QED
      BY <3>2, <3>3 DEF Cleared
  <2> QED
    BY <1>0, <1>14, <1>15, <1>20, <2>1 DEF AllCleared
<1>22. SuspectFailed'
  <2>1. \A r \in suspect : status'[r] = "ACTIVE" => status[r] = "ACTIVE"
    BY <1>4, <1>6
  <2>2. at # "idle" => status'[row] = status[row]
    BY <1>6, <1>16
  <2> QED
    BY <1>0, <1>3, <1>15, <2>1, <2>2 DEF SuspectFailed
<1> QED
  BY <1>8, <1>9, <1>12, <1>13, <1>17, <1>18, <1>19, <1>21, <1>22 DEF IInv

-----------------------------------------------------------------------------
(* The running task, up to what it writes of its row.                      *)

\* What no step of the task but Attached, Record, Removed and Fail changes.
LEMMA TableKept ==
  ASSUME IInv, UNCHANGED <<table, web, failed>>
  PROVE  /\ RowsOnly' /\ OneCurrentRow' /\ OlderRemoved'
         /\ Rows' = Rows /\ Rows \subseteq Ids
         /\ \A r : Up(r)' = Up(r)
         /\ \A r \in suspect' : status'[r] = "ACTIVE" => r \in failed'
         /\ proven \subseteq proven' => \A r \in Rows' : Up(r)' => Cleared(r)'
<1>1. /\ RowsOnly /\ OneCurrentRow /\ OlderRemoved /\ AllCleared /\ SuspectFailed
      /\ UNCHANGED <<rows, app, name, status, suspect, live, pc, wants, failed>>
  BY DEF IInv, table, web
<1>2. /\ Rows' = Rows /\ Current' = Current /\ Rows \subseteq Ids /\ \A r : Up(r)' = Up(r)
  BY <1>1, DomainAssumption DEF Rows, Current, Up, IInv, TypeOK, Ids
<1>3. proven \subseteq proven' => \A r : Cleared(r) => Cleared(r)'
  BY <1>1 DEF Cleared
<1> QED
  BY <1>1, <1>2, <1>3 DEF RowsOnly, OneCurrentRow, OlderRemoved, AllCleared, SuspectFailed

\* A run begins with a row that is there: no other row of its app is.
LEMMA BeginKeeps ==
  ASSUME IInv, NEW r \in Ids, Begin(r)
  PROVE  IInv'
<1>0. /\ TypeOK /\ RowsOnly /\ OneCurrentRow /\ NamesHeld /\ SuspectFailed
  BY DEF IInv
<1>1. /\ at' = FirstStep(r) /\ row' = r /\ status[r] \notin {"NONE", "FAILED", "REMOVED"}
      /\ wasActive' = (status[r] = "ACTIVE") /\ hadWww' = (r \in www) /\ hadSuspect' = (r \in suspect)
      /\ UNCHANGED <<table, holder, web, faults, history>>
  BY DEF Begin
<1>2. UNCHANGED <<rows, app, name, status, www, suspect, live, old, deleted, gone, pc, wants,
                  proven, failed, holder, faults>>
  BY <1>1 DEF table, web, history
<1>3. /\ RowsOnly' /\ OneCurrentRow' /\ OlderRemoved' /\ Rows' = Rows /\ Rows \subseteq Ids
      /\ \A s : Up(s)' = Up(s)
      /\ \A s \in suspect' : status'[s] = "ACTIVE" => s \in failed'
      /\ \A s \in Rows' : Up(s)' => Cleared(s)'
  BY <1>1, <1>2, TableKept
<1>4. r \in Rows /\ r \in Current
  BY <1>0, <1>1 DEF RowsOnly, Current
<1>5. status[r] \in {"PENDING", "NEEDS_DNS", "SECURING", "ACTIVE", "REMOVING"}
  BY <1>0, <1>1 DEF TypeOK, Statuses
<1>6. /\ at' \in {"prove", "check", "remove", "removed", "fail"}
      /\ at' = "prove" => status[r] = "PENDING"
      /\ at' = "check" => Up(r)
      /\ at' \in {"remove", "removed"} => status[r] = "REMOVING"
  BY <1>1, <1>5 DEF FirstStep, Up
<1>7. TypeOK'
  <2>1. at' \in TaskSteps /\ row' \in Ids
    BY <1>1, <1>6 DEF TaskSteps
  <2>2. wasActive' \in BOOLEAN /\ hadWww' \in BOOLEAN /\ hadSuspect' \in BOOLEAN
    BY <1>1
  <2> QED
    BY <1>0, <1>2, <2>1, <2>2 DEF TypeOK
<1>8. TaskRow'
  <2>1. Up(row)' = Up(r)
    BY <1>1, <1>2 DEF Up
  <2> QED
    BY <1>1, <1>2, <1>3, <1>4, <1>6, <2>1 DEF TaskRow
<1>9. TaskAlone'
  <2>1. \A s \in Rows : Up(s) => s \in Current
    BY DEF Up, Current
  <2> QED
    BY <1>0, <1>1, <1>2, <1>3, <1>4, <2>1 DEF TaskAlone, OneCurrentRow
<1>10. NamesHeld'
  BY <1>0, <1>2, <1>3 DEF NamesHeld, HasName, HasWww
<1>11. TaskHolds' /\ AllCleared'
  BY <1>3, <1>6 DEF TaskHolds, AllCleared
<1>12. SuspectFailed'
  BY <1>0, <1>1, <1>2, <1>3 DEF SuspectFailed
<1> QED
  BY <1>3, <1>7, <1>8, <1>9, <1>10, <1>11, <1>12 DEF IInv

\* The proof: a row that gets past it is cleared.
LEMMA ProveKeeps ==
  ASSUME IInv, Prove
  PROVE  IInv'
<1>0. /\ TypeOK /\ OlderRemoved /\ TaskRow /\ TaskAlone /\ NamesHeld
  BY DEF IInv
<1>1. CASE UNCHANGED proven /\ Ends
  BY <1>1, EndingKeeps
<1>2. CASE /\ at' = "add" /\ UNCHANGED <<row, web, wasActive, hadWww, hadSuspect>>
           /\ \/ ~proofRequired(row) /\ UNCHANGED proven
              \/ proven' = proven \cup {row}
  <2>1. UNCHANGED <<table, holder, faults, failed>> /\ at = "prove"
    BY DEF Prove
  <2>2. /\ RowsOnly' /\ OneCurrentRow' /\ OlderRemoved' /\ Rows' = Rows /\ Rows \subseteq Ids
        /\ \A s : Up(s)' = Up(s)
        /\ \A s \in suspect' : status'[s] = "ACTIVE" => s \in failed'
        /\ \A s \in Rows' : Up(s)' => Cleared(s)'
    BY <1>2, <2>1, TableKept
  <2>3. UNCHANGED <<rows, app, name, status, www, suspect, live, old, deleted, gone, pc, wants>>
    BY <1>2, <2>1 DEF table, web
  <2>4. row \in Rows /\ row \in Ids
    BY <1>0, <2>1, <2>2 DEF TaskRow
  <2>5. TypeOK'
    <3>1. at' \in TaskSteps /\ proven' \subseteq Ids
      BY <1>0, <1>2, <2>4 DEF TaskSteps, TypeOK
    <3> QED
      BY <1>0, <1>2, <2>1, <2>3, <3>1 DEF TypeOK
  <2>6. TaskRow' /\ TaskAlone'
    BY <1>0, <1>2, <2>1, <2>2, <2>3 DEF TaskRow, TaskAlone
  <2>7. NamesHeld'
    BY <1>0, <2>1, <2>2, <2>3 DEF NamesHeld, HasName, HasWww
  <2>8. TaskHolds'
    BY <1>2 DEF TaskHolds
  <2>9. Cleared(row)'
    <3>1. CASE proven' = proven \cup {row}
      BY <1>2, <3>1 DEF Cleared
    <3>2. CASE ~proofRequired(row)
      <4> SUFFICES ASSUME NEW p \in live, p < row, name[p] = name[row],
                          Workspace(app[p]) # Workspace(app[row])
                   PROVE  FALSE
        BY <1>2, <2>3 DEF Cleared
      <4>1. p \in Rows
        BY <1>0, <2>4, DomainAssumption DEF TypeOK, Rows, Ids
      <4>2. status[p] = "REMOVED"
        BY <1>0, <2>4, <4>1 DEF OlderRemoved
      <4> QED
        BY <3>2, <4>1, <4>2 DEF proofRequired, Related
    <3> QED
      BY <1>2, <3>1, <3>2
  <2>10. AllCleared' /\ SuspectFailed'
    BY <1>2, <2>2, <2>9 DEF AllCleared, SuspectFailed
  <2> QED
    BY <2>2, <2>5, <2>6, <2>7, <2>8, <2>10 DEF IInv
<1> QED
  BY <1>1, <1>2 DEF Prove, Goes

\* A call of ensureProjectDomain leaves the names that are on a project there;
\* a name is taken off the project of the task's own app only.
LEMMA EnsureKeeps ==
  ASSUME IInv, at # "idle", NEW n \in Names, CanHold(n), Ensure(n)
  PROVE  /\ holder' \in [Names -> Apps \cup {NoApp, Stranger}] /\ holder'[n] = app[row]
         /\ \A m \in Names : holder[m] \in Apps => holder'[m] = holder[m]
<1>1. holder \in [Names -> Apps \cup {NoApp, Stranger}] /\ app[row] \in Apps
  BY DEF IInv, TypeOK
<1> QED
  BY <1>1, DomainAssumption DEF Ensure, CanHold

LEMMA TakeOffKeeps ==
  ASSUME IInv, NEW n, TakeOff(n)
  PROVE  /\ holder' \in [Names -> Apps \cup {NoApp, Stranger}]
         /\ \A m \in Names : holder[m] # app[row] => holder'[m] = holder[m]
<1>1. holder \in [Names -> Apps \cup {NoApp, Stranger}]
  BY DEF IInv, TypeOK
<1> QED
  BY <1>1 DEF TakeOff

\* Names stay on the projects of the rows that are attached.
LEMMA HeldKept ==
  ASSUME IInv, UNCHANGED <<table, web, failed>>,
         \A r \in Rows : Up(r) /\ app[r] \notin deleted =>
           \A m \in Names : holder[m] = app[r] => holder'[m] = holder[m]
  PROVE  NamesHeld'
<1>1. /\ NamesHeld /\ UNCHANGED <<app, name, www, deleted>> /\ Rows' = Rows
      /\ \A r : Up(r)' = Up(r)
  BY TableKept DEF IInv, table
<1>2. SUFFICES ASSUME NEW r \in Rows, Up(r), app[r] \notin deleted
               PROVE  HasName(r)' /\ (r \in www => HasWww(r)')
  BY <1>1 DEF NamesHeld
<1>3. HasName(r) /\ (r \in www => HasWww(r)) /\ name[r] \in Names
  BY <1>1, <1>2, TableKept DEF NamesHeld, IInv, TypeOK
<1>4. \A m \in Names : holder[m] = app[r] => holder'[m] = app[r]
  BY <1>2
<1>5. HasName(r)'
  BY <1>1, <1>3, <1>4 DEF HasName
<1>6. r \in www => HasWww(r)'
  BY <1>1, <1>3, <1>4, DomainAssumption DEF HasWww
<1> QED
  BY <1>5, <1>6

LEMMA AttachKeeps ==
  ASSUME IInv, AddName \/ AddWww \/ CheckName
  PROVE  IInv'
<1>0. /\ TypeOK /\ TaskRow /\ TaskAlone /\ TaskHolds /\ AllCleared /\ SuspectFailed
  BY DEF IInv
<1>1. /\ at \in {"add", "www", "check"} /\ app[row] \notin deleted
      /\ UNCHANGED <<table, row, web, wasActive, hadSuspect, faults, history>>
      /\ UNCHANGED <<rows, app, name, status, www, suspect, live, old, deleted, gone, pc, wants,
                     proven, failed>>
  BY DEF AddName, AddWww, CheckName, Goes, table, web, history
<1>2. /\ RowsOnly' /\ OneCurrentRow' /\ OlderRemoved' /\ Rows' = Rows /\ Rows \subseteq Ids
      /\ \A s : Up(s)' = Up(s)
      /\ \A s \in suspect' : status'[s] = "ACTIVE" => s \in failed'
      /\ \A s \in Rows' : Up(s)' => Cleared(s)'
  BY <1>1, TableKept
<1>3. row \in Rows /\ row \in Ids /\ name[row] \in Names /\ app[row] \in Apps
  BY <1>0, <1>1, <1>2 DEF TaskRow, TypeOK
<1>4. /\ \/ at = "add" /\ at' = "www" /\ name[row] \in Apexes /\ hadWww' = FALSE /\ AddName
         \/ at = "add" /\ at' = "attached" /\ name[row] \notin Apexes /\ hadWww' = FALSE /\ AddName
         \/ at = "www" /\ at' = "attached" /\ hadWww' = CanHold(Www(name[row])) /\ AddWww
         \/ at = "check" /\ at' = "record" /\ hadWww' = hadWww /\ CheckName
  BY DEF AddName, AddWww, CheckName, Goes, WwwAdded
<1>5. /\ holder' \in [Names -> Apps \cup {NoApp, Stranger}]
      /\ \A m \in Names : holder[m] \in Apps => holder'[m] = holder[m]
      /\ AddName => holder'[name[row]] = app[row]
      /\ AddWww /\ hadWww' => holder'[Www(name[row])] = app[row]
  <2>1. CASE AddName \/ CheckName
    <3>1. CanHold(name[row]) /\ Ensure(name[row]) /\ at # "www"
      BY <2>1 DEF AddName, CheckName
    <3> QED
      BY <1>1, <1>3, <3>1, EnsureKeeps DEF AddWww
  <2>2. CASE AddWww
    <3>1. at = "www" /\ name[row] \in Apexes /\ Www(name[row]) \in Names
      BY <1>0, <2>2, DomainAssumption DEF AddWww, TaskHolds
    <3>2. CASE CanHold(Www(name[row]))
      <4>1. Ensure(Www(name[row]))
        BY <2>2, <3>2 DEF AddWww
      <4> QED
        BY <1>1, <3>1, <3>2, <4>1, EnsureKeeps DEF AddName
    <3>3. CASE ~CanHold(Www(name[row]))
      BY <1>0, <2>2, <3>1, <3>3 DEF AddWww, AddName, WwwAdded, TypeOK
    <3> QED
      BY <3>2, <3>3
  <2> QED
    BY <2>1, <2>2
<1>6. TypeOK'
  <2>1. at' \in TaskSteps
    BY <1>4 DEF TaskSteps
  <2>2. hadWww' \in BOOLEAN
    <3>1. CanHold(Www(name[row])) \in BOOLEAN
      BY DEF CanHold
    <3>2. hadWww \in BOOLEAN
      BY <1>0 DEF TypeOK
    <3> QED
      BY <1>4, <3>1, <3>2
  <2> QED
    BY <1>0, <1>1, <1>5, <2>1, <2>2 DEF TypeOK
<1>7. TaskRow'
  <2>1. Up(row)' = Up(row)
    BY <1>1 DEF Up
  <2> QED
    BY <1>0, <1>1, <1>2, <1>4, <2>1 DEF TaskRow
<1>8. TaskAlone'
  BY <1>0, <1>1, <1>2 DEF TaskAlone
<1>9. NamesHeld'
  <2>1. \A r \in Rows : app[r] \in Apps
    BY <1>0, <1>2 DEF TypeOK
  <2> QED
    BY <1>1, <1>5, <2>1, HeldKept
<1>10. TaskHolds'
  <2>1. CASE AddName
    BY <1>1, <1>4, <1>5, <2>1 DEF TaskHolds, HasName, AddName, AddWww, CheckName
  <2>2. CASE AddWww
    <3>1. name[row] \in Apexes /\ at' = "attached"
      BY <1>0, <1>4, <2>2 DEF TaskHolds, AddWww
    <3> QED
      BY <1>1, <1>5, <2>2, <3>1 DEF TaskHolds, HasName, HasWww
  <2>3. CASE CheckName
    BY <1>4, <2>3 DEF TaskHolds, CheckName
  <2> QED
    BY <1>4, <2>1, <2>2, <2>3
<1>11. AllCleared'
  <2>1. at \in {"add", "www"} => Cleared(row)
    BY <1>0 DEF AllCleared
  <2>2. Cleared(row)' = Cleared(row)
    BY <1>1 DEF Cleared
  <2> QED
    BY <1>2, <1>4, <2>1, <2>2 DEF AllCleared
<1>12. SuspectFailed'
  BY <1>0, <1>1, <1>2, <1>4 DEF SuspectFailed
<1> QED
  BY <1>2, <1>6, <1>7, <1>8, <1>9, <1>10, <1>11, <1>12 DEF IInv

LEMMA RemoveKeeps ==
  ASSUME IInv, RemoveName \/ RemoveWww
  PROVE  IInv'
<1>0. /\ TypeOK /\ TaskRow /\ TaskAlone /\ SuspectFailed
  BY DEF IInv
<1>1. /\ at \in {"remove", "removeWww"} /\ at' \in {"removeWww", "removed"}
      /\ UNCHANGED <<table, row, web, wasActive, hadWww, hadSuspect, faults, history>>
      /\ UNCHANGED <<rows, app, name, status, www, suspect, live, old, deleted, gone, pc, wants,
                     proven, failed>>
  BY DEF RemoveName, RemoveWww, Goes, table, web, history
<1>2. /\ RowsOnly' /\ OneCurrentRow' /\ OlderRemoved' /\ Rows' = Rows /\ Rows \subseteq Ids
      /\ \A s : Up(s)' = Up(s)
      /\ \A s \in suspect' : status'[s] = "ACTIVE" => s \in failed'
      /\ \A s \in Rows' : Up(s)' => Cleared(s)'
  BY <1>1, TableKept
<1>3. row \in Rows /\ name[row] \in Names /\ status[row] \in {"REMOVING", "REMOVED"}
  BY <1>0, <1>1 DEF TaskRow, TypeOK
<1>4. /\ holder' \in [Names -> Apps \cup {NoApp, Stranger}]
      /\ \A m \in Names : holder[m] # app[row] => holder'[m] = holder[m]
  BY TakeOffKeeps DEF RemoveName, RemoveWww
<1>5. TypeOK'
  BY <1>0, <1>1, <1>4 DEF TypeOK, TaskSteps
<1>6. TaskRow' /\ TaskAlone' /\ TaskHolds'
  BY <1>0, <1>1, <1>2, <1>3 DEF TaskRow, TaskAlone, TaskHolds
<1>7. NamesHeld'
  <2>1. \A r \in Rows : Up(r) => app[r] # app[row]
    BY <1>0, <1>1, <1>3 DEF TaskAlone, Up
  <2> QED
    BY <1>1, <1>4, <2>1, HeldKept
<1>8. AllCleared' /\ SuspectFailed'
  BY <1>1, <1>2 DEF AllCleared, SuspectFailed
<1> QED
  BY <1>2, <1>5, <1>6, <1>7, <1>8 DEF IInv

-----------------------------------------------------------------------------
(* What the task writes of its row.                                        *)

\* The row is attached, with the names the task has put on the project.
LEMMA AttachedKeeps ==
  ASSUME IInv, Attached
  PROVE  IInv'
<1>0. /\ TypeOK /\ RowsOnly /\ OneCurrentRow /\ OlderRemoved /\ TaskRow /\ TaskAlone
      /\ NamesHeld /\ TaskHolds /\ AllCleared /\ SuspectFailed
  BY DEF IInv
<1>1. /\ at = "attached" /\ at' = "check" /\ wasActive' = FALSE
      /\ UNCHANGED <<rows, app, name, live, old, deleted, gone, holder, row, hadWww, hadSuspect,
                     pc, wants, faults, proven, failed>>
  BY DEF Attached, Goes, web, history
<1>2. row \in Rows /\ row \in Ids /\ Rows' = Rows /\ Rows \subseteq Ids
  BY <1>0, <1>1, DomainAssumption DEF TaskRow, Rows, TypeOK, Ids
<1>3. /\ status \in [Ids -> Statuses] /\ www \subseteq Ids /\ suspect \subseteq Ids
      /\ status[row] \in {"PENDING", "REMOVING", "REMOVED"}
  BY <1>0, <1>1 DEF TypeOK, TaskRow
<1>4. \/ /\ status[row] = "PENDING" /\ status' = [status EXCEPT ![row] = "NEEDS_DNS"]
         /\ www' = IF hadWww THEN www \cup {row} ELSE www \ {row}
         /\ suspect' = suspect \ {row}
      \/ status[row] # "PENDING" /\ UNCHANGED <<status, www, suspect>>
  BY DEF Attached
<1>5. /\ status' \in [Ids -> Statuses] /\ www' \subseteq Ids /\ suspect' \subseteq suspect
      /\ \A r \in Ids \ {row} : status'[r] = status[r] /\ (r \in www' <=> r \in www)
      /\ status'[row] \in {"NEEDS_DNS", "REMOVING", "REMOVED"}
      /\ status'[row] = "NEEDS_DNS" => status[row] = "PENDING" /\ (row \in www' <=> hadWww)
      /\ status[row] = "REMOVED" => status'[row] = "REMOVED"
  BY <1>2, <1>3, <1>4 DEF Statuses
<1>6. TypeOK'
  <2>1. suspect' \subseteq Ids
    BY <1>3, <1>5
  <2>2. at' \in TaskSteps /\ wasActive' \in BOOLEAN
    BY <1>1 DEF TaskSteps
  <2> QED
    BY <1>0, <1>1, <1>5, <2>1, <2>2 DEF TypeOK
<1>7. RowsOnly'
  <2>1. \A r \in Ids : r \notin Rows => status'[r] = "NONE"
    BY <1>0, <1>2, <1>5 DEF RowsOnly
  <2>2. \A r \in Rows : status'[r] # "NONE"
    BY <1>0, <1>2, <1>5 DEF RowsOnly
  <2> QED
    BY <1>0, <1>1, <1>2, <2>1, <2>2 DEF RowsOnly
<1>8. \A r \in Rows : r \in Ids /\ (status[r] = "REMOVED" => status'[r] = "REMOVED")
  BY <1>2, <1>5
<1>9. OneCurrentRow' /\ OlderRemoved'
  <2>1. Current' \subseteq Current
    BY <1>2, <1>8 DEF Current
  <2> QED
    BY <1>0, <1>1, <1>2, <1>8, <2>1 DEF OneCurrentRow, OlderRemoved
<1>10. \A r \in Rows \ {row} : Up(r)' = Up(r)
  BY <1>5, <1>8 DEF Up
<1>11. TaskRow'
  <2>1. Up(row)' \/ status'[row] \in {"REMOVING", "REMOVED"}
    BY <1>1, <1>5 DEF Up
  <2> QED
    BY <1>1, <1>2, <2>1 DEF TaskRow
<1>12. TaskAlone'
  BY <1>0, <1>1, <1>2, <1>10 DEF TaskAlone
<1>13. NamesHeld'
  <2> SUFFICES ASSUME NEW r \in Rows, Up(r)', app[r] \notin deleted
               PROVE  HasName(r)' /\ (r \in www' => HasWww(r)')
    BY <1>1, <1>2 DEF NamesHeld
  <2>1. HasName(r)' = HasName(r) /\ HasWww(r)' = HasWww(r)
    BY <1>1 DEF HasName, HasWww
  <2>2. CASE r = row
    <3>1. row \in www' => hadWww
      BY <1>5, <2>2 DEF Up
    <3> QED
      BY <1>0, <1>1, <2>1, <2>2, <3>1 DEF TaskHolds
  <2>3. CASE r # row
    BY <1>0, <1>5, <1>8, <1>10, <2>1, <2>3 DEF NamesHeld
  <2> QED
    BY <2>2, <2>3
<1>14. TaskHolds'
  BY <1>1 DEF TaskHolds
<1>15. AllCleared'
  <2>1. \A r : Cleared(r)' = Cleared(r)
    BY <1>1 DEF Cleared
  <2> QED
    BY <1>0, <1>1, <1>2, <1>10, <2>1 DEF AllCleared
<1>16. SuspectFailed'
  <2>1. \A r \in suspect' : status'[r] = "ACTIVE" => r \in suspect /\ status[r] = "ACTIVE"
    BY <1>3, <1>5
  <2> QED
    BY <1>0, <1>1, <1>5, <2>1 DEF SuspectFailed
<1> QED
  BY <1>6, <1>7, <1>9, <1>11, <1>12, <1>13, <1>14, <1>15, <1>16 DEF IInv

\* What Record can write.
LEMMA RecordFacts ==
  ASSUME IInv, Record
  PROVE  /\ row \in Rows /\ row \in Ids /\ Rows \subseteq Ids
         /\ status' \in [Ids -> Statuses]
         /\ suspect' \subseteq Ids /\ live' \subseteq Ids /\ failed' \subseteq Ids
         /\ \A r \in Ids \ {row} : /\ status'[r] = status[r]
                                   /\ r \in suspect' <=> r \in suspect
                                   /\ r \in live' <=> r \in live
                                   /\ r \in failed' <=> r \in failed
         /\ status'[row] = status[row] \/ (Up(row) /\ status'[row] \in {"NEEDS_DNS", "SECURING", "ACTIVE"})
         /\ row \in live' => row \in live \/ Up(row)
         /\ status'[row] = "ACTIVE" /\ row \in suspect' => row \in failed'
         /\ status[row] = "ACTIVE" /\ status'[row] # "ACTIVE" => row \in failed
<1>0. /\ status \in [Ids -> Statuses] /\ suspect \subseteq Ids /\ live \subseteq Ids
      /\ failed \subseteq Ids /\ TaskRow /\ SuspectFailed
      /\ wasActive \in BOOLEAN /\ hadSuspect \in BOOLEAN
  BY DEF IInv, TypeOK
<1>1. /\ row \in Rows /\ row \in Ids /\ Rows \subseteq Ids
      /\ Up(row) \/ status[row] \in {"REMOVING", "REMOVED"}
  BY <1>0, DomainAssumption DEF Record, TaskRow, Rows, IInv, TypeOK, Ids
<1>2. PICK new \in {"NEEDS_DNS", "SECURING", "ACTIVE"} :
        /\ \/ /\ OnlySuspect(new) /\ status[row] = "ACTIVE"
              /\ suspect' = suspect \cup {row} /\ UNCHANGED <<status, live>>
           \/ /\ ~OnlySuspect(new) /\ Up(row)
              /\ status' = [status EXCEPT ![row] = new]
              /\ suspect' = IF StillSuspect(new) THEN suspect \cup {row} ELSE suspect \ {row}
              /\ live' = IF new = "ACTIVE" THEN live \cup {row} ELSE live
           \/ /\ OnlySuspect(new) \/ ~Up(row)
              /\ ~(OnlySuspect(new) /\ status[row] = "ACTIVE")
              /\ UNCHANGED <<status, suspect, live>>
        /\ failed' = IF status'[row] = "ACTIVE" /\ new # "ACTIVE" THEN failed \cup {row}
                                                                  ELSE failed \ {row}
  <2>1. PICK reach \in Reach : LET new == decideStatus(reach) IN
       /\ CASE OnlySuspect(new) /\ status[row] = "ACTIVE" ->
                 suspect' = suspect \cup {row} /\ UNCHANGED <<status, live>>
            [] ~OnlySuspect(new) /\ status[row] \notin {"REMOVING", "REMOVED", "FAILED"} ->
                 /\ status' = [status EXCEPT ![row] = new]
                 /\ suspect' = IF StillSuspect(new) THEN suspect \cup {row} ELSE suspect \ {row}
                 /\ live' = IF new = "ACTIVE" THEN live \cup {row} ELSE live
            [] OTHER -> UNCHANGED <<status, suspect, live>>
       /\ failed' = IF status'[row] = "ACTIVE" /\ new # "ACTIVE" THEN failed \cup {row}
                                                                 ELSE failed \ {row}
    BY DEF Record
  <2>2. decideStatus(reach) \in {"NEEDS_DNS", "SECURING", "ACTIVE"}
    BY DEF decideStatus, Reach
  <2>3. Up(row) <=> status[row] \notin {"REMOVING", "REMOVED", "FAILED"}
    BY <1>1 DEF Up
  <2> HIDE DEF decideStatus
  <2> QED
    BY <2>1, <2>2, <2>3
<1>3. at = "record" /\ (status[row] = "ACTIVE" => wasActive /\ (hadSuspect => row \in failed))
  BY <1>0 DEF Record, SuspectFailed
<1>4. OnlySuspect(new) = (wasActive /\ new # "ACTIVE" /\ ~hadSuspect)
  BY DEF OnlySuspect
<1>5. StillSuspect(new) => new = "NEEDS_DNS"
  BY DEF StillSuspect
<1>6. CASE /\ OnlySuspect(new) /\ status[row] = "ACTIVE"
           /\ suspect' = suspect \cup {row} /\ UNCHANGED <<status, live>>
  <2>1. failed' = failed \cup {row}
    BY <1>2, <1>4, <1>6
  <2> QED
    BY <1>0, <1>1, <1>6, <2>1
<1>7. CASE /\ ~OnlySuspect(new) /\ Up(row)
           /\ status' = [status EXCEPT ![row] = new]
           /\ suspect' = IF StillSuspect(new) THEN suspect \cup {row} ELSE suspect \ {row}
           /\ live' = IF new = "ACTIVE" THEN live \cup {row} ELSE live
  <2>1. status'[row] = new /\ status' \in [Ids -> Statuses]
    BY <1>0, <1>1, <1>7 DEF Statuses
  <2> QED
    BY <1>0, <1>1, <1>2, <1>3, <1>4, <1>5, <1>7, <2>1
<1>8. CASE /\ OnlySuspect(new) \/ ~Up(row)
           /\ ~(OnlySuspect(new) /\ status[row] = "ACTIVE")
           /\ UNCHANGED <<status, suspect, live>>
  <2>1. status[row] # "ACTIVE"
    BY <1>8 DEF Up
  <2> QED
    BY <1>0, <1>1, <1>2, <1>8, <2>1
<1> QED
  BY <1>2, <1>6, <1>7, <1>8

LEMMA RecordKeeps ==
  ASSUME IInv, Record
  PROVE  IInv'
<1>0. /\ TypeOK /\ RowsOnly /\ OneCurrentRow /\ OlderRemoved /\ TaskRow /\ TaskAlone
      /\ NamesHeld /\ TaskHolds /\ AllCleared /\ SuspectFailed
  BY DEF IInv
<1>1. /\ at' = "idle" /\ row' = 1 /\ wasActive' = FALSE /\ hadWww' = FALSE /\ hadSuspect' = FALSE
      /\ UNCHANGED <<rows, app, name, www, old, deleted, gone, holder, pc, wants, faults, proven>>
  BY DEF Record, Ends, Forget, web
<1>2. /\ row \in Rows /\ row \in Ids /\ Rows \subseteq Ids
      /\ status' \in [Ids -> Statuses]
      /\ suspect' \subseteq Ids /\ live' \subseteq Ids /\ failed' \subseteq Ids
      /\ \A r \in Ids \ {row} : /\ status'[r] = status[r]
                                /\ r \in suspect' <=> r \in suspect
                                /\ r \in live' <=> r \in live
                                /\ r \in failed' <=> r \in failed
      /\ status'[row] = status[row] \/ (Up(row) /\ status'[row] \in {"NEEDS_DNS", "SECURING", "ACTIVE"})
      /\ row \in live' => row \in live \/ Up(row)
      /\ status'[row] = "ACTIVE" /\ row \in suspect' => row \in failed'
  BY RecordFacts
<1>3. Rows' = Rows
  BY <1>1 DEF Rows
<1>4. TypeOK'
  <2>1. /\ at' \in TaskSteps /\ row' \in Ids
        /\ wasActive' \in BOOLEAN /\ hadWww' \in BOOLEAN /\ hadSuspect' \in BOOLEAN
    BY <1>1, NoRowTyped DEF TaskSteps
  <2> QED
    BY <1>0, <1>1, <1>2, <2>1 DEF TypeOK
<1>5. \A r \in Rows : /\ r \in Ids /\ Up(r)' = Up(r)
                      /\ status'[r] = status[r] \/ (Up(r) /\ Up(r)')
  BY <1>2 DEF Up
<1>6. RowsOnly'
  <2>1. \A r \in Ids : r \notin Rows => status'[r] = "NONE"
    BY <1>0, <1>2 DEF RowsOnly
  <2>2. \A r \in Rows : status'[r] # "NONE"
    BY <1>0, <1>5 DEF RowsOnly, Up
  <2> QED
    BY <1>0, <1>1, <1>3, <2>1, <2>2 DEF RowsOnly
<1>7. OneCurrentRow' /\ OlderRemoved'
  <2>1. Current' = Current
    BY <1>3, <1>5 DEF Current, Up
  <2>2. \A r \in Rows : status[r] = "REMOVED" => status'[r] = "REMOVED"
    BY <1>5 DEF Up
  <2> QED
    BY <1>0, <1>1, <1>3, <2>1, <2>2 DEF OneCurrentRow, OlderRemoved
<1>8. TaskRow' /\ TaskAlone' /\ TaskHolds'
  BY <1>1 DEF TaskRow, TaskAlone, TaskHolds
<1>9. NamesHeld'
  <2>1. \A r : HasName(r)' = HasName(r) /\ HasWww(r)' = HasWww(r)
    BY <1>1 DEF HasName, HasWww
  <2> QED
    BY <1>0, <1>1, <1>3, <1>5, <2>1 DEF NamesHeld
<1>10. AllCleared'
  <2> SUFFICES ASSUME NEW r \in Rows, Up(r), NEW p \in live', p < r, name[p] = name[r],
                      Workspace(app[p]) # Workspace(app[r])
               PROVE  r \in proven
    BY <1>1, <1>3, <1>5 DEF AllCleared, Cleared
  <2>1. CASE p \in live
    BY <1>0, <2>1 DEF AllCleared, Cleared
  <2>2. CASE p \notin live
    <3>1. p = row /\ Up(row)
      BY <1>2, <2>2
    <3>2. status[p] = "REMOVED"
      BY <1>0, <1>2, <3>1 DEF OlderRemoved
    <3> QED
      BY <3>1, <3>2 DEF Up
  <2> QED
    BY <2>1, <2>2
<1>11. SuspectFailed'
  <2>1. ASSUME NEW r \in suspect', status'[r] = "ACTIVE"
        PROVE  r \in failed'
    <3>1. CASE r = row
      BY <1>2, <2>1, <3>1
    <3>2. CASE r # row
      BY <1>0, <1>2, <2>1, <3>2 DEF SuspectFailed
    <3> QED
      BY <3>1, <3>2
  <2> QED
    BY <1>1, <2>1 DEF SuspectFailed
<1> QED
  BY <1>4, <1>6, <1>7, <1>8, <1>9, <1>10, <1>11 DEF IInv

-----------------------------------------------------------------------------
(* The invariant, and what follows from it.                                *)

LEMMA NextIInv ==
  ASSUME IInv, [Next]_vars
  PROVE  IInv'
<1>1. ASSUME NEW a \in Apps, Connect(a) PROVE IInv'
  BY <1>1, RequestKeeps, InsertRowKeeps DEF Connect
<1>2. ASSUME NEW r \in Ids, checkCustomDomain(r) \/ Recheck(r) PROVE IInv'
  BY <1>2, BeginKeeps DEF checkCustomDomain, Recheck
<1>3. ASSUME TaskStep PROVE IInv'
  BY <1>3, ProveKeeps, AttachKeeps, AttachedKeeps, RecordKeeps, RemoveKeeps, EndingKeeps
     DEF TaskStep
<1>4. ASSUME TaskThrows PROVE IInv'
  BY <1>4, EndingKeeps
<1>5. ASSUME \/ \E r \in Ids : removeCustomDomain(r) \/ ReleaseUnfinished(r) \/ GrowsOld(r) \/ TakenOff(r)
             \/ \E a \in Apps : DeleteProject(a) \/ CommitDeletion(a)
      PROVE  IInv'
  BY <1>5, OutsideKeeps
<1>6. CASE UNCHANGED vars
  <2>1. /\ UNCHANGED <<rows, app, name, status, www, suspect, live, old, deleted, gone, holder,
                       at, row, wasActive, hadWww, hadSuspect, pc, wants, faults, proven, failed>>
    BY <1>6 DEF vars, table, running, web, history
  <2>2. /\ status \in [Ids -> Statuses] /\ suspect \subseteq Ids /\ old \subseteq Ids
        /\ deleted \subseteq Apps /\ gone \subseteq deleted
        /\ pc \in [Apps -> WebSteps] /\ wants \in [Apps -> [name : Names, row : Ids]]
        /\ holder \in [Names -> Apps \cup {NoApp, Stranger}] /\ faults \in 0..MaxFaults
    BY DEF IInv, TypeOK
  <2> QED
    BY <2>1, <2>2, GivesUpKeeps DEF running
<1> QED
  BY <1>1, <1>2, <1>3, <1>4, <1>5, <1>6 DEF Next

LEMMA Invariance == Spec => []IInv
<1>1. Init => IInv
  BY InitIInv
<1>2. IInv /\ [Next]_vars => IInv'
  BY NextIInv
<1> QED
  BY <1>1, <1>2, PTL DEF Spec

\* Rows, apps, names, the run of the task and the requests stay what they are.
THEOREM TypeCorrect == Spec => []TypeOK
<1>1. IInv => TypeOK
  BY DEF IInv
<1> QED
  BY <1>1, Invariance, PTL

\* Two apps that are attached never share a name: not their own names, which
\* the indexes keep apart, and not the www of an apex, which only Vercel's
\* answer to attach keeps apart (trigger/custom-domain.ts).
THEOREM NamesNotShared == Spec => []NoSharedName
<1>1. IInv => NoSharedName
  <2> SUFFICES ASSUME IInv, NEW r \in Serving, NEW s \in Serving, r # s,
                      NEW n, n \in occupiedNames(name[r], r \in www),
                      n \in occupiedNames(name[s], s \in www)
               PROVE  FALSE
    BY DEF NoSharedName
  <2>1. /\ r \in Rows /\ Up(r) /\ app[r] \notin deleted
        /\ s \in Rows /\ Up(s) /\ app[s] \notin deleted
        /\ r \in Ids /\ s \in Ids
    BY DomainAssumption DEF Serving, Up, Rows, IInv, TypeOK, Ids
  <2>2. app[r] # app[s]
    BY <2>1 DEF IInv, OneCurrentRow, Current, Up
  <2>3. name[r] # name[s]
    <3>1. r < s \/ s < r
      BY <2>1, DomainAssumption DEF Ids
    <3> QED
      BY <2>1, <3>1 DEF IInv, OlderRemoved, Up
  <2>4. /\ HasName(r) /\ (r \in www => HasWww(r))
        /\ HasName(s) /\ (s \in www => HasWww(s))
        /\ name[r] \in Names /\ name[s] \in Names
    BY <2>1 DEF IInv, NamesHeld, TypeOK
  <2>5. /\ n = name[r] \/ (n = Www(name[r]) /\ HasWww(r))
        /\ n = name[s] \/ (n = Www(name[s]) /\ HasWww(s))
    BY <2>4 DEF occupiedNames
  <2>6. \/ n = Www(name[r]) /\ n = Www(name[s]) /\ HasWww(r) /\ HasWww(s)
        \/ n = name[r] /\ n = Www(name[s]) /\ HasWww(s)
        \/ n = name[s] /\ n = Www(name[r]) /\ HasWww(r)
    BY <2>3, <2>5
  <2> QED
    BY <2>2, <2>4, <2>6, DomainAssumption DEF HasName, HasWww
<1> QED
  BY <1>1, Invariance, PTL

\* A name that was live in one workspace is attached in another only after
\* the task has seen the proof of its owner, whatever happened between the
\* look at the older rows and the attachment (proofRequired, ownershipProven).
THEOREM ProofComesFirst == Spec => []ProofBeforeReuse
<1>1. IInv => ProofBeforeReuse
  BY DEF IInv, AllCleared, Cleared, ProofBeforeReuse, Serving, Up
<1> QED
  BY <1>1, Invariance, PTL

\* The run of the task that takes a live domain back found it unreachable,
\* and so did the run before it (check: STOPPED_RESOLVING).
THEOREM TwoFailuresToDemote == Spec => DemotedAfterTwoInARow
<1>1. ASSUME IInv, [Next]_vars, NEW r \in Rows, status[r] = "ACTIVE",
             status'[r] \in {"NEEDS_DNS", "SECURING"}
      PROVE  r \in failed
  <2>1. r \in Ids /\ status \in [Ids -> Statuses]
    BY <1>1, DomainAssumption DEF Rows, IInv, TypeOK, Ids
  <2>2. CASE Record
    BY <1>1, <2>1, <2>2, RecordFacts
  <2>3. ASSUME NEW a \in Apps, Connect(a) PROVE FALSE
    <3>1. CASE InsertRow(a)
      <4>1. status' = [status EXCEPT ![rows + 1] = "PENDING"]
        BY <3>1 DEF InsertRow
      <4> QED
        BY <1>1, <2>1, <4>1
    <3>2. CASE Release(a)
      <4>1. status' = [status EXCEPT ![wants[a].row] = "REMOVED"]
        BY <3>2 DEF Release
      <4> QED
        BY <1>1, <2>1, <4>1
    <3>3. CASE UNCHANGED table
      BY <1>1, <3>3 DEF table
    <3> QED
      BY <2>3, <3>1, <3>2, <3>3 DEF Connect, AskConnect, Triggered, TriggerThrows, Refused
  <2>4. ASSUME TaskStep \/ TaskThrows, ~Record PROVE FALSE
    <3>1. CASE Attached
      <4>1. \/ status' = status
            \/ status[row] = "PENDING" /\ status' = [status EXCEPT ![row] = "NEEDS_DNS"]
        BY <3>1 DEF Attached
      <4> QED
        BY <1>1, <2>1, <4>1
    <3>2. CASE Removed
      BY <1>1, <2>1, <3>2 DEF Removed
    <3>3. CASE FailRun
      <4>1. status' = status \/ status' = [status EXCEPT ![row] = "FAILED"]
        BY <3>3 DEF FailRun, Fail
      <4> QED
        BY <1>1, <2>1, <4>1
    <3>4. CASE UNCHANGED table
      BY <1>1, <3>4 DEF table
    <3> QED
      BY <2>4, <3>1, <3>2, <3>3, <3>4
         DEF TaskStep, TaskThrows, Throws, ProjectGone, Prove, AddName, AddWww, CheckName,
             RemoveName, RemoveWww
  <2>5. ASSUME NEW s \in Ids,
               \/ checkCustomDomain(s) \/ removeCustomDomain(s)
               \/ Recheck(s) \/ ReleaseUnfinished(s) \/ GrowsOld(s) \/ TakenOff(s)
        PROVE  FALSE
    <3>1. status' = status \/ status' = [status EXCEPT ![s] = "REMOVING"]
      BY <2>5 DEF checkCustomDomain, Recheck, Begin, removeCustomDomain, ReleaseUnfinished,
                  GrowsOld, TakenOff, table
    <3> QED
      BY <1>1, <2>1, <3>1
  <2>6. ASSUME NEW a \in Apps, DeleteProject(a) \/ CommitDeletion(a) PROVE FALSE
    <3>1. \/ status' = status
          \/ status' = [s \in Ids |-> IF s \in Rows /\ app[s] = a THEN "REMOVED" ELSE status[s]]
      BY <2>6 DEF DeleteProject, CommitDeletion
    <3> QED
      BY <1>1, <2>1, <3>1
  <2>7. CASE UNCHANGED vars
    BY <1>1, <2>7 DEF vars, table
  <2> QED
    BY <1>1, <2>2, <2>3, <2>4, <2>5, <2>6, <2>7 DEF Next
<1>2. IInv /\ [Next]_vars =>
        [\A r \in Rows : (status[r] = "ACTIVE" /\ status'[r] \in {"NEEDS_DNS", "SECURING"})
                            => r \in failed]_vars
  BY <1>1
<1> QED
  BY <1>2, Invariance, PTL DEF Spec, DemotedAfterTwoInARow

=============================================================================
