------------------------- MODULE DeploymentLifecycle -------------------------
(***************************************************************************)
(* What one deployment row promises to everybody who reads it: its status  *)
(* moves along the transition table of deployment-state.mjs, the provider  *)
(* build it points at can only change while it is BUILDING, it goes on     *)
(* from BUILDING only with a build attached, and a failed attempt is not   *)
(* queued again (a retry is a new row).                                    *)
(*                                                                         *)
(* No task consults the table at run time, only its unit test does: that   *)
(* they respect it has to be shown, and the detailed modules instantiate   *)
(* this one and are checked against Spec.                                  *)
(*                                                                         *)
(* status: deployments.status                                              *)
(* build:  deployment_builds.provider_deployment_id, NULL without a row    *)
(***************************************************************************)

CONSTANTS Builds,   \* the ids the provider can give to its deployments
          NULL      \* no build attached

VARIABLES status, build

vars == <<status, build>>

DeploymentStatus ==
  { "DRAFT", "READY", "QUEUED", "ANALYZING", "PROVISIONING", "BUILDING",
    "DEPLOYING", "HEALTH_CHECKING", "LIVE", "FAILED", "DELETING", "DELETED" }

\* The statuses each status may move to.
transitions ==
  [ s \in DeploymentStatus |->
      CASE s = "DRAFT"           -> {"READY", "DELETING"}
        [] s = "READY"           -> {"QUEUED", "DELETING"}
        [] s = "QUEUED"          -> {"ANALYZING", "FAILED", "DELETING"}
        [] s = "ANALYZING"       -> {"PROVISIONING", "BUILDING", "FAILED", "DELETING"}
        [] s = "PROVISIONING"    -> {"BUILDING", "FAILED", "DELETING"}
        [] s = "BUILDING"        -> {"DEPLOYING", "FAILED", "DELETING"}
        [] s = "DEPLOYING"       -> {"HEALTH_CHECKING", "FAILED", "DELETING"}
        [] s = "HEALTH_CHECKING" -> {"LIVE", "FAILED", "DELETING"}
        [] s = "LIVE"            -> {"DELETING"}
        [] s = "FAILED"          -> {"QUEUED", "DELETING"}
        [] s = "DELETING"        -> {"DELETED", "FAILED"}
        [] s = "DELETED"         -> {} ]

canTransition(from, to) == to \in transitions[from]

PastBuild == {"DEPLOYING", "HEALTH_CHECKING", "LIVE"}

-----------------------------------------------------------------------------

\* An observer may start to watch the row anywhere in its life.
Init ==
  /\ status \in DeploymentStatus
  /\ build \in Builds \cup {NULL}
  /\ status \in PastBuild => build # NULL

\* The row moves one step along the table.
Move ==
  /\ \E s \in DeploymentStatus :
       /\ canTransition(status, s)
       /\ status = "FAILED" => s # "QUEUED"
       /\ s \in PastBuild => build # NULL
       /\ status' = s
  /\ UNCHANGED build

\* A provider deployment becomes the build of the row.
Attach ==
  /\ status = "BUILDING"
  /\ build' \in Builds
  /\ UNCHANGED status

Next == Move \/ Attach

Spec == Init /\ [][Next]_vars
=============================================================================
