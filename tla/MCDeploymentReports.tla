------------------------ MODULE MCDeploymentReports ------------------------
(* The instance of DeploymentReports that TLC checks: the tasks in flight  *)
(* are interchangeable.                                                    *)
EXTENDS DeploymentReports, TLC

\* One report of each behaviour: nothing it says changes once it has read.
MCConstraint == ~Reported

\* Events beside those of a deployment that goes live at once.
Asides == {i \in 1 .. Len(events) : events[i].type \notin
  {"STATUS_CHANGED", "ENV_REQUIREMENTS_VERIFIED", "RUNTIME_PROVISIONED", "BUILD_STARTED", "BUILD_SUCCEEDED",
   "HEALTH_CHECK_STARTED", "HEALTH_CHECK_PASSED", "PUBLIC_ACCESS_VERIFIED"}}

MCAside == Cardinality(Asides) <= 1

MCLive == reader.row = NULL \/ reader.row.status = "LIVE"

MCSymmetry == Permutations(Tasks)
=============================================================================
