--------------------------- MODULE MCWorkspaceApps ---------------------------
(* The instance of WorkspaceApps that TLC checks: requests and names are   *)
(* interchangeable.                                                        *)
EXTENDS WorkspaceApps, TLC

MCSymmetry == Permutations(Requests) \cup Permutations(Names)
=============================================================================
