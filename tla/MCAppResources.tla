--------------------------- MODULE MCAppResources ---------------------------
(***************************************************************************)
(* Instances of AppResources for TLC.                                      *)
(***************************************************************************)
EXTENDS AppResources, TLC

Symmetry == Permutations(Deployments) \cup Permutations(Provisioners)
=============================================================================
