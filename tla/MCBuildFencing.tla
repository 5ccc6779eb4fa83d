--------------------------- MODULE MCBuildFencing ---------------------------
(***************************************************************************)
(* Instances of BuildFencing for TLC. Runs and provider ids are treated    *)
(* alike everywhere, so they are symmetric.                                *)
(***************************************************************************)
EXTENDS BuildFencing, TLC

Symmetry == Permutations(Runs) \cup Permutations(RemoteIds)
=============================================================================
