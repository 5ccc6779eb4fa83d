--------------------------- MODULE MCReleaseGate ----------------------------
(***************************************************************************)
(* Instances of ReleaseGate for TLC. No symmetry: some of its properties   *)
(* are about what must happen in the end.                                  *)
(***************************************************************************)
EXTENDS ReleaseGate
=============================================================================
