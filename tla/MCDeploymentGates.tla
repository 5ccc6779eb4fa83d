-------------------------- MODULE MCDeploymentGates --------------------------
(* The instance of DeploymentGates that TLC checks: runs are               *)
(* interchangeable, and so are the two kinds of commit that read a         *)
(* variable, which together read more variables than the policy allows.    *)
EXTENDS DeploymentGates, TLC

CONSTANTS k1, k2, q1

MCKeys == {k1, k2}
MCSources == {{k1}, {k2}, {}}
MCSymmetry == Permutations(Runs) \cup Permutations(MCKeys)

\* An app whose commits read variables, with two runs and one request at a
\* time, or one without configuration, with one run and two requests.
MCConstraint ==
  LET used == {uses[d] : d \in Rows}
      busy == {r \in Runs : pc[r] # "idle"}
  IN \/ {} \notin used /\ UnderWay \subseteq {q1}
     \/ used \subseteq {{}} /\ Cardinality(busy) <= 1
=============================================================================
