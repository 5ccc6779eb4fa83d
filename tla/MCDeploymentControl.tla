------------------------- MODULE MCDeploymentControl -------------------------
(* Two requests at a time, any number one after another, on one app: one    *)
(* analyses for a push or a person, the other is somebody at the page of    *)
(* the deployments; or two people at that page; or two pushes at a time.    *)
EXTENDS DeploymentControl, TLC

CONSTANTS q1, q2

MCRequests == {q1, q2}
MCKinds    == (q1 :> {"push", "analyse"})
              @@ (q2 :> {"start", "retry", "redeploy", "rollback", "watch"})

\* An analysis by hand of a commit that has its row writes nothing and starts
\* nothing: its end is left out.
MCConstraint ==
  \A q \in MCRequests : At(q, "persist") /\ ~push[q] => Reusable(seen[q]) = {}

MCWatchers == [q \in MCRequests |-> {"start", "watch"}]
MCPushes   == [q \in MCRequests |-> {"push", "start"}]
=============================================================================
