----------------------------- MODULE MCMcpGrants -----------------------------
(* The instance of McpGrants that TLC checks: sessions and requests are    *)
(* interchangeable.                                                        *)
EXTENDS McpGrants, TLC

MCSymmetry == Permutations(Visits) \cup Permutations(TokenRequests)
=============================================================================
