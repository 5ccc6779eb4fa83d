----------------------------- MODULE MCAppPage -----------------------------
(* The instance of AppPage that TLC checks.                                *)
EXTENDS AppPage

\* The page of an uploaded app at any point, a live app from GitHub, and a
\* new app.
MCOpenings ==
  {[page |-> "uploaded", status |-> s] : s \in {"ANALYZING", "BUILDING", "LIVE", "FAILED"}} \cup
  {[page |-> "app", status |-> "LIVE"], [page |-> "new", status |-> Nothing]}
=============================================================================
