---------------------------- MODULE MCCustomDomains ----------------------------
(* Instances of CustomDomains for TLC: an apex and its www.                *)
EXTENDS CustomDomains

CONSTANTS a1, a2, apex, wwwApex, nowhere

\* 'www.' || name; a name that is nobody's here for the others.
MCWww(n) == IF n = apex THEN wwwApex ELSE nowhere

\* Every app belongs to a workspace of its own.
MCWorkspace(a) == a

\* The app a1 has the apex, the app a2 may also ask for its www by name.
MCMayWant == [a \in Apps |-> IF a = a1 THEN {apex} ELSE {apex, wwwApex}]

=============================================================================
