------------------------------- MODULE McpGrants -------------------------------
(***************************************************************************)
(* The grants AI tools hold on a workspace: one customer signs in, a       *)
(* client registers, asks for consent, redeems a code for the first token  *)
(* row of a family and rotates it; the customer removes grants from the    *)
(* panel. Requests of the token endpoint run at once, die between two      *)
(* statements, and their answers get lost, so an old refresh token comes   *)
(* back: presenting any row at any time stands for that.                   *)
(*                                                                         *)
(*   workspaces   workspaces the customer is a member of                   *)
(*   visit        browser sessions: "away", "creating" (inside the         *)
(*                transaction of ensureInitialWorkspace), "signedIn"       *)
(*   asked        the client whose consent screen a session shows          *)
(*   client       mcp_clients: "none", "public" or "confidential"          *)
(*   disabled     clients with disabled_at                                 *)
(*   code         mcp_authorization_codes, in order of creation            *)
(*   row          mcp_tokens, in order of creation; a family is named by   *)
(*                its first row                                            *)
(*   doing, arg   a token request: its step, its code or row,              *)
(*   saw          and what it read of the row under the locks              *)
(*   offered      families the panel shows with a "Remove access" button   *)
(*   removing     the family of a running revokeTokenFamily, 0 for none,   *)
(*   snapshot     and the rows its UPDATE found when it began              *)
(*                                                                         *)
(* Token values, names, addresses and the funnel counters are left out;    *)
(* secrets, redirect_uri and the PKCE verifier are right or wrong. A       *)
(* refused request that writes nothing, expired code and refresh token     *)
(* included, is DropRequest or no step at all; a family is past its        *)
(* maximum age as soon as a rotation finds it so, which ends it.           *)
(***************************************************************************)
EXTENDS Naturals, FiniteSets

CONSTANTS
  Visits,         \* browser sessions of the customer
  Clients,        \* OAuth clients that may register
  TokenRequests,  \* requests at the token endpoint in flight together
  MaxCodes,       \* bound on the authorization codes
  MaxRows         \* bound on the token rows

VARIABLES workspaces, visit, asked, client, disabled, code, row,
          doing, arg, saw, offered, removing, snapshot,
          issuedFor,  \* history: the code each family was issued for
          ended       \* history: families ended by reuse or age, or shown as removed

signIn     == <<workspaces, visit>>
consent    == <<asked, client, disabled>>
tokens     == <<row, issuedFor>>
requests   == <<doing, arg, saw>>
panel      == <<offered, removing, snapshot>>
grantsVars == <<signIn, consent, code, tokens, requests, panel, ended>>

Ids     == 1..MaxRows
CodeIds == 1..MaxCodes
NoRow   == [family |-> 0, rotated |-> FALSE, revoked |-> FALSE]
NoCode  == [client |-> "none", pkce |-> FALSE, used |-> FALSE]

ASSUME GrantsAssumption ==
  /\ MaxCodes \in Nat \ {0} /\ MaxRows \in Nat \ {0}
  /\ "none" \notin Clients

TokenRows == { r \in Ids : row[r].family # 0 }
Families  == { row[r].family : r \in TokenRows }
Codes     == { c \in CodeIds : code[c].client # "none" }
Of(f)     == { r \in TokenRows : row[r].family = f }

(***************************************************************************)
(* What these tables may hold. A row that exists belongs to a family named *)
(* by a row that exists; a code belongs to a registered client, a public   *)
(* one only with PKCE; a consent screen shows a registered client.         *)
(***************************************************************************)
GrantsTypeOK ==
  /\ workspaces \in Nat
  /\ visit \in [Visits -> {"away", "creating", "signedIn"}]
  /\ asked \in [Visits -> Clients \cup {"none"}]
  /\ client \in [Clients -> {"none", "public", "confidential"}]
  /\ disabled \subseteq Clients
  /\ code \in [CodeIds -> [client : Clients \cup {"none"}, pkce : BOOLEAN, used : BOOLEAN]]
  /\ row \in [Ids -> [family : 0..MaxRows, rotated : BOOLEAN, revoked : BOOLEAN]]
  /\ ended \subseteq Ids /\ offered \subseteq Ids
  /\ issuedFor \in [Ids -> 0..MaxCodes]
  /\ doing \in [TokenRequests -> {"idle", "claimed", "located", "locked"}]
  /\ arg \in [TokenRequests -> {0} \cup Ids \cup CodeIds]
  /\ saw \in [TokenRequests -> [family : 0..MaxRows, rotated : BOOLEAN, revoked : BOOLEAN]]
  /\ removing \in 0..MaxRows /\ snapshot \subseteq Ids
  /\ \A r \in TokenRows : row[r].family \in TokenRows /\ row[r].family <= r
  /\ \A c \in Codes : /\ client[code[c].client] # "none"
                      /\ client[code[c].client] = "public" => code[c].pkce
  /\ \A v \in Visits : asked[v] # "none" => client[asked[v]] # "none"

GrantsInit ==
  /\ workspaces = 0
  /\ visit = [v \in Visits |-> "away"]
  /\ asked = [v \in Visits |-> "none"]
  /\ client = [k \in Clients |-> "none"]
  /\ disabled = {}
  /\ code = [c \in CodeIds |-> NoCode]
  /\ row = [r \in Ids |-> NoRow]
  /\ ended = {} /\ offered = {}
  /\ issuedFor = [r \in Ids |-> 0]
  /\ doing = [t \in TokenRequests |-> "idle"]
  /\ arg = [t \in TokenRequests |-> 0]
  /\ saw = [t \in TokenRequests |-> NoRow]
  /\ removing = 0 /\ snapshot = {}

-----------------------------------------------------------------------------
(* Signing in. completeSignIn, the callbacks and /api/mcp/authorize all    *)
(* come through ensureInitialWorkspace.                                    *)

\* (mutant) the look-up is not under the advisory lock
InitialWorkspaceUnlocked == TRUE

InitialWorkspaceLock == \A v \in Visits : visit[v] # "creating"

SignIn(v) ==
  /\ visit[v] = "away" /\ InitialWorkspaceLock
  /\ visit' = [visit EXCEPT ![v] = IF workspaces > 0 THEN "signedIn" ELSE "creating"]
  /\ UNCHANGED <<workspaces, consent, code, tokens, requests, panel, ended>>

CreateWorkspace(v) ==
  /\ visit[v] = "creating"
  /\ workspaces' = workspaces + 1
  /\ visit' = [visit EXCEPT ![v] = "signedIn"]
  /\ UNCHANGED <<consent, code, tokens, requests, panel, ended>>

\* The request dies and rolls back, the customer signs out, or the seal expires.
Leave(v) ==
  /\ visit[v] # "away"
  /\ visit' = [visit EXCEPT ![v] = "away"]
  /\ UNCHANGED <<workspaces, consent, code, tokens, requests, panel, ended>>

-----------------------------------------------------------------------------
(* Registration, the authorization endpoint and the decision.              *)

registerMcpClient(k) ==
  /\ client[k] = "none"
  /\ \E authMethod \in {"public", "confidential"} : client' = [client EXCEPT ![k] = authMethod]
  /\ UNCHANGED <<signIn, asked, disabled, code, tokens, requests, panel, ended>>

DisableClient(k) ==
  /\ client[k] # "none" /\ k \notin disabled
  /\ disabled' = disabled \cup {k}
  /\ UNCHANGED <<signIn, asked, client, code, tokens, requests, panel, ended>>

resolveMcpClient(k) == client[k] # "none" /\ k \notin disabled

checkPkceRequest(k, pkce) == pkce \/ client[k] = "confidential"

Authorize(v, k) ==
  /\ visit[v] = "signedIn" /\ asked[v] = "none"
  /\ resolveMcpClient(k)
  /\ asked' = [asked EXCEPT ![v] = k]
  /\ UNCHANGED <<signIn, client, disabled, code, tokens, requests, panel, ended>>

Deny(v) ==
  /\ asked[v] # "none"
  /\ asked' = [asked EXCEPT ![v] = "none"]
  /\ UNCHANGED <<signIn, client, disabled, code, tokens, requests, panel, ended>>

NextCode == Cardinality(Codes) + 1

createAuthorizationCode(v, pkce) ==
  /\ resolveMcpClient(asked[v]) /\ checkPkceRequest(asked[v], pkce)
  /\ NextCode \in CodeIds
  /\ code' = [code EXCEPT ![NextCode] =
                [client |-> asked[v], pkce |-> pkce, used |-> FALSE]]
  /\ asked' = [asked EXCEPT ![v] = "none"]
  /\ UNCHANGED <<signIn, client, disabled, tokens, requests, panel, ended>>

Allow(v, pkce) ==
  /\ asked[v] # "none" /\ visit[v] = "signedIn"
  /\ createAuthorizationCode(v, pkce)

-----------------------------------------------------------------------------
(* The token endpoint: authorization_code.                                 *)

Go(t, step, what) == doing' = [doing EXCEPT ![t] = step] /\ arg' = [arg EXCEPT ![t] = what]

Stop(t) == Go(t, "idle", 0) /\ saw' = [saw EXCEPT ![t] = NoRow]

checkSentSecret(k, sent) == sent = "right" => client[k] = "confidential"

\* (mutant) the claim forgets used_at IS NULL
ClaimableTwice(c) == c \in Codes

Claimable(c) == ~code[c].used

\* The claim burns the code also when a check after it fails.
ClaimCode(t, c, sent, sameUri, verified) ==
  /\ doing[t] = "idle" /\ c \in Codes
  /\ resolveMcpClient(code[c].client) /\ checkSentSecret(code[c].client, sent)
  /\ Claimable(c)
  /\ code' = [code EXCEPT ![c].used = TRUE]
  /\ IF sameUri /\ (IF code[c].pkce THEN verified ELSE sent = "right")
       THEN Go(t, "claimed", c)
       ELSE UNCHANGED <<doing, arg>>
  /\ UNCHANGED <<signIn, consent, tokens, saw, panel, ended>>

NextRow == Cardinality(TokenRows) + 1

issueTokenPair(f) ==
  /\ NextRow \in Ids
  /\ row' = [row EXCEPT ![NextRow] = [family |-> f, rotated |-> FALSE, revoked |-> FALSE]]

IssueFirstPair(t) ==
  /\ doing[t] = "claimed"
  /\ issueTokenPair(NextRow)
  /\ issuedFor' = [issuedFor EXCEPT ![NextRow] = arg[t]]
  /\ Stop(t)
  /\ UNCHANGED <<signIn, consent, code, panel, ended>>

-----------------------------------------------------------------------------
(* The token endpoint: refresh_token.                                      *)

LocateRow(t, r) ==
  /\ doing[t] = "idle" /\ r \in TokenRows
  /\ resolveMcpClient(code[issuedFor[row[r].family]].client)
  /\ Go(t, "located", r)
  /\ UNCHANGED <<signIn, consent, code, tokens, saw, panel, ended>>

InRotation == { t \in TokenRequests : doing[t] = "locked" }

\* (mutant) only the row is locked, not the family
RowLock(r) == \A t \in InRotation : arg[t] # r

FamilyLock(r) == \A t \in InRotation : row[arg[t]].family # row[r].family

LockAndRead(t) ==
  /\ doing[t] = "located" /\ FamilyLock(arg[t])
  /\ doing' = [doing EXCEPT ![t] = "locked"]
  /\ saw' = [saw EXCEPT ![t] = row[arg[t]]]
  /\ UNCHANGED <<signIn, consent, code, tokens, arg, panel, ended>>

Sweep(f) == row' = [r \in Ids |-> IF r \in Of(f) THEN [row[r] EXCEPT !.revoked = TRUE] ELSE row[r]]

\* Reuse of a rotated token, or a family past its age, ends the family.
EndFamily(t) ==
  /\ doing[t] = "locked"
  /\ \/ saw[t].rotated
     \/ ~saw[t].revoked
  /\ Sweep(saw[t].family)
  /\ ended' = ended \cup {saw[t].family}
  /\ Stop(t)
  /\ UNCHANGED <<signIn, consent, code, issuedFor, panel>>

Rotate(t) ==
  /\ doing[t] = "locked"
  /\ ~saw[t].rotated /\ ~saw[t].revoked
  /\ NextRow \in Ids
  /\ row' = [row EXCEPT ![arg[t]].rotated = TRUE,
                        ![NextRow] = [family |-> saw[t].family, rotated |-> FALSE, revoked |-> FALSE]]
  /\ Stop(t)
  /\ UNCHANGED <<signIn, consent, code, issuedFor, panel, ended>>

\* The request dies, is refused or rolls back: nothing more is written.
DropRequest(t) ==
  /\ doing[t] # "idle"
  /\ Stop(t)
  /\ UNCHANGED <<signIn, consent, code, tokens, panel, ended>>

-----------------------------------------------------------------------------
(* The panel: listTokenFamilies and revokeTokenFamily. The revoke takes no *)
(* family lock: its UPDATE works on the rows committed when it began and   *)
(* waits for those a transaction holds.                                    *)

AllRevoked(f) == \A r \in Of(f) : row[r].revoked

LoadGrants ==
  /\ removing = 0
  /\ offered' = { f \in Families : ~AllRevoked(f) }
  /\ ended' = ended \cup (Families \ offered')
  /\ UNCHANGED <<signIn, consent, code, tokens, requests, removing, snapshot>>

BeginRevoke(f) ==
  /\ removing = 0 /\ f \in offered
  /\ removing' = f /\ snapshot' = { r \in Of(f) : ~row[r].revoked }
  /\ UNCHANGED <<signIn, consent, code, tokens, requests, offered, ended>>

\* (mutant) a rotation reads its row without FOR UPDATE
NothingToWaitFor == TRUE

RowsFree == \A t \in InRotation : arg[t] \notin snapshot

EndRevoke ==
  /\ removing # 0 /\ RowsFree
  /\ row' = [r \in Ids |-> IF r \in snapshot THEN [row[r] EXCEPT !.revoked = TRUE] ELSE row[r]]
  /\ removing' = 0 /\ snapshot' = {}
  /\ UNCHANGED <<signIn, consent, code, issuedFor, requests, offered, ended>>

GrantsNext ==
  \/ \E v \in Visits :
       \/ SignIn(v) \/ CreateWorkspace(v) \/ Leave(v) \/ Deny(v)
       \/ \E k \in Clients : Authorize(v, k)
       \/ \E pkce \in BOOLEAN : Allow(v, pkce)
  \/ \E k \in Clients : registerMcpClient(k) \/ DisableClient(k)
  \/ \E t \in TokenRequests :
       \/ \E c \in CodeIds, sent \in {"none", "right"}, sameUri, verified \in BOOLEAN :
            ClaimCode(t, c, sent, sameUri, verified)
       \/ IssueFirstPair(t)
       \/ \E r \in Ids : LocateRow(t, r)
       \/ LockAndRead(t) \/ EndFamily(t) \/ Rotate(t) \/ DropRequest(t)
  \/ LoadGrants \/ EndRevoke
  \/ \E f \in Ids : BeginRevoke(f)

GrantsSpec == GrantsInit /\ [][GrantsNext]_grantsVars

-----------------------------------------------------------------------------

\* verifyAccessToken, for an access token within its hour.
Accepted(r) == r \in TokenRows /\ ~row[r].revoked

(***************************************************************************)
(* A family that ended (its rotated token came back, it reached its        *)
(* maximum age, or the panel has shown it as "Access removed") has no row  *)
(* whose access token is accepted, then or later: not even when a rotation *)
(* of its newest token was in flight at that moment (the two locks of      *)
(* rotateRefreshToken).                                                    *)
(***************************************************************************)
EndedStaysEnded == \A f \in ended, r \in Ids : row[r].family = f => ~Accepted(r)

(***************************************************************************)
(* One consent gives one family: two requests redeeming the same code, or  *)
(* one repeated after a lost answer, never both get tokens (the claim of   *)
(* exchangeAuthorizationCode).                                             *)
(***************************************************************************)
OneFamilyPerCode == \A f, g \in Families : issuedFor[f] = issuedFor[g] => f = g

(***************************************************************************)
(* Signing in from two places at once for the first time gives the         *)
(* customer one workspace (the advisory lock of ensureInitialWorkspace).   *)
(***************************************************************************)
FirstWorkspaceOnce == workspaces <= 1

=============================================================================
