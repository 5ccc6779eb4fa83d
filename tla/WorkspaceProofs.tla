--------------------------- MODULE WorkspaceProofs ---------------------------
(***************************************************************************)
(* Theorems about a workspace: about the grants that AI tools hold on it   *)
(* (McpGrants), then about the apps that come to be in it (WorkspaceApps). *)
(***************************************************************************)
EXTENDS McpGrants, WorkspaceApps, FiniteSetTheorems, TLAPS

(***************************************************************************)
(* Proofs, for any number of sessions, clients, requests, codes and token  *)
(* rows, that a family that ended stays without accepted tokens, that one  *)
(* consent gives one family, and that a customer gets one first workspace. *)
(*                                                                         *)
(* A rotation adds a row to a family it read some steps ago, so the first  *)
(* rests on what a request inside its transaction knows: the row it holds  *)
(* is still as it read it (SawTheRow), and no other request is in a        *)
(* transaction on the family (OnePerFamily). The second rests on codes     *)
(* being claimed once: a request that claimed one is the only one that     *)
(* holds it, and no family was issued for it yet (ClaimHeld).              *)
(***************************************************************************)

\* Rows and codes are numbered without gaps, so the next number is free.
Numbered ==
  /\ \E n \in 0..MaxRows : TokenRows = 1..n
  /\ \E n \in 0..MaxCodes : Codes = 1..n

SawTheRow ==
  \A t \in TokenRequests :
    /\ doing[t] = "located" => arg[t] \in TokenRows
    /\ doing[t] = "locked" => arg[t] \in TokenRows /\ saw[t] = row[arg[t]]

OnePerFamily ==
  \A t, u \in InRotation : t # u => row[arg[t]].family # row[arg[u]].family

EndedExists == ended \subseteq TokenRows

\* Codes that a family was issued for are used, each for one family.
IssuedOnce ==
  /\ \A f \in Families : issuedFor[f] # 0
  /\ \A r \in Ids : issuedFor[r] # 0 => issuedFor[r] \in Codes /\ code[issuedFor[r]].used
  /\ \A r, s \in Ids : issuedFor[r] # 0 /\ issuedFor[r] = issuedFor[s] => r = s

ClaimHeld ==
  \A t \in TokenRequests : doing[t] = "claimed" =>
    /\ arg[t] \in Codes /\ code[arg[t]].used
    /\ \A r \in Ids : issuedFor[r] # arg[t]
    /\ \A u \in TokenRequests : doing[u] = "claimed" /\ arg[u] = arg[t] => u = t

\* Whoever creates the first workspace is alone in doing so.
CreatorAlone ==
  /\ workspaces <= 1
  /\ \A v \in Visits : visit[v] = "creating" =>
       workspaces = 0 /\ \A w \in Visits : visit[w] = "creating" => w = v

GrantsInv ==
  /\ GrantsTypeOK /\ Numbered
  /\ SawTheRow /\ OnePerFamily /\ EndedExists /\ EndedStaysEnded
  /\ IssuedOnce /\ ClaimHeld
  /\ CreatorAlone

LEMMA InitGrants == GrantsInit => GrantsInv
<1> SUFFICES ASSUME GrantsInit PROVE GrantsInv
  OBVIOUS
<1> USE GrantsAssumption DEF GrantsInit
<1>1. TokenRows = {} /\ Codes = {} /\ Families = {}
  BY DEF TokenRows, Codes, Families, NoRow, NoCode
<1>2. GrantsTypeOK
  BY <1>1 DEF GrantsTypeOK, NoRow, NoCode, Ids, CodeIds
<1>3. Numbered
  <2>1. TokenRows = 1..0 /\ Codes = 1..0
    BY <1>1
  <2> QED
    BY <2>1 DEF Numbered
<1>4. SawTheRow /\ OnePerFamily /\ EndedExists /\ EndedStaysEnded
  BY DEF SawTheRow, OnePerFamily, InRotation, EndedExists, EndedStaysEnded
<1>5. IssuedOnce /\ ClaimHeld /\ CreatorAlone
  BY <1>1 DEF IssuedOnce, ClaimHeld, CreatorAlone
<1> QED
  BY <1>2, <1>3, <1>4, <1>5 DEF GrantsInv

-----------------------------------------------------------------------------
(* Rows and codes.                                                         *)

\* The numbers up to n are counted by n.
LEMMA GrantsCounted == ASSUME NEW n \in Nat PROVE Cardinality(1..n) = n
  BY FS_Interval

LEMMA NextRowIsNext ==
  ASSUME Numbered, GrantsAssumption
  PROVE  \E n \in 0..MaxRows : TokenRows = 1..n /\ NextRow = n + 1
<1>1. PICK n \in 0..MaxRows : TokenRows = 1..n
  BY DEF Numbered
<1> QED
  BY <1>1, GrantsCounted DEF NextRow

LEMMA NextCodeIsNext ==
  ASSUME Numbered, GrantsAssumption
  PROVE  \E n \in 0..MaxCodes : Codes = 1..n /\ NextCode = n + 1
<1>1. PICK n \in 0..MaxCodes : Codes = 1..n
  BY DEF Numbered
<1> QED
  BY <1>1, GrantsCounted DEF NextCode

\* An UPDATE of token rows that leaves their families alone.
LEMMA RowsKept ==
  ASSUME GrantsTypeOK, \A r \in Ids : row'[r].family = row[r].family
  PROVE  TokenRows' = TokenRows /\ Families' = Families /\ \A f : Of(f)' = Of(f)
  BY DEF TokenRows, Families, Of

\* The INSERT of a token row.
LEMMA RowAdded ==
  ASSUME GrantsTypeOK, Numbered, NextRow \in Ids, row'[NextRow].family # 0,
         \A r \in Ids \ {NextRow} : row'[r].family = row[r].family
  PROVE  /\ NextRow \notin TokenRows /\ TokenRows' = TokenRows \cup {NextRow}
         /\ Families' = Families \cup {row'[NextRow].family}
         /\ \E n \in 0..MaxRows : TokenRows' = 1..n
<1>1. PICK n \in 0..MaxRows : TokenRows = 1..n /\ NextRow = n + 1
  BY NextRowIsNext, GrantsAssumption
<1>2. NextRow \notin TokenRows
  BY <1>1
<1>3. TokenRows' = TokenRows \cup {NextRow}
  BY <1>2 DEF TokenRows
<1>4. Families' = Families \cup {row'[NextRow].family}
  BY <1>2, <1>3 DEF Families, TokenRows
<1>5. TokenRows' = 1..n + 1 /\ n + 1 \in 0..MaxRows
  BY <1>1, <1>3 DEF Ids
<1> QED
  BY <1>2, <1>3, <1>4, <1>5

-----------------------------------------------------------------------------
(* The sessions of the customer and the consent screen.                    *)

LEMMA SessionKeeps ==
  ASSUME GrantsInv, NEW v \in Visits, SignIn(v) \/ CreateWorkspace(v) \/ Leave(v)
  PROVE  GrantsInv'
<1> USE DEF GrantsInv, SignIn, CreateWorkspace, Leave
<1>1. UNCHANGED <<consent, code, tokens, requests, panel, ended>>
  OBVIOUS
<1>2. GrantsTypeOK'
  BY <1>1 DEF GrantsTypeOK, consent, tokens, requests, panel, TokenRows, Codes
<1>3. CreatorAlone'
  BY DEF CreatorAlone, GrantsTypeOK, InitialWorkspaceLock
<1>4. Numbered' /\ SawTheRow' /\ OnePerFamily' /\ EndedExists' /\ EndedStaysEnded'
  BY <1>1 DEF Numbered, SawTheRow, OnePerFamily, InRotation, EndedExists, EndedStaysEnded,
              Accepted, TokenRows, Codes, tokens, requests
<1>5. IssuedOnce' /\ ClaimHeld'
  BY <1>1 DEF IssuedOnce, ClaimHeld, Families, TokenRows, Codes, tokens, requests
<1> QED
  BY <1>2, <1>3, <1>4, <1>5

LEMMA ConsentKeeps ==
  ASSUME GrantsInv,
         \/ \E v \in Visits : Deny(v) \/ \E k \in Clients : Authorize(v, k)
         \/ \E k \in Clients : registerMcpClient(k) \/ DisableClient(k)
  PROVE  GrantsInv'
<1> USE DEF GrantsInv, Deny, Authorize, registerMcpClient, DisableClient
<1>1. UNCHANGED <<signIn, code, tokens, requests, panel, ended>>
  OBVIOUS
<1>2. GrantsTypeOK'
  <2>1. /\ asked' \in [Visits -> Clients \cup {"none"}]
        /\ client' \in [Clients -> {"none", "public", "confidential"}]
        /\ disabled' \subseteq Clients
    BY DEF GrantsTypeOK
  <2>2. /\ \A c \in Codes : code[c].client \in Clients
        /\ \A k \in Clients : client[k] # "none" => client'[k] = client[k]
    BY DEF GrantsTypeOK, Codes
  <2>3. \A c \in Codes : /\ client'[code[c].client] # "none"
                        /\ client'[code[c].client] = "public" => code[c].pkce
    BY <2>2 DEF GrantsTypeOK
  <2>4. \A v \in Visits : asked'[v] # "none" => client'[asked'[v]] # "none"
    BY <2>2 DEF GrantsTypeOK, resolveMcpClient
  <2> QED
    BY <1>1, <2>1, <2>3, <2>4 DEF GrantsTypeOK, signIn, tokens, requests, panel, TokenRows, Codes
<1>3. Numbered' /\ SawTheRow' /\ OnePerFamily' /\ EndedExists' /\ EndedStaysEnded'
  BY <1>1 DEF Numbered, SawTheRow, OnePerFamily, InRotation, EndedExists, EndedStaysEnded,
              Accepted, TokenRows, Codes, tokens, requests
<1>4. IssuedOnce' /\ ClaimHeld' /\ CreatorAlone'
  BY <1>1 DEF IssuedOnce, ClaimHeld, CreatorAlone, Families, TokenRows, Codes, tokens, requests, signIn
<1> QED
  BY <1>2, <1>3, <1>4

-----------------------------------------------------------------------------
(* Codes.                                                                  *)

LEMMA AllowKeeps ==
  ASSUME GrantsInv, NEW v \in Visits, NEW pkce \in BOOLEAN, Allow(v, pkce)
  PROVE  GrantsInv'
<1> USE DEF GrantsInv
<1>1. PICK n \in 0..MaxCodes : Codes = 1..n /\ NextCode = n + 1
  BY NextCodeIsNext, GrantsAssumption
<1>2. /\ asked[v] \in Clients /\ client[asked[v]] # "none"
      /\ client[asked[v]] = "public" => pkce
  BY DEF Allow, createAuthorizationCode, resolveMcpClient, checkPkceRequest, GrantsTypeOK
<1>3. /\ NextCode \in CodeIds /\ NextCode \notin Codes
      /\ code' = [code EXCEPT ![NextCode] = [client |-> asked[v], pkce |-> pkce, used |-> FALSE]]
      /\ asked' = [asked EXCEPT ![v] = "none"]
      /\ UNCHANGED <<signIn, client, disabled, tokens, requests, panel, ended>>
  BY <1>1 DEF Allow, createAuthorizationCode
<1>4. Codes' = Codes \cup {NextCode}
  BY <1>2, <1>3, GrantsAssumption DEF Codes, GrantsTypeOK
<1>5. \A c \in Codes : code'[c] = code[c]
  BY <1>3 DEF Codes, GrantsTypeOK
<1>6. GrantsTypeOK'
  <2>1. code' \in [CodeIds -> [client : Clients \cup {"none"}, pkce : BOOLEAN, used : BOOLEAN]]
    BY <1>2, <1>3 DEF GrantsTypeOK
  <2>2. \A c \in Codes' : /\ client[code'[c].client] # "none"
                          /\ client[code'[c].client] = "public" => code'[c].pkce
    BY <1>2, <1>3, <1>4, <1>5 DEF GrantsTypeOK
  <2> QED
    BY <1>3, <2>1, <2>2 DEF GrantsTypeOK, signIn, tokens, requests, panel, TokenRows
<1>7. Numbered'
  <2>1. Codes' = 1..n + 1 /\ n + 1 \in 0..MaxCodes
    BY <1>1, <1>3, <1>4, GrantsAssumption DEF CodeIds
  <2> QED
    BY <1>3, <2>1 DEF Numbered, TokenRows, tokens
<1>8. SawTheRow' /\ OnePerFamily' /\ EndedExists' /\ EndedStaysEnded'
  BY <1>3 DEF SawTheRow, OnePerFamily, InRotation, EndedExists, EndedStaysEnded,
              Accepted, TokenRows, tokens, requests
<1>9. IssuedOnce' /\ ClaimHeld'
  BY <1>3, <1>4, <1>5 DEF IssuedOnce, ClaimHeld, Families, TokenRows, tokens, requests
<1> QED
  BY <1>3, <1>6, <1>7, <1>8, <1>9 DEF CreatorAlone, signIn

LEMMA ClaimCodeKeeps ==
  ASSUME GrantsInv, NEW t \in TokenRequests, NEW c \in CodeIds, NEW sent \in {"none", "right"},
         NEW sameUri \in BOOLEAN, NEW verified \in BOOLEAN,
         ClaimCode(t, c, sent, sameUri, verified)
  PROVE  GrantsInv'
<1>0. /\ GrantsTypeOK /\ Numbered /\ SawTheRow /\ OnePerFamily /\ EndedExists /\ EndedStaysEnded
      /\ IssuedOnce /\ ClaimHeld /\ CreatorAlone
  BY DEF GrantsInv
<1>1. /\ code' = [code EXCEPT ![c].used = TRUE] /\ c \in Codes /\ ~code[c].used /\ doing[t] = "idle"
      /\ UNCHANGED <<signIn, consent, tokens, saw, panel, ended>>
  BY DEF ClaimCode, Claimable
<1>2. \/ doing' = [doing EXCEPT ![t] = "claimed"] /\ arg' = [arg EXCEPT ![t] = c]
      \/ UNCHANGED <<doing, arg>>
  BY DEF ClaimCode, Go
<1>3. /\ code \in [CodeIds -> [client : Clients \cup {"none"}, pkce : BOOLEAN, used : BOOLEAN]]
      /\ doing \in [TokenRequests -> {"idle", "claimed", "located", "locked"}]
      /\ arg \in [TokenRequests -> {0} \cup Ids \cup CodeIds]
  BY <1>0 DEF GrantsTypeOK
<1>4. /\ code' \in [CodeIds -> [client : Clients \cup {"none"}, pkce : BOOLEAN, used : BOOLEAN]]
      /\ \A d \in CodeIds : /\ code'[d].client = code[d].client /\ code'[d].pkce = code[d].pkce
                            /\ code[d].used => code'[d].used
      /\ code'[c].used
  BY <1>1, <1>3
<1>5. Codes' = Codes
  BY <1>4 DEF Codes
<1>6. GrantsTypeOK'
  <2>1. /\ doing' \in [TokenRequests -> {"idle", "claimed", "located", "locked"}]
        /\ arg' \in [TokenRequests -> {0} \cup Ids \cup CodeIds]
    BY <1>2, <1>3
  <2>2. \A d \in Codes' : /\ client[code'[d].client] # "none"
                          /\ client[code'[d].client] = "public" => code'[d].pkce
    BY <1>0, <1>4, <1>5 DEF GrantsTypeOK, Codes
  <2> QED
    BY <1>0, <1>1, <1>4, <2>1, <2>2 DEF GrantsTypeOK, signIn, consent, tokens, panel, TokenRows
<1>7. Numbered'
  BY <1>0, <1>1, <1>5 DEF Numbered, TokenRows, tokens
<1>8. /\ \A u \in TokenRequests : doing'[u] \in {"located", "locked"} =>
           doing'[u] = doing[u] /\ arg'[u] = arg[u]
      /\ InRotation' \subseteq InRotation
  BY <1>1, <1>2, <1>3 DEF InRotation
<1>9. SawTheRow' /\ OnePerFamily' /\ EndedExists' /\ EndedStaysEnded'
  BY <1>0, <1>1, <1>8 DEF SawTheRow, OnePerFamily, InRotation, EndedExists, EndedStaysEnded,
                          Accepted, TokenRows, tokens
<1>10. IssuedOnce'
  BY <1>0, <1>1, <1>4, <1>5 DEF IssuedOnce, Families, TokenRows, Codes, tokens
<1>11. ClaimHeld'
  <2>1. \A r \in Ids : issuedFor[r] # c
    <3>1. c # 0
      BY GrantsAssumption DEF CodeIds
    <3> QED
      BY <1>0, <1>1, <3>1 DEF IssuedOnce
  <2>2. \A u \in TokenRequests : doing[u] = "claimed" => arg[u] # c
    BY <1>0, <1>1 DEF ClaimHeld
  <2>3. \A u \in TokenRequests : doing'[u] = "claimed" =>
          \/ doing[u] = "claimed" /\ arg'[u] = arg[u] /\ arg[u] # c
          \/ u = t /\ arg'[u] = c
    BY <1>2, <1>3, <2>2
  <2>4. \A d \in Codes : code[d].used => code'[d].used
    BY <1>4 DEF Codes
  <2> QED
    BY <1>0, <1>1, <1>4, <1>5, <2>1, <2>3, <2>4 DEF ClaimHeld, tokens
<1> QED
  BY <1>0, <1>1, <1>6, <1>7, <1>9, <1>10, <1>11 DEF GrantsInv, CreatorAlone, signIn

LEMMA IssueFirstPairKeeps ==
  ASSUME GrantsInv, NEW t \in TokenRequests, IssueFirstPair(t)
  PROVE  GrantsInv'
<1>0. /\ GrantsTypeOK /\ Numbered /\ SawTheRow /\ OnePerFamily /\ EndedExists /\ EndedStaysEnded
      /\ IssuedOnce /\ ClaimHeld /\ CreatorAlone
  BY DEF GrantsInv
<1> DEFINE r == NextRow
<1>1. /\ doing[t] = "claimed" /\ r \in Ids
      /\ row' = [row EXCEPT ![r] = [family |-> r, rotated |-> FALSE, revoked |-> FALSE]]
      /\ issuedFor' = [issuedFor EXCEPT ![r] = arg[t]]
      /\ doing' = [doing EXCEPT ![t] = "idle"] /\ arg' = [arg EXCEPT ![t] = 0]
      /\ saw' = [saw EXCEPT ![t] = NoRow]
      /\ UNCHANGED <<signIn, consent, code, panel, ended>>
  BY DEF IssueFirstPair, issueTokenPair, Stop, Go
<1>2. /\ row \in [Ids -> [family : 0..MaxRows, rotated : BOOLEAN, revoked : BOOLEAN]]
      /\ issuedFor \in [Ids -> 0..MaxCodes]
      /\ doing \in [TokenRequests -> {"idle", "claimed", "located", "locked"}]
      /\ arg \in [TokenRequests -> {0} \cup Ids \cup CodeIds]
      /\ saw \in [TokenRequests -> [family : 0..MaxRows, rotated : BOOLEAN, revoked : BOOLEAN]]
  BY <1>0 DEF GrantsTypeOK
<1>3. r # 0 /\ r \in 0..MaxRows /\ row'[r].family = r /\ \A s \in Ids \ {r} : row'[s] = row[s]
  BY <1>1, <1>2, GrantsAssumption DEF Ids
<1>4. r \notin TokenRows /\ TokenRows' = TokenRows \cup {r} /\ Families' = Families \cup {r}
      /\ \E n \in 0..MaxRows : TokenRows' = 1..n
  BY <1>0, <1>1, <1>3, RowAdded
<1> HIDE DEF r
<1>5. arg[t] \in Codes /\ arg[t] # 0 /\ arg[t] \in 0..MaxCodes
  BY <1>0, <1>1, GrantsAssumption DEF ClaimHeld, Codes, CodeIds
<1>6. GrantsTypeOK'
  <2>1. /\ row' \in [Ids -> [family : 0..MaxRows, rotated : BOOLEAN, revoked : BOOLEAN]]
        /\ issuedFor' \in [Ids -> 0..MaxCodes]
        /\ doing' \in [TokenRequests -> {"idle", "claimed", "located", "locked"}]
        /\ arg' \in [TokenRequests -> {0} \cup Ids \cup CodeIds]
    BY <1>1, <1>2, <1>3, <1>5
  <2>2. saw' \in [TokenRequests -> [family : 0..MaxRows, rotated : BOOLEAN, revoked : BOOLEAN]]
    BY <1>1, <1>2, GrantsAssumption DEF NoRow
  <2>3. \A s \in TokenRows' : row'[s].family \in TokenRows' /\ row'[s].family <= s
    <3>1. \A s \in TokenRows : row'[s] = row[s]
      BY <1>3, <1>4 DEF TokenRows
    <3>2. \A s \in TokenRows : row[s].family \in TokenRows /\ row[s].family <= s
      BY <1>0 DEF GrantsTypeOK
    <3>3. r <= r
      BY <1>3, GrantsAssumption
    <3> QED
      BY <1>3, <1>4, <3>1, <3>2, <3>3
  <2> QED
    BY <1>0, <1>1, <2>1, <2>2, <2>3 DEF GrantsTypeOK, signIn, consent, panel, Codes
<1>7. Numbered'
  BY <1>0, <1>1, <1>4 DEF Numbered, Codes
<1>8. \A u \in TokenRequests : doing'[u] # "idle" =>
        u # t /\ doing'[u] = doing[u] /\ arg'[u] = arg[u] /\ saw'[u] = saw[u]
  BY <1>1, <1>2
<1>9. \A s \in TokenRows : s \in TokenRows' /\ row'[s] = row[s]
  BY <1>3, <1>4 DEF TokenRows
<1>10. SawTheRow'
  BY <1>0, <1>8, <1>9 DEF SawTheRow
<1>11. OnePerFamily'
  BY <1>0, <1>8, <1>9 DEF OnePerFamily, SawTheRow, InRotation
<1>12. EndedExists' /\ EndedStaysEnded'
  BY <1>0, <1>1, <1>3, <1>4 DEF EndedExists, EndedStaysEnded, Accepted
<1>13. \A s \in Ids : issuedFor'[s] = IF s = r THEN arg[t] ELSE issuedFor[s]
  BY <1>1, <1>2
<1>14. IssuedOnce'
  <2>1. \A s \in Ids : issuedFor[s] # arg[t]
    BY <1>0, <1>1 DEF ClaimHeld
  <2>2. \A f \in Families' : issuedFor'[f] # 0
    <3>1. \A f \in Families : f \in Ids
      BY <1>0 DEF Families, GrantsTypeOK, TokenRows
    <3> QED
      BY <1>0, <1>1, <1>4, <1>5, <1>13, <3>1 DEF IssuedOnce
  <2>3. \A s \in Ids : issuedFor'[s] # 0 => issuedFor'[s] \in Codes' /\ code'[issuedFor'[s]].used
    BY <1>0, <1>1, <1>5, <1>13 DEF IssuedOnce, ClaimHeld, Codes
  <2>4. \A s, u \in Ids : issuedFor'[s] # 0 /\ issuedFor'[s] = issuedFor'[u] => s = u
    BY <1>0, <1>13, <2>1 DEF IssuedOnce
  <2> QED
    BY <2>2, <2>3, <2>4 DEF IssuedOnce
<1>15. ClaimHeld'
  BY <1>0, <1>1, <1>8, <1>13 DEF ClaimHeld, Codes
<1> QED
  BY <1>0, <1>1, <1>6, <1>7, <1>10, <1>11, <1>12, <1>14, <1>15 DEF GrantsInv, CreatorAlone, signIn

-----------------------------------------------------------------------------
(* Rotation and the end of a family.                                       *)

\* A request that locates its row, gives up or dies writes no row.
LEMMA RequestKeeps ==
  ASSUME GrantsInv, NEW t \in TokenRequests, DropRequest(t) \/ \E r \in Ids : LocateRow(t, r)
  PROVE  GrantsInv'
<1>0. /\ GrantsTypeOK /\ Numbered /\ SawTheRow /\ OnePerFamily /\ EndedExists /\ EndedStaysEnded
      /\ IssuedOnce /\ ClaimHeld /\ CreatorAlone
  BY DEF GrantsInv
<1>1. UNCHANGED <<signIn, consent, code, tokens, panel, ended>>
  BY DEF DropRequest, LocateRow
<1>2. /\ doing \in [TokenRequests -> {"idle", "claimed", "located", "locked"}]
      /\ arg \in [TokenRequests -> {0} \cup Ids \cup CodeIds]
      /\ saw \in [TokenRequests -> [family : 0..MaxRows, rotated : BOOLEAN, revoked : BOOLEAN]]
      /\ NoRow \in [family : 0..MaxRows, rotated : BOOLEAN, revoked : BOOLEAN]
  BY <1>0, GrantsAssumption DEF GrantsTypeOK, NoRow
<1>3. \/ /\ doing' = [doing EXCEPT ![t] = "idle"] /\ arg' = [arg EXCEPT ![t] = 0]
         /\ saw' = [saw EXCEPT ![t] = NoRow]
      \/ \E r \in TokenRows : /\ doing' = [doing EXCEPT ![t] = "located"] /\ arg' = [arg EXCEPT ![t] = r]
                         /\ saw' = saw
  BY DEF DropRequest, LocateRow, Stop, Go, tokens
<1>4. GrantsTypeOK'
  <2>1. /\ doing' \in [TokenRequests -> {"idle", "claimed", "located", "locked"}]
        /\ arg' \in [TokenRequests -> {0} \cup Ids \cup CodeIds]
        /\ saw' \in [TokenRequests -> [family : 0..MaxRows, rotated : BOOLEAN, revoked : BOOLEAN]]
    BY <1>2, <1>3 DEF TokenRows
  <2> QED
    BY <1>0, <1>1, <2>1 DEF GrantsTypeOK, signIn, consent, tokens, panel, TokenRows, Codes
<1>5. \A u \in TokenRequests : doing'[u] # "idle" =>
        \/ doing'[u] = doing[u] /\ arg'[u] = arg[u] /\ saw'[u] = saw[u]
        \/ doing'[u] = "located" /\ arg'[u] \in TokenRows
  BY <1>2, <1>3
<1>6. Numbered' /\ EndedExists' /\ EndedStaysEnded'
  BY <1>0, <1>1 DEF Numbered, EndedExists, EndedStaysEnded, Accepted, TokenRows, Codes, tokens
<1>7. SawTheRow'
  BY <1>0, <1>1, <1>5 DEF SawTheRow, TokenRows, tokens
<1>8. OnePerFamily'
  BY <1>0, <1>1, <1>5 DEF OnePerFamily, InRotation, tokens
<1>9. IssuedOnce' /\ ClaimHeld'
  BY <1>0, <1>1, <1>5 DEF IssuedOnce, ClaimHeld, Families, TokenRows, Codes, tokens
<1> QED
  BY <1>0, <1>1, <1>4, <1>6, <1>7, <1>8, <1>9 DEF GrantsInv, CreatorAlone, signIn

\* Entering the transaction: the family is not in one yet.
LEMMA LockAndReadKeeps ==
  ASSUME GrantsInv, NEW t \in TokenRequests, LockAndRead(t)
  PROVE  GrantsInv'
<1>0. /\ GrantsTypeOK /\ Numbered /\ SawTheRow /\ OnePerFamily /\ EndedExists /\ EndedStaysEnded
      /\ IssuedOnce /\ ClaimHeld /\ CreatorAlone
  BY DEF GrantsInv
<1>1. /\ doing[t] = "located" /\ doing' = [doing EXCEPT ![t] = "locked"]
      /\ saw' = [saw EXCEPT ![t] = row[arg[t]]]
      /\ UNCHANGED <<signIn, consent, code, tokens, arg, panel, ended>>
      /\ \A u \in InRotation : row[arg[u]].family # row[arg[t]].family
  BY DEF LockAndRead, FamilyLock
<1>2. /\ doing \in [TokenRequests -> {"idle", "claimed", "located", "locked"}]
      /\ saw \in [TokenRequests -> [family : 0..MaxRows, rotated : BOOLEAN, revoked : BOOLEAN]]
      /\ row \in [Ids -> [family : 0..MaxRows, rotated : BOOLEAN, revoked : BOOLEAN]]
  BY <1>0 DEF GrantsTypeOK
<1>3. arg[t] \in TokenRows /\ arg[t] \in Ids
  BY <1>0, <1>1 DEF SawTheRow, TokenRows
<1>4. GrantsTypeOK'
  <2>1. /\ doing' \in [TokenRequests -> {"idle", "claimed", "located", "locked"}]
        /\ saw' \in [TokenRequests -> [family : 0..MaxRows, rotated : BOOLEAN, revoked : BOOLEAN]]
    BY <1>1, <1>2, <1>3
  <2> QED
    BY <1>0, <1>1, <2>1 DEF GrantsTypeOK, signIn, consent, tokens, panel, TokenRows, Codes
<1>5. \A u \in TokenRequests : IF u = t THEN doing'[u] = "locked" /\ saw'[u] = row[arg[t]]
                                   ELSE doing'[u] = doing[u] /\ saw'[u] = saw[u]
  BY <1>1, <1>2
<1>6. Numbered' /\ EndedExists' /\ EndedStaysEnded'
  BY <1>0, <1>1 DEF Numbered, EndedExists, EndedStaysEnded, Accepted, TokenRows, Codes, tokens
<1>7. SawTheRow'
  BY <1>0, <1>1, <1>3, <1>5 DEF SawTheRow, TokenRows, tokens
<1>8. OnePerFamily'
  <2>1. \A u \in InRotation' : u = t \/ u \in InRotation
    BY <1>5 DEF InRotation
  <2> QED
    BY <1>0, <1>1, <2>1 DEF OnePerFamily, tokens
<1>9. IssuedOnce' /\ ClaimHeld'
  BY <1>0, <1>1, <1>5 DEF IssuedOnce, ClaimHeld, Families, TokenRows, Codes, tokens
<1> QED
  BY <1>0, <1>1, <1>4, <1>6, <1>7, <1>8, <1>9 DEF GrantsInv, CreatorAlone, signIn

\* The family ends: other transactions are on other families.
LEMMA EndFamilyKeeps ==
  ASSUME GrantsInv, NEW t \in TokenRequests, EndFamily(t)
  PROVE  GrantsInv'
<1>0. /\ GrantsTypeOK /\ Numbered /\ SawTheRow /\ OnePerFamily /\ EndedExists /\ EndedStaysEnded
      /\ IssuedOnce /\ ClaimHeld /\ CreatorAlone
  BY DEF GrantsInv
<1> DEFINE f == saw[t].family
<1>1. /\ doing[t] = "locked" /\ Sweep(f) /\ ended' = ended \cup {f}
      /\ doing' = [doing EXCEPT ![t] = "idle"] /\ arg' = [arg EXCEPT ![t] = 0]
      /\ saw' = [saw EXCEPT ![t] = NoRow]
      /\ UNCHANGED <<signIn, consent, code, issuedFor, panel>>
  BY DEF EndFamily, Stop, Go
<1>2. /\ doing \in [TokenRequests -> {"idle", "claimed", "located", "locked"}]
      /\ arg \in [TokenRequests -> {0} \cup Ids \cup CodeIds]
      /\ saw \in [TokenRequests -> [family : 0..MaxRows, rotated : BOOLEAN, revoked : BOOLEAN]]
      /\ row \in [Ids -> [family : 0..MaxRows, rotated : BOOLEAN, revoked : BOOLEAN]]
      /\ NoRow \in [family : 0..MaxRows, rotated : BOOLEAN, revoked : BOOLEAN]
  BY <1>0, GrantsAssumption DEF GrantsTypeOK, NoRow
<1>3. arg[t] \in TokenRows /\ f = row[arg[t]].family /\ f \in TokenRows /\ f \in Ids
  <2>1. arg[t] \in TokenRows /\ saw[t] = row[arg[t]]
    BY <1>0, <1>1 DEF SawTheRow
  <2>2. row[arg[t]].family \in TokenRows
    BY <1>0, <2>1 DEF GrantsTypeOK
  <2> QED
    BY <2>1, <2>2 DEF TokenRows
<1> HIDE DEF f
<1>4. /\ row' \in [Ids -> [family : 0..MaxRows, rotated : BOOLEAN, revoked : BOOLEAN]]
      /\ \A r \in Ids : /\ row'[r].family = row[r].family
                        /\ row[r].family # f => row'[r] = row[r]
                        /\ row[r].revoked => row'[r].revoked
                        /\ r \in TokenRows /\ row[r].family = f => row'[r].revoked
  BY <1>1, <1>2 DEF Sweep, Of
<1>5. TokenRows' = TokenRows /\ Families' = Families
  BY <1>0, <1>4, RowsKept
<1>6. GrantsTypeOK'
  <2>1. /\ doing' \in [TokenRequests -> {"idle", "claimed", "located", "locked"}]
        /\ arg' \in [TokenRequests -> {0} \cup Ids \cup CodeIds]
        /\ saw' \in [TokenRequests -> [family : 0..MaxRows, rotated : BOOLEAN, revoked : BOOLEAN]]
    BY <1>1, <1>2
  <2>2. \A r \in TokenRows' : row'[r].family \in TokenRows' /\ row'[r].family <= r
    BY <1>0, <1>4, <1>5 DEF GrantsTypeOK, TokenRows
  <2>3. ended' \subseteq Ids
    BY <1>0, <1>1, <1>3 DEF EndedExists, TokenRows
  <2> QED
    BY <1>0, <1>1, <1>4, <2>1, <2>2, <2>3 DEF GrantsTypeOK, signIn, consent, panel, Codes
<1>7. \A u \in TokenRequests : doing'[u] # "idle" =>
        u # t /\ doing'[u] = doing[u] /\ arg'[u] = arg[u] /\ saw'[u] = saw[u]
  BY <1>1, <1>2
<1>8. Numbered'
  BY <1>0, <1>1, <1>5 DEF Numbered, Codes
<1>9. SawTheRow'
  <2>1. \A u \in TokenRequests : u # t /\ doing[u] = "locked" => row'[arg[u]] = row[arg[u]]
    <3> SUFFICES ASSUME NEW u \in TokenRequests, u # t, doing[u] = "locked" PROVE row'[arg[u]] = row[arg[u]]
      OBVIOUS
    <3>1. arg[u] \in Ids
      BY <1>0 DEF SawTheRow, TokenRows
    <3>2. row[arg[u]].family # f
      BY <1>0, <1>1, <1>3 DEF OnePerFamily, InRotation
    <3> QED
      BY <1>4, <3>1, <3>2
  <2> QED
    BY <1>0, <1>5, <1>7, <2>1 DEF SawTheRow
<1>10. OnePerFamily'
  <2>1. \A u \in InRotation' : u \in InRotation /\ arg'[u] = arg[u] /\ arg[u] \in Ids
    BY <1>0, <1>7 DEF InRotation, SawTheRow, TokenRows
  <2>2. \A u \in InRotation' : row'[arg'[u]].family = row[arg[u]].family
    BY <1>4, <2>1
  <2> QED
    BY <1>0, <2>1, <2>2 DEF OnePerFamily
<1>11. EndedExists' /\ EndedStaysEnded'
  BY <1>0, <1>1, <1>3, <1>4, <1>5 DEF EndedExists, EndedStaysEnded, Accepted
<1>12. IssuedOnce'
  BY <1>0, <1>1, <1>5 DEF IssuedOnce, Codes
<1>13. ClaimHeld'
  BY <1>0, <1>1, <1>7 DEF ClaimHeld, Codes
<1> QED
  BY <1>0, <1>1, <1>6, <1>8, <1>9, <1>10, <1>11, <1>12, <1>13 DEF GrantsInv, CreatorAlone, signIn

\* A rotation adds a row to a family that did not end: the row it read under
\* the locks is still there and was not revoked.
LEMMA RotateKeeps ==
  ASSUME GrantsInv, NEW t \in TokenRequests, Rotate(t)
  PROVE  GrantsInv'
<1>0. /\ GrantsTypeOK /\ Numbered /\ SawTheRow /\ OnePerFamily /\ EndedExists /\ EndedStaysEnded
      /\ IssuedOnce /\ ClaimHeld /\ CreatorAlone
  BY DEF GrantsInv
<1> DEFINE f == saw[t].family
           n == NextRow
           a == arg[t]
<1>1. /\ doing[t] = "locked" /\ ~saw[t].revoked /\ n \in Ids
      /\ row' = [row EXCEPT ![a].rotated = TRUE,
                            ![n] = [family |-> f, rotated |-> FALSE, revoked |-> FALSE]]
      /\ doing' = [doing EXCEPT ![t] = "idle"] /\ arg' = [arg EXCEPT ![t] = 0]
      /\ saw' = [saw EXCEPT ![t] = NoRow]
      /\ UNCHANGED <<signIn, consent, code, issuedFor, panel, ended>>
  BY DEF Rotate, Stop, Go
<1>2. /\ doing \in [TokenRequests -> {"idle", "claimed", "located", "locked"}]
      /\ arg \in [TokenRequests -> {0} \cup Ids \cup CodeIds]
      /\ saw \in [TokenRequests -> [family : 0..MaxRows, rotated : BOOLEAN, revoked : BOOLEAN]]
      /\ row \in [Ids -> [family : 0..MaxRows, rotated : BOOLEAN, revoked : BOOLEAN]]
      /\ NoRow \in [family : 0..MaxRows, rotated : BOOLEAN, revoked : BOOLEAN]
  BY <1>0, GrantsAssumption DEF GrantsTypeOK, NoRow
<1>3. /\ a \in TokenRows /\ a \in Ids /\ row[a] = saw[t]
      /\ f = row[a].family /\ f \in TokenRows /\ f \in Families /\ f # 0 /\ f \in 0..MaxRows
  <2>1. a \in TokenRows /\ a \in Ids /\ row[a] = saw[t]
    BY <1>0, <1>1 DEF SawTheRow, TokenRows
  <2>2. f \in TokenRows /\ f \in Families
    BY <1>0, <2>1 DEF GrantsTypeOK, Families
  <2>3. f # 0 /\ f \in 0..MaxRows
    BY <1>2, <2>1 DEF TokenRows
  <2> QED
    BY <2>1, <2>2, <2>3
<1>4. n \notin TokenRows
  BY <1>0, NextRowIsNext, GrantsAssumption
<1> HIDE DEF f, n, a
<1>5. /\ row' \in [Ids -> [family : 0..MaxRows, rotated : BOOLEAN, revoked : BOOLEAN]]
      /\ row'[n].family = f
      /\ \A r \in Ids \ {n} : /\ row'[r].family = row[r].family /\ row'[r].revoked = row[r].revoked
                              /\ r # a => row'[r] = row[r]
  BY <1>1, <1>2, <1>3, <1>4
<1>6. TokenRows' = TokenRows \cup {n} /\ Families' = Families /\ \E m \in 0..MaxRows : TokenRows' = 1..m
  <2>1. /\ TokenRows' = TokenRows \cup {n} /\ \E m \in 0..MaxRows : TokenRows' = 1..m
        /\ Families' = Families \cup {f}
    BY <1>0, <1>1, <1>3, <1>5, RowAdded DEF n
  <2> QED
    BY <1>3, <2>1
<1>7. \A u \in TokenRequests : doing'[u] # "idle" =>
        u # t /\ doing'[u] = doing[u] /\ arg'[u] = arg[u] /\ saw'[u] = saw[u]
  BY <1>1, <1>2
<1>8. GrantsTypeOK'
  <2>1. /\ doing' \in [TokenRequests -> {"idle", "claimed", "located", "locked"}]
        /\ arg' \in [TokenRequests -> {0} \cup Ids \cup CodeIds]
        /\ saw' \in [TokenRequests -> [family : 0..MaxRows, rotated : BOOLEAN, revoked : BOOLEAN]]
    BY <1>1, <1>2
  <2>2. \A r \in TokenRows' : row'[r].family \in TokenRows' /\ row'[r].family <= r
    <3>1. \A r \in TokenRows : r \in Ids \ {n} /\ row[r].family \in TokenRows /\ row[r].family <= r
      BY <1>0, <1>4 DEF GrantsTypeOK, TokenRows
    <3>2. f <= n
      <4>1. PICK m \in 0..MaxRows : TokenRows = 1..m /\ n = m + 1
        BY <1>0, NextRowIsNext, GrantsAssumption DEF n
      <4> QED
        BY <1>3, <4>1
    <3> QED
      BY <1>3, <1>5, <1>6, <3>1, <3>2
  <2> QED
    BY <1>0, <1>1, <1>5, <2>1, <2>2 DEF GrantsTypeOK, signIn, consent, panel, Codes
<1>9. Numbered'
  BY <1>0, <1>1, <1>6 DEF Numbered, Codes
<1>10. SawTheRow'
  <2>1. \A u \in TokenRequests : u # t /\ doing[u] = "locked" => row'[arg[u]] = row[arg[u]]
    <3> SUFFICES ASSUME NEW u \in TokenRequests, u # t, doing[u] = "locked" PROVE row'[arg[u]] = row[arg[u]]
      OBVIOUS
    <3>1. arg[u] \in TokenRows /\ arg[u] \in Ids /\ arg[u] # n
      BY <1>0, <1>4 DEF SawTheRow, TokenRows
    <3>2. arg[u] # a
      BY <1>0, <1>1, <1>3 DEF OnePerFamily, InRotation, a
    <3> QED
      BY <1>5, <3>1, <3>2
  <2> QED
    BY <1>0, <1>6, <1>7, <2>1 DEF SawTheRow
<1>11. OnePerFamily'
  <2>1. \A u \in InRotation' : u \in InRotation /\ arg'[u] = arg[u] /\ arg[u] \in Ids \ {n}
    BY <1>0, <1>4, <1>7 DEF InRotation, SawTheRow, TokenRows
  <2>2. \A u \in InRotation' : row'[arg'[u]].family = row[arg[u]].family
    BY <1>5, <2>1
  <2> QED
    BY <1>0, <2>1, <2>2 DEF OnePerFamily
<1>12. EndedExists'
  BY <1>0, <1>1, <1>6 DEF EndedExists
<1>13. EndedStaysEnded'
  <2>1. f \notin ended
    BY <1>0, <1>1, <1>3 DEF EndedStaysEnded, Accepted
  <2>2. \A r \in TokenRows : r \in Ids \ {n}
    BY <1>4 DEF TokenRows
  <2> QED
    BY <1>0, <1>1, <1>5, <1>6, <2>1, <2>2 DEF EndedStaysEnded, Accepted
<1>14. IssuedOnce'
  BY <1>0, <1>1, <1>6 DEF IssuedOnce, Codes
<1>15. ClaimHeld'
  BY <1>0, <1>1, <1>7 DEF ClaimHeld, Codes
<1> QED
  BY <1>0, <1>1, <1>8, <1>9, <1>10, <1>11, <1>12, <1>13, <1>14, <1>15 DEF GrantsInv, CreatorAlone, signIn

-----------------------------------------------------------------------------
(* The panel.                                                              *)

\* What the panel shows as removed has no accepted token left.
LEMMA PanelReadsKeep ==
  ASSUME GrantsInv, LoadGrants \/ \E f \in Ids : BeginRevoke(f)
  PROVE  GrantsInv'
<1>0. /\ GrantsTypeOK /\ Numbered /\ SawTheRow /\ OnePerFamily /\ EndedExists /\ EndedStaysEnded
      /\ IssuedOnce /\ ClaimHeld /\ CreatorAlone
  BY DEF GrantsInv
<1>1. UNCHANGED <<signIn, consent, code, tokens, requests>>
  BY DEF LoadGrants, BeginRevoke
<1>2. \/ LoadGrants /\ UNCHANGED <<removing, snapshot>>
      \/ /\ UNCHANGED <<offered, ended>> /\ snapshot' \subseteq Ids
         /\ removing' \in Ids
  BY DEF LoadGrants, BeginRevoke, Of, TokenRows
<1>3. Families \subseteq TokenRows /\ TokenRows \subseteq Ids
  BY <1>0 DEF GrantsTypeOK, Families, TokenRows
<1>4. \A f \in ended' \ ended : f \in Families /\ AllRevoked(f)
  BY <1>2 DEF LoadGrants
<1>5. ended' \subseteq TokenRows
  BY <1>0, <1>3, <1>4 DEF EndedExists
<1>6. offered' \subseteq Ids /\ removing' \in 0..MaxRows /\ snapshot' \subseteq Ids
  <2>1. offered \subseteq Ids /\ removing \in 0..MaxRows /\ snapshot \subseteq Ids
    BY <1>0 DEF GrantsTypeOK
  <2>2. \A i \in Ids : i \in 0..MaxRows
    BY GrantsAssumption DEF Ids
  <2>3. LoadGrants => offered' \subseteq Families
    BY DEF LoadGrants
  <2> QED
    BY <1>2, <1>3, <2>1, <2>2, <2>3
<1>7. GrantsTypeOK'
  BY <1>0, <1>1, <1>3, <1>5, <1>6
     DEF GrantsTypeOK, signIn, consent, tokens, requests, TokenRows, Codes
<1>8. EndedExists' /\ Numbered' /\ SawTheRow' /\ OnePerFamily'
  BY <1>0, <1>1, <1>5
     DEF EndedExists, Numbered, SawTheRow, OnePerFamily, InRotation, TokenRows, Codes, tokens, requests
<1>9. EndedStaysEnded'
  BY <1>0, <1>1, <1>4 DEF EndedStaysEnded, Accepted, AllRevoked, Of, TokenRows, tokens
<1>10. IssuedOnce' /\ ClaimHeld'
  BY <1>0, <1>1 DEF IssuedOnce, ClaimHeld, Families, TokenRows, Codes, tokens, requests
<1> QED
  BY <1>0, <1>1, <1>7, <1>8, <1>9, <1>10 DEF GrantsInv, CreatorAlone, signIn

\* The UPDATE of the panel writes no row a transaction holds.
LEMMA EndRevokeKeeps ==
  ASSUME GrantsInv, EndRevoke
  PROVE  GrantsInv'
<1>0. /\ GrantsTypeOK /\ Numbered /\ SawTheRow /\ OnePerFamily /\ EndedExists /\ EndedStaysEnded
      /\ IssuedOnce /\ ClaimHeld /\ CreatorAlone
  BY DEF GrantsInv
<1>1. /\ RowsFree /\ removing' = 0 /\ snapshot' = {}
      /\ row' = [r \in Ids |-> IF r \in snapshot THEN [row[r] EXCEPT !.revoked = TRUE] ELSE row[r]]
      /\ UNCHANGED <<signIn, consent, code, issuedFor, requests, offered, ended>>
  BY DEF EndRevoke
<1>2. row \in [Ids -> [family : 0..MaxRows, rotated : BOOLEAN, revoked : BOOLEAN]]
  BY <1>0 DEF GrantsTypeOK
<1>3. /\ row' \in [Ids -> [family : 0..MaxRows, rotated : BOOLEAN, revoked : BOOLEAN]]
      /\ \A r \in Ids : /\ row'[r].family = row[r].family
                        /\ row[r].revoked => row'[r].revoked
                        /\ r \notin snapshot => row'[r] = row[r]
  BY <1>1, <1>2
<1>4. TokenRows' = TokenRows /\ Families' = Families
  BY <1>0, <1>3, RowsKept
<1>5. GrantsTypeOK'
  <2>1. \A r \in TokenRows' : row'[r].family \in TokenRows' /\ row'[r].family <= r
    BY <1>0, <1>3, <1>4 DEF GrantsTypeOK, TokenRows
  <2> QED
    BY <1>0, <1>1, <1>3, <2>1, GrantsAssumption DEF GrantsTypeOK, signIn, consent, requests, Codes
<1>6. Numbered'
  BY <1>0, <1>1, <1>4 DEF Numbered, Codes
<1>7. \A u \in InRotation : arg[u] \in Ids /\ arg[u] \notin snapshot
  BY <1>0, <1>1 DEF RowsFree, InRotation, SawTheRow, TokenRows
<1>8. SawTheRow'
  BY <1>0, <1>1, <1>3, <1>4, <1>7 DEF SawTheRow, InRotation, requests
<1>9. OnePerFamily'
  BY <1>0, <1>1, <1>3, <1>7 DEF OnePerFamily, InRotation, requests
<1>10. EndedExists' /\ EndedStaysEnded'
  BY <1>0, <1>1, <1>3, <1>4 DEF EndedExists, EndedStaysEnded, Accepted
<1>11. IssuedOnce' /\ ClaimHeld'
  BY <1>0, <1>1, <1>4 DEF IssuedOnce, ClaimHeld, Codes, requests
<1> QED
  BY <1>0, <1>1, <1>5, <1>6, <1>8, <1>9, <1>10, <1>11 DEF GrantsInv, CreatorAlone, signIn

-----------------------------------------------------------------------------

LEMMA NextGrants == GrantsInv /\ [GrantsNext]_grantsVars => GrantsInv'
<1> SUFFICES ASSUME GrantsInv, [GrantsNext]_grantsVars PROVE GrantsInv'
  OBVIOUS
<1>1. ASSUME NEW v \in Visits,
             \/ SignIn(v) \/ CreateWorkspace(v) \/ Leave(v) \/ Deny(v)
             \/ \E k \in Clients : Authorize(v, k)
             \/ \E pkce \in BOOLEAN : Allow(v, pkce)
      PROVE  GrantsInv'
  BY <1>1, SessionKeeps, ConsentKeeps, AllowKeeps
<1>2. ASSUME NEW k \in Clients, registerMcpClient(k) \/ DisableClient(k) PROVE GrantsInv'
  BY <1>2, ConsentKeeps
<1>3. ASSUME NEW t \in TokenRequests,
             \/ \E c \in CodeIds, sent \in {"none", "right"}, sameUri, verified \in BOOLEAN :
                  ClaimCode(t, c, sent, sameUri, verified)
             \/ IssueFirstPair(t)
             \/ \E r \in Ids : LocateRow(t, r)
             \/ LockAndRead(t) \/ EndFamily(t) \/ Rotate(t) \/ DropRequest(t)
      PROVE  GrantsInv'
  <2>1. CASE \E c \in CodeIds, sent \in {"none", "right"}, sameUri, verified \in BOOLEAN :
               ClaimCode(t, c, sent, sameUri, verified)
    BY <2>1, ClaimCodeKeeps
  <2>2. CASE IssueFirstPair(t)
    BY <2>2, IssueFirstPairKeeps
  <2>3. CASE (\E r \in Ids : LocateRow(t, r)) \/ DropRequest(t)
    BY <2>3, RequestKeeps
  <2>4. CASE LockAndRead(t)
    BY <2>4, LockAndReadKeeps
  <2>5. CASE EndFamily(t)
    BY <2>5, EndFamilyKeeps
  <2>6. CASE Rotate(t)
    BY <2>6, RotateKeeps
  <2> QED
    BY <1>3, <2>1, <2>2, <2>3, <2>4, <2>5, <2>6
<1>4. CASE LoadGrants \/ \E f \in Ids : BeginRevoke(f)
  BY <1>4, PanelReadsKeep
<1>5. CASE EndRevoke
  BY <1>5, EndRevokeKeeps
<1>6. CASE UNCHANGED grantsVars
  <2>1. UNCHANGED <<workspaces, visit, asked, client, disabled, code, row, issuedFor, doing, arg, saw,
                    offered, removing, snapshot, ended>>
    BY <1>6 DEF grantsVars, signIn, consent, tokens, requests, panel
  <2>2. GrantsTypeOK'
    BY <2>1 DEF GrantsInv, GrantsTypeOK, TokenRows, Codes
  <2>3. Numbered' /\ SawTheRow' /\ OnePerFamily' /\ EndedExists' /\ EndedStaysEnded'
    BY <2>1 DEF GrantsInv, Numbered, SawTheRow, OnePerFamily, InRotation, EndedExists, EndedStaysEnded,
                Accepted, TokenRows, Codes
  <2>4. IssuedOnce' /\ ClaimHeld' /\ CreatorAlone'
    BY <2>1 DEF GrantsInv, IssuedOnce, ClaimHeld, CreatorAlone, Families, TokenRows, Codes
  <2> QED
    BY <2>2, <2>3, <2>4 DEF GrantsInv
<1> QED
  BY <1>1, <1>2, <1>3, <1>4, <1>5, <1>6 DEF GrantsNext

LEMMA GrantsInvariance == GrantsSpec => []GrantsInv
  BY InitGrants, NextGrants, PTL DEF GrantsSpec

\* The tables of the sign-in, the MCP clients, codes and token rows stay well
\* formed: every row is of a family that exists and every code of a registered
\* client, which used PKCE if it is public (001-initial.sql and mcp-oauth.mjs).
THEOREM GrantsTypes == GrantsSpec => []GrantsTypeOK
<1>1. GrantsInv => GrantsTypeOK
  BY DEF GrantsInv
<1> QED
  BY GrantsInvariance, <1>1, PTL

\* Once a family ended, by the reuse of a rotated token, by its age, or because
\* the panel showed it as removed, no access token of it is accepted any more,
\* whatever rotations were in flight (rotateRefreshToken, revokeTokenFamily).
THEOREM EndedFamiliesStayEnded == GrantsSpec => []EndedStaysEnded
<1>1. GrantsInv => EndedStaysEnded
  BY DEF GrantsInv
<1> QED
  BY GrantsInvariance, <1>1, PTL

\* However often and concurrently a code is redeemed, one family at most comes
\* of it (the conditional UPDATE of exchangeAuthorizationCode).
THEOREM OneFamilyForOneCode == GrantsSpec => []OneFamilyPerCode
<1>1. GrantsInv => OneFamilyPerCode
  <2>1. GrantsInv => Families \subseteq Ids
    BY DEF GrantsInv, GrantsTypeOK, Families, TokenRows
  <2> QED
    BY <2>1 DEF GrantsInv, OneFamilyPerCode, IssuedOnce
<1> QED
  BY GrantsInvariance, <1>1, PTL

\* First sign-ins at the same moment create one workspace (the advisory lock of
\* ensureInitialWorkspace, held until the INSERT commits).
THEOREM OneFirstWorkspace == GrantsSpec => []FirstWorkspaceOnce
<1>1. GrantsInv => FirstWorkspaceOnce
  BY DEF GrantsInv, CreatorAlone, FirstWorkspaceOnce
<1> QED
  BY GrantsInvariance, <1>1, PTL

-----------------------------------------------------------------------------
(***************************************************************************)
(* Proofs, for any number of requests, names, repositories, apps and       *)
(* commits, that active apps differ in name and repository, that their     *)
(* number never grows past the limit, and that no recorded upload is lost. *)
(*                                                                         *)
(* An analysis looks, counts and inserts in three steps. What it saw still *)
(* holds when it inserts: the repository is locked and still has no app    *)
(* (NoAppYet), the workspace row is locked and the count is still below    *)
(* the limit (CountHolds); only the name is checked again, by the unique   *)
(* index. A branch moves to a commit whose parent is the head it had, so   *)
(* its history keeps what it held (MadeStays).                             *)
(***************************************************************************)

\* Repositories, app rows and commits are numbered without gaps.
InOrder ==
  /\ \E n \in 0..MaxRepos : Repos = 1..n
  /\ \E n \in 0..MaxApps : Rows = 1..n
  /\ \E n \in 0..MaxCommits : Committed = 1..n

\* What a request holds on to, step by step.
Held(q) ==
  /\ ~(At(q, "idle") \/ At(q, "checked")) => on[q] \in Repos
  /\ At(q, "checked") => name[q] \in Names
  /\ At(q, "read") => base[q] \in {0} \cup Committed
  /\ At(q, "committed") => base[q] \in Committed
  /\ pc[q] \in {"idle", "checked", "ready", "inspect", "locked"} => base[q] = 0
  /\ pc[q] \in {"named", "counted"} =>
       base[q] = 0 \/ (base[q] \in Rows /\ ~app[base[q]].alive)

HeldByAll == \A q \in Requests : Held(q)

LocalTypes ==
  /\ pc \in [Requests -> Steps]
  /\ on \in [Requests -> 0..MaxRepos]
  /\ name \in [Requests -> Names \cup {NoName}]
  /\ base \in [Requests -> 0..(MaxCommits + MaxApps)]

OnePerRepository == \A p, q \in InTransaction : p # q => on[p] # on[q]

NoAppYet == \A q \in Requests : pc[q] \in {"named", "counted"} => AppOf(on[q]) = {}

CountHolds ==
  /\ \A p, q \in Requests : At(p, "counted") /\ At(q, "counted") => p = q
  /\ \A q \in Requests : At(q, "counted") => UnderLimit

Named == \A a \in ActiveApps : app[a].slug \in Names

\* A commit a branch moved to stays in its history, recorded yet or not.
MadeStays == \A q \in Requests : At(q, "committed") => base[q] \in History(head[on[q]])

IInv ==
  /\ TypeOK /\ InOrder /\ HeldByAll
  /\ OnePerRepository /\ NoAppYet /\ CountHolds
  /\ Named /\ OneAppPerName
  /\ MadeStays /\ NoLostUpload

LEMMA InitIInv == Init => IInv
<1> SUFFICES ASSUME Init PROVE IInv
  OBVIOUS
<1> USE WorkspaceAssumption DEF Init
<1>1. Repos = {} /\ Rows = {} /\ Committed = {} /\ ActiveApps = {}
  BY DEF Repos, Rows, Committed, ActiveApps, RepoIds, AppIds, Commits
<1>2. TypeOK
  <2>1. /\ connected \in BOOLEAN /\ limit \in Limits
        /\ repo \in [RepoIds -> [slug : Names \cup {NoName}, managed : BOOLEAN]]
        /\ head \in [RepoIds -> {0} \cup Committed]
        /\ stored \subseteq Committed \X Repos
    OBVIOUS
  <2>2. /\ parent \in [Commits -> 0..MaxCommits + 1]
        /\ app \in [AppIds -> [repo : 0..MaxRepos, slug : Names \cup {NoName, Freed}, alive : BOOLEAN]]
    OBVIOUS
  <2>3. LocalTypes /\ faults \in 0..MaxFaults
    BY DEF LocalTypes, Steps
  <2>4. /\ \A a \in Rows : app[a].repo \in Repos /\ app[a].slug # NoName
        /\ \A c \in Committed : parent[c] < c
    BY <1>1
  <2> HIDE DEF Init
  <2> QED
    BY <2>1, <2>2, <2>3, <2>4 DEF TypeOK, LocalTypes
<1>3. InOrder
  <2>1. Repos = 1..0 /\ Rows = 1..0 /\ Committed = 1..0
    BY <1>1
  <2>2. 0 \in 0..MaxRepos /\ 0 \in 0..MaxApps /\ 0 \in 0..MaxCommits
    OBVIOUS
  <2> HIDE DEF Init
  <2> QED
    BY <2>1, <2>2 DEF InOrder
<1>4. HeldByAll /\ OnePerRepository /\ NoAppYet /\ CountHolds /\ MadeStays
  <2>1. \A q \in Requests : pc[q] = "idle" /\ base[q] = 0
    OBVIOUS
  <2> QED
    BY <2>1 DEF HeldByAll, Held, OnePerRepository, NoAppYet, CountHolds, MadeStays, InTransaction, At
<1>5. Named /\ OneAppPerName /\ NoLostUpload
  BY <1>1 DEF Named, OneAppPerName, NoLostUpload
<1> QED
  BY <1>2, <1>3, <1>4, <1>5 DEF IInv

-----------------------------------------------------------------------------
(* Numbers.                                                                *)

\* The numbers up to n are counted by n.
LEMMA Counted == ASSUME NEW n \in Nat PROVE Cardinality(1..n) = n
  BY FS_Interval

LEMMA NextNumbers ==
  ASSUME InOrder
  PROVE  /\ \E n \in 0..MaxRepos : Repos = 1..n /\ NextRepo = n + 1
         /\ \E n \in 0..MaxApps : Rows = 1..n /\ NextApp = n + 1
         /\ \E n \in 0..MaxCommits : Committed = 1..n /\ NextCommit = n + 1
<1>1. PICK r \in 0..MaxRepos : Repos = 1..r
  BY DEF InOrder
<1>2. PICK a \in 0..MaxApps : Rows = 1..a
  BY DEF InOrder
<1>3. PICK c \in 0..MaxCommits : Committed = 1..c
  BY DEF InOrder
<1>4. NextRepo = r + 1 /\ NextApp = a + 1 /\ NextCommit = c + 1
  BY <1>1, <1>2, <1>3, Counted, WorkspaceAssumption DEF NextRepo, NextApp, NextCommit
<1> QED
  BY <1>1, <1>2, <1>3, <1>4

\* Apps are finitely many, and a set of them is no larger than one it is in.
LEMMA AppsFinite ==
  ASSUME InOrder
  PROVE  IsFiniteSet(ActiveApps) /\ Cardinality(ActiveApps) \in Nat
<1>1. PICK n \in 0..MaxApps : Rows = 1..n
  BY DEF InOrder
<1>2. IsFiniteSet(1..n)
  BY FS_Interval, WorkspaceAssumption
<1>3. ActiveApps \subseteq 1..n
  BY <1>1 DEF ActiveApps
<1> QED
  BY <1>2, <1>3, FS_Subset, FS_CardinalityType

-----------------------------------------------------------------------------
(* Steps of a request that write no table.                                 *)

LEMMA StepKeeps ==
  ASSUME IInv, NEW q \in Requests, UNCHANGED <<github, limit, branches, app>>,
         LocalTypes', faults' \in 0..MaxFaults,
         \A p \in Requests \ {q} : /\ pc'[p] = pc[p] /\ on'[p] = on[p]
                                   /\ name'[p] = name[p] /\ base'[p] = base[p],
         Held(q)', pc'[q] # "committed",
         q \in InTransaction' => \A p \in InTransaction \ {q} : on[p] # on'[q],
         pc'[q] \in {"named", "counted"} => AppOf(on'[q]) = {},
         pc'[q] = "counted" => UnderLimit /\ \A p \in Requests \ {q} : pc[p] # "counted"
  PROVE  IInv'
<1>0. /\ TypeOK /\ InOrder /\ HeldByAll /\ OnePerRepository /\ NoAppYet /\ CountHolds
      /\ Named /\ OneAppPerName /\ MadeStays /\ NoLostUpload
  BY DEF IInv
<1>1. UNCHANGED <<connected, repo, limit, head, parent, stored, app>>
  BY DEF github, branches
<1>2. /\ Repos' = Repos /\ Rows' = Rows /\ Committed' = Committed /\ ActiveApps' = ActiveApps
      /\ UnderLimit' = UnderLimit /\ \A r : AppOf(r)' = AppOf(r)
      /\ \A c : History(c)' = History(c)
  BY <1>1 DEF Repos, Rows, Committed, ActiveApps, UnderLimit, AppOf, History
<1>3. TypeOK'
  BY <1>0, <1>1, <1>2 DEF TypeOK, LocalTypes
<1>4. InOrder' /\ Named' /\ OneAppPerName' /\ NoLostUpload'
  BY <1>0, <1>1, <1>2 DEF InOrder, Named, OneAppPerName, NoLostUpload
<1>5. HeldByAll'
  <2>1. \A p \in Requests \ {q} : Held(p)'
    BY <1>0, <1>1, <1>2 DEF HeldByAll, Held, At
  <2> QED
    BY <2>1 DEF HeldByAll
<1>6. OnePerRepository'
  BY <1>0 DEF OnePerRepository, InTransaction
<1>7. NoAppYet'
  BY <1>0, <1>2 DEF NoAppYet
<1>8. CountHolds'
  BY <1>0, <1>2 DEF CountHolds, At
<1>9. MadeStays'
  BY <1>0, <1>1, <1>2 DEF MadeStays, At
<1> QED
  BY <1>3, <1>4, <1>5, <1>6, <1>7, <1>8, <1>9 DEF IInv

LEMMA EndKeeps ==
  ASSUME IInv, NEW q \in Requests, UNCHANGED <<github, limit, branches, app>>,
         faults' \in 0..MaxFaults, End(q)
  PROVE  IInv'
<1>1. LocalTypes
  BY DEF IInv, TypeOK, LocalTypes
<1>2. /\ LocalTypes' /\ pc'[q] = "idle" /\ base'[q] = 0
      /\ \A p \in Requests \ {q} : /\ pc'[p] = pc[p] /\ on'[p] = on[p]
                                   /\ name'[p] = name[p] /\ base'[p] = base[p]
  BY <1>1, WorkspaceAssumption DEF LocalTypes, End, GoTo, WorkOn, Steps
<1>3. Held(q)' /\ q \notin InTransaction'
  BY <1>2 DEF Held, At, InTransaction
<1> QED
  BY <1>2, <1>3, StepKeeps

\* Requests that end without a write, and crashes.
LEMMA EndingsKeep ==
  ASSUME IInv, NEW q \in Requests,
         RefusedByGitHub(q) \/ ReuseApp(q) \/ RefuseApp(q) \/ Drop(q)
  PROVE  IInv'
<1>1. UNCHANGED <<github, limit, branches, app>> /\ End(q)
  BY DEF RefusedByGitHub, ReuseApp, RefuseApp, Drop
<1>2. faults' \in 0..MaxFaults
  BY WorkspaceAssumption DEF IInv, TypeOK, RefusedByGitHub, ReuseApp, RefuseApp, Drop
<1> QED
  BY <1>1, <1>2, EndKeeps

\* A request begins: the name or the repository it asks for is there.
LEMMA AskKeeps ==
  ASSUME IInv, NEW q \in Requests,
         \/ \E slug \in Names, upload \in Uploads : AskPublish(q, slug, upload)
         \/ \E a \in AppIds, upload \in Uploads : AskUpdate(q, a, upload)
         \/ \E r \in RepoIds : AskAnalysis(q, r)
  PROVE  IInv'
<1>1. LocalTypes /\ Held(q) /\ faults \in 0..MaxFaults
  BY DEF IInv, TypeOK, LocalTypes, HeldByAll
<1>2. UNCHANGED <<github, limit, branches, app, base, faults>> /\ pc[q] = "idle"
  BY DEF AskPublish, AskUpdate, AskAnalysis, At
<1>3. \/ /\ pc' = [pc EXCEPT ![q] = "checked"] /\ UNCHANGED on
         /\ \E slug \in Names : name' = [name EXCEPT ![q] = slug]
      \/ \E r \in Repos, step \in {"ready", "inspect"} :
           /\ pc' = [pc EXCEPT ![q] = step]
           /\ on' = [on EXCEPT ![q] = r] /\ UNCHANGED name
  <2>1. \A a \in ActiveApps : app[a].repo \in Repos
    BY DEF IInv, TypeOK, ActiveApps
  <2> QED
    BY <2>1 DEF AskPublish, AskUpdate, AskAnalysis, GoTo, WorkOn, loadManagedApp,
                loadSelectedRepository
<1>4. base[q] = 0 /\ base'[q] = 0
  BY <1>1, <1>2 DEF Held
<1>5. Repos' = Repos /\ Repos \subseteq 0..MaxRepos
  BY <1>2, WorkspaceAssumption DEF Repos, RepoIds, github
<1>6. LocalTypes'
  BY <1>1, <1>2, <1>3, <1>5 DEF LocalTypes, Steps
<1>7. /\ \A p \in Requests \ {q} : /\ pc'[p] = pc[p] /\ on'[p] = on[p]
                                   /\ name'[p] = name[p] /\ base'[p] = base[p]
      /\ \/ pc'[q] = "checked" /\ name'[q] \in Names
         \/ pc'[q] \in {"ready", "inspect"} /\ on'[q] \in Repos
  BY <1>1, <1>2, <1>3 DEF LocalTypes
<1>8. Held(q)' /\ q \notin InTransaction'
  BY <1>4, <1>5, <1>7 DEF Held, At, InTransaction
<1> QED
  BY <1>1, <1>2, <1>6, <1>7, <1>8, StepKeeps

\* What updateRef compares with is the head as it was read.
LEMMA ReadHeadKeeps ==
  ASSUME IInv, NEW q \in Requests, ReadHead(q)
  PROVE  IInv'
<1>1. LocalTypes /\ Held(q) /\ faults \in 0..MaxFaults
  BY DEF IInv, TypeOK, LocalTypes, HeldByAll
<1>2. /\ pc[q] = "ready" /\ pc' = [pc EXCEPT ![q] = "read"]
      /\ base' = [base EXCEPT ![q] = head[on[q]]]
      /\ UNCHANGED <<github, limit, branches, app, on, name, faults>>
  BY DEF ReadHead, At, GoTo
<1>3. on[q] \in Repos /\ on[q] \in RepoIds
  BY <1>1, <1>2 DEF Held, At, Repos
<1>4. head[on[q]] \in {0} \cup Committed
  BY <1>3 DEF IInv, TypeOK
<1>5. LocalTypes'
  <2>1. head[on[q]] \in 0..(MaxCommits + MaxApps)
    BY <1>4, WorkspaceAssumption DEF Committed, Commits
  <2> QED
    BY <1>1, <1>2, <2>1 DEF LocalTypes, Steps
<1>6. /\ \A p \in Requests \ {q} : /\ pc'[p] = pc[p] /\ on'[p] = on[p]
                                   /\ name'[p] = name[p] /\ base'[p] = base[p]
      /\ pc'[q] = "read" /\ base'[q] = head[on[q]] /\ on'[q] = on[q]
  BY <1>1, <1>2 DEF LocalTypes
<1>7. Repos' = Repos /\ Committed' = Committed
  BY <1>2 DEF Repos, Committed, github, branches
<1>8. Held(q)' /\ q \notin InTransaction'
  BY <1>3, <1>4, <1>6, <1>7 DEF Held, At, InTransaction
<1> QED
  BY <1>1, <1>2, <1>5, <1>6, <1>8, StepKeeps

\* The three steps of the analysis before its INSERT.
LEMMA AnalysisKeeps ==
  ASSUME IInv, NEW q \in Requests, LockRepository(q) \/ CheckName(q) \/ enforceActiveAppLimit(q)
  PROVE  IInv'
<1>0. /\ LocalTypes /\ Held(q) /\ faults \in 0..MaxFaults
      /\ OnePerRepository /\ NoAppYet
  BY DEF IInv, TypeOK, LocalTypes, HeldByAll
<1>1. UNCHANGED <<github, limit, branches, app, on, name, faults>>
  BY DEF LockRepository, CheckName, enforceActiveAppLimit
<1>2. PICK step \in {"locked", "named", "counted"} : pc' = [pc EXCEPT ![q] = step]
  BY DEF LockRepository, CheckName, enforceActiveAppLimit, GoTo
<1>3. /\ pc[q] \in {"inspect", "locked", "named"}
      /\ step # "locked" => q \in InTransaction
      /\ step = "locked" => LockRepository(q)
      /\ step = "named" => CheckName(q)
      /\ step = "counted" => enforceActiveAppLimit(q)
  <2>1. q \in Requests /\ pc'[q] = step
    BY <1>0, <1>2 DEF LocalTypes
  <2>2. /\ LockRepository(q) => pc[q] = "inspect" /\ pc'[q] = "locked"
        /\ CheckName(q) => pc[q] = "locked" /\ pc'[q] = "named"
        /\ enforceActiveAppLimit(q) => pc[q] = "named" /\ pc'[q] = "counted"
    BY <1>0 DEF LockRepository, CheckName, enforceActiveAppLimit, GoTo, At, LocalTypes
  <2> QED
    BY <2>1, <2>2 DEF InTransaction
<1>4. on[q] \in Repos
  BY <1>0, <1>3 DEF Held, At
<1>5. /\ base' \in [Requests -> 0..(MaxCommits + MaxApps)]
      /\ \A p \in Requests \ {q} : base'[p] = base[p]
      /\ step = "locked" => base'[q] = 0
      /\ base'[q] = 0 \/ (base'[q] \in Rows /\ ~app[base'[q]].alive)
  <2>1. \A a \in Rows : a \in 0..(MaxCommits + MaxApps)
    BY WorkspaceAssumption DEF Rows, AppIds
  <2>2. CASE LockRepository(q) \/ enforceActiveAppLimit(q)
    <3>1. base' = base /\ (pc[q] = "inspect" \/ pc[q] = "named")
      BY <2>2 DEF LockRepository, enforceActiveAppLimit, At
    <3>2. step = "locked" => pc[q] = "inspect"
      BY <1>3 DEF LockRepository, At
    <3> QED
      BY <1>0, <3>1, <3>2 DEF Held, LocalTypes
  <2>3. CASE CheckName(q)
    <3>1. pc[q] = "locked" /\ step # "locked"
      <4>1. pc'[q] = step
        BY <1>0, <1>2 DEF LocalTypes
      <4> QED
        BY <1>0, <2>3, <4>1 DEF CheckName, At, GoTo, LocalTypes
    <3>2. base[q] = 0
      BY <1>0, <3>1 DEF Held
    <3>3. \/ \E a \in Rows : ~app[a].alive /\ base' = [base EXCEPT ![q] = a]
          \/ base' = base
      BY <2>3 DEF CheckName, DeletedWith
    <3> QED
      BY <1>0, <2>1, <3>1, <3>2, <3>3 DEF LocalTypes
  <2> QED
    BY <2>2, <2>3
<1>6. LocalTypes'
  BY <1>0, <1>1, <1>2, <1>5 DEF LocalTypes, Steps
<1>7. /\ \A p \in Requests \ {q} : /\ pc'[p] = pc[p] /\ on'[p] = on[p]
                                   /\ name'[p] = name[p] /\ base'[p] = base[p]
      /\ pc'[q] = step /\ on'[q] = on[q]
  BY <1>0, <1>1, <1>2, <1>5 DEF LocalTypes
<1>8. Repos' = Repos /\ Rows' = Rows /\ app' = app
  BY <1>1 DEF Repos, Rows, github
<1>9. Held(q)' /\ pc'[q] # "committed"
  BY <1>4, <1>5, <1>7, <1>8 DEF Held, At
<1>10. \A p \in InTransaction \ {q} : on[p] # on'[q]
  <2>1. CASE step = "locked"
    BY <1>1, <1>3, <2>1 DEF LockRepository
  <2>2. CASE step # "locked"
    BY <1>0, <1>1, <1>3, <2>2 DEF OnePerRepository
  <2> QED
    BY <2>1, <2>2
<1>11. pc'[q] \in {"named", "counted"} => AppOf(on'[q]) = {}
  <2>1. step = "named" => AppOf(on[q]) = {}
    BY <1>3 DEF CheckName
  <2>2. step = "counted" => AppOf(on[q]) = {}
    BY <1>0, <1>3 DEF enforceActiveAppLimit, At, NoAppYet
  <2> QED
    BY <1>7, <2>1, <2>2
<1>12. pc'[q] = "counted" => UnderLimit /\ \A p \in Requests \ {q} : pc[p] # "counted"
  BY <1>3, <1>7 DEF enforceActiveAppLimit, WorkspaceLock
<1> QED
  BY <1>0, <1>1, <1>6, <1>7, <1>9, <1>10, <1>11, <1>12, StepKeeps

-----------------------------------------------------------------------------
(* Repositories.                                                           *)

LEMMA RepositoryKeeps ==
  ASSUME IInv, NEW slug \in Names, NEW m \in BOOLEAN, NextRepo \in RepoIds,
         repo' = [repo EXCEPT ![NextRepo] = [slug |-> slug, managed |-> m]],
         UNCHANGED <<connected, limit, branches, app, name, base, faults>>,
         \/ UNCHANGED <<pc, on>>
         \/ \E q \in Requests : /\ pc[q] = "checked"
                                /\ pc' = [pc EXCEPT ![q] = "ready"]
                                /\ on' = [on EXCEPT ![q] = NextRepo]
  PROVE  IInv'
<1>0. /\ TypeOK /\ InOrder /\ HeldByAll /\ OnePerRepository /\ NoAppYet /\ CountHolds
      /\ Named /\ OneAppPerName /\ MadeStays /\ NoLostUpload
  BY DEF IInv
<1>1. PICK n \in 0..MaxRepos : Repos = 1..n /\ NextRepo = n + 1
  BY <1>0, NextNumbers
<1>2. NextRepo \notin Repos /\ NextRepo \in 0..MaxRepos
  BY <1>1, WorkspaceAssumption DEF RepoIds
<1>3. /\ repo' \in [RepoIds -> [slug : Names \cup {NoName}, managed : BOOLEAN]]
      /\ Repos' = Repos \cup {NextRepo}
  <2>1. repo \in [RepoIds -> [slug : Names \cup {NoName}, managed : BOOLEAN]]
    BY <1>0 DEF TypeOK
  <2> QED
    BY <2>1, WorkspaceAssumption DEF Repos
<1>4. /\ Rows' = Rows /\ Committed' = Committed /\ ActiveApps' = ActiveApps
      /\ UnderLimit' = UnderLimit /\ \A r : AppOf(r)' = AppOf(r)
      /\ \A c : History(c)' = History(c)
  BY DEF Rows, Committed, ActiveApps, UnderLimit, AppOf, History, branches
<1>5. LocalTypes
  BY <1>0 DEF TypeOK, LocalTypes
<1>6. LocalTypes'
  BY <1>2, <1>5 DEF LocalTypes, Steps
<1>7. \A p \in Requests : \/ pc'[p] = pc[p] /\ on'[p] = on[p]
                          \/ pc[p] = "checked" /\ pc'[p] = "ready" /\ on'[p] = NextRepo
  BY <1>5 DEF LocalTypes
<1>8. TypeOK'
  <2>1. \A a \in Rows' : app'[a].repo \in Repos' /\ app'[a].slug # NoName
    BY <1>0, <1>3, <1>4 DEF TypeOK
  <2>2. stored' \subseteq Committed' \X Repos'
    BY <1>0, <1>3, <1>4 DEF TypeOK, branches
  <2> QED
    BY <1>0, <1>3, <1>4, <1>6, <2>1, <2>2 DEF TypeOK, LocalTypes, branches
<1>9. InOrder'
  <2>1. Repos' = 1..n + 1 /\ n + 1 \in 0..MaxRepos
    BY <1>1, <1>2, <1>3
  <2> QED
    BY <1>0, <1>4, <2>1 DEF InOrder
<1>10. HeldByAll'
  <2> SUFFICES ASSUME NEW p \in Requests PROVE Held(p)'
    BY DEF HeldByAll
  <2>1. Held(p)
    BY <1>0 DEF HeldByAll
  <2>2. CASE pc'[p] = pc[p] /\ on'[p] = on[p]
    BY <1>3, <1>4, <2>1, <2>2 DEF Held, At
  <2>3. CASE pc[p] = "checked" /\ pc'[p] = "ready" /\ on'[p] = NextRepo
    BY <1>3, <1>4, <2>1, <2>3 DEF Held, At
  <2> QED
    BY <1>7, <2>2, <2>3
<1>11. OnePerRepository' /\ NoAppYet' /\ CountHolds'
  <2>1. \A p \in Requests : pc'[p] \in {"locked", "named", "counted"} =>
          pc'[p] = pc[p] /\ on'[p] = on[p]
    BY <1>7
  <2> QED
    BY <1>0, <1>4, <2>1 DEF OnePerRepository, InTransaction, NoAppYet, CountHolds, At
<1>12. Named' /\ OneAppPerName'
  BY <1>0, <1>4 DEF Named, OneAppPerName
<1>13. MadeStays' /\ NoLostUpload'
  <2>1. UNCHANGED <<head, stored, base>>
    BY DEF branches
  <2> QED
    BY <1>0, <1>4, <1>7, <2>1 DEF MadeStays, NoLostUpload, At
<1> QED
  BY <1>8, <1>9, <1>10, <1>11, <1>12, <1>13 DEF IInv

LEMMA RepositoriesKeep ==
  ASSUME IInv,
         \/ \E slug \in Names : selectWorkspaceRepository(slug)
         \/ \E q \in Requests : createManagedRepository(q)
  PROVE  IInv'
<1>1. CASE \E slug \in Names : selectWorkspaceRepository(slug)
  BY <1>1, RepositoryKeeps DEF selectWorkspaceRepository, Selected, locals
<1>2. ASSUME NEW q \in Requests, createManagedRepository(q) PROVE IInv'
  <2>1. name[q] \in Names
    BY <1>2 DEF IInv, HeldByAll, Held, createManagedRepository
  <2>2. /\ NextRepo \in RepoIds
        /\ repo' = [repo EXCEPT ![NextRepo] = [slug |-> name[q], managed |-> TRUE]]
        /\ UNCHANGED <<connected, limit, branches, app, name, base, faults>>
        /\ pc[q] = "checked" /\ pc' = [pc EXCEPT ![q] = "ready"]
        /\ on' = [on EXCEPT ![q] = NextRepo]
    BY <1>2 DEF createManagedRepository, Managed, GoTo, WorkOn, At
  <2> QED
    BY <2>1, <2>2, RepositoryKeeps
<1> QED
  BY <1>1, <1>2

-----------------------------------------------------------------------------
(* Commits.                                                                *)

\* A commit on top of the head: its history is the head's and itself, and the
\* history of the older commits is what it was.
LEMMA HistoryGrows ==
  ASSUME TypeOK, InOrder, NEW n \in Commits, n = NextCommit, NEW b \in {0} \cup Committed,
         parent' = [parent EXCEPT ![n] = b]
  PROVE  /\ n \notin Committed /\ Committed' = Committed \cup {n}
         /\ \E m \in 0..MaxCommits : Committed' = 1..m
         /\ parent' \in [Commits -> 0..MaxCommits + 1]
         /\ \A c \in Committed' : parent'[c] < c
         /\ \A c \in Committed : History(c) \subseteq History(c)'
         /\ History(b) \subseteq History(n)' /\ n \in History(n)'
         /\ History(0) = {}
<1>1. PICK k \in 0..MaxCommits : Committed = 1..k /\ n = k + 1
  BY NextNumbers
<1>2. /\ parent \in [Commits -> 0..MaxCommits + 1]
      /\ \A c \in Committed : c \in Commits /\ parent[c] < c /\ c < n
  <2>1. parent \in [Commits -> 0..MaxCommits + 1] /\ \A c \in Committed : parent[c] < c
    BY DEF TypeOK
  <2>2. \A c \in Committed : c \in Commits /\ c < n
    BY <1>1 DEF Committed
  <2> QED
    BY <2>1, <2>2
<1>3. n \notin Committed /\ n \in Commits /\ n # 0 /\ b < n /\ b \in 0..MaxCommits
  BY <1>1, WorkspaceAssumption DEF Commits
<1>4. /\ parent' \in [Commits -> 0..MaxCommits + 1] /\ parent'[n] = b
      /\ \A c \in Commits \ {n} : parent'[c] = parent[c]
  BY <1>2, <1>3, WorkspaceAssumption
<1>5. Committed' = Committed \cup {n}
  <2>1. b # MaxCommits + 1
    BY <1>3, WorkspaceAssumption
  <2> QED
    BY <1>3, <1>4, <2>1 DEF Committed
<1>6. \A c \in Committed' : parent'[c] < c
  BY <1>2, <1>3, <1>4, <1>5
<1>7. Committed' = 1..k + 1 /\ k + 1 \in 0..MaxCommits
  BY <1>1, <1>3, <1>5 DEF Commits
<1>8. \A c \in Committed : parent[c] \in Committed \cup {0} /\ parent'[c] = parent[c]
  BY <1>1, <1>2, <1>3, <1>4
<1> DEFINE Closed(S) == \A e \in S : parent[e] \in S \cup {0}
           ClosedNow(S) == \A e \in S : parent'[e] \in S \cup {0}
<1>9. \A S \in SUBSET Committed' : ClosedNow(S) =>
        S \cap Committed \in SUBSET Committed /\ Closed(S \cap Committed)
  BY <1>8
<1>10. ASSUME NEW c \in Committed, NEW d \in History(c), NEW S \in SUBSET Committed',
              ClosedNow(S), c \in S
       PROVE  d \in S
  <2>1. c \in S \cap Committed /\ S \cap Committed \in SUBSET Committed /\ Closed(S \cap Committed)
    BY <1>9, <1>10
  <2>2. d \in S \cap Committed
    BY <2>1 DEF History
  <2> QED
    BY <2>2
<1>11. \A c \in Committed : c # 0
  BY <1>1
<1>12. \A c : History(c) \subseteq Committed'
  BY <1>5 DEF History
<1>13. \A c \in Committed : History(c) \subseteq History(c)'
  BY <1>10, <1>11, <1>12 DEF History
<1>14. History(b) \subseteq History(n)'
  <2> SUFFICES ASSUME NEW d \in History(b) PROVE d \in History(n)'
    OBVIOUS
  <2>1. b \in Committed
    BY DEF History
  <2>2. ASSUME NEW S \in SUBSET Committed', ClosedNow(S), n \in S PROVE d \in S
    BY <1>4, <1>10, <1>11, <2>1, <2>2
  <2>3. d \in Committed' /\ n # 0
    BY <1>3, <1>12
  <2> QED
    BY <2>2, <2>3 DEF History
<1>15. n \in History(n)'
  BY <1>3, <1>5 DEF History
<1>16. History(0) = {}
  BY DEF History
<1> QED
  BY <1>3, <1>4, <1>5, <1>6, <1>7, <1>13, <1>14, <1>15, <1>16

LEMMA CommitFilesKeeps ==
  ASSUME IInv, NEW q \in Requests, CommitFiles(q)
  PROVE  IInv'
<1>0. /\ TypeOK /\ InOrder /\ HeldByAll /\ OnePerRepository /\ NoAppYet /\ CountHolds
      /\ Named /\ OneAppPerName /\ MadeStays /\ NoLostUpload
  BY DEF IInv
<1>1. PICK n \in Commits : n = NextCommit
  BY DEF CommitFiles
<1>2. PICK r \in 0..MaxRepos : r = on[q]
  BY <1>0 DEF TypeOK
<1>3. /\ pc[q] = "read" /\ head[r] = base[q]
      /\ parent' = [parent EXCEPT ![n] = base[q]] /\ head' = [head EXCEPT ![r] = n]
      /\ base' = [base EXCEPT ![q] = n] /\ pc' = [pc EXCEPT ![q] = "committed"]
      /\ UNCHANGED <<github, limit, stored, app, on, name, faults>>
  BY <1>1, <1>2 DEF CommitFiles, FastForward, At, GoTo
<1>4. LocalTypes /\ Held(q)
  BY <1>0 DEF TypeOK, LocalTypes, HeldByAll
<1>5. base[q] \in {0} \cup Committed /\ r \in Repos /\ r \in RepoIds
  BY <1>2, <1>3, <1>4 DEF Held, At, Repos
<1>6. /\ n \notin Committed /\ Committed' = Committed \cup {n}
      /\ \E k \in 0..MaxCommits : Committed' = 1..k
      /\ parent' \in [Commits -> 0..MaxCommits + 1]
      /\ \A c \in Committed' : parent'[c] < c
      /\ \A c \in Committed : History(c) \subseteq History(c)'
      /\ History(base[q]) \subseteq History(n)' /\ n \in History(n)'
      /\ History(0) = {}
  <2>1. PICK b \in {0} \cup Committed : b = base[q]
    BY <1>5
  <2>2. /\ n \notin Committed /\ Committed' = Committed \cup {n}
        /\ \E k \in 0..MaxCommits : Committed' = 1..k
        /\ parent' \in [Commits -> 0..MaxCommits + 1]
        /\ \A c \in Committed' : parent'[c] < c
        /\ \A c \in Committed : History(c) \subseteq History(c)'
        /\ History(b) \subseteq History(n)' /\ n \in History(n)'
        /\ History(0) = {}
    BY <1>0, <1>1, <1>3, <2>1, HistoryGrows
  <2> QED
    BY <2>1, <2>2
<1>7. /\ Repos' = Repos /\ Rows' = Rows /\ ActiveApps' = ActiveApps
      /\ UnderLimit' = UnderLimit /\ \A s : AppOf(s)' = AppOf(s)
  BY <1>3 DEF Repos, Rows, ActiveApps, UnderLimit, AppOf, github
<1>8. head \in [RepoIds -> {0} \cup Committed] /\ stored \subseteq Committed \X Repos
  BY <1>0 DEF TypeOK
<1>9. LocalTypes' /\ head' \in [RepoIds -> {0} \cup Committed']
  <2>1. n \in 0..(MaxCommits + MaxApps)
    BY WorkspaceAssumption DEF Commits
  <2> QED
    BY <1>3, <1>4, <1>6, <1>8, <2>1 DEF LocalTypes, Steps
<1>10. TypeOK'
  <2>1. stored' \subseteq Committed' \X Repos'
    BY <1>3, <1>6, <1>7, <1>8
  <2>2. \A a \in Rows' : app'[a].repo \in Repos' /\ app'[a].slug # NoName
    BY <1>0, <1>3, <1>7 DEF TypeOK
  <2> QED
    BY <1>0, <1>3, <1>6, <1>9, <2>1, <2>2 DEF TypeOK, LocalTypes, github
<1>11. InOrder'
  BY <1>0, <1>6, <1>7 DEF InOrder
<1>12. \A p \in Requests : IF p = q THEN pc'[p] = "committed" /\ base'[p] = n
                                    ELSE pc'[p] = pc[p] /\ base'[p] = base[p]
  BY <1>3, <1>4 DEF LocalTypes
<1>13. HeldByAll'
  <2> SUFFICES ASSUME NEW p \in Requests PROVE Held(p)'
    BY DEF HeldByAll
  <2>1. Held(p)
    BY <1>0 DEF HeldByAll
  <2>2. CASE p = q
    BY <1>2, <1>3, <1>5, <1>6, <1>7, <1>12, <2>2 DEF Held, At
  <2>3. CASE p # q
    BY <1>3, <1>6, <1>7, <1>12, <2>1, <2>3 DEF Held, At
  <2> QED
    BY <2>2, <2>3
<1>14. OnePerRepository' /\ NoAppYet' /\ CountHolds'
  <2>1. \A p \in Requests : pc'[p] \in {"locked", "named", "counted"} => pc'[p] = pc[p]
    BY <1>12
  <2> QED
    BY <1>0, <1>3, <1>7, <2>1 DEF OnePerRepository, InTransaction, NoAppYet, CountHolds, At
<1>15. Named' /\ OneAppPerName'
  BY <1>0, <1>3, <1>7 DEF Named, OneAppPerName
<1>16. ASSUME NEW s \in RepoIds PROVE History(head[s]) \subseteq History(head[s])'
  <2>1. CASE s = r
    <3>1. head'[s] = n
      BY <1>3, <1>5, <1>8, <2>1
    <3>2. History(head[s])' = History(n)'
      BY <3>1 DEF History
    <3> QED
      BY <1>3, <1>6, <2>1, <3>2
  <2>2. CASE s # r
    <3>1. head'[s] = head[s] /\ head[s] \in {0} \cup Committed
      BY <1>3, <1>8, <2>2
    <3>2. PICK c \in {0} \cup Committed : c = head[s] /\ c = head'[s]
      BY <3>1
    <3>3. History(head[s])' = History(c)'
      BY <3>2 DEF History
    <3>4. History(c) \subseteq History(c)'
      BY <1>6, <3>2
    <3> QED
      BY <3>2, <3>3, <3>4
  <2> QED
    BY <2>1, <2>2
<1>17. MadeStays'
  <2> SUFFICES ASSUME NEW p \in Requests, pc'[p] = "committed"
               PROVE  base'[p] \in History(head[on[p]])'
    BY DEF MadeStays, At
  <2>1. CASE p = q
    <3>1. base'[p] = n /\ head'[on'[p]] = n
      BY <1>2, <1>3, <1>5, <1>8, <1>12, <2>1
    <3>2. History(head[on[p]])' = History(n)'
      BY <3>1 DEF History
    <3> QED
      BY <1>6, <3>1, <3>2
  <2>2. CASE p # q
    <3>1. pc[p] = "committed" /\ base'[p] = base[p] /\ on'[p] = on[p]
      BY <1>3, <1>12, <2>2
    <3>2. PICK s \in RepoIds : s = on[p] /\ s = on'[p]
      BY <1>0, <3>1 DEF HeldByAll, Held, At, Repos
    <3>3. base[p] \in History(head[s]) /\ History(head[s]) \subseteq History(head[s])'
      BY <1>0, <1>16, <3>1, <3>2 DEF MadeStays, At
    <3>4. History(head[on[p]])' = History(head[s])'
      BY <3>2 DEF History
    <3> QED
      BY <3>1, <3>3, <3>4
  <2> QED
    BY <2>1, <2>2
<1>18. NoLostUpload'
  <2> SUFFICES ASSUME NEW u \in stored PROVE u[1] \in History(head[u[2]])'
    BY <1>3 DEF NoLostUpload
  <2>1. u[2] \in RepoIds
    BY <1>8 DEF Repos
  <2> QED
    BY <1>0, <1>16, <2>1 DEF NoLostUpload
<1> QED
  BY <1>10, <1>11, <1>13, <1>14, <1>15, <1>17, <1>18 DEF IInv

LEMMA RecordPublishKeeps ==
  ASSUME IInv, NEW q \in Requests, RecordPublish(q)
  PROVE  IInv'
<1>0. /\ TypeOK /\ InOrder /\ HeldByAll /\ OnePerRepository /\ NoAppYet /\ CountHolds
      /\ Named /\ OneAppPerName /\ MadeStays /\ NoLostUpload
  BY DEF IInv
<1>1. /\ pc[q] = "committed" /\ stored' = stored \cup {<<base[q], on[q]>>}
      /\ base' = [base EXCEPT ![q] = 0] /\ pc' = [pc EXCEPT ![q] = "inspect"]
      /\ UNCHANGED <<github, limit, head, parent, app, on, name, faults>>
  BY DEF RecordPublish, At, GoTo
<1>2. LocalTypes /\ Held(q)
  BY <1>0 DEF TypeOK, LocalTypes, HeldByAll
<1>3. base[q] \in Committed /\ on[q] \in Repos
  BY <1>1, <1>2 DEF Held, At
<1>4. /\ Repos' = Repos /\ Rows' = Rows /\ Committed' = Committed /\ ActiveApps' = ActiveApps
      /\ UnderLimit' = UnderLimit /\ \A r : AppOf(r)' = AppOf(r)
  BY <1>1 DEF Repos, Rows, Committed, ActiveApps, UnderLimit, AppOf, github
<1>5. \A r : History(head[r])' = History(head[r])
  BY <1>1 DEF History, Committed
<1>6. LocalTypes' /\ \A p \in Requests : IF p = q THEN pc'[p] = "inspect" /\ base'[p] = 0
                                                  ELSE pc'[p] = pc[p] /\ base'[p] = base[p]
  BY <1>1, <1>2, WorkspaceAssumption DEF LocalTypes, Steps
<1>7. TypeOK'
  <2>1. stored' \subseteq Committed' \X Repos'
    BY <1>0, <1>1, <1>3, <1>4 DEF TypeOK
  <2> QED
    BY <1>0, <1>1, <1>4, <1>6, <2>1 DEF TypeOK, LocalTypes, github
<1>8. InOrder' /\ Named' /\ OneAppPerName'
  BY <1>0, <1>1, <1>4 DEF InOrder, Named, OneAppPerName
<1>9. HeldByAll'
  <2> SUFFICES ASSUME NEW p \in Requests PROVE Held(p)'
    BY DEF HeldByAll
  <2>1. Held(p)
    BY <1>0 DEF HeldByAll
  <2>2. CASE p = q
    BY <1>1, <1>3, <1>4, <1>6, <2>2 DEF Held, At
  <2>3. CASE p # q
    BY <1>1, <1>4, <1>6, <2>1, <2>3 DEF Held, At
  <2> QED
    BY <2>2, <2>3
<1>10. OnePerRepository' /\ NoAppYet' /\ CountHolds'
  <2>1. \A p \in Requests : pc'[p] \in {"locked", "named", "counted"} => pc'[p] = pc[p]
    BY <1>6
  <2> QED
    BY <1>0, <1>1, <1>4, <2>1 DEF OnePerRepository, InTransaction, NoAppYet, CountHolds, At
<1>11. MadeStays'
  <2>1. \A p \in Requests : pc'[p] = "committed" =>
          pc[p] = "committed" /\ base'[p] = base[p] /\ on'[p] = on[p]
    BY <1>1, <1>6
  <2> QED
    BY <1>0, <1>1, <2>1 DEF MadeStays, At, History, Committed
<1>12. NoLostUpload'
  <2>1. \A u \in stored : u[1] \in History(head[u[2]])
    BY <1>0 DEF NoLostUpload
  <2>2. base[q] \in History(head[on[q]])
    BY <1>0, <1>1 DEF MadeStays, At
  <2>3. \A u \in stored' : u[1] \in History(head[u[2]])
    BY <1>1, <2>1, <2>2
  <2> QED
    BY <1>5, <2>3 DEF NoLostUpload
<1> QED
  BY <1>7, <1>8, <1>9, <1>10, <1>11, <1>12 DEF IInv

-----------------------------------------------------------------------------
(* Apps, and the customer's and the operator's settings.                   *)

\* A set of active apps within the present ones is not larger.
LEMMA FewerApps ==
  ASSUME InOrder, ActiveApps' \subseteq ActiveApps
  PROVE  /\ Cardinality(ActiveApps') \in Nat /\ Cardinality(ActiveApps) \in Nat
         /\ Cardinality(ActiveApps') <= Cardinality(ActiveApps)
  BY AppsFinite, FS_Subset, FS_CardinalityType

\* The INSERT of an app adds one to the count, and takes no name or repository.
LEMMA CreateAppFacts ==
  ASSUME IInv, NEW q \in Requests, CreateApp(q), NEW n \in AppIds, n = NextApp
  PROVE  /\ n \notin Rows /\ Rows' = Rows \cup {n} /\ n \notin ActiveApps
         /\ \E k \in 0..MaxApps : Rows' = 1..k
         /\ ActiveApps' = ActiveApps \cup {n}
         /\ app' \in [AppIds -> [repo : 0..MaxRepos, slug : Names \cup {NoName, Freed}, alive : BOOLEAN]]
         /\ app'[n] = [repo |-> on[q], slug |-> repo[on[q]].slug, alive |-> TRUE]
         /\ \A a \in ActiveApps : app'[a] = app[a] /\ app[a].slug # repo[on[q]].slug
         /\ \A a \in Rows : /\ app'[a].repo = app[a].repo /\ app'[a].alive = app[a].alive
                            /\ app'[a].slug \in {app[a].slug, Freed}
         /\ on[q] \in Repos /\ repo[on[q]].slug \in Names /\ AppOf(on[q]) = {}
<1>0. /\ TypeOK /\ InOrder /\ HeldByAll /\ NoAppYet
  BY DEF IInv
<1>1. /\ pc[q] = "counted" /\ UniqueIndex(q)
      /\ app' = [a \in AppIds |->
                   CASE a = n -> [repo |-> on[q], slug |-> repo[on[q]].slug, alive |-> TRUE]
                     [] a = base[q] -> [app[a] EXCEPT !.slug = Freed]
                     [] OTHER -> app[a]]
  BY DEF CreateApp, At, Slug
<1>2. PICK k \in 0..MaxApps : Rows = 1..k /\ n = k + 1
  BY <1>0, NextNumbers
<1>3. n \notin Rows /\ n # 0
  BY <1>2
<1>4. /\ on[q] \in Repos /\ AppOf(on[q]) = {}
      /\ base[q] = 0 \/ (base[q] \in Rows /\ ~app[base[q]].alive)
  BY <1>0, <1>1 DEF HeldByAll, Held, At, NoAppYet
<1>5. repo[on[q]].slug \in Names /\ on[q] # 0 /\ on[q] \in 0..MaxRepos
  <2>1. repo \in [RepoIds -> [slug : Names \cup {NoName}, managed : BOOLEAN]]
    BY <1>0 DEF TypeOK
  <2> QED
    BY <1>4, <2>1, WorkspaceAssumption DEF Repos, RepoIds
<1>6. app \in [AppIds -> [repo : 0..MaxRepos, slug : Names \cup {NoName, Freed}, alive : BOOLEAN]]
  BY <1>0 DEF TypeOK
<1>7. n # base[q]
  BY <1>3, <1>4
<1>8. /\ app'[n] = [repo |-> on[q], slug |-> repo[on[q]].slug, alive |-> TRUE]
      /\ \A a \in AppIds \ {n} :
           app'[a] = IF a = base[q] THEN [app[a] EXCEPT !.slug = Freed] ELSE app[a]
  BY <1>1, <1>7
<1>9. app' \in [AppIds -> [repo : 0..MaxRepos, slug : Names \cup {NoName, Freed}, alive : BOOLEAN]]
  <2>1. DOMAIN app' = AppIds /\ app' = [a \in AppIds |-> app'[a]]
    BY <1>1
  <2>2. \A a \in AppIds :
          app'[a] \in [repo : 0..MaxRepos, slug : Names \cup {NoName, Freed}, alive : BOOLEAN]
    <3> SUFFICES ASSUME NEW a \in AppIds
                 PROVE  app'[a] \in [repo : 0..MaxRepos, slug : Names \cup {NoName, Freed}, alive : BOOLEAN]
      OBVIOUS
    <3>1. app[a] \in [repo : 0..MaxRepos, slug : Names \cup {NoName, Freed}, alive : BOOLEAN]
      BY <1>6
    <3>2. CASE a = n
      <4>1. /\ on[q] \in 0..MaxRepos /\ TRUE \in BOOLEAN
            /\ repo[on[q]].slug \in Names \cup {NoName, Freed}
        BY <1>5
      <4>2. [repo |-> on[q], slug |-> repo[on[q]].slug, alive |-> TRUE]
              \in [repo : 0..MaxRepos, slug : Names \cup {NoName, Freed}, alive : BOOLEAN]
        BY <4>1
      <4>3. app'[a] = [repo |-> on[q], slug |-> repo[on[q]].slug, alive |-> TRUE]
        BY <1>8, <3>2
      <4> QED
        BY <4>2, <4>3
    <3>3. CASE a # n
      <4>1. app'[a] = app[a] \/ app'[a] = [app[a] EXCEPT !.slug = Freed]
        BY <1>8, <3>3
      <4> QED
        BY <3>1, <4>1
    <3> QED
      BY <3>2, <3>3
  <2> QED
    BY <2>1, <2>2
<1>10. \A a \in AppIds \ {n} : /\ app'[a].repo = app[a].repo /\ app'[a].alive = app[a].alive
                               /\ app'[a].slug \in {app[a].slug, Freed}
  <2> SUFFICES ASSUME NEW a \in AppIds \ {n}
               PROVE  /\ app'[a].repo = app[a].repo /\ app'[a].alive = app[a].alive
                      /\ app'[a].slug \in {app[a].slug, Freed}
    OBVIOUS
  <2>1. app[a] \in [repo : 0..MaxRepos, slug : Names \cup {NoName, Freed}, alive : BOOLEAN]
    BY <1>6
  <2> QED
    BY <1>8, <2>1
<1>11. Rows' = Rows \cup {n}
  BY <1>3, <1>5, <1>8, <1>10 DEF Rows
<1>12. ActiveApps' = ActiveApps \cup {n} /\ n \notin ActiveApps
  BY <1>3, <1>8, <1>10, <1>11 DEF ActiveApps, Rows
<1>13. \A a \in ActiveApps : app'[a] = app[a] /\ app[a].slug # repo[on[q]].slug
  <2> SUFFICES ASSUME NEW a \in ActiveApps PROVE app'[a] = app[a] /\ app[a].slug # repo[on[q]].slug
    OBVIOUS
  <2>1. a \in Rows /\ a \in AppIds \ {n} /\ app[a].alive
    BY <1>3 DEF ActiveApps, Rows
  <2>2. a # base[q]
    BY <1>3, <1>4, <2>1, WorkspaceAssumption DEF AppIds
  <2> QED
    BY <1>1, <1>8, <2>1, <2>2 DEF UniqueIndex, Slug
<1>14. Rows' = 1..k + 1 /\ k + 1 \in 0..MaxApps
  BY <1>2, <1>11 DEF AppIds
<1>15. \A a \in Rows : a \in AppIds \ {n}
  BY <1>3 DEF Rows
<1> QED
  BY <1>3, <1>4, <1>5, <1>8, <1>9, <1>10, <1>11, <1>12, <1>13, <1>14, <1>15

LEMMA CreateAppKeeps ==
  ASSUME IInv, NEW q \in Requests, CreateApp(q)
  PROVE  IInv'
<1>0. /\ TypeOK /\ InOrder /\ HeldByAll /\ OnePerRepository /\ NoAppYet /\ CountHolds
      /\ Named /\ OneAppPerName /\ MadeStays /\ NoLostUpload
  BY DEF IInv
<1>1. UNCHANGED <<github, limit, branches, faults>> /\ End(q) /\ pc[q] = "counted"
  BY DEF CreateApp, At
<1>2. PICK n \in AppIds : n = NextApp
  BY DEF CreateApp
<1>3. /\ n \notin Rows /\ Rows' = Rows \cup {n} /\ n \notin ActiveApps
      /\ \E k \in 0..MaxApps : Rows' = 1..k
      /\ ActiveApps' = ActiveApps \cup {n}
      /\ app' \in [AppIds -> [repo : 0..MaxRepos, slug : Names \cup {NoName, Freed}, alive : BOOLEAN]]
      /\ app'[n] = [repo |-> on[q], slug |-> repo[on[q]].slug, alive |-> TRUE]
      /\ \A a \in ActiveApps : app'[a] = app[a] /\ app[a].slug # repo[on[q]].slug
      /\ \A a \in Rows : /\ app'[a].repo = app[a].repo /\ app'[a].alive = app[a].alive
                         /\ app'[a].slug \in {app[a].slug, Freed}
      /\ on[q] \in Repos /\ repo[on[q]].slug \in Names /\ AppOf(on[q]) = {}
  BY <1>2, CreateAppFacts
<1>4. LocalTypes
  BY <1>0 DEF TypeOK, LocalTypes
<1>5. /\ LocalTypes' /\ pc'[q] = "idle" /\ base'[q] = 0
      /\ \A p \in Requests \ {q} : /\ pc'[p] = pc[p] /\ on'[p] = on[p]
                                   /\ name'[p] = name[p] /\ base'[p] = base[p]
  BY <1>1, <1>4, WorkspaceAssumption DEF LocalTypes, End, GoTo, WorkOn, Steps
<1>6. Repos' = Repos /\ Committed' = Committed /\ \A c : History(c)' = History(c)
  BY <1>1 DEF Repos, Committed, History, github, branches
<1>7. TypeOK'
  <2>1. \A a \in Rows' : app'[a].repo \in Repos' /\ app'[a].slug # NoName
    <3>1. \A a \in Rows : app[a].repo \in Repos /\ app[a].slug # NoName
      BY <1>0 DEF TypeOK
    <3>2. Freed # NoName /\ NoName \notin Names
      BY WorkspaceAssumption DEF Freed, NoName
    <3> QED
      BY <1>3, <1>6, <3>1, <3>2
  <2> QED
    BY <1>0, <1>1, <1>3, <1>5, <1>6, <2>1 DEF TypeOK, LocalTypes, github, branches
<1>8. InOrder'
  BY <1>0, <1>3, <1>6 DEF InOrder
<1>9. HeldByAll'
  <2> SUFFICES ASSUME NEW p \in Requests PROVE Held(p)'
    BY DEF HeldByAll
  <2>1. CASE p = q
    BY <1>5, <2>1 DEF Held, At
  <2>2. CASE p # q
    <3>1. Held(p)
      BY <1>0 DEF HeldByAll
    <3>2. \A a \in Rows : a \in Rows' /\ app'[a].alive = app[a].alive
      BY <1>3
    <3> QED
      BY <1>5, <1>6, <2>2, <3>1, <3>2 DEF Held, At
  <2> QED
    BY <2>1, <2>2
<1>10. OnePerRepository'
  BY <1>0, <1>5 DEF OnePerRepository, InTransaction
<1>11. NoAppYet'
  <2> SUFFICES ASSUME NEW p \in Requests, pc'[p] \in {"named", "counted"}
               PROVE  AppOf(on[p])' = {}
    BY DEF NoAppYet
  <2>1. p # q /\ pc[p] \in {"named", "counted"} /\ on'[p] = on[p]
    BY <1>5
  <2>2. on[p] # on[q]
    BY <1>0, <1>1, <2>1 DEF OnePerRepository, InTransaction
  <2>3. \A a \in ActiveApps : app[a].repo # on[p]
    BY <1>0, <2>1 DEF NoAppYet, AppOf
  <2> QED
    BY <1>3, <2>1, <2>2, <2>3 DEF AppOf
<1>12. CountHolds'
  BY <1>0, <1>1, <1>5 DEF CountHolds, At
<1>13. Named'
  BY <1>0, <1>3 DEF Named
<1>14. OneAppPerName'
  <2>1. \A a \in ActiveApps : app[a].repo # on[q]
    BY <1>3 DEF AppOf
  <2> QED
    BY <1>0, <1>3, <2>1 DEF OneAppPerName
<1>15. MadeStays'
  BY <1>0, <1>1, <1>5, <1>6 DEF MadeStays, At, branches
<1>16. NoLostUpload'
  BY <1>0, <1>1, <1>6 DEF NoLostUpload, branches
<1> QED
  BY <1>7, <1>8, <1>9, <1>10, <1>11, <1>12, <1>13, <1>14, <1>15, <1>16 DEF IInv

\* The last transaction of delete-app, a change of the policy, a connection:
\* no request moves.
LEMMA OthersKeep ==
  ASSUME IInv,
         \/ connectGitHubInstallationToWorkspace
         \/ \E a \in AppIds : CommitDeletion(a)
         \/ \E l \in Limits : SetPolicy(l)
  PROVE  IInv'
<1>0. /\ TypeOK /\ InOrder /\ HeldByAll /\ OnePerRepository /\ NoAppYet /\ CountHolds
      /\ Named /\ OneAppPerName /\ MadeStays /\ NoLostUpload
  BY DEF IInv
<1>1. UNCHANGED <<repo, branches, locals, faults>> /\ connected' \in BOOLEAN /\ limit' \in Limits
  BY <1>0 DEF TypeOK, connectGitHubInstallationToWorkspace, CommitDeletion, SetPolicy, github
<1>2. \/ app' = app
      \/ \E a \in ActiveApps : app' = [app EXCEPT ![a].alive = FALSE]
  BY DEF connectGitHubInstallationToWorkspace, CommitDeletion, SetPolicy
<1>3. app \in [AppIds -> [repo : 0..MaxRepos, slug : Names \cup {NoName, Freed}, alive : BOOLEAN]]
  BY <1>0 DEF TypeOK
<1>4. /\ app' \in [AppIds -> [repo : 0..MaxRepos, slug : Names \cup {NoName, Freed}, alive : BOOLEAN]]
      /\ \A a \in AppIds : /\ app'[a].repo = app[a].repo /\ app'[a].slug = app[a].slug
                           /\ app'[a].alive => app[a].alive
  <2>1. CASE app' = app
    BY <1>3, <2>1
  <2>2. ASSUME NEW b \in ActiveApps, app' = [app EXCEPT ![b].alive = FALSE]
        PROVE  /\ app' \in [AppIds -> [repo : 0..MaxRepos, slug : Names \cup {NoName, Freed}, alive : BOOLEAN]]
               /\ \A a \in AppIds : /\ app'[a].repo = app[a].repo /\ app'[a].slug = app[a].slug
                                    /\ app'[a].alive => app[a].alive
    <3>1. b \in AppIds /\ app[b].alive
      BY DEF ActiveApps, Rows
    <3> QED
      BY <1>3, <2>2, <3>1
  <2> QED
    BY <1>2, <2>1, <2>2
<1>5. /\ Repos' = Repos /\ Committed' = Committed /\ Rows' = Rows
      /\ ActiveApps' \subseteq ActiveApps /\ \A c : History(c)' = History(c)
  BY <1>1, <1>4 DEF Repos, Committed, Rows, ActiveApps, History, branches
<1>6. \A r : AppOf(r)' \subseteq AppOf(r)
  BY <1>4, <1>5 DEF AppOf, ActiveApps, Rows
<1>7. TypeOK'
  <2>1. \A a \in Rows' : app'[a].repo \in Repos' /\ app'[a].slug # NoName
    BY <1>0, <1>4, <1>5 DEF TypeOK, Rows
  <2> QED
    BY <1>0, <1>1, <1>4, <1>5, <2>1 DEF TypeOK, branches, locals
<1>8. InOrder'
  BY <1>0, <1>5 DEF InOrder
<1>9. HeldByAll'
  <2>1. \A a \in Rows : ~app[a].alive => ~app'[a].alive
    BY <1>4 DEF Rows
  <2> QED
    BY <1>0, <1>1, <1>5, <2>1 DEF HeldByAll, Held, At, locals
<1>10. OnePerRepository'
  BY <1>0, <1>1 DEF OnePerRepository, InTransaction, locals
<1>11. NoAppYet'
  <2>1. \A q \in Requests : AppOf(on[q])' \subseteq AppOf(on[q])
    BY <1>1, <1>4, <1>5 DEF AppOf, ActiveApps, Rows, locals
  <2> QED
    BY <1>0, <1>1, <2>1 DEF NoAppYet, locals
<1>12. CountHolds'
  <2>1. limit' = limit \/ \A q \in Requests : pc[q] # "counted"
    BY DEF connectGitHubInstallationToWorkspace, CommitDeletion, SetPolicy, WorkspaceLock
  <2>2. /\ Cardinality(ActiveApps') \in Nat /\ Cardinality(ActiveApps) \in Nat
        /\ Cardinality(ActiveApps') <= Cardinality(ActiveApps)
    BY <1>0, <1>5, FewerApps
  <2>3. limit \in Nat
    BY <1>0, WorkspaceAssumption DEF TypeOK
  <2>4. UnderLimit /\ limit' = limit => UnderLimit'
    BY <2>2, <2>3 DEF UnderLimit
  <2> QED
    BY <1>0, <1>1, <2>1, <2>4 DEF CountHolds, At, locals
<1>13. Named' /\ OneAppPerName'
  <2>1. \A a \in ActiveApps' : a \in ActiveApps /\ app'[a].repo = app[a].repo /\ app'[a].slug = app[a].slug
    BY <1>4, <1>5 DEF ActiveApps, Rows
  <2> QED
    BY <1>0, <2>1 DEF Named, OneAppPerName
<1>14. MadeStays' /\ NoLostUpload'
  <2>1. UNCHANGED <<head, stored, pc, on, base>>
    BY <1>1 DEF branches, locals
  <2> QED
    BY <1>0, <1>5, <2>1 DEF MadeStays, NoLostUpload, At
<1> QED
  BY <1>7, <1>8, <1>9, <1>10, <1>11, <1>12, <1>13, <1>14 DEF IInv

-----------------------------------------------------------------------------

LEMMA NextIInv == IInv /\ [Next]_vars => IInv'
<1> SUFFICES ASSUME IInv, [Next]_vars PROVE IInv'
  OBVIOUS
<1>1. CASE \/ connectGitHubInstallationToWorkspace
           \/ \E a \in AppIds : CommitDeletion(a)
           \/ \E l \in Limits : SetPolicy(l)
  BY <1>1, OthersKeep
<1>2. CASE \E slug \in Names : selectWorkspaceRepository(slug)
  BY <1>2, RepositoriesKeep
<1>3. ASSUME NEW q \in Requests,
             \/ \E slug \in Names, upload \in Uploads : AskPublish(q, slug, upload)
             \/ \E a \in AppIds, upload \in Uploads : AskUpdate(q, a, upload)
             \/ createManagedRepository(q) \/ ReadHead(q)
             \/ CommitFiles(q) \/ RefusedByGitHub(q) \/ RecordPublish(q)
             \/ \E r \in RepoIds : AskAnalysis(q, r)
             \/ LockRepository(q) \/ ReuseApp(q) \/ CheckName(q) \/ enforceActiveAppLimit(q)
             \/ RefuseApp(q)
             \/ CreateApp(q) \/ Drop(q)
      PROVE  IInv'
  <2>1. CASE \/ \E slug \in Names, upload \in Uploads : AskPublish(q, slug, upload)
             \/ \E a \in AppIds, upload \in Uploads : AskUpdate(q, a, upload)
             \/ \E r \in RepoIds : AskAnalysis(q, r)
    BY <2>1, AskKeeps
  <2>2. CASE createManagedRepository(q)
    BY <2>2, RepositoriesKeep
  <2>3. CASE ReadHead(q)
    BY <2>3, ReadHeadKeeps
  <2>4. CASE CommitFiles(q)
    BY <2>4, CommitFilesKeeps
  <2>5. CASE RecordPublish(q)
    BY <2>5, RecordPublishKeeps
  <2>6. CASE LockRepository(q) \/ CheckName(q) \/ enforceActiveAppLimit(q)
    BY <2>6, AnalysisKeeps
  <2>7. CASE CreateApp(q)
    BY <2>7, CreateAppKeeps
  <2>8. CASE RefusedByGitHub(q) \/ ReuseApp(q) \/ RefuseApp(q) \/ Drop(q)
    BY <2>8, EndingsKeep
  <2> QED
    BY <1>3, <2>1, <2>2, <2>3, <2>4, <2>5, <2>6, <2>7, <2>8
<1>4. CASE UNCHANGED vars
  <2>1. UNCHANGED <<connected, repo, limit, head, parent, stored, app, pc, on, name, base, faults>>
    BY <1>4 DEF vars, github, branches, locals
  <2>2. /\ Repos' = Repos /\ Rows' = Rows /\ Committed' = Committed /\ ActiveApps' = ActiveApps
        /\ UnderLimit' = UnderLimit /\ \A r : AppOf(r)' = AppOf(r)
        /\ \A c : History(c)' = History(c)
    BY <2>1 DEF Repos, Rows, Committed, ActiveApps, UnderLimit, AppOf, History
  <2>3. TypeOK' /\ InOrder' /\ Named' /\ OneAppPerName'
    BY <2>1, <2>2 DEF IInv, TypeOK, InOrder, Named, OneAppPerName
  <2>4. HeldByAll' /\ OnePerRepository' /\ NoAppYet' /\ CountHolds'
    BY <2>1, <2>2
       DEF IInv, HeldByAll, Held, OnePerRepository, InTransaction, NoAppYet, CountHolds, At
  <2>5. MadeStays' /\ NoLostUpload'
    BY <2>1, <2>2 DEF IInv, MadeStays, NoLostUpload, At
  <2> QED
    BY <2>3, <2>4, <2>5 DEF IInv
<1> QED
  BY <1>1, <1>2, <1>3, <1>4 DEF Next

LEMMA Invariance == Spec => []IInv
  BY InitIInv, NextIInv, PTL DEF Spec

\* The tables stay well formed: apps belong to repositories that exist, branches
\* are at commits that were made, and parents are older (001-initial.sql,
\* github-repositories.mjs).
THEOREM TypeCorrect == Spec => []TypeOK
<1>1. IInv => TypeOK
  BY DEF IInv
<1> QED
  BY Invariance, <1>1, PTL

\* However many uploads and analyses run at once, two active apps of a workspace
\* have different names and different repositories (persistRepositoryAnalysis,
\* the unique index on the slug).
THEOREM AppsDiffer == Spec => []OneAppPerName
<1>1. IInv => OneAppPerName
  BY DEF IInv
<1> QED
  BY Invariance, <1>1, PTL

\* No recorded upload is overwritten by one that had not seen it, whatever the
\* updates of one app that run at once (commitFiles, force: false).
THEOREM UploadsStay == Spec => []NoLostUpload
<1>1. IInv => NoLostUpload
  BY DEF IInv
<1> QED
  BY Invariance, <1>1, PTL

\* Only the INSERT of an app makes the set of active apps grow.
LEMMA OthersDoNotGrow ==
  ASSUME IInv, [Next]_vars, \A q \in Requests : ~CreateApp(q)
  PROVE  ActiveApps' \subseteq ActiveApps
<1>1. app' = app \/ \E a \in ActiveApps : app' = [app EXCEPT ![a].alive = FALSE]
  BY DEF Next, vars, connectGitHubInstallationToWorkspace, selectWorkspaceRepository, AskPublish,
         AskUpdate, createManagedRepository, ReadHead, CommitFiles, RefusedByGitHub, RecordPublish,
         AskAnalysis, LockRepository, ReuseApp, CheckName, enforceActiveAppLimit, RefuseApp, Drop,
         CommitDeletion, SetPolicy
<1>2. app \in [AppIds -> [repo : 0..MaxRepos, slug : Names \cup {NoName, Freed}, alive : BOOLEAN]]
  BY DEF IInv, TypeOK
<1>3. CASE app' = app
  BY <1>3 DEF ActiveApps, Rows
<1>4. ASSUME NEW b \in ActiveApps, app' = [app EXCEPT ![b].alive = FALSE]
      PROVE  ActiveApps' \subseteq ActiveApps
  <2>1. \A a \in AppIds : app'[a].repo = app[a].repo /\ (app'[a].alive => app[a].alive)
    BY <1>2, <1>4 DEF ActiveApps, Rows
  <2> QED
    BY <2>1 DEF ActiveApps, Rows
<1> QED
  BY <1>1, <1>3, <1>4

\* A step that makes the number of active apps grow leaves it within the limit
\* in force, whoever counts, inserts or changes the limit at the same time
\* (enforceActiveAppLimit under lockWorkspacePolicy).
THEOREM GrowthWithinLimit == Spec => NeverGrowsPastLimit
<1>1. ASSUME IInv, [Next]_vars
      PROVE  Cardinality(ActiveApps') > Cardinality(ActiveApps) => Cardinality(ActiveApps') <= limit'
  <2>1. InOrder /\ Cardinality(ActiveApps) \in Nat /\ IsFiniteSet(ActiveApps)
    BY <1>1, AppsFinite DEF IInv
  <2>2. ASSUME NEW q \in Requests, CreateApp(q)
        PROVE  Cardinality(ActiveApps') <= limit'
    <3>1. PICK n \in AppIds : n = NextApp
      BY <2>2 DEF CreateApp
    <3>2. ActiveApps' = ActiveApps \cup {n} /\ n \notin ActiveApps
      BY <1>1, <2>2, <3>1, CreateAppFacts
    <3>3. Cardinality(ActiveApps') = Cardinality(ActiveApps) + 1
      BY <2>1, <3>2, FS_AddElement
    <3>4. Cardinality(ActiveApps) < limit /\ limit' = limit /\ limit \in Nat
      BY <1>1, <2>2, WorkspaceAssumption DEF IInv, CountHolds, UnderLimit, CreateApp, TypeOK
    <3> QED
      BY <2>1, <3>3, <3>4
  <2>3. CASE \A q \in Requests : ~CreateApp(q)
    <3>1. /\ Cardinality(ActiveApps') \in Nat
          /\ Cardinality(ActiveApps') <= Cardinality(ActiveApps)
      BY <1>1, <2>1, <2>3, OthersDoNotGrow, FewerApps
    <3> QED
      BY <2>1, <3>1
  <2> QED
    BY <2>2, <2>3
<1> QED
  BY <1>1, Invariance, PTL DEF Spec, NeverGrowsPastLimit

==============================================================================
