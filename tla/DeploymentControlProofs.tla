------------------------ MODULE DeploymentControlProofs ------------------------
(***************************************************************************)
(* Proofs, for any number of requests, rows, orchestrations and pushes and *)
(* any limit, that the run on record is the run of the last claim on its   *)
(* row, that the retries of a failed source stay one chain within the      *)
(* limit, and that what went live or failed stays so.                      *)
(*                                                                         *)
(* Rows are inserted and never taken back, and only rows that have ended   *)
(* get children (ParentsEnded), so the failed attempts behind a row never  *)
(* grow (AttemptsShrink). A retry counts the lineage of the row clicked,   *)
(* and that holds every attempt behind the row it inserts under            *)
(* (AttemptsInLineage). A row has either the marker of its last claim or a *)
(* run (RunOrClaim), and a request that is about to record a run holds one *)
(* that was begun for its own key (HeldRuns).                              *)
(***************************************************************************)
EXTENDS DeploymentControl, FiniteSetTheorems, WellFoundedInduction, TLAPS

\* A request that is about to report a failed run has read a row in progress.
FailsWhatRuns(q) == pc[q] \in {"ask", "markFailed"} => was[q] \in REDEPLOY_IN_PROGRESS_STATUSES

FailsInProgress == \A q \in Requests : FailsWhatRuns(q)

RunsInOrder == \E n \in 0..MaxRuns : RunsBegun = 1..n

\* A request about to record a run holds one that was begun for its key.
HeldRun(q) ==
  /\ pc[q] = "recordStart"  => run[q] \in RunsBegun /\ runKey[run[q]] = StartMarker
  /\ pc[q] = "recordResume" => run[q] \in RunsBegun /\ runKey[run[q]] = q

HeldRuns == \A q \in Requests : HeldRun(q)

\* A row has a run that was begun on record, or the marker of its last claim.
RunOrClaim ==
  \A d \in Ids : recorded[d] \in RunsBegun \/ (recorded[d] \in Markers /\ claimed[d] = recorded[d])

Unborn == \A d \in Ids : d \notin Rows => status[d] = "NONE"

\* Only what has ended has children.
ParentsEnded ==
  \A d \in Rows : parent[d] # 0 => /\ parent[d] \in Rows /\ parent[d] < d
                                   /\ status[parent[d]] \in {"FAILED", "LIVE"}

IInv ==
  /\ TypeOK /\ FailsInProgress /\ RunsInOrder /\ HeldRuns /\ RunOrClaim
  /\ Unborn /\ ParentsEnded /\ RecordedRunIsLastClaim /\ RetryLineageSound

-----------------------------------------------------------------------------
(* Rows in their order.                                                    *)

LEMMA RowsAreIds ==
  ASSUME count \in Ids
  PROVE  /\ Rows \subseteq Ids /\ Ids \subseteq Nat /\ count \in Rows /\ count \in Nat
         /\ \A d \in Ids : d \in Rows <=> d <= count
         /\ count < MaxDeployments => count + 1 \in Ids /\ count + 1 \notin Rows
         /\ \A d \in Rows : 1..d \subseteq Rows /\ d \in 1..d
  BY ControlAssumption DEF Rows, Ids

\* TypeOK by what the variables are about.
Types ==
  /\ count \in Ids /\ status \in [Ids -> Statuses] /\ commit \in [Ids -> Commits]
  /\ parent \in [Ids -> {0} \cup Ids]

RowTypes ==
  /\ Types /\ error \in [Ids -> BOOLEAN] /\ input \in [Ids -> BOOLEAN] /\ stale \subseteq Ids

ClaimTypes == recorded \in [Ids -> Markers \cup RunIds] /\ claimed \in [Ids -> Markers]

OutsideTypes ==
  /\ head \in Commits /\ undelivered \subseteq Commits
  /\ runOf \in [RunIds -> {0} \cup Ids] /\ runKey \in [RunIds -> Markers]
  /\ runState \in [RunIds -> {"none", "running", "completed", "failed"}]

LocalTypes ==
  /\ pc \in [Requests -> Steps] /\ dep \in [Requests -> Ids] /\ seen \in [Requests -> Commits]
  /\ run \in [Requests -> {0} \cup RunIds] /\ was \in [Requests -> Statuses]
  /\ push \in [Requests -> BOOLEAN]

LEMMA TypeParts == TypeOK <=> RowTypes /\ ClaimTypes /\ OutsideTypes /\ LocalTypes
  BY DEF TypeOK, Types, RowTypes, ClaimTypes, OutsideTypes, LocalTypes

LEMMA FiniteRows ==
  ASSUME NEW S, S \subseteq Ids
  PROVE  /\ IsFiniteSet(S) /\ Cardinality(S) \in Nat
         /\ \A T \in SUBSET S : Cardinality(T) \in Nat /\ Cardinality(T) <= Cardinality(S)
<1>1. IsFiniteSet(Ids)
  BY ControlAssumption, FS_Interval DEF Ids
<1>2. IsFiniteSet(S)
  BY <1>1, FS_Subset
<1>3. \A T \in SUBSET S : IsFiniteSet(T) /\ Cardinality(T) <= Cardinality(S)
  BY <1>2, FS_Subset
<1> QED
  BY <1>2, <1>3, FS_CardinalityType

\* The newest row of a set is the one whose later rows are fewest.
LEMMA NewestThereIs ==
  ASSUME NEW S, S \subseteq 0..MaxDeployments, S # {}
  PROVE  \E d \in S : \A e \in S : e <= d
<1> DEFINE After(d) == { e \in S : e > d }
           T == { After(d) : d \in S }
<1>0. \A A, B \in SUBSET S : A \subseteq B /\ A # B => <<A, B>> \in StrictSubsetOrdering(S)
  BY DEF StrictSubsetOrdering
<1>1. IsFiniteSet(S)
  <2>1. IsFiniteSet(0..MaxDeployments)
    BY ControlAssumption, FS_Interval
  <2> QED
    BY <2>1, FS_Subset
<1>2. T \subseteq FiniteSubsetsOf(S) /\ T # {}
  <2>1. FiniteSubsetsOf(S) = SUBSET S
    BY <1>1, FS_FiniteSubsetsOfFinite
  <2>2. T \subseteq SUBSET S
    OBVIOUS
  <2>3. T # {}
    OBVIOUS
  <2> QED
    BY <2>1, <2>2, <2>3
<1>3. \E x \in T : \A y \in T : ~(<<y, x>> \in StrictSubsetOrdering(S))
  <2> HIDE DEF T
  <2> QED
    BY <1>2, FS_StrictSubsetOrderingWellFounded, WFMin
<1>4. PICK d \in S : \A y \in T : ~(<<y, After(d)>> \in StrictSubsetOrdering(S))
  BY <1>3
<1>5. ASSUME NEW e \in S, e > d PROVE FALSE
  <2>1. After(e) \subseteq After(d) /\ e \in After(d) /\ e \notin After(e)
    <3>1. S \subseteq Nat
      BY ControlAssumption
    <3>2. ~(e > e) /\ \A f \in S : f > e => f > d
      BY <1>5, <3>1
    <3> QED
      BY <1>5, <3>2
  <2>2. <<After(e), After(d)>> \in StrictSubsetOrdering(S)
    <3>1. After(e) \in SUBSET S /\ After(d) \in SUBSET S /\ After(e) # After(d)
      BY <2>1
    <3> HIDE DEF After
    <3> QED
      BY <1>0, <2>1, <3>1
  <2>3. After(e) \in T
    OBVIOUS
  <2> QED
    BY <1>4, <2>2, <2>3
<1> QED
  BY <1>5, ControlAssumption

LEMMA OldestThereIs ==
  ASSUME NEW S, S \subseteq 0..MaxDeployments, S # {}
  PROVE  \E d \in S : \A e \in S : d <= e
<1> DEFINE T == { MaxDeployments - d : d \in S }
<1>1. T \subseteq 0..MaxDeployments /\ T # {}
  <2>1. ASSUME NEW d \in S PROVE MaxDeployments - d \in 0..MaxDeployments
    <3>1. d \in Nat /\ d <= MaxDeployments /\ MaxDeployments \in Nat
      BY ControlAssumption
    <3> QED
      BY <3>1
  <2>2. T # {}
    OBVIOUS
  <2> QED
    BY <2>1, <2>2
<1>2. PICK t \in T : \A u \in T : u <= t
  <2> HIDE DEF T
  <2> QED
    BY <1>1, NewestThereIs
<1>3. PICK d \in S : t = MaxDeployments - d
  OBVIOUS
<1>4. ASSUME NEW e \in S PROVE d <= e
  <2>1. MaxDeployments - e <= MaxDeployments - d
    BY <1>2, <1>3
  <2>2. d \in Nat /\ e \in Nat /\ MaxDeployments \in Nat
    BY ControlAssumption
  <2> HIDE DEF T
  <2> QED
    BY <2>1, <2>2
<1> QED
  BY <1>4

-----------------------------------------------------------------------------
(* The attempts behind a row, and the lineage from their first down.       *)

LEMMA AttemptsClosed ==
  ASSUME count \in Ids, ParentsEnded, parent \in [Ids -> {0} \cup Ids], NEW d \in Rows
  PROVE  /\ PreviousAttempts(d) \subseteq Rows /\ d \in PreviousAttempts(d)
         /\ \A x \in PreviousAttempts(d) : FollowsFailure(x) => parent[x] \in PreviousAttempts(d)
<1>1. Rows \subseteq Nat /\ 1..d \subseteq Rows /\ d \in 1..d
  BY RowsAreIds
<1>2. PreviousAttempts(d) \subseteq 1..d /\ d \in PreviousAttempts(d)
  BY <1>1 DEF PreviousAttempts
<1>3. ASSUME NEW x \in PreviousAttempts(d), FollowsFailure(x)
      PROVE  parent[x] \in PreviousAttempts(d)
  <2>1. PICK p : p = parent[x]
    OBVIOUS
  <2>2. x \in Rows /\ p \in Rows
    BY <1>1, <1>2, <1>3, <2>1 DEF FollowsFailure
  <2>3. p < x
    <3>1. p # 0
      BY <2>2 DEF Rows
    <3> QED
      BY <2>1, <2>2, <3>1 DEF ParentsEnded
  <2>4. p \in 1..d
    BY <1>2, <2>2, <2>3 DEF Rows
  <2>5. ASSUME NEW S \in SUBSET (1..d), d \in S, p \notin S
        PROVE  \E y \in S : FollowsFailure(y) /\ parent[y] \notin S
    <3>1. CASE x \in S
      BY <1>3, <2>1, <2>5, <3>1
    <3>2. CASE x \notin S
      BY <2>5, <3>2 DEF PreviousAttempts
    <3> QED
      BY <3>1, <3>2
  <2> QED
    BY <2>1, <2>4, <2>5 DEF PreviousAttempts
<1> QED
  BY <1>1, <1>2, <1>3

LEMMA RootThereIs ==
  ASSUME count \in Ids, ParentsEnded, parent \in [Ids -> {0} \cup Ids], NEW d \in Rows
  PROVE  /\ retryLineageRoot(d) \in PreviousAttempts(d)
         /\ ~FollowsFailure(retryLineageRoot(d))
<1>1. /\ PreviousAttempts(d) \subseteq Rows /\ PreviousAttempts(d) # {}
      /\ \A x \in PreviousAttempts(d) : FollowsFailure(x) => parent[x] \in PreviousAttempts(d)
  BY AttemptsClosed
<1>2. Rows \subseteq 0..MaxDeployments
  BY RowsAreIds DEF Ids
<1>3. PICK e \in PreviousAttempts(d) : \A f \in PreviousAttempts(d) : e <= f
  BY <1>1, <1>2, OldestThereIs
<1>4. ~FollowsFailure(e)
  <2> SUFFICES ASSUME FollowsFailure(e) PROVE FALSE
    OBVIOUS
  <2>1. PICK p : p = parent[e]
    OBVIOUS
  <2>2. p \in Rows /\ e \in Rows /\ e <= p
    BY <1>1, <1>3, <2>1
  <2>3. p # 0
    BY <2>2 DEF Rows
  <2>4. p < e
    BY <2>1, <2>2, <2>3 DEF ParentsEnded
  <2> QED
    BY <2>2, <2>4 DEF Rows
<1> QED
  BY <1>3, <1>4 DEF retryLineageRoot

\* Every member but the root is the only child of a member, so the failed
\* parent of a member is a member.
LEMMA LineageClosed ==
  ASSUME count \in Ids, ParentsEnded, parent \in [Ids -> {0} \cup Ids], NEW d \in Rows
  PROVE  /\ Lineage(d) \subseteq Rows /\ Lineage(d) # {}
         /\ \A x \in Lineage(d) : FollowsFailure(x) => parent[x] \in Lineage(d)
<1> DEFINE root == retryLineageRoot(d)
           Follows(S) == \E x \in S : Cardinality(Children(x)) = 1 /\ ~(Children(x) \subseteq S)
<1>1. root \in Rows /\ ~FollowsFailure(root)
  BY RootThereIs, AttemptsClosed
<1> HIDE DEF root
<1>2. \A e : e \in Lineage(d) <=>
        e \in Rows /\ \A S \in SUBSET Rows : root \in S /\ e \notin S => Follows(S)
  BY DEF Lineage, root
<1>3. root \in Lineage(d) /\ Lineage(d) \subseteq Rows
  BY <1>1, <1>2
<1>4. ASSUME NEW y \in Lineage(d), Cardinality(Children(y)) = 1
      PROVE  Children(y) \subseteq Lineage(d)
  <2> SUFFICES ASSUME NEW c \in Children(y) PROVE c \in Lineage(d)
    OBVIOUS
  <2>1. c \in Rows
    BY DEF Children
  <2>2. ASSUME NEW S \in SUBSET Rows, root \in S, c \notin S
        PROVE  Follows(S)
    <3>1. CASE y \in S
      BY <1>4, <2>2, <3>1
    <3>2. CASE y \notin S
      BY <1>2, <2>2, <3>2
    <3> QED
      BY <3>1, <3>2
  <2> QED
    BY <1>2, <2>1, <2>2
<1>5. ASSUME NEW x \in Lineage(d), FollowsFailure(x)
      PROVE  parent[x] \in Lineage(d)
  <2> DEFINE S == Lineage(d) \ {x}
  <2>1. x # root
    BY <1>1, <1>5
  <2>2. S \in SUBSET Rows /\ root \in S /\ x \notin S
    BY <1>3, <2>1
  <2>3. PICK y \in S : Cardinality(Children(y)) = 1 /\ ~(Children(y) \subseteq S)
    <3> HIDE DEF S
    <3> QED
      BY <1>2, <2>2
  <2>4. x \in Children(y)
    BY <1>4, <2>3
  <2> QED
    BY <2>4 DEF Children
<1> QED
  BY <1>3, <1>5

\* A retry that counts a lineage has counted every attempt behind its members.
LEMMA AttemptsInLineage ==
  ASSUME count \in Ids, ParentsEnded, parent \in [Ids -> {0} \cup Ids],
         NEW d \in Rows, NEW e \in Lineage(d)
  PROVE  PreviousAttempts(e) \subseteq Lineage(d)
<1>1. /\ Lineage(d) \subseteq Rows
      /\ \A x \in Lineage(d) : FollowsFailure(x) => parent[x] \in Lineage(d)
  BY LineageClosed
<1> DEFINE S == Lineage(d) \cap (1..e)
<1>2. e \in Rows /\ e \in 1..e /\ Rows \subseteq Nat
  BY <1>1, RowsAreIds
<1>3. ASSUME NEW x \in S, FollowsFailure(x) PROVE parent[x] \in S
  <2>1. PICK p : p = parent[x]
    OBVIOUS
  <2>2. p \in Lineage(d) /\ p \in Rows /\ x \in Rows /\ x <= e /\ p # 0
    <3>1. p \in Lineage(d) /\ x \in 1..e
      BY <1>1, <1>3, <2>1
    <3> QED
      BY <1>1, <1>2, <3>1 DEF Rows
  <2>3. p < x
    BY <2>1, <2>2 DEF ParentsEnded
  <2> QED
    BY <1>2, <2>1, <2>2, <2>3 DEF Rows
<1>4. S \in SUBSET (1..e) /\ e \in S
  BY <1>2
<1>5. \A f \in PreviousAttempts(e) : f \in S
  <2> HIDE DEF S
  <2> QED
    BY <1>3, <1>4 DEF PreviousAttempts
<1> QED
  BY <1>5

LEMMA LatestThereIs ==
  ASSUME count \in Ids, ParentsEnded, parent \in [Ids -> {0} \cup Ids], NEW d \in Rows
  PROVE  Latest(d) \in Lineage(d) /\ Latest(d) \in Rows
<1>1. Lineage(d) \subseteq Rows /\ Lineage(d) # {}
  BY LineageClosed
<1>2. Rows \subseteq 0..MaxDeployments
  BY RowsAreIds DEF Ids
<1>3. \E e \in Lineage(d) : \A f \in Lineage(d) : f <= e
  BY <1>1, <1>2, NewestThereIs
<1> QED
  BY <1>1, <1>3 DEF Latest

-----------------------------------------------------------------------------
(* What a step does to the rows.                                           *)

\* The attempts behind a row that is there do not become more.
LEMMA AttemptsShrink ==
  ASSUME NEW d, \A x \in 1..d : FollowsFailure(x)' => FollowsFailure(x) /\ parent'[x] = parent[x]
  PROVE  PreviousAttempts(d)' \subseteq PreviousAttempts(d)
<1> SUFFICES ASSUME NEW e \in 1..d, e \in PreviousAttempts(d)',
                    NEW S \in SUBSET (1..d), d \in S, e \notin S
             PROVE  \E x \in S : FollowsFailure(x) /\ parent[x] \notin S
  BY DEF PreviousAttempts
<1>1. PICK x \in S : FollowsFailure(x)' /\ parent'[x] \notin S
  BY DEF PreviousAttempts
<1> QED
  BY <1>1

\* A retry adds itself to the attempts behind its parent, and a deployment
\* whose parent did not fail has none behind it.
LEMMA AttemptsOfNew ==
  ASSUME Types, ParentsEnded, NEW from \in {0} \cup Rows, NEW new, new = count + 1,
         parent'[new] = from,
         \A x \in Rows : FollowsFailure(x)' => FollowsFailure(x) /\ parent'[x] = parent[x],
         \A x \in Rows : status'[x] = status[x]
  PROVE  \/ PreviousAttempts(new)' \subseteq {new}
         \/ /\ from \in Rows /\ status[from] = "FAILED"
            /\ PreviousAttempts(new)' \subseteq {new} \cup PreviousAttempts(from)
<1>0. /\ count \in Nat /\ Rows \subseteq Nat /\ Rows = 1..count /\ Rows \subseteq 1..new
      /\ new \in 1..new /\ 0 \notin Rows
  BY RowsAreIds DEF Types, Rows
<1>1. ASSUME NEW S \in SUBSET (1..new), new \in S,
             \A x \in S : FollowsFailure(x)' => parent'[x] \in S
      PROVE  PreviousAttempts(new)' \subseteq S
  BY <1>1 DEF PreviousAttempts
<1>2. CASE FollowsFailure(new)' /\ from \in Rows
  <2>1. status[from] = "FAILED"
    BY <1>2 DEF FollowsFailure
  <2>2. /\ PreviousAttempts(from) \subseteq Rows /\ from \in PreviousAttempts(from)
        /\ \A x \in PreviousAttempts(from) : FollowsFailure(x) => parent[x] \in PreviousAttempts(from)
    BY <1>2, AttemptsClosed DEF Types
  <2>3. PreviousAttempts(new)' \subseteq {new} \cup PreviousAttempts(from)
    <3>1. {new} \cup PreviousAttempts(from) \in SUBSET (1..new)
      BY <1>0, <2>2
    <3>2. \A x \in {new} \cup PreviousAttempts(from) :
            FollowsFailure(x)' => parent'[x] \in {new} \cup PreviousAttempts(from)
      BY <2>2
    <3> QED
      BY <1>1, <3>1, <3>2
  <2> QED
    BY <1>2, <2>1, <2>3
<1>3. CASE ~FollowsFailure(new)'
  <2>1. {new} \in SUBSET (1..new)
    BY <1>0
  <2> QED
    BY <1>1, <1>3, <2>1
<1>4. CASE from = 0
  <2>1. 0 \notin Rows'
    BY DEF Rows
  <2> QED
    BY <1>3, <1>4, <2>1 DEF FollowsFailure
<1> QED
  BY <1>2, <1>3, <1>4

\* No row is inserted, and what is written of a status is written in progress.
LEMMA RowsKept ==
  ASSUME IInv, UNCHANGED <<count, commit, parent>>,
         \A d \in Ids : \/ status'[d] = status[d]
                        \/ /\ status[d] \in REDEPLOY_IN_PROGRESS_STATUSES
                           /\ status'[d] # "NONE"
  PROVE  Unborn' /\ ParentsEnded' /\ RetryLineageSound'
<1>0. Types /\ Unborn /\ ParentsEnded /\ RetryLineageSound
  BY DEF IInv, TypeOK, Types
<1>1. /\ Rows' = Rows /\ Rows \subseteq Ids /\ Rows \subseteq Nat
      /\ \A d \in Rows : Children(d)' = Children(d) /\ 1..d \subseteq Rows
  BY <1>0, RowsAreIds DEF Types, Rows, Children
<1>2. Unborn'
  BY <1>0, <1>1 DEF Unborn, REDEPLOY_IN_PROGRESS_STATUSES
<1>3. ASSUME NEW d \in Rows, parent[d] # 0
      PROVE  /\ parent[d] \in Rows /\ parent[d] < d
             /\ status'[parent[d]] = status[parent[d]] /\ status[parent[d]] \in {"FAILED", "LIVE"}
  <2>1. PICK p : p = parent[d]
    OBVIOUS
  <2>2. p \in Rows /\ p < d /\ status[p] \in {"FAILED", "LIVE"}
    BY <1>0, <1>3, <2>1 DEF ParentsEnded
  <2>3. status'[p] = status[p]
    BY <1>1, <2>2 DEF REDEPLOY_IN_PROGRESS_STATUSES
  <2> QED
    BY <2>1, <2>2, <2>3
<1>4. ParentsEnded'
  BY <1>1, <1>3 DEF ParentsEnded
<1>5. \A x \in Rows : FollowsFailure(x)' => FollowsFailure(x) /\ parent'[x] = parent[x]
  <2> SUFFICES ASSUME NEW x \in Rows, FollowsFailure(x)' PROVE FollowsFailure(x)
    OBVIOUS
  <2>1. parent[x] \in Rows /\ status'[parent[x]] = "FAILED"
    BY <1>1 DEF FollowsFailure
  <2>2. parent[x] # 0
    BY <2>1 DEF Rows
  <2> QED
    BY <1>3, <2>1, <2>2 DEF FollowsFailure
<1>6. ASSUME NEW d \in Rows
      PROVE  Cardinality(PreviousAttempts(d)') <= MAX_CUSTOMER_RETRY_DEPTH + 1
  <2>1. PreviousAttempts(d)' \subseteq PreviousAttempts(d)
    BY <1>1, <1>5, AttemptsShrink
  <2>2. PreviousAttempts(d) \subseteq Ids
    BY <1>0, <1>1, AttemptsClosed DEF Types
  <2>3. /\ Cardinality(PreviousAttempts(d)) \in Nat /\ Cardinality(PreviousAttempts(d)') \in Nat
        /\ Cardinality(PreviousAttempts(d)') <= Cardinality(PreviousAttempts(d))
    BY <2>1, <2>2, FiniteRows
  <2>4. Cardinality(PreviousAttempts(d)) <= MAX_CUSTOMER_RETRY_DEPTH + 1
    BY <1>0 DEF RetryLineageSound
  <2> QED
    BY <2>3, <2>4, ControlAssumption
<1>7. ASSUME NEW d \in Rows, status'[d] = "FAILED"
      PROVE  Cardinality(Children(d)) <= 1 /\ \A e \in Children(d) : commit[e] = commit[d]
  <2>1. CASE status[d] = "FAILED"
    BY <1>0, <2>1 DEF RetryLineageSound
  <2>2. CASE status[d] \in REDEPLOY_IN_PROGRESS_STATUSES
    <3>1. d # 0
      BY DEF Rows
    <3>2. Children(d) = {}
      BY <1>0, <2>2, <3>1 DEF Children, ParentsEnded, REDEPLOY_IN_PROGRESS_STATUSES
    <3> QED
      BY <3>2, FS_EmptySet
  <2> QED
    BY <1>1, <1>7, <2>1, <2>2
<1>8. RetryLineageSound'
  <2> SUFFICES ASSUME NEW d \in Rows
               PROVE  /\ Cardinality(PreviousAttempts(d)') <= MAX_CUSTOMER_RETRY_DEPTH + 1
                      /\ status'[d] = "FAILED" =>
                           /\ Cardinality(Children(d)) <= 1
                           /\ \A e \in Children(d) : commit[e] = commit[d]
    BY <1>1 DEF RetryLineageSound
  <2> QED
    BY <1>6, <1>7
<1> QED
  BY <1>2, <1>4, <1>8

\* A row is inserted: under a row that is live, or under the last of a chain
\* of failures that the limit lets grow, or under none.
LEMMA RowInserted ==
  ASSUME IInv, NEW c \in Commits, NEW from \in {0} \cup Rows,
         NEW prepared, NEW refused, NEW marker, Insert(c, from, prepared, refused, marker),
         \/ from = 0
         \/ status[from] = "LIVE"
         \/ /\ status[from] = "FAILED" /\ commit[from] = c /\ Children(from) = {}
            /\ Cardinality(PreviousAttempts(from)) <= MAX_CUSTOMER_RETRY_DEPTH
  PROVE  Unborn' /\ ParentsEnded' /\ RetryLineageSound'
<1>0. Types /\ Unborn /\ ParentsEnded /\ RetryLineageSound
  BY DEF IInv, TypeOK, Types
<1>n. PICK new \in Ids : new = count + 1
  BY <1>0, RowsAreIds DEF Types, Insert
<1>1. /\ Rows \subseteq Ids /\ Ids \subseteq Nat /\ Rows' = Rows \cup {new} /\ new \in Ids /\ new \notin Rows
      /\ \A d \in Rows : 1..d \subseteq Rows /\ d < new
      /\ 0 \notin Rows /\ 0 # new
  BY <1>0, <1>n, RowsAreIds DEF Types, Rows, Insert
<1>2. /\ status'[new] = "ANALYZING" /\ commit'[new] = c /\ parent'[new] = from
      /\ \A d \in Ids \ {new} : /\ status'[d] = status[d] /\ commit'[d] = commit[d]
                                /\ parent'[d] = parent[d]
  BY <1>0, <1>n, <1>1 DEF Insert, Types
<1>3. Unborn'
  <2> SUFFICES ASSUME NEW d \in Ids, d \notin Rows, d # new PROVE status'[d] = "NONE"
    BY <1>1 DEF Unborn
  <2> QED
    BY <1>0, <1>2 DEF Unborn
<1>4. ParentsEnded'
  <2>1. ASSUME NEW d \in Rows, parent[d] # 0
        PROVE  parent[d] \in Rows' /\ parent[d] < d /\ status'[parent[d]] \in {"FAILED", "LIVE"}
    <3>1. PICK p : p = parent[d]
      OBVIOUS
    <3>2. p \in Rows /\ p < d /\ status[p] \in {"FAILED", "LIVE"}
      BY <1>0, <2>1, <3>1 DEF ParentsEnded
    <3> QED
      BY <1>1, <1>2, <3>1, <3>2
  <2>2. from # 0 => from \in Rows' /\ from < new /\ status'[from] \in {"FAILED", "LIVE"}
    BY <1>1, <1>2
  <2>3. \A d \in Rows : parent'[d] = parent[d]
    BY <1>1, <1>2
  <2>4. SUFFICES ASSUME NEW d \in Rows', parent'[d] # 0
                 PROVE  parent'[d] \in Rows' /\ parent'[d] < d /\ status'[parent'[d]] \in {"FAILED", "LIVE"}
    BY DEF ParentsEnded
  <2>5. CASE d = new
    BY <1>2, <2>2, <2>4, <2>5
  <2>6. CASE d \in Rows
    BY <2>1, <2>3, <2>4, <2>6
  <2> QED
    BY <1>1, <2>5, <2>6
<1>5. \A x \in Rows : FollowsFailure(x)' => FollowsFailure(x) /\ parent'[x] = parent[x]
  <2> SUFFICES ASSUME NEW x \in Rows, FollowsFailure(x)' PROVE FollowsFailure(x) /\ parent'[x] = parent[x]
    OBVIOUS
  <2>1. PICK p : p = parent'[x]
    OBVIOUS
  <2>2. p \in Rows' /\ status'[p] = "FAILED" /\ parent[x] = p
    BY <1>1, <1>2, <2>1 DEF FollowsFailure
  <2>3. p \in Rows /\ status[p] = "FAILED"
    BY <1>1, <1>2, <2>2
  <2> QED
    BY <2>1, <2>2, <2>3 DEF FollowsFailure
<1>6. ASSUME NEW d \in Rows'
      PROVE  Cardinality(PreviousAttempts(d)') <= MAX_CUSTOMER_RETRY_DEPTH + 1
  <2>1. \A x \in Rows : /\ PreviousAttempts(x) \subseteq Ids
                        /\ Cardinality(PreviousAttempts(x)) \in Nat
                        /\ Cardinality(PreviousAttempts(x)) <= MAX_CUSTOMER_RETRY_DEPTH + 1
    BY <1>0, <1>1, AttemptsClosed, FiniteRows DEF Types, RetryLineageSound
  <2>2. CASE d \in Rows
    <3>1. PreviousAttempts(d)' \subseteq PreviousAttempts(d)
      BY <1>1, <1>5, <2>2, AttemptsShrink
    <3>2. /\ Cardinality(PreviousAttempts(d)') \in Nat
          /\ Cardinality(PreviousAttempts(d)') <= Cardinality(PreviousAttempts(d))
      BY <2>1, <2>2, <3>1, FiniteRows
    <3> QED
      BY <2>1, <2>2, <3>2, ControlAssumption
  <2>3. CASE d = new
    <3>1. \/ PreviousAttempts(new)' \subseteq {new}
          \/ /\ from \in Rows /\ status[from] = "FAILED"
             /\ PreviousAttempts(new)' \subseteq {new} \cup PreviousAttempts(from)
      BY <1>0, <1>n, <1>1, <1>2, <1>5, AttemptsOfNew
    <3>2. CASE PreviousAttempts(new)' \subseteq {new}
      <4>1. Cardinality({new}) = 1 /\ {new} \subseteq Ids
        BY <1>1, FS_Singleton
      <4>2. Cardinality(PreviousAttempts(new)') \in Nat /\ Cardinality(PreviousAttempts(new)') <= 1
        BY <3>2, <4>1, FiniteRows
      <4> QED
        BY <2>3, <4>2, ControlAssumption
    <3>3. CASE /\ from \in Rows /\ status[from] = "FAILED"
               /\ PreviousAttempts(new)' \subseteq {new} \cup PreviousAttempts(from)
      <4>1. Cardinality(PreviousAttempts(from)) <= MAX_CUSTOMER_RETRY_DEPTH
        BY <1>1, <3>3
      <4>2. PreviousAttempts(from) \subseteq Rows /\ IsFiniteSet(PreviousAttempts(from))
        BY <1>0, <1>1, <3>3, AttemptsClosed, FiniteRows DEF Types
      <4>3. /\ {new} \cup PreviousAttempts(from) \subseteq Ids
            /\ PreviousAttempts(from) \cup {new} = {new} \cup PreviousAttempts(from)
        BY <1>1, <4>2
      <4>4. Cardinality({new} \cup PreviousAttempts(from)) = Cardinality(PreviousAttempts(from)) + 1
        BY <1>1, <4>2, <4>3, FS_AddElement
      <4>5. /\ Cardinality(PreviousAttempts(new)') \in Nat
            /\ Cardinality(PreviousAttempts(new)') <= Cardinality({new} \cup PreviousAttempts(from))
        BY <3>3, <4>3, FiniteRows
      <4>6. Cardinality(PreviousAttempts(from)) \in Nat
        BY <2>1, <3>3
      <4> QED
        BY <2>3, <4>1, <4>4, <4>5, <4>6, ControlAssumption
    <3> QED
      BY <3>1, <3>2, <3>3
  <2> QED
    BY <1>1, <2>2, <2>3
<1>7. /\ \A x \in Rows : parent'[x] = parent[x] /\ commit'[x] = commit[x] /\ status'[x] = status[x]
      /\ \A x \in Rows : Children(x)' = Children(x) \cup { y \in {new} : from = x }
  <2>1. \A x \in Rows : parent'[x] = parent[x] /\ commit'[x] = commit[x] /\ status'[x] = status[x]
    BY <1>1, <1>2
  <2> QED
    BY <1>1, <1>2, <2>1 DEF Children
<1>8. ASSUME NEW d \in Rows', status'[d] = "FAILED"
      PROVE  Cardinality(Children(d)') <= 1 /\ \A e \in Children(d)' : commit'[e] = commit'[d]
  <2>1. d \in Rows /\ status[d] = "FAILED"
    BY <1>1, <1>2, <1>8
  <2>2. Cardinality(Children(d)) <= 1 /\ \A e \in Children(d) : commit[e] = commit[d]
    BY <1>0, <2>1 DEF RetryLineageSound
  <2>3. CASE from # d
    <3>1. Children(d)' = Children(d) /\ Children(d) \subseteq Rows
      BY <1>7, <2>1, <2>3 DEF Children
    <3> QED
      BY <1>7, <2>1, <2>2, <3>1
  <2>4. CASE from = d
    <3>1. Children(d) = {} /\ commit[d] = c
      BY <1>1, <2>1, <2>4
    <3>2. Children(d)' = {new}
      BY <1>7, <2>1, <2>4, <3>1
    <3>3. Cardinality({new}) = 1
      BY FS_Singleton
    <3>4. commit'[new] = commit'[d]
      BY <1>2, <1>7, <2>1, <3>1
    <3>5. Cardinality(Children(d)') <= 1
      BY <3>2, <3>3
    <3> QED
      BY <3>2, <3>4, <3>5
  <2> QED
    BY <2>3, <2>4
<1>9. RetryLineageSound'
  <2> SUFFICES ASSUME NEW d \in Rows'
               PROVE  /\ Cardinality(PreviousAttempts(d)') <= MAX_CUSTOMER_RETRY_DEPTH + 1
                      /\ status'[d] = "FAILED" =>
                           /\ Cardinality(Children(d)') <= 1
                           /\ \A e \in Children(d)' : commit'[e] = commit'[d]
    BY DEF RetryLineageSound
  <2> QED
    BY <1>6, <1>8
<1> QED
  BY <1>3, <1>4, <1>9

-----------------------------------------------------------------------------
(* What a step leaves sound: the rows, the runs, the claims, the requests. *)

RowsFollow == RowTypes' /\ Unborn' /\ ParentsEnded' /\ RetryLineageSound'

RunsFollow ==
  /\ OutsideTypes' /\ RunsInOrder' /\ RunsBegun \subseteq RunsBegun'
  /\ \A i \in RunsBegun : runKey'[i] = runKey[i]

\* A claim is left alone, or written with its marker, or gets its run.
ClaimFollows(d) ==
  \/ recorded'[d] = recorded[d] /\ claimed'[d] = claimed[d] /\ (d \in Rows' => d \in Rows)
  \/ recorded'[d] \in Markers /\ claimed'[d] = recorded'[d]
  \/ recorded'[d] \in RunsBegun' /\ claimed'[d] \in {NoRun, runKey'[recorded'[d]]}

ClaimsFollow == ClaimTypes' /\ \A d \in Ids : ClaimFollows(d)

Same(q) == pc'[q] = pc[q] /\ run'[q] = run[q] /\ was'[q] = was[q]

RequestsFollow ==
  LocalTypes' /\ \A q \in Requests : Same(q) \/ (HeldRun(q)' /\ FailsWhatRuns(q)')

LEMMA StepKeeps ==
  ASSUME IInv, RowsFollow, RunsFollow, ClaimsFollow, RequestsFollow
  PROVE  IInv'
<1>0. /\ RunOrClaim /\ RecordedRunIsLastClaim /\ HeldRuns /\ FailsInProgress
      /\ ClaimTypes /\ Types /\ Types'
  BY TypeParts DEF IInv, RowsFollow, RowTypes
<1>1. TypeOK'
  <2>1. RowTypes' /\ ClaimTypes' /\ OutsideTypes' /\ LocalTypes'
    BY DEF RowsFollow, RunsFollow, ClaimsFollow, RequestsFollow
  <2> QED
    BY <2>1 DEF TypeOK, Types, RowTypes, ClaimTypes, OutsideTypes, LocalTypes
<1>2. HeldRuns' /\ FailsInProgress'
  <2> SUFFICES ASSUME NEW q \in Requests PROVE HeldRun(q)' /\ FailsWhatRuns(q)'
    BY DEF HeldRuns, FailsInProgress
  <2>1. CASE Same(q)
    <3>1. HeldRun(q)'
      BY <1>0, <2>1 DEF HeldRuns, HeldRun, RunsFollow, Same
    <3>2. FailsWhatRuns(q)'
      BY <1>0, <2>1 DEF FailsInProgress, FailsWhatRuns, Same
    <3> QED
      BY <3>1, <3>2
  <2> QED
    BY <2>1 DEF RequestsFollow
<1>3. RunOrClaim'
  <2> SUFFICES ASSUME NEW d \in Ids
               PROVE  \/ recorded'[d] \in RunsBegun'
                      \/ recorded'[d] \in Markers /\ claimed'[d] = recorded'[d]
    BY DEF RunOrClaim
  <2> QED
    BY <1>0 DEF RunOrClaim, ClaimsFollow, ClaimFollows, RunsFollow
<1>4. RecordedRunIsLastClaim'
  <2> SUFFICES ASSUME NEW d \in Rows', recorded'[d] \in RunIds
               PROVE  claimed'[d] \in {NoRun, runKey'[recorded'[d]]}
    BY DEF RecordedRunIsLastClaim
  <2>1. d \in Ids
    BY <1>0, ControlAssumption DEF Types, Rows, Ids
  <2>2. recorded'[d] \notin Markers
    BY ControlAssumption DEF Markers
  <2>3. CASE recorded'[d] = recorded[d] /\ claimed'[d] = claimed[d] /\ d \in Rows
    <3>1. recorded[d] \in RunsBegun
      BY <1>0, <2>1, <2>2, <2>3 DEF RunOrClaim
    <3>2. claimed[d] \in {NoRun, runKey[recorded[d]]}
      BY <1>0, <2>3 DEF RecordedRunIsLastClaim
    <3> QED
      BY <2>3, <3>1, <3>2 DEF RunsFollow
  <2> QED
    BY <2>1, <2>2, <2>3 DEF ClaimsFollow, ClaimFollows
<1> QED
  BY <1>1, <1>2, <1>3, <1>4 DEF IInv, RowsFollow, RunsFollow

\* The rows stay, or one is touched.
LEMMA RowsStill ==
  ASSUME IInv, UNCHANGED <<count, status, error, input, commit, parent>>, stale' \subseteq Ids
  PROVE  RowsFollow
<1>1. RowTypes
  BY TypeParts DEF IInv
<1>2. Unborn' /\ ParentsEnded' /\ RetryLineageSound'
  BY RowsKept
<1> QED
  BY <1>1, <1>2 DEF RowsFollow, RowTypes, Types

\* A status moves on, or fails.
LEMMA RowsMove ==
  ASSUME IInv, UNCHANGED <<count, commit, parent>>, stale' \subseteq Ids,
         NEW d \in Ids, NEW s \in {"ANALYZING", "BUILDING", "LIVE", "FAILED"},
         status[d] \in REDEPLOY_IN_PROGRESS_STATUSES, status' = [status EXCEPT ![d] = s],
         error' \in [Ids -> BOOLEAN], input' \in [Ids -> BOOLEAN]
  PROVE  RowsFollow
<1>1. RowTypes
  BY TypeParts DEF IInv
<1>2. /\ status' \in [Ids -> Statuses]
      /\ \A e \in Ids : status'[e] = status[e] \/ (e = d /\ status'[e] = s)
  BY <1>1 DEF RowTypes, Types, Statuses
<1>3. Unborn' /\ ParentsEnded' /\ RetryLineageSound'
  BY <1>2, RowsKept
<1> QED
  BY <1>1, <1>2, <1>3 DEF RowsFollow, RowTypes, Types

LEMMA RunsStill ==
  ASSUME IInv, UNCHANGED <<runOf, runKey>>,
         runState' \in [RunIds -> {"none", "running", "completed", "failed"}],
         head' \in Commits, undelivered' \subseteq Commits
  PROVE  RunsFollow
<1>1. OutsideTypes /\ RunsInOrder
  BY TypeParts DEF IInv
<1>2. RunsBegun' = RunsBegun
  BY DEF RunsBegun
<1> QED
  BY <1>1, <1>2 DEF RunsFollow, OutsideTypes, RunsInOrder

LEMMA OutsideStill ==
  ASSUME IInv, UNCHANGED <<github, trigger>>
  PROVE  RunsFollow
<1>1. OutsideTypes
  BY TypeParts DEF IInv
<1> QED
  BY <1>1, RunsStill DEF OutsideTypes, github, trigger

\* A run begins: the next one.
LEMMA RunBegins ==
  ASSUME IInv, UNCHANGED github, NEW i \in RunIds, i = Cardinality(RunsBegun) + 1,
         NEW d \in Ids, NEW key \in Markers,
         runOf' = [runOf EXCEPT ![i] = d], runKey' = [runKey EXCEPT ![i] = key],
         runState' = [runState EXCEPT ![i] = "running"]
  PROVE  RunsFollow /\ i \in RunsBegun' /\ runKey'[i] = key
<1>0. OutsideTypes /\ RunsInOrder
  BY TypeParts DEF IInv
<1>1. PICK n \in 0..MaxRuns : RunsBegun = 1..n
  BY <1>0 DEF RunsInOrder
<1>2. Cardinality(RunsBegun) = n
  <2>1. n \in Nat
    BY ControlAssumption
  <2> QED
    BY <1>1, <2>1, FS_Interval
<1>3. i = n + 1 /\ n \in Nat /\ i \in 1..MaxRuns /\ d # 0 /\ i \notin RunsBegun
  BY <1>1, <1>2, ControlAssumption DEF RunIds, Ids
<1>4. RunsBegun' = RunsBegun \cup {i}
  BY <1>0, <1>3 DEF OutsideTypes, RunsBegun
<1>5. RunsInOrder'
  <2>1. RunsBegun' = 1..(n + 1) /\ n + 1 \in 0..MaxRuns
    BY <1>1, <1>3, <1>4, ControlAssumption
  <2> QED
    BY <2>1 DEF RunsInOrder
<1>6. OutsideTypes'
  BY <1>0 DEF OutsideTypes, github
<1>7. runKey'[i] = key /\ \A j \in RunsBegun : runKey'[j] = runKey[j]
  BY <1>0, <1>3 DEF OutsideTypes, RunsBegun
<1> QED
  BY <1>4, <1>5, <1>6, <1>7 DEF RunsFollow

LEMMA ClaimsStill ==
  ASSUME IInv, UNCHANGED <<count, recorded, claimed>>
  PROVE  ClaimsFollow
<1>1. ClaimTypes /\ Rows' = Rows
  BY TypeParts DEF IInv, Rows
<1> QED
  BY <1>1 DEF ClaimsFollow, ClaimFollows, ClaimTypes

\* A claim is made, or taken back.
LEMMA ClaimWritten ==
  ASSUME IInv, NEW d \in Ids, NEW marker \in Markers,
         \A e \in Ids \ {d} : e \in Rows' => e \in Rows,
         recorded' = [recorded EXCEPT ![d] = marker], claimed' = [claimed EXCEPT ![d] = marker]
  PROVE  ClaimsFollow
<1>1. ClaimTypes
  BY TypeParts DEF IInv
<1>2. ClaimTypes'
  BY <1>1 DEF ClaimTypes
<1>3. \A e \in Ids : ClaimFollows(e)
  BY <1>1 DEF ClaimTypes, ClaimFollows
<1> QED
  BY <1>2, <1>3 DEF ClaimsFollow

\* A run that was begun for the claim is recorded.
LEMMA RunRecorded ==
  ASSUME IInv, NEW d \in Ids, NEW i \in RunsBegun', claimed[d] \in {NoRun, runKey'[i]},
         UNCHANGED <<count, claimed>>, recorded' = [recorded EXCEPT ![d] = i]
  PROVE  ClaimsFollow
<1>1. ClaimTypes /\ Rows' = Rows /\ i \in RunIds
  BY TypeParts DEF IInv, RunsBegun, Rows
<1>2. ClaimTypes'
  BY <1>1 DEF ClaimTypes
<1>3. \A e \in Ids : ClaimFollows(e)
  BY <1>1 DEF ClaimTypes, ClaimFollows
<1> QED
  BY <1>2, <1>3 DEF ClaimsFollow

LEMMA RequestsStill ==
  ASSUME IInv, UNCHANGED locals
  PROVE  RequestsFollow
<1>1. LocalTypes
  BY TypeParts DEF IInv
<1> QED
  BY <1>1 DEF LocalTypes, RequestsFollow, Same, locals

\* One request has moved, and holds what its step needs.
LEMMA RequestMoves ==
  ASSUME LocalTypes', NEW q \in Requests, HeldRun(q)', FailsWhatRuns(q)',
         \A r \in Requests \ {q} : Same(r)
  PROVE  RequestsFollow
BY DEF RequestsFollow

\* Nothing is held at a step that neither records nor fails.
Plain == Steps \ {"recordStart", "recordResume", "ask", "markFailed"}

LEMMA RequestGoes ==
  ASSUME LocalTypes', NEW q \in Requests, pc'[q] \in Plain, \A r \in Requests \ {q} : Same(r)
  PROVE  RequestsFollow
<1>1. HeldRun(q)'
  BY DEF HeldRun, Plain
<1>2. FailsWhatRuns(q)'
  BY DEF FailsWhatRuns, Plain
<1> QED
  BY <1>1, <1>2, RequestMoves

LEMMA RequestEnds ==
  ASSUME IInv, NEW q \in Requests, End(q)
  PROVE  RequestsFollow
<1>1. LocalTypes
  BY TypeParts DEF IInv
<1>2. 1 \in Ids /\ 1 \in Commits /\ "NONE" \in Statuses /\ "idle" \in Plain /\ "idle" \in Steps
  BY ControlAssumption DEF Ids, Commits, Statuses, Steps, Plain
<1>3. LocalTypes'
  BY <1>1, <1>2 DEF LocalTypes, End, GoTo, Forget
<1>4. pc'[q] \in Plain /\ \A r \in Requests \ {q} : Same(r)
  BY <1>1, <1>2 DEF LocalTypes, End, GoTo, Forget, Same
<1> QED
  BY <1>3, <1>4, RequestGoes

LEMMA RequestToTrigger ==
  ASSUME IInv, NEW q \in Requests, NEW d \in Ids, ToTrigger(q, d)
  PROVE  RequestsFollow
<1>1. LocalTypes
  BY TypeParts DEF IInv
<1>2. LocalTypes'
  BY <1>1 DEF LocalTypes, ToTrigger, Enter, GoTo, Steps
<1>3. pc'[q] \in Plain /\ \A r \in Requests \ {q} : Same(r)
  BY <1>1 DEF LocalTypes, ToTrigger, Enter, GoTo, Same, Plain, Steps
<1> QED
  BY <1>2, <1>3, RequestGoes

LEMMA RequestAnalysed ==
  ASSUME IInv, NEW q \in Requests, NEW d \in Ids, Analysed(q, d)
  PROVE  RequestsFollow
<1>1. LocalTypes /\ 1 \in Commits
  BY TypeParts, ControlAssumption DEF IInv, Commits
<1>2. CASE End(q)
  BY <1>2, RequestEnds
<1>3. CASE Enter(q, "start", d) /\ seen' = [seen EXCEPT ![q] = 1] /\ UNCHANGED <<run, was, push>>
  <2>1. LocalTypes'
    BY <1>1, <1>3 DEF LocalTypes, Enter, GoTo, Steps
  <2>2. pc'[q] \in Plain /\ \A r \in Requests \ {q} : Same(r)
    BY <1>1, <1>3 DEF LocalTypes, Enter, GoTo, Same, Plain, Steps
  <2> QED
    BY <2>1, <2>2, RequestGoes
<1> QED
  BY <1>2, <1>3 DEF Analysed

-----------------------------------------------------------------------------
(* Step by step.                                                           *)

LEMMA InitIInv == Init => IInv
<1> SUFFICES ASSUME Init PROVE IInv
  OBVIOUS
<1>0. /\ 1 \in Ids /\ 1 \in Commits /\ 1 \in Rows /\ Rows = {1} /\ Ids \subseteq Nat
      /\ 0 \notin Ids /\ \A x : x \notin 1..0
  BY ControlAssumption DEF Init, Ids, Commits, Rows
<1>1. RowTypes /\ Types
  BY <1>0 DEF Init, RowTypes, Types, Statuses
<1>2. ClaimTypes /\ OutsideTypes
  BY <1>0 DEF Init, ClaimTypes, OutsideTypes, Markers
<1>3. LocalTypes
  BY <1>0 DEF Init, LocalTypes, Statuses, Steps
<1>4. HeldRuns /\ FailsInProgress /\ RunOrClaim
  BY DEF Init, HeldRuns, HeldRun, FailsInProgress, FailsWhatRuns, RunOrClaim, Markers
<1>5. RunsInOrder
  <2>1. RunsBegun = 1..0 /\ 0 \in 0..MaxRuns
    BY ControlAssumption DEF Init, RunsBegun
  <2> QED
    BY <2>1 DEF RunsInOrder
<1>6. Unborn /\ ParentsEnded
  <2>1. \A d \in Ids : d \notin Rows => d # 1
    BY <1>0
  <2>2. Unborn
    BY <2>1 DEF Init, Unborn
  <2>3. ParentsEnded
    BY <1>0 DEF Init, ParentsEnded
  <2> QED
    BY <2>2, <2>3
<1>7. RecordedRunIsLastClaim
  BY <1>0, ControlAssumption DEF Init, RecordedRunIsLastClaim
<1>8. RetryLineageSound
  <2>1. PreviousAttempts(1) \subseteq {1}
    BY DEF PreviousAttempts
  <2>2. Cardinality(PreviousAttempts(1)) \in Nat /\ Cardinality(PreviousAttempts(1)) <= 1
    BY <1>0, <2>1, FiniteRows, FS_Singleton
  <2>3. \A d \in Rows : d = 1 /\ status[d] # "FAILED"
    BY <1>0 DEF Init
  <2> QED
    BY <2>2, <2>3, ControlAssumption DEF RetryLineageSound
<1> QED
  BY <1>1, <1>2, <1>3, <1>4, <1>5, <1>6, <1>7, <1>8, TypeParts DEF IInv

\* Pushes, and the requests that only read, or come, or end.
LEMMA ReadsKeep ==
  ASSUME IInv,
         \/ Push
         \/ \E q \in Requests, c \in Commits : ReceivePush(q, c)
         \/ \E q \in Requests : \/ PushClear(q) \/ InspectSource(q) \/ AnalyseKnown(q)
                                \/ ReadForResume(q) \/ AskRun(q) \/ Drop(q)
  PROVE  IInv'
<1>0. RowTypes /\ Types /\ ClaimTypes /\ OutsideTypes /\ LocalTypes
  BY TypeParts DEF IInv, RowTypes
<1>1. UNCHANGED <<rows, trigger>>
  BY DEF Push, ReceivePush, PushClear, InspectSource, AnalyseKnown, ReadForResume, AskRun, Drop
<1>2. RowsFollow
  BY <1>0, <1>1, RowsStill DEF rows, RowTypes
<1>3. ClaimsFollow
  BY <1>1, ClaimsStill DEF rows
<1>4. head' \in Commits /\ undelivered' \subseteq Commits
  <2>1. CASE Push
    BY <1>0, <2>1, ControlAssumption DEF Push, OutsideTypes, Commits
  <2>2. CASE \E q \in Requests, c \in Commits : ReceivePush(q, c)
    BY <1>0, <2>2 DEF ReceivePush, OutsideTypes
  <2>3. CASE UNCHANGED github
    BY <1>0, <2>3 DEF OutsideTypes, github
  <2> QED
    BY <2>1, <2>2, <2>3 DEF PushClear, InspectSource, AnalyseKnown, ReadForResume, AskRun, Drop
<1>5. RunsFollow
  <2>1. UNCHANGED <<runOf, runKey, runState>>
    BY <1>1 DEF trigger
  <2> QED
    BY <1>0, <1>4, <2>1, RunsStill DEF OutsideTypes
<1>6. Rows \subseteq Ids /\ InProgress \subseteq Ids
  BY <1>0, RowsAreIds DEF Types, InProgress
<1>7. RequestsFollow
  <2>1. CASE Push
    BY <2>1, RequestsStill DEF Push
  <2>2. ASSUME NEW q \in Requests, NEW c \in Commits, ReceivePush(q, c)
        PROVE  RequestsFollow
    <3>1. CASE Live = {}
      <4>1. UNCHANGED locals
        BY <2>2, <3>1 DEF ReceivePush, locals
      <4> QED
        BY <4>1, RequestsStill
    <3>2. CASE Live # {}
      <4>1. LocalTypes'
        BY <1>0, <2>2, <3>2 DEF ReceivePush, GoTo, LocalTypes, Steps
      <4>2. pc'[q] \in Plain /\ \A r \in Requests \ {q} : Same(r)
        BY <1>0, <2>2, <3>2 DEF ReceivePush, GoTo, LocalTypes, Same, Plain, Steps
      <4> QED
        BY <4>1, <4>2, RequestGoes
    <3> QED
      BY <3>1, <3>2
  <2>3. ASSUME NEW q \in Requests, PushClear(q) \/ InspectSource(q)
        PROVE  RequestsFollow
    <3>1. LocalTypes'
      BY <1>0, <2>3 DEF PushClear, InspectSource, GoTo, LocalTypes, OutsideTypes, Steps
    <3>2. pc'[q] \in Plain /\ \A r \in Requests \ {q} : Same(r)
      BY <1>0, <2>3 DEF PushClear, InspectSource, GoTo, LocalTypes, Same, Plain, Steps
    <3> QED
      BY <3>1, <3>2, RequestGoes
  <2>4. ASSUME NEW q \in Requests, AnalyseKnown(q)
        PROVE  RequestsFollow
    BY <1>6, <2>4, RequestAnalysed DEF AnalyseKnown, Reusable
  <2>5. ASSUME NEW q \in Requests, ReadForResume(q)
        PROVE  RequestsFollow
    <3>1. PICK d \in InProgress :
            IF recorded[d] \in RunIds /\ ~error[d]
              THEN /\ Enter(q, "ask", d)
                   /\ run' = [run EXCEPT ![q] = recorded[d]]
                   /\ was' = [was EXCEPT ![q] = status[d]]
              ELSE Enter(q, "resume", d) /\ UNCHANGED <<run, was>>
      BY <2>5 DEF ReadForResume
    <3>2. status[d] \in REDEPLOY_IN_PROGRESS_STATUSES /\ status[d] \in Statuses /\ d \in Ids
      BY <1>0, <1>6 DEF InProgress, Types
    <3>3. seen' = seen /\ push' = push
      BY <2>5 DEF ReadForResume
    <3>4. CASE recorded[d] \in RunIds /\ ~error[d]
      <4>1. LocalTypes'
        BY <1>0, <3>1, <3>2, <3>3, <3>4 DEF Enter, GoTo, LocalTypes, Steps
      <4>2. pc'[q] = "ask" /\ was'[q] = status[d] /\ \A r \in Requests \ {q} : Same(r)
        BY <1>0, <3>1, <3>4 DEF Enter, GoTo, LocalTypes, Same
      <4>3. HeldRun(q)' /\ FailsWhatRuns(q)'
        BY <3>2, <4>2 DEF HeldRun, FailsWhatRuns
      <4> QED
        BY <4>1, <4>2, <4>3, RequestMoves
    <3>5. CASE ~(recorded[d] \in RunIds /\ ~error[d])
      <4>1. LocalTypes'
        BY <1>0, <3>1, <3>2, <3>3, <3>5 DEF Enter, GoTo, LocalTypes, Steps
      <4>2. pc'[q] \in Plain /\ \A r \in Requests \ {q} : Same(r)
        BY <1>0, <3>1, <3>5 DEF Enter, GoTo, LocalTypes, Same, Plain, Steps
      <4> QED
        BY <4>1, <4>2, RequestGoes
    <3> QED
      BY <3>4, <3>5
  <2>6. ASSUME NEW q \in Requests, AskRun(q)
        PROVE  RequestsFollow
    <3>1. CASE GoTo(q, "markFailed") /\ UNCHANGED <<run, was>>
      <4>1. LocalTypes'
        BY <1>0, <2>6, <3>1 DEF AskRun, GoTo, LocalTypes, Steps
      <4>2. pc'[q] = "markFailed" /\ was'[q] = was[q] /\ \A r \in Requests \ {q} : Same(r)
        BY <1>0, <3>1 DEF GoTo, LocalTypes, Same
      <4>3. was[q] \in REDEPLOY_IN_PROGRESS_STATUSES
        BY <2>6 DEF IInv, FailsInProgress, FailsWhatRuns, AskRun, At
      <4>4. HeldRun(q)' /\ FailsWhatRuns(q)'
        BY <4>2, <4>3 DEF HeldRun, FailsWhatRuns
      <4> QED
        BY <4>1, <4>2, <4>4, RequestMoves
    <3>2. CASE GoTo(q, "resume") /\ Forget(q)
      <4>1. LocalTypes'
        BY <1>0, <2>6, <3>2 DEF AskRun, GoTo, Forget, LocalTypes, Steps, Statuses
      <4>2. pc'[q] \in Plain /\ \A r \in Requests \ {q} : Same(r)
        BY <1>0, <3>2 DEF GoTo, Forget, LocalTypes, Same, Plain, Steps
      <4> QED
        BY <4>1, <4>2, RequestGoes
    <3> QED
      BY <2>6, <3>1, <3>2 DEF AskRun
  <2>7. ASSUME NEW q \in Requests, Drop(q)
        PROVE  RequestsFollow
    BY <2>7, RequestEnds DEF Drop
  <2> QED
    BY <2>1, <2>2, <2>3, <2>4, <2>5, <2>6, <2>7
<1> QED
  BY <1>2, <1>3, <1>5, <1>7, StepKeeps

\* A row is inserted, with its claim.
LEMMA InsertFollows ==
  ASSUME IInv, NEW c \in Commits, NEW from \in {0} \cup Rows,
         NEW prepared \in BOOLEAN, NEW refused \in BOOLEAN, NEW marker \in Markers,
         Insert(c, from, prepared, refused, marker),
         \/ from = 0
         \/ status[from] = "LIVE"
         \/ /\ status[from] = "FAILED" /\ commit[from] = c /\ Children(from) = {}
            /\ Cardinality(PreviousAttempts(from)) <= MAX_CUSTOMER_RETRY_DEPTH
  PROVE  RowsFollow /\ ClaimsFollow
<1>0. RowTypes /\ Types
  BY TypeParts DEF IInv, RowTypes
<1>n. PICK new \in Ids : new = count + 1
  BY <1>0, RowsAreIds DEF Types, Insert
<1>1. Rows \subseteq Ids /\ Rows' = Rows \cup {new}
  BY <1>0, <1>n, RowsAreIds DEF Types, Rows, Insert
<1>2. Unborn' /\ ParentsEnded' /\ RetryLineageSound'
  BY RowInserted
<1>3. Types'
  BY <1>0, <1>n, <1>1 DEF Types, Insert, Statuses
<1>4. error' \in [Ids -> BOOLEAN] /\ input' \in [Ids -> BOOLEAN] /\ stale' \subseteq Ids
  BY <1>0 DEF RowTypes, Insert
<1>5. ClaimsFollow
  <2>1. /\ recorded' = [recorded EXCEPT ![new] = marker] /\ claimed' = [claimed EXCEPT ![new] = marker]
        /\ \A e \in Ids \ {new} : e \in Rows' => e \in Rows
    BY <1>n, <1>1 DEF Insert
  <2> QED
    BY <2>1, ClaimWritten
<1> QED
  BY <1>2, <1>3, <1>4, <1>5 DEF RowsFollow, RowTypes

\* A request inserts its row, and goes on to trigger.
LEMMA InsertFollowed ==
  ASSUME IInv, NEW q \in Requests, NEW c \in Commits, NEW from \in {0} \cup Rows,
         Insert(c, from, FALSE, FALSE, StartMarker), ToTrigger(q, count + 1),
         UNCHANGED <<github, trigger>>,
         \/ status[from] = "LIVE"
         \/ /\ status[from] = "FAILED" /\ commit[from] = c /\ Children(from) = {}
            /\ Cardinality(PreviousAttempts(from)) <= MAX_CUSTOMER_RETRY_DEPTH
  PROVE  IInv'
<1>1. RowsFollow /\ ClaimsFollow
  <2>1. StartMarker \in Markers
    BY DEF Markers
  <2> QED
    BY <2>1, InsertFollows
<1>2. RunsFollow
  BY OutsideStill
<1>3. RequestsFollow
  <2>1. count + 1 \in Ids
    BY TypeParts, RowsAreIds DEF IInv, RowTypes, Types, Insert
  <2> QED
    BY <2>1, RequestToTrigger
<1> QED
  BY <1>1, <1>2, <1>3, StepKeeps

\* A request claims a row for a start, and goes on to trigger.
LEMMA ClaimFollowed ==
  ASSUME IInv, NEW q \in Requests, NEW d \in Rows, Claim(d, StartMarker), ToTrigger(q, d),
         UNCHANGED <<count, status, error, input, commit, parent, github, trigger>>
  PROVE  IInv'
<1>0. RowTypes /\ d \in Ids /\ StartMarker \in Markers /\ Rows' = Rows
  BY TypeParts, RowsAreIds DEF IInv, RowTypes, Types, Markers, Rows
<1>1. RowsFollow
  BY <1>0, RowsStill DEF Claim, Touch, RowTypes
<1>2. ClaimsFollow
  BY <1>0, ClaimWritten DEF Claim
<1>3. RunsFollow
  BY OutsideStill
<1>4. RequestsFollow
  BY <1>0, RequestToTrigger
<1> QED
  BY <1>1, <1>2, <1>3, <1>4, StepKeeps

\* An analysis inserts its row under none.
LEMMA AnalyseNewKeeps == ASSUME IInv, NEW q \in Requests, AnalyseNew(q) PROVE IInv'
<1>0. RowTypes /\ Types /\ LocalTypes /\ Rows \subseteq Ids
  BY TypeParts, RowsAreIds DEF IInv, RowTypes, Types
<1>1. PICK c \in Commits : Insert(c, 0, c \notin Unsupported, c \in Unsupported, NoRun)
  BY <1>0 DEF AnalyseNew, LocalTypes
<1>2. RowsFollow /\ ClaimsFollow
  <2>1. NoRun \in Markers /\ (c \notin Unsupported) \in BOOLEAN /\ (c \in Unsupported) \in BOOLEAN
    BY DEF Markers
  <2> QED
    BY <1>1, <2>1, InsertFollows
<1>3. RunsFollow
  BY OutsideStill DEF AnalyseNew
<1>4. RequestsFollow
  <2>1. count + 1 \in Ids
    BY <1>0, <1>1, RowsAreIds DEF Insert, Types
  <2> QED
    BY <2>1, RequestAnalysed DEF AnalyseNew
<1> QED
  BY <1>2, <1>3, <1>4, StepKeeps

\* A start claims a row that is there.
LEMMA ClaimStartKeeps == ASSUME IInv, NEW q \in Requests, ClaimStart(q) PROVE IInv'
<1>1. PICK d \in Rows : Claim(d, StartMarker) /\ ToTrigger(q, d)
  BY DEF ClaimStart
<1> QED
  BY <1>1, ClaimFollowed DEF ClaimStart

\* A retry inserts under the last of its lineage, or starts that.
LEMMA ClaimRetryKeeps == ASSUME IInv, NEW q \in Requests, ClaimRetry(q) PROVE IInv'
<1>0. Types /\ ParentsEnded /\ Rows \subseteq Ids
  BY TypeParts, RowsAreIds DEF IInv, RowTypes, Types
<1>1. PICK d \in Rows : \E e :
        /\ e = Latest(d) /\ Children(e) = {}
        /\ \/ /\ status[e] = "FAILED" /\ Depth(d) < MAX_CUSTOMER_RETRY_DEPTH
              /\ Insert(commit[e], e, FALSE, FALSE, StartMarker) /\ ToTrigger(q, count + 1)
           \/ /\ Claim(e, StartMarker) /\ ToTrigger(q, e)
              /\ UNCHANGED <<count, status, error, input, commit, parent>>
  BY DEF ClaimRetry
<1>2. PICK e :
        /\ e = Latest(d) /\ Children(e) = {}
        /\ \/ /\ status[e] = "FAILED" /\ Depth(d) < MAX_CUSTOMER_RETRY_DEPTH
              /\ Insert(commit[e], e, FALSE, FALSE, StartMarker) /\ ToTrigger(q, count + 1)
           \/ /\ Claim(e, StartMarker) /\ ToTrigger(q, e)
              /\ UNCHANGED <<count, status, error, input, commit, parent>>
  BY <1>1
<1>3. e \in Lineage(d) /\ e \in Rows
  BY <1>0, <1>2, LatestThereIs DEF Types
<1>4. CASE /\ Claim(e, StartMarker) /\ ToTrigger(q, e)
           /\ UNCHANGED <<count, status, error, input, commit, parent>>
  BY <1>3, <1>4, ClaimFollowed DEF ClaimRetry
<1>5. CASE /\ status[e] = "FAILED" /\ Depth(d) < MAX_CUSTOMER_RETRY_DEPTH
           /\ Insert(commit[e], e, FALSE, FALSE, StartMarker) /\ ToTrigger(q, count + 1)
  <2>1. PreviousAttempts(e) \subseteq Lineage(d) /\ Lineage(d) \subseteq Ids
    BY <1>0, <1>3, AttemptsInLineage, LineageClosed DEF Types
  <2>2. /\ Cardinality(Lineage(d)) \in Nat /\ Cardinality(PreviousAttempts(e)) \in Nat
        /\ Cardinality(PreviousAttempts(e)) <= Cardinality(Lineage(d))
    BY <2>1, FiniteRows
  <2>3. Cardinality(Lineage(d)) - 1 < MAX_CUSTOMER_RETRY_DEPTH
    BY <1>5 DEF Depth
  <2>4. Cardinality(PreviousAttempts(e)) <= MAX_CUSTOMER_RETRY_DEPTH
    BY <2>2, <2>3, ControlAssumption
  <2>5. commit[e] \in Commits
    BY <1>0, <1>3 DEF Types
  <2> QED
    BY <1>2, <1>3, <1>5, <2>4, <2>5, InsertFollowed DEF ClaimRetry
<1> QED
  BY <1>2, <1>4, <1>5

\* A redeployment or a rollback inserts under the live row, or starts what is
\* in progress.
LEMMA ClaimRedeployKeeps ==
  ASSUME IInv, NEW q \in Requests, ClaimRedeploy(q) \/ ClaimRollback(q)
  PROVE  IInv'
<1>0. Types /\ Rows \subseteq Ids /\ Ids \subseteq 0..MaxDeployments
  BY TypeParts, RowsAreIds DEF IInv, RowTypes, Types, Ids
<1>1. Live # {} => LiveDeployment \in Rows /\ status[LiveDeployment] = "LIVE"
  <2> SUFFICES ASSUME Live # {} PROVE LiveDeployment \in Live
    BY DEF Live
  <2>1. Live \subseteq 0..MaxDeployments
    BY <1>0 DEF Live
  <2>2. \E d \in Live : \A e \in Live : e <= d
    BY <2>1, NewestThereIs
  <2> QED
    BY <2>2 DEF LiveDeployment
<1>2. CASE \E d \in Rows : /\ Live # {} /\ Insert(commit[d], LiveDeployment, FALSE, FALSE, StartMarker)
                           /\ ToTrigger(q, count + 1)
  <2>1. PICK c \in Commits : Insert(c, LiveDeployment, FALSE, FALSE, StartMarker)
    BY <1>0, <1>2 DEF Types
  <2> QED
    BY <1>1, <1>2, <2>1, InsertFollowed DEF ClaimRedeploy, ClaimRollback
<1>3. CASE \E d \in Rows : /\ Claim(d, StartMarker) /\ ToTrigger(q, d)
                           /\ UNCHANGED <<count, status, error, input, commit, parent>>
  BY <1>3, ClaimFollowed DEF ClaimRedeploy, ClaimRollback
<1>4. CASE ClaimRollback(q)
  BY <1>2, <1>4 DEF ClaimRollback, Live
<1>5. CASE ClaimRedeploy(q)
  BY <1>1, <1>2, <1>3, <1>5 DEF ClaimRedeploy, loadRedeploymentInProgress, InProgress
<1> QED
  BY <1>4, <1>5

\* A run is asked for, and its id comes back or does not.
LEMMA TriggerKeeps ==
  ASSUME IInv, NEW q \in Requests, TriggerStart(q) \/ TriggerResume(q)
  PROVE  IInv'
<1>0. /\ RowTypes /\ OutsideTypes /\ LocalTypes /\ dep[q] \in Ids
      /\ StartMarker \in Markers /\ q \in Markers
  BY TypeParts DEF IInv, LocalTypes, Markers
<1>1. UNCHANGED <<rows, github, dep, seen, was, push>>
  BY DEF TriggerStart, TriggerResume
<1>2. RowsFollow
  BY <1>0, <1>1, RowsStill DEF rows, RowTypes
<1>3. ClaimsFollow
  BY <1>1, ClaimsStill DEF rows
<1>4. ASSUME UNCHANGED trigger PROVE RunsFollow
  BY <1>1, <1>4, OutsideStill
<1>5. ASSUME NEW i \in RunIds, ResumeRun(i, dep[q], q)
      PROVE  RunsFollow /\ i \in RunsBegun' /\ runKey'[i] = q
  BY <1>0, <1>1, <1>5, RunBegins DEF ResumeRun
<1>6. ASSUME NEW i \in RunIds, TriggerRun(i, dep[q], StartMarker)
      PROVE  RunsFollow /\ i \in RunsBegun' /\ runKey'[i] = StartMarker
  <2>1. CASE runOf[i] = dep[q] /\ runKey[i] = StartMarker /\ UNCHANGED trigger
    <3>1. i \in RunsBegun /\ runKey'[i] = StartMarker
      BY <1>0, <2>1, ControlAssumption DEF RunsBegun, Ids, trigger
    <3> QED
      BY <1>4, <2>1, <3>1 DEF RunsFollow
  <2>2. CASE ~(runOf[i] = dep[q] /\ runKey[i] = StartMarker /\ UNCHANGED trigger)
    BY <1>0, <1>1, <1>6, <2>2, RunBegins DEF TriggerRun
  <2> QED
    BY <2>1, <2>2
<1>7. ASSUME GoTo(q, "clearStart") \/ GoTo(q, "clearResume"), run' = run
      PROVE  RequestsFollow
  <2>1. LocalTypes'
    BY <1>0, <1>1, <1>7 DEF GoTo, LocalTypes, Steps
  <2>2. pc'[q] \in Plain /\ \A r \in Requests \ {q} : Same(r)
    BY <1>0, <1>1, <1>7 DEF GoTo, LocalTypes, Same, Plain, Steps
  <2> QED
    BY <2>1, <2>2, RequestGoes
<1>8. ASSUME NEW i \in RunIds, run' = [run EXCEPT ![q] = i],
             \/ GoTo(q, "recordStart") /\ i \in RunsBegun' /\ runKey'[i] = StartMarker
             \/ GoTo(q, "recordResume") /\ i \in RunsBegun' /\ runKey'[i] = q
      PROVE  RequestsFollow
  <2>1. LocalTypes'
    BY <1>0, <1>1, <1>8 DEF GoTo, LocalTypes, Steps
  <2>2. run'[q] = i /\ \A r \in Requests \ {q} : Same(r)
    BY <1>0, <1>1, <1>8 DEF GoTo, LocalTypes, Same
  <2>3. pc'[q] = "recordStart" \/ pc'[q] = "recordResume"
    BY <1>0, <1>8 DEF GoTo, LocalTypes
  <2>4. HeldRun(q)'
    BY <1>0, <1>8, <2>2 DEF HeldRun, GoTo, LocalTypes
  <2>5. FailsWhatRuns(q)'
    BY <2>3 DEF FailsWhatRuns
  <2> QED
    BY <2>1, <2>2, <2>4, <2>5, RequestMoves
<1>9. CASE TriggerStart(q)
  <2>1. CASE Triggered(q, StartMarker, "recordStart")
    <3>1. PICK i \in RunIds : /\ TriggerRun(i, dep[q], StartMarker)
                              /\ run' = [run EXCEPT ![q] = i] /\ GoTo(q, "recordStart")
      BY <2>1 DEF Triggered
    <3> QED
      BY <1>2, <1>3, <1>6, <1>8, <3>1, StepKeeps
  <2>2. CASE TriggerThrows(q, StartMarker, "clearStart")
    <3>1. RunsFollow
      BY <1>4, <1>6, <2>2 DEF TriggerThrows
    <3>2. RequestsFollow
      BY <1>7, <2>2 DEF TriggerThrows
    <3> QED
      BY <1>2, <1>3, <3>1, <3>2, StepKeeps
  <2> QED
    BY <1>9, <2>1, <2>2 DEF TriggerStart
<1>10. CASE TriggerResume(q)
  <2>1. CASE GoTo(q, "clearResume") /\ UNCHANGED <<trigger, run>>
    <3>1. RunsFollow
      BY <1>4, <2>1
    <3>2. RequestsFollow
      BY <1>7, <2>1
    <3> QED
      BY <1>2, <1>3, <3>1, <3>2, StepKeeps
  <2>2. ASSUME NEW i \in RunIds, ResumeRun(i, dep[q], q),
               \/ run' = [run EXCEPT ![q] = i] /\ GoTo(q, "recordResume")
               \/ run' = run /\ GoTo(q, "clearResume")
        PROVE  IInv'
    <3>1. RunsFollow /\ i \in RunsBegun' /\ runKey'[i] = q
      BY <1>5, <2>2
    <3>2. RequestsFollow
      BY <1>7, <1>8, <2>2, <3>1
    <3> QED
      BY <1>2, <1>3, <3>1, <3>2, StepKeeps
  <2> QED
    BY <1>10, <2>1, <2>2 DEF TriggerResume
<1> QED
  BY <1>9, <1>10

\* The run is recorded where nobody else has claimed the row, or not.
LEMMA RecordKeeps ==
  ASSUME IInv, NEW q \in Requests, RecordStart(q) \/ RecordResume(q)
  PROVE  IInv'
<1>0. /\ RowTypes /\ ClaimTypes /\ OutsideTypes /\ LocalTypes /\ dep[q] \in Ids
      /\ RunOrClaim /\ HeldRun(q)
  BY TypeParts DEF IInv, LocalTypes, HeldRuns
<1>1. PICK d \in Ids, i \in {0} \cup RunIds : d = dep[q] /\ i = run[q]
  BY <1>0 DEF LocalTypes
<1>2. UNCHANGED <<count, status, error, input, commit, parent, claimed, github, trigger>> /\ End(q)
  BY DEF RecordStart, RecordResume
<1>3. RowsFollow
  <2>1. stale' \subseteq Ids
    BY <1>0 DEF RowTypes, RecordStart, RecordResume, Touch
  <2> QED
    BY <1>2, <2>1, RowsStill
<1>4. RunsFollow /\ RequestsFollow /\ RunsBegun' = RunsBegun /\ runKey' = runKey
  BY <1>2, OutsideStill, RequestEnds DEF trigger, RunsBegun
<1>5. ClaimsFollow
  <2>1. CASE recorded' = recorded
    BY <1>2, <2>1, ClaimsStill
  <2>2. CASE RecordStart(q) /\ recorded' # recorded
    <3>1. /\ recorded[d] \in {NoRun, StartMarker, i} /\ recorded' = [recorded EXCEPT ![d] = i]
          /\ i \in RunsBegun /\ runKey[i] = StartMarker
      BY <1>0, <1>1, <2>2 DEF RecordStart, StartMayRecord, HeldRun, At
    <3>2. CASE recorded[d] = i
      BY <1>0, <2>2, <3>1, <3>2 DEF ClaimTypes
    <3>3. CASE recorded[d] \in {NoRun, StartMarker}
      <4>1. recorded[d] \notin RunsBegun
        BY <3>3, ControlAssumption DEF RunsBegun
      <4>2. claimed[d] \in {NoRun, StartMarker}
        BY <1>0, <3>3, <4>1 DEF RunOrClaim
      <4> QED
        BY <1>2, <1>4, <3>1, <4>2, RunRecorded
    <3> QED
      BY <3>1, <3>2, <3>3
  <2>3. CASE RecordResume(q) /\ recorded' # recorded
    <3>1. /\ recorded[d] = q /\ recorded' = [recorded EXCEPT ![d] = i]
          /\ i \in RunsBegun /\ runKey[i] = q
      BY <1>0, <1>1, <2>3 DEF RecordResume, ResumeMayRecord, HeldRun, At
    <3>2. recorded[d] \notin RunsBegun
      BY <3>1, ControlAssumption DEF RunsBegun
    <3>3. claimed[d] = q
      BY <1>0, <3>1, <3>2 DEF RunOrClaim
    <3> QED
      BY <1>2, <1>4, <3>1, <3>3, RunRecorded
  <2> QED
    BY <2>1, <2>2, <2>3
<1> QED
  BY <1>3, <1>4, <1>5, StepKeeps

\* The marker is taken back where it is still there.
LEMMA ClearKeeps ==
  ASSUME IInv, NEW q \in Requests, ClearStart(q) \/ ClearResume(q)
  PROVE  IInv'
<1>0. RowTypes /\ dep[q] \in Ids /\ NoRun \in Markers
  BY TypeParts DEF IInv, LocalTypes, Markers
<1>1. /\ UNCHANGED <<count, status, error, input, commit, parent, github, trigger>>
      /\ End(q) /\ \E marker : Unclaim(dep[q], marker)
  BY DEF ClearStart, ClearResume
<1>2. RowsFollow
  <2>1. stale' \subseteq Ids
    BY <1>0, <1>1 DEF RowTypes, Unclaim, Touch
  <2> QED
    BY <1>1, <2>1, RowsStill
<1>3. ClaimsFollow
  <2>1. Rows' = Rows
    BY <1>1 DEF Rows
  <2>2. CASE UNCHANGED <<recorded, claimed>>
    BY <1>1, <2>2, ClaimsStill
  <2>3. CASE /\ recorded' = [recorded EXCEPT ![dep[q]] = NoRun]
             /\ claimed' = [claimed EXCEPT ![dep[q]] = NoRun]
    BY <1>0, <2>1, <2>3, ClaimWritten
  <2> QED
    BY <1>1, <2>2, <2>3 DEF Unclaim
<1>4. RunsFollow /\ RequestsFollow
  BY <1>1, OutsideStill, RequestEnds
<1> QED
  BY <1>2, <1>3, <1>4, StepKeeps

\* A deployment is failed for its run, if it is as it was read.
LEMMA FailKeeps == ASSUME IInv, NEW q \in Requests, markOrchestrationRunFailed(q) PROVE IInv'
<1>0. /\ RowTypes /\ Types /\ LocalTypes /\ dep[q] \in Ids
      /\ was[q] \in REDEPLOY_IN_PROGRESS_STATUSES
  BY TypeParts DEF IInv, LocalTypes, RowTypes, FailsInProgress, FailsWhatRuns,
                   markOrchestrationRunFailed, At
<1>1. PICK d \in Ids : d = dep[q]
  BY <1>0
<1>2. UNCHANGED <<count, input, commit, parent, recorded, claimed, github, trigger>>
  BY DEF markOrchestrationRunFailed
<1>3. RunsFollow /\ ClaimsFollow
  BY <1>2, OutsideStill, ClaimsStill
<1>4. CASE StillAsRead(q)
  <2>1. /\ status' = [status EXCEPT ![d] = "FAILED"] /\ error' = [error EXCEPT ![d] = TRUE]
        /\ stale' \subseteq Ids /\ End(q)
    BY <1>0, <1>1, <1>4 DEF markOrchestrationRunFailed, Touch, RowTypes
  <2>2. error' \in [Ids -> BOOLEAN] /\ input' \in [Ids -> BOOLEAN]
    BY <1>0, <1>2, <2>1 DEF RowTypes
  <2>3. status[d] \in REDEPLOY_IN_PROGRESS_STATUSES
    BY <1>0, <1>1, <1>4 DEF StillAsRead
  <2>4. RowsFollow
    BY <1>2, <2>1, <2>2, <2>3, RowsMove
  <2> QED
    BY <1>3, <2>1, <2>4, RequestEnds, StepKeeps
<1>5. CASE ~StillAsRead(q)
  <2>1. GoTo(q, "resume") /\ Forget(q) /\ UNCHANGED <<status, error, stale, dep, seen, push>>
    BY <1>5 DEF markOrchestrationRunFailed
  <2>2. RowsFollow
    BY <1>0, <1>2, <2>1, RowsStill DEF RowTypes
  <2>3. LocalTypes'
    BY <1>0, <2>1 DEF GoTo, Forget, LocalTypes, Steps, Statuses
  <2>4. pc'[q] \in Plain /\ \A r \in Requests \ {q} : Same(r)
    BY <1>0, <2>1 DEF GoTo, Forget, LocalTypes, Same, Plain, Steps
  <2> QED
    BY <1>3, <2>2, <2>3, <2>4, RequestGoes, StepKeeps
<1> QED
  BY <1>4, <1>5

LEMMA ClaimResumeKeeps == ASSUME IInv, NEW q \in Requests, ClaimResume(q) PROVE IInv'
<1>0. RowTypes /\ LocalTypes /\ dep[q] \in Ids /\ q \in Markers
  BY TypeParts DEF IInv, LocalTypes, Markers
<1>1. /\ UNCHANGED <<count, status, error, input, commit, parent, github, trigger,
                     dep, seen, run, was, push>>
      /\ Claim(dep[q], q) /\ GoTo(q, "triggerResume")
  BY DEF ClaimResume
<1>2. RowsFollow
  BY <1>0, <1>1, RowsStill DEF Claim, Touch, RowTypes
<1>3. ClaimsFollow
  <2>1. Rows' = Rows
    BY <1>1 DEF Rows
  <2> QED
    BY <1>0, <1>1, <2>1, ClaimWritten DEF Claim
<1>4. RunsFollow
  BY <1>1, OutsideStill
<1>5. RequestsFollow
  <2>1. LocalTypes'
    BY <1>0, <1>1 DEF GoTo, LocalTypes, Steps
  <2>2. pc'[q] \in Plain /\ \A r \in Requests \ {q} : Same(r)
    BY <1>0, <1>1 DEF GoTo, LocalTypes, Same, Plain, Steps
  <2> QED
    BY <2>1, <2>2, RequestGoes
<1> QED
  BY <1>2, <1>3, <1>4, <1>5, StepKeeps

\* An orchestration works on a row in progress, and time passes for it.
LEMMA OrchestrationKeeps ==
  ASSUME IInv,
         \/ \E i \in RunIds : RunAdvance(i) \/ RunBlocked(i) \/ RunBuild(i) \/ RunEnds(i)
         \/ \E d \in Ids : FiveMinutesPass(d)
  PROVE  IInv'
<1>0. RowTypes /\ Types /\ OutsideTypes /\ InProgress \subseteq Ids
  BY TypeParts, RowsAreIds DEF IInv, RowTypes, Types, InProgress
<1>1. UNCHANGED <<count, commit, parent, recorded, claimed, github, runOf, runKey, locals>>
  BY DEF RunAdvance, RunBlocked, RunBuild, RunEnds, FiveMinutesPass, rows, trigger
<1>2. ClaimsFollow /\ RequestsFollow
  BY <1>1, ClaimsStill, RequestsStill
<1>3. RunsFollow
  <2>1. \/ runState' = runState
        \/ \E i \in RunIds, s \in {"completed", "failed"} : runState' = [runState EXCEPT ![i] = s]
    BY DEF RunAdvance, RunBlocked, RunBuild, RunEnds, FiveMinutesPass, Finish, trigger
  <2>2. runState' \in [RunIds -> {"none", "running", "completed", "failed"}]
    BY <1>0, <2>1 DEF OutsideTypes
  <2> QED
    BY <1>0, <1>1, <2>2, RunsStill DEF OutsideTypes, github
<1>4. RowsFollow
  <2>1. ASSUME NEW i \in RunIds, RunAdvance(i) \/ RunBuild(i)
        PROVE  RowsFollow
    <3>1. PICK d \in InProgress, s \in {"BUILDING", "LIVE", "FAILED"} :
            status' = [status EXCEPT ![d] = s] /\ Touch(d)
      BY <2>1 DEF RunAdvance, RunBuild
    <3>2. /\ error' \in [Ids -> BOOLEAN] /\ input' \in [Ids -> BOOLEAN] /\ stale' \subseteq Ids
      BY <1>0, <2>1, <3>1 DEF RunAdvance, RunBuild, RowTypes, Touch
    <3>3. d \in Ids /\ status[d] \in REDEPLOY_IN_PROGRESS_STATUSES
      BY <1>0 DEF InProgress
    <3> QED
      BY <1>1, <3>1, <3>2, <3>3, RowsMove
  <2>2. ASSUME NEW i \in RunIds, RunBlocked(i)
        PROVE  RowsFollow
    <3>1. PICK d \in InProgress : /\ input' = [input EXCEPT ![d] = TRUE]
                                  /\ error' = [error EXCEPT ![d] = TRUE]
                                  /\ Touch(d) /\ status[d] = "ANALYZING" /\ status' = status
      BY <2>2 DEF RunBlocked
    <3>2. /\ error' \in [Ids -> BOOLEAN] /\ input' \in [Ids -> BOOLEAN] /\ stale' \subseteq Ids
      BY <1>0, <3>1 DEF RowTypes, Touch
    <3>3. d \in Ids /\ status[d] \in REDEPLOY_IN_PROGRESS_STATUSES
      BY <1>0 DEF InProgress
    <3>4. status' = [status EXCEPT ![d] = "ANALYZING"]
      BY <1>0, <3>1 DEF Types
    <3> QED
      BY <1>1, <3>2, <3>3, <3>4, RowsMove
  <2>3. ASSUME NEW i \in RunIds, RunEnds(i)
        PROVE  RowsFollow
    BY <1>0, <2>3, RowsStill DEF RunEnds, rows, RowTypes
  <2>4. ASSUME NEW d \in Ids, FiveMinutesPass(d)
        PROVE  RowsFollow
    BY <1>0, <2>4, RowsStill DEF FiveMinutesPass, RowTypes
  <2> QED
    BY <2>1, <2>2, <2>3, <2>4
<1> QED
  BY <1>2, <1>3, <1>4, StepKeeps

LEMMA StutterKeeps == ASSUME IInv, UNCHANGED vars PROVE IInv'
<1>0. RowTypes
  BY TypeParts DEF IInv
<1>1. RowsFollow
  BY <1>0, RowsStill DEF RowTypes, vars, rows
<1>2. ClaimsFollow /\ RunsFollow /\ RequestsFollow
  BY ClaimsStill, OutsideStill, RequestsStill DEF vars, rows
<1> QED
  BY <1>1, <1>2, StepKeeps

-----------------------------------------------------------------------------

LEMMA Inductive == IInv /\ [Next]_vars => IInv'
<1> SUFFICES ASSUME IInv, [Next]_vars PROVE IInv'
  OBVIOUS
<1>1. CASE UNCHANGED vars
  BY <1>1, StutterKeeps
<1>2. CASE \/ Push
           \/ \E q \in Requests, c \in Commits : ReceivePush(q, c)
           \/ \E q \in Requests : \/ PushClear(q) \/ InspectSource(q) \/ AnalyseKnown(q)
                                  \/ ReadForResume(q) \/ AskRun(q) \/ Drop(q)
  BY <1>2, ReadsKeep
<1>3. ASSUME NEW q \in Requests,
             \/ AnalyseNew(q) \/ ClaimStart(q) \/ ClaimRetry(q) \/ ClaimRedeploy(q)
             \/ ClaimRollback(q)
      PROVE  IInv'
  BY <1>3, AnalyseNewKeeps, ClaimStartKeeps, ClaimRetryKeeps, ClaimRedeployKeeps
<1>4. ASSUME NEW q \in Requests,
             \/ TriggerStart(q) \/ TriggerResume(q) \/ RecordStart(q) \/ RecordResume(q)
             \/ ClearStart(q) \/ ClearResume(q)
      PROVE  IInv'
  BY <1>4, TriggerKeeps, RecordKeeps, ClearKeeps
<1>5. ASSUME NEW q \in Requests, markOrchestrationRunFailed(q) \/ ClaimResume(q)
      PROVE  IInv'
  BY <1>5, FailKeeps, ClaimResumeKeeps
<1>6. CASE \/ \E i \in RunIds : RunAdvance(i) \/ RunBlocked(i) \/ RunBuild(i) \/ RunEnds(i)
           \/ \E d \in Ids : FiveMinutesPass(d)
  BY <1>6, OrchestrationKeeps
<1> QED
  BY <1>1, <1>2, <1>3, <1>4, <1>5, <1>6 DEF Next

LEMMA Invariant == Spec => []IInv
BY InitIInv, Inductive, PTL DEF Spec

\* The rows of an app, the claims on them, what GitHub and Trigger.dev know and
\* what each request holds keep their types, whatever requests are killed
\* between two statements (customer-deployments.mjs, github-push-deploy.mjs).
THEOREM TypeCorrect == Spec => []TypeOK
<1>1. IInv => TypeOK
  BY DEF IInv
<1> QED
  BY <1>1, Invariant, PTL

\* The orchestrator_run_id of a deployment is never the run of a claim that a
\* later one has replaced, however late the answer of Trigger.dev comes
\* (customer-deployments.mjs 882-892, 917-924, 1102-1109).
THEOREM RunOnRecordIsOfLastClaim == Spec => []RecordedRunIsLastClaim
<1>1. IInv => RecordedRunIsLastClaim
  BY DEF IInv
<1> QED
  BY <1>1, Invariant, PTL

\* A failed source is retried in one chain of one commit and as often as the
\* limit allows, for every limit and however many retries, redeployments and
\* pushes race (customer-deployments.mjs 335-435, 1191-1240).
THEOREM RetriesWithinLimit == Spec => []RetryLineageSound
<1>1. IInv => RetryLineageSound
  BY DEF IInv
<1> QED
  BY <1>1, Invariant, PTL

\* No request and no late orchestration takes a deployment out of LIVE or
\* FAILED, above all no report that an earlier run of it failed
\* (customer-deployments.mjs 716-757).
THEOREM EndsAreFinal == Spec => TerminalStays
<1>1. IInv /\ [Next]_vars =>
        [\A d \in Ids : status[d] \in {"LIVE", "FAILED"} => status'[d] = status[d]]_vars
  <2> SUFFICES ASSUME IInv, Next, NEW d \in Ids, status[d] \in {"LIVE", "FAILED"}
               PROVE  status'[d] = status[d]
    OBVIOUS
  <2>0. RowTypes /\ Types /\ Unborn
    BY TypeParts DEF IInv, RowTypes
  <2>1. \A c, from, prepared, refused, marker :
          Insert(c, from, prepared, refused, marker) => status'[d] = status[d]
    <3>1. count + 1 \notin Rows
      BY <2>0, RowsAreIds DEF Types, Rows
    <3>2. d \in Rows
      BY <2>0 DEF Unborn
    <3> QED
      BY <2>0, <3>1, <3>2 DEF Insert, Types
  <2>2. ASSUME NEW e \in Ids, NEW s, status[e] \in REDEPLOY_IN_PROGRESS_STATUSES,
               status' = [status EXCEPT ![e] = s]
        PROVE  status'[d] = status[d]
    BY <2>0, <2>2 DEF Types, REDEPLOY_IN_PROGRESS_STATUSES
  <2>3. ASSUME NEW q \in Requests, markOrchestrationRunFailed(q)
        PROVE  status'[d] = status[d]
    <3>1. was[q] \in REDEPLOY_IN_PROGRESS_STATUSES /\ dep[q] \in Ids
      BY <2>3, TypeParts DEF IInv, LocalTypes, FailsInProgress, FailsWhatRuns,
                             markOrchestrationRunFailed, At
    <3> QED
      BY <2>2, <2>3, <3>1 DEF markOrchestrationRunFailed, StillAsRead
  <2>4. ASSUME NEW i \in RunIds, RunAdvance(i) \/ RunBlocked(i) \/ RunBuild(i) \/ RunEnds(i)
        PROVE  status'[d] = status[d]
    <3>1. InProgress \subseteq Ids
      BY <2>0, RowsAreIds DEF InProgress, Types
    <3> QED
      BY <2>2, <2>4, <3>1 DEF RunAdvance, RunBlocked, RunBuild, RunEnds, InProgress, rows
  <2>5. ASSUME NEW q \in Requests,
               \/ AnalyseNew(q) \/ ClaimStart(q) \/ ClaimRetry(q) \/ ClaimRedeploy(q)
               \/ ClaimRollback(q)
        PROVE  status'[d] = status[d]
    BY <2>1, <2>5 DEF AnalyseNew, ClaimStart, ClaimRetry, ClaimRedeploy, ClaimRollback
  <2>6. ASSUME NEW q \in Requests,
               \/ TriggerStart(q) \/ TriggerResume(q) \/ RecordStart(q) \/ RecordResume(q)
               \/ ClearStart(q) \/ ClearResume(q) \/ ClaimResume(q)
        PROVE  status'[d] = status[d]
    BY <2>6 DEF TriggerStart, TriggerResume, RecordStart, RecordResume, ClearStart, ClearResume,
                ClaimResume, rows
  <2>7. ASSUME \/ Push
               \/ \E q \in Requests, c \in Commits : ReceivePush(q, c)
               \/ \E q \in Requests : \/ PushClear(q) \/ InspectSource(q) \/ AnalyseKnown(q)
                                      \/ ReadForResume(q) \/ AskRun(q) \/ Drop(q)
               \/ \E e \in Ids : FiveMinutesPass(e)
        PROVE  status'[d] = status[d]
    BY <2>7 DEF Push, ReceivePush, PushClear, InspectSource, AnalyseKnown, ReadForResume, AskRun,
                Drop, FiveMinutesPass, rows
  <2> QED
    BY <2>3, <2>4, <2>5, <2>6, <2>7 DEF Next
<1> QED
  BY <1>1, Invariant, PTL DEF Spec, TerminalStays

=============================================================================
