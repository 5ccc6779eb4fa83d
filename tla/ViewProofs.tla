----------------------------- MODULE ViewProofs -----------------------------
(***************************************************************************)
(* Theorems about what people are shown of a site or an app: the public    *)
(* check of a site (AppCheck), the panel of an app in a browser (AppPage)  *)
(* and the report of a deployment (DeploymentReports).                     *)
(***************************************************************************)
EXTENDS AppCheck, AppPage, DeploymentReports, FiniteSetTheorems, WellFoundedInduction, TLAPS

(***************************************************************************)
(* The public check, for any number of visits, visitors and hours, any     *)
(* limits and any set of sites.                                            *)
(*                                                                         *)
(* Allowance: a visit bumps two counters in two statements, so an hour is  *)
(* not simply the number of visits let through in it; AllowanceInv says    *)
(* that whoever is past a counter is counted there, under the hour it      *)
(* began in, and got a number within the limit.                            *)
(*                                                                         *)
(* Report: ScanInv says that each finding belongs to the complete report   *)
(* (AllSo) and, stage by stage, that of each subject nothing is said       *)
(* before its stage and never two things after it (OneThing). That nothing *)
(* is missing after an unhurt scan is WholeInv: InBudget bounds the        *)
(* requests by the stage that is reached, so that none of those still      *)
(* needed is given up, and Whole collects what each stage has to leave.    *)
(***************************************************************************)

Keys == {Visitor[v] : v \in Visits} \cup {"global"}

\* The visits that an hour let through, of a visitor and of all.
SpentOf(key, h) ==
  {v \in Visits : visits[v].at \in {"all", "allowed"} /\ visits[v].hour = h /\ Visitor[v] = key}

AllowedIn(h) == {v \in Visits : visits[v].at = "allowed" /\ visits[v].hour = h}

AllowanceTypes ==
  /\ hour \in 1 .. MaxHours
  /\ counts \in [Keys -> [1 .. MaxHours -> Nat]]
  /\ visits \in [Visits -> [at : {"new", "mine", "all", "allowed", "refused"}, hour : 0 .. MaxHours]]
  /\ \A v \in Visits : visits[v].at # "new" => visits[v].hour \in 1 .. MaxHours

\* Whoever was let through is counted, and came before the limit.
AllowedAreCounted ==
  \A h \in 1 .. MaxHours :
    /\ Cardinality(AllowedIn(h)) <= counts["global"][h]
    /\ Cardinality(AllowedIn(h)) <= GLOBAL_PER_HOUR
    /\ \A key \in Keys :
         /\ Cardinality(SpentOf(key, h)) <= counts[key][h]
         /\ Cardinality(SpentOf(key, h)) <= PER_VISITOR_PER_HOUR

AllowanceInv == AllowanceTypes /\ AllowedAreCounted

\* A part of a finite set has no more members than it.
LEMMA NoMore ==
  ASSUME NEW S, NEW T, IsFiniteSet(S), T \subseteq S
  PROVE  Cardinality(T) \in Nat /\ Cardinality(S) \in Nat /\ Cardinality(T) <= Cardinality(S)
BY FS_Subset, FS_CardinalityType

\* A set that is as small as its count, and within a limit, stays so when it
\* gains no member, and when the count that grows with it is within the limit.
LEMMA StillWithin ==
  ASSUME NEW S, NEW T, NEW e, NEW n \in Nat, NEW m \in Nat, NEW limit \in Nat, IsFiniteSet(S),
         Cardinality(S) <= n, Cardinality(S) <= limit, n <= m,
         T \subseteq S \/ (T \subseteq S \cup {e} /\ m = n + 1 /\ m <= limit)
  PROVE  Cardinality(T) <= m /\ Cardinality(T) <= limit
<1>1. CASE T \subseteq S
  BY <1>1, NoMore
<1>2. CASE T \subseteq S \cup {e} /\ m = n + 1 /\ m <= limit
  <2>1. /\ IsFiniteSet(S \cup {e})
        /\ Cardinality(S \cup {e}) = IF e \in S THEN Cardinality(S) ELSE Cardinality(S) + 1
    BY FS_AddElement
  <2>2. Cardinality(T) \in Nat /\ Cardinality(S \cup {e}) \in Nat /\ Cardinality(T) <= Cardinality(S \cup {e})
    BY <1>2, <2>1, NoMore
  <2>3. Cardinality(S) \in Nat
    BY FS_CardinalityType
  <2> QED BY <1>2, <2>1, <2>2, <2>3
<1> QED BY <1>1, <1>2

LEMMA SpentFinite == \A h, key : IsFiniteSet(AllowedIn(h)) /\ IsFiniteSet(SpentOf(key, h))
<1> SUFFICES ASSUME NEW h, NEW key
             PROVE  IsFiniteSet(AllowedIn(h)) /\ IsFiniteSet(SpentOf(key, h))
  OBVIOUS
<1>1. AllowedIn(h) \subseteq Visits /\ SpentOf(key, h) \subseteq Visits
  BY DEF AllowedIn, SpentOf
<1> QED BY <1>1, FS_Subset, AllowanceAssumption

LEMMA InitAllowance == CheckInit => AllowanceInv
<1> SUFFICES ASSUME CheckInit PROVE AllowanceInv
  OBVIOUS
<1> USE AllowanceAssumption DEF CheckInit
<1>1. AllowanceTypes
  BY DEF AllowanceTypes, Keys
<1>2. \A h, key : AllowedIn(h) = {} /\ SpentOf(key, h) = {}
  BY DEF AllowedIn, SpentOf
<1>3. AllowedAreCounted
  <2> SUFFICES ASSUME NEW h \in 1 .. MaxHours, NEW key \in Keys
               PROVE  /\ Cardinality({}) <= counts["global"][h] /\ Cardinality({}) <= GLOBAL_PER_HOUR
                      /\ Cardinality({}) <= counts[key][h] /\ Cardinality({}) <= PER_VISITOR_PER_HOUR
    BY <1>2 DEF AllowedAreCounted, Keys
  <2>1. counts["global"][h] = 0 /\ counts[key][h] = 0
    BY DEF Keys
  <2> QED BY <2>1, FS_EmptySet
<1> QED BY <1>1, <1>3 DEF AllowanceInv

\* A bump of a key's hour counts one visit more there and none elsewhere.
Bumped(key, g, k, h) ==
  /\ counts[k][h] \in Nat /\ counts'[k][h] \in Nat
  /\ counts'[k][h] = IF k = key /\ h = g THEN counts[k][h] + 1 ELSE counts[k][h]

LEMMA BumpCounts ==
  ASSUME AllowanceTypes, NEW key \in Keys, NEW g \in 1 .. MaxHours, bump(key, g)
  PROVE  /\ counts' \in [Keys -> [1 .. MaxHours -> Nat]]
         /\ \A k \in Keys, h \in 1 .. MaxHours : Bumped(key, g, k, h)
<1> DEFINE hours == [counts[key] EXCEPT ![g] = counts[key][g] + 1]
<1>1. \A k \in Keys : counts[k] \in [1 .. MaxHours -> Nat]
  BY DEF AllowanceTypes
<1>2. counts[key] \in [1 .. MaxHours -> Nat] /\ counts[key][g] + 1 \in Nat
  <2>1. counts[key] \in [1 .. MaxHours -> Nat]
    BY <1>1
  <2>2. counts[key][g] \in Nat
    BY <2>1
  <2> QED BY <2>1, <2>2
<1>3. hours \in [1 .. MaxHours -> Nat]
  BY <1>2
<1>4. counts' = [counts EXCEPT ![key] = hours]
  BY DEF bump
<1>5. /\ counts' \in [Keys -> [1 .. MaxHours -> Nat]]
      /\ \A k \in Keys : counts'[k] = IF k = key THEN hours ELSE counts[k]
  <2> HIDE DEF hours
  <2> QED BY <1>3, <1>4 DEF AllowanceTypes
<1>6. ASSUME NEW k \in Keys, NEW h \in 1 .. MaxHours
      PROVE  Bumped(key, g, k, h)
  <2>1. counts[k][h] \in Nat
    BY <1>1
  <2>2. CASE k = key
    <3>1. counts'[k][h] = IF h = g THEN counts[k][h] + 1 ELSE counts[k][h]
      BY <1>2, <1>5, <2>2
    <3> QED BY <2>1, <2>2, <3>1 DEF Bumped
  <2>3. CASE k # key
    BY <1>5, <2>1, <2>3 DEF Bumped
  <2> QED BY <2>2, <2>3
<1> QED BY <1>5, <1>6

\* A visit is counted for its visitor, and goes on only within the limit.
LEMMA CountedForVisitor ==
  ASSUME AllowanceInv, NEW v \in Visits, visits[v].at = "mine", consumeCheckAllowance(v)
  PROVE  AllowanceInv'
<1> DEFINE g == visits[v].hour
           key == Visitor[v]
           Over == counts'[key][g] > PER_VISITOR_PER_HOUR
<1> USE AllowanceAssumption
<1>1. key \in Keys /\ g \in 1 .. MaxHours /\ AllowanceTypes /\ AllowedAreCounted
  BY DEF AllowanceInv, AllowanceTypes, Keys
<1>2. bump(key, g) /\ hour' = hour
  BY DEF consumeCheckAllowance
<1>3. visits' = [visits EXCEPT ![v].at = IF Over THEN "refused" ELSE "all"]
  BY DEF consumeCheckAllowance
<1>4. \A w \in Visits :
        /\ visits'[w].hour = visits[w].hour
        /\ visits'[w].at = IF w # v THEN visits[w].at ELSE IF Over THEN "refused" ELSE "all"
  BY <1>1, <1>3 DEF AllowanceTypes
<1>5. counts' \in [Keys -> [1 .. MaxHours -> Nat]] /\ \A k \in Keys, h \in 1 .. MaxHours : Bumped(key, g, k, h)
  <2> HIDE DEF g, key
  <2> QED BY <1>1, <1>2, BumpCounts
<1>6. AllowanceTypes'
  BY <1>1, <1>2, <1>3, <1>5 DEF AllowanceTypes
<1>7. ASSUME NEW h \in 1 .. MaxHours
      PROVE  Cardinality(AllowedIn(h)') <= counts'["global"][h] /\ Cardinality(AllowedIn(h)') <= GLOBAL_PER_HOUR
  <2>1. Cardinality(AllowedIn(h)) <= counts["global"][h] /\ Cardinality(AllowedIn(h)) <= GLOBAL_PER_HOUR
    BY <1>1 DEF AllowedAreCounted
  <2>2. "global" \in Keys /\ Bumped(key, g, "global", h)
    BY <1>5 DEF Keys
  <2>3. AllowedIn(h)' \subseteq AllowedIn(h)
    BY <1>4 DEF AllowedIn
  <2> DEFINE S == AllowedIn(h)
             T == AllowedIn(h)'
             n == counts["global"][h]
             m == counts'["global"][h]
  <2>4. n \in Nat /\ m \in Nat /\ n <= m /\ IsFiniteSet(S) /\ GLOBAL_PER_HOUR \in Nat
    BY <2>2, SpentFinite DEF Bumped
  <2>5. Cardinality(S) <= n /\ Cardinality(S) <= GLOBAL_PER_HOUR
    BY <2>1
  <2>6. T \subseteq S \/ (T \subseteq S \cup {v} /\ m = n + 1 /\ m <= GLOBAL_PER_HOUR)
    BY <2>3
  <2>7. Cardinality(T) <= m /\ Cardinality(T) <= GLOBAL_PER_HOUR
    <3> HIDE DEF S, T, n, m
    <3> QED BY <2>4, <2>5, <2>6, StillWithin
  <2> QED BY <2>7
<1>8. ASSUME NEW h \in 1 .. MaxHours, NEW k \in Keys
      PROVE  Cardinality(SpentOf(k, h)') <= counts'[k][h] /\ Cardinality(SpentOf(k, h)') <= PER_VISITOR_PER_HOUR
  <2>1. Cardinality(SpentOf(k, h)) <= counts[k][h] /\ Cardinality(SpentOf(k, h)) <= PER_VISITOR_PER_HOUR
    BY <1>1 DEF AllowedAreCounted
  <2>2. Bumped(key, g, k, h)
    BY <1>5
  <2>3. \/ SpentOf(k, h)' \subseteq SpentOf(k, h)
        \/ /\ SpentOf(k, h)' \subseteq SpentOf(k, h) \cup {v}
           /\ counts'[k][h] = counts[k][h] + 1 /\ counts'[k][h] <= PER_VISITOR_PER_HOUR
    <3>1. CASE k = key /\ h = g /\ ~Over
      BY <1>4, <2>2, <3>1 DEF SpentOf, Bumped
    <3>2. CASE ~(k = key /\ h = g /\ ~Over)
      BY <1>4, <3>2 DEF SpentOf
    <3> QED BY <3>1, <3>2
  <2> DEFINE S == SpentOf(k, h)
             T == SpentOf(k, h)'
             n == counts[k][h]
             m == counts'[k][h]
  <2>4. n \in Nat /\ m \in Nat /\ n <= m /\ IsFiniteSet(S) /\ PER_VISITOR_PER_HOUR \in Nat
    BY <2>2, SpentFinite DEF Bumped
  <2>5. Cardinality(S) <= n /\ Cardinality(S) <= PER_VISITOR_PER_HOUR
    BY <2>1
  <2>6. T \subseteq S \/ (T \subseteq S \cup {v} /\ m = n + 1 /\ m <= PER_VISITOR_PER_HOUR)
    BY <2>3
  <2>7. Cardinality(T) <= m /\ Cardinality(T) <= PER_VISITOR_PER_HOUR
    <3> HIDE DEF S, T, n, m
    <3> QED BY <2>4, <2>5, <2>6, StillWithin
  <2> QED BY <2>7
<1> QED BY <1>6, <1>7, <1>8 DEF AllowanceInv, AllowedAreCounted

\* Then it is counted for everyone, and may still be refused.
LEMMA CountedForAll ==
  ASSUME AllowanceInv, NEW v \in Visits, visits[v].at = "all", consumeCheckAllowance(v)
  PROVE  AllowanceInv'
<1> DEFINE g == visits[v].hour
           key == "global"
           Over == counts'[key][g] > GLOBAL_PER_HOUR
<1> USE AllowanceAssumption
<1>1. key \in Keys /\ g \in 1 .. MaxHours /\ AllowanceTypes /\ AllowedAreCounted
  BY DEF AllowanceInv, AllowanceTypes, Keys
<1>2. bump(key, g) /\ hour' = hour
  BY DEF consumeCheckAllowance
<1>3. visits' = [visits EXCEPT ![v].at = IF Over THEN "refused" ELSE "allowed"]
  BY DEF consumeCheckAllowance
<1>4. \A w \in Visits :
        /\ visits'[w].hour = visits[w].hour
        /\ visits'[w].at = IF w # v THEN visits[w].at ELSE IF Over THEN "refused" ELSE "allowed"
  BY <1>1, <1>3 DEF AllowanceTypes
<1>5. counts' \in [Keys -> [1 .. MaxHours -> Nat]] /\ \A k \in Keys, h \in 1 .. MaxHours : Bumped(key, g, k, h)
  <2> HIDE DEF g, key
  <2> QED BY <1>1, <1>2, BumpCounts
<1>6. AllowanceTypes'
  BY <1>1, <1>2, <1>3, <1>5 DEF AllowanceTypes
<1>7. ASSUME NEW h \in 1 .. MaxHours
      PROVE  Cardinality(AllowedIn(h)') <= counts'["global"][h] /\ Cardinality(AllowedIn(h)') <= GLOBAL_PER_HOUR
  <2>1. Cardinality(AllowedIn(h)) <= counts["global"][h] /\ Cardinality(AllowedIn(h)) <= GLOBAL_PER_HOUR
    BY <1>1 DEF AllowedAreCounted
  <2>2. "global" \in Keys /\ Bumped(key, g, "global", h)
    BY <1>5 DEF Keys
  <2>3. \/ AllowedIn(h)' \subseteq AllowedIn(h)
        \/ /\ AllowedIn(h)' \subseteq AllowedIn(h) \cup {v}
           /\ counts'["global"][h] = counts["global"][h] + 1 /\ counts'["global"][h] <= GLOBAL_PER_HOUR
    <3>1. CASE h = g /\ ~Over
      BY <1>4, <2>2, <3>1 DEF AllowedIn, Bumped
    <3>2. CASE ~(h = g /\ ~Over)
      BY <1>4, <3>2 DEF AllowedIn
    <3> QED BY <3>1, <3>2
  <2> DEFINE S == AllowedIn(h)
             T == AllowedIn(h)'
             n == counts["global"][h]
             m == counts'["global"][h]
  <2>4. n \in Nat /\ m \in Nat /\ n <= m /\ IsFiniteSet(S) /\ GLOBAL_PER_HOUR \in Nat
    BY <2>2, SpentFinite DEF Bumped
  <2>5. Cardinality(S) <= n /\ Cardinality(S) <= GLOBAL_PER_HOUR
    BY <2>1
  <2>6. T \subseteq S \/ (T \subseteq S \cup {v} /\ m = n + 1 /\ m <= GLOBAL_PER_HOUR)
    BY <2>3
  <2>7. Cardinality(T) <= m /\ Cardinality(T) <= GLOBAL_PER_HOUR
    <3> HIDE DEF S, T, n, m
    <3> QED BY <2>4, <2>5, <2>6, StillWithin
  <2> QED BY <2>7
<1>8. ASSUME NEW h \in 1 .. MaxHours, NEW k \in Keys
      PROVE  Cardinality(SpentOf(k, h)') <= counts'[k][h] /\ Cardinality(SpentOf(k, h)') <= PER_VISITOR_PER_HOUR
  <2>1. Cardinality(SpentOf(k, h)) <= counts[k][h] /\ Cardinality(SpentOf(k, h)) <= PER_VISITOR_PER_HOUR
    BY <1>1 DEF AllowedAreCounted
  <2>2. Bumped(key, g, k, h)
    BY <1>5
  <2>3. SpentOf(k, h)' \subseteq SpentOf(k, h)
    BY <1>4 DEF SpentOf
  <2> DEFINE S == SpentOf(k, h)
             T == SpentOf(k, h)'
             n == counts[k][h]
             m == counts'[k][h]
  <2>4. n \in Nat /\ m \in Nat /\ n <= m /\ IsFiniteSet(S) /\ PER_VISITOR_PER_HOUR \in Nat
    BY <2>2, SpentFinite DEF Bumped
  <2>5. Cardinality(S) <= n /\ Cardinality(S) <= PER_VISITOR_PER_HOUR
    BY <2>1
  <2>6. T \subseteq S \/ (T \subseteq S \cup {v} /\ m = n + 1 /\ m <= PER_VISITOR_PER_HOUR)
    BY <2>3
  <2>7. Cardinality(T) <= m /\ Cardinality(T) <= PER_VISITOR_PER_HOUR
    <3> HIDE DEF S, T, n, m
    <3> QED BY <2>4, <2>5, <2>6, StillWithin
  <2> QED BY <2>7
<1> QED BY <1>6, <1>7, <1>8 DEF AllowanceInv, AllowedAreCounted

\* A visit that begins is in nobody's count, and a scan spends nothing.
LEMMA AllowanceElsewhere ==
  ASSUME AllowanceInv, counts' = counts,
         \/ visits' = visits /\ hour' \in {hour, hour + 1} /\ hour' <= MaxHours
         \/ \E v \in Visits : hourWindow(v)
  PROVE  AllowanceInv'
<1> USE AllowanceAssumption
<1>1. AllowanceTypes /\ AllowedAreCounted
  BY DEF AllowanceInv
<1>2. AllowanceTypes'
  <2>1. CASE visits' = visits /\ hour' \in {hour, hour + 1} /\ hour' <= MaxHours
    BY <1>1, <2>1 DEF AllowanceTypes
  <2>2. ASSUME NEW v \in Visits, hourWindow(v) PROVE AllowanceTypes'
    BY <1>1, <2>2 DEF AllowanceTypes, hourWindow
  <2> QED BY <2>1, <2>2
<1>3. ASSUME NEW h \in 1 .. MaxHours, NEW k
      PROVE  AllowedIn(h)' = AllowedIn(h) /\ SpentOf(k, h)' = SpentOf(k, h)
  <2>1. \A w \in Visits : visits'[w] = visits[w] \/ (visits'[w].at = "mine" /\ visits[w].at = "new")
    BY <1>1 DEF AllowanceTypes, hourWindow
  <2> QED BY <2>1 DEF AllowedIn, SpentOf
<1> QED BY <1>1, <1>2, <1>3 DEF AllowanceInv, AllowedAreCounted

LEMMA NextAllowance == AllowanceInv /\ [CheckNext]_checkVars => AllowanceInv'
<1> SUFFICES ASSUME AllowanceInv, [CheckNext]_checkVars PROVE AllowanceInv'
  OBVIOUS
<1> USE AllowanceAssumption
<1>1. CASE UNCHANGED allowances
  <2>1. hour' \in {hour, hour + 1} /\ hour' <= MaxHours
    BY <1>1 DEF allowances, AllowanceInv, AllowanceTypes
  <2> QED BY <1>1, <2>1, AllowanceElsewhere DEF allowances
<1>2. CASE HourPasses
  <2>1. hour' \in {hour, hour + 1} /\ hour' <= MaxHours
    BY <1>2 DEF HourPasses, AllowanceInv, AllowanceTypes
  <2> QED BY <1>2, <2>1, AllowanceElsewhere DEF HourPasses
<1>3. ASSUME NEW v \in Visits, hourWindow(v) PROVE AllowanceInv'
  BY <1>3, AllowanceElsewhere DEF hourWindow
<1>4. ASSUME NEW v \in Visits, consumeCheckAllowance(v) PROVE AllowanceInv'
  <2>1. visits[v].at \in {"mine", "all"}
    BY <1>4 DEF consumeCheckAllowance
  <2> QED BY <1>4, <2>1, CountedForVisitor, CountedForAll
<1>5. CheckNext =>
        \/ UNCHANGED allowances
        \/ HourPasses
        \/ \E v \in Visits : hourWindow(v) \/ consumeCheckAllowance(v)
  BY DEF CheckNext, RunAppCheck, DeadlinePasses, Redirected, FetchPage, FetchInsecure, FetchScript, FetchProbe,
         checkSupabaseBackend, fetch, scanTextForSecrets, checkHeaders, resolveHost, Finish
<1> QED BY <1>1, <1>2, <1>3, <1>4, <1>5 DEF checkVars

\* However many visitors come at once and whatever hour it has become, an
\* hour lets no more checks through than its limits say (consumeCheckAllowance).
THEOREM AllowanceIsKept == CheckSpec => []AllowanceKept
<1>1. AllowanceInv => AllowanceKept
  <2> SUFFICES ASSUME AllowanceInv, NEW h \in 1 .. MaxHours
               PROVE  /\ Cardinality(AllowedIn(h)) <= GLOBAL_PER_HOUR
                      /\ \A key \in DOMAIN counts :
                           Cardinality({v \in AllowedIn(h) : Visitor[v] = key}) <= PER_VISITOR_PER_HOUR
    BY DEF AllowanceKept, AllowedIn
  <2>1. DOMAIN counts = Keys /\ AllowedAreCounted
    BY DEF AllowanceInv, AllowanceTypes
  <2>2. ASSUME NEW key \in Keys
        PROVE  Cardinality({v \in AllowedIn(h) : Visitor[v] = key}) <= PER_VISITOR_PER_HOUR
    <3>1. {v \in AllowedIn(h) : Visitor[v] = key} \subseteq SpentOf(key, h)
      BY DEF AllowedIn, SpentOf
    <3>2. /\ Cardinality({v \in AllowedIn(h) : Visitor[v] = key}) <= Cardinality(SpentOf(key, h))
          /\ Cardinality(SpentOf(key, h)) \in Nat
          /\ Cardinality({v \in AllowedIn(h) : Visitor[v] = key}) \in Nat
      BY <3>1, NoMore, SpentFinite
    <3>3. Cardinality(SpentOf(key, h)) <= PER_VISITOR_PER_HOUR
      BY <2>1 DEF AllowedAreCounted
    <3> QED BY <3>2, <3>3, AllowanceAssumption
  <2> QED BY <2>1, <2>2 DEF AllowedAreCounted
<1> QED BY <1>1, InitAllowance, NextAllowance, PTL DEF CheckSpec

-----------------------------------------------------------------------------
(* The report.                                                             *)

Secrets == DOMAIN SECRET_PATTERNS \cup {"supabase-service-role"}

\* The ids of all that can be wrong with a site.
FindingIds == Secrets \cup HEADER_CHECKS \cup
       {"header-csp-scripts", "no-https", "http-not-redirected", "env-exposed", "git-exposed", "supabase-backend-down"}

Tells(ids) == \E f \in findings : f.id \in ids

ScanTypes ==
  /\ site \in SiteRecords /\ turn \in Nat
  /\ texts \subseteq site.texts

\* What is found is in the complete report, but for the notice about Supabase.
AllSo ==
  /\ findings \subseteq Trouble \cup {Unseen}
  /\ Unseen \in findings => stage = "done"

\* One thing at a time: before its stage nothing is said of it, and then
\* that it is well or that it is not.
OneOfSecrets ==
  /\ stage \in {"idle", "page", "http", "scripts"} => "no-secrets" \notin passed /\ ~Tells(Secrets)
  /\ ~("no-secrets" \in passed /\ Tells(Secrets))

OneOfFiles ==
  /\ stage \in {"idle", "page", "http", "scripts", "probes"} => "no-public-files" \notin passed
  /\ ~("no-public-files" \in passed /\ Tells({"env-exposed", "git-exposed"}))

OneOfHttp ==
  /\ stage = "http" => site.https
  /\ stage \in {"idle", "page", "http"} =>
       "http-redirected" \notin passed /\ ~Tells({"no-https", "http-not-redirected"})
  /\ ~("http-redirected" \in passed /\ Tells({"no-https", "http-not-redirected"}))

OneOfBackend ==
  /\ stage \in {"idle", "page", "http", "scripts", "probes"} \/ (stage = "backend" /\ turn = 0) =>
       "backend-answers" \notin passed /\ ~Tells({"supabase-backend-down"})
  /\ Len(site.backends) = 1 => ~("backend-answers" \in passed /\ Tells({"supabase-backend-down"}))

OneThing == OneOfSecrets /\ OneOfFiles /\ OneOfHttp /\ OneOfBackend

ScanInv == ScanTypes /\ AllSo /\ OneThing

\* The ids of secrets, apart from all others.
LEMMA SecretIds ==
  Secrets = {"openai-key", "anthropic-key", "stripe-secret", "stripe-test-secret", "supabase-secret",
             "aws-key", "github-token", "private-key", "google-api-key", "supabase-service-role"}
BY DEF Secrets, SECRET_PATTERNS

\* The request over http, which only a page with https gets.
OverHttp == IF site.https THEN 1 ELSE 0

\* The numbers of a site.
LEMMA SiteCounts ==
  ASSUME ScanTypes
  PROVE  /\ site.scripts \in Nat /\ OverHttp \in {0, 1}
         /\ Len(Projects) \in Nat
         /\ Needed = 5 + OverHttp + site.scripts + Len(Projects)
<1>1. site.scripts \in Nat
  BY SitesAssumption DEF ScanTypes, SiteRecords
<1>2. Len(site.backends) \in Nat
  BY DEF ScanTypes, SiteRecords
<1>3. Len(Projects) \in Nat
  BY <1>2 DEF Projects
<1> QED BY <1>1, <1>3 DEF OverHttp, Needed

\* There are finitely many findings of a site.
LEMMA IdsFinite == IsFiniteSet(FindingIds)
<1> DEFINE ids == <<"openai-key", "anthropic-key", "stripe-secret", "stripe-test-secret", "supabase-secret",
                    "aws-key", "github-token", "private-key", "google-api-key", "supabase-service-role",
                    "hsts", "csp", "framing", "nosniff", "referrer", "header-csp-scripts", "no-https",
                    "http-not-redirected", "env-exposed", "git-exposed", "supabase-backend-down">>
           f == [i \in 1 .. 21 |-> ids[i]]
<1>1. \A i \in 1 .. 21 : f[i] \in FindingIds
  BY SecretIds DEF FindingIds, HEADER_CHECKS
<1>2. \A id \in FindingIds : \E i \in 1 .. 21 : f[i] = id
  BY SecretIds DEF FindingIds, HEADER_CHECKS
<1>3. f \in Surjection(1 .. 21, FindingIds)
  <2>1. f \in [1 .. 21 -> FindingIds]
    <3> HIDE DEF ids
    <3> QED BY <1>1
  <2> HIDE DEF f
  <2> QED BY <1>2, <2>1 DEF Surjection
<1> HIDE DEF f, ids
<1>4. IsFiniteSet(1 .. 21)
  <2>1. \A n \in Nat : IsFiniteSet(1 .. n)
    BY FS_Interval
  <2> QED BY <2>1
<1> QED BY <1>3, <1>4, FS_Surjection

LEMMA TroubleFinite ==
  ASSUME ScanTypes
  PROVE  IsFiniteSet(Trouble)
<1> DEFINE N == 0 .. 4 + Len(Projects)
           S == FindingIds \X N
           T == {Finding(p[1], p[2]) : p \in S}
           f == [p \in S |-> Finding(p[1], p[2])]
<1>6. Len(Projects) \in Nat
  BY SiteCounts
<1>7. IsFiniteSet(N)
  BY <1>6, FS_Interval
<1>1. IsFiniteSet(S)
  <2> HIDE DEF N
  <2> QED BY <1>7, IdsFinite, FS_Product
<1>2. f \in Surjection(S, T)
  BY DEF Surjection
<1>3. IsFiniteSet(T)
  <2> HIDE DEF S, T, f
  <2> QED BY <1>1, <1>2, FS_Surjection
<1>4. ASSUME NEW id \in FindingIds, NEW n \in N PROVE Finding(id, n) \in T
  <2>1. <<id, n>> \in S /\ <<id, n>>[1] = id /\ <<id, n>>[2] = n
    OBVIOUS
  <2> HIDE DEF S
  <2> QED BY <2>1
<1>8. 0 \in N /\ 1 \in N /\ 4 \in N /\ 1 .. 3 \subseteq N /\ 1 .. Len(Projects) \subseteq N
  BY <1>6
<1>5. Trouble \subseteq T
  <2> HIDE DEF N, T
  <2>1. HttpFindings \subseteq T
    BY <1>4, <1>8 DEF HttpFindings, FindingIds
  <2>2. SecretFindings \subseteq T
    <3>1. site.secret \in FindingIds /\ \A t \in site.texts : t[1] \in {0, 1}
      BY DEF ScanTypes, SiteRecords, FindingIds, Secrets
    <3> QED BY <1>4, <1>8, <3>1 DEF SecretFindings
  <2>3. FileFindings \subseteq T
    BY <1>4, <1>8 DEF FileFindings, FindingIds
  <2>4. HeaderFindings \subseteq T
    BY <1>4, <1>8 DEF HeaderFindings, FindingIds
  <2>5. BackendFindings \subseteq T
    BY <1>4, <1>8 DEF BackendFindings, FindingIds
  <2> QED BY <2>1, <2>2, <2>3, <2>4, <2>5 DEF Trouble
<1> HIDE DEF T
<1> QED BY <1>3, <1>5, FS_Subset

LEMMA FoundFinite ==
  ASSUME ScanTypes, AllSo
  PROVE  IsFiniteSet(findings) /\ IsFiniteSet(Complete)
<1>1. IsFiniteSet(Trouble) /\ IsFiniteSet(Trouble \cup {Unseen})
  BY TroubleFinite, FS_AddElement
<1>2. Complete \subseteq Trouble \cup {Unseen}
  BY DEF Complete
<1> QED BY <1>1, <1>2, FS_Subset DEF AllSo

\* The complete report is a matter of the site alone.
LEMMA SiteStays ==
  ASSUME site' = site
  PROVE  /\ HttpFindings' = HttpFindings /\ SecretFindings' = SecretFindings
         /\ FileFindings' = FileFindings /\ HeaderFindings' = HeaderFindings
         /\ BackendFindings' = BackendFindings /\ Projects' = Projects
         /\ Trouble' = Trouble /\ Complete' = Complete /\ Needed' = Needed
<1>1. Projects' = Projects
  BY DEF Projects
<1>2. HttpFindings' = HttpFindings /\ SecretFindings' = SecretFindings /\ FileFindings' = FileFindings
  BY DEF HttpFindings, SecretFindings, FileFindings
<1>3. HeaderFindings' = HeaderFindings
  BY DEF HeaderFindings, HeaderPasses, AnyScript
<1>4. BackendFindings' = BackendFindings
  BY <1>1 DEF BackendFindings
<1>5. Trouble' = Trouble
  BY <1>2, <1>3, <1>4 DEF Trouble
<1>6. Complete' = Complete
  BY <1>4, <1>5 DEF Complete, Unseen
<1>7. Needed' = Needed
  BY <1>1 DEF Needed
<1> QED BY <1>1, <1>2, <1>3, <1>4, <1>5, <1>6, <1>7

\* What is added belongs to the complete report.
LEMMA Added ==
  ASSUME ScanTypes, AllSo, NEW F, F \subseteq Trouble \cup {Unseen}, Unseen \in F => stage' = "done",
         stage' = stage \/ stage # "done",
         findings' = findings \cup F, site' = site, turn' \in Nat, texts' \subseteq site.texts
  PROVE  ScanTypes' /\ AllSo'
<1>1. Trouble' = Trouble /\ Unseen' = Unseen
  BY SiteStays DEF Unseen
<1> QED BY <1>1 DEF ScanTypes, AllSo

\* Nothing new is found.
LEMMA NothingAdded ==
  ASSUME ScanTypes, AllSo, stage' = stage \/ stage # "done",
         findings' = findings, site' = site, turn' \in Nat, texts' \subseteq site.texts
  PROVE  ScanTypes' /\ AllSo' /\ \A ids : Tells(ids)' <=> Tells(ids)
<1>1. Trouble' = Trouble /\ Unseen' = Unseen
  BY SiteStays DEF Unseen
<1>2. ScanTypes' /\ AllSo'
  BY <1>1 DEF ScanTypes, AllSo
<1> QED BY <1>2 DEF Tells

\* One finding may be new.
LEMMA OneAdded ==
  ASSUME ScanTypes, AllSo, NEW id, NEW n, Finding(id, n) \in Trouble, id # "supabase-rls",
         stage' = stage \/ stage # "done",
         findings' = findings \cup {Finding(id, n)},
         site' = site, turn' \in Nat, texts' \subseteq site.texts
  PROVE  ScanTypes' /\ AllSo' /\ \A ids : Tells(ids)' => Tells(ids) \/ id \in ids
<1>1. \A f \in {Finding(id, n)} : f.id = id
  BY DEF Finding
<1>2. Unseen.id = "supabase-rls"
  BY DEF Unseen, Finding
<1>3. ScanTypes' /\ AllSo'
  BY <1>1, <1>2, Added
<1> QED BY <1>1, <1>3 DEF Tells

LEMMA InitScan == CheckInit => ScanInv
<1> SUFFICES ASSUME CheckInit PROVE ScanInv
  OBVIOUS
<1>1. ScanTypes
  BY SitesAssumption DEF CheckInit, ScanTypes
<1>2. AllSo /\ \A ids : ~Tells(ids)
  BY DEF CheckInit, AllSo, Tells
<1> QED BY <1>1, <1>2 DEF CheckInit, ScanInv, OneThing, OneOfSecrets, OneOfFiles, OneOfHttp, OneOfBackend

\* A page without https is a finding, one with it is asked for over http.
LEMMA PageScan ==
  ASSUME ScanInv, NEW outcome \in Outcomes, FetchPage(outcome)
  PROVE  ScanInv'
<1> USE DEF FetchPage, fetch
<1>1. stage = "page" /\ site' = site /\ turn' = turn
  OBVIOUS
<1>2. texts' \subseteq site.texts
  BY DEF ScanInv, ScanTypes, TextsOf
<1>3. CASE outcome = "answer" /\ ~site.https
  <2>1. findings' = findings \cup {Finding("no-https", 0)} /\ passed' = passed /\ stage' = "scripts"
    BY <1>3
  <2>2. Finding("no-https", 0) \in Trouble
    BY <1>3 DEF Trouble, HttpFindings
  <2>3. ScanTypes' /\ AllSo' /\ \A ids : Tells(ids)' => Tells(ids) \/ "no-https" \in ids
    BY <1>1, <1>2, <2>1, <2>2, OneAdded DEF ScanInv, ScanTypes
  <2> QED BY <1>1, <2>1, <2>3, SecretIds
          DEF ScanInv, OneThing, OneOfSecrets, OneOfFiles, OneOfHttp, OneOfBackend
<1>4. CASE ~(outcome = "answer" /\ ~site.https)
  <2>1. /\ findings' = findings /\ passed' \in {passed, passed \cup {"https"}}
        /\ stage' \in {"http", "unreachable"} /\ (stage' = "http" => site.https)
    BY <1>4
  <2>2. ScanTypes' /\ AllSo' /\ \A ids : Tells(ids)' <=> Tells(ids)
    BY <1>1, <1>2, <2>1, NothingAdded DEF ScanInv, ScanTypes
  <2> QED BY <1>1, <2>1, <2>2
          DEF ScanInv, OneThing, OneOfSecrets, OneOfFiles, OneOfHttp, OneOfBackend
<1> QED BY <1>3, <1>4

LEMMA InsecureScan ==
  ASSUME ScanInv, NEW outcome \in Outcomes, FetchInsecure(outcome)
  PROVE  ScanInv'
<1> USE DEF FetchInsecure, fetch
<1>1. stage = "http" /\ stage' = "scripts" /\ site' = site /\ turn' = turn /\ texts' = texts
  OBVIOUS
<1>2. CASE outcome = "answer" /\ site.plain \in {"seeOther", "hops", "served"}
  <2>1. findings' = findings \cup {Finding("http-not-redirected", 0)} /\ passed' = passed
    BY <1>2
  <2>2. site.https
    BY <1>1 DEF ScanInv, OneThing, OneOfHttp
  <2>4. Finding("http-not-redirected", 0) \in Trouble
    BY <1>2, <2>2 DEF Trouble, HttpFindings
  <2>3. ScanTypes' /\ AllSo' /\ \A ids : Tells(ids)' => Tells(ids) \/ "http-not-redirected" \in ids
    BY <1>1, <2>1, <2>4, OneAdded DEF ScanInv, ScanTypes
  <2> QED BY <1>1, <2>1, <2>3, SecretIds
          DEF ScanInv, OneThing, OneOfSecrets, OneOfFiles, OneOfHttp, OneOfBackend
<1>3. CASE ~(outcome = "answer" /\ site.plain \in {"seeOther", "hops", "served"})
  <2>1. findings' = findings /\ passed' \in {passed, passed \cup {"http-redirected"}}
    BY <1>3
  <2>2. ScanTypes' /\ AllSo' /\ \A ids : Tells(ids)' <=> Tells(ids)
    BY <1>1, <2>1, NothingAdded DEF ScanInv, ScanTypes
  <2> QED BY <1>1, <2>1, <2>2
          DEF ScanInv, OneThing, OneOfSecrets, OneOfFiles, OneOfHttp, OneOfBackend
<1> QED BY <1>2, <1>3

\* A script adds texts of the site, and no finding yet.
LEMMA ScriptScan ==
  ASSUME ScanInv, NEW outcome \in Outcomes, FetchScript(outcome)
  PROVE  ScanInv'
<1>1. /\ stage = "scripts" /\ stage' = "scripts" /\ site' = site
      /\ findings' = findings /\ passed' = passed
  BY DEF FetchScript, fetch
<1>2. site.scripts \in Nat
  BY SitesAssumption DEF ScanInv, ScanTypes, SiteRecords
<1>3. turn' \in Nat /\ texts' \subseteq site.texts
  BY <1>2 DEF FetchScript, ScanInv, ScanTypes, TextsOf
<1>4. ScanTypes' /\ AllSo' /\ \A ids : Tells(ids)' <=> Tells(ids)
  BY <1>1, <1>3, NothingAdded DEF ScanInv
<1> QED BY <1>1, <1>4 DEF ScanInv, OneThing, OneOfSecrets, OneOfFiles, OneOfHttp, OneOfBackend

\* Secrets are found when a text read holds one, and passed when none does.
LEMMA SecretsScan ==
  ASSUME ScanInv, scanTextForSecrets
  PROVE  ScanInv'
<1> DEFINE secrets == {t \in texts : t[2] = "secret"}
           F == {Finding(site.secret, t[1]) : t \in secrets}
<1>1. /\ stage = "scripts" /\ stage' = "probes" /\ turn' = 0 /\ site' = site /\ texts' = texts
      /\ findings' = findings \cup F
      /\ passed' = IF secrets = {} THEN passed \cup {"no-secrets"} ELSE passed
  BY DEF scanTextForSecrets
<1>2. site.secret \in Secrets
  BY DEF ScanInv, ScanTypes, SiteRecords, Secrets
<1>3. F \subseteq Trouble
  BY DEF Trouble, SecretFindings, ScanInv, ScanTypes
<1>4. \A f \in F : f.id = site.secret /\ secrets # {}
  BY DEF Finding
<1>5. Unseen \notin F
  BY <1>2, <1>4, SecretIds DEF Unseen, Finding
<1>6. ScanTypes' /\ AllSo'
  <2> HIDE DEF F
  <2> QED BY <1>1, <1>3, <1>5, Added DEF ScanInv, ScanTypes
<1>7. \A ids : Tells(ids)' => Tells(ids) \/ (site.secret \in ids /\ secrets # {})
  <2> HIDE DEF F
  <2> QED BY <1>1, <1>4 DEF Tells
<1> HIDE DEF F, secrets
<1> QED BY <1>1, <1>2, <1>6, <1>7, SecretIds
        DEF ScanInv, OneThing, OneOfSecrets, OneOfFiles, OneOfHttp, OneOfBackend

\* A file is found when the answer is the file.
LEMMA FileIsTrouble ==
  ASSUME NEW i \in 1 .. 4, looksLikeTheFile(i)
  PROVE  FileFinding(i) \in FileFindings
BY DEF looksLikeTheFile, FileFinding, FileFindings, probes, Finding

LEMMA ProbeScan ==
  ASSUME ScanInv, NEW outcome \in Outcomes, FetchProbe(outcome)
  PROVE  ScanInv'
<1> DEFINE i == turn + 1
           id == IF probes[i] = "/.git/config" THEN "git-exposed" ELSE "env-exposed"
<1> USE DEF FetchProbe, fetch
<1>1. /\ stage = "probes" /\ stage' = "probes" /\ turn < Len(probes)
      /\ site' = site /\ texts' = texts /\ passed' = passed
  OBVIOUS
<1>2. turn' \in Nat /\ i \in 1 .. 4
  BY DEF ScanInv, ScanTypes, probes
<1>3. CASE outcome = "answer" /\ looksLikeTheFile(i)
  <2>1. findings' = findings \cup {Finding(id, i)}
    BY <1>3 DEF FileFinding
  <2>2. Finding(id, i) \in Trouble
    BY <1>2, <1>3, FileIsTrouble DEF FileFinding, Trouble
  <2>3. ScanTypes' /\ AllSo' /\ \A ids : Tells(ids)' => Tells(ids) \/ id \in ids
    <3>1. id # "supabase-rls"
      OBVIOUS
    <3> HIDE DEF id, i
    <3> QED BY <1>1, <1>2, <2>1, <2>2, <3>1, OneAdded DEF ScanInv, ScanTypes
  <2>4. id \in {"env-exposed", "git-exposed"}
    OBVIOUS
  <2> HIDE DEF id
  <2> QED BY <1>1, <2>3, <2>4, SecretIds
          DEF ScanInv, OneThing, OneOfSecrets, OneOfFiles, OneOfHttp, OneOfBackend
<1>4. CASE ~(outcome = "answer" /\ looksLikeTheFile(i))
  <2>1. findings' = findings
    BY <1>4
  <2>2. ScanTypes' /\ AllSo' /\ \A ids : Tells(ids)' <=> Tells(ids)
    BY <1>1, <1>2, <2>1, NothingAdded DEF ScanInv, ScanTypes
  <2> QED BY <1>1, <2>2 DEF ScanInv, OneThing, OneOfSecrets, OneOfFiles, OneOfHttp, OneOfBackend
<1> QED BY <1>3, <1>4

\* The headers add findings of their own only, and the files are passed when
\* none was found.
LEMMA HeadersScan ==
  ASSUME ScanInv, checkHeaders
  PROVE  ScanInv'
<1> DEFINE Headers == HEADER_CHECKS \cup {"header-csp-scripts"}
           F == HeaderFindings
<1>1. /\ stage = "probes" /\ stage' = "backend" /\ turn' = 0 /\ site' = site /\ texts' = texts
      /\ findings' = findings \cup F
      /\ passed' \subseteq passed \cup PassedFiles(Exposed) \cup HEADER_CHECKS
      /\ passed \subseteq passed'
  BY DEF checkHeaders
<1>2. \A f \in F : f.id \in Headers
  BY DEF HeaderFindings, Finding
<1>3. Unseen \notin F
  BY <1>2 DEF Unseen, Finding, HEADER_CHECKS
<1>4. F \subseteq Trouble
  BY DEF Trouble
<1>5. ScanTypes' /\ AllSo'
  <2> HIDE DEF F
  <2> QED BY <1>1, <1>3, <1>4, Added DEF ScanInv, ScanTypes
<1> HIDE DEF F
<1>6. \A ids : Tells(ids)' => Tells(ids) \/ \E id \in Headers : id \in ids
  BY <1>1, <1>2 DEF Tells
<1>7. /\ Tells({"env-exposed", "git-exposed"}) <=> Exposed
      /\ "no-public-files" \in PassedFiles(Exposed) => ~Exposed
      /\ PassedFiles(Exposed) \subseteq {"no-public-files"}
  BY DEF Tells, Exposed, PassedFiles
<1>8. /\ Tells(Secrets)' => Tells(Secrets)
      /\ Tells({"env-exposed", "git-exposed"})' => Tells({"env-exposed", "git-exposed"})
      /\ Tells({"no-https", "http-not-redirected"})' => Tells({"no-https", "http-not-redirected"})
      /\ Tells({"supabase-backend-down"})' => Tells({"supabase-backend-down"})
  BY <1>6, SecretIds DEF HEADER_CHECKS
<1> QED BY <1>1, <1>5, <1>7, <1>8
        DEF ScanInv, OneThing, OneOfSecrets, OneOfFiles, OneOfHttp, OneOfBackend, HEADER_CHECKS

\* What is said of a project is so when it is not well, and the first of one
\* project is the only one.
LEMMA BackendScan ==
  ASSUME ScanInv, NEW state \in {"ok", "paused", "gone", "unknown"}, BackendIs(state),
         stage = "backend", turn < Len(supabaseProjectHosts), site' = site,
         state \in {"paused", "gone"} => supabaseProjectHosts[turn + 1] # "ok"
  PROVE  ScanInv'
<1>1. supabaseProjectHosts \in {<<>>, site.backends}
  BY DEF supabaseProjectHosts
<1>2. supabaseProjectHosts = site.backends /\ turn \in Nat /\ turn < Len(site.backends)
  BY <1>1 DEF ScanInv, ScanTypes
<1>8. \E t \in site.texts : t[2] = "host"
  BY DEF supabaseProjectHosts, ScanInv, ScanTypes
<1>3. stage' = "backend" /\ turn' = turn + 1 /\ texts' = texts
  BY DEF BackendIs
<1>4. Len(site.backends) \in Nat
  BY DEF ScanInv, ScanTypes, SiteRecords
<1>7. turn' \in Nat /\ turn' # 0 /\ (Len(site.backends) = 1 => turn = 0)
  <2> DEFINE n == Len(site.backends)
  <2>1. turn \in Nat /\ n \in Nat /\ turn < n /\ turn' = turn + 1
    BY <1>2, <1>3, <1>4
  <2> HIDE DEF n
  <2>2. turn' \in Nat /\ turn' # 0 /\ (n = 1 => turn = 0)
    BY <2>1
  <2> QED BY <2>2 DEF n
<1>5. CASE state \in {"paused", "gone"}
  <2>1. findings' = findings \cup {Finding("supabase-backend-down", turn + 1)} /\ passed' = passed
    BY <1>5 DEF BackendIs
  <2>2. Finding("supabase-backend-down", turn + 1) \in Trouble
    <3>1. Projects = site.backends
      BY <1>2, <1>8 DEF Projects
    <3> QED BY <1>2, <1>4, <1>5, <3>1 DEF BackendFindings, Trouble
  <2>3. ScanTypes' /\ AllSo' /\ \A ids : Tells(ids)' => Tells(ids) \/ "supabase-backend-down" \in ids
    BY <1>3, <1>7, <2>1, <2>2, OneAdded DEF ScanInv, ScanTypes
  <2> QED BY <1>3, <1>7, <2>1, <2>3, SecretIds
          DEF ScanInv, OneThing, OneOfSecrets, OneOfFiles, OneOfHttp, OneOfBackend
<1>6. CASE state \notin {"paused", "gone"}
  <2>1. findings' = findings /\ passed' \in {passed, passed \cup {"backend-answers"}}
    BY <1>6 DEF BackendIs
  <2>2. ScanTypes' /\ AllSo' /\ \A ids : Tells(ids)' <=> Tells(ids)
    BY <1>3, <1>7, <2>1, NothingAdded DEF ScanInv, ScanTypes
  <2> QED BY <1>3, <1>7, <2>1, <2>2
          DEF ScanInv, OneThing, OneOfSecrets, OneOfFiles, OneOfHttp, OneOfBackend
<1> QED BY <1>5, <1>6

LEMMA FinishScan ==
  ASSUME ScanInv, Finish
  PROVE  ScanInv'
<1> DEFINE F == IF findings' = findings THEN {} ELSE {Unseen}
<1>1. /\ stage = "backend" /\ stage' = "done" /\ site' = site /\ turn' = turn /\ texts' = texts /\ passed' = passed
      /\ findings' = findings \cup F
  BY DEF Finish, Unseen
<1>2. \A f \in F : f.id = "supabase-rls"
  BY DEF Unseen, Finding
<1>3. F \subseteq Trouble \cup {Unseen}
  OBVIOUS
<1> HIDE DEF F
<1>4. ScanTypes' /\ AllSo'
  BY <1>1, <1>3, Added DEF ScanInv, ScanTypes
<1>5. \A ids : Tells(ids)' => Tells(ids) \/ "supabase-rls" \in ids
  BY <1>1, <1>2 DEF Tells
<1> QED BY <1>1, <1>4, <1>5, SecretIds
        DEF ScanInv, OneThing, OneOfSecrets, OneOfFiles, OneOfHttp, OneOfBackend

LEMMA NextScan == ScanInv /\ [CheckNext]_checkVars => ScanInv'
<1> SUFFICES ASSUME ScanInv, [CheckNext]_checkVars PROVE ScanInv'
  OBVIOUS
<1>1. CASE UNCHANGED <<site, turn, report>> /\ (stage' = stage \/ (stage = "idle" /\ stage' = "page"))
  <2>1. ScanTypes' /\ AllSo' /\ \A ids : Tells(ids)' <=> Tells(ids)
    BY <1>1, NothingAdded DEF ScanInv, ScanTypes, report
  <2> QED BY <1>1, <2>1 DEF ScanInv, OneThing, OneOfSecrets, OneOfFiles, OneOfHttp, OneOfBackend, report
<1>2. CASE UNCHANGED checkVars \/ HourPasses \/ DeadlinePasses \/ Redirected
  BY <1>1, <1>2 DEF checkVars, scan, report, HourPasses, DeadlinePasses, Redirected
<1>3. ASSUME NEW v \in Visits, hourWindow(v) \/ consumeCheckAllowance(v) \/ RunAppCheck(v) PROVE ScanInv'
  BY <1>1, <1>3 DEF scan, report, hourWindow, consumeCheckAllowance, RunAppCheck
<1>4. ASSUME NEW outcome \in Outcomes, checkSupabaseBackend(outcome) PROVE ScanInv'
  <2>1. stage = "backend" /\ turn < Len(supabaseProjectHosts) /\ site' = site
    BY <1>4 DEF checkSupabaseBackend, fetch
  <2>2. CASE BackendIs("gone") /\ outcome = "failed" /\ supabaseProjectHosts[turn + 1] # "ok"
    BY <2>1, <2>2, BackendScan
  <2>3. CASE BackendIs("unknown")
    BY <2>1, <2>3, BackendScan
  <2>4. CASE outcome = "answer" /\ BackendIs(supabaseProjectHosts[turn + 1])
    <3>1. supabaseProjectHosts \in {<<>>, site.backends} /\ turn \in Nat
      BY DEF supabaseProjectHosts, ScanInv, ScanTypes
    <3>2. \A i \in 1 .. Len(site.backends) : site.backends[i] \in {"ok", "paused", "gone"}
      BY DEF ScanInv, ScanTypes, SiteRecords
    <3>3. Len(site.backends) \in Nat
      BY DEF ScanInv, ScanTypes, SiteRecords
    <3>4. supabaseProjectHosts[turn + 1] \in {"ok", "paused", "gone"}
      BY <2>1, <3>1, <3>2, <3>3
    <3> QED BY <2>1, <2>4, <3>4, BackendScan
  <2> QED BY <1>4, <2>2, <2>3, <2>4 DEF checkSupabaseBackend
<1>5. CASE resolveHost
  BY <1>5, BackendScan DEF resolveHost
<1> QED BY <1>2, <1>3, <1>4, <1>5, PageScan, InsecureScan, ScriptScan, ProbeScan, SecretsScan, HeadersScan,
           FinishScan DEF CheckNext

LEMMA ScanIsKept == CheckSpec => []ScanInv
BY InitScan, NextScan, PTL DEF CheckSpec

-----------------------------------------------------------------------------
(* The complete report.                                                    *)

\* Nothing has gone wrong, and the budget is enough.
Unhurt == ~missed /\ ~late /\ redirects + Needed <= MAX_REQUESTS

\* No more requests than the stage has asked for, and their redirects.
InBudget ==
  /\ used \in Nat /\ redirects \in Nat
  /\ stage \in {"idle", "page", "http"} => turn = 0
  /\ stage \in {"idle", "page"} => used <= redirects
  /\ stage = "http" => used <= 1 + redirects
  /\ stage = "scripts" => turn <= site.scripts /\ used <= 1 + OverHttp + turn + redirects
  /\ stage = "probes" => turn <= 4 /\ used <= 1 + OverHttp + site.scripts + turn + redirects
  /\ stage = "backend" => used <= 5 + OverHttp + site.scripts + turn + redirects

\* What each stage leaves for the report.
Whole ==
  /\ stage \in {"http", "scripts"} => TextsOf(0) \subseteq texts
  /\ stage = "scripts" /\ turn > 0 => TextsOf(1) \subseteq texts
  /\ stage \in {"probes", "backend"} => texts = site.texts
  /\ stage \in {"scripts", "probes", "backend"} => HttpFindings \subseteq findings
  /\ stage \in {"probes", "backend"} => SecretFindings \subseteq findings
  /\ stage = "probes" => \A f \in FileFindings : f.n <= turn => f \in findings
  /\ stage = "backend" => FileFindings \cup HeaderFindings \subseteq findings
  /\ stage = "backend" => \A f \in BackendFindings : f.n <= turn => f \in findings
  /\ stage = "done" => findings = Complete

WholeInv == ScanInv /\ InBudget /\ (Unhurt => Whole)

\* What the backend stage asks is at most what is needed.
LEMMA ProjectsKnown ==
  ASSUME ScanTypes
  PROVE  /\ supabaseProjectHosts \in {<<>>, Projects}
         /\ texts = site.texts => supabaseProjectHosts = Projects
BY DEF ScanTypes, supabaseProjectHosts, Projects

\* An unhurt scan has been unhurt so far.
LEMMA UnhurtBefore ==
  ASSUME ScanTypes, InBudget, site' = site, ~missed' => ~missed, ~late' => ~late,
         redirects' \in {redirects, redirects + 1}, Unhurt'
  PROVE  Unhurt
<1>1. Needed' = Needed /\ Needed \in Nat
  BY SiteStays, SiteCounts
<1>2. MAX_REQUESTS \in Nat
  BY SitesAssumption
<1>3. ~missed' /\ ~late' /\ redirects' + Needed <= MAX_REQUESTS
  BY <1>1 DEF Unhurt
<1>4. ~missed /\ ~late
  BY <1>3
<1>5. redirects + Needed <= MAX_REQUESTS
  <2>1. redirects' + Needed <= MAX_REQUESTS
    BY <1>3
  <2>2. redirects \in Nat /\ (redirects' = redirects \/ redirects' = redirects + 1)
    BY DEF InBudget
  <2>3. \A r \in Nat, n \in Nat : r + 1 + n <= MAX_REQUESTS => r + n <= MAX_REQUESTS
    BY <1>2
  <2> QED BY <1>1, <2>1, <2>2, <2>3
<1> QED BY <1>4, <1>5 DEF Unhurt

\* A request that is still needed is sent, and answered, in an unhurt scan.
LEMMA Answered ==
  ASSUME ScanTypes, InBudget, NEW outcome \in Outcomes, fetch(outcome), Unhurt',
         \/ stage \in {"page", "http"}
         \/ stage = "scripts" /\ turn < site.scripts
         \/ stage = "probes" /\ turn < 4
         \/ stage = "backend" /\ turn < Len(Projects)
  PROVE  /\ Unhurt
         /\ outcome = "answer" \/ (outcome = "failed" /\ stage = "http" /\ site.plain = "closed")
<1>1. site' = site /\ late' = late /\ redirects' = redirects
  BY DEF fetch
<1>2. ~missed /\ (outcome = "failed" => stage = "http" /\ site.plain = "closed")
  BY DEF fetch, Unhurt
<1>3. Unhurt
  BY <1>1, <1>2, UnhurtBefore
<1>4. outcome # "budget"
  <2> DEFINE s == site.scripts
             h == OverHttp
             p == Len(Projects)
             n == Needed
  <2>1. s \in Nat /\ h \in {0, 1} /\ p \in Nat /\ n = 5 + h + s + p
    BY SiteCounts
  <2>2. turn \in Nat /\ used \in Nat /\ redirects \in Nat /\ MAX_REQUESTS \in Nat
    BY SitesAssumption DEF ScanTypes, InBudget
  <2>3. redirects + n <= MAX_REQUESTS /\ ~late
    BY <1>3 DEF Unhurt
  <2>4. stage = "http" => h = 1 \/ used <= 1 + redirects
    BY DEF InBudget
  <2>5. used < redirects + n
    <3>1. CASE stage \in {"page", "http"}
      <4>1. used <= 1 + redirects
        BY <2>2, <3>1 DEF InBudget
      <4> HIDE DEF s, h, p, n
      <4> QED BY <2>1, <2>2, <4>1
    <3>2. CASE stage = "scripts" /\ turn < site.scripts
      <4>1. used <= 1 + h + turn + redirects /\ turn < s
        BY <3>2 DEF InBudget
      <4> HIDE DEF s, h, p, n
      <4> QED BY <2>1, <2>2, <4>1
    <3>3. CASE stage = "probes" /\ turn < 4
      <4>1. used <= 1 + h + s + turn + redirects /\ turn < 4
        BY <3>3 DEF InBudget
      <4> HIDE DEF s, h, p, n
      <4> QED BY <2>1, <2>2, <4>1
    <3>4. CASE stage = "backend" /\ turn < Len(Projects)
      <4>1. used <= 5 + h + s + turn + redirects /\ turn < p
        BY <3>4 DEF InBudget
      <4> HIDE DEF s, h, p, n
      <4> QED BY <2>1, <2>2, <4>1
    <3> QED BY <3>1, <3>2, <3>3, <3>4
  <2> HIDE DEF n
  <2>6. ~(used >= MAX_REQUESTS)
    BY <2>1, <2>2, <2>3, <2>5
  <2> QED BY <2>3, <2>6 DEF fetch, BudgetUsedUp
<1> QED BY <1>2, <1>3, <1>4 DEF Outcomes

\* Before its end a scan has nothing to leave but what its stage asks for:
\* steps that leave the report and the stage alone keep it.
LEMMA WholeStays ==
  ASSUME Whole, site' = site, UNCHANGED <<stage, turn, texts, findings>>
  PROVE  Whole'
<1>1. \A n : TextsOf(n)' = TextsOf(n)
  BY DEF TextsOf
<1> QED BY <1>1, SiteStays DEF Whole

LEMMA InitWhole == CheckInit => WholeInv
<1> SUFFICES ASSUME CheckInit PROVE WholeInv
  OBVIOUS
<1>1. InBudget /\ Whole
  BY DEF CheckInit, InBudget, Whole
<1> QED BY <1>1, InitScan DEF WholeInv

LEMMA PageWhole ==
  ASSUME WholeInv, NEW outcome \in Outcomes, FetchPage(outcome)
  PROVE  InBudget' /\ (Unhurt' => Whole')
<1>1. /\ stage = "page" /\ turn' = turn /\ site' = site /\ redirects' = redirects
      /\ used' \in {used, used + 1} /\ stage' \in {"http", "scripts", "unreachable"}
      /\ stage' = "http" => site.https
  BY DEF FetchPage, fetch
<1>2. turn = 0 /\ used \in Nat /\ redirects \in Nat /\ used <= redirects
  BY <1>1 DEF WholeInv, InBudget
<1>3. InBudget'
  <2>1. site.scripts \in Nat /\ OverHttp \in {0, 1} /\ OverHttp' = OverHttp
    BY <1>1, SiteCounts DEF WholeInv, ScanInv, OverHttp
  <2> QED BY <1>1, <1>2, <2>1 DEF InBudget
<1>4. ASSUME Unhurt' PROVE Whole'
  <2>1. outcome = "answer"
    BY <1>1, <1>4, Answered DEF FetchPage, WholeInv, ScanInv
  <2>2. texts' = TextsOf(0) /\ TextsOf(0)' = TextsOf(0)
    BY <1>1, <2>1 DEF FetchPage, TextsOf
  <2>3. stage' = "scripts" => HttpFindings \subseteq findings'
    BY <2>1 DEF FetchPage, HttpFindings
  <2>4. HttpFindings' = HttpFindings
    BY <1>1, SiteStays
  <2> QED BY <1>1, <1>2, <2>2, <2>3, <2>4 DEF Whole
<1> QED BY <1>3, <1>4

LEMMA InsecureWhole ==
  ASSUME WholeInv, NEW outcome \in Outcomes, FetchInsecure(outcome)
  PROVE  InBudget' /\ (Unhurt' => Whole')
<1>1. /\ stage = "http" /\ stage' = "scripts" /\ turn' = turn /\ site' = site /\ redirects' = redirects
      /\ texts' = texts /\ used' \in {used, used + 1}
  BY DEF FetchInsecure, fetch
<1>2. turn = 0 /\ used \in Nat /\ redirects \in Nat /\ used <= 1 + redirects /\ site.https
  BY <1>1 DEF WholeInv, InBudget, ScanInv, OneThing, OneOfHttp
<1>3. InBudget'
  <2>1. site.scripts \in Nat /\ OverHttp = 1 /\ OverHttp' = OverHttp
    BY <1>1, <1>2, SiteCounts DEF WholeInv, ScanInv, OverHttp
  <2> QED BY <1>1, <1>2, <2>1 DEF InBudget
<1>4. ASSUME Unhurt' PROVE Whole'
  <2>1. Unhurt /\ (outcome = "answer" \/ (outcome = "failed" /\ site.plain = "closed"))
    BY <1>1, <1>4, Answered DEF FetchInsecure, WholeInv, ScanInv
  <2>2. TextsOf(0) \subseteq texts' /\ TextsOf(0)' = TextsOf(0)
    BY <1>1, <2>1 DEF WholeInv, Whole, TextsOf
  <2>3. HttpFindings \subseteq findings'
    BY <1>2, <2>1 DEF FetchInsecure, HttpFindings
  <2>4. HttpFindings' = HttpFindings
    BY <1>1, SiteStays
  <2> QED BY <1>1, <1>2, <2>2, <2>3, <2>4 DEF Whole
<1> QED BY <1>3, <1>4

LEMMA ScriptWhole ==
  ASSUME WholeInv, NEW outcome \in Outcomes, FetchScript(outcome)
  PROVE  InBudget' /\ (Unhurt' => Whole')
<1>1. /\ stage = "scripts" /\ stage' = stage /\ turn < site.scripts /\ site' = site /\ redirects' = redirects
      /\ findings' = findings
      /\ \/ used' = used /\ turn' = site.scripts
         \/ used' = used + 1 /\ turn' = turn + 1
  BY DEF FetchScript, fetch, Outcomes
<1>2. /\ used \in Nat /\ redirects \in Nat /\ turn \in Nat
      /\ site.scripts \in Nat /\ OverHttp \in {0, 1} /\ OverHttp' = OverHttp
      /\ used <= 1 + OverHttp + turn + redirects
  BY <1>1, SiteCounts DEF WholeInv, InBudget, ScanInv, ScanTypes, OverHttp
<1>3. InBudget'
  <2> DEFINE s == site.scripts
             h == OverHttp
  <2>1. turn' <= s /\ used' <= 1 + h + turn' + redirects /\ used' \in Nat
    <3>1. s \in Nat /\ h \in {0, 1} /\ turn < s /\ used <= 1 + h + turn + redirects
      BY <1>1, <1>2
    <3>2. (used' = used /\ turn' = s) \/ (used' = used + 1 /\ turn' = turn + 1)
      BY <1>1
    <3> HIDE DEF s, h
    <3> QED BY <1>2, <3>1, <3>2
  <2> QED BY <1>1, <1>2, <2>1 DEF InBudget
<1>4. ASSUME Unhurt' PROVE Whole'
  <2>1. Unhurt /\ outcome = "answer"
    BY <1>1, <1>4, Answered DEF FetchScript, WholeInv, ScanInv
  <2>2. /\ texts \subseteq texts' /\ (turn = 0 => TextsOf(1) \subseteq texts') /\ turn' > 0
        /\ TextsOf(0)' = TextsOf(0) /\ TextsOf(1)' = TextsOf(1)
    BY <1>1, <1>2, <2>1 DEF FetchScript, TextsOf
  <2>3. turn = 0 \/ turn > 0
    BY <1>2
  <2>4. HttpFindings' = HttpFindings
    BY <1>1, SiteStays
  <2> QED BY <1>1, <2>1, <2>2, <2>3, <2>4 DEF WholeInv, Whole
<1> QED BY <1>3, <1>4

\* Every text of the site was read when the scripts have come to an end.
LEMMA SecretsWhole ==
  ASSUME WholeInv, scanTextForSecrets
  PROVE  InBudget' /\ (Unhurt' => Whole')
<1>1. /\ stage = "scripts" /\ stage' = "probes" /\ turn = site.scripts /\ turn' = 0
      /\ site' = site /\ used' = used /\ redirects' = redirects /\ missed' = missed /\ late' = late
      /\ texts' = texts /\ findings \subseteq findings'
      /\ {Finding(site.secret, t[1]) : t \in {u \in texts : u[2] = "secret"}} \subseteq findings'
  BY DEF scanTextForSecrets, requester
<1>2. /\ used \in Nat /\ redirects \in Nat
      /\ site.scripts \in Nat /\ OverHttp \in {0, 1} /\ OverHttp' = OverHttp
      /\ used <= 1 + OverHttp + site.scripts + redirects
  BY <1>1, SiteCounts DEF WholeInv, InBudget, ScanInv, OverHttp
<1>3. InBudget'
  BY <1>1, <1>2 DEF InBudget
<1>4. ASSUME Unhurt' PROVE Whole'
  <2>1. Unhurt
    BY <1>1, <1>4, UnhurtBefore DEF WholeInv, ScanInv
  <2>2. texts = site.texts
    <3>1. \A t \in site.texts : t[1] = 0 \/ (t[1] = 1 /\ site.scripts # 0)
      BY DEF WholeInv, ScanInv, ScanTypes, SiteRecords
    <3>2. site.scripts # 0 => site.scripts > 0
      BY <1>2
    <3> QED BY <1>1, <2>1, <3>1, <3>2 DEF WholeInv, Whole, TextsOf, ScanInv, ScanTypes
  <2>3. SecretFindings \subseteq findings'
    BY <1>1, <2>2 DEF SecretFindings
  <2>4. HttpFindings \subseteq findings'
    BY <1>1, <2>1 DEF WholeInv, Whole
  <2>5. \A f \in FileFindings : ~(f.n <= 0)
    BY DEF FileFindings, Finding
  <2>6. HttpFindings' = HttpFindings /\ SecretFindings' = SecretFindings /\ FileFindings' = FileFindings
    BY <1>1, SiteStays
  <2> QED BY <1>1, <2>2, <2>3, <2>4, <2>5, <2>6 DEF Whole
<1> QED BY <1>3, <1>4

LEMMA ProbeWhole ==
  ASSUME WholeInv, NEW outcome \in Outcomes, FetchProbe(outcome)
  PROVE  InBudget' /\ (Unhurt' => Whole')
<1>1. /\ stage = "probes" /\ stage' = stage /\ turn < 4 /\ site' = site /\ redirects' = redirects
      /\ texts' = texts /\ findings \subseteq findings'
      /\ \/ used' = used /\ turn' = 4
         \/ used' = used + 1 /\ turn' = turn + 1
  BY DEF FetchProbe, fetch, Outcomes, probes
<1>2. /\ used \in Nat /\ redirects \in Nat /\ turn \in Nat
      /\ site.scripts \in Nat /\ OverHttp \in {0, 1} /\ OverHttp' = OverHttp
      /\ used <= 1 + OverHttp + site.scripts + turn + redirects
  BY <1>1, SiteCounts DEF WholeInv, InBudget, ScanInv, ScanTypes, OverHttp
<1>3. InBudget'
  <2> DEFINE s == site.scripts
             h == OverHttp
  <2>1. turn' <= 4 /\ used' <= 1 + h + s + turn' + redirects /\ used' \in Nat
    <3>1. s \in Nat /\ h \in {0, 1} /\ used <= 1 + h + s + turn + redirects
      BY <1>2
    <3> HIDE DEF s, h
    <3> QED BY <1>1, <1>2, <3>1
  <2> QED BY <1>1, <1>2, <2>1 DEF InBudget
<1>4. ASSUME Unhurt' PROVE Whole'
  <2>1. Unhurt /\ outcome = "answer"
    BY <1>1, <1>4, Answered DEF FetchProbe, WholeInv, ScanInv
  <2>2. turn' = turn + 1
    BY <2>1 DEF FetchProbe
  <2>3. \A f \in FileFindings : f.n <= turn' => f \in findings'
    <3> SUFFICES ASSUME NEW f \in FileFindings, f.n <= turn', f \notin findings PROVE f \in findings'
      BY <1>1
    <3>1. f.n \in 1 .. 4 /\ f = FileFinding(f.n) /\ looksLikeTheFile(f.n)
      BY DEF FileFindings, FileFinding, Finding, looksLikeTheFile, probes
    <3>2. ~(f.n <= turn)
      BY <1>1, <2>1 DEF WholeInv, Whole
    <3>3. f.n = turn + 1
      BY <1>2, <2>2, <3>1, <3>2
    <3> QED BY <2>1, <3>1, <3>3 DEF FetchProbe
  <2>4. /\ HttpFindings' = HttpFindings /\ SecretFindings' = SecretFindings /\ FileFindings' = FileFindings
    BY <1>1, SiteStays
  <2> QED BY <1>1, <2>1, <2>3, <2>4 DEF WholeInv, Whole
<1> QED BY <1>3, <1>4

LEMMA HeadersWhole ==
  ASSUME WholeInv, checkHeaders
  PROVE  InBudget' /\ (Unhurt' => Whole')
<1>1. /\ stage = "probes" /\ stage' = "backend" /\ turn = 4 /\ turn' = 0
      /\ site' = site /\ used' = used /\ redirects' = redirects /\ missed' = missed /\ late' = late
      /\ texts' = texts /\ findings' = findings \cup HeaderFindings
  BY DEF checkHeaders, requester, probes
<1>2. /\ used \in Nat /\ redirects \in Nat
      /\ site.scripts \in Nat /\ OverHttp \in {0, 1} /\ OverHttp' = OverHttp
      /\ used <= 1 + OverHttp + site.scripts + 4 + redirects
  BY <1>1, SiteCounts DEF WholeInv, InBudget, ScanInv, OverHttp
<1>3. InBudget'
  <2> DEFINE s == site.scripts
             h == OverHttp
  <2>1. used' <= 5 + h + s + turn' + redirects'
    <3>1. s \in Nat /\ h \in {0, 1} /\ used <= 1 + h + s + 4 + redirects
      BY <1>2
    <3> HIDE DEF s, h
    <3> QED BY <1>1, <1>2, <3>1
  <2> QED BY <1>1, <1>2, <2>1 DEF InBudget
<1>4. ASSUME Unhurt' PROVE Whole'
  <2>1. Unhurt
    BY <1>1, <1>4, UnhurtBefore DEF WholeInv, ScanInv
  <2>2. FileFindings \subseteq findings
    <3>1. \A f \in FileFindings : f.n <= 4
      BY DEF FileFindings, Finding
    <3> QED BY <1>1, <2>1, <3>1 DEF WholeInv, Whole
  <2>3. \A f \in BackendFindings : ~(f.n <= 0)
    <3>1. Len(Projects) \in Nat
      BY SiteCounts DEF WholeInv, ScanInv
    <3> QED BY <3>1 DEF BackendFindings, Finding
  <2>4. /\ HttpFindings' = HttpFindings /\ SecretFindings' = SecretFindings /\ FileFindings' = FileFindings
        /\ HeaderFindings' = HeaderFindings /\ BackendFindings' = BackendFindings
    BY <1>1, SiteStays
  <2> QED BY <1>1, <2>1, <2>2, <2>3, <2>4 DEF WholeInv, Whole
<1> QED BY <1>3, <1>4

\* What the backend stage does for a project, in a scan that is unhurt.
LEMMA BackendWhole ==
  ASSUME WholeInv, NEW state, BackendIs(state), stage = "backend", turn < Len(supabaseProjectHosts),
         site' = site, redirects' = redirects, used' \in {used, used + 1},
         Unhurt' => Unhurt /\ (supabaseProjectHosts[turn + 1] # "ok" => state \in {"gone", "paused"})
  PROVE  InBudget' /\ (Unhurt' => Whole')
<1>1. /\ stage' = stage /\ turn' = turn + 1 /\ texts' = texts /\ findings \subseteq findings'
      /\ state \in {"gone", "paused"} => Finding("supabase-backend-down", turn + 1) \in findings'
  BY DEF BackendIs
<1>2. /\ used \in Nat /\ redirects \in Nat /\ turn \in Nat
      /\ site.scripts \in Nat /\ OverHttp \in {0, 1} /\ OverHttp' = OverHttp
      /\ used <= 5 + OverHttp + site.scripts + turn + redirects
  BY SiteCounts DEF WholeInv, InBudget, ScanInv, ScanTypes, OverHttp
<1>3. InBudget'
  <2> DEFINE s == site.scripts
             h == OverHttp
  <2>1. used' <= 5 + h + s + turn' + redirects /\ used' \in Nat
    <3>1. s \in Nat /\ h \in {0, 1} /\ used <= 5 + h + s + turn + redirects
      BY <1>2
    <3> HIDE DEF s, h
    <3> QED BY <1>1, <1>2, <3>1
  <2> QED BY <1>1, <1>2, <2>1 DEF InBudget
<1>4. ASSUME Unhurt' PROVE Whole'
  <2>1. Unhurt /\ (supabaseProjectHosts[turn + 1] # "ok" => state \in {"gone", "paused"})
    BY <1>4
  <2>2. supabaseProjectHosts = Projects
    BY <2>1, ProjectsKnown DEF WholeInv, ScanInv, Whole
  <2>3. \A f \in BackendFindings : f.n <= turn' => f \in findings'
    <3> SUFFICES ASSUME NEW f \in BackendFindings, f.n <= turn', f \notin findings PROVE f \in findings'
      BY <1>1
    <3>1. f = Finding("supabase-backend-down", f.n) /\ f.n \in 1 .. Len(Projects) /\ Projects[f.n] # "ok"
      BY DEF BackendFindings, Finding
    <3>2. ~(f.n <= turn)
      BY <2>1 DEF WholeInv, Whole
    <3>3. f.n = turn + 1
      <4>1. Len(Projects) \in Nat
        BY SiteCounts DEF WholeInv, ScanInv
      <4>2. f.n \in Nat /\ f.n <= turn + 1
        BY <1>1, <3>1, <4>1
      <4> QED BY <1>2, <3>2, <4>2
    <3> QED BY <1>1, <2>1, <2>2, <3>1, <3>3
  <2>4. /\ HttpFindings' = HttpFindings /\ SecretFindings' = SecretFindings /\ FileFindings' = FileFindings
        /\ HeaderFindings' = HeaderFindings /\ BackendFindings' = BackendFindings
    BY SiteStays
  <2> QED BY <1>1, <2>1, <2>3, <2>4 DEF WholeInv, Whole
<1> QED BY <1>3, <1>4

LEMMA ResolveWhole ==
  ASSUME WholeInv, resolveHost
  PROVE  InBudget' /\ (Unhurt' => Whole')
<1>1. /\ stage = "backend" /\ turn < Len(supabaseProjectHosts) /\ BackendIs("gone")
      /\ site' = site /\ redirects' = redirects /\ used' = used /\ missed' = missed /\ late' = late
  BY DEF resolveHost, requester
<1>2. Unhurt' => Unhurt
  BY <1>1, UnhurtBefore DEF WholeInv, ScanInv
<1> QED BY <1>1, <1>2, BackendWhole

LEMMA AskWhole ==
  ASSUME WholeInv, NEW outcome \in Outcomes, checkSupabaseBackend(outcome)
  PROVE  InBudget' /\ (Unhurt' => Whole')
<1>1. /\ stage = "backend" /\ turn < Len(supabaseProjectHosts) /\ fetch(outcome)
      /\ site' = site /\ redirects' = redirects /\ used' \in {used, used + 1}
  BY DEF checkSupabaseBackend, fetch
<1>2. Len(supabaseProjectHosts) <= Len(Projects) /\ turn < Len(Projects)
  <2>1. supabaseProjectHosts = <<>> \/ supabaseProjectHosts = Projects
    BY ProjectsKnown DEF WholeInv, ScanInv
  <2>2. Len(Projects) \in Nat /\ turn \in Nat /\ Len(<<>>) = 0
    BY SiteCounts DEF WholeInv, ScanInv, ScanTypes
  <2>3. CASE supabaseProjectHosts = <<>>
    <3>1. turn < 0
      BY <1>1, <2>2, <2>3
    <3> QED BY <2>2, <3>1
  <2>4. CASE supabaseProjectHosts = Projects
    BY <1>1, <2>2, <2>4
  <2> QED BY <2>1, <2>3, <2>4
<1>3. Unhurt' => Unhurt /\ outcome = "answer"
  BY <1>1, <1>2, Answered DEF WholeInv, ScanInv
<1>4. PICK state : /\ BackendIs(state)
                   /\ outcome = "answer" => supabaseProjectHosts[turn + 1] = state /\ state # "gone"
  BY DEF checkSupabaseBackend
<1>5. supabaseProjectHosts[turn + 1] \in {"ok", "paused", "gone"}
  <2>1. supabaseProjectHosts \in {<<>>, site.backends} /\ turn \in Nat
    BY DEF supabaseProjectHosts, WholeInv, ScanInv, ScanTypes
  <2>2. Len(site.backends) \in Nat /\ \A i \in 1 .. Len(site.backends) : site.backends[i] \in {"ok", "paused", "gone"}
    BY DEF WholeInv, ScanInv, ScanTypes, SiteRecords
  <2> QED BY <1>1, <2>1, <2>2
<1>6. Unhurt' => Unhurt /\ (supabaseProjectHosts[turn + 1] # "ok" => state \in {"gone", "paused"})
  BY <1>3, <1>4, <1>5
<1> QED BY <1>1, <1>4, <1>6, BackendWhole

\* The notice is added when no project is found to be down.
LEMMA FinishWhole ==
  ASSUME WholeInv, Finish
  PROVE  InBudget' /\ (Unhurt' => Whole')
<1>1. /\ stage = "backend" /\ stage' = "done" /\ turn = Len(supabaseProjectHosts)
      /\ site' = site /\ used' = used /\ redirects' = redirects /\ missed' = missed /\ late' = late
  BY DEF Finish, requester
<1>2. InBudget'
  BY <1>1 DEF WholeInv, InBudget
<1>3. ASSUME Unhurt' PROVE findings' = Complete'
  <2>1. Unhurt /\ Whole
    BY <1>1, <1>3, UnhurtBefore DEF WholeInv, ScanInv
  <2>2. texts = site.texts /\ turn = Len(Projects)
    BY <1>1, <2>1, ProjectsKnown DEF Whole, WholeInv, ScanInv
  <2>3. BackendFindings \subseteq findings
    <3>1. Len(Projects) \in Nat
      BY SiteCounts DEF WholeInv, ScanInv
    <3>2. \A f \in BackendFindings : f.n <= turn
      BY <2>2, <3>1 DEF BackendFindings, Finding
    <3> QED BY <1>1, <2>1, <3>2 DEF Whole
  <2>4. findings = Trouble
    <3>1. findings \subseteq Trouble
      BY <1>1 DEF WholeInv, ScanInv, AllSo
    <3> QED BY <1>1, <2>1, <2>3, <3>1 DEF Whole, Trouble
  <2>5. (\E f \in findings : f.id = "supabase-backend-down") <=> BackendFindings # {}
    <3>1. \A f \in HttpFindings \cup FileFindings \cup HeaderFindings : f.id # "supabase-backend-down"
      BY DEF HttpFindings, FileFindings, HeaderFindings, Finding, HEADER_CHECKS
    <3>2. \A f \in SecretFindings : f.id # "supabase-backend-down"
      <4>1. site.secret \in Secrets
        BY DEF WholeInv, ScanInv, ScanTypes, SiteRecords, Secrets
      <4> QED BY <4>1, SecretIds DEF SecretFindings, Finding
    <3>3. \A f \in BackendFindings : f.id = "supabase-backend-down"
      BY DEF BackendFindings, Finding
    <3> QED BY <2>4, <3>1, <3>2, <3>3 DEF Trouble
  <2>6. findings' = Complete
    BY <2>2, <2>4, <2>5 DEF Finish, Complete, Unseen
  <2> QED BY <1>1, <2>6, SiteStays
<1> QED BY <1>1, <1>2, <1>3 DEF Whole

\* A redirect uses one request of the budget and counts as one.
LEMMA RedirectWhole ==
  ASSUME WholeInv, Redirected
  PROVE  InBudget' /\ (Unhurt' => Whole')
<1>1. /\ stage \in {"page", "scripts"} /\ used' = used + 1 /\ redirects' = redirects + 1 /\ site' = site
      /\ UNCHANGED <<stage, turn, texts, findings>> /\ missed' = missed /\ late' = late
  BY DEF Redirected, report
<1>2. InBudget'
  <2>1. used \in Nat /\ redirects \in Nat
    BY DEF WholeInv, InBudget
  <2>2. CASE stage = "page"
    BY <1>1, <2>1, <2>2 DEF WholeInv, InBudget
  <2>3. CASE stage = "scripts"
    <3> DEFINE h == OverHttp
    <3>1. h' = h /\ h \in {0, 1} /\ turn \in Nat
      BY <1>1, SiteCounts DEF WholeInv, ScanInv, ScanTypes, OverHttp
    <3>2. used <= 1 + h + turn + redirects /\ turn <= site.scripts
      BY <2>3 DEF WholeInv, InBudget
    <3>3. used' <= 1 + h' + turn' + redirects'
      <4> HIDE DEF h
      <4> QED BY <1>1, <2>1, <3>1, <3>2
    <3> QED BY <1>1, <2>1, <2>3, <3>2, <3>3 DEF InBudget
  <2> QED BY <1>1, <2>2, <2>3
<1>3. Unhurt' => Unhurt
  BY <1>1, UnhurtBefore DEF WholeInv, ScanInv
<1> QED BY <1>1, <1>2, <1>3, WholeStays DEF WholeInv

\* Steps that send nothing and find nothing.
LEMMA QuietWhole ==
  ASSUME WholeInv, UNCHANGED <<site, turn, used, missed, redirects, texts, findings>>, ~late' => ~late,
         stage' = stage \/ (stage = "idle" /\ stage' = "page")
  PROVE  InBudget' /\ (Unhurt' => Whole')
<1>1. OverHttp' = OverHttp
  BY DEF OverHttp
<1>2. InBudget'
  BY <1>1 DEF WholeInv, InBudget
<1>3. Unhurt' => Unhurt
  BY UnhurtBefore DEF WholeInv, ScanInv
<1>4. CASE stage' = stage
  BY <1>2, <1>3, <1>4, WholeStays DEF WholeInv
<1>5. CASE stage' = "page"
  BY <1>2, <1>5 DEF Whole
<1> QED BY <1>4, <1>5

LEMMA NextWhole == WholeInv /\ [CheckNext]_checkVars => WholeInv'
<1> SUFFICES ASSUME WholeInv, [CheckNext]_checkVars PROVE InBudget' /\ (Unhurt' => Whole')
  BY NextScan DEF WholeInv
<1>1. CASE UNCHANGED checkVars \/ HourPasses
  BY <1>1, QuietWhole DEF checkVars, scan, requester, report, HourPasses
<1>2. ASSUME NEW v \in Visits, hourWindow(v) \/ consumeCheckAllowance(v) \/ RunAppCheck(v)
      PROVE  InBudget' /\ (Unhurt' => Whole')
  BY <1>2, QuietWhole DEF scan, requester, report, hourWindow, consumeCheckAllowance, RunAppCheck
<1>3. CASE DeadlinePasses
  BY <1>3, QuietWhole DEF DeadlinePasses, report
<1> QED BY <1>1, <1>2, <1>3, PageWhole, InsecureWhole, ScriptWhole, ProbeWhole, AskWhole, SecretsWhole,
           HeadersWhole, ResolveWhole, FinishWhole, RedirectWhole DEF CheckNext

LEMMA WholeIsKept == CheckSpec => []WholeInv
BY InitWhole, NextWhole, PTL DEF CheckSpec

\* Leaving out findings does not lower the score.
LEMMA ScoreHides ==
  ASSUME IsFiniteSet(findings), IsFiniteSet(Complete), findings \subseteq Complete \cup {Unseen}
  PROVE  scoreFindings(findings) >= scoreFindings(Complete)
<1> DEFINE Of(found, severity) == {f \in found : Severity(f.id) = severity}
           C(found, severity) == Cardinality(Of(found, severity))
           cost(found) == 8 * C(found, "critical") + 4 * C(found, "high") + 2 * C(found, "medium") + C(found, "low")
           Rounded(n) == IF n >= 20 THEN 0 ELSE (21 - n) \div 2
<1>1. \A severity : /\ IsFiniteSet(Of(findings, severity)) /\ C(findings, severity) \in Nat
                    /\ IsFiniteSet(Of(Complete, severity)) /\ C(Complete, severity) \in Nat
  BY FS_Subset, FS_CardinalityType
<1>2. Severity(Unseen.id) = "info"
  BY DEF Severity, SECRET_PATTERNS, Unseen, Finding
<1>3. ASSUME NEW severity, severity # "info" PROVE C(findings, severity) <= C(Complete, severity)
  <2>1. Of(findings, severity) \subseteq Of(Complete, severity)
    BY <1>2, <1>3
  <2> QED BY <1>1, <2>1, FS_Subset
<1>4. \A found : (\A severity : C(found, severity) \in Nat) => scoreFindings(found) = Rounded(cost(found))
  <2> SUFFICES ASSUME NEW found, \A severity : C(found, severity) \in Nat
               PROVE  scoreFindings(found) = Rounded(cost(found))
    OBVIOUS
  <2>1. /\ SEVERITY_COST["critical"] = 8 /\ SEVERITY_COST["high"] = 4 /\ SEVERITY_COST["medium"] = 2
        /\ SEVERITY_COST["low"] = 1 /\ SEVERITY_COST["info"] = 0
    BY DEF SEVERITY_COST
  <2> DEFINE c == C(found, "critical")
             h == C(found, "high")
             m == C(found, "medium")
             l == C(found, "low")
             i == C(found, "info")
  <2>2. 8 * c + 4 * h + 2 * m + 1 * l + 0 * i = 8 * c + 4 * h + 2 * m + l
    <3>1. c \in Nat /\ h \in Nat /\ m \in Nat /\ l \in Nat /\ i \in Nat
      OBVIOUS
    <3> HIDE DEF c, h, m, l, i
    <3> QED BY <3>1
  <2> QED BY <2>1, <2>2 DEF scoreFindings
<1>5. cost(findings) \in Nat /\ cost(Complete) \in Nat /\ cost(findings) <= cost(Complete)
  <2> DEFINE a == C(findings, "critical")
             b == C(findings, "high")
             c == C(findings, "medium")
             d == C(findings, "low")
             w == C(Complete, "critical")
             x == C(Complete, "high")
             y == C(Complete, "medium")
             z == C(Complete, "low")
  <2>1. /\ a \in Nat /\ b \in Nat /\ c \in Nat /\ d \in Nat /\ w \in Nat /\ x \in Nat /\ y \in Nat /\ z \in Nat
        /\ a <= w /\ b <= x /\ c <= y /\ d <= z
    BY <1>1, <1>3
  <2> HIDE DEF a, b, c, d, w, x, y, z
  <2>2. LET n == 8 * a + 4 * b + 2 * c + d
            k == 8 * w + 4 * x + 2 * y + z
        IN  n \in Nat /\ k \in Nat /\ n <= k
    BY <2>1
  <2> QED BY <2>2 DEF a, b, c, d, w, x, y, z
<1>6. \A n \in Nat, k \in Nat : n <= k => Rounded(n) >= Rounded(k)
  OBVIOUS
<1>7. scoreFindings(findings) = Rounded(cost(findings)) /\ scoreFindings(Complete) = Rounded(cost(Complete))
  BY <1>1, <1>4
<1> HIDE DEF Rounded, cost
<1> QED BY <1>5, <1>6, <1>7

\* What the worst finding leaves of the ten points.
LEMMA ScoreFollows ==
  ASSUME IsFiniteSet(findings)
  PROVE  /\ (\E f \in findings : Severity(f.id) = "critical") => scoreFindings(findings) <= 6
         /\ scoreFindings(findings) = 10 => \A f \in findings : Severity(f.id) \in {"low", "info"}
<1> DEFINE Of(severity) == {f \in findings : Severity(f.id) = severity}
           c == Cardinality(Of("critical"))
           h == Cardinality(Of("high"))
           m == Cardinality(Of("medium"))
           l == Cardinality(Of("low"))
           i == Cardinality(Of("info"))
           cost == 8 * c + 4 * h + 2 * m + l
           score == IF cost >= 20 THEN 0 ELSE (21 - cost) \div 2
<1>1. \A severity : IsFiniteSet(Of(severity)) /\ Cardinality(Of(severity)) \in Nat
  BY FS_Subset, FS_CardinalityType
<1>2. \A f \in findings : Cardinality(Of(Severity(f.id))) # 0
  BY <1>1, FS_EmptySet
<1>3. c \in Nat /\ h \in Nat /\ m \in Nat /\ l \in Nat /\ i \in Nat
  BY <1>1
<1>4. \A f \in findings : Severity(f.id) \in {"critical", "high", "medium", "low", "info"}
  BY DEF Severity, SECRET_PATTERNS
<1>5. scoreFindings(findings) = score
  <2>1. /\ SEVERITY_COST["critical"] = 8 /\ SEVERITY_COST["high"] = 4 /\ SEVERITY_COST["medium"] = 2
        /\ SEVERITY_COST["low"] = 1 /\ SEVERITY_COST["info"] = 0
    BY DEF SEVERITY_COST
  <2>2. 8 * c + 4 * h + 2 * m + 1 * l + 0 * i = cost
    <3> HIDE DEF c, h, m, l, i
    <3> QED BY <1>3
  <2> QED BY <2>1, <2>2 DEF scoreFindings
<1>6. c # 0 => score <= 6
  <2> HIDE DEF c, h, m, l
  <2> QED BY <1>3
<1>7. score = 10 => c = 0 /\ h = 0 /\ m = 0
  <2> HIDE DEF c, h, m, l
  <2> QED BY <1>3
<1> HIDE DEF score
<1> QED BY <1>2, <1>4, <1>5, <1>6, <1>7

\* Requests that fail, are redirected or are not sent any more only hide
\* trouble, whatever the budget, and a scan that lost none of its requests
\* reports all of it (runAppCheck, safeFetch).
THEOREM FailuresHide == CheckSpec => []FailuresOnlyHide
<1>1. WholeInv => FailuresOnlyHide
  <2> SUFFICES ASSUME WholeInv PROVE FailuresOnlyHide
    OBVIOUS
  <2>1. findings \subseteq Complete \cup {Unseen}
    BY DEF WholeInv, ScanInv, AllSo, Complete
  <2>2. scoreFindings(findings) >= scoreFindings(Complete)
    BY <2>1, FoundFinite, ScoreHides DEF WholeInv, ScanInv
  <2>3. stage = "done" /\ Unhurt => findings = Complete
    BY DEF WholeInv, Whole
  <2> QED BY <2>1, <2>2, <2>3 DEF FailuresOnlyHide, Unhurt
<1> QED BY <1>1, WholeIsKept, PTL

\* The report never says of one thing both, and its score follows its
\* findings (runAppCheck, scoreFindings).
THEOREM OneThingIsSaid == CheckSpec => []SaysOneThing
<1>1. ScanInv => SaysOneThing
  <2> SUFFICES ASSUME ScanInv PROVE SaysOneThing
    OBVIOUS
  <2>1. \A ids : Tells(ids) <=> Found \cap ids # {}
    BY DEF Tells, Found
  <2>2. \A f \in Found : \E g \in findings : g.id = f
    BY DEF Found
  <2>3. /\ (\E f \in Found : Severity(f) = "critical") => scoreFindings(findings) <= 6
        /\ scoreFindings(findings) = 10 => \A f \in Found : Severity(f) \in {"low", "info"}
    BY <2>2, ScoreFollows, FoundFinite DEF ScanInv
  <2> QED BY <2>1, <2>3
          DEF ScanInv, OneThing, OneOfSecrets, OneOfFiles, OneOfHttp, OneOfBackend, SaysOneThing, Secrets
<1> QED BY <1>1, ScanIsKept, PTL

-----------------------------------------------------------------------------
(***************************************************************************)
(* The panel, for any number of deployments and requests.                  *)
(*                                                                         *)
(* That two submissions are never for one deployment rests on the marks of *)
(* what is pending: a submission on its way has marked its deployment, and *)
(* a mark is taken off when no submission is for it (RequestsOf). A click  *)
(* submits for the deployment that is shown, and the mark is looked up for *)
(* the one the page is about, so PageInv also has to say when those two    *)
(* are the same: a deployment may be shown as a later one only if the page *)
(* the server gives next will be about that one or a later one (ShownOf,   *)
(* Promised). It is about the page of an uploaded app, as SubmitsOnce is.  *)
(***************************************************************************)

\* The requests that the page of an uploaded app makes.
Submits == {"start", "retry", "redeploy"}

Asks == Submits \cup {"save", "poll", "look"}

\* What is known of a request when there are n deployments and these are
\* marked: that of a submission is. An answer is of the deployment that was
\* asked about or, of a retry or a redeploy, of a later one.
RequestOf(r, n, marked) ==
  /\ DOMAIN r = {"kind", "deployment", "shownAs", "n", "mine", "answer"}
  /\ r.kind \in Asks
  /\ r.kind # "save" => r.deployment \in 1 .. n
  /\ r.kind \in Submits => r.shownAs = r.deployment /\ marked[r.deployment]
  /\ r.kind # "save" /\ r.answer # Nothing /\ r.answer.ok =>
       /\ r.answer.snapshot.id \in r.deployment .. n
       /\ r.kind \in {"poll", "look"} => r.answer.snapshot.id = r.deployment

\* No two submissions are for the same deployment.
Apart(rs) ==
  \A r, q \in rs : r.kind \in Submits /\ q.kind \in Submits /\ r.deployment = q.deployment => r = q

RequestsOf(rs, n, marked) ==
  /\ IsFiniteSet(rs)
  /\ \A r \in rs : RequestOf(r, n, marked)
  /\ Apart(rs)

DeploymentRows ==
  [status : {"ANALYZING", "BUILDING", "LIVE", "FAILED"}, started : BOOLEAN, commit : Nat, parent : Nat]

\* Only the newest deployment may be on its way.
RowsInv ==
  /\ rows \in Seq(DeploymentRows) /\ Len(rows) \in 1 .. MaxDeployments
  /\ \A d \in 1 .. Len(rows) - 1 : rows[d].status \notin {"ANALYZING", "BUILDING"}

\* What the server gave with a page is about a deployment there is.
PageOf(given, from) ==
  given.analysis \in from .. Len(rows) /\ given.currentDeployment.id = given.analysis

\* The deployment the page will be about at least, once no refresh is awaited.
Promised ==
  IF refresh.at = "none" THEN props.analysis
  ELSE IF refresh.at = "answered" /\ ~refresh.again THEN refresh.page.analysis
  ELSE Len(rows)

RefreshInv ==
  /\ DOMAIN refresh = {"at", "page", "again"}
  /\ refresh.at \in {"none", "sent", "answered"} /\ refresh.again \in BOOLEAN
  /\ PageOf(props, 1)
  /\ refresh.at = "answered" => PageOf(refresh.page, props.analysis)

\* A deployment is shown as itself, or as a later one that the page will be
\* about.
ShownOf(shown) ==
  \A d \in 0 .. MaxDeployments : shown[d] # Nothing =>
    /\ shown[d].id \in 1 .. Len(rows)
    /\ shown[d].id = d \/ (d < shown[d].id /\ shown[d].id <= Promised)

PanelInv ==
  /\ analysisState = NoAnalysis
  /\ deploymentPending \in [0 .. MaxDeployments -> BOOLEAN]
  /\ DOMAIN deploymentState = 0 .. MaxDeployments
  /\ ShownOf(deploymentState)

PageInv ==
  page = "uploaded" /\ ~lost =>
    RowsInv /\ RefreshInv /\ PanelInv /\ RequestsOf(requests, Len(rows), deploymentPending)

PageParts == RowsInv /\ RefreshInv /\ PanelInv /\ RequestsOf(requests, Len(rows), deploymentPending)

-----------------------------------------------------------------------------
(* Requests.                                                               *)

LEMMA FewerRequests ==
  ASSUME NEW rs, NEW n, NEW marked, RequestsOf(rs, n, marked), NEW some, some \subseteq rs
  PROVE  RequestsOf(some, n, marked)
BY FS_Subset DEF RequestsOf, Apart

LEMMA MoreDeployments ==
  ASSUME NEW rs, NEW n \in Nat, NEW m \in Nat, NEW marked, n <= m, RequestsOf(rs, n, marked)
  PROVE  RequestsOf(rs, m, marked)
<1>1. ASSUME NEW r \in rs PROVE RequestOf(r, m, marked)
  <2>1. RequestOf(r, n, marked)
    BY DEF RequestsOf
  <2>2. r.kind # "save" => r.deployment \in 1 .. m
    BY <2>1 DEF RequestOf
  <2>3. r.kind # "save" /\ r.answer # Nothing /\ r.answer.ok => r.answer.snapshot.id \in r.deployment .. m
    BY <2>1 DEF RequestOf
  <2> QED BY <2>1, <2>2, <2>3 DEF RequestOf
<1> QED BY <1>1 DEF RequestsOf

LEMMA OneRequestMore ==
  ASSUME NEW rs, NEW n, NEW marked, RequestsOf(rs, n, marked), NEW new, RequestOf(new, n, marked),
         \A r \in rs : ~(r.kind \in Submits /\ new.kind \in Submits /\ r.deployment = new.deployment)
  PROVE  RequestsOf(rs \cup {new}, n, marked)
<1>1. IsFiniteSet(rs \cup {new})
  BY FS_AddElement DEF RequestsOf
<1>2. Apart(rs \cup {new})
  BY DEF RequestsOf, Apart
<1> QED BY <1>1, <1>2 DEF RequestsOf

\* A deployment can be marked, or no longer when no submission is for it.
LEMMA MarkChanged ==
  ASSUME NEW rs, NEW n \in 0 .. MaxDeployments, NEW marked \in [0 .. MaxDeployments -> BOOLEAN],
         RequestsOf(rs, n, marked), NEW d, NEW mark \in BOOLEAN,
         mark \/ \A r \in rs : r.kind \in Submits => r.deployment # d
  PROVE  RequestsOf(rs, n, [marked EXCEPT ![d] = mark])
<1>1. ASSUME NEW r \in rs, r.kind \in Submits
      PROVE  [marked EXCEPT ![d] = mark][r.deployment]
  <2>1. marked[r.deployment] /\ r.deployment \in 0 .. MaxDeployments
    BY <1>1, PageAssumption DEF RequestsOf, RequestOf, Submits
  <2> QED BY <1>1, <2>1
<1>2. ASSUME NEW r \in rs PROVE RequestOf(r, n, [marked EXCEPT ![d] = mark])
  BY <1>1 DEF RequestsOf, RequestOf
<1> QED BY <1>2 DEF RequestsOf

\* Drawing the page changes no more of a request than whether it is the poll's.
LEMMA DrawKeeps ==
  ASSUME NEW next, NEW waiting, NEW n, NEW marked, Draw(next, waiting), RequestsOf(waiting, n, marked)
  PROVE  RequestsOf(requests', n, marked)
<1> DEFINE Changed(r) == [r EXCEPT !.mine = FALSE]
<1>1. CASE requests' = waiting
  BY <1>1
<1>2. CASE requests' = {Changed(r) : r \in waiting}
  <2>1. ASSUME NEW r \in waiting
        PROVE  /\ RequestOf(Changed(r), n, marked)
               /\ Changed(r).kind = r.kind /\ Changed(r).deployment = r.deployment
    <3>1. RequestOf(r, n, marked)
      BY DEF RequestsOf
    <3>2. /\ DOMAIN Changed(r) = DOMAIN r
          /\ Changed(r).kind = r.kind /\ Changed(r).deployment = r.deployment
          /\ Changed(r).shownAs = r.shownAs /\ Changed(r).answer = r.answer
      BY <3>1 DEF RequestOf
    <3> HIDE DEF Changed
    <3> QED BY <3>1, <3>2 DEF RequestOf
  <2> HIDE DEF Changed
  <2>2. IsFiniteSet(requests')
    <3> DEFINE f == [r \in waiting |-> Changed(r)]
    <3>1. f \in Surjection(waiting, requests')
      BY <1>2 DEF Surjection
    <3> HIDE DEF f
    <3> QED BY <3>1, FS_Surjection DEF RequestsOf
  <2>3. Apart(requests')
    BY <1>2, <2>1 DEF RequestsOf, Apart
  <2> QED BY <1>2, <2>1, <2>2, <2>3 DEF RequestsOf
<1> QED BY <1>1, <1>2 DEF Draw

LEMMA RepliesKeeps ==
  ASSUME NEW n \in Nat, NEW m \in Nat, n <= m, NEW marked, RequestsOf(requests, n, marked),
         NEW r \in requests, NEW answer, Replies(r, answer),
         r.kind # "save" /\ answer # Nothing /\ answer.ok =>
           /\ answer.snapshot.id \in r.deployment .. m
           /\ r.kind \in {"poll", "look"} => answer.snapshot.id = r.deployment
  PROVE  RequestsOf(requests', m, marked)
<1> DEFINE new == [r EXCEPT !.answer = answer]
<1>1. RequestsOf(requests, m, marked)
  BY MoreDeployments
<1>2. RequestsOf(requests \ {r}, m, marked)
  BY <1>1, FewerRequests
<1>3. /\ DOMAIN new = DOMAIN r
      /\ new.kind = r.kind /\ new.deployment = r.deployment /\ new.shownAs = r.shownAs
      /\ new.answer = answer
  BY <1>1 DEF RequestsOf, RequestOf
<1>4. requests' = (requests \ {r}) \cup {new}
  BY DEF Replies
<1> HIDE DEF new
<1>5. RequestOf(new, m, marked)
  BY <1>1, <1>3 DEF RequestsOf, RequestOf
<1>6. \A q \in requests \ {r} : ~(q.kind \in Submits /\ new.kind \in Submits /\ q.deployment = new.deployment)
  BY <1>1, <1>3 DEF RequestsOf, Apart
<1> QED BY <1>2, <1>4, <1>5, <1>6, OneRequestMore

-----------------------------------------------------------------------------
(* Deployments.                                                            *)

LEMMA NoRowsYet ==
  RowsInv => /\ Len(rows) \in Nat \ {0} /\ Len(rows) \in 1 .. Len(rows)
             /\ \A d \in 1 .. Len(rows) : rows[d] \in DeploymentRows /\ d \in Nat
BY PageAssumption DEF RowsInv

\* A deployment's state changes, and only the newest one may be on its way.
LEMMA RowChanged ==
  ASSUME RowsInv, NEW d \in 1 .. Len(rows), NEW new \in DeploymentRows,
         rows' = [rows EXCEPT ![d] = new],
         \/ new.status \notin {"ANALYZING", "BUILDING"}
         \/ rows[d].status \in {"ANALYZING", "BUILDING"}
  PROVE  RowsInv' /\ Len(rows') = Len(rows)
<1>1. /\ rows' \in Seq(DeploymentRows) /\ Len(rows') = Len(rows)
      /\ \A e \in 1 .. Len(rows) : rows'[e] = IF e = d THEN new ELSE rows[e]
  BY DEF RowsInv
<1>2. \A e \in 1 .. Len(rows) - 1 : e \in 1 .. Len(rows)
  BY NoRowsYet
<1>3. \A e \in 1 .. Len(rows') - 1 : rows'[e].status \notin {"ANALYZING", "BUILDING"}
  BY <1>1, <1>2 DEF RowsInv
<1> QED BY <1>1, <1>3 DEF RowsInv

LEMMA StartedKeeps ==
  ASSUME RowsInv, NEW d \in 1 .. Len(rows), Started(d)
  PROVE  RowsInv' /\ Len(rows') = Len(rows)
<1> DEFINE new == [rows[d] EXCEPT !.started = TRUE]
<1>1. rows' = [rows EXCEPT ![d] = new]
  BY DEF Started
<1>2. new \in DeploymentRows /\ new.status = rows[d].status
  BY NoRowsYet DEF DeploymentRows
<1> HIDE DEF new
<1> QED BY <1>1, <1>2, RowChanged

LEMMA AdvanceKeeps ==
  ASSUME RowsInv, NEW d \in Ids, Advance(d)
  PROVE  RowsInv' /\ Len(rows') = Len(rows)
<1>1. d \in 1 .. Len(rows)
  BY NoRowsYet DEF Ids, Advance
<1>2. rows[d].status \in {"ANALYZING", "BUILDING"}
  BY DEF Advance, Snapshot
<1>3. PICK s \in {"BUILDING", "LIVE", "FAILED"} : rows' = [rows EXCEPT ![d].status = s]
  BY DEF Advance
<1> DEFINE new == [rows[d] EXCEPT !.status = s]
<1>4. rows' = [rows EXCEPT ![d] = new]
  BY <1>3
<1>5. new \in DeploymentRows
  BY <1>1, NoRowsYet DEF DeploymentRows
<1> HIDE DEF new
<1> QED BY <1>1, <1>2, <1>4, <1>5, RowChanged

LEMMA InsertKeeps ==
  ASSUME RowsInv, NEW commit \in Nat, NEW parent \in Nat, InsertRow(commit, parent),
         rows[Len(rows)].status \notin {"ANALYZING", "BUILDING"}
  PROVE  RowsInv' /\ Len(rows') = Len(rows) + 1
<1> DEFINE new == Row("ANALYZING", TRUE, commit, parent)
<1>1. new \in DeploymentRows
  BY DEF Row, DeploymentRows
<1> HIDE DEF new
<1>2. rows' = Append(rows, new) /\ Len(rows) < MaxDeployments
  BY DEF InsertRow, new
<1>3. /\ rows' \in Seq(DeploymentRows) /\ Len(rows') = Len(rows) + 1
      /\ \A d \in 1 .. Len(rows) : rows'[d] = rows[d]
  BY <1>1, <1>2 DEF RowsInv
<1>4. \A d \in 1 .. Len(rows') - 1 : d \in 1 .. Len(rows) /\ (d = Len(rows) \/ d \in 1 .. Len(rows) - 1)
  BY <1>3, NoRowsYet
<1>5. \A d \in 1 .. Len(rows') - 1 : rows'[d].status \notin {"ANALYZING", "BUILDING"}
  BY <1>3, <1>4 DEF RowsInv
<1>6. Len(rows') \in 1 .. MaxDeployments
  BY <1>2, <1>3, NoRowsYet, PageAssumption
<1> QED BY <1>3, <1>5, <1>6 DEF RowsInv

\* The retries of a deployment are no older than it.
LEMMA LineageStarts ==
  ASSUME RowsInv, NEW d \in 1 .. Len(rows), NEW e \in NewestOf(Lineage(d))
  PROVE  e \in 1 .. Len(rows) /\ d <= e
<1>1. d \in Lineage(d) /\ Lineage(d) \subseteq 1 .. Len(rows)
  BY DEF Lineage
<1> QED BY <1>1 DEF NewestOf

-----------------------------------------------------------------------------
(* What the page shows.                                                    *)

\* What is shown is of the deployment that the page is about and, while no
\* refresh is awaited, is that deployment itself.
LEMMA ShownNow ==
  ASSUME PageParts
  PROVE  /\ analysis.deployment = props.analysis /\ props.analysis \in 1 .. Len(rows)
         /\ currentDeployment.id \in 1 .. Len(rows)
         /\ ~isPending => currentDeployment.id = props.analysis
<1>1. /\ analysis.deployment = props.analysis
      /\ analysis.currentDeployment = props.currentDeployment
  BY DEF PageParts, PanelInv, analysis, NoAnalysis
<1>2. props.analysis \in 1 .. Len(rows) /\ props.currentDeployment.id = props.analysis
  BY DEF PageParts, RefreshInv, PageOf
<1>3. props.analysis \in 0 .. MaxDeployments
  BY <1>2, PageAssumption DEF PageParts, RowsInv
<1>4. deployment = deploymentState[props.analysis]
  BY <1>1 DEF deployment
<1>5. CASE deployment # Nothing
  <2>1. /\ deployment.id \in 1 .. Len(rows)
        /\ deployment.id = props.analysis \/ (props.analysis < deployment.id /\ deployment.id <= Promised)
    BY <1>3, <1>4, <1>5 DEF PageParts, PanelInv, ShownOf
  <2>2. ~isPending => Promised = props.analysis
    BY DEF isPending, Promised
  <2>3. ~isPending => deployment.id = props.analysis
    BY <1>2, <2>1, <2>2
  <2> QED BY <1>1, <1>2, <1>5, <2>1, <2>3 DEF currentDeployment
<1>6. CASE deployment = Nothing
  <2>1. currentDeployment.id = props.analysis
    BY <1>1, <1>2, <1>6 DEF currentDeployment
  <2> QED BY <1>1, <1>2, <2>1
<1> QED BY <1>5, <1>6

\* More deployments, and the page left alone.
LEMMA PageKept ==
  ASSUME PageParts, RowsInv', Len(rows) <= Len(rows'),
         props' = props, refresh' = refresh, analysisState' = analysisState,
         deploymentState' = deploymentState,
         deploymentPending' \in [0 .. MaxDeployments -> BOOLEAN]
  PROVE  RefreshInv' /\ PanelInv'
<1>1. Len(rows) \in Nat /\ Len(rows') \in Nat
  BY NoRowsYet DEF PageParts, RowsInv
<1>2. \A given, from : from \in Nat /\ PageOf(given, from) => PageOf(given, from)'
  BY <1>1 DEF PageOf
<1>3. RefreshInv'
  <2>1. props.analysis \in Nat
    BY <1>1 DEF PageParts, RefreshInv, PageOf
  <2> QED BY <1>1, <2>1 DEF PageParts, RefreshInv, PageOf
<1>4. Promised <= Promised' /\ Promised \in Nat
  BY <1>1 DEF PageParts, RefreshInv, PageOf, Promised
<1>5. Promised' \in Nat
  BY <1>1, <1>3 DEF RefreshInv, PageOf, Promised
<1>6. ASSUME NEW d \in 0 .. MaxDeployments, deploymentState[d] # Nothing
      PROVE  /\ deploymentState[d].id \in 1 .. Len(rows')
             /\ \/ deploymentState[d].id = d
                \/ d < deploymentState[d].id /\ deploymentState[d].id <= Promised'
  <2>1. /\ deploymentState[d].id \in 1 .. Len(rows)
        /\ deploymentState[d].id = d \/ (d < deploymentState[d].id /\ deploymentState[d].id <= Promised)
    BY <1>6 DEF PageParts, PanelInv, ShownOf
  <2>2. deploymentState[d].id \in 1 .. Len(rows')
    BY <1>1, <2>1
  <2> QED BY <1>1, <1>4, <1>5, <2>1, <2>2
<1>7. PanelInv'
  BY <1>6 DEF PageParts, PanelInv, ShownOf
<1> QED BY <1>3, <1>7

\* A step of the server's: deployments change and one request is answered.
LEMMA ServerKeeps ==
  ASSUME PageParts, RowsInv', Len(rows) <= Len(rows'), Unchanged,
         RequestsOf(requests', Len(rows'), deploymentPending)
  PROVE  PageParts'
<1>1. /\ props' = props /\ refresh' = refresh /\ analysisState' = analysisState
      /\ deploymentState' = deploymentState /\ deploymentPending' = deploymentPending
  BY DEF Unchanged, panel
<1>2. RefreshInv' /\ PanelInv'
  BY <1>1, PageKept DEF PageParts, PanelInv
<1> QED BY <1>1, <1>2 DEF PageParts

LEMMA AnswersKeep ==
  ASSUME PageParts, NEW r \in requests, Read(r) \/ Answer(r) \/ Fails(r)
  PROVE  PageParts'
<1>1. RowsInv /\ RequestsOf(requests, Len(rows), deploymentPending) /\ RequestOf(r, Len(rows), deploymentPending)
  BY DEF PageParts, RequestsOf
<1>2. Len(rows) \in Nat
  BY <1>1, NoRowsYet
<1>3. rows' = rows /\ Unchanged
  BY DEF Read, Answer, Fails, server
<1>4. CASE Read(r)
  <2>1. r.kind \in {"poll", "look"} /\ Replies(r, Deployment(r.deployment))
    BY <1>4 DEF Read, Unhandled
  <2>2. Deployment(r.deployment).snapshot.id = r.deployment
    BY DEF Deployment, Snapshot
  <2>3. r.deployment \in r.deployment .. Len(rows)
    BY <1>1, <1>2, <2>1 DEF RequestOf
  <2>4. RequestsOf(requests', Len(rows), deploymentPending)
    BY <1>1, <1>2, <2>1, <2>2, <2>3, RepliesKeeps
  <2> QED BY <1>1, <1>2, <1>3, <2>4, ServerKeeps DEF RowsInv
<1>5. CASE Answer(r) \/ Fails(r)
  <2>1. \/ r.kind = "save" /\ \E answer : Replies(r, answer)
        \/ Replies(r, [ok |-> FALSE])
    BY <1>1, <1>5 DEF Answer, Fails, Unhandled, Refuse, RequestOf, Asks, Submits
  <2>2. RequestsOf(requests', Len(rows), deploymentPending)
    BY <1>1, <1>2, <2>1, RepliesKeeps
  <2> QED BY <1>1, <1>2, <1>3, <2>2, ServerKeeps DEF RowsInv
<1> QED BY <1>4, <1>5

\* A submission is answered with its deployment or a later one.
LEMMA ServerAnswers ==
  ASSUME PageParts, NEW r \in requests, r.kind \in Submits, Unchanged,
         RowsInv', Len(rows) <= Len(rows'),
         NEW d \in 1 .. Len(rows'), r.deployment <= d, Replies(r, Deployment(d))
  PROVE  PageParts'
<1>1. RequestsOf(requests, Len(rows), deploymentPending) /\ RequestOf(r, Len(rows), deploymentPending)
  BY DEF PageParts, RequestsOf
<1>2. Len(rows) \in Nat /\ Len(rows') \in Nat
  BY NoRowsYet DEF PageParts, RowsInv
<1>3. Deployment(d).snapshot.id = d
  BY DEF Deployment, Snapshot
<1>4. d \in r.deployment .. Len(rows')
  BY <1>1, <1>2 DEF RequestOf, Submits
<1>5. r.kind \notin {"poll", "look", "save"}
  BY DEF Submits
<1>6. RequestsOf(requests', Len(rows'), deploymentPending)
  BY <1>1, <1>2, <1>3, <1>4, <1>5, RepliesKeeps
<1> QED BY <1>6, ServerKeeps

LEMMA RefusalsKeep ==
  ASSUME PageParts, NEW r \in requests, Refused(r), Unchanged
  PROVE  PageParts'
<1>1. RowsInv /\ RequestsOf(requests, Len(rows), deploymentPending) /\ Len(rows) \in Nat
  BY NoRowsYet DEF PageParts
<1>2. rows' = rows /\ Replies(r, [ok |-> FALSE])
  BY DEF Refused, Refuse, server
<1>3. RequestsOf(requests', Len(rows), deploymentPending)
  BY <1>1, <1>2, RepliesKeeps
<1> QED BY <1>1, <1>2, <1>3, ServerKeeps DEF RowsInv

LEMMA StartKeeps ==
  ASSUME PageParts, NEW r \in requests, Start(r)
  PROVE  PageParts'
<1>1. RowsInv /\ RequestOf(r, Len(rows), deploymentPending) /\ r.kind = "start" /\ Unchanged
  BY DEF PageParts, RequestsOf, Start, Unhandled
<1>2. r.deployment \in 1 .. Len(rows) /\ Len(rows) \in Nat
  BY <1>1, NoRowsYet DEF RequestOf
<1>3. \/ Started(r.deployment) /\ Replies(r, Deployment(r.deployment))
      \/ Refused(r)
  BY DEF Start
<1>4. CASE Started(r.deployment) /\ Replies(r, Deployment(r.deployment))
  <2>1. RowsInv' /\ Len(rows') = Len(rows)
    BY <1>1, <1>2, <1>4, StartedKeeps
  <2> QED BY <1>1, <1>2, <1>4, <2>1, ServerAnswers DEF Submits
<1>5. CASE Refused(r)
  BY <1>1, <1>5, RefusalsKeep
<1> QED BY <1>3, <1>4, <1>5

LEMMA RetryKeeps ==
  ASSUME PageParts, NEW r \in requests, Retry(r)
  PROVE  PageParts'
<1>1. RowsInv /\ RequestOf(r, Len(rows), deploymentPending) /\ r.kind = "retry" /\ Unchanged
  BY DEF PageParts, RequestsOf, Retry, Unhandled
<1>2. r.deployment \in 1 .. Len(rows) /\ Len(rows) \in Nat /\ r.kind \in Submits
  BY <1>1, NoRowsYet DEF RequestOf, Submits
<1>3. CASE Refused(r)
  BY <1>1, <1>3, RefusalsKeep
<1>4. CASE \E d \in NewestOf(Lineage(r.deployment)) :
             \/ Started(d) /\ Replies(r, Deployment(d))
             \/ /\ rows[d].status = "FAILED" /\ d = Len(rows)
                /\ InsertRow(rows[d].commit, d) /\ Replies(r, Deployment(Len(rows')))
  <2>1. PICK d \in NewestOf(Lineage(r.deployment)) :
             \/ Started(d) /\ Replies(r, Deployment(d))
             \/ /\ rows[d].status = "FAILED" /\ d = Len(rows)
                /\ InsertRow(rows[d].commit, d) /\ Replies(r, Deployment(Len(rows')))
    BY <1>4
  <2>2. d \in 1 .. Len(rows) /\ r.deployment <= d
    BY <1>1, <1>2, LineageStarts
  <2>3. CASE Started(d) /\ Replies(r, Deployment(d))
    <3>1. RowsInv' /\ Len(rows') = Len(rows)
      BY <1>1, <2>2, <2>3, StartedKeeps
    <3> QED BY <1>1, <1>2, <2>2, <2>3, <3>1, ServerAnswers
  <2>4. CASE /\ rows[d].status = "FAILED" /\ d = Len(rows)
             /\ InsertRow(rows[d].commit, d) /\ Replies(r, Deployment(Len(rows')))
    <3>1. rows[d].commit \in Nat /\ d \in Nat
      BY <1>1, <2>2, NoRowsYet DEF DeploymentRows
    <3>2. RowsInv' /\ Len(rows') = Len(rows) + 1
      BY <1>1, <2>4, <3>1, InsertKeeps
    <3>3. Len(rows') \in 1 .. Len(rows') /\ r.deployment <= Len(rows') /\ Len(rows) <= Len(rows')
      BY <1>2, <3>2
    <3> QED BY <1>1, <1>2, <2>4, <3>2, <3>3, ServerAnswers
  <2> QED BY <2>1, <2>3, <2>4
<1>5. \/ Refused(r)
      \/ \E d \in NewestOf(Lineage(r.deployment)) :
             \/ Started(d) /\ Replies(r, Deployment(d))
             \/ /\ rows[d].status = "FAILED" /\ d = Len(rows)
                /\ InsertRow(rows[d].commit, d) /\ Replies(r, Deployment(Len(rows')))
  BY DEF Retry
<1> QED BY <1>3, <1>4, <1>5

LEMMA RedeployKeeps ==
  ASSUME PageParts, NEW r \in requests, Redeploy(r)
  PROVE  PageParts'
<1>1. RowsInv /\ RequestOf(r, Len(rows), deploymentPending) /\ r.kind = "redeploy" /\ Unchanged
  BY DEF PageParts, RequestsOf, Redeploy, Unhandled
<1>2. r.deployment \in 1 .. Len(rows) /\ Len(rows) \in Nat \ {0} /\ r.kind \in Submits
  BY <1>1, NoRowsYet DEF RequestOf, Submits
<1>3. PICK live \in NewestOf(Live) :
        IF InProgress = {}
        THEN InsertRow(rows[live].commit, live) /\ Replies(r, Deployment(Len(rows')))
        ELSE \E d \in NewestOf(InProgress) : Started(d) /\ Replies(r, Deployment(d))
  BY DEF Redeploy
<1>4. CASE InProgress = {}
  <2>1. InsertRow(rows[live].commit, live) /\ Replies(r, Deployment(Len(rows')))
    BY <1>3, <1>4
  <2>2. live \in 1 .. Len(rows)
    BY DEF NewestOf, Live
  <2>3. rows[live].commit \in Nat /\ live \in Nat
    BY <1>1, <2>2, NoRowsYet DEF DeploymentRows
  <2>4. rows[Len(rows)].status \notin {"ANALYZING", "BUILDING"}
    BY <1>1, <1>4, NoRowsYet DEF InProgress
  <2>5. RowsInv' /\ Len(rows') = Len(rows) + 1
    BY <1>1, <2>1, <2>3, <2>4, InsertKeeps
  <2>6. Len(rows') \in 1 .. Len(rows') /\ r.deployment <= Len(rows') /\ Len(rows) <= Len(rows')
    BY <1>2, <2>5
  <2> QED BY <1>1, <1>2, <2>1, <2>5, <2>6, ServerAnswers
<1>5. CASE InProgress # {}
  <2>1. PICK d \in NewestOf(InProgress) : Started(d) /\ Replies(r, Deployment(d))
    BY <1>3, <1>5
  <2>2. d \in 1 .. Len(rows) /\ rows[d].status \in {"ANALYZING", "BUILDING"}
    BY DEF NewestOf, InProgress
  <2>3. d = Len(rows)
    <3>1. d \in 1 .. Len(rows) - 1 \/ d = Len(rows)
      BY <1>2, <2>2
    <3> QED BY <1>1, <2>2, <3>1 DEF RowsInv
  <2>4. RowsInv' /\ Len(rows') = Len(rows)
    BY <1>1, <2>1, <2>2, StartedKeeps
  <2> QED BY <1>1, <1>2, <2>1, <2>2, <2>3, <2>4, ServerAnswers
<1> QED BY <1>4, <1>5

LEMMA OthersKeep ==
  ASSUME PageParts, Elsewhere \/ \E d \in Ids : Advance(d)
  PROVE  PageParts'
<1>1. RowsInv /\ RequestsOf(requests, Len(rows), deploymentPending) /\ Len(rows) \in Nat \ {0}
      /\ rows[Len(rows)].commit \in Nat
  BY NoRowsYet DEF PageParts, DeploymentRows
<1>2. /\ props' = props /\ refresh' = refresh /\ panel' = panel /\ requests' = requests
  BY DEF Elsewhere, Advance
<1>3. RowsInv' /\ Len(rows) <= Len(rows') /\ Len(rows') \in Nat
  <2>1. CASE \E d \in Ids : Advance(d)
    BY <1>1, <2>1, AdvanceKeeps
  <2>2. CASE Elsewhere
    <3>1. \/ Started(Len(rows))
          \/ /\ InsertRow(rows[Len(rows)].commit, Len(rows))
             /\ rows[Len(rows)].status \in {"FAILED", "LIVE"}
      BY <2>2 DEF Elsewhere
    <3>2. CASE Started(Len(rows))
      BY <1>1, <3>2, StartedKeeps
    <3>3. CASE /\ InsertRow(rows[Len(rows)].commit, Len(rows))
               /\ rows[Len(rows)].status \in {"FAILED", "LIVE"}
      BY <1>1, <3>3, InsertKeeps
    <3> QED BY <3>1, <3>2, <3>3
  <2> QED BY <2>1, <2>2
<1>4. RequestsOf(requests', Len(rows'), deploymentPending)
  BY <1>1, <1>2, <1>3, MoreDeployments
<1>5. /\ analysisState' = analysisState /\ deploymentState' = deploymentState
      /\ deploymentPending' = deploymentPending
  BY <1>2 DEF panel
<1>6. RefreshInv' /\ PanelInv'
  BY <1>2, <1>3, <1>5, PageKept DEF PageParts, PanelInv
<1> QED BY <1>3, <1>4, <1>5, <1>6 DEF PageParts

-----------------------------------------------------------------------------
(* Answers and clicks on the page.                                         *)

LEMMA PromisedType ==
  ASSUME PageParts
  PROVE  /\ Promised \in Nat /\ Promised <= Len(rows) /\ Len(rows) \in Nat
         /\ props.analysis \in 1 .. MaxDeployments
         /\ Len(rows) <= MaxDeployments
<1>1. Len(rows) \in Nat /\ Len(rows) <= MaxDeployments /\ MaxDeployments \in Nat
  BY PageAssumption DEF PageParts, RowsInv
<1> QED BY <1>1 DEF PageParts, RefreshInv, PageOf, Promised

\* What is promised later is no less.
LEMMA StillShown ==
  ASSUME PageParts, rows' = rows, Promised' \in Nat, Promised <= Promised'
  PROVE  ShownOf(deploymentState)' \/ deploymentState' # deploymentState
<1> SUFFICES ASSUME deploymentState' = deploymentState PROVE ShownOf(deploymentState)'
  OBVIOUS
<1>1. ASSUME NEW d \in 0 .. MaxDeployments, deploymentState[d] # Nothing
      PROVE  /\ deploymentState[d].id \in 1 .. Len(rows)
             /\ \/ deploymentState[d].id = d
                \/ d < deploymentState[d].id /\ deploymentState[d].id <= Promised'
  <2>1. /\ deploymentState[d].id \in 1 .. Len(rows)
        /\ deploymentState[d].id = d \/ (d < deploymentState[d].id /\ deploymentState[d].id <= Promised)
    BY <1>1 DEF PageParts, PanelInv, ShownOf
  <2> QED BY <2>1, PromisedType
<1> QED BY <1>1 DEF ShownOf

LEMMA RefreshAsked ==
  ASSUME PageParts, rows' = rows, props' = props, refresh' = Refreshed
  PROVE  RefreshInv' /\ Promised' = Len(rows)
<1>1. /\ DOMAIN refresh = {"at", "page", "again"}
      /\ refresh.at \in {"none", "sent", "answered"} /\ refresh.again \in BOOLEAN
      /\ PageOf(props, 1) /\ (refresh.at = "answered" => PageOf(refresh.page, props.analysis))
  BY DEF PageParts, RefreshInv
<1>2. CASE refresh.at = "none"
  <2>1. refresh' = [refresh EXCEPT !.at = "sent"]
    BY <1>2 DEF Refreshed
  <2>2. /\ DOMAIN refresh' = DOMAIN refresh /\ refresh'.at = "sent"
        /\ refresh'.again = refresh.again
    BY <1>1, <2>1
  <2> QED BY <1>1, <2>2 DEF RefreshInv, PageOf, Promised
<1>3. CASE refresh.at # "none"
  <2>1. refresh' = [refresh EXCEPT !.again = TRUE]
    BY <1>3 DEF Refreshed
  <2>2. /\ DOMAIN refresh' = DOMAIN refresh /\ refresh'.at = refresh.at
        /\ refresh'.again = TRUE /\ refresh'.page = refresh.page
    BY <1>1, <2>1
  <2> QED BY <1>1, <1>3, <2>2 DEF RefreshInv, PageOf, Promised
<1> QED BY <1>2, <1>3

LEMMA RefreshKeeps ==
  ASSUME PageParts, AnswerRefresh \/ RefreshArrives
  PROVE  PageParts'
<1>1. /\ DOMAIN refresh = {"at", "page", "again"}
      /\ refresh.at \in {"none", "sent", "answered"} /\ refresh.again \in BOOLEAN
      /\ PageOf(props, 1) /\ (refresh.at = "answered" => PageOf(refresh.page, props.analysis))
  BY DEF PageParts, RefreshInv
<1>2. /\ rows' = rows /\ analysisState' = analysisState /\ deploymentState' = deploymentState
      /\ deploymentPending' = deploymentPending
  BY DEF AnswerRefresh, RefreshArrives, server, panel
<1>3. RowsInv'
  BY <1>2 DEF PageParts, RowsInv
<1>4. CASE AnswerRefresh
  <2>1. refresh' = [refresh EXCEPT !.at = "answered", !.page = ReadPage(rows, configured)]
        /\ refresh.at = "sent" /\ props' = props /\ requests' = requests
    BY <1>4 DEF AnswerRefresh
  <2>2. /\ DOMAIN refresh' = DOMAIN refresh /\ refresh'.at = "answered"
        /\ refresh'.again = refresh.again /\ refresh'.page = ReadPage(rows, configured)
    BY <1>1, <2>1
  <2>3. refresh'.page.analysis = Len(rows) /\ refresh'.page.currentDeployment.id = Len(rows)
    <3>1. rows # <<>>
      BY NoRowsYet DEF PageParts
    <3> QED BY <2>2, <3>1 DEF ReadPage, Snapshot
  <2>4. Len(rows) \in props.analysis .. Len(rows)
    BY <1>1, PromisedType DEF PageOf
  <2>5. RefreshInv'
    BY <1>1, <1>2, <2>1, <2>2, <2>3, <2>4 DEF RefreshInv, PageOf
  <2>6. Promised' = Len(rows)
    BY <1>2, <2>2, <2>3 DEF Promised
  <2>7. ShownOf(deploymentState)'
    BY <1>2, <2>6, PromisedType, StillShown
  <2> QED BY <1>2, <1>3, <2>1, <2>5, <2>7 DEF PageParts, PanelInv
<1>5. CASE RefreshArrives
  <2>1. /\ refresh.at = "answered" /\ props' = refresh.page
        /\ refresh' = [at |-> IF refresh.again THEN "sent" ELSE "none", page |-> Nothing, again |-> FALSE]
        /\ Draw(poll, requests)
    BY <1>5 DEF RefreshArrives, AfterRefresh
  <2>2. /\ DOMAIN refresh' = {"at", "page", "again"} /\ refresh'.again = FALSE
        /\ refresh'.at = IF refresh.again THEN "sent" ELSE "none"
    BY <2>1
  <2>3. PageOf(refresh.page, props.analysis) /\ Len(rows) \in Nat /\ props.analysis \in Nat /\ 1 <= props.analysis
    BY <1>1, <2>1, PromisedType
  <2>4. RefreshInv'
    BY <1>1, <1>2, <2>1, <2>2, <2>3 DEF RefreshInv, PageOf
  <2>5. Promised' = Promised
    BY <1>1, <1>2, <2>1, <2>2 DEF Promised
  <2>6. ShownOf(deploymentState)'
    BY <1>2, <2>5, PromisedType, StillShown
  <2>7. RequestsOf(requests', Len(rows), deploymentPending)
    BY <2>1, DrawKeeps DEF PageParts
  <2> QED BY <1>2, <1>3, <2>4, <2>6, <2>7 DEF PageParts, PanelInv
<1> QED BY <1>4, <1>5

\* A request is made for the deployment that is shown; the submission of one
\* that is not marked marks it.
LEMMA AsksKeep ==
  ASSUME PageParts, ClickSave \/ Poll \/ LiveReveal
  PROVE  PageParts'
<1>1. /\ rows' = rows /\ props' = props /\ refresh' = refresh /\ analysisState' = analysisState
      /\ deploymentState' = deploymentState /\ deploymentPending' = deploymentPending
  BY DEF ClickSave, Poll, LiveReveal, server, panel
<1>2. RowsInv' /\ Len(rows) <= Len(rows')
  BY <1>1, PromisedType DEF PageParts, RowsInv
<1>3. RefreshInv' /\ PanelInv'
  BY <1>1, <1>2, PageKept DEF PageParts, PanelInv
<1>4. ASSUME NEW kind \in {"save", "poll", "look"}, NEW d, kind # "save" => d \in 1 .. Len(rows)
      PROVE  RequestsOf(requests \cup {Ask(kind, d, 0, 0)}, Len(rows), deploymentPending)
  <2> DEFINE new == Ask(kind, d, 0, 0)
  <2>1. /\ DOMAIN new = {"kind", "deployment", "shownAs", "n", "mine", "answer"}
        /\ new.kind = kind /\ new.deployment = d /\ new.answer = Nothing
    BY DEF Ask
  <2>2. kind \in Asks /\ kind \notin Submits
    BY DEF Asks, Submits
  <2> HIDE DEF new
  <2>3. RequestOf(new, Len(rows), deploymentPending)
    BY <1>4, <2>1, <2>2 DEF RequestOf
  <2>4. RequestsOf(requests \cup {new}, Len(rows), deploymentPending)
    BY <2>1, <2>2, <2>3, OneRequestMore DEF PageParts
  <2> QED BY <2>4 DEF new
<1>5. currentDeployment.id \in 1 .. Len(rows)
  BY ShownNow
<1>6. CASE ClickSave
  <2>1. Draw(poll, requests \cup {Ask("save", 0, 0, 0)})
    BY <1>6 DEF ClickSave, Click
  <2>2. RequestsOf(requests', Len(rows), deploymentPending)
    BY <1>4, <2>1, DrawKeeps
  <2> QED BY <1>1, <1>2, <1>3, <2>2 DEF PageParts
<1>7. CASE Poll \/ LiveReveal
  <2>1. PICK kind \in {"poll", "look"} : requests' = requests \cup {Ask(kind, currentDeployment.id, 0, 0)}
    BY <1>7 DEF Poll, LiveReveal
  <2>2. RequestsOf(requests', Len(rows), deploymentPending)
    BY <1>4, <1>5, <2>1
  <2> QED BY <1>1, <1>2, <1>3, <2>2 DEF PageParts
<1> QED BY <1>6, <1>7

LEMMA SubmitKeeps ==
  ASSUME PageParts, startDeployment \/ retryDeployment \/ redeployApp
  PROVE  PageParts'
<1>1. PICK kind \in Submits, d \in {analysis.deployment, currentDeployment.id} : Submit(kind, d)
  BY DEF startDeployment, retryDeployment, redeployApp, Submits
<1>2. ~isPending /\ ~deploymentPending[analysis.deployment]
  BY <1>1 DEF Submit, Disabled
<1>3. d = analysis.deployment /\ d \in 1 .. Len(rows) /\ d \in 0 .. MaxDeployments
  BY <1>1, <1>2, ShownNow, PromisedType
<1>4. /\ rows' = rows /\ props' = props /\ refresh' = refresh /\ analysisState' = analysisState
      /\ deploymentState' = deploymentState
      /\ deploymentPending' = [deploymentPending EXCEPT ![d] = TRUE]
  BY <1>1 DEF Submit, server
<1>5. deploymentPending \in [0 .. MaxDeployments -> BOOLEAN]
  BY DEF PageParts, PanelInv
<1>6. deploymentPending' \in [0 .. MaxDeployments -> BOOLEAN] /\ deploymentPending'[d]
  BY <1>3, <1>4, <1>5
<1>7. RowsInv' /\ Len(rows) <= Len(rows')
  BY <1>4, PromisedType DEF PageParts, RowsInv
<1>8. RefreshInv' /\ PanelInv'
  BY <1>4, <1>6, <1>7, PageKept
<1>9. PICK n : Draw(poll, requests \cup {Ask(kind, d, analysis.deployment, n)})
  BY <1>1 DEF Submit, Click
<1>10. RequestsOf(requests, Len(rows), deploymentPending')
  <2>1. Len(rows) \in 0 .. MaxDeployments
    BY PromisedType, PageAssumption
  <2> QED BY <1>4, <1>5, <2>1, MarkChanged DEF PageParts
<1>11. RequestsOf(requests \cup {Ask(kind, d, analysis.deployment, n)}, Len(rows), deploymentPending')
  <2> DEFINE new == Ask(kind, d, analysis.deployment, n)
  <2>1. /\ DOMAIN new = {"kind", "deployment", "shownAs", "n", "mine", "answer"}
        /\ new.kind = kind /\ new.deployment = d /\ new.shownAs = d /\ new.answer = Nothing
    BY <1>3 DEF Ask
  <2>2. kind \in Asks /\ kind # "save"
    BY DEF Asks, Submits
  <2>3. \A r \in requests : r.kind \in Submits => r.deployment # d
    BY <1>2, <1>3 DEF PageParts, RequestsOf, RequestOf
  <2> HIDE DEF new
  <2>4. RequestOf(new, Len(rows), deploymentPending')
    BY <1>3, <1>6, <2>1, <2>2 DEF RequestOf
  <2>5. RequestsOf(requests \cup {new}, Len(rows), deploymentPending')
    BY <1>10, <2>1, <2>3, <2>4, OneRequestMore
  <2> QED BY <2>5 DEF new
<1>12. RequestsOf(requests', Len(rows), deploymentPending')
  BY <1>9, <1>11, DrawKeeps
<1> QED BY <1>4, <1>7, <1>8, <1>12 DEF PageParts

\* A request that is answered or dropped is waited for no longer.
LEMMA ProgressKeeps ==
  ASSUME PageParts, NEW r \in requests, ProgressArrives(r)
  PROVE  PageParts'
<1>1. /\ rows' = rows /\ props' = props /\ refresh' = refresh /\ analysisState' = analysisState
      /\ deploymentPending' = deploymentPending
  BY DEF ProgressArrives, server
<1>2. RowsInv' /\ RefreshInv' /\ Promised' = Promised
  BY <1>1 DEF PageParts, RowsInv, RefreshInv, PageOf, Promised
<1>3. PICK next : Draw(next, requests \ {r})
  BY DEF ProgressArrives
<1>4. RequestsOf(requests', Len(rows), deploymentPending)
  BY <1>3, FewerRequests, DrawKeeps DEF PageParts
<1>5. DOMAIN deploymentState' = 0 .. MaxDeployments /\ ShownOf(deploymentState)'
  <2>1. CASE ~Good(r)
    <3>1. deploymentState' = deploymentState
      BY <2>1 DEF ProgressArrives
    <3> QED BY <1>1, <1>2, <3>1, PromisedType, StillShown DEF PageParts, PanelInv
  <2>2. CASE Good(r)
    <3>1. deploymentState' = [deploymentState EXCEPT ![r.deployment] = r.answer.snapshot]
      BY <2>2 DEF ProgressArrives
    <3>2. r.answer.snapshot.id = r.deployment /\ r.deployment \in 1 .. Len(rows)
      BY <2>2 DEF PageParts, RequestsOf, RequestOf, ProgressArrives, Arrives, Good
    <3>3. DOMAIN deploymentState = 0 .. MaxDeployments /\ ShownOf(deploymentState)
      BY DEF PageParts, PanelInv
    <3>4. \A d \in 0 .. MaxDeployments :
            deploymentState'[d] = IF d = r.deployment THEN r.answer.snapshot ELSE deploymentState[d]
      BY <3>1, <3>3
    <3> QED BY <1>1, <1>2, <3>1, <3>2, <3>3, <3>4 DEF ShownOf
  <2> QED BY <2>1, <2>2
<1> QED BY <1>1, <1>2, <1>4, <1>5 DEF PageParts, PanelInv

LEMMA SubmitAnswered ==
  ASSUME PageParts, NEW r \in requests, SubmitArrives(r)
  PROVE  PageParts'
<1>1. /\ rows' = rows /\ props' = props /\ analysisState' = analysisState
      /\ deploymentPending' = [deploymentPending EXCEPT ![r.deployment] = FALSE]
      /\ r.kind \in Submits /\ Draw(poll, requests \ {r})
  BY DEF SubmitArrives, Arrives, Submits, server
<1>2. RowsInv'
  BY <1>1 DEF PageParts, RowsInv
<1>3. RequestsOf(requests', Len(rows), deploymentPending')
  <2>1. RequestsOf(requests \ {r}, Len(rows), deploymentPending)
    BY FewerRequests DEF PageParts
  <2>2. \A q \in requests \ {r} : q.kind \in Submits => q.deployment # r.deployment
    BY <1>1 DEF PageParts, RequestsOf, Apart
  <2>3. Len(rows) \in 0 .. MaxDeployments /\ deploymentPending \in [0 .. MaxDeployments -> BOOLEAN]
    BY PromisedType, PageAssumption DEF PageParts, PanelInv
  <2>4. RequestsOf(requests \ {r}, Len(rows), deploymentPending')
    BY <1>1, <2>1, <2>2, <2>3, MarkChanged
  <2> QED BY <1>1, <2>4, DrawKeeps
<1>4. deploymentPending' \in [0 .. MaxDeployments -> BOOLEAN]
  BY <1>1 DEF PageParts, PanelInv
<1>5. CASE ~Good(r)
  <2>1. deploymentState' = deploymentState /\ refresh' = refresh
    BY <1>5 DEF SubmitArrives
  <2>2. RefreshInv' /\ PanelInv'
    BY <1>1, <1>2, <1>4, <2>1, PageKept, PromisedType
  <2> QED BY <1>1, <1>2, <1>3, <2>2 DEF PageParts
<1>6. CASE Good(r)
  <2> DEFINE s == r.answer.snapshot
  <2>1. /\ deploymentState' = [deploymentState EXCEPT ![r.shownAs] = s, ![s.id] = s]
        /\ refresh' = Refreshed
    BY <1>6 DEF SubmitArrives, Shows
  <2>2. /\ r.shownAs = r.deployment /\ r.deployment \in 1 .. Len(rows)
        /\ s.id \in r.deployment .. Len(rows)
    BY <1>1, <1>6 DEF PageParts, RequestsOf, RequestOf, SubmitArrives, Arrives, Good, Submits
  <2>3. RefreshInv' /\ Promised' = Len(rows)
    BY <1>1, <2>1, RefreshAsked
  <2>4. DOMAIN deploymentState = 0 .. MaxDeployments /\ ShownOf(deploymentState)
    BY DEF PageParts, PanelInv
  <2> HIDE DEF s
  <2>5. /\ DOMAIN deploymentState' = 0 .. MaxDeployments
        /\ \A d \in 0 .. MaxDeployments :
             deploymentState'[d] = IF d \in {s.id, r.deployment} THEN s ELSE deploymentState[d]
    BY <2>1, <2>2, <2>4
  <2>6. ASSUME NEW d \in 0 .. MaxDeployments, deploymentState'[d] # Nothing
        PROVE  /\ deploymentState'[d].id \in 1 .. Len(rows)
               /\ \/ deploymentState'[d].id = d
                  \/ d < deploymentState'[d].id /\ deploymentState'[d].id <= Len(rows)
    <3>1. CASE d \in {s.id, r.deployment}
      <4>1. deploymentState'[d] = s
        BY <2>5, <3>1
      <4> QED BY <2>2, <3>1, <4>1, PromisedType
    <3>2. CASE d \notin {s.id, r.deployment}
      <4>1. deploymentState'[d] = deploymentState[d]
        BY <2>5, <3>2
      <4>2. /\ deploymentState[d].id \in 1 .. Len(rows)
            /\ deploymentState[d].id = d \/ (d < deploymentState[d].id /\ deploymentState[d].id <= Promised)
        BY <2>4, <2>6, <4>1 DEF ShownOf
      <4> QED BY <4>1, <4>2, PromisedType
    <3> QED BY <3>1, <3>2
  <2>7. ShownOf(deploymentState)'
    BY <1>1, <2>3, <2>6 DEF ShownOf
  <2> QED BY <1>1, <1>2, <1>3, <1>4, <2>3, <2>5, <2>7 DEF PageParts, PanelInv
<1> QED BY <1>5, <1>6

LEMMA SettingsKeep ==
  ASSUME PageParts, NEW r \in requests, ConfigurationArrives(r) \/ Dropped(r)
  PROVE  PageParts'
<1>1. r.kind \in Asks
  BY DEF PageParts, RequestsOf, RequestOf
<1>2. /\ rows' = rows /\ props' = props /\ analysisState' = analysisState
      /\ deploymentState' = deploymentState /\ deploymentPending' = deploymentPending
  BY <1>1 DEF ConfigurationArrives, Dropped, server, Asks, Submits
<1>3. RowsInv' /\ Len(rows) <= Len(rows')
  BY <1>2, PromisedType DEF PageParts, RowsInv
<1>4. PICK next : Draw(next, requests \ {r})
  BY DEF ConfigurationArrives, Dropped
<1>5. RequestsOf(requests', Len(rows), deploymentPending)
  BY <1>4, FewerRequests, DrawKeeps DEF PageParts
<1>6. CASE refresh' = refresh
  <2>1. RefreshInv' /\ PanelInv'
    BY <1>2, <1>3, <1>6, PageKept DEF PageParts, PanelInv
  <2> QED BY <1>2, <1>3, <1>5, <2>1 DEF PageParts
<1>7. CASE refresh' = Refreshed
  <2>1. RefreshInv' /\ Promised' = Len(rows)
    BY <1>2, <1>7, RefreshAsked
  <2>2. ShownOf(deploymentState)'
    BY <1>2, <2>1, PromisedType, StillShown
  <2> QED BY <1>2, <1>3, <1>5, <2>1, <2>2 DEF PageParts, PanelInv
<1> QED BY <1>6, <1>7 DEF ConfigurationArrives, Dropped

-----------------------------------------------------------------------------

LEMMA InitPage == PageInit => PageInv
<1> SUFFICES ASSUME PageInit, page = "uploaded", ~lost PROVE PageParts
  BY DEF PageInv, PageParts
<1>1. PICK o \in Openings : /\ page = o.page
                            /\ rows = IF o.page = "new" THEN <<>> ELSE <<Row(o.status, o.status # "ANALYZING", 1, 0)>>
  BY DEF PageInit
<1> DEFINE first == Row(o.status, o.status # "ANALYZING", 1, 0)
<1>2. rows = <<first>> /\ first \in DeploymentRows
  BY <1>1, PageAssumption DEF Row, DeploymentRows
<1> HIDE DEF first
<1>3. rows \in Seq(DeploymentRows) /\ Len(rows) = 1 /\ rows # <<>>
  BY <1>2
<1>4. RowsInv
  BY <1>3, PageAssumption DEF RowsInv
<1>5. /\ props.analysis = 1 /\ props.currentDeployment.id = 1
      /\ refresh = [at |-> "none", page |-> Nothing, again |-> FALSE]
  BY <1>3 DEF PageInit, ReadPage, Snapshot
<1>6. RefreshInv
  BY <1>3, <1>5 DEF RefreshInv, PageOf
<1>7. PanelInv
  BY DEF PageInit, PanelInv, ShownOf
<1>8. requests = {}
  BY DEF PageInit
<1>9. RequestsOf(requests, Len(rows), deploymentPending)
  BY <1>8, FS_EmptySet DEF RequestsOf, Apart
<1> QED BY <1>4, <1>6, <1>7, <1>9 DEF PageParts

\* On the page of an uploaded app there is nothing to choose or to analyse.
LEMMA NoAnalysisHere ==
  ASSUME PageParts, page = "uploaded"
  PROVE  /\ ~(ClickList \/ chooseAnother \/ ClickStored \/ ClickSelect \/ ClickAnalyse)
         /\ \A r \in requests : ~(Analyse(r) \/ ListArrives(r) \/ SelectArrives(r) \/ AnalysisArrives(r))
<1>1. ~(ClickList \/ chooseAnother \/ ClickStored \/ ClickSelect \/ ClickAnalyse)
  BY DEF ClickList, chooseAnother, ClickStored, ClickSelect, ClickAnalyse
<1>2. \A r \in requests : r.kind \in Asks
  BY DEF PageParts, RequestsOf, RequestOf
<1> QED BY <1>1, <1>2 DEF Analyse, ListArrives, SelectArrives, AnalysisArrives, Unhandled, Arrives, Asks, Submits

LEMMA NextPage == PageInv /\ [PageNext]_pageVars => PageInv'
<1> SUFFICES ASSUME PageInv, [PageNext]_pageVars, page' = "uploaded", ~lost' PROVE PageParts'
  BY DEF PageInv, PageParts
<1>1. page' = page /\ (lost => lost')
  <2>1. ASSUME NEW r \in requests, Handle(r) \/ Deliver(r) \/ Dropped(r) PROVE page' = page /\ (lost => lost')
    <3>1. CASE Handle(r)
      <4>1. Unchanged
        BY <3>1 DEF Handle, Read, Answer, Analyse, Start, Retry, Redeploy, Fails
      <4> QED BY <4>1 DEF Unchanged
    <3>2. CASE ProgressArrives(r) \/ SubmitArrives(r)
      <4>1. CASE ProgressArrives(r)
        <5>1. lost' = (lost \/ (r.kind = "poll" /\ ~Good(r))) /\ page' = page
          BY <4>1 DEF ProgressArrives
        <5> QED BY <5>1, Zenon
      <4>2. CASE SubmitArrives(r)
        BY <4>2 DEF SubmitArrives
      <4> QED BY <3>2, <4>1, <4>2
    <3>3. CASE ListArrives(r) \/ SelectArrives(r)
      BY <3>3 DEF ListArrives, SelectArrives
    <3>4. CASE AnalysisArrives(r) \/ ConfigurationArrives(r)
      BY <3>4 DEF AnalysisArrives, ConfigurationArrives
    <3>5. CASE Dropped(r)
      BY <3>5 DEF Dropped
    <3> QED BY <2>1, <3>1, <3>2, <3>3, <3>4, <3>5 DEF Deliver
  <2>2. CASE ClickList \/ chooseAnother \/ ClickStored \/ ClickSelect \/ ClickAnalyse \/ ClickSave
    BY <2>2 DEF ClickList, chooseAnother, ClickStored, ClickSelect, ClickAnalyse, ClickSave
  <2>3. CASE startDeployment \/ retryDeployment \/ redeployApp
    BY <2>3 DEF startDeployment, retryDeployment, redeployApp, Submit
  <2>4. CASE Poll \/ LiveReveal \/ Elsewhere \/ \E d \in Ids : Advance(d)
    BY <2>4 DEF Poll, LiveReveal, Elsewhere, Advance
  <2>5. CASE AnswerRefresh \/ RefreshArrives \/ RefreshFails
    BY <2>5 DEF AnswerRefresh, RefreshArrives, RefreshFails
  <2>6. CASE UNCHANGED pageVars
    BY <2>6 DEF pageVars
  <2> QED BY <2>1, <2>2, <2>3, <2>4, <2>5, <2>6 DEF PageNext
<1>2. PageParts /\ page = "uploaded"
  BY <1>1 DEF PageInv, PageParts
<1>3. ASSUME NEW r \in requests, Handle(r) PROVE PageParts'
  BY <1>2, <1>3, NoAnalysisHere, AnswersKeep, StartKeeps, RetryKeeps, RedeployKeeps DEF Handle
<1>4. ASSUME NEW r \in requests, Deliver(r) PROVE PageParts'
  BY <1>2, <1>4, NoAnalysisHere, ProgressKeeps, SubmitAnswered, SettingsKeep DEF Deliver
<1>5. ASSUME NEW r \in requests, Dropped(r) PROVE PageParts'
  BY <1>2, <1>5, SettingsKeep
<1>6. CASE ClickSave \/ Poll \/ LiveReveal
  BY <1>2, <1>6, AsksKeep
<1>7. CASE startDeployment \/ retryDeployment \/ redeployApp
  BY <1>2, <1>7, SubmitKeeps
<1>8. CASE Elsewhere \/ \E d \in Ids : Advance(d)
  BY <1>2, <1>8, OthersKeep
<1>9. CASE AnswerRefresh \/ RefreshArrives
  BY <1>2, <1>9, RefreshKeeps
<1>10. CASE RefreshFails
  BY <1>10 DEF RefreshFails
<1>11. CASE UNCHANGED pageVars
  BY <1>2, <1>11 DEF pageVars, server, panel, PageParts, RowsInv, RefreshInv, PageOf, PanelInv, ShownOf, Promised
<1> QED BY <1>2, <1>3, <1>4, <1>5, <1>6, <1>7, <1>8, <1>9, <1>10, <1>11, NoAnalysisHere DEF PageNext

\* As many deployments are submitted as there are submissions.
LEMMA NoneTwice == PageInv => SubmitsOnce
<1> SUFFICES ASSUME PageInv, page = "uploaded", ~lost
             PROVE  Cardinality({r.deployment : r \in Submitted}) = Cardinality(Submitted)
  BY DEF SubmitsOnce
<1> DEFINE f == [r \in Submitted |-> r.deployment]
           D == {r.deployment : r \in Submitted}
<1>1. RequestsOf(requests, Len(rows), deploymentPending)
  BY DEF PageInv
<1>2. IsFiniteSet(Submitted)
  BY <1>1, FS_Subset DEF RequestsOf, Submitted
<1>3. \A r, q \in Submitted : r.deployment = q.deployment => r = q
  BY <1>1 DEF RequestsOf, Apart, Submitted, Submits
<1>4. f \in Surjection(Submitted, D)
  BY DEF Surjection
<1>5. f \in Injection(Submitted, D)
  BY <1>3, <1>4 DEF Injection, Surjection, IsInjective
<1> HIDE DEF f, D
<1>6. Cardinality(D) = Cardinality(Submitted)
  BY <1>2, <1>4, <1>5, FS_Surjection
<1> QED BY <1>6 DEF D

\* However answers, refreshes, polls and clicks overlap, no deployment of an
\* uploaded app is started, retried or redeployed by two requests of the page
\* at once, as long as no refresh of the page failed (github-panel.js:
\* deploymentPending, disabled).
THEOREM NothingIsSubmittedTwice == PageSpec => []SubmitsOnce
<1> QED BY InitPage, NextPage, NoneTwice, PTL DEF PageSpec

-----------------------------------------------------------------------------
(***************************************************************************)
(* The report, for any sets of error codes that ReportsAssumption keeps    *)
(* apart and any number of events.                                         *)
(*                                                                         *)
(* A report reads the row first and the events after it, in statements of  *)
(* their own. ReportsInv says that the events explain the row at all       *)
(* times, because each task writes both in one transaction, and that they  *)
(* still explain a row which a report has read, because no event is ever   *)
(* lost.                                                                   *)
(***************************************************************************)

\* What events tell: that something happened, or that a status was reached.
Told(evs, type) == \E i \in 1 .. Len(evs) : evs[i].type = type

Reached(evs, status) == \E i \in 1 .. Len(evs) : evs[i].to = status

\* The failures that the timeline shows the event of.
ToldErrors == {"BUILD_TIMEOUT", "BUILD_SOURCE_MISMATCH", "BUILD_FAILED", "HEALTH_CHECK_FAILED"}

\* How events explain what a row shows.
Explained(r, evs) ==
  /\ r.status \notin {"DELETING", "DELETED"} => Reached(evs, r.status)
  /\ r.error \in ToldErrors => Told(evs, r.error)
  /\ r.status \in {"DEPLOYING", "HEALTH_CHECKING", "LIVE"} => Told(evs, "BUILD_SUCCEEDED")

\* The types of the events.
EventTypes ==
  {"BUILD_FAILED", "BUILD_PROVIDER_BLOCKED", "BUILD_PROVIDER_RESULT_STALE",
   "BUILD_RECOVERY_ATTACHED", "BUILD_SOURCE_MISMATCH",
   "BUILD_SOURCE_UNVERIFIED", "BUILD_STARTED", "BUILD_SUCCEEDED",
   "BUILD_TIMEOUT", "DEPLOYMENT_ABANDONED", "ENV_REQUIREMENTS_BLOCKED",
   "ENV_REQUIREMENTS_VERIFIED", "HEALTH_CHECK_FAILED", "HEALTH_CHECK_PASSED",
   "HEALTH_CHECK_STARTED", "ORCHESTRATION_RUN_FAILED",
   "PROJECT_ANALYSIS_COMPLETED", "PROJECT_ANALYSIS_UNSUPPORTED",
   "PROVIDER_CANCEL_CONFIRMED", "PUBLIC_ACCESS_BLOCKED",
   "PUBLIC_ACCESS_VERIFIED", "RESOURCE_POLICY_BLOCKED",
   "RUNTIME_PROVIDER_RESULT_STALE", "RUNTIME_PROVISIONED", "STATUS_CHANGED"}

Events == Seq([type : EventTypes, to : Statuses])

\* A report that has read the row will read events that explain it, or has.
ReaderExplained ==
  \/ reader = NoReport
  \/ /\ DOMAIN reader = {"pending", "row", "events", "build", "attempts"}
     /\ \/ reader.pending = Queries /\ Explained(reader.row, events)
        \/ /\ reader.pending \in {Tail(Queries), Tail(Tail(Queries)), <<>>}
           /\ reader.events \in Events /\ Explained(reader.row, reader.events)

ReportsInv ==
  /\ row \in Rows /\ events \in Events
  /\ Explained(row, events)
  /\ ReaderExplained

\* An event more tells no less.
LEMMA MoreEvents ==
  ASSUME NEW evs \in Events, NEW type \in EventTypes, NEW to \in Statuses
  PROVE  LET more == Append(evs, [type |-> type, to |-> to])
         IN /\ more \in Events
            /\ Told(more, type) /\ Reached(more, to)
            /\ \A other : Told(evs, other) => Told(more, other)
            /\ \A status : Reached(evs, status) => Reached(more, status)
<1> DEFINE e == [type |-> type, to |-> to]
           more == Append(evs, e)
<1>1. e \in [type : EventTypes, to : Statuses]
  OBVIOUS
<1>2. /\ more \in Events /\ Len(evs) \in Nat /\ Len(more) = Len(evs) + 1
      /\ \A i \in 1 .. Len(evs) : more[i] = evs[i]
      /\ more[Len(evs) + 1] = e
  <2> HIDE DEF e
  <2> QED BY <1>1 DEF Events
<1>3. \A i \in 1 .. Len(evs) : i \in 1 .. Len(more)
  BY <1>2
<1>4. Len(evs) + 1 \in 1 .. Len(more)
  BY <1>2
<1>5. e.type = type /\ e.to = to
  OBVIOUS
<1> HIDE DEF e, more
<1> QED BY <1>2, <1>3, <1>4, <1>5 DEF Told, Reached, more, e

\* Events are added, and none is lost.
Grown ==
  /\ events' \in Events
  /\ \A type : Told(events, type) => Told(events', type)
  /\ \A status : Reached(events, status) => Reached(events', status)

LEMMA InsertGrows ==
  ASSUME events \in Events, NEW type \in EventTypes, NEW to \in Statuses, Insert(type, to)
  PROVE  Grown /\ Told(events', type) /\ Reached(events', to)
BY MoreEvents DEF Insert, Grown

LEMMA NothingGrows ==
  ASSUME events \in Events, events' = events
  PROVE  Grown
BY DEF Grown

\* What grown events explained they explain still.
LEMMA StillExplained ==
  ASSUME Grown, NEW r, Explained(r, events)
  PROVE  Explained(r, events')
BY DEF Grown, Explained

\* A row is explained when its status, its error and a build before it are
\* as they were or come with their event.
LEMMA RowExplained ==
  ASSUME row \in Rows, Explained(row, events), Grown, row' \in Rows,
         \/ row'.status = row.status \/ row'.status \in {"DELETING", "DELETED"}
         \/ Reached(events', row'.status),
         row'.error = row.error \/ row'.error \notin ToldErrors \/ Told(events', row'.error),
         \/ row'.status = row.status \/ row'.status \notin {"DEPLOYING", "HEALTH_CHECKING", "LIVE"}
         \/ row.status \in {"DEPLOYING", "HEALTH_CHECKING"} \/ Told(events', "BUILD_SUCCEEDED")
  PROVE  Explained(row', events')
BY DEF Grown, Explained

\* Of a status and an error, the parts a step leaves alone.
LEMMA RowTypes ==
  ASSUME row \in Rows, NEW status \in Statuses, NEW error \in Errors \cup {NULL}
  PROVE  /\ [row EXCEPT !.status = status, !.error = error] \in Rows
         /\ [row EXCEPT !.status = status, !.error = error].status = status
         /\ [row EXCEPT !.status = status, !.error = error].error = error
         /\ [row EXCEPT !.error = error] \in Rows
         /\ [row EXCEPT !.error = error].status = row.status
         /\ [row EXCEPT !.error = error].error = error
         /\ [row EXCEPT !.status = status] \in Rows
         /\ [row EXCEPT !.status = status].status = status
         /\ [row EXCEPT !.status = status].error = row.error
BY DEF Rows

\* A move writes the event of its status; its error and, when it ends a
\* build, the success are what the event is of.
LEMMA MoveExplained ==
  ASSUME row \in Rows, events \in Events, Explained(row, events),
         NEW from \in Statuses, NEW to \in Statuses, NEW error \in Errors \cup {NULL}, NEW type \in EventTypes,
         Move(from, to, error, type),
         row.status = from => error = row.error \/ error \notin ToldErrors \/ error = type,
         \/ to \notin {"DEPLOYING", "HEALTH_CHECKING", "LIVE"} \/ from \in {"DEPLOYING", "HEALTH_CHECKING"}
         \/ type = "BUILD_SUCCEEDED"
  PROVE  row' \in Rows /\ Grown /\ Explained(row', events')
<1>1. CASE row.status = from
  <2>1. row' = [row EXCEPT !.status = to, !.error = error] /\ Insert(type, to)
    BY <1>1 DEF Move
  <2>2. row' \in Rows /\ row'.status = to /\ row'.error = error
    BY <2>1, RowTypes
  <2>3. Grown /\ Told(events', type) /\ Reached(events', to)
    BY <2>1, InsertGrows
  <2> QED BY <1>1, <2>2, <2>3, RowExplained
<1>2. CASE row.status # from
  BY <1>2, NothingGrows DEF Move
<1> QED BY <1>1, <1>2

-----------------------------------------------------------------------------
(* The steps of the tasks and of the customers.                            *)

Kept == row' \in Rows /\ Grown /\ Explained(row', events')

\* Statuses, and codes that no timeline owes an event.
LEMMA Codes ==
  /\ NULL \notin ToldErrors
  /\ PolicyErrors \cap ToldErrors = {} /\ ProviderErrors \cap ToldErrors = {}
  /\ ToldErrors \subseteq Errors /\ PolicyErrors \subseteq Errors
  /\ OtherErrors \subseteq Errors /\ ProviderErrors \subseteq Errors
BY ReportsAssumption DEF ToldErrors, Errors, PolicyErrors, OtherErrors

\* A row whose status stays, its error no debt of the timeline.
LEMMA ErrorWritten ==
  ASSUME row \in Rows, Explained(row, events), Grown,
         NEW error \in Errors \cup {NULL}, error \notin ToldErrors,
         row' = [row EXCEPT !.error = error] \/ row' = row
  PROVE  Kept
<1>1. CASE row' = [row EXCEPT !.error = error]
  <2>1. row' \in Rows /\ row'.status = row.status /\ row'.error = error
    BY <1>1 DEF Rows
  <2> QED BY <2>1, RowExplained DEF Kept
<1>2. CASE row' = row
  BY <1>2, RowExplained DEF Kept
<1> QED BY <1>1, <1>2

LEMMA StatusWritten ==
  ASSUME row \in Rows, Explained(row, events), Grown,
         NEW error \in Errors \cup {NULL}, NEW status \in Statuses,
         row' = [row EXCEPT !.status = status, !.error = error],
         Reached(events', status), error \notin ToldErrors \/ Told(events', error),
         \/ status \notin {"DEPLOYING", "HEALTH_CHECKING", "LIVE"}
         \/ row.status \in {"DEPLOYING", "HEALTH_CHECKING"}
  PROVE  Kept
BY RowTypes, RowExplained DEF Kept

LEMMA AnalysisKeeps ==
  ASSUME ReportsInv, recordAnalysisCompleted \/ markUnsupported
  PROVE  Kept
<1>1. row \in Rows /\ events \in Events /\ Explained(row, events)
  BY DEF ReportsInv
<1>2. "ANALYZING" \in Statuses
  BY DEF Statuses
<1>3. CASE recordAnalysisCompleted
  <2>1. row' = [row EXCEPT !.error = NULL] /\ Insert("PROJECT_ANALYSIS_COMPLETED", "ANALYZING")
    BY <1>3 DEF recordAnalysisCompleted
  <2>2. Grown
    BY <2>1, <1>1, <1>2, InsertGrows DEF EventTypes
  <2> QED BY <2>1, <2>2, <1>1, ErrorWritten, Codes
<1>4. CASE markUnsupported
  <2>1. row' = [row EXCEPT !.error = "UNSUPPORTED_PROJECT"] /\ Insert("PROJECT_ANALYSIS_UNSUPPORTED", "ANALYZING")
    BY <1>4 DEF markUnsupported
  <2>2. Grown
    BY <2>1, <1>1, <1>2, InsertGrows DEF EventTypes
  <2>3. "UNSUPPORTED_PROJECT" \in Errors /\ "UNSUPPORTED_PROJECT" \notin ToldErrors
    BY Codes DEF OtherErrors, ToldErrors
  <2> QED BY <2>1, <2>2, <2>3, <1>1, ErrorWritten
<1> QED BY <1>3, <1>4

LEMMA FailureKeeps ==
  ASSUME ReportsInv, abandonDeployment \/ markOrchestrationRunFailed
  PROVE  Kept
<1>1. row \in Rows /\ events \in Events /\ Explained(row, events)
  BY DEF ReportsInv
<1>2. "FAILED" \in Statuses /\ row.status \in Statuses
  BY <1>1 DEF Statuses, Rows
<1>3. {"DEPLOYMENT_ABANDONED", "ORCHESTRATION_RUN_FAILED"} \subseteq Errors \ ToldErrors
  BY Codes DEF OtherErrors, ToldErrors
<1>4. CASE abandonDeployment
  <2>1. /\ row' = [row EXCEPT !.status = "FAILED", !.error = "DEPLOYMENT_ABANDONED"]
        /\ Insert("DEPLOYMENT_ABANDONED", "FAILED")
    BY <1>4 DEF abandonDeployment
  <2>2. Grown /\ Reached(events', "FAILED")
    BY <2>1, <1>1, <1>2, InsertGrows DEF EventTypes
  <2> QED BY <2>1, <2>2, <1>1, <1>2, <1>3, StatusWritten
<1>5. CASE markOrchestrationRunFailed
  <2>1. Move(row.status, "FAILED", "ORCHESTRATION_RUN_FAILED", "ORCHESTRATION_RUN_FAILED")
    BY <1>5 DEF markOrchestrationRunFailed
  <2> QED BY <2>1, <1>1, <1>2, <1>3, MoveExplained DEF Kept, EventTypes
<1> QED BY <1>4, <1>5

\* Only here does a status change without its event.
LEMMA DeletionKeeps ==
  ASSUME ReportsInv, deleteApp
  PROVE  Kept
<1>1. row \in Rows /\ events \in Events /\ Explained(row, events)
  BY DEF ReportsInv
<1>2. Grown
  BY <1>1, NothingGrows DEF deleteApp
<1>3. PICK status \in {"DELETING", "DELETED"} : row' = [row EXCEPT !.status = status]
  BY DEF deleteApp
<1>4. status \in Statuses
  BY DEF Statuses
<1>5. row' \in Rows /\ row'.status = status /\ row'.error = row.error
  BY <1>1, <1>3, <1>4, RowTypes
<1> QED BY <1>1, <1>2, <1>5, RowExplained DEF Kept

LEMMA ConfigurationKeeps ==
  ASSUME ReportsInv, NEW t \in Tasks,
         BlockForConfiguration(t) \/ AdvanceToProvisioning(t) \/ provisionRuntime(t)
  PROVE  Kept
<1>1. row \in Rows /\ events \in Events /\ Explained(row, events)
  BY DEF ReportsInv
<1>2. {"ANALYZING", "PROVISIONING", "BUILDING"} \subseteq Statuses /\ row.status \in Statuses
      /\ row.error \in Errors \cup {NULL}
  BY <1>1 DEF Statuses, Rows
<1>3. CASE BlockForConfiguration(t)
  <2>1. /\ \/ row' = [row EXCEPT !.error = "ENV_CONFIGURATION_REQUIRED"]
           \/ row' = row
        /\ Insert("ENV_REQUIREMENTS_BLOCKED", "ANALYZING")
    BY <1>3 DEF BlockForConfiguration
  <2>2. Grown
    BY <2>1, <1>1, <1>2, InsertGrows DEF EventTypes
  <2>3. "ENV_CONFIGURATION_REQUIRED" \in Errors \ ToldErrors
    BY Codes DEF OtherErrors, ToldErrors
  <2> QED BY <2>1, <2>2, <2>3, <1>1, ErrorWritten
<1>4. CASE AdvanceToProvisioning(t)
  <2>1. Move("ANALYZING", "PROVISIONING", NULL, "ENV_REQUIREMENTS_VERIFIED")
    BY <1>4 DEF AdvanceToProvisioning
  <2> QED BY <2>1, <1>1, <1>2, Codes, MoveExplained DEF Kept, EventTypes
<1>5. CASE provisionRuntime(t)
  <2>1. CASE row.status = "PROVISIONING"
    <3>1. Move("PROVISIONING", "BUILDING", row.error, "RUNTIME_PROVISIONED")
      BY <2>1, <1>5 DEF provisionRuntime
    <3> QED BY <3>1, <1>1, <1>2, MoveExplained DEF Kept, EventTypes
  <2>2. CASE row.status # "PROVISIONING"
    <3>1. row' = row /\ (events' = events \/ Insert("RUNTIME_PROVIDER_RESULT_STALE", row.status))
      BY <2>2, <1>5 DEF provisionRuntime
    <3>2. Grown
      BY <3>1, <1>1, <1>2, InsertGrows, NothingGrows DEF EventTypes
    <3> QED BY <3>1, <3>2, <1>1, Codes, ErrorWritten
  <2> QED BY <2>1, <2>2
<1> QED BY <1>3, <1>4, <1>5

LEMMA BuildKeeps ==
  ASSUME ReportsInv, NEW t \in Tasks,
         \/ enforceResourcePolicy(t) \/ RecordPolicyBlock(t) \/ attachProviderDeployment(t)
         \/ recordClassifiedFailure(t) \/ RecordProviderBlock(t)
  PROVE  Kept
<1>1. row \in Rows /\ events \in Events /\ Explained(row, events)
  BY DEF ReportsInv
<1>2. "BUILDING" \in Statuses /\ row.status \in Statuses
  BY <1>1 DEF Statuses, Rows
<1>3. CASE enforceResourcePolicy(t)
  <2>1. events' = events /\ (row' = row \/ \E error \in PolicyErrors : row' = [row EXCEPT !.error = error])
    BY <1>3 DEF enforceResourcePolicy
  <2>2. Grown
    BY <2>1, <1>1, NothingGrows
  <2>3. CASE row' = row
    BY <2>2, <2>3, <1>1, Codes, ErrorWritten
  <2>4. CASE \E error \in PolicyErrors : row' = [row EXCEPT !.error = error]
    <3>1. PICK error \in PolicyErrors : row' = [row EXCEPT !.error = error]
      BY <2>4
    <3>2. error \in Errors /\ error \notin ToldErrors
      BY Codes
    <3> QED BY <3>1, <3>2, <2>2, <1>1, ErrorWritten
  <2> QED BY <2>1, <2>3, <2>4
<1>4. CASE recordClassifiedFailure(t)
  <2>1. events' = events
    BY <1>4 DEF recordClassifiedFailure
  <2>2. PICK error \in ProviderErrors : row' = [row EXCEPT !.error = error]
    BY <1>4 DEF recordClassifiedFailure
  <2>3. error \in Errors /\ error \notin ToldErrors
    BY Codes
  <2> QED BY <2>1, <2>2, <2>3, <1>1, NothingGrows, ErrorWritten
<1>5. CASE RecordPolicyBlock(t) \/ RecordProviderBlock(t)
  <2>1. row' = row /\ (Insert("RESOURCE_POLICY_BLOCKED", "BUILDING") \/ Insert("BUILD_PROVIDER_BLOCKED", "BUILDING"))
    BY <1>5 DEF RecordPolicyBlock, RecordProviderBlock
  <2>2. Grown
    BY <2>1, <1>1, <1>2, InsertGrows DEF EventTypes
  <2> QED BY <2>1, <2>2, <1>1, Codes, ErrorWritten
<1>6. CASE attachProviderDeployment(t)
  <2>1. CASE row.status = "BUILDING"
    <3>1. PICK type \in {"BUILD_STARTED", "BUILD_RECOVERY_ATTACHED"} :
            row' = [row EXCEPT !.provider = TRUE, !.error = NULL] /\ Insert(type, "BUILDING")
      BY <2>1, <1>6 DEF attachProviderDeployment
    <3>2. row' \in Rows /\ row'.status = row.status /\ row'.error = NULL
      BY <3>1, <1>1 DEF Rows
    <3>3. Grown
      BY <3>1, <1>1, <1>2, InsertGrows DEF EventTypes
    <3> QED BY <3>2, <3>3, <1>1, Codes, RowExplained DEF Kept
  <2>2. CASE row.status # "BUILDING"
    <3>1. row' = row /\ Insert("BUILD_PROVIDER_RESULT_STALE", row.status)
      BY <2>2, <1>6 DEF attachProviderDeployment
    <3>2. Grown
      BY <3>1, <1>1, <1>2, InsertGrows DEF EventTypes
    <3> QED BY <3>1, <3>2, <1>1, Codes, ErrorWritten
  <2> QED BY <2>1, <2>2
<1> QED BY <1>3, <1>4, <1>5, <1>6

LEMMA ReconciliationKeeps ==
  ASSUME ReportsInv, NEW t \in Tasks,
         reconcileBuild(t) \/ RejectSourceMismatch(t) \/ recordRemoteBuildContainment(t) \/ failBuildTimeout(t)
  PROVE  Kept
<1>1. row \in Rows /\ events \in Events /\ Explained(row, events)
  BY DEF ReportsInv
<1>2. {"BUILDING", "DEPLOYING", "FAILED"} \subseteq Statuses
  BY DEF Statuses
<1>3. {"BUILD_FAILED", "SOURCE_IDENTITY_UNAVAILABLE", "BUILD_SOURCE_MISMATCH", "BUILD_TIMEOUT"} \subseteq Errors
  BY Codes DEF OtherErrors
<1>4. "SOURCE_IDENTITY_UNAVAILABLE" \notin ToldErrors
  BY DEF ToldErrors
<1>5. CASE reconcileBuild(t)
  <2>1. \/ Move("BUILDING", "DEPLOYING", NULL, "BUILD_SUCCEEDED")
        \/ Move("BUILDING", "FAILED", "BUILD_FAILED", "BUILD_FAILED")
        \/ Move("BUILDING", "FAILED", "SOURCE_IDENTITY_UNAVAILABLE", "BUILD_SOURCE_UNVERIFIED")
    BY <1>5 DEF reconcileBuild
  <2>2. CASE Move("BUILDING", "DEPLOYING", NULL, "BUILD_SUCCEEDED")
    BY <2>2, <1>1, <1>2, Codes, MoveExplained DEF Kept, EventTypes
  <2>3. CASE Move("BUILDING", "FAILED", "BUILD_FAILED", "BUILD_FAILED")
    BY <2>3, <1>1, <1>2, <1>3, MoveExplained DEF Kept, EventTypes
  <2>4. CASE Move("BUILDING", "FAILED", "SOURCE_IDENTITY_UNAVAILABLE", "BUILD_SOURCE_UNVERIFIED")
    BY <2>4, <1>1, <1>2, <1>3, <1>4, MoveExplained DEF Kept, EventTypes
  <2> QED BY <2>1, <2>2, <2>3, <2>4
<1>6. CASE RejectSourceMismatch(t)
  <2>1. Insert("BUILD_SOURCE_MISMATCH", "FAILED")
    BY <1>6 DEF RejectSourceMismatch
  <2>2. Grown /\ Told(events', "BUILD_SOURCE_MISMATCH") /\ Reached(events', "FAILED")
    BY <2>1, <1>1, <1>2, InsertGrows DEF EventTypes
  <2>3. CASE row.status = "BUILDING"
    <3>1. row' = [row EXCEPT !.status = "FAILED", !.error = "BUILD_SOURCE_MISMATCH"]
      BY <2>3, <1>6 DEF RejectSourceMismatch
    <3> QED BY <3>1, <2>2, <1>1, <1>2, <1>3, StatusWritten
  <2>4. CASE row.status # "BUILDING"
    BY <2>4, <2>2, <1>1, <1>6, Codes, ErrorWritten DEF RejectSourceMismatch
  <2> QED BY <2>3, <2>4
<1>7. CASE recordRemoteBuildContainment(t)
  <2>1. row' = row /\ (events' = events \/ Insert("PROVIDER_CANCEL_CONFIRMED", "BUILDING"))
    BY <1>7 DEF recordRemoteBuildContainment
  <2>2. Grown
    BY <2>1, <1>1, <1>2, InsertGrows, NothingGrows DEF EventTypes
  <2> QED BY <2>1, <2>2, <1>1, Codes, ErrorWritten
<1>8. CASE failBuildTimeout(t)
  <2>1. Move("BUILDING", "FAILED", "BUILD_TIMEOUT", "BUILD_TIMEOUT")
    BY <1>8 DEF failBuildTimeout
  <2> QED BY <2>1, <1>1, <1>2, <1>3, MoveExplained DEF Kept, EventTypes
<1> QED BY <1>5, <1>6, <1>7, <1>8

LEMMA HealthKeeps ==
  ASSUME ReportsInv, NEW t \in Tasks,
         \/ StartHealthChecks(t) \/ HealthPassed(t) \/ HealthExhausted(t)
         \/ PublicAccessBlocked(t) \/ PublicAccessVerified(t)
  PROVE  Kept
<1>1. row \in Rows /\ events \in Events /\ Explained(row, events)
  BY DEF ReportsInv
<1>2. {"DEPLOYING", "HEALTH_CHECKING", "FAILED", "LIVE"} \subseteq Statuses /\ row.error \in Errors \cup {NULL}
  BY <1>1 DEF Statuses, Rows
<1>3. CASE StartHealthChecks(t)
  <2>1. \/ Move("DEPLOYING", "HEALTH_CHECKING", row.error, "HEALTH_CHECK_STARTED")
        \/ row' = row /\ events' = events
    BY <1>3 DEF StartHealthChecks
  <2>2. CASE Move("DEPLOYING", "HEALTH_CHECKING", row.error, "HEALTH_CHECK_STARTED")
    BY <2>2, <1>1, <1>2, MoveExplained DEF Kept, EventTypes
  <2>3. CASE row' = row /\ events' = events
    BY <2>3, <1>1, NothingGrows DEF Kept
  <2> QED BY <2>1, <2>2, <2>3
<1>4. CASE HealthPassed(t)
  <2>1. (row' = [row EXCEPT !.error = NULL] \/ row' = row) /\ Insert("HEALTH_CHECK_PASSED", "HEALTH_CHECKING")
    BY <1>4 DEF HealthPassed
  <2>2. Grown
    BY <2>1, <1>1, <1>2, InsertGrows DEF EventTypes
  <2> QED BY <2>1, <2>2, <1>1, Codes, ErrorWritten
<1>5. CASE HealthExhausted(t)
  <2>1. Move("HEALTH_CHECKING", "FAILED", "HEALTH_CHECK_FAILED", "HEALTH_CHECK_FAILED")
    BY <1>5 DEF HealthExhausted
  <2>2. "HEALTH_CHECK_FAILED" \in Errors
    BY Codes DEF OtherErrors
  <2> QED BY <2>1, <2>2, <1>1, <1>2, MoveExplained DEF Kept, EventTypes
<1>6. CASE PublicAccessBlocked(t)
  <2>1. row' = row /\ Insert("PUBLIC_ACCESS_BLOCKED", "HEALTH_CHECKING")
    BY <1>6 DEF PublicAccessBlocked
  <2>2. Grown
    BY <2>1, <1>1, <1>2, InsertGrows DEF EventTypes
  <2> QED BY <2>1, <2>2, <1>1, Codes, ErrorWritten
<1>7. CASE PublicAccessVerified(t)
  <2>1. Insert("PUBLIC_ACCESS_VERIFIED", "LIVE")
    BY <1>7 DEF PublicAccessVerified
  <2>2. Grown /\ Reached(events', "LIVE")
    BY <2>1, <1>1, <1>2, InsertGrows DEF EventTypes
  <2>3. CASE row.status = "HEALTH_CHECKING"
    <3>1. row' = [row EXCEPT !.status = "LIVE", !.error = NULL]
      BY <2>3, <1>7 DEF PublicAccessVerified
    <3> QED BY <3>1, <2>2, <2>3, <1>1, <1>2, Codes, StatusWritten
  <2>4. CASE row.status # "HEALTH_CHECKING"
    BY <2>4, <2>2, <1>1, <1>7, Codes, ErrorWritten DEF PublicAccessVerified
  <2> QED BY <2>3, <2>4
<1> QED BY <1>3, <1>4, <1>5, <1>6, <1>7

-----------------------------------------------------------------------------
(* The reports.                                                            *)

\* What a report has read or will read explains its row however the
\* deployment goes on.
LEMMA ReaderKept ==
  ASSUME ReportsInv, Kept, reader' = reader
  PROVE  ReportsInv'
<1>1. events' \in Events
  BY DEF Kept, Grown
<1>2. ReaderExplained'
  BY StillExplained DEF ReportsInv, Kept, ReaderExplained
<1> QED BY <1>1, <1>2 DEF Kept, ReportsInv

LEMMA QueriesRead ==
  /\ Queries # <<>> /\ Head(Queries) = "events" /\ Head(Queries) # "build" /\ Head(Queries) # "attempts"
  /\ Tail(Queries) = <<"build", "attempts">> /\ Tail(Tail(Queries)) = <<"attempts">>
  /\ Tail(Tail(Tail(Queries))) = <<>>
  /\ Head(Tail(Queries)) = "build" /\ Head(Tail(Tail(Queries))) = "attempts"
BY DEF Queries

LEMMA ReaderSteps ==
  ASSUME ReportsInv, StartReport \/ runIndependentQueries, row' = row, events' = events
  PROVE  ReportsInv'
<1>1. CASE StartReport
  <2>1. reader' = [pending |-> Queries, row |-> row, events |-> <<>>, build |-> NULL, attempts |-> 0]
    BY <1>1 DEF StartReport
  <2>2. /\ DOMAIN reader' = {"pending", "row", "events", "build", "attempts"}
        /\ reader'.pending = Queries /\ reader'.row = row
    BY <2>1
  <2>3. ReaderExplained'
    BY <2>2 DEF ReaderExplained, ReportsInv
  <2> QED BY <2>3 DEF ReportsInv
<1>2. CASE runIndependentQueries
  <2> DEFINE query == Head(reader.pending)
  <2>1. reader.pending # <<>>
    BY <1>2 DEF runIndependentQueries
  <2>2. DOMAIN reader = {"pending", "row", "events", "build", "attempts"}
    BY <2>1 DEF ReportsInv, ReaderExplained, NoReport
  <2>3. /\ DOMAIN reader' = DOMAIN reader
        /\ reader'.pending = Tail(reader.pending) /\ reader'.row = reader.row
        /\ reader'.events = IF query = "events" THEN events ELSE reader.events
    <3>1. PICK build_, attempts_ : reader' = [reader EXCEPT
            !.pending = Tail(@),
            !.events = IF query = "events" THEN events ELSE @,
            !.build = build_,
            !.attempts = attempts_]
      BY <1>2 DEF runIndependentQueries
    <3> HIDE DEF query
    <3> QED BY <3>1, <2>2
  <2>4. CASE reader.pending = Queries /\ Explained(reader.row, events)
    <3>1. reader'.pending = Tail(Queries) /\ reader'.events = events
      BY <2>3, <2>4, QueriesRead
    <3>2. ReaderExplained'
      BY <3>1, <2>2, <2>3, <2>4 DEF ReaderExplained, ReportsInv
    <3> QED BY <3>2 DEF ReportsInv
  <2>5. CASE /\ reader.pending \in {Tail(Queries), Tail(Tail(Queries)), <<>>}
             /\ reader.events \in Events /\ Explained(reader.row, reader.events)
    <3>1. /\ reader'.pending \in {Tail(Tail(Queries)), <<>>}
          /\ query # "events"
      <4>1. CASE reader.pending = Tail(Queries)
        BY <4>1, <2>3, QueriesRead
      <4>2. CASE reader.pending = Tail(Tail(Queries))
        BY <4>2, <2>3, QueriesRead
      <4> QED BY <4>1, <4>2, <2>1, <2>5
    <3>2. reader'.events = reader.events
      BY <3>1, <2>3
    <3>3. ReaderExplained'
      BY <3>1, <3>2, <2>2, <2>3, <2>5 DEF ReaderExplained
    <3> QED BY <3>3 DEF ReportsInv
  <2> QED BY <2>1, <2>4, <2>5 DEF ReportsInv, ReaderExplained, NoReport
<1> QED BY <1>1, <1>2

LEMMA InitReports == ReportsInit => ReportsInv
<1> SUFFICES ASSUME ReportsInit PROVE ReportsInv
  OBVIOUS
<1> DEFINE e == [type |-> "STATUS_CHANGED", to |-> "ANALYZING"]
<1>1. /\ row = [status |-> "ANALYZING", error |-> NULL, provider |-> FALSE]
      /\ events = <<e>> /\ reader = NoReport
  BY DEF ReportsInit
<1>2. row \in Rows
  BY <1>1 DEF Rows, Statuses
<1>3. e \in [type : EventTypes, to : Statuses]
  BY DEF EventTypes, Statuses
<1>4. events \in Events /\ Len(events) = 1 /\ events[1] = e
  <2> HIDE DEF e
  <2> QED BY <1>1, <1>3 DEF Events
<1>5. Reached(events, "ANALYZING")
  BY <1>4 DEF Reached
<1>6. Explained(row, events)
  BY <1>1, <1>5, Codes DEF Explained
<1> QED BY <1>1, <1>2, <1>4, <1>6 DEF ReportsInv, ReaderExplained

LEMMA NextReports == ReportsInv /\ [ReportsNext]_reportsVars => ReportsInv'
<1> SUFFICES ASSUME ReportsInv, [ReportsNext]_reportsVars PROVE ReportsInv'
  OBVIOUS
<1>1. CASE recordAnalysisCompleted \/ markUnsupported
  BY <1>1, AnalysisKeeps, ReaderKept DEF recordAnalysisCompleted, markUnsupported
<1>2. CASE abandonDeployment \/ markOrchestrationRunFailed
  BY <1>2, FailureKeeps, ReaderKept DEF abandonDeployment, markOrchestrationRunFailed
<1>3. CASE deleteApp
  BY <1>3, DeletionKeeps, ReaderKept DEF deleteApp
<1>4. CASE row' = row /\ events' = events /\ reader' = reader
  <2>1. Kept
    BY <1>4, NothingGrows DEF ReportsInv, Kept
  <2> QED BY <1>4, <2>1, ReaderKept
<1>5. CASE StartReport \/ runIndependentQueries
  <2>1. row' = row /\ events' = events
    BY <1>5 DEF StartReport, runIndependentQueries, database
  <2> QED BY <1>5, <2>1, ReaderSteps
<1>6. ASSUME NEW t \in Tasks, TaskStep(t) PROVE ReportsInv'
  <2>1. CASE Begin(t) \/ Probe(t) \/ ConfigurePublicAccess(t)
    BY <2>1, <1>4 DEF Begin, Probe, ConfigurePublicAccess, database
  <2>2. CASE BlockForConfiguration(t) \/ AdvanceToProvisioning(t) \/ provisionRuntime(t)
    BY <2>2, ConfigurationKeeps, ReaderKept DEF BlockForConfiguration, AdvanceToProvisioning, provisionRuntime
  <2>3. CASE \/ enforceResourcePolicy(t) \/ RecordPolicyBlock(t) \/ attachProviderDeployment(t)
             \/ recordClassifiedFailure(t) \/ RecordProviderBlock(t)
    <3>1. reader' = reader
      BY <2>3 DEF enforceResourcePolicy, RecordPolicyBlock, attachProviderDeployment,
                  recordClassifiedFailure, RecordProviderBlock
    <3> QED BY <2>3, <3>1, BuildKeeps, ReaderKept
  <2>4. CASE \/ reconcileBuild(t) \/ RejectSourceMismatch(t)
             \/ recordRemoteBuildContainment(t) \/ failBuildTimeout(t)
    <3>1. reader' = reader
      BY <2>4 DEF reconcileBuild, RejectSourceMismatch, recordRemoteBuildContainment, failBuildTimeout
    <3> QED BY <2>4, <3>1, ReconciliationKeeps, ReaderKept
  <2>5. CASE \/ StartHealthChecks(t) \/ HealthPassed(t) \/ HealthExhausted(t)
             \/ PublicAccessBlocked(t) \/ PublicAccessVerified(t)
    <3>1. reader' = reader
      BY <2>5 DEF StartHealthChecks, HealthPassed, HealthExhausted, PublicAccessBlocked, PublicAccessVerified
    <3> QED BY <2>5, <3>1, HealthKeeps, ReaderKept
  <2> QED BY <1>6, <2>1, <2>2, <2>3, <2>4, <2>5 DEF TaskStep
<1>7. CASE saveCustomerAppSecret \/ UNCHANGED reportsVars
  BY <1>7, <1>4 DEF saveCustomerAppSecret, reportsVars, database
<1> QED BY <1>1, <1>2, <1>3, <1>5, <1>6, <1>7 DEF ReportsNext

-----------------------------------------------------------------------------
(* What a report explains.                                                 *)

\* A set of positions that is not empty has a last one.
LEMMA LastThereIs ==
  ASSUME NEW n \in Nat, NEW S, S \subseteq 1 .. n, S # {}
  PROVE  \E d \in S : \A e \in S : d >= e
<1> DEFINE Later(d) == {e \in S : e > d}
           T == {Later(d) : d \in S}
<1>1. IsFiniteSet(S) /\ S \subseteq Int
  <2>1. IsFiniteSet(1 .. n)
    BY FS_Interval
  <2>2. IsFiniteSet(S)
    BY <2>1, FS_Subset
  <2>3. 1 .. n \subseteq Int
    OBVIOUS
  <2> QED BY <2>2, <2>3
<1>2. T \subseteq FiniteSubsetsOf(S) /\ T # {}
  <2>1. FiniteSubsetsOf(S) = SUBSET S
    BY <1>1, FS_FiniteSubsetsOfFinite
  <2>2. T \subseteq SUBSET S /\ T # {}
    OBVIOUS
  <2> QED BY <2>1, <2>2
<1>3. \E x \in T : \A y \in T : ~(<<y, x>> \in StrictSubsetOrdering(S))
  <2> HIDE DEF T
  <2> QED BY <1>2, FS_StrictSubsetOrderingWellFounded, WFMin
<1>4. PICK d \in S : \A y \in T : ~(<<y, Later(d)>> \in StrictSubsetOrdering(S))
  BY <1>3
<1>5. ASSUME NEW e \in S, e > d PROVE FALSE
  <2>1. Later(e) \subseteq Later(d) /\ e \in Later(d) /\ e \notin Later(e)
    <3>1. ~(e > e) /\ \A f \in S : f > e => f > d
      BY <1>1, <1>5
    <3> QED BY <1>5, <3>1
  <2>2. <<Later(e), Later(d)>> \in StrictSubsetOrdering(S)
    <3>1. Later(e) \in SUBSET S /\ Later(d) \in SUBSET S /\ Later(e) # Later(d)
      BY <2>1
    <3> HIDE DEF Later
    <3> QED BY <2>1, <3>1 DEF StrictSubsetOrdering
  <2> QED BY <1>4, <2>2
<1> QED BY <1>1, <1>5

LEMMA ToldIsFound ==
  ASSUME NEW ctx, NEW type, ctx.events \in Events, Told(ctx.events, type)
  PROVE  latestEvent(ctx, type) # 0
<1> DEFINE I == {i \in 1 .. Len(ctx.events) : ctx.events[i].type \in {type}}
<1>1. I # {} /\ I \subseteq 1 .. Len(ctx.events) /\ Len(ctx.events) \in Nat
  BY DEF Told, Events
<1>2. latestEvent(ctx, type) = Max(I)
  BY <1>1 DEF latestEvent, latestProgressionEvent, SelectLastInSeq
<1>3. Max(I) \in I
  <2> HIDE DEF I
  <2>1. \E x \in I : \A y \in I : x >= y
    BY <1>1, LastThereIs
  <2> QED BY <2>1 DEF Max
<1> QED BY <1>1, <1>2, <1>3

\* Only the explanations of a failed build and of a failed health check are
\* of a failure at these stages.
LEMMA FailuresExplained ==
  ASSUME NEW ctx,
         normalizeDeploymentDiagnostic(ctx).severity = "FAILED",
         normalizeDeploymentDiagnostic(ctx).stage \in {"BUILD", "HEALTH"}
  PROVE  /\ ctx.row.error \in ToldErrors
         /\ normalizeDeploymentDiagnostic(ctx).evidence = latestEvent(ctx, ctx.row.error)
<1> DEFINE d == normalizeDeploymentDiagnostic(ctx)
           buildErrors == {"BUILD_TIMEOUT", "BUILD_SOURCE_MISMATCH", "BUILD_FAILED"}
<1>1. CASE envStillBlocked(ctx) \/ policyStillBlocked(ctx)
  <2>1. d = EnvironmentDiagnostic(ctx) \/ d = PolicyDiagnostic(ctx)
    BY <1>1 DEF normalizeDeploymentDiagnostic
  <2>2. d.severity = "BLOCKED"
    BY <2>1 DEF EnvironmentDiagnostic, PolicyDiagnostic, diagnostic
  <2> QED BY <2>2
<1>2. CASE ~envStillBlocked(ctx) /\ ~policyStillBlocked(ctx)
  <2>1. CASE ctx.row.error \in ProviderErrors
    <3>1. ctx.row.error \notin buildErrors /\ ctx.row.error # "HEALTH_CHECK_FAILED"
      BY <2>1, ReportsAssumption DEF OtherErrors
    <3>2. d = ProviderDiagnostic(ctx)
      BY <1>2, <2>1, <3>1 DEF normalizeDeploymentDiagnostic
    <3>3. d.severity = "BLOCKED"
      BY <3>2 DEF ProviderDiagnostic, diagnostic
    <3> QED BY <3>3
  <2>2. CASE ctx.row.error \in buildErrors /\ ctx.row.error \notin ProviderErrors
    <3>1. ctx.row.error # "HEALTH_CHECK_FAILED"
      BY <2>2
    <3>2. d = BuildDiagnostic(ctx)
      BY <1>2, <2>2, <3>1 DEF normalizeDeploymentDiagnostic
    <3> QED BY <2>2, <3>2 DEF BuildDiagnostic, diagnostic, ToldErrors
  <2>3. CASE ctx.row.error = "HEALTH_CHECK_FAILED" /\ ctx.row.error \notin ProviderErrors
    <3>1. ctx.row.error \notin buildErrors
      BY <2>3
    <3>2. d = HealthDiagnostic(ctx)
      BY <1>2, <2>3, <3>1 DEF normalizeDeploymentDiagnostic
    <3> QED BY <2>3, <3>2 DEF HealthDiagnostic, diagnostic, ToldErrors
  <2>4. CASE ctx.row.error \notin ProviderErrors \cup buildErrors \cup {"HEALTH_CHECK_FAILED"}
    <3>1. \/ d = PublicAccessDiagnostic(ctx) \/ d = LiveDiagnostic(ctx)
          \/ d = UnknownDiagnostic(ctx) \/ d = NoIssueDiagnostic(ctx)
      BY <1>2, <2>4 DEF normalizeDeploymentDiagnostic
    <3>2. d.severity # "FAILED" \/ d.stage = "UNKNOWN"
      BY <3>1 DEF PublicAccessDiagnostic, LiveDiagnostic, UnknownDiagnostic, NoIssueDiagnostic, diagnostic
    <3> QED BY <3>2
  <2> QED BY <2>1, <2>2, <2>3, <2>4
<1> QED BY <1>1, <1>2

LEMMA ExplainedReport == ReportsInv => TimelineExplainsReport
<1> SUFFICES ASSUME ReportsInv, Reported
             PROVE  /\ reader.row.status \notin {"DELETING", "DELETED"} => transitioned(reader, reader.row.status)
                    /\ Timeline.diagnostic.severity = "FAILED" /\ Timeline.diagnostic.stage \in {"BUILD", "HEALTH"}
                         => Timeline.diagnostic.evidence # 0
                    /\ reader.row.status \in {"DEPLOYING", "HEALTH_CHECKING", "LIVE"} => Timeline.reachedProviderBuild
                    /\ reader.row.status = "LIVE" => Timeline.reachedHealthCheck /\ Timeline.reachedLive
  BY DEF TimelineExplainsReport
<1>1. reader.events \in Events /\ Explained(reader.row, reader.events)
  BY QueriesRead DEF Reported, ReportsInv, ReaderExplained, NoReport
<1>2. /\ Timeline.diagnostic = normalizeDeploymentDiagnostic(reader)
      /\ Told(reader.events, "BUILD_SUCCEEDED") => Timeline.reachedProviderBuild
      /\ reader.row.status = "LIVE" => Timeline.reachedHealthCheck /\ Timeline.reachedLive
  BY DEF Timeline, normalizeDeploymentTimeline, SomeEvent, BuildEvents, Told
<1>3. ASSUME Timeline.diagnostic.severity = "FAILED", Timeline.diagnostic.stage \in {"BUILD", "HEALTH"}
      PROVE  Timeline.diagnostic.evidence # 0
  <2>1. /\ reader.row.error \in ToldErrors
        /\ Timeline.diagnostic.evidence = latestEvent(reader, reader.row.error)
    BY <1>2, <1>3, FailuresExplained
  <2>2. Told(reader.events, reader.row.error)
    BY <1>1, <2>1 DEF Explained
  <2> QED BY <1>1, <2>1, <2>2, ToldIsFound
<1> QED BY <1>1, <1>2, <1>3 DEF Explained, Reached, transitioned

(* However the tasks, the operators and the customer go on while a report  *)
(* reads, and however many events the deployment has, the timeline shows   *)
(* the event that led to the status it reports, the event of the failure   *)
(* it explains and the stages the deployment passed                        *)
(* (getDeploymentTimeline, normalizeDeploymentTimeline).                   *)
THEOREM TimelineExplains == ReportsSpec => []TimelineExplainsReport
<1> QED BY InitReports, NextReports, ExplainedReport, PTL DEF ReportsSpec
=============================================================================
