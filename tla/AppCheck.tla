------------------------------ MODULE AppCheck ------------------------------
(***************************************************************************)
(* The free safety check of a public app: the allowances that visitors     *)
(* spend, and the scan that an allowed check makes. The scan asks for the  *)
(* page, its http address, its scripts, four files that should not be      *)
(* public and its Supabase projects, one request after the other. All of   *)
(* them share one budget of requests and one deadline, every one may fail, *)
(* and the report is put together from what was answered.                  *)
(*                                                                         *)
(*   counts    public_check_rate_limits, by key and hour                   *)
(*   visits    requests to /api/check: where they are, and their hour      *)
(*   site      the app that is checked: what it really is                  *)
(*   stage     what the scan asks for; turn: which of them                 *)
(*   hop, used redirects of this request, requests of this scan            *)
(*   late      the deadline of the scan has passed                         *)
(*   missed, redirects   history: a request has failed; how many redirects *)
(*   texts     what the page and the script hold of interest, as read      *)
(*   read      scripts read                                                *)
(*   backends  what is known of the Supabase projects                      *)
(*   findings, passed   the report so far                                  *)
(*                                                                         *)
(* Contents are told apart by what the scan looks for: the page and the    *)
(* first script may hold a secret, the address of Supabase and the host of *)
(* a project of the site, other scripts nothing. A scan shares nothing     *)
(* with other visits: one is explored.                                     *)
(***************************************************************************)
EXTENDS Naturals, Sequences, FiniteSets

CONSTANTS
  Visits,               \* requests to the checker
  Visitor,              \* their visitor key: a hash of the address
  PER_VISITOR_PER_HOUR,
  GLOBAL_PER_HOUR,
  MaxHours,             \* bound on the hours that pass
  MAX_REQUESTS,
  MAX_REDIRECTS,
  MAX_SCRIPTS,
  Sites                 \* the apps that are checked

VARIABLES hour, counts, visits, site, stage, turn, hop, used, late, missed,
          redirects, texts, read, backends, findings, passed

allowances == <<hour, counts, visits>>
report == <<texts, read, backends, findings, passed>>
requester == <<hop, used, late, missed, redirects>>
scan == <<site, stage, turn, requester, report>>
checkVars == <<allowances, scan>>

\* Visitors come one by one; the limits and the budget are numbers.
ASSUME AllowanceAssumption ==
  /\ IsFiniteSet(Visits)
  /\ PER_VISITOR_PER_HOUR \in Nat /\ GLOBAL_PER_HOUR \in Nat
  /\ MaxHours \in Nat \ {0}

-----------------------------------------------------------------------------
(* What is looked for.                                                     *)

\* Keys in the code that reaches the browser, and how bad each is.
SECRET_PATTERNS ==
  [ id \in {"openai-key", "anthropic-key", "stripe-secret", "stripe-test-secret", "supabase-secret",
            "aws-key", "github-token", "private-key", "google-api-key"} |->
    CASE id \in {"stripe-test-secret", "aws-key"} -> "high"
      [] id = "google-api-key" -> "medium"
      [] OTHER -> "critical" ]

probes == <<"/.env", "/.env.local", "/.env.production", "/.git/config">>

HEADER_CHECKS == {"hsts", "csp", "framing", "nosniff", "referrer"}

\* A finding's severity, in halves of a point.
SEVERITY_COST == [critical |-> 8, high |-> 4, medium |-> 2, low |-> 1, info |-> 0]

Severity(id) ==
  CASE id \in DOMAIN SECRET_PATTERNS -> SECRET_PATTERNS[id]
    [] id \in {"supabase-service-role", "env-exposed", "git-exposed"} -> "critical"
    [] id \in {"no-https", "supabase-backend-down"} -> "high"
    [] id = "http-not-redirected" -> "medium"
    [] id = "supabase-rls" -> "info"
    [] OTHER -> "low"

\* The n-th of its kind: the text, the file or the project it is about.
Finding(id, n) == [id |-> id, n |-> n]

\* Math.round of what is left of ten points.
scoreFindings(found) ==
  LET Cost(severity) == SEVERITY_COST[severity] * Cardinality({f \in found : Severity(f.id) = severity})
      cost == Cost("critical") + Cost("high") + Cost("medium") + Cost("low") + Cost("info")
  IN IF cost >= 20 THEN 0 ELSE (21 - cost) \div 2

\* https: the page was answered over https; plain: what its http address
\* does: a redirect the scan counts (moved), one to https by 303 (seeOther),
\* one to an address that is not https and goes on to it (hops), a page
\* without https (served), an error, or nothing; files: what is answered to
\* each probe: nothing, a page, settings, a git config or other text.
SiteRecords ==
  {s \in [ https : BOOLEAN,
           plain : {"moved", "seeOther", "hops", "served", "error", "closed"},
           scripts : 0 .. MAX_SCRIPTS,
           texts : SUBSET ({0, 1} \X {"secret", "host", "supabase"}),
           secret : DOMAIN SECRET_PATTERNS \cup {"supabase-service-role"},
           files : [1 .. 4 -> {"none", "page", "settings", "config", "text"}],
           headers : SUBSET (HEADER_CHECKS \cup {"csp-scripts", "csp-frames"}),
           backends : UNION {[1 .. n -> {"ok", "paused", "gone"}] : n \in 0 .. 2} ] :
     s.scripts = 0 => \A t \in s.texts : t[1] = 0}

ASSUME SitesAssumption == MAX_SCRIPTS \in Nat /\ MAX_REQUESTS \in Nat /\ Sites \subseteq SiteRecords

CheckInit ==
  /\ hour = 1
  /\ counts = [key \in {Visitor[v] : v \in Visits} \cup {"global"} |-> [h \in 1 .. MaxHours |-> 0]]
  /\ visits = [v \in Visits |-> [at |-> "new", hour |-> 0]]
  /\ site \in Sites
  /\ stage = "idle" /\ turn = 0 /\ hop = 0 /\ used = 0 /\ late = FALSE
  /\ missed = FALSE /\ redirects = 0
  /\ texts = {} /\ read = 0 /\ backends = <<>> /\ findings = {} /\ passed = {}

-----------------------------------------------------------------------------
(* Allowances: fixed hours, counted by an atomic upsert.                   *)

HourPasses ==
  /\ hour < MaxHours
  /\ hour' = hour + 1
  /\ UNCHANGED <<counts, visits, scan>>

hourWindow(v) ==
  /\ visits[v].at = "new"
  /\ visits' = [visits EXCEPT ![v] = [at |-> "mine", hour |-> hour]]
  /\ UNCHANGED <<hour, counts, scan>>

\* (mutant) A row that is there already is left alone.
BumpOnce(key, h) == counts' = [counts EXCEPT ![key][h] = 1]

bump(key, h) == counts' = [counts EXCEPT ![key][h] = @ + 1]

consumeCheckAllowance(v) ==
  /\ visits[v].at \in {"mine", "all"}
  /\ \E key \in DOMAIN counts :
       /\ key = IF visits[v].at = "mine" THEN Visitor[v] ELSE "global"
       /\ bump(key, visits[v].hour)
       /\ \/ /\ visits[v].at = "mine"
             /\ visits' = [visits EXCEPT ![v].at =
                  IF counts'[key][visits[v].hour] > PER_VISITOR_PER_HOUR THEN "refused" ELSE "all"]
          \/ /\ visits[v].at = "all"
             /\ visits' = [visits EXCEPT ![v].at =
                  IF counts'[key][visits[v].hour] > GLOBAL_PER_HOUR THEN "refused" ELSE "allowed"]
  /\ UNCHANGED <<hour, scan>>

-----------------------------------------------------------------------------
(* Requests of the scan.                                                   *)

RunAppCheck(v) ==
  /\ visits[v].at = "allowed"
  /\ stage = "idle"
  /\ stage' = "page"
  /\ UNCHANGED <<allowances, site, turn, requester, report>>

DeadlinePasses ==
  /\ stage \notin {"idle", "unreachable", "done"}
  /\ ~late
  /\ late' = TRUE
  /\ UNCHANGED <<allowances, site, stage, turn, hop, used, missed, redirects, report>>

\* (mutant) The last request of the budget is not sent.
OneTooFew == used + 1 >= MAX_REQUESTS \/ late

BudgetUsedUp == used >= MAX_REQUESTS \/ late

\* A page or script that redirects is asked for again, within the budget.
Redirected ==
  /\ stage \in {"page", "scripts"}
  /\ stage = "scripts" => turn < site.scripts
  /\ ~BudgetUsedUp /\ hop < MAX_REDIRECTS
  /\ used' = used + 1
  /\ hop' = hop + 1
  /\ redirects' = redirects + 1
  /\ UNCHANGED <<allowances, site, stage, turn, late, missed, report>>

\* A request ends with an answer, without one, or is not sent any more.
Outcomes == {"answer", "failed", "budget"}

fetch(outcome) ==
  /\ IF outcome = "budget" THEN BudgetUsedUp /\ UNCHANGED used
                           ELSE ~BudgetUsedUp /\ used' = used + 1
  /\ hop' = 0
  /\ missed' = (missed \/ (outcome = "failed" /\ (stage = "http" => site.plain # "closed")))
  /\ UNCHANGED <<allowances, site, late, redirects>>

TextsOf(n) == {t \in site.texts : t[1] = n}

\* Without the page, or with an error instead of it, there is no report.
FetchPage(outcome) ==
  /\ stage = "page"
  /\ fetch(outcome)
  /\ IF outcome = "answer"
     THEN /\ texts' = TextsOf(0)
          /\ stage' = IF site.https THEN "http" ELSE "scripts"
          /\ findings' = IF site.https THEN findings ELSE findings \cup {Finding("no-https", 0)}
          /\ passed' = IF site.https THEN passed \cup {"https"} ELSE passed
     ELSE stage' = "unreachable" /\ UNCHANGED <<texts, findings, passed>>
  /\ UNCHANGED <<turn, read, backends>>

\* An http address that does not answer is fine. Any other answer than an
\* error or a redirect by one of four codes straight to https is a finding.
FetchInsecure(outcome) ==
  /\ stage = "http"
  /\ outcome = "answer" => site.plain # "closed"
  /\ fetch(outcome)
  /\ stage' = "scripts"
  /\ passed' = IF outcome = "answer" /\ site.plain = "moved"
               THEN passed \cup {"http-redirected"} ELSE passed
  /\ findings' = IF outcome = "answer" /\ site.plain \in {"seeOther", "hops", "served"}
                 THEN findings \cup {Finding("http-not-redirected", 0)} ELSE findings
  /\ UNCHANGED <<turn, texts, read, backends>>

\* A script that cannot be read is left out; no budget, no further scripts.
FetchScript(outcome) ==
  /\ stage = "scripts" /\ turn < site.scripts
  /\ fetch(outcome)
  /\ turn' = IF outcome = "budget" THEN site.scripts ELSE turn + 1
  /\ read' = IF outcome = "answer" THEN read + 1 ELSE read
  /\ texts' = IF outcome = "answer" /\ turn = 0 THEN texts \cup TextsOf(1) ELSE texts
  /\ UNCHANGED <<stage, backends, findings, passed>>

\* Every text that holds the secret is a finding.
scanTextForSecrets ==
  /\ stage = "scripts" /\ turn = site.scripts
  /\ LET secrets == {t \in texts : t[2] = "secret"}
     IN /\ findings' = findings \cup {Finding(site.secret, t[1]) : t \in secrets}
        /\ passed' = IF secrets = {} THEN passed \cup {"no-secrets"} ELSE passed
  /\ stage' = "probes" /\ turn' = 0
  /\ UNCHANGED <<allowances, site, requester, texts, read, backends>>

-----------------------------------------------------------------------------
(* Files that should never be public.                                      *)

\* Settings have a name in capitals on most lines, a git config has [core];
\* the page that a single-page app answers every path with has neither.
looksLikeTheFile(i) == site.files[i] = IF probes[i] = "/.git/config" THEN "config" ELSE "settings"

FileFinding(i) == Finding(IF probes[i] = "/.git/config" THEN "git-exposed" ELSE "env-exposed", i)

FetchProbe(outcome) ==
  /\ stage = "probes" /\ turn < Len(probes)
  /\ fetch(outcome)
  /\ turn' = IF outcome = "budget" THEN Len(probes) ELSE turn + 1
  /\ findings' = IF outcome = "answer" /\ looksLikeTheFile(turn + 1)
                 THEN findings \cup {FileFinding(turn + 1)} ELSE findings
  /\ UNCHANGED <<stage, texts, read, backends, passed>>

Exposed == \E f \in findings : f.id \in {"env-exposed", "git-exposed"}

HeaderPasses(check) ==
  \/ check \in site.headers
  \/ check = "framing" /\ {"csp", "csp-frames"} \subseteq site.headers

\* A policy that says nothing of scripts is a finding of its own.
AnyScript(check) == check = "csp" /\ "csp" \in site.headers /\ "csp-scripts" \notin site.headers

HeaderFindings ==
  {Finding(check, 0) : check \in {c \in HEADER_CHECKS : ~HeaderPasses(c)}} \cup
  {Finding("header-csp-scripts", 0) : check \in {c \in HEADER_CHECKS : AnyScript(c)}}

\* (mutant) The files are said to be safe whatever was found.
FilesSafe(exposed) == {"no-public-files"}

PassedFiles(exposed) == IF exposed THEN {} ELSE {"no-public-files"}

\* What the probes left, then the headers the page came with.
checkHeaders ==
  /\ stage = "probes" /\ turn = Len(probes)
  /\ findings' = findings \cup HeaderFindings
  /\ passed' = passed \cup PassedFiles(Exposed) \cup {c \in HEADER_CHECKS : HeaderPasses(c) /\ ~AnyScript(c)}
  /\ stage' = "backend" /\ turn' = 0
  /\ UNCHANGED <<allowances, site, requester, texts, read, backends>>

-----------------------------------------------------------------------------
(* The Supabase projects.                                                  *)

supabaseProjectHosts == IF \E t \in texts : t[2] = "host" THEN site.backends ELSE <<>>

BackendIs(state) ==
  /\ backends' = Append(backends, state)
  /\ turn' = turn + 1
  /\ findings' = IF state \in {"gone", "paused"}
                 THEN findings \cup {Finding("supabase-backend-down", turn + 1)} ELSE findings
  /\ passed' = IF state = "ok" THEN passed \cup {"backend-answers"} ELSE passed
  /\ UNCHANGED <<stage, texts, read>>

\* The name of a project that is paused or deleted is mostly not found.
resolveHost ==
  /\ stage = "backend" /\ turn < Len(supabaseProjectHosts)
  /\ supabaseProjectHosts[turn + 1] # "ok"
  /\ BackendIs("gone")
  /\ UNCHANGED <<allowances, site, requester>>

\* Otherwise, or when the lookup was inconclusive, the project is asked.
checkSupabaseBackend(outcome) ==
  /\ stage = "backend" /\ turn < Len(supabaseProjectHosts)
  /\ fetch(outcome)
  /\ LET project == supabaseProjectHosts[turn + 1]
     IN \/ outcome = "answer" /\ project # "gone" /\ BackendIs(project)
        \/ outcome = "failed" /\ project # "ok" /\ BackendIs("gone")
        \/ outcome # "answer" /\ BackendIs("unknown")

\* What a scan cannot see is only said of a site that uses Supabase.
Finish ==
  /\ stage = "backend" /\ turn = Len(supabaseProjectHosts)
  /\ findings' = IF /\ \E t \in texts : t[2] = "supabase"
                    /\ ~\E f \in findings : f.id = "supabase-backend-down"
                 THEN findings \cup {Finding("supabase-rls", 0)} ELSE findings
  /\ stage' = "done"
  /\ UNCHANGED <<allowances, site, turn, requester, texts, read, backends, passed>>

CheckNext ==
  \/ HourPasses
  \/ \E v \in Visits : hourWindow(v) \/ consumeCheckAllowance(v) \/ RunAppCheck(v)
  \/ DeadlinePasses \/ Redirected
  \/ \E outcome \in Outcomes :
       \/ FetchPage(outcome) \/ FetchInsecure(outcome) \/ FetchScript(outcome)
       \/ FetchProbe(outcome) \/ checkSupabaseBackend(outcome)
  \/ scanTextForSecrets \/ checkHeaders \/ resolveHost \/ Finish

CheckSpec == CheckInit /\ [][CheckNext]_checkVars

-----------------------------------------------------------------------------

Found == {f.id : f \in findings}

(* However late its requests began and whatever hour has come since, a     *)
(* visitor gets PER_VISITOR_PER_HOUR checks of an hour and all visitors    *)
(* together GLOBAL_PER_HOUR.                                               *)
AllowanceKept ==
  \A h \in 1 .. MaxHours :
    LET allowed == {v \in Visits : visits[v].at = "allowed" /\ visits[v].hour = h}
    IN /\ Cardinality(allowed) <= GLOBAL_PER_HOUR
       /\ \A key \in DOMAIN counts :
            Cardinality({v \in allowed : Visitor[v] = key}) <= PER_VISITOR_PER_HOUR

\* The report of a scan whose every request was sent and answered: what is
\* wrong with the site, and what cannot be seen of it.
HttpFindings ==
  IF ~site.https THEN {Finding("no-https", 0)}
  ELSE IF site.plain \in {"seeOther", "hops", "served"} THEN {Finding("http-not-redirected", 0)} ELSE {}

SecretFindings == {Finding(site.secret, t[1]) : t \in {u \in site.texts : u[2] = "secret"}}

FileFindings ==
  {Finding("env-exposed", i) : i \in {j \in 1 .. 3 : site.files[j] = "settings"}} \cup
  {Finding("git-exposed", i) : i \in {j \in {4} : site.files[j] = "config"}}

Projects == IF \E t \in site.texts : t[2] = "host" THEN site.backends ELSE <<>>

BackendFindings ==
  {Finding("supabase-backend-down", i) : i \in {j \in 1 .. Len(Projects) : Projects[j] # "ok"}}

Trouble == HttpFindings \cup SecretFindings \cup FileFindings \cup HeaderFindings \cup BackendFindings

Unseen == Finding("supabase-rls", 0)

Complete ==
  IF (\E t \in site.texts : t[2] = "supabase") /\ BackendFindings = {} THEN Trouble \cup {Unseen} ELSE Trouble

\* The requests it takes, redirects apart.
Needed == 1 + (IF site.https THEN 1 ELSE 0) + site.scripts + 4 + Len(Projects)

(* Requests that fail, are redirected or are not sent any more only hide   *)
(* trouble. A finding is one of the complete report, but for the notice    *)
(* about Supabase, which a project that does not say that it is down       *)
(* brings back; the score is not below that of the complete report; and    *)
(* the report is the complete one when no request failed and the budget    *)
(* was enough for the requests and their redirects.                        *)
FailuresOnlyHide ==
  /\ findings \subseteq Complete \cup {Unseen}
  /\ scoreFindings(findings) >= scoreFindings(Complete)
  /\ stage = "done" /\ ~missed /\ ~late /\ redirects + Needed <= MAX_REQUESTS => findings = Complete

(* The report never says of one thing that it is well and that it is not:  *)
(* of secrets, of public files, of http and, with one project, of the      *)
(* backend. A critical finding leaves six points of ten at most, and ten   *)
(* are left only when no finding is worse than low.                        *)
SaysOneThing ==
  /\ ~("no-secrets" \in passed /\ Found \cap (DOMAIN SECRET_PATTERNS \cup {"supabase-service-role"}) # {})
  /\ ~("no-public-files" \in passed /\ Found \cap {"env-exposed", "git-exposed"} # {})
  /\ ~("http-redirected" \in passed /\ Found \cap {"no-https", "http-not-redirected"} # {})
  /\ Len(site.backends) = 1 => ~("backend-answers" \in passed /\ "supabase-backend-down" \in Found)
  /\ stage = "done" =>
       /\ (\E f \in Found : Severity(f) = "critical") => scoreFindings(findings) <= 6
       /\ scoreFindings(findings) = 10 => \A f \in Found : Severity(f) \in {"low", "info"}

(* "The insecure http:// version still works" is said of a site that       *)
(* serves a page without https.                                            *)
HttpAlarmIsTrue == "http-not-redirected" \in Found => site.plain = "served"

(* A report that says that no .env or .git file can be downloaded has      *)
(* asked for them.                                                         *)
PassedMeansChecked == "no-public-files" \in passed => FileFindings = {}
=============================================================================
