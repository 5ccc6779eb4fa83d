----------------------------- MODULE MCAppCheck -----------------------------
(* The instance of AppCheck that TLC checks.                               *)
EXTENDS AppCheck, TLC

CONSTANTS v1, v2, v3, v4, v5, alice, bob, carol

\* Three of the five visits are alice's.
MCVisitor == [v \in Visits |-> CASE v = v4 -> bob [] v = v5 -> carol [] OTHER -> alice]

Sound == [ https |-> TRUE, plain |-> "moved", scripts |-> 2, texts |-> {}, secret |-> "openai-key",
           files |-> <<"page", "none", "page", "page">>,
           headers |-> {"hsts", "csp", "csp-scripts", "csp-frames", "nosniff", "referrer"},
           backends |-> <<>> ]

Full == [Sound EXCEPT !.scripts = 8, !.texts = {<<1, "host">>, <<1, "supabase">>}]

\* A sound site, and sites with one or more things wrong with them; the last
\* ones need every request of the budget.
MCSites ==
  {Sound, [Sound EXCEPT !.https = FALSE, !.headers = {"csp"}]} \cup
  { [Sound EXCEPT !.plain = p] : p \in {"seeOther", "hops", "served", "error", "closed"} } \cup
  { [Sound EXCEPT !.texts = t, !.secret = s, !.scripts = 3] :
      t \in {{<<0, "secret">>}, {<<0, "secret">>, <<1, "secret">>, <<1, "supabase">>}},
      s \in {"google-api-key", "stripe-secret", "supabase-service-role"} } \cup
  { [Sound EXCEPT !.files = f, !.scripts = 8] :
      f \in {<<"settings", "none", "text", "settings">>, <<"config", "page", "none", "config">>,
             <<"settings", "page", "settings", "page">>} } \cup
  { [Sound EXCEPT !.texts = {<<0, "host">>, <<w, "supabase">>}, !.backends = b] :
      w \in {0, 1}, b \in {<<"ok">>, <<"paused">>, <<"gone">>, <<"ok", "gone">>} } \cup
  { [Full EXCEPT !.backends = b] : b \in {<<"ok", "paused">>, <<"gone", "gone">>} }

\* A scan shares nothing with visits: only one of alice's is followed by its
\* scan, and the visits are told apart for one site.
MCConstraint ==
  LET begun == {v \in Visits : visits[v].at # "new"}
  IN \/ stage = "idle" /\ site = Sound
     \/ hour = 1 /\ Cardinality(begun) <= 1 /\ \A v \in begun : Visitor[v] = alice

MCVisitSymmetry == {p @@ [v \in {v4, v5} |-> v] : p \in Permutations({v1, v2, v3})}
=============================================================================
