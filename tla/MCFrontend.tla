------------------------------ MODULE MCFrontend ------------------------------
(***************************************************************************)
(* Values for the constants of Frontend.                                   *)
(***************************************************************************)
EXTENDS Frontend, TLC, Sequences

CONSTANTS k1, p1, b1, b2,         \* administration: a key, a prompt, brands
          P1, P2, P3, q1, q2, q3  \* projects and prompts

\* Cards and reports have one call for each change and one more in flight.
MCMaxFlight ==
    [part \in {"administration", "prompt", "projects", "project", "sign-in"} |-> 2]
    @@ [part \in {"rank report", "card", "dashboard"} |-> 3] @@ ("analytics" :> 4)

MCMaxActs ==
    ("administration" :> 1) @@ [part \in {"prompt", "project"} |-> 2]
    @@ [part \in {"rank report", "card"} |-> 4] @@ [part \in {"analytics", "dashboard", "projects"} |-> 3]

MCTerms == {{p1}, {}}

MCPageCount == ("" :> 2) @@ ("q" :> 1)

\* P1 has two prompts with ranks, P2 one without, and P3 no prompt.  The second
\* range of dates ends before it begins.
MCPromptsOf == (P1 :> <<q1, q2>>) @@ (P2 :> <<q3>>) @@ (P3 :> <<>>)

MCDefaultModel == (q1 :> "m") @@ (q2 :> "m") @@ (q3 :> "none")

MCDateRanges == {<<2, 0>>, <<2, 1>>}

MCPages == (q1 :> 2) @@ (q2 :> 1) @@ (q3 :> 1)

\* Brands 1 to 3: the own brand of P1 was observed as well, and both projects
\* have a configured brand without identity.
MCObserved == (P1 :> {1, 2}) @@ (P2 :> {2, 3})

MCConfigured == (P1 :> {2, 0}) @@ (P2 :> {0})

MCOwned == (P1 :> {2}) @@ (P2 :> {0})

MCRowPages == (TRUE :> 1) @@ (FALSE :> 2)

MCSeries == [k \in {7, 30} \X {q1, "all"} |-> IF k[1] = 7 THEN {1, 2} ELSE {2, 3}]

MCDashboardPrompts == (P1 :> {q1}) @@ (P2 :> {q2})

MCModelTexts == {{"m"}, {}}

\* The first model has the last name.
MCNameOrder == (1 :> 2) @@ (2 :> 1)

\* A user who acted before the answers came, or lost one, is promised nothing any
\* more (WaitingUserSeesOnePrompt): what follows is not explored.
Unhurried == mounted = "prompt" => ~s4.busy /\ ~s4.lost

MCDefaultFont == CHOOSE f \in Fonts : TRUE
=============================================================================
