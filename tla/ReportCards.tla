---------------------------- MODULE ReportCards ----------------------------
(***************************************************************************)
(* The cards that show one report for the parameters chosen on them: the   *)
(* competitor radar and the cost summary of the dashboard, and the model   *)
(* performance of a project.  All keep [result] under the key of the       *)
(* request it answers, and show it only while that is the current key.     *)
(***************************************************************************)
EXTENDS Requests, FiniteSets

CONSTANTS Days,       \* the ranges offered
          Prompts,    \* prompts of the project, for the radar
          Series,     \* Series[k]: brands of the radar of request k
          MaxFlight,  \* bound: calls in flight when the user acts
          MaxChanges  \* bound: changes of the parameters

Cards == {"radar", "cost", "performance"}

ReportCardsParameters ==
    Series \in [Days \X (Prompts \cup {"all"}) -> SUBSET Nat]

VARIABLES card, net, changes

vars == <<card, net, changes>>

\* Mutant of RequestKey: the key has no days.
RequestKeyLoose(c) == <<1, c.prompt>>

\* requestKey: the parameters the card has; the project is the card's own.
RequestKey(c) == <<c.days, c.prompt>>

NoResult == [key |-> <<0, "none">>, asked |-> <<0, "none">>, error |-> FALSE]

Init ==
    /\ \E kind \in Cards, days \in Days :
          card = [kind |-> kind, days |-> days, prompt |-> "all",
                  result |-> NoResult, hidden |-> {}]
    /\ net = Issue(<<>>, "report", <<card.days, card.prompt>>)
    /\ changes = 0

\* The effect on the parameters loads the report; the key it will be kept
\* under is the one of the render that made the call.
Choose(c) ==
    /\ Len(net) < MaxFlight /\ changes < MaxChanges
    /\ card' = c
    /\ net' = Issue(net, "report", <<c.days, c.prompt>>)
    /\ changes' = changes + 1

SetDays(d) == d # card.days /\ Choose([card EXCEPT !.days = d])

SetPrompt(q) ==
    /\ card.kind = "radar" /\ q # card.prompt
    /\ Choose([card EXCEPT !.prompt = q])

KeyOf(asked) == RequestKey([card EXCEPT !.days = asked[1], !.prompt = asked[2]])

\* then and catch keep what came, whatever has been asked meanwhile.
ReportAnswered(i) ==
    /\ \E error \in BOOLEAN :
          card' = [card EXCEPT !.result = [key |-> KeyOf(net[i].arg),
                                           asked |-> net[i].arg, error |-> error]]
    /\ net' = Finish(net, i)
    /\ UNCHANGED changes

\* result?.key === requestKey ? result : null
Current == card.result.key = RequestKey(card)

-----------------------------------------------------------------------------
(* The brands of the radar *)

RadarSeries == IF Current /\ ~card.result.error THEN Series[card.result.asked] ELSE {}

\* Hidden brands, except that a chart with nothing left shows everything.
Visible ==
    IF RadarSeries \ card.hidden = {} THEN RadarSeries ELSE RadarSeries \ card.hidden

Toggle(b) ==
    /\ card.kind = "radar" /\ b \in RadarSeries
    /\ card' = [card EXCEPT !.hidden =
                  IF b \in @ THEN @ \ {b}
                  ELSE IF Cardinality(Visible) > 1 THEN @ \cup {b} ELSE @]
    /\ UNCHANGED <<net, changes>>

CompetitorRadarCard ==
    \/ \E q \in Prompts \cup {"all"} : SetPrompt(q)
    \/ \E b \in UNION Range(Series) : Toggle(b)

CostSummaryCard == card.kind = "cost" /\ \E d \in Days : SetDays(d)

ModelPerformanceTable == card.kind = "performance" /\ \E d \in Days : SetDays(d)

Next ==
    \/ CompetitorRadarCard \/ CostSummaryCard \/ ModelPerformanceTable
    \/ card.kind = "radar" /\ \E d \in Days : SetDays(d)
    \/ \E i \in DOMAIN net : ReportAnswered(i)

Spec == Init /\ [][Next]_vars

-----------------------------------------------------------------------------
(* Properties *)

\* A card never shows the report of other parameters than the chosen ones, and
\* the error of an older request is not shown for the current one.
CardShowsItsRequest == Current => card.result.asked = <<card.days, card.prompt>>
=============================================================================
