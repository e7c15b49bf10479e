------------------------------ MODULE Reports ------------------------------
(***************************************************************************)
(* The reports computed from the ranks of a brand in the answers of the    *)
(* models: the table of the prompt's page (prompts/rank-report-utils.ts),  *)
(* the details of a row of the dashboard (dashboard/rank-model-details.ts) *)
(* and the chart of the trend (prompts/brand-trend-chart.tsx).  All three  *)
(* are functions of the same series of observations, computed apart.       *)
(***************************************************************************)
EXTENDS Integers, Sequences, SequencesExt, FiniteSets, TLC

CONSTANTS Models,     \* AI models 1..n, as the API orders them (ai_model_id)
          NameOrder,  \* their places in the order of their names
          Ranks,      \* ranks a brand can have in an answer
          MaxPoints,  \* bound: observations of one series
          LastDay,    \* bound: days that pass
          Length,     \* days of the report
          MaxVisible  \* MAX_VISIBLE_SERIES of the chart

ReportParameters ==
    /\ Models = 1 .. Cardinality(Models)
    /\ NameOrder \in Permutations(Models) /\ Ranks \subseteq Nat \ {0}
    /\ {LastDay, Length, MaxVisible} \subseteq Nat \ {0}

VARIABLES points, \* per model, its observations in the order they were made
          today,  \* the calendar day in Tehran
          filter  \* the models the table is filtered for

vars == <<points, today, filter>>

Init ==
    /\ points = [m \in Models |-> <<>>]
    /\ today = 1
    /\ filter = Models

\* A run of the prompt on m names the brand at rank r; all runs of a day are
\* in its calendar day, whatever their time zone (tehranDateKey).
Observe(m, r) ==
    /\ Len(points[m]) < MaxPoints
    /\ points' = [points EXCEPT ![m] = Append(@, [day |-> today, rank |-> r])]
    /\ UNCHANGED <<today, filter>>

NextDay == today < LastDay /\ today' = today + 1 /\ UNCHANGED <<points, filter>>

SetFilter(models) == filter' = models /\ UNCHANGED <<points, today>>

Next ==
    \/ \E m \in Models, r \in Ranks : Observe(m, r)
    \/ NextDay
    \/ \E models \in {Models} \cup {{m} : m \in Models} : SetFilter(models)

Spec == Init /\ [][Next]_vars

-----------------------------------------------------------------------------
(* The two summaries *)

\* rankReportDays and tehranReportDays: the days of the report, newest first.
ReportDays == [i \in 1 .. Length |-> today + 1 - i]

\* Mutant of Daily: the first observation of a day is kept.
DailyFirst(series, days) ==
    FoldLeft(LAMBDA daily, p : IF p.day \in ToSet(days) THEN daily @@ (p.day :> p.rank) ELSE daily,
             <<>>, series)

\* One rank for a day: each observation writes over the one before.
Daily(series, days) ==
    FoldLeft(LAMBDA daily, p : IF p.day \in ToSet(days) THEN (p.day :> p.rank) @@ daily ELSE daily,
             <<>>, series)

Total(daily, seen) == FoldLeft(LAMBDA sum, d : sum + daily[d], 0, seen)

\* An average is a sum and a count; none sorts last.
Below(a, b) == a.count > 0 /\ (b.count = 0 \/ a.sum * b.count < b.sum * a.count)

\* Series are sorted by average, those of one average by a place.
Sorted(rows, place) ==
    SortSeq(rows, LAMBDA a, b : Below(a.average, b.average) \/
                                (~Below(b.average, a.average) /\ place[a.model] < place[b.model]))

\* buildRankTableRows: the rows of the filter with a rank on some day.  Of one
\* average they are sorted by brand: those of one brand stay as the API has them.
BuildRankTableRows(series, days, models) ==
    LET row(m) ==
          LET daily == Daily(series[m], days)
              observed == SelectSeq(Reverse(days), LAMBDA d : d \in DOMAIN daily)
          IN [model |-> m, daily |-> daily,
              average |-> [sum |-> Total(daily, observed), count |-> Len(observed)],
              change |-> IF Len(observed) > 1
                         THEN {daily[observed[Len(observed)]] - daily[observed[1]]} ELSE {}]
    IN Sorted(SelectSeq([m \in Models |-> row(m)],
                        LAMBDA r : r.model \in models /\ r.average.count > 0),
              [m \in Models |-> m])

\* summarizeModelRanks: every series, with its latest rank and with the number
\* of its observations, several of a day included.  Of one average they are
\* sorted by the model's name.
SummarizeModelRanks(series, days) ==
    LET summary(m) ==
          LET seen == SelectSeq(series[m], LAMBDA p : p.day \in ToSet(days))
              daily == FoldLeft(LAMBDA old, p : (p.day :> p.rank) @@ old, <<>>, seen)
              seenDays == SelectSeq(Reverse(days), LAMBDA d : d \in DOMAIN daily)
              last == daily[seenDays[Len(seenDays)]]
          IN [model |-> m,
              average |-> [sum |-> Total(daily, seenDays), count |-> Len(seenDays)],
              latest |-> IF seenDays = <<>> THEN {} ELSE {last},
              change |-> IF Len(seenDays) > 1 THEN {last - daily[seenDays[1]]} ELSE {},
              observations |-> Len(seen)]
    IN Sorted([m \in Models |-> summary(m)], NameOrder)

\* The API has a series only for a model with an observation; the chart takes
\* the first ones.
Visible(series) ==
    LET observed == {m \in Models : series[m] # <<>>}
    IN {m \in observed : Cardinality({k \in observed : k <= m}) <= MaxVisible}

\* BrandTrendChart: of these series every observation at its time, the axis
\* down to the worst rank.
BrandTrendChart(series) ==
    LET visible == Visible(series)
    IN [drawn |-> UNION {{<<m, i, series[m][i].rank>> : i \in DOMAIN series[m]} : m \in visible},
        maxRank |-> CHOOSE r \in Ranks \cup {1} :
                      /\ \A m \in visible : \A i \in DOMAIN series[m] : series[m][i].rank <= r
                      /\ r = 1 \/ \E m \in visible : \E i \in DOMAIN series[m] :
                                     series[m][i].rank = r]

-----------------------------------------------------------------------------
(* Property *)

Equal(a, b) == a.count = b.count /\ a.sum = b.sum

\* Neither sorts before the other: only these can change places.
Tied(a, b) == ~Below(a, b) /\ ~Below(b, a)

\* The last observation of a series on one of the days, by its place in it.
LastOn(series, d) ==
    {series[i].rank : i \in {j \in DOMAIN series :
        series[j].day = d /\ \A k \in DOMAIN series : k > j => series[k].day # d}}

\* The table and the details agree on every series they both show, in an order
\* that differs only among equal averages, and with the observations: the last
\* one of a day counts, the average is taken over the days, the change is from
\* the first day to the last, which is the latest rank, and both the details
\* and the chart hold every observation the table was computed from.
ReportsAgree ==
    LET rows == BuildRankTableRows(points, ReportDays, filter)
        summaries == SelectSeq(SummarizeModelRanks(points, ReportDays),
                               LAMBDA s : s.model \in filter /\ s.latest # {})
        chart == BrandTrendChart(points)
    IN /\ Len(rows) = Len(summaries)
       /\ \A i \in DOMAIN rows : Tied(rows[i].average, summaries[i].average)
       /\ \A row \in ToSet(rows) : \E s \in ToSet(summaries) :
            LET series == points[row.model]
                days == {d \in ToSet(ReportDays) : LastOn(series, d) # {}}
            IN /\ row.model = s.model
               /\ Equal(row.average, s.average) /\ row.change = s.change
               /\ row.average.count = Cardinality(days)
               /\ \A d \in days :
                    /\ LastOn(series, d) = {row.daily[d]}
                    /\ (\A e \in days : e <= d) => s.latest = {row.daily[d]}
                    /\ \A e \in days : (\A f \in days : e <= f /\ f <= d) /\ e < d =>
                         row.change = {row.daily[d] - row.daily[e]}
               /\ s.observations >= row.average.count
               /\ row.model \in Visible(points) => \A d \in days :
                    /\ row.daily[d] <= chart.maxRank
                    /\ \E i \in DOMAIN series : <<row.model, i, row.daily[d]>> \in chart.drawn
=============================================================================
