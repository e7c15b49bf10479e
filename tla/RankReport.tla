----------------------------- MODULE RankReport -----------------------------
(***************************************************************************)
(* The daily rank report (features/analytics/rank-report.tsx): two effects *)
(* that load, each with a "cancelled" flag which its cleanup sets when the *)
(* dependencies change.  A call whose flag is set is "gone": its answer    *)
(* and its failure do nothing, not even to the loading flag.               *)
(***************************************************************************)
EXTENDS Requests

CONSTANTS Projects,    \* projects of the page's selector
          Observed,    \* Observed[p]: brands observed in the runs of project p
          Configured,  \* Configured[p]: brands configured for it, 0 for those
                       \* without an identity
          Owned,       \* Owned[p]: the configured brands that are its own
          Dates,       \* days; 0 stands for no date
          RowPages,    \* RowPages[f]: pages of the table, filtered (TRUE) or not
          MaxFlight,   \* bound: calls in flight when the user acts
          MaxChanges   \* bound: changes of the selection

RankReportParameters ==
    /\ Observed \in [Projects -> SUBSET (Nat \ {0})]
    /\ Configured \in [Projects -> SUBSET Nat]
    /\ \A p \in Projects : Owned[p] \subseteq Configured[p]
    /\ Dates \subseteq Nat \ {0}
    /\ RowPages \in [BOOLEAN -> Nat \ {0}]

VARIABLES page, report, net, changes

vars == <<page, report, net, changes>>

NoProject == "none"
NoReport == [project |-> NoProject, brand |-> 0, start |-> 0, end |-> 0]

\* Every brand once, the owned ones first; brands are numbered by their labels.
BrandOptions(p) ==
    SetToSortSeq((Observed[p] \cup Configured[p]) \ {0},
                 LAMBDA a, b : IF (a \in Owned[p]) = (b \in Owned[p]) THEN a < b
                               ELSE a \in Owned[p])

\* The arguments of the report: the dependencies of the second effect.
Asked(v) == [project |-> v.project, brand |-> v.brand, start |-> v.start, end |-> v.end]

Valid(a) ==
    /\ a.project # NoProject /\ a.brand # 0
    /\ a.start # 0 /\ a.end # 0 /\ a.start <= a.end

Init ==
    /\ page = [project |-> NoProject, brands |-> <<>>, brand |-> 0,
               start |-> 1, end |-> 1, loading |-> FALSE, error |-> FALSE,
               filtered |-> FALSE, pageIndex |-> 0]
    /\ report = NoReport /\ net = <<>> /\ changes = 0

Cancel(n, op) == Unmount(n, LAMBDA c : c.op = op)

\* The effect on the report's parameters, after a change of the selection to v:
\* without valid parameters the report goes but the loading flag stays.
ReportEffect(v, n) ==
    IF Asked(v) = Asked(page) THEN page' = v /\ net' = n /\ UNCHANGED report
    ELSE IF Valid(Asked(v))
         THEN /\ page' = [v EXCEPT !.loading = TRUE]
              /\ net' = Issue(Cancel(n, "report"), "report", Asked(v))
              /\ UNCHANGED report
         ELSE /\ page' = [v EXCEPT !.pageIndex = IF report = NoReport THEN @ ELSE 0]
              /\ report' = NoReport
              /\ net' = Cancel(n, "report")

Changing == Len(net) < MaxFlight /\ changes < MaxChanges /\ changes' = changes + 1

\* The page above chooses the project; the effect on it loads the brands, and
\* the report of the new project starts with the brand of the old one.
SelectProject(p) ==
    /\ Changing /\ p # page.project
    /\ ReportEffect([page EXCEPT !.project = p],
                    Issue(Cancel(net, "brands"), "brands", p))

SetBrandId(b) ==
    /\ Changing /\ page.project # NoProject /\ b # page.brand
    /\ b \in Range(page.brands)
    /\ ReportEffect([page EXCEPT !.brand = b], net)

\* A date picker may also take its date away.
SetStartDate(d) ==
    /\ Changing /\ d # page.start
    /\ ReportEffect([page EXCEPT !.start = d], net)

SetEndDate(d) ==
    /\ Changing /\ d # page.end
    /\ ReportEffect([page EXCEPT !.end = d], net)

\* Mutant of Ignored: no continuation looks at its flag.
NeverIgnored(i) == FALSE

\* cancelled: the continuation of a call whose effect was cleaned up.
Ignored(i) == net[i].gone

BrandsLoaded(i) ==
    /\ net[i].op = "brands" /\ ~Ignored(i)
    /\ LET options == BrandOptions(net[i].arg)
           first == IF options = <<>> THEN 0 ELSE Head(options)
       IN ReportEffect([page EXCEPT !.brands = options,
                                    !.brand = IF @ \in Range(options) THEN @ ELSE first],
                       Finish(net, i))
    /\ UNCHANGED changes

\* The effect on the report goes back to the first page of the table.
ReportLoaded(i) ==
    /\ net[i].op = "report" /\ ~Ignored(i)
    /\ report' = net[i].arg
    /\ page' = [page EXCEPT !.loading = FALSE, !.error = FALSE, !.pageIndex = 0]
    /\ net' = Finish(net, i)
    /\ UNCHANGED changes

\* Mutant of ReportFails: the catch block does not clear the flag.
ReportFailsLoading(i) ==
    /\ net[i].op = "report" /\ ~Ignored(i)
    /\ report' = NoReport
    /\ page' = [page EXCEPT !.error = TRUE]
    /\ net' = Finish(net, i)
    /\ UNCHANGED changes

ReportFails(i) ==
    /\ net[i].op = "report" /\ ~Ignored(i)
    /\ report' = NoReport
    /\ page' = [page EXCEPT !.loading = FALSE, !.error = TRUE,
                            !.pageIndex = IF report = NoReport THEN @ ELSE 0]
    /\ net' = Finish(net, i)
    /\ UNCHANGED changes

\* The brands could not be loaded, or a cancelled call ends.
Dropped(i) ==
    /\ net[i].op = "brands" \/ Ignored(i)
    /\ net' = Finish(net, i)
    /\ UNCHANGED <<page, report, changes>>

\* The table: the search box (a change of its rows leads back to the first
\* page) and the pager.
Shown == report # NoReport

SetGlobalFilter ==
    /\ page' = [page EXCEPT !.filtered = ~@, !.pageIndex = 0]
    /\ UNCHANGED <<report, net, changes>>

SetPageIndex ==
    /\ Shown /\ page.pageIndex + 1 < RowPages[page.filtered]
    /\ page' = [page EXCEPT !.pageIndex = @ + 1]
    /\ UNCHANGED <<report, net, changes>>

Filters ==
    \/ \E p \in Projects : SelectProject(p)
    \/ \E b \in UNION {Observed[p] \cup Configured[p] : p \in Projects} : SetBrandId(b)
    \/ \E d \in Dates \cup {0} : SetStartDate(d) \/ SetEndDate(d)

Answers ==
    \E i \in DOMAIN net :
        BrandsLoaded(i) \/ ReportLoaded(i) \/ ReportFails(i) \/ Dropped(i)

Next == Filters \/ Answers \/ SetGlobalFilter \/ SetPageIndex

Spec == Init /\ [][Next]_vars

-----------------------------------------------------------------------------
(* Properties *)

\* A report on the screen, not behind the loading skeleton, is the one of the
\* project, brand and dates selected now, however often these changed while
\* reports and brands were on their way, and whatever failed.
ReportMatchesControls ==
    report # NoReport /\ ~page.loading => report = Asked(page)

\* The skeleton of valid parameters stands for a call that will replace it: it
\* stays forever only for parameters that ask for no report (a cancelled call
\* clears no flag).
SkeletonIsAwaited ==
    page.loading /\ Valid(Asked(page)) =>
        \E i \in DOMAIN net : /\ net[i].op = "report" /\ ~net[i].gone
                              /\ net[i].arg = Asked(page)
=============================================================================
