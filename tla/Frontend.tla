------------------------------- MODULE Frontend -------------------------------
(***************************************************************************)
(* The browser's side: the pages of the console, the sign-in pages, the    *)
(* shell, the tables and the computed reports.  The router mounts one page *)
(* at a time, and a page shares nothing with another but the server, so a  *)
(* behaviour stays with one part ("mounted").  The variables of that part  *)
(* are s1, s2, ... in the order of its module's vars; the rest are "none". *)
(***************************************************************************)
EXTENDS EditingPages

\* The constants of the other parts, as their modules explain them; a part
\* without one of its own shares it with the others.
CONSTANTS PromptsOf, Days,                                             \* several pages
          DefaultModel, FilterBrands, DateRanges, PagedLists, ListPages, \* prompt
          ReportProjects, Observed, Configured, Owned, RowPages, Dates, \* rank report
          CardPrompts, Series,                                         \* cards
          DashboardPrompts, DashboardBrands, ExportPages,              \* dashboard
          LoginPages, RegisterPages, MaxAttempts,                      \* sign-in
          Fonts, DefaultFont,                                          \* shell
          Kinds, FilterTexts, Blank, PageCounts, Sizes,                \* table
          RankedModels, NameOrder, Ranks,                              \* reports
          MaxPoints, LastDay, Length, MaxVisible                       \* reports

VARIABLE mounted

-----------------------------------------------------------------------------
(* The pages that read *)

Prm == INSTANCE PromptAnalytics WITH
    Sections <- PagedLists, Pages <- ListPages,
    MaxFlight <- MaxFlight["prompt"], MaxMoves <- MaxActs["prompt"],
    view <- s1, net <- s2, address <- s3, past <- s4

Rep == INSTANCE RankReport WITH
    Projects <- ReportProjects,
    MaxFlight <- MaxFlight["rank report"], MaxChanges <- MaxActs["rank report"],
    page <- s1, report <- s2, net <- s3, changes <- s4

Ana == INSTANCE Analytics WITH
    MaxFlight <- MaxFlight["analytics"], MaxChanges <- MaxActs["analytics"],
    page <- s1, net <- s2, past <- s3

Crd == INSTANCE ReportCards WITH
    Prompts <- CardPrompts,
    MaxFlight <- MaxFlight["card"], MaxChanges <- MaxActs["card"],
    card <- s1, net <- s2, changes <- s3

Dsh == INSTANCE Dashboard WITH
    PromptsOf <- DashboardPrompts, Brands <- DashboardBrands,
    MaxFlight <- MaxFlight["dashboard"], MaxActs <- MaxActs["dashboard"],
    page <- s1, net <- s2, files <- s3, acts <- s4

-----------------------------------------------------------------------------
(* Sign-in, shell, tables and reports *)

Sign == INSTANCE SignIn WITH
    MaxCalls <- MaxFlight["sign-in"],
    page <- s1, calls <- s2, store <- s3, user <- s4

Shell == INSTANCE UiShell WITH
    pref <- s1, shown <- s2, class <- s3, cookies <- s4, expired <- s5, device <- s6

Tbl == INSTANCE DataTable WITH
    Texts <- FilterTexts,
    url <- s1, before <- s2, table <- s3, pages <- s4, view <- s5, apart <- s6

Rpt == INSTANCE Reports WITH
    Models <- RankedModels,
    points <- s1, today <- s2, filter <- s3

\* What each of these parts assumes of its constants.
ASSUME FrontendParameters ==
    /\ Prm!AnalyticsParameters /\ Rep!RankReportParameters
    /\ Ana!AnalyticsPageParameters /\ Crd!ReportCardsParameters
    /\ Dsh!DashboardParameters /\ Sign!SignInParameters /\ Shell!ShellParameters
    /\ Tbl!TableParameters /\ Rpt!ReportParameters

-----------------------------------------------------------------------------
(* One part is mounted *)

None == "none"
Only3 == s4 = None /\ s5 = None /\ s6 = None /\ s7 = None /\ s8 = None
Only4 == s5 = None /\ s6 = None /\ s7 = None /\ s8 = None
Only5 == s6 = None /\ s7 = None /\ s8 = None
Only6 == s7 = None /\ s8 = None

Init ==
    \/ mounted = "administration" /\ Adm!Init
    \/ mounted = "prompt" /\ Prm!Init /\ Only4
    \/ mounted = "rank report" /\ Rep!Init /\ Only4
    \/ mounted = "analytics" /\ Ana!Init /\ Only3
    \/ mounted = "card" /\ Crd!Init /\ Only3
    \/ mounted = "dashboard" /\ Dsh!Init /\ Only4
    \/ mounted = "projects" /\ Grid!Init /\ Only4
    \/ mounted = "project" /\ Work!Init /\ Only5
    \/ mounted = "sign-in" /\ Sign!Init /\ Only4
    \/ mounted = "shell" /\ Shell!Init /\ Only6
    \/ mounted = "table" /\ Tbl!Init /\ Only6
    \/ mounted = "reports" /\ Rpt!Init /\ Only3

Stays3 == UNCHANGED <<mounted, s4, s5, s6, s7, s8>>
Stays4 == UNCHANGED <<mounted, s5, s6, s7, s8>>
Stays5 == UNCHANGED <<mounted, s6, s7, s8>>
Stays6 == UNCHANGED <<mounted, s7, s8>>

ReadingPages ==
    \/ mounted = "prompt" /\ Prm!Next /\ Stays4
    \/ mounted = "rank report" /\ Rep!Next /\ Stays4
    \/ mounted = "analytics" /\ Ana!Next /\ Stays3
    \/ mounted = "card" /\ Crd!Next /\ Stays3
    \/ mounted = "dashboard" /\ Dsh!Next /\ Stays4

WritingPages ==
    \/ mounted = "administration" /\ Adm!Next /\ UNCHANGED mounted
    \/ mounted = "projects" /\ Grid!Next /\ Stays4
    \/ mounted = "project" /\ Work!Next /\ Stays5
    \/ mounted = "sign-in" /\ Sign!Next /\ Stays4

PartsOfPages ==
    \/ mounted = "shell" /\ Shell!Next /\ Stays6
    \/ mounted = "table" /\ Tbl!Next /\ Stays6
    \/ mounted = "reports" /\ Rpt!Next /\ Stays3

Next == ReadingPages \/ WritingPages \/ PartsOfPages

vars == <<mounted, s1, s2, s3, s4, s5, s6, s7, s8>>

Spec == Init /\ [][Next]_vars

-----------------------------------------------------------------------------
(* The properties of the mounted part, stated in its module *)

\* admin-panel.tsx: a merge that is asked for was previewed.
MergesArePreviewed == mounted = "administration" => Adm!MergesArePreviewed

\* admin-panel.tsx: the rows of a paged tab are those of its controls.
RowsMatchControls == mounted = "administration" => Adm!RowsMatchControls

\* admin-panel.tsx: the counters follow the writes of the tabs.
CountersFollow == mounted = "administration" => Adm!CountersFollow

\* prompt-analytics.tsx: one prompt everywhere, for a user who waits.
WaitingUserSeesOnePrompt == mounted = "prompt" => Prm!WaitingUserSeesOnePrompt

\* rank-report.tsx: the report is the one of the controls.
ReportMatchesControls == mounted = "rank report" => Rep!ReportMatchesControls

\* rank-report.tsx: a skeleton stands for a call in flight.
SkeletonIsAwaited == mounted = "rank report" => Rep!SkeletonIsAwaited

\* analytics/index.tsx: rankings and trends of the displayed prompt.
DisplayedPromptRanked == mounted = "analytics" => Ana!DisplayedPromptRanked

\* competitor-radar, cost-summary, model performance: the report asked for.
CardShowsItsRequest == mounted = "card" => Crd!CardShowsItsRequest

\* dashboard/index.tsx: summary and details of the selection.
RowsForSelection == mounted = "dashboard" => Dsh!RowsForSelection

\* dashboard/index.tsx: an exported file holds what its name says.
FilesAsNamed == mounted = "dashboard" => Dsh!FilesAsNamed

\* project-grid.tsx: the cards are the projects of the server.
GridFollowsServer == mounted = "projects" => Grid!GridFollowsServer

\* prompt-management.tsx, project-management.tsx, project-detail.tsx: a
\* section shows what the server holds.
SectionFollowsServer == mounted = "project" => Work!SectionFollowsServer

\* auth_service.py: every code has its own attempts.
GuessesBounded == mounted = "sign-in" => Sign!GuessesBounded

\* login-page.tsx, register-page.tsx: a code is offered when the server rests.
ResendAllowed == mounted = "sign-in" => Sign!ResendAllowed

\* context/, ui/sidebar.tsx: preferences survive a new document.
PreferencesSurvive == mounted = "shell" => Shell!PreferencesSurvive

\* theme-provider.tsx: the document wears the theme.
ThemeApplied == mounted = "shell" => Shell!ThemeApplied

\* use-table-url-state.ts: the address keeps the table's filters.
UrlKeepsTable == mounted = "table" => Tbl!UrlKeepsTable

\* lib/utils.ts, data-table/pagination.tsx: the pager's buttons.
PagerReaches == mounted = "table" => Tbl!PagerReaches

\* rank-report-utils.ts, rank-model-details.ts, brand-trend-chart.tsx agree.
ReportsAgree == mounted = "reports" => Rpt!ReportsAgree
=============================================================================
