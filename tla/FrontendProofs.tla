--------------------------- MODULE FrontendProofs ---------------------------
(***************************************************************************)
(* Theorems about the parts of Frontend, for any pages' data and bounds.   *)
(* Each part keeps an invariant of its own while it is mounted.            *)
(***************************************************************************)
EXTENDS Frontend, EditingPagesProofs

(***************************************************************************)
(* Mounting                                                                *)
(***************************************************************************)
\* A step is one of the part that is mounted.
LEMMA StepOfPart ==
    ASSUME [Next]_vars
    PROVE  /\ mounted' = mounted
           /\ mounted = "administration" => [Adm!Next]_(Adm!vars)
           /\ mounted = "prompt" => [Prm!Next]_(Prm!vars)
           /\ mounted = "rank report" => [Rep!Next]_(Rep!vars)
           /\ mounted = "analytics" => [Ana!Next]_(Ana!vars)
           /\ mounted = "card" => [Crd!Next]_(Crd!vars)
           /\ mounted = "dashboard" => [Dsh!Next]_(Dsh!vars)
           /\ mounted = "projects" => [Grid!Next]_(Grid!vars)
           /\ mounted = "project" => [Work!Next]_(Work!vars)
           /\ mounted = "sign-in" => [Sign!Next]_(Sign!vars)
           /\ mounted = "shell" => [Shell!Next]_(Shell!vars)
           /\ mounted = "table" => [Tbl!Next]_(Tbl!vars)
<1>1. CASE ReadingPages
  BY <1>1 DEF ReadingPages, Stays3, Stays4
<1>2. CASE WritingPages
  BY <1>2 DEF WritingPages, Stays4, Stays5
<1>3. CASE PartsOfPages
  BY <1>3 DEF PartsOfPages, Stays3, Stays6
<1>4. CASE UNCHANGED vars
  BY <1>4 DEF vars, Adm!vars, Rep!vars, Ana!vars, Crd!vars, Dsh!vars, Sign!vars, Shell!vars,
              Tbl!vars, Prm!vars, Grid!vars, Work!vars
<1> QED
  BY <1>1, <1>2, <1>3, <1>4 DEF Next

LEMMA BeginsWithPart ==
    ASSUME Init
    PROVE  /\ mounted = "administration" => Adm!Init
           /\ mounted = "prompt" => Prm!Init
           /\ mounted = "rank report" => Rep!Init
           /\ mounted = "analytics" => Ana!Init
           /\ mounted = "card" => Crd!Init
           /\ mounted = "dashboard" => Dsh!Init
           /\ mounted = "projects" => Grid!Init
           /\ mounted = "project" => Work!Init
           /\ mounted = "sign-in" => Sign!Init
           /\ mounted = "shell" => Shell!Init
           /\ mounted = "table" => Tbl!Init
BY DEF Init

(***************************************************************************)
(* Cards                                                                   *)
(***************************************************************************)
Keys == (Days \cup {0}) \X (CardPrompts \cup {"all", "none"})

Card == [kind : Crd!Cards, days : Days, prompt : CardPrompts \cup {"all"},
         result : [key : Keys, asked : Keys, error : BOOLEAN], hidden : SUBSET UNION Crd!Range(Series)]

\* The key under which the card keeps a result is that of the request it answers.
CardInv ==
    /\ s1 \in Card
    /\ s1.result.key = s1.result.asked
    /\ s2 \in Seq(CallsOf({"report"}, Keys))

LEMMA CardBegins == Crd!Init => CardInv
<1> SUFFICES ASSUME Crd!Init PROVE CardInv
  OBVIOUS
<1>1. s1 \in Card /\ s1.result.key = s1.result.asked
  BY DEF Crd!Init, Crd!NoResult, Card, Keys
<1>2. <<s1.days, s1.prompt>> \in Keys
  BY <1>1 DEF Card, Keys
<1>3. s2 = Issue(<<>>, "report", <<s1.days, s1.prompt>>)
  BY DEF Crd!Init, Crd!Issue, Crd!Call, Issue, Call
<1>4. <<>> \in Seq(CallsOf({"report"}, Keys)) /\ Call("report", <<s1.days, s1.prompt>>) \in CallsOf({"report"}, Keys)
  BY <1>2, IsCall
<1> QED
  BY <1>1, <1>3, <1>4, Issued DEF CardInv

LEMMA CardKeeps == CardInv /\ [Crd!Next]_(Crd!vars) => CardInv'
<1> SUFFICES ASSUME CardInv, [Crd!Next]_(Crd!vars) PROVE CardInv'
  OBVIOUS
<1>1. ASSUME NEW c \in Card, c.result = s1.result, Crd!Choose(c) PROVE CardInv'
  <2>1. <<c.days, c.prompt>> \in Keys
    BY DEF Card, Keys
  <2>2. s1' = c /\ s2' = Issue(s2, "report", <<c.days, c.prompt>>)
    BY <1>1 DEF Crd!Choose, Crd!Issue, Crd!Call, Issue, Call
  <2> QED
    BY <1>1, <2>1, <2>2, Issued, IsCall DEF CardInv
<1>2. ASSUME NEW d \in Days, Crd!SetDays(d) PROVE CardInv'
  <2>1. [s1 EXCEPT !.days = d] \in Card /\ [s1 EXCEPT !.days = d].result = s1.result
    BY DEF CardInv, Card
  <2> QED
    BY <1>1, <1>2, <2>1 DEF Crd!SetDays
<1>3. ASSUME NEW q \in CardPrompts \cup {"all"}, Crd!SetPrompt(q) PROVE CardInv'
  <2>1. [s1 EXCEPT !.prompt = q] \in Card /\ [s1 EXCEPT !.prompt = q].result = s1.result
    BY DEF CardInv, Card
  <2> QED
    BY <1>1, <1>3, <2>1 DEF Crd!SetPrompt
<1>4. ASSUME NEW b \in UNION Crd!Range(Series), Crd!Toggle(b) PROVE CardInv'
  <2>1. PICK hidden \in SUBSET UNION Crd!Range(Series) : s1' = [s1 EXCEPT !.hidden = hidden]
    BY <1>4 DEF Crd!Toggle, CardInv, Card
  <2> QED
    BY <1>4, <2>1 DEF Crd!Toggle, CardInv, Card
<1>5. ASSUME NEW i \in DOMAIN s2, Crd!ReportAnswered(i) PROVE CardInv'
  <2>1. s2[i].arg \in Keys
    <3>1. s2[i] \in CallsOf({"report"}, Keys)
      BY DEF CardInv
    <3> QED
      BY <3>1 DEF CallsOf
  <2>2. Crd!KeyOf(s2[i].arg) = s2[i].arg
    BY <2>1 DEF Crd!KeyOf, Crd!RequestKey, CardInv, Card, Keys
  <2>3. s2' = Finish(s2, i)
    BY <1>5 DEF Crd!ReportAnswered, Crd!Finish, Crd!RemoveAt, Finish, RemoveAt
  <2>4. s2' \in Seq(CallsOf({"report"}, Keys))
    BY <2>3, Finished, StaysCall DEF CardInv
  <2>5. PICK error \in BOOLEAN :
          s1' = [s1 EXCEPT !.result = [key |-> s2[i].arg, asked |-> s2[i].arg, error |-> error]]
    BY <1>5, <2>2 DEF Crd!ReportAnswered
  <2> QED
    BY <2>1, <2>4, <2>5 DEF CardInv, Card
<1>6. CASE UNCHANGED Crd!vars
  BY <1>6 DEF Crd!vars, CardInv
<1> QED
  BY <1>2, <1>3, <1>4, <1>5, <1>6 
     DEF Crd!Next, Crd!CompetitorRadarCard, Crd!CostSummaryCard, Crd!ModelPerformanceTable

\* In whatever order the answers of two choices come, a card shows only the report
\* of the parameters that are chosen (competitor-radar, cost-summary,
\* project-management).
THEOREM CardShowsItsRequestHolds == Spec => []CardShowsItsRequest
<1> DEFINE Inv == mounted = "card" => CardInv
<1>1. Init => Inv
  BY BeginsWithPart, CardBegins
<1>2. Inv /\ [Next]_vars => Inv'
  BY StepOfPart, CardKeeps
<1>3. Inv => CardShowsItsRequest
  BY DEF CardInv, CardShowsItsRequest, Crd!CardShowsItsRequest, Crd!Current, Crd!RequestKey
<1> QED
  BY <1>1, <1>2, <1>3, PTL DEF Spec

(***************************************************************************)
(* Shell                                                                   *)
(***************************************************************************)
Preferences == {"theme", "dir", "font", "collapsible", "variant", "sidebar"}

\* Every preference has a cookie, which survives or has expired, and the document
\* wears the theme.
ShellInv ==
    /\ s1 = [p \in Preferences |-> s1[p]] /\ s4 = [p \in Preferences |-> s4[p]]
    /\ s6 \in [scheme : {"light", "dark"}, phone : BOOLEAN]
    /\ Shell!PreferencesSurvive /\ Shell!ThemeApplied

LEMMA DefaultsAre == Preferences = DOMAIN Shell!Defaults
BY DEF Preferences, Shell!Defaults

LEMMA NoCookieIsNone ==
    Shell!NoCookie \notin {"system", "light", "dark", "ltr", "rtl", "inset", "floating", "sidebar",
                          "true", "false", "icon", "offcanvas"}
BY Zenon DEF Shell!NoCookie

\* New values keep the invariant when each is what its cookie says.
LEMMA Applied ==
    ASSUME ShellInv, NEW new, NEW saved, Shell!Apply(new, saved),
           DOMAIN saved \subseteq DOMAIN new,
           \A p \in DOMAIN new \cap Preferences :
               LET c == IF p \in DOMAIN saved THEN saved[p] ELSE s4[p]
               IN new[p] = IF c = Shell!NoCookie THEN Shell!Defaults[p] ELSE c
    PROVE  ShellInv'
<1>1. /\ s1' = [p \in Preferences |-> IF p \in DOMAIN new THEN new[p] ELSE s1[p]]
      /\ s4' = [p \in Preferences |-> IF p \in DOMAIN saved THEN saved[p] ELSE s4[p]]
      /\ s5' = s5 \ DOMAIN new /\ s6' = s6
      /\ s3' = IF s1'.theme = s1.theme THEN s3 ELSE Shell!Resolved(s1'.theme)
  BY DEF Shell!Apply, Shell!With, ShellInv
<1>2. s1' = [p \in Preferences |-> s1'[p]] /\ s4' = [p \in Preferences |-> s4'[p]]
  BY <1>1
<1>3. Shell!PreferencesSurvive'
  <2> SUFFICES ASSUME NEW p \in Preferences, p \notin s5'
               PROVE  (IF s4'[p] = Shell!NoCookie THEN Shell!Defaults[p] ELSE s4'[p]) = s1'[p]
    BY DefaultsAre DEF Shell!PreferencesSurvive, Shell!Saved
  <2>1. CASE p \in DOMAIN new
    BY <1>1, <2>1
  <2>2. CASE p \notin DOMAIN new
    BY <1>1, <2>2, DefaultsAre DEF ShellInv, Shell!PreferencesSurvive, Shell!Saved
  <2> QED
    BY <2>1, <2>2
<1>4. Shell!ThemeApplied'
  BY <1>1 DEF ShellInv, Shell!ThemeApplied, Shell!Resolved
<1> QED
  BY <1>1, <1>2, <1>3, <1>4 DEF ShellInv

\* A setter writes the same value to the state and to the cookie.
LEMMA SetKeeps ==
    ASSUME ShellInv, NEW new, Shell!Set(new), \A p \in DOMAIN new : new[p] # Shell!NoCookie
    PROVE  ShellInv'
BY Applied DEF Shell!Set

LEMMA DrawerKeeps == ShellInv /\ Shell!ConfigDrawer => ShellInv'
<1> SUFFICES ASSUME ShellInv, Shell!ConfigDrawer PROVE ShellInv'
  OBVIOUS
<1>1. CASE Shell!ThemeConfig
  BY <1>1, SetKeeps, NoCookieIsNone DEF Shell!ThemeConfig, Shell!SetTheme
<1>2. CASE Shell!DirConfig
  BY <1>2, SetKeeps, NoCookieIsNone DEF Shell!DirConfig, Shell!SetDir
<1>3. CASE Shell!SidebarConfig
  BY <1>3, SetKeeps, NoCookieIsNone DEF Shell!SidebarConfig, Shell!SetVariant
<1>4. CASE Shell!LayoutConfig
  BY <1>4, SetKeeps, NoCookieIsNone DEF Shell!LayoutConfig, Shell!Defaults
<1>5. CASE Shell!HandleReset
  BY <1>5, Applied, DefaultsAre DEF Shell!HandleReset, Shell!Defaults, Preferences
<1> QED
  BY <1>1, <1>2, <1>3, <1>4, <1>5 DEF Shell!ConfigDrawer

LEMMA ShellBegins == Shell!Init => ShellInv
BY DefaultsAre DEF Shell!Init, ShellInv, Shell!PreferencesSurvive, Shell!ThemeApplied, Shell!Saved,
       Shell!Resolved, Shell!Defaults, Preferences

LEMMA ShellKeeps == ShellInv /\ [Shell!Next]_(Shell!vars) => ShellInv'
<1> SUFFICES ASSUME ShellInv, [Shell!Next]_(Shell!vars) PROVE ShellInv'
  OBVIOUS
<1>1. CASE UNCHANGED <<s1, s3, s4, s5, s6>>
  BY <1>1 DEF ShellInv, Shell!PreferencesSurvive, Shell!ThemeApplied, Shell!Saved, Shell!Resolved
<1>2. CASE Shell!FontProvider
  <2>1. CASE Shell!ResetFont
    BY <2>1, Applied DEF Shell!ResetFont, Shell!Defaults
  <2>2. ASSUME NEW font \in Fonts, Shell!SetFont(font) PROVE ShellInv'
    BY <2>2, SetKeeps, FrontendParameters DEF Shell!SetFont, Shell!ShellParameters
  <2> QED
    BY <1>2, <2>1, <2>2 DEF Shell!FontProvider
<1>3. CASE Shell!ToggleSidebar
  BY <1>1, <1>3, SetKeeps, NoCookieIsNone DEF Shell!ToggleSidebar, Shell!Show
<1>4. CASE Shell!CommandMenu
  BY <1>1, <1>4, SetKeeps, NoCookieIsNone DEF Shell!CommandMenu, Shell!SetTheme
<1>5. CASE Shell!MountLayout \/ Shell!Reload
  BY <1>5, Applied, DefaultsAre DEF Shell!MountLayout, Shell!Reload, Shell!Saved, Shell!LayoutPrefs
<1>6. ASSUME NEW p \in DOMAIN s4, Shell!CookieExpires(p) PROVE ShellInv'
  BY <1>6 DEF Shell!CookieExpires, ShellInv, Shell!PreferencesSurvive, Shell!ThemeApplied, Shell!Saved,
              Shell!Resolved
<1>7. CASE Shell!ResizeWindow
  BY <1>7 DEF Shell!ResizeWindow, ShellInv, Shell!PreferencesSurvive, Shell!ThemeApplied, Shell!Saved,
              Shell!Resolved
<1>8. CASE Shell!SchemeChanges
  BY <1>8 DEF Shell!SchemeChanges, Shell!SystemTheme, ShellInv, Shell!PreferencesSurvive,
              Shell!ThemeApplied, Shell!Saved, Shell!Resolved
<1> QED
  BY <1>1, <1>2, <1>3, <1>4, <1>5, <1>6, <1>7, <1>8, DrawerKeeps
     DEF Shell!Next, Shell!CloseSheet, Shell!SidebarMenuLink, Shell!ToggleMenu, Shell!SignOut,
         Shell!Show, Shell!vars

LEMMA ShellHolds == Spec => [](mounted = "shell" => ShellInv)
<1>1. Init => (mounted = "shell" => ShellInv)
  BY BeginsWithPart, ShellBegins
<1>2. (mounted = "shell" => ShellInv) /\ [Next]_vars => (mounted = "shell" => ShellInv)'
  BY StepOfPart, ShellKeeps
<1> QED
  BY <1>1, <1>2, PTL DEF Spec

\* Whatever is set, toggled, reset, mounted again or resized, in whatever order: a
\* new document begins with every preference whose cookie has not expired (context/,
\* ui/sidebar.tsx, config-drawer.tsx).
THEOREM PreferencesSurviveHolds == Spec => []PreferencesSurvive
<1>1. (mounted = "shell" => ShellInv) => PreferencesSurvive
  BY DEF ShellInv, PreferencesSurvive
<1> QED
  BY <1>1, ShellHolds, PTL

\* The document wears the theme that is chosen, through any changes of the choice
\* and of the system's scheme (theme-provider.tsx).
THEOREM ThemeAppliedHolds == Spec => []ThemeApplied
<1>1. (mounted = "shell" => ShellInv) => ThemeApplied
  BY DEF ShellInv, ThemeApplied
<1> QED
  BY <1>1, ShellHolds, PTL

(***************************************************************************)
(* Dashboard                                                               *)
(***************************************************************************)
DashboardProjects == Dsh!Projects \cup {"none"}

Selections ==
    [project : DashboardProjects, prompt : Dsh!AllPrompts \cup {"all"},
     brand : DashboardBrands \cup {"all"}, days : Days \cup {0, CHOOSE d \in Days : TRUE}]

Details == [of : Selections, row : DashboardBrands \cup {"none"}]

\* What an export asks for is what its file will be named after.
Exports ==
    {e \in [kind : {"csv", "pdf"}, filters : Selections, name : Selections, page : 1 .. ExportPages] :
        e.filters = e.name}

DashboardPage ==
    [project : DashboardProjects, prompt : Dsh!AllPrompts \cup {"all"},
     brand : DashboardBrands \cup {"all"}, days : Days \cup {0, CHOOSE d \in Days : TRUE},
     listed : BOOLEAN, prompts : DashboardProjects, brands : DashboardProjects,
     result : {r \in [key : {Dsh!RequestKey(s) : s \in Selections}, asked : Selections, error : BOOLEAN] :
                  r.key = Dsh!RequestKey(r.asked)},
     expanded : Details, details : Details, exporting : {"no", "csv", "pdf"}]

DashboardCalls ==
    CallsOf({"projects"}, {{}}) \cup CallsOf({"prompts", "brands"}, DashboardProjects)
    \cup CallsOf({"summary"}, Selections) \cup CallsOf({"details"}, Details)
    \cup CallsOf({"export"}, Exports)

\* The summary is kept under the key of its request, and an export keeps its filters.
DashboardInv ==
    /\ s1 \in DashboardPage /\ s2 \in Seq(DashboardCalls)
    /\ Dsh!FilesAsNamed

LEMMA DashboardNet ==
    /\ \A n, op, arg : Dsh!Issue(n, op, arg) = Issue(n, op, arg)
    /\ \A n, i : Dsh!Finish(n, i) = Finish(n, i)
BY DEF Dsh!Issue, Dsh!Call, Issue, Call, Dsh!Finish, Finish, Dsh!RemoveAt, RemoveAt

LEMMA DashboardFinished ==
    ASSUME DashboardInv, NEW i \in DOMAIN s2
    PROVE  s2[i] \in DashboardCalls /\ Dsh!Finish(s2, i) \in Seq(DashboardCalls)
<1>1. \A c \in DashboardCalls : [c EXCEPT !.late = TRUE] \in DashboardCalls
  BY StaysCall DEF DashboardCalls
<1>2. s2 \in Seq(DashboardCalls)
  BY DEF DashboardInv
<1> HIDE DEF DashboardCalls
<1>3. Finish(s2, i) \in Seq(DashboardCalls)
  BY <1>1, <1>2, Finished
<1>4. Dsh!Finish(s2, i) = Finish(s2, i)
  BY DashboardNet
<1> QED
  BY <1>2, <1>3, <1>4

LEMMA DashboardIssued ==
    ASSUME NEW n \in Seq(DashboardCalls)
    PROVE  /\ Dsh!Issue(n, "projects", {}) \in Seq(DashboardCalls)
           /\ \A p \in DashboardProjects : /\ Dsh!Issue(n, "prompts", p) \in Seq(DashboardCalls)
                                           /\ Dsh!Issue(n, "brands", p) \in Seq(DashboardCalls)
           /\ \A s \in Selections : Dsh!Issue(n, "summary", s) \in Seq(DashboardCalls)
           /\ \A d \in Details : Dsh!Issue(n, "details", d) \in Seq(DashboardCalls)
           /\ \A e \in Exports : Dsh!Issue(n, "export", e) \in Seq(DashboardCalls)
<1>1. /\ Call("projects", {}) \in DashboardCalls
      /\ \A p \in DashboardProjects : Call("prompts", p) \in DashboardCalls /\ Call("brands", p) \in DashboardCalls
      /\ \A s \in Selections : Call("summary", s) \in DashboardCalls
      /\ \A d \in Details : Call("details", d) \in DashboardCalls
      /\ \A e \in Exports : Call("export", e) \in DashboardCalls
  BY IsCall DEF DashboardCalls
<1> QED
  BY <1>1, Issued, DashboardNet

\* What a selection leaves in the page is a page, and what it loads is a call of it.
LEMMA SummaryKeeps ==
    ASSUME DashboardInv, NEW v \in DashboardPage, NEW n \in Seq(DashboardCalls), s3' = s3,
           Dsh!Summary(v, n) \/ Dsh!ProjectEffects(v, n)
    PROVE  DashboardInv'
<1>1. Dsh!Selection(v) \in Selections /\ v.project \in DashboardProjects
  BY DEF Dsh!Selection, Selections, DashboardPage
<1>2. s1' = v
  BY DEF Dsh!Summary, Dsh!ProjectEffects
<1>3. s2' \in Seq(DashboardCalls)
  BY <1>1, DashboardIssued DEF Dsh!Summary, Dsh!ProjectEffects
<1> QED
  BY <1>2, <1>3 DEF DashboardInv, Dsh!FilesAsNamed

LEMMA DashboardBegins == Dsh!Init => DashboardInv
<1> SUFFICES ASSUME Dsh!Init PROVE DashboardInv
  OBVIOUS
<1>1. Dsh!Nothing \in Selections
  BY DEF Dsh!Nothing, Selections, DashboardProjects
<1>2. Dsh!NoDetails \in Details
  BY <1>1 DEF Dsh!NoDetails, Details
<1>3. s1 \in DashboardPage
  BY <1>1, <1>2 DEF Dsh!Init, DashboardPage, DashboardProjects
<1>4. s2 \in Seq(DashboardCalls)
  <2>1. <<>> \in Seq(DashboardCalls)
    OBVIOUS
  <2> QED
    BY <2>1, DashboardIssued DEF Dsh!Init
<1> QED
  BY <1>3, <1>4 DEF Dsh!Init, DashboardInv, Dsh!FilesAsNamed

LEMMA SelectorsKeep ==
    ASSUME DashboardInv,
           \/ \E p \in Dsh!Projects : Dsh!SelectProject(p)
           \/ \E q \in Dsh!AllPrompts \cup {"all"} : Dsh!SelectPrompt(q)
           \/ \E b \in DashboardBrands \cup {"all"} : Dsh!SelectBrand(b)
           \/ \E d \in Days : Dsh!SelectDays(d)
    PROVE  DashboardInv'
<1>1. s1 \in DashboardPage /\ s2 \in Seq(DashboardCalls)
  BY DEF DashboardInv
<1>2. ASSUME NEW p \in Dsh!Projects, Dsh!SelectProject(p) PROVE DashboardInv'
  <2>1. [s1 EXCEPT !.project = p, !.prompt = "all", !.brand = "all"] \in DashboardPage
    BY <1>1 DEF DashboardPage, DashboardProjects
  <2> QED
    BY <1>1, <1>2, <2>1, SummaryKeeps DEF Dsh!SelectProject
<1>3. ASSUME NEW q \in Dsh!AllPrompts \cup {"all"}, Dsh!SelectPrompt(q) PROVE DashboardInv'
  <2>1. [s1 EXCEPT !.prompt = q] \in DashboardPage
    BY <1>1 DEF DashboardPage
  <2> QED
    BY <1>1, <1>3, <2>1, SummaryKeeps DEF Dsh!SelectPrompt
<1>4. ASSUME NEW b \in DashboardBrands \cup {"all"}, Dsh!SelectBrand(b) PROVE DashboardInv'
  <2>1. [s1 EXCEPT !.brand = b] \in DashboardPage
    BY <1>1 DEF DashboardPage
  <2> QED
    BY <1>1, <1>4, <2>1, SummaryKeeps DEF Dsh!SelectBrand
<1>5. ASSUME NEW d \in Days, Dsh!SelectDays(d) PROVE DashboardInv'
  <2>1. [s1 EXCEPT !.days = d] \in DashboardPage
    BY <1>1 DEF DashboardPage
  <2> QED
    BY <1>1, <1>5, <2>1, SummaryKeeps DEF Dsh!SelectDays
<1> QED
  BY <1>2, <1>3, <1>4, <1>5

LEMMA ReportKeeps ==
    ASSUME DashboardInv,
           (\E row \in DashboardBrands : Dsh!ToggleDetails(row)) \/ Dsh!DownloadCsv \/ Dsh!PrintPdf
    PROVE  DashboardInv'
<1>1. s1 \in DashboardPage /\ s2 \in Seq(DashboardCalls) /\ Dsh!FilesAsNamed
  BY DEF DashboardInv
<1>2. Dsh!Selection(s1) \in Selections
  BY <1>1 DEF Dsh!Selection, Selections, DashboardPage
<1>3. ASSUME NEW row \in DashboardBrands, Dsh!ToggleDetails(row) PROVE DashboardInv'
  <2> DEFINE d == [of |-> Dsh!Selection(s1), row |-> row]
  <2>1. d \in Details /\ Dsh!NoDetails \in Details
    BY <1>2 DEF Details, Dsh!NoDetails, Dsh!Nothing, Selections, DashboardProjects
  <2>2. /\ s1' = [s1 EXCEPT !.expanded = Dsh!NoDetails] \/ s1' = [s1 EXCEPT !.expanded = d]
        /\ s2' = s2 \/ s2' = Dsh!Issue(s2, "details", d)
        /\ s3' = s3
    BY <1>3 DEF Dsh!ToggleDetails
  <2> HIDE DEF d
  <2>3. s1' \in DashboardPage
    BY <1>1, <2>1, <2>2 DEF DashboardPage
  <2>4. s2' \in Seq(DashboardCalls)
    BY <1>1, <2>1, <2>2, DashboardIssued
  <2> QED
    BY <1>1, <2>2, <2>3, <2>4 DEF DashboardInv, Dsh!FilesAsNamed
<1>4. ASSUME NEW kind \in {"csv", "pdf"}, Dsh!StartExport(kind) PROVE DashboardInv'
  <2> DEFINE e == [kind |-> kind, filters |-> Dsh!Selection(s1), name |-> Dsh!Selection(s1), page |-> 1]
  <2>1. e \in Exports
    BY <1>2, FrontendParameters DEF Exports, Dsh!DashboardParameters
  <2>2. s1' = [s1 EXCEPT !.exporting = kind] /\ s2' = Dsh!Issue(s2, "export", e) /\ s3' = s3
    BY <1>4 DEF Dsh!StartExport
  <2> HIDE DEF e
  <2>3. s1' \in DashboardPage
    BY <1>1, <2>2 DEF DashboardPage
  <2>4. s2' \in Seq(DashboardCalls)
    BY <1>1, <2>1, <2>2, DashboardIssued
  <2> QED
    BY <1>1, <2>2, <2>3, <2>4 DEF DashboardInv, Dsh!FilesAsNamed
<1>5. CASE UNCHANGED <<s1, s2, s3>>
  BY <1>5 DEF DashboardInv, Dsh!FilesAsNamed
<1> QED
  BY <1>3, <1>4, <1>5 DEF Dsh!DownloadCsv, Dsh!PrintPdf

LEMMA AnswersKeep ==
    ASSUME DashboardInv, Dsh!Answers
    PROVE  DashboardInv'
<1>1. s1 \in DashboardPage /\ s2 \in Seq(DashboardCalls) /\ Dsh!FilesAsNamed
  BY DEF DashboardInv
<1>2. PICK i \in DOMAIN s2 : \/ Dsh!ProjectsListed(i) \/ Dsh!ListLoaded(i) \/ Dsh!SummaryAnswered(i)
                             \/ Dsh!DetailsAnswered(i) \/ Dsh!ExportPageLoaded(i) \/ Dsh!CallFails(i)
  BY DEF Dsh!Answers
<1>3. s2[i] \in DashboardCalls /\ Dsh!Finish(s2, i) \in Seq(DashboardCalls)
  BY DashboardFinished
<1>4. CASE Dsh!ProjectsListed(i)
  <2>1. [s1 EXCEPT !.listed = TRUE, !.project = CHOOSE p \in Dsh!Projects : TRUE] \in DashboardPage
    BY <1>1, FrontendParameters DEF DashboardPage, DashboardProjects, Dsh!DashboardParameters
  <2> QED
    BY <1>3, <1>4, <2>1, SummaryKeeps DEF Dsh!ProjectsListed
<1>5. CASE Dsh!ListLoaded(i)
  <2>1. s2[i].arg \in DashboardProjects
    BY <1>3, <1>5 DEF Dsh!ListLoaded, DashboardCalls, CallsOf
  <2>2. s1' \in DashboardPage
    BY <1>1, <1>5, <2>1 DEF Dsh!ListLoaded, DashboardPage
  <2> QED
    BY <1>1, <1>3, <1>5, <2>2 DEF Dsh!ListLoaded, DashboardInv, Dsh!FilesAsNamed
<1>6. CASE Dsh!SummaryAnswered(i)
  <2>1. s2[i].arg \in Selections
    BY <1>3, <1>6 DEF Dsh!SummaryAnswered, DashboardCalls, CallsOf
  <2>2. s1' \in DashboardPage
    BY <1>1, <1>6, <2>1 DEF Dsh!SummaryAnswered, DashboardPage
  <2> QED
    BY <1>1, <1>3, <1>6, <2>2 DEF Dsh!SummaryAnswered, DashboardInv, Dsh!FilesAsNamed
<1>7. CASE Dsh!DetailsAnswered(i)
  <2>1. s2[i].arg \in Details
    BY <1>3, <1>7 DEF Dsh!DetailsAnswered, DashboardCalls, CallsOf
  <2>2. s1' \in DashboardPage
    BY <1>1, <1>7, <2>1 DEF Dsh!DetailsAnswered, DashboardPage
  <2> QED
    BY <1>1, <1>3, <1>7, <2>2 DEF Dsh!DetailsAnswered, DashboardInv, Dsh!FilesAsNamed
<1>8. CASE Dsh!ExportPageLoaded(i)
  <2> DEFINE a == s2[i].arg
  <2>1. a \in Exports
    BY <1>3, <1>8 DEF Dsh!ExportPageLoaded, DashboardCalls, CallsOf
  <2>2. CASE a.page < ExportPages
    <3> DEFINE next == [a EXCEPT !.page = @ + 1]
    <3>1. next \in Exports
      BY <2>1, <2>2, FrontendParameters DEF Exports, Dsh!DashboardParameters
    <3>2. s2' = Dsh!Issue(Dsh!Finish(s2, i), "export", next) /\ UNCHANGED <<s1, s3>>
      BY <1>8, <2>2 DEF Dsh!ExportPageLoaded
    <3> HIDE DEF next
    <3>3. s2' \in Seq(DashboardCalls)
      BY <1>3, <3>1, <3>2, DashboardIssued
    <3> QED
      BY <1>1, <3>2, <3>3 DEF DashboardInv, Dsh!FilesAsNamed
  <2>3. CASE ~(a.page < ExportPages)
    <3>1. a.page = ExportPages /\ a.filters = a.name
      BY <2>1, <2>3, FrontendParameters DEF Exports, Dsh!DashboardParameters
    <3>2. /\ s1' = [s1 EXCEPT !.exporting = "no"] /\ s2' = Dsh!Finish(s2, i)
          /\ s3' = {[name |-> a.name, rows |-> a.filters, pages |-> a.page]}
      BY <1>8, <2>3 DEF Dsh!ExportPageLoaded
    <3>3. s1' \in DashboardPage
      BY <1>1, <3>2 DEF DashboardPage
    <3> QED
      BY <1>3, <3>1, <3>2, <3>3 DEF DashboardInv, Dsh!FilesAsNamed
  <2> QED
    BY <2>2, <2>3
<1>9. CASE Dsh!CallFails(i)
  <2>1. s1' \in DashboardPage
    BY <1>1, <1>9 DEF Dsh!CallFails, DashboardPage, DashboardProjects
  <2> QED
    BY <1>1, <1>3, <1>9, <2>1 DEF Dsh!CallFails, DashboardInv, Dsh!FilesAsNamed
<1> QED
  BY <1>2, <1>4, <1>5, <1>6, <1>7, <1>8, <1>9

LEMMA DashboardKeeps == DashboardInv /\ [Dsh!Next]_(Dsh!vars) => DashboardInv'
<1>1. DashboardInv /\ UNCHANGED Dsh!vars => DashboardInv'
  BY DEF Dsh!vars, DashboardInv, Dsh!FilesAsNamed
<1> QED
  BY <1>1, SelectorsKeep, ReportKeeps, AnswersKeep DEF Dsh!Next, Dsh!BrandRankReport

LEMMA DashboardShows == DashboardInv => Dsh!RowsForSelection
<1> SUFFICES ASSUME DashboardInv PROVE Dsh!RowsForSelection
  OBVIOUS
<1>1. s1 \in DashboardPage
  BY DEF DashboardInv
<1>2. Dsh!Selection(s1) \in Selections
  BY <1>1 DEF Dsh!Selection, Selections, DashboardPage
<1>3. \A s, t \in Selections : Dsh!RequestKey(s) = Dsh!RequestKey(t) => s = t
  BY DEF Selections, Dsh!RequestKey
<1>4. Dsh!Current => s1.result.asked = Dsh!Selection(s1)
  BY <1>1, <1>2, <1>3 DEF Dsh!Current, DashboardPage
<1>5. ASSUME NEW row \in DashboardBrands, Dsh!DetailsShown(row)
      PROVE  s1.details = [of |-> Dsh!Selection(s1), row |-> row]
  <2>1. s1.details \in Details
    BY <1>1 DEF DashboardPage
  <2>2. Dsh!RequestKey(s1.details.of) = Dsh!RequestKey(Dsh!Selection(s1)) /\ s1.details.row = row
    BY <1>5 DEF Dsh!DetailsShown, Dsh!DetailKey
  <2> QED
    BY <1>2, <1>3, <2>1, <2>2 DEF Details
<1> QED
  BY <1>4, <1>5 DEF Dsh!RowsForSelection

LEMMA DashboardHolds == Spec => [](mounted = "dashboard" => DashboardInv)
<1>1. Init => (mounted = "dashboard" => DashboardInv)
  BY BeginsWithPart, DashboardBegins
<1>2. (mounted = "dashboard" => DashboardInv) /\ [Next]_vars => (mounted = "dashboard" => DashboardInv)'
  BY StepOfPart, DashboardKeeps
<1> QED
  BY <1>1, <1>2, PTL DEF Spec

\* The summary on the screen, its error, and the details under a row are those of
\* the selection, in whatever order selections, answers and failures come
\* (BrandRankReport in dashboard/index.tsx).
THEOREM RowsForSelectionHolds == Spec => []RowsForSelection
<1>1. (mounted = "dashboard" => DashboardInv) => RowsForSelection
  BY DashboardShows DEF RowsForSelection
<1> QED
  BY <1>1, DashboardHolds, PTL

\* A file holds all pages of the rows of the filters it is named after, although the
\* selection may change between any two of its pages (getAllBrandRankSummary).
THEOREM FilesAsNamedHolds == Spec => []FilesAsNamed
<1>1. (mounted = "dashboard" => DashboardInv) => FilesAsNamed
  BY DEF DashboardInv, FilesAsNamed
<1> QED
  BY <1>1, DashboardHolds, PTL

(***************************************************************************)
(* Table                                                                   *)
(***************************************************************************)
Url == [page : Nat, size : Sizes, search : FilterTexts, title : FilterTexts, kinds : SUBSET Kinds]

FiltersOf == [search : FilterTexts, title : FilterTexts, kinds : SUBSET Kinds]

\* The address and the state keep the same filters, but for those Back set apart.
TableInv ==
    /\ s1 \in Url /\ s2 \subseteq Url /\ s3 \in FiltersOf /\ s4 \in PageCounts
    /\ Tbl!UrlKeepsTable

LEMMA Trims ==
    /\ \A text \in FilterTexts : Tbl!Trim(text) \in FilterTexts /\ Tbl!Trim(Tbl!Trim(text)) = Tbl!Trim(text)
    /\ Tbl!NoText \in FilterTexts /\ Tbl!Trim(Tbl!NoText) = Tbl!NoText
BY FrontendParameters DEF Tbl!Trim, Tbl!TableParameters

\* Filters that are the same in the address and in the table do not differ.
LEMMA DifferIs ==
    ASSUME NEW u, NEW t
    PROVE  Tbl!Differ(u, t) =
               {f \in {"search", "title", "kinds"} :
                   \/ f = "search" /\ u.search # t.search
                   \/ f = "title" /\ Tbl!Trim(u.title) # Tbl!Trim(t.title)
                   \/ f = "kinds" /\ u.kinds # t.kinds}
BY DEF Tbl!Differ, Tbl!Opened

\* The pager, for any page of any number of pages: its buttons.
LEMMA PagerButtons ==
    ASSUME NEW page \in Nat \ {0}, NEW total \in Nat
    PROVE  LET numbers == Tbl!PageNumbers(page, total)
           IN /\ Tbl!ToSet(numbers) \subseteq Nat
              /\ page <= total =>
                   /\ {1, page, total} \subseteq Tbl!ToSet(numbers)
                   /\ {page - 1, page + 1} \cap (1 .. total) \subseteq Tbl!ToSet(numbers)
                   /\ \A i \in DOMAIN numbers : numbers[i] \in 1 .. total
                   /\ \A i, j \in DOMAIN numbers : i < j => numbers[i] < numbers[j]
<1> DEFINE numbers == Tbl!PageNumbers(page, total)
<1>1. CASE total <= 5
  <2>1. numbers = [i \in 1 .. total |-> i]
    BY <1>1 DEF Tbl!PageNumbers
  <2>2. Tbl!ToSet(numbers) = 1 .. total
    BY <2>1 DEF Tbl!ToSet
  <2> QED
    BY <2>1, <2>2
<1>2. CASE total > 5 /\ page <= 3
  <2>1. numbers = <<1, 2, 3, 4, total>>
    BY <1>2 DEF Tbl!PageNumbers
  <2>2. Tbl!ToSet(numbers) = {1, 2, 3, 4, total}
    BY <2>1 DEF Tbl!ToSet
  <2> QED
    BY <1>2, <2>1, <2>2
<1>3. CASE total > 5 /\ page > 3 /\ page >= total - 2
  <2>1. numbers = <<1, total - 3, total - 2, total - 1, total>>
    BY <1>3 DEF Tbl!PageNumbers
  <2>2. Tbl!ToSet(numbers) = {1, total - 3, total - 2, total - 1, total}
    BY <2>1 DEF Tbl!ToSet
  <2> QED
    BY <1>3, <2>1, <2>2
<1>4. CASE total > 5 /\ page > 3 /\ page < total - 2
  <2>1. numbers = <<1, page - 1, page, page + 1, total>>
    BY <1>4 DEF Tbl!PageNumbers
  <2>2. Tbl!ToSet(numbers) = {1, page - 1, page, page + 1, total}
    BY <2>1 DEF Tbl!ToSet
  <2> QED
    BY <1>4, <2>1, <2>2
<1> QED
  BY <1>1, <1>2, <1>3, <1>4

LEMMA PageIsNumber == TableInv => Tbl!CurrentPage \in Nat \ {0} /\ s4 \in Nat
BY FrontendParameters DEF TableInv, Url, Tbl!CurrentPage, Tbl!TableParameters

LEMMA TableBegins == Tbl!Init => TableInv
<1> SUFFICES ASSUME Tbl!Init PROVE TableInv
  OBVIOUS
<1>1. Tbl!NoUrl \in Url
  BY Trims, FrontendParameters DEF Tbl!NoUrl, Url, Tbl!TableParameters
<1>2. s1 \in Url
  BY <1>1 DEF Tbl!Init, Url
<1>3. s3 = [search |-> s1.search, title |-> Tbl!Trim(s1.title), kinds |-> s1.kinds]
  BY DEF Tbl!Init, Tbl!Opened
<1>4. s3 \in FiltersOf
  BY <1>2, <1>3, Trims DEF Url, FiltersOf
<1>5. Tbl!Trim(s3.title) = Tbl!Trim(s1.title) /\ s3.search = s1.search /\ s3.kinds = s1.kinds
  BY <1>2, <1>3, Trims DEF Url
<1> QED
  BY <1>2, <1>4, <1>5, DifferIs DEF Tbl!Init, TableInv, Tbl!UrlKeepsTable

\* Filters that agree with the address may be taken from those set apart.
LEMMA Filtered ==
    ASSUME TableInv, NEW u \in Url, NEW t \in FiltersOf, NEW same,
           Tbl!Navigate(u), s3' = t, s4' \in PageCounts, s6' = s6 \ same,
           \/ u.search = s1.search /\ t.search = s3.search
           \/ u.search = t.search,
           \/ u.title = s1.title /\ t.title = s3.title
           \/ Tbl!Trim(u.title) = Tbl!Trim(t.title),
           \/ u.kinds = s1.kinds /\ t.kinds = s3.kinds
           \/ u.kinds = t.kinds,
           "search" \in same => u.search = t.search,
           "title" \in same => Tbl!Trim(u.title) = Tbl!Trim(t.title),
           "kinds" \in same => u.kinds = t.kinds
    PROVE  TableInv'
<1>1. s1' = u /\ s2' = {s1}
  BY DEF Tbl!Navigate
<1>2. Tbl!Differ(u, t) \subseteq (Tbl!Differ(s1, s3) \ same)
  BY DifferIs
<1>3. Tbl!UrlKeepsTable'
  BY <1>1, <1>2 DEF TableInv, Tbl!UrlKeepsTable, Tbl!Differ, Tbl!Opened
<1> QED
  BY <1>1, <1>3 DEF TableInv

LEMMA ColumnsKeep ==
    ASSUME TableInv, NEW title \in FilterTexts, NEW kinds \in SUBSET Kinds,
           Tbl!OnColumnFiltersChange(title, kinds)
    PROVE  TableInv'
<1> DEFINE u == [s1 EXCEPT !.page = 0, !.title = Tbl!Trim(title), !.kinds = kinds]
           t == [s3 EXCEPT !.title = title, !.kinds = kinds]
<1>1. /\ u \in Url /\ u.search = s1.search /\ u.title = Tbl!Trim(title) /\ u.kinds = kinds
      /\ t \in FiltersOf /\ t.search = s3.search /\ t.title = title /\ t.kinds = kinds
  BY Trims DEF TableInv, Url, FiltersOf
<1>2. Tbl!Navigate(u) /\ s3' = t /\ s4' \in PageCounts /\ s6' = s6 \ {"title", "kinds"}
  BY DEF Tbl!OnColumnFiltersChange
<1>3. Tbl!Trim(u.title) = Tbl!Trim(t.title)
  BY <1>1, Trims
<1> HIDE DEF u, t
<1> QED
  BY <1>1, <1>2, <1>3, Filtered

LEMMA SearchKeeps ==
    ASSUME TableInv, NEW text \in FilterTexts, Tbl!OnGlobalFilterChange(text)
    PROVE  TableInv'
<1> DEFINE u == [s1 EXCEPT !.page = 0, !.search = Tbl!Trim(text)]
           t == [s3 EXCEPT !.search = Tbl!Trim(text)]
<1>1. /\ u \in Url /\ u.search = Tbl!Trim(text) /\ u.title = s1.title /\ u.kinds = s1.kinds
      /\ t \in FiltersOf /\ t.search = Tbl!Trim(text) /\ t.title = s3.title /\ t.kinds = s3.kinds
  BY Trims DEF TableInv, Url, FiltersOf
<1>2. Tbl!Navigate(u) /\ s3' = t /\ s4' \in PageCounts /\ s6' = s6 \ {"search"}
  BY DEF Tbl!OnGlobalFilterChange
<1> HIDE DEF u, t
<1> QED
  BY <1>1, <1>2, Filtered

LEMMA ResetKeeps ==
    ASSUME TableInv, Tbl!ResetFilters
    PROVE  TableInv'
<1> DEFINE u == [s1 EXCEPT !.page = 0, !.search = Tbl!NoText, !.title = Tbl!NoText, !.kinds = {}]
           t == [s3 EXCEPT !.search = Tbl!NoText, !.title = Tbl!NoText, !.kinds = {}]
<1>1. /\ u \in Url /\ u.search = Tbl!NoText /\ u.title = Tbl!NoText /\ u.kinds = {}
      /\ t \in FiltersOf /\ t.search = Tbl!NoText /\ t.title = Tbl!NoText /\ t.kinds = {}
  BY Trims DEF TableInv, Url, FiltersOf
<1>2. Tbl!Navigate(u) /\ s3' = t /\ s4' \in PageCounts /\ s6' = s6 \ s6
  BY DEF Tbl!ResetFilters
<1> HIDE DEF u, t
<1> QED
  BY <1>1, <1>2, Filtered

\* Another page or size leaves the filters alone.
LEMMA PagingKeeps ==
    ASSUME TableInv, NEW page \in Nat, NEW size \in Sizes, Tbl!OnPaginationChange(page, size)
    PROVE  TableInv'
<1> DEFINE number == IF page <= 1 THEN 0 ELSE page
           u == [s1 EXCEPT !.page = number, !.size = size]
<1>1. number \in Nat
  OBVIOUS
<1>2. Tbl!Navigate(u) /\ UNCHANGED <<s3, s4, s6>>
  BY DEF Tbl!OnPaginationChange
<1> HIDE DEF number
<1>3. u \in Url /\ u.search = s1.search /\ u.title = s1.title /\ u.kinds = s1.kinds
  BY <1>1 DEF TableInv, Url
<1>4. s3 \in FiltersOf /\ s4' \in PageCounts /\ s6' = s6 \ {}
  BY <1>2 DEF TableInv
<1> HIDE DEF u
<1> QED
  BY <1>2, <1>3, <1>4, Filtered

LEMMA ToolbarKeeps == TableInv /\ Tbl!DataTableToolbar => TableInv'
<1> SUFFICES ASSUME TableInv, Tbl!DataTableToolbar PROVE TableInv'
  OBVIOUS
<1>1. s3.title \in FilterTexts /\ s3.kinds \in SUBSET Kinds
  BY DEF TableInv, FiltersOf
<1>2. CASE Tbl!DataTableFacetedFilter
  <2>1. \A k \in Kinds : s3.kinds \ {k} \in SUBSET Kinds /\ s3.kinds \cup {k} \in SUBSET Kinds
    BY <1>1
  <2>2. PICK kinds : /\ Tbl!OnColumnFiltersChange(s3.title, kinds)
                     /\ kinds = {} \/ \E k \in Kinds : kinds = s3.kinds \ {k} \/ kinds = s3.kinds \cup {k}
    BY <1>2 DEF Tbl!DataTableFacetedFilter
  <2>3. kinds \in SUBSET Kinds
    BY <2>1, <2>2
  <2> QED
    BY <1>1, <2>2, <2>3, ColumnsKeep
<1> QED
  BY <1>1, <1>2, SearchKeeps, ColumnsKeep, ResetKeeps DEF Tbl!DataTableToolbar

LEMMA PageWithTopRowIsNumber ==
    ASSUME Tbl!CurrentPage \in Nat \ {0}, s1.size \in Sizes, NEW size \in Sizes
    PROVE  Tbl!PageWithTopRow(size) \in Nat
<1> DEFINE row == (Tbl!CurrentPage - 1) * Tbl!RowsPerPage(s1.size)
           rows == Tbl!RowsPerPage(size)
<1>1. \A i \in Sizes : Tbl!RowsPerPage(i) \in Nat \ {0}
  BY FrontendParameters DEF Tbl!RowsPerPage, Tbl!DefaultPageSize, Tbl!TableParameters
<1>2. \A i, j \in Nat : i * j \in Nat
  OBVIOUS
<1>3. row \in Nat /\ rows \in Nat \ {0}
  BY <1>1, <1>2
<1> HIDE DEF row, rows
<1>4. row \div rows \in Nat
  BY <1>3
<1>5. row \div rows + 1 \in Nat
  BY <1>4
<1> QED
  BY <1>5 DEF row, rows, Tbl!PageWithTopRow

LEMMA PagerKeeps == TableInv /\ Tbl!DataTablePagination => TableInv'
<1> SUFFICES ASSUME TableInv, Tbl!DataTablePagination PROVE TableInv'
  OBVIOUS
<1>1. Tbl!CurrentPage \in Nat \ {0} /\ s4 \in Nat /\ s1.size \in Sizes
  BY PageIsNumber DEF TableInv, Url
<1>2. Tbl!ToSet(Tbl!PageNumbers(Tbl!CurrentPage, s4)) \subseteq Nat
  BY <1>1, PagerButtons
<1>3. Tbl!CurrentPage - 1 \in Nat /\ Tbl!CurrentPage + 1 \in Nat
  BY <1>1
<1>4. \A size \in Sizes : Tbl!PageWithTopRow(size) \in Nat
  BY <1>1, PageWithTopRowIsNumber
<1> QED
  BY <1>1, <1>2, <1>3, <1>4, PagingKeeps DEF Tbl!DataTablePagination

LEMMA TableKeeps == TableInv /\ [Tbl!Next]_(Tbl!vars) => TableInv'
<1> SUFFICES ASSUME TableInv, [Tbl!Next]_(Tbl!vars) PROVE TableInv'
  OBVIOUS
<1>1. CASE UNCHANGED <<s1, s2, s3, s6>> /\ s4' \in PageCounts
  BY <1>1 DEF TableInv, Tbl!UrlKeepsTable, Tbl!Differ, Tbl!Opened
<1>2. CASE Tbl!EnsurePageInRange
  <2>1. PICK page \in {0, s4} : s1' = [s1 EXCEPT !.page = page]
    BY <1>2 DEF Tbl!EnsurePageInRange
  <2>2. page \in Nat
    BY PageIsNumber
  <2>3. s1' \in Url /\ s1'.search = s1.search /\ s1'.title = s1.title /\ s1'.kinds = s1.kinds
    BY <2>1, <2>2 DEF TableInv, Url
  <2> QED
    BY <1>2, <2>3 DEF Tbl!EnsurePageInRange, TableInv, Tbl!UrlKeepsTable, Tbl!Differ, Tbl!Opened
<1>3. CASE Tbl!Back
  BY <1>3 DEF Tbl!Back, TableInv, Tbl!UrlKeepsTable, Tbl!Differ, Tbl!Opened
<1>4. s4 \in PageCounts
  BY DEF TableInv
<1> QED
  BY <1>1, <1>2, <1>3, <1>4, ToolbarKeeps, PagerKeeps
     DEF Tbl!Next, Tbl!DataTableColumnHeader, Tbl!DataTableViewOptions, Tbl!RowsChange, Tbl!vars

LEMMA TableHolds == Spec => [](mounted = "table" => TableInv)
<1>1. Init => (mounted = "table" => TableInv)
  BY BeginsWithPart, TableBegins
<1>2. (mounted = "table" => TableInv) /\ [Next]_vars => (mounted = "table" => TableInv)'
  BY StepOfPart, TableKeeps
<1> QED
  BY <1>1, <1>2, PTL DEF Spec

\* A copied address opens the table with the filters it has, after any use of the
\* toolbar and the pager; only Back leaves filters apart (use-table-url-state.ts).
THEOREM UrlKeepsTableHolds == Spec => []UrlKeepsTable
<1>1. (mounted = "table" => TableInv) => UrlKeepsTable
  BY DEF TableInv, UrlKeepsTable
<1> QED
  BY <1>1, TableHolds, PTL

\* The pager reaches the first, the last and the neighbouring pages, for any number of
\* pages (lib/utils.ts, getPageNumbers).
THEOREM PagerReachesHolds == Spec => []PagerReaches
<1>1. (mounted = "table" => TableInv) => PagerReaches
  <2> SUFFICES ASSUME TableInv, Tbl!CurrentPage <= s4 PROVE Tbl!PagerReaches
    BY DEF PagerReaches, Tbl!PagerReaches
  <2> QED
    BY PageIsNumber, PagerButtons DEF Tbl!PagerReaches
<1> QED
  BY <1>1, TableHolds, PTL

(***************************************************************************)
(* Sign-in and the rank report, proved in modules of their own             *)
(***************************************************************************)
SignP == INSTANCE SignInProofs WITH
    MaxCalls <- MaxFlight["sign-in"],
    page <- s1, calls <- s2, store <- s3, user <- s4

RepP == INSTANCE RankReportProofs WITH
    Projects <- ReportProjects,
    MaxFlight <- MaxFlight["rank report"], MaxChanges <- MaxActs["rank report"],
    page <- s1, report <- s2, net <- s3, changes <- s4

\* The mounted pages are those the theorems of SignInProofs are about.
LEMMA SignInPagesAre ==
    ASSUME NEW c \in Sign!Pages
    PROVE  Sign!SignInPage(c) <=> SignP!SignInPage(c)
BY DEF Sign!SignInPage, SignP!SignInPage, Sign!HandleSendOtp, SignP!HandleSendOtp,
       Sign!HandleVerifyOtp, SignP!HandleVerifyOtp, Sign!HandleResend, SignP!HandleResend,
       Sign!Back, SignP!Back, Sign!Navigate, SignP!Navigate, Sign!Send, SignP!Send,
       Sign!SetPage, SignP!SetPage

LEMMA SignInRequestsAre ==
    ASSUME NEW i \in DOMAIN s2
    PROVE  Sign!Request(i) <=> SignP!Request(i)
<1>1. /\ Sign!CheckSendRate(i) <=> SignP!CheckSendRate(i)
      /\ Sign!StoreCode(i) <=> SignP!StoreCode(i)
  BY DEF Sign!CheckSendRate, SignP!CheckSendRate, Sign!StoreCode, SignP!StoreCode, Sign!At,
         SignP!At, Sign!Cooldown, SignP!Cooldown, Sign!CodeLife, SignP!CodeLife
<1>2. /\ Sign!ClearAttempts(i) <=> SignP!ClearAttempts(i)
      /\ Sign!RedisFails(i) <=> SignP!RedisFails(i)
  BY DEF Sign!ClearAttempts, SignP!ClearAttempts, Sign!RedisFails, SignP!RedisFails, Sign!At,
         SignP!At
<1>3. Sign!Verify(i) <=> SignP!Verify(i)
  BY DEF Sign!Verify, SignP!Verify, Sign!Guessed, SignP!Guessed, Sign!At, SignP!At,
         Sign!CodeLife, SignP!CodeLife
<1>4. /\ Sign!Answered(i) <=> SignP!Answered(i)
      /\ Sign!Failed(i) <=> SignP!Failed(i)
  BY DEF Sign!Answered, SignP!Answered, Sign!Failed, SignP!Failed, Sign!Succeeded,
         SignP!Succeeded, Sign!Countdown, SignP!Countdown, Sign!RemoveAt, SignP!RemoveAt
<1> QED
  BY <1>1, <1>2, <1>3, <1>4 DEF Sign!Request, SignP!Request

LEMMA SignInIs ==
    /\ Sign!Init <=> SignP!Init
    /\ [Sign!Next]_(Sign!vars) <=> [SignP!Next]_(SignP!vars)
    /\ Sign!GuessesBounded <=> SignP!GuessesBounded
    /\ Sign!ResendAllowed <=> SignP!ResendAllowed
    /\ Sign!SignInParameters <=> SignP!SignInParameters
<1>1. Sign!Pages = SignP!Pages
  BY DEF Sign!Pages, SignP!Pages
<1>2. Sign!Tick <=> SignP!Tick
  BY DEF Sign!Tick, SignP!Tick, Sign!Less, SignP!Less, Sign!Pages, SignP!Pages
<1>3. Sign!Next <=> SignP!Next
  BY <1>1, <1>2, SignInPagesAre, SignInRequestsAre DEF Sign!Next, SignP!Next
<1>4. Sign!vars = SignP!vars
  BY DEF Sign!vars, SignP!vars
<1>5. Sign!Init <=> SignP!Init
  BY <1>1 DEF Sign!Init, SignP!Init, Sign!NoPage, SignP!NoPage
<1>6. /\ Sign!GuessesBounded <=> SignP!GuessesBounded
      /\ Sign!ResendAllowed <=> SignP!ResendAllowed
      /\ Sign!SignInParameters <=> SignP!SignInParameters
  BY <1>1 DEF Sign!GuessesBounded, SignP!GuessesBounded, Sign!ResendAllowed, SignP!ResendAllowed,
              Sign!Calling, SignP!Calling, Sign!SignInParameters, SignP!SignInParameters
<1> QED
  BY <1>3, <1>4, <1>5, <1>6 DEF Sign!vars, SignP!vars

LEMMA SignInHolds == Spec => [](mounted = "sign-in" => SignP!RInv)
<1>1. SignP!SignInParameters
  BY SignInIs, FrontendParameters
<1>2. Init => (mounted = "sign-in" => SignP!RInv)
  BY <1>1, BeginsWithPart, SignInIs, SignP!RInvHolds
<1>3. (mounted = "sign-in" => SignP!RInv) /\ [Next]_vars => (mounted = "sign-in" => SignP!RInv)'
  BY <1>1, StepOfPart, SignInIs, SignP!RInvHolds
<1> QED
  BY <1>2, <1>3, PTL DEF Spec

\* Unless requests for codes of one phone overtook each other, fewer than twice the
\* attempts allowed are made at one code (auth_service.py, store and verify).
THEOREM GuessesBoundedHolds == Spec => []GuessesBounded
<1>1. (mounted = "sign-in" => SignP!RInv) => GuessesBounded
  BY FrontendParameters, SignInIs, SignP!RInvHolds DEF GuessesBounded
<1> QED
  BY <1>1, SignInHolds, PTL

\* A page whose request for a code succeeded offers another one only when the phone
\* no longer rests from it (login-page.tsx, register-page.tsx, check_send_rate).
THEOREM ResendAllowedHolds == Spec => []ResendAllowed
<1>1. (mounted = "sign-in" => SignP!RInv) => ResendAllowed
  BY FrontendParameters, SignInIs, SignP!RInvHolds DEF ResendAllowed
<1> QED
  BY <1>1, SignInHolds, PTL

\* The mounted report is the one the theorems of RankReportProofs are about.
LEMMA ReportEffectsAre ==
    ASSUME NEW v, NEW n
    PROVE  Rep!ReportEffect(v, n) <=> RepP!ReportEffect(v, n)
BY DEF Rep!ReportEffect, RepP!ReportEffect, Rep!Asked, RepP!Asked, Rep!Valid, RepP!Valid,
       Rep!Cancel, RepP!Cancel, Rep!Unmount, RepP!Unmount, Rep!Issue, RepP!Issue,
       Rep!Call, RepP!Call, Rep!NoProject, RepP!NoProject, Rep!NoReport, RepP!NoReport

LEMMA ReportFiltersAre == Rep!Filters <=> RepP!Filters
<1>1. Rep!Changing <=> RepP!Changing
  BY DEF Rep!Changing, RepP!Changing
<1>2. ASSUME NEW p PROVE Rep!SelectProject(p) <=> RepP!SelectProject(p)
  BY <1>1, ReportEffectsAre
     DEF Rep!SelectProject, RepP!SelectProject, Rep!Cancel, RepP!Cancel, Rep!Unmount, RepP!Unmount,
         Rep!Issue, RepP!Issue, Rep!Call, RepP!Call
<1>3. ASSUME NEW b PROVE Rep!SetBrandId(b) <=> RepP!SetBrandId(b)
  BY <1>1, ReportEffectsAre DEF Rep!SetBrandId, RepP!SetBrandId, Rep!NoProject, RepP!NoProject,
     Rep!Range, RepP!Range
<1>4. ASSUME NEW d
      PROVE  /\ Rep!SetStartDate(d) <=> RepP!SetStartDate(d)
             /\ Rep!SetEndDate(d) <=> RepP!SetEndDate(d)
  BY <1>1, ReportEffectsAre DEF Rep!SetStartDate, RepP!SetStartDate, Rep!SetEndDate, RepP!SetEndDate
<1> QED
  BY <1>2, <1>3, <1>4 DEF Rep!Filters, RepP!Filters

LEMMA NoReportIs == Rep!NoReport = RepP!NoReport
BY DEF Rep!NoReport, RepP!NoReport, Rep!NoProject, RepP!NoProject

LEMMA ReportAnswersAre ==
    ASSUME NEW i
    PROVE  /\ Rep!BrandsLoaded(i) <=> RepP!BrandsLoaded(i)
           /\ Rep!ReportLoaded(i) <=> RepP!ReportLoaded(i)
           /\ Rep!ReportFails(i) <=> RepP!ReportFails(i)
           /\ Rep!Dropped(i) <=> RepP!Dropped(i)
<1>1. Rep!Finish(s3, i) = RepP!Finish(s3, i)
  BY DEF Rep!Finish, RepP!Finish, Rep!RemoveAt, RepP!RemoveAt
<1>2. ASSUME NEW p PROVE Rep!BrandOptions(p) = RepP!BrandOptions(p)
  BY DEF Rep!BrandOptions, RepP!BrandOptions, Rep!SetToSortSeq, RepP!SetToSortSeq, Rep!SetToSeq,
     RepP!SetToSeq, Rep!IsInjective, RepP!IsInjective, Rep!Cardinality, RepP!Cardinality
<1>3. Rep!BrandsLoaded(i) <=> RepP!BrandsLoaded(i)
  BY <1>1, <1>2, ReportEffectsAre DEF Rep!BrandsLoaded, RepP!BrandsLoaded, Rep!Ignored, RepP!Ignored,
     Rep!Range, RepP!Range
<1>4. /\ Rep!ReportLoaded(i) <=> RepP!ReportLoaded(i)
      /\ Rep!ReportFails(i) <=> RepP!ReportFails(i)
      /\ Rep!Dropped(i) <=> RepP!Dropped(i)
  BY <1>1, NoReportIs, Zenon
     DEF Rep!ReportLoaded, RepP!ReportLoaded, Rep!ReportFails, RepP!ReportFails, Rep!Dropped,
         RepP!Dropped, Rep!Ignored, RepP!Ignored
<1> QED
  BY <1>3, <1>4

LEMMA ReportIs ==
    /\ Rep!Init <=> RepP!Init
    /\ [Rep!Next]_(Rep!vars) <=> [RepP!Next]_(RepP!vars)
    /\ Rep!ReportMatchesControls <=> RepP!ReportMatchesControls
    /\ Rep!SkeletonIsAwaited <=> RepP!SkeletonIsAwaited
<1>1. /\ Rep!SetGlobalFilter <=> RepP!SetGlobalFilter
      /\ Rep!SetPageIndex <=> RepP!SetPageIndex
  BY NoReportIs, Zenon
     DEF Rep!SetGlobalFilter, RepP!SetGlobalFilter, Rep!SetPageIndex, RepP!SetPageIndex, Rep!Shown,
         RepP!Shown
<1>2. Rep!Answers <=> RepP!Answers
  BY ReportAnswersAre DEF Rep!Answers, RepP!Answers
<1>3. Rep!Next <=> RepP!Next
  BY <1>1, <1>2, ReportFiltersAre DEF Rep!Next, RepP!Next
<1>4. Rep!Init <=> RepP!Init
  BY DEF Rep!Init, RepP!Init, Rep!NoProject, RepP!NoProject, Rep!NoReport, RepP!NoReport
<1>5. /\ Rep!ReportMatchesControls <=> RepP!ReportMatchesControls
      /\ Rep!SkeletonIsAwaited <=> RepP!SkeletonIsAwaited
  BY DEF Rep!ReportMatchesControls, RepP!ReportMatchesControls, Rep!SkeletonIsAwaited,
         RepP!SkeletonIsAwaited, Rep!NoReport, RepP!NoReport, Rep!Asked, RepP!Asked, Rep!Valid,
         RepP!Valid, Rep!NoProject, RepP!NoProject
<1> QED
  BY <1>3, <1>4, <1>5 DEF Rep!vars, RepP!vars

LEMMA ReportHolds == Spec => [](mounted = "rank report" => RepP!Inv)
<1>1. Init => (mounted = "rank report" => RepP!Inv)
  BY BeginsWithPart, ReportIs, RepP!Begins
<1>2. (mounted = "rank report" => RepP!Inv) /\ [Next]_vars => (mounted = "rank report" => RepP!Inv)'
  BY StepOfPart, ReportIs, RepP!StepKeeps
<1> QED
  BY <1>1, <1>2, PTL DEF Spec

\* However often the controls change and whatever answers come in which order, the
\* report on the screen is the one they ask for (rank-report.tsx).
THEOREM ReportMatchesControlsHolds == Spec => []ReportMatchesControls
<1>1. (mounted = "rank report" => RepP!Inv) => ReportMatchesControls
  BY ReportIs, RepP!InvMeans DEF ReportMatchesControls
<1> QED
  BY <1>1, ReportHolds, PTL

\* The skeleton of valid parameters never waits for nothing (rank-report.tsx).
THEOREM SkeletonIsAwaitedHolds == Spec => []SkeletonIsAwaited
<1>1. (mounted = "rank report" => RepP!Inv) => SkeletonIsAwaited
  BY ReportIs, RepP!InvMeans DEF SkeletonIsAwaited
<1> QED
  BY <1>1, ReportHolds, PTL

(***************************************************************************)
(* The analytics page                                                      *)
(***************************************************************************)
ProjectPrompts == UNION {Ana!Range(PromptsOf[p]) : p \in Ana!Projects}
AnalyticsArgs == Ana!Projects \cup ProjectPrompts \cup {"none", {}}

AnalyticsCalls ==
    {c \in CallsOf({"projects", "prompts", "rankings", "trends"}, AnalyticsArgs) :
        c.op = "prompts" => c.arg \in Ana!Projects}

AnalyticsPage ==
    [project : Ana!Projects \cup {"none"},
     prompts : {PromptsOf[p] : p \in Ana!Projects} \cup {<<>>},
     selected : AnalyticsArgs, projects : BOOLEAN, loading : BOOLEAN, error : BOOLEAN,
     rankings : AnalyticsArgs, trends : AnalyticsArgs,
     loadingRankings : BOOLEAN, trendLoading : BOOLEAN]

AnalyticsPast ==
    [lost : BOOLEAN, changes : Nat, prompts : BOOLEAN, rankings : BOOLEAN, trends : BOOLEAN]

\* Either the newest call of op will bring arg, or it came and none but overtaken ones
\* are left, which tell that they are by "past".
Loads(n, op, arg, done) == Due(n, op, arg) \/ (Over(n, op) /\ done)

\* The prompts are those of the project, the rankings and trends those of the prompt.
Follows(v, n, past) ==
    /\ v.project # "none" =>
          Loads(n, "prompts", v.project, past.prompts => v.prompts = PromptsOf[v.project])
    /\ Ana!DisplayedPrompt(v) # "none" =>
          /\ Loads(n, "rankings", Ana!DisplayedPrompt(v),
                   past.rankings => v.rankings = Ana!DisplayedPrompt(v))
          /\ Loads(n, "trends", Ana!DisplayedPrompt(v),
                   past.trends => v.trends = Ana!DisplayedPrompt(v))
    /\ v.loadingRankings => Flies(n, "rankings")
    /\ v.trendLoading => Flies(n, "trends")

AnalyticsTypes ==
    s1 \in AnalyticsPage /\ s2 \in Seq(AnalyticsCalls) /\ s3 \in AnalyticsPast

AnalyticsInv == AnalyticsTypes /\ (~s3.lost => Follows(s1, s2, s3))

LEMMA AnalyticsNet ==
    ASSUME NEW n \in Seq(AnalyticsCalls)
    PROVE  /\ n \in Seq(CallsWith({"projects", "prompts", "rankings", "trends"}, AnalyticsArgs, {{}}))
           /\ \A i \in DOMAIN n : n[i] \in AnalyticsCalls
<1> DEFINE T == CallsWith({"projects", "prompts", "rankings", "trends"}, AnalyticsArgs, {{}})
<1>1. AnalyticsCalls \subseteq T
  BY DEF AnalyticsCalls, CallsOf, CallsWith
<1> HIDE DEF T
<1>2. n \in Seq(T)
  BY <1>1
<1>3. \A i \in DOMAIN n : n[i] \in AnalyticsCalls
  OBVIOUS
<1> QED
  BY <1>2, <1>3 DEF T

LEMMA AnalyticsFinished ==
    ASSUME NEW n \in Seq(AnalyticsCalls), NEW i \in DOMAIN n
    PROVE  Finish(n, i) \in Seq(AnalyticsCalls)
<1>1. ASSUME NEW c \in AnalyticsCalls PROVE [c EXCEPT !.late = TRUE] \in AnalyticsCalls
  BY DEF AnalyticsCalls, CallsOf
<1> QED
  BY <1>1, Finished

LEMMA AnalyticsIssued ==
    ASSUME NEW n \in Seq(AnalyticsCalls), NEW op \in {"projects", "prompts", "rankings", "trends"},
           NEW arg \in AnalyticsArgs, op = "prompts" => arg \in Ana!Projects
    PROVE  Issue(n, op, arg) \in Seq(AnalyticsCalls)
<1>1. Call(op, arg) \in AnalyticsCalls
  BY DEF AnalyticsCalls, CallsOf, Call
<1> QED
  BY <1>1, Issued

LEMMA DisplayedIsPrompt ==
    ASSUME NEW v \in AnalyticsPage
    PROVE  Ana!DisplayedPrompt(v) \in AnalyticsArgs
<1>1. ASSUME NEW p \in Ana!Projects, PromptsOf[p] # <<>> PROVE Head(PromptsOf[p]) \in AnalyticsArgs
  <2>1. PromptsOf[p] \in Seq(Ana!Range(PromptsOf[p]))
    BY FrontendParameters DEF Ana!AnalyticsPageParameters
  <2>2. Head(PromptsOf[p]) \in Ana!Range(PromptsOf[p])
    BY <1>1, <2>1
  <2> QED
    BY <2>2 DEF AnalyticsArgs, ProjectPrompts
<1> QED
  BY <1>1 DEF Ana!DisplayedPrompt, Ana!LatestPrompt, AnalyticsPage, Ana!NoPrompt, AnalyticsArgs

\* What the two effects on the displayed prompt do to the page and its calls.
LEMMA EffectsDo ==
    ASSUME AnalyticsTypes, NEW v \in AnalyticsPage, NEW n \in Seq(AnalyticsCalls),
           Ana!DisplayEffects(v, n)
    PROVE  LET q == Ana!DisplayedPrompt(v)
           IN /\ s1' \in AnalyticsPage /\ s2' \in Seq(AnalyticsCalls)
              /\ s1'.project = v.project /\ s1'.prompts = v.prompts
              /\ Ana!DisplayedPrompt(s1') = q
              /\ \/ /\ q = Ana!DisplayedPrompt(s1) \/ q = "none"
                    /\ q # "none" => s1' = v
                    /\ s1'.loadingRankings = v.loadingRankings
                    /\ s1'.trendLoading = v.trendLoading /\ s2' = n
                 \/ /\ q # "none" /\ Due(s2', "rankings", q) /\ Due(s2', "trends", q)
                    /\ Flies(s2', "rankings") /\ Flies(s2', "trends")
                    /\ \A a : Due(n, "prompts", a) => Due(s2', "prompts", a)
                    /\ Over(n, "prompts") => Over(s2', "prompts")
<1> DEFINE q == Ana!DisplayedPrompt(v)
<1>1. q \in AnalyticsArgs
  BY DisplayedIsPrompt
<1>2. CASE q = Ana!DisplayedPrompt(s1)
  BY <1>2 DEF Ana!DisplayEffects
<1>3. CASE q # Ana!DisplayedPrompt(s1) /\ q = "none"
  <2> DEFINE w == [v EXCEPT !.rankings = "none", !.trends = "none"]
  <2>1. s1' = w /\ s2' = n
    BY <1>3, Zenon DEF Ana!DisplayEffects, Ana!NoPrompt
  <2>2. /\ w \in AnalyticsPage /\ w.project = v.project /\ w.prompts = v.prompts
        /\ w.selected = v.selected /\ w.loadingRankings = v.loadingRankings
        /\ w.trendLoading = v.trendLoading
    BY DEF AnalyticsPage, AnalyticsArgs
  <2> HIDE DEF w
  <2>3. Ana!DisplayedPrompt(w) = q
    BY <2>2 DEF Ana!DisplayedPrompt
  <2> QED
    BY <1>3, <2>1, <2>2, <2>3
<1>4. CASE q # Ana!DisplayedPrompt(s1) /\ q # "none"
  <2> DEFINE w == [v EXCEPT !.loadingRankings = TRUE, !.trendLoading = TRUE]
             m == Issue(n, "rankings", q)
  <2>1. s1' = w /\ s2' = Issue(m, "trends", q)
    BY <1>4, Zenon DEF Ana!DisplayEffects, Ana!NoPrompt, Ana!Issue, Ana!Call, Issue, Call
  <2>2. /\ w \in AnalyticsPage /\ w.project = v.project /\ w.prompts = v.prompts
        /\ w.selected = v.selected
    BY DEF AnalyticsPage
  <2> HIDE DEF w
  <2>3. Ana!DisplayedPrompt(w) = q
    BY <2>2 DEF Ana!DisplayedPrompt
  <2>4. m \in Seq(AnalyticsCalls)
    BY <1>1, AnalyticsIssued
  <2>5. /\ Due(m, "rankings", q) /\ Flies(m, "rankings")
        /\ \A a : Due(n, "prompts", a) => Due(m, "prompts", a)
        /\ Over(n, "prompts") => Over(m, "prompts")
    BY IssuedDue
  <2> HIDE DEF m
  <2>6. /\ Due(s2', "trends", q) /\ Flies(s2', "trends")
        /\ Due(s2', "rankings", q) /\ Flies(s2', "rankings")
        /\ \A a : Due(m, "prompts", a) => Due(s2', "prompts", a)
        /\ Over(m, "prompts") => Over(s2', "prompts")
    BY <2>1, <2>4, <2>5, IssuedDue
  <2>7. s2' \in Seq(AnalyticsCalls)
    BY <1>1, <2>1, <2>4, AnalyticsIssued
  <2> QED
    BY <1>4, <2>1, <2>2, <2>3, <2>5, <2>6, <2>7
<1> QED
  BY <1>2, <1>3, <1>4

LEMMA AnalyticsBegins == Ana!Init => AnalyticsInv
<1> SUFFICES ASSUME Ana!Init PROVE AnalyticsInv
  OBVIOUS
<1>1. s1 \in AnalyticsPage
  BY DEF Ana!Init, AnalyticsPage, AnalyticsArgs, Ana!NoPrompt
<1>2. /\ s1.project = "none" /\ Ana!DisplayedPrompt(s1) = "none"
      /\ ~s1.loadingRankings /\ ~s1.trendLoading
  BY DEF Ana!Init, Ana!DisplayedPrompt, Ana!LatestPrompt, Ana!NoPrompt
<1>3. s2 = Issue(<<>>, "projects", {})
  BY DEF Ana!Init, Ana!Issue, Ana!Call, Issue, Call
<1>4. <<>> \in Seq(AnalyticsCalls)
  OBVIOUS
<1>5. s2 \in Seq(AnalyticsCalls)
  BY <1>3, <1>4, AnalyticsIssued DEF AnalyticsArgs
<1>6. s3 \in AnalyticsPast
  BY DEF Ana!Init, AnalyticsPast
<1> QED
  BY <1>1, <1>2, <1>5, <1>6 DEF AnalyticsInv, AnalyticsTypes, Follows

\* A handler that ends with the two effects keeps the invariant when what it leaves to
\* them is right: the prompts for the project, the rest for a prompt that stays displayed.
LEMMA EffectsKeep ==
    ASSUME AnalyticsTypes, NEW v \in AnalyticsPage, NEW n \in Seq(AnalyticsCalls),
           Ana!DisplayEffects(v, n), s3' \in AnalyticsPast, s3'.lost = s3.lost,
           ~s3.lost /\ v.project # "none" =>
               Loads(n, "prompts", v.project, s3'.prompts => v.prompts = PromptsOf[v.project]),
           ~s3.lost /\ Ana!DisplayedPrompt(v) = Ana!DisplayedPrompt(s1)
                    /\ Ana!DisplayedPrompt(v) # "none" =>
               /\ Loads(n, "rankings", Ana!DisplayedPrompt(v),
                        s3'.rankings => v.rankings = Ana!DisplayedPrompt(v))
               /\ Loads(n, "trends", Ana!DisplayedPrompt(v),
                        s3'.trends => v.trends = Ana!DisplayedPrompt(v)),
           ~s3.lost /\ v.loadingRankings => Flies(n, "rankings"),
           ~s3.lost /\ v.trendLoading => Flies(n, "trends")
    PROVE  AnalyticsInv'
<1> DEFINE q == Ana!DisplayedPrompt(v)
<1>1. /\ s1' \in AnalyticsPage /\ s2' \in Seq(AnalyticsCalls)
      /\ s1'.project = v.project /\ s1'.prompts = v.prompts
      /\ Ana!DisplayedPrompt(s1') = q
  BY EffectsDo
<1>2. CASE /\ q = Ana!DisplayedPrompt(s1) \/ q = "none"
           /\ q # "none" => s1' = v
           /\ s1'.loadingRankings = v.loadingRankings
           /\ s1'.trendLoading = v.trendLoading /\ s2' = n
  <2>1. ~s3'.lost => Follows(s1', s2', s3')
    BY <1>1, <1>2 DEF Follows
  <2> QED
    BY <1>1, <2>1 DEF AnalyticsInv, AnalyticsTypes
<1>3. CASE /\ q # "none" /\ Due(s2', "rankings", q) /\ Due(s2', "trends", q)
           /\ Flies(s2', "rankings") /\ Flies(s2', "trends")
           /\ \A a : Due(n, "prompts", a) => Due(s2', "prompts", a)
           /\ Over(n, "prompts") => Over(s2', "prompts")
  <2>1. ~s3'.lost => Follows(s1', s2', s3')
    BY <1>1, <1>3 DEF Follows, Loads
  <2> QED
    BY <1>1, <2>1 DEF AnalyticsInv, AnalyticsTypes
<1> QED
  BY <1>2, <1>3, EffectsDo

LEMMA SelectProjectKeeps ==
    ASSUME AnalyticsInv, NEW p \in Ana!Projects, Ana!SelectProject(p)
    PROVE  AnalyticsInv'
<1> DEFINE v == [s1 EXCEPT !.project = p, !.selected = "none", !.prompts = <<>>,
                           !.rankings = "none", !.trends = "none"]
           n == Issue(s2, "prompts", p)
<1>1. AnalyticsTypes
  BY DEF AnalyticsInv
<1>2. /\ v \in AnalyticsPage /\ v.project = p /\ v.selected = "none" /\ v.prompts = <<>>
      /\ v.loadingRankings = s1.loadingRankings /\ v.trendLoading = s1.trendLoading
  BY <1>1 DEF AnalyticsTypes, AnalyticsPage, AnalyticsArgs
<1>3. Ana!DisplayEffects(v, n)
  BY Zenon DEF Ana!SelectProject, Ana!NoPrompt, Ana!Issue, Ana!Call, Issue, Call
<1>4. s3' \in AnalyticsPast /\ s3'.lost = s3.lost
  BY <1>1 DEF Ana!SelectProject, Ana!Changing, AnalyticsPast, AnalyticsTypes
<1> HIDE DEF v
<1>5. Ana!DisplayedPrompt(v) = "none"
  BY <1>2 DEF Ana!DisplayedPrompt, Ana!LatestPrompt, Ana!NoPrompt
<1>6. n \in Seq(AnalyticsCalls)
  BY <1>1, AnalyticsIssued DEF AnalyticsTypes, AnalyticsArgs
<1>7. /\ Due(n, "prompts", p)
      /\ \A op : Flies(s2, op) => Flies(n, op)
  BY <1>1, IssuedDue DEF AnalyticsTypes
<1> HIDE DEF n
<1> QED
  BY <1>1, <1>2, <1>3, <1>4, <1>5, <1>6, <1>7, EffectsKeep DEF AnalyticsInv, Follows, Loads

LEMMA SelectPromptKeeps ==
    ASSUME AnalyticsInv, NEW q \in ProjectPrompts, Ana!SelectPrompt(q)
    PROVE  AnalyticsInv'
<1> DEFINE v == [s1 EXCEPT !.selected = q]
<1>1. AnalyticsTypes
  BY DEF AnalyticsInv
<1>2. /\ v \in AnalyticsPage /\ v.project = s1.project /\ v.prompts = s1.prompts
      /\ v.rankings = s1.rankings /\ v.trends = s1.trends
      /\ v.loadingRankings = s1.loadingRankings /\ v.trendLoading = s1.trendLoading
  BY <1>1 DEF AnalyticsTypes, AnalyticsPage, AnalyticsArgs
<1>3. Ana!DisplayEffects(v, s2)
  BY DEF Ana!SelectPrompt
<1>4. /\ s3' \in AnalyticsPast /\ s3'.lost = s3.lost /\ s3'.prompts = s3.prompts
      /\ s3'.rankings = s3.rankings /\ s3'.trends = s3.trends
  BY <1>1 DEF Ana!SelectPrompt, Ana!Changing, AnalyticsPast, AnalyticsTypes
<1> HIDE DEF v
<1>5. s2 \in Seq(AnalyticsCalls)
  BY <1>1 DEF AnalyticsTypes
<1> QED
  BY <1>1, <1>2, <1>3, <1>4, <1>5, EffectsKeep DEF AnalyticsInv, Follows

\* Of the calls of op the one that leaves is not the one to come.
LEMMA LoadsStays ==
    ASSUME NEW n \in Seq(AnalyticsCalls), NEW i \in DOMAIN n, NEW op, NEW arg, NEW done,
           Loads(n, op, arg, done), n[i].op # op
    PROVE  Loads(Finish(n, i), op, arg, done)
BY AnalyticsNet, LeftDue DEF Loads

\* The answer of one of its calls: the newest brings what is asked for, an older one
\* tells that it is late.
LEMMA LoadsAnswer ==
    ASSUME NEW n \in Seq(AnalyticsCalls), NEW i \in DOMAIN n, NEW arg, NEW done,
           Loads(n, n[i].op, arg, done)
    PROVE  Loads(Finish(n, i), n[i].op, arg, Newest(n, i) => n[i].arg = arg)
BY AnalyticsNet, LeftDue DEF Loads

LEMMA PromptsLoadedKeeps ==
    ASSUME AnalyticsInv, NEW i \in DOMAIN s2, Ana!PromptsLoaded(i)
    PROVE  AnalyticsInv'
<1> DEFINE p == s2[i].arg
           v == [s1 EXCEPT !.prompts = PromptsOf[p]]
           n == Finish(s2, i)
           newest == Newest(s2, i)
<1>1. AnalyticsTypes /\ s2[i].op = "prompts" /\ s2 \in Seq(AnalyticsCalls)
  BY DEF AnalyticsInv, AnalyticsTypes, Ana!PromptsLoaded
<1>2. p \in Ana!Projects
  BY <1>1, AnalyticsNet DEF AnalyticsCalls
<1>3. /\ v \in AnalyticsPage /\ v.project = s1.project /\ v.prompts = PromptsOf[p]
      /\ v.rankings = s1.rankings /\ v.trends = s1.trends
      /\ v.loadingRankings = s1.loadingRankings /\ v.trendLoading = s1.trendLoading
  BY <1>1, <1>2 DEF AnalyticsTypes, AnalyticsPage
<1>4. Ana!DisplayEffects(v, n)
  BY Zenon DEF Ana!PromptsLoaded, Ana!Finish, Ana!RemoveAt, Finish, RemoveAt
<1>5. s3' = [s3 EXCEPT !.prompts = newest]
  BY Zenon DEF Ana!PromptsLoaded, Ana!Newest, Newest
<1>6. newest \in BOOLEAN
  BY DEF Newest
<1>7. n \in Seq(AnalyticsCalls)
  BY <1>1, AnalyticsFinished
<1>8. /\ \A op, arg, done : Loads(s2, op, arg, done) /\ op # "prompts" => Loads(n, op, arg, done)
      /\ Flies(s2, "rankings") => Flies(n, "rankings")
      /\ Flies(s2, "trends") => Flies(n, "trends")
  BY <1>1, LoadsStays, AnalyticsNet, LeftDue
<1>9. \A arg, done : Loads(s2, "prompts", arg, done) =>
                       Loads(n, "prompts", arg, newest => p = arg)
  BY <1>1, LoadsAnswer
<1> HIDE DEF v, n, newest, p
<1>10. /\ s3' \in AnalyticsPast /\ s3'.lost = s3.lost /\ s3'.prompts = newest
       /\ s3'.rankings = s3.rankings /\ s3'.trends = s3.trends
  BY <1>1, <1>5, <1>6 DEF AnalyticsPast, AnalyticsTypes
<1>11. ~s3.lost => Follows(s1, s2, s3)
  BY DEF AnalyticsInv
<1>12. ~s3.lost /\ v.project # "none" =>
         Loads(n, "prompts", v.project, s3'.prompts => v.prompts = PromptsOf[v.project])
  BY <1>3, <1>9, <1>10, <1>11 DEF Follows, Loads
<1>13. ~s3.lost /\ Ana!DisplayedPrompt(v) = Ana!DisplayedPrompt(s1)
                /\ Ana!DisplayedPrompt(v) # "none" =>
         /\ Loads(n, "rankings", Ana!DisplayedPrompt(v),
                  s3'.rankings => v.rankings = Ana!DisplayedPrompt(v))
         /\ Loads(n, "trends", Ana!DisplayedPrompt(v),
                  s3'.trends => v.trends = Ana!DisplayedPrompt(v))
  BY <1>3, <1>8, <1>10, <1>11 DEF Follows
<1> QED
  BY <1>1, <1>3, <1>4, <1>7, <1>8, <1>10, <1>11, <1>12, <1>13, EffectsKeep DEF Follows

\* An answer that neither changes the prompt displayed nor its project.
LEMMA ShownKeeps ==
    ASSUME AnalyticsInv, NEW i \in DOMAIN s2, NEW v \in AnalyticsPage, NEW past \in AnalyticsPast,
           s1' = v, s2' = Finish(s2, i), s3' = past,
           v.project = s1.project, v.prompts = s1.prompts, v.selected = s1.selected,
           \/ past.lost
           \/ /\ past.lost = s3.lost /\ past.prompts = s3.prompts
              /\ s2[i].op # "prompts"
              /\ IF s2[i].op = "rankings"
                 THEN /\ v.rankings = s2[i].arg /\ past.rankings = Newest(s2, i)
                      /\ ~v.loadingRankings
                 ELSE /\ v.rankings = s1.rankings /\ past.rankings = s3.rankings
                      /\ v.loadingRankings = s1.loadingRankings
              /\ IF s2[i].op = "trends"
                 THEN v.trends = s2[i].arg /\ past.trends = Newest(s2, i) /\ ~v.trendLoading
                 ELSE /\ v.trends = s1.trends /\ past.trends = s3.trends
                      /\ v.trendLoading = s1.trendLoading
    PROVE  AnalyticsInv'
<1> DEFINE n == Finish(s2, i)
           q == Ana!DisplayedPrompt(s1)
<1>1. s2 \in Seq(AnalyticsCalls)
  BY DEF AnalyticsInv, AnalyticsTypes
<1>2. n \in Seq(AnalyticsCalls)
  BY <1>1, AnalyticsFinished
<1>3. Ana!DisplayedPrompt(v) = q
  BY DEF Ana!DisplayedPrompt
<1>4. \A op, arg, done : Loads(s2, op, arg, done) =>
         /\ s2[i].op # op => Loads(n, op, arg, done)
         /\ s2[i].op = op => Loads(n, op, arg, Newest(s2, i) => s2[i].arg = arg)
  BY <1>1, LoadsStays, LoadsAnswer
<1>5. \A op : Flies(s2, op) /\ s2[i].op # op => Flies(n, op)
  BY <1>1, AnalyticsNet, LeftDue
<1> HIDE DEF n, q
<1>6. ASSUME ~past.lost PROVE Follows(v, n, past)
  <2>1. Follows(s1, s2, s3)
    BY <1>6 DEF AnalyticsInv
  <2>2. v.project # "none" =>
          Loads(n, "prompts", v.project, past.prompts => v.prompts = PromptsOf[v.project])
    BY <1>4, <1>6, <2>1 DEF Follows
  <2>3. q # "none" => Loads(n, "rankings", q, past.rankings => v.rankings = q)
    <3>1. CASE s2[i].op = "rankings"
      BY <1>3, <1>4, <1>6, <2>1, <3>1 DEF Follows, q
    <3>2. CASE s2[i].op # "rankings"
      BY <1>3, <1>4, <1>6, <2>1, <3>2 DEF Follows, q
    <3> QED
      BY <3>1, <3>2
  <2>4. q # "none" => Loads(n, "trends", q, past.trends => v.trends = q)
    <3>1. CASE s2[i].op = "trends"
      BY <1>3, <1>4, <1>6, <2>1, <3>1 DEF Follows, q
    <3>2. CASE s2[i].op # "trends"
      BY <1>3, <1>4, <1>6, <2>1, <3>2 DEF Follows, q
    <3> QED
      BY <3>1, <3>2
  <2>5. /\ v.loadingRankings => Flies(n, "rankings")
        /\ v.trendLoading => Flies(n, "trends")
    BY <1>5, <1>6, <2>1 DEF Follows
  <2> QED
    BY <1>3, <2>2, <2>3, <2>4, <2>5 DEF Follows
<1> QED
  BY <1>2, <1>6 DEF AnalyticsInv, AnalyticsTypes, n

LEMMA AnalyticsAnswersKeep ==
    ASSUME AnalyticsInv, NEW i \in DOMAIN s2,
           \/ Ana!ProjectsLoaded(i) \/ Ana!RankingsLoaded(i) \/ Ana!TrendsLoaded(i)
           \/ Ana!CallFails(i)
    PROVE  AnalyticsInv'
<1> DEFINE newest == Newest(s2, i)
           arg == s2[i].arg
<1>1. AnalyticsTypes /\ s2[i] \in AnalyticsCalls
  BY AnalyticsNet DEF AnalyticsInv, AnalyticsTypes
<1>2. s2' = Finish(s2, i)
  BY DEF Ana!ProjectsLoaded, Ana!RankingsLoaded, Ana!TrendsLoaded, Ana!CallFails, Ana!Finish,
         Ana!RemoveAt, Finish, RemoveAt
<1>3. newest \in BOOLEAN /\ arg \in AnalyticsArgs
  BY <1>1 DEF Newest, AnalyticsCalls, CallsOf
<1>4. Ana!Newest(s2, i) = newest
  BY DEF Newest, Ana!Newest
<1> HIDE DEF newest
<1>5. CASE Ana!ProjectsLoaded(i)
  <2> DEFINE v == [s1 EXCEPT !.projects = TRUE, !.loading = FALSE]
  <2>1. s1' = v /\ s3' = s3 /\ s2[i].op = "projects"
    BY <1>5, Zenon DEF Ana!ProjectsLoaded
  <2>2. /\ v \in AnalyticsPage /\ v.project = s1.project /\ v.prompts = s1.prompts
        /\ v.selected = s1.selected /\ v.rankings = s1.rankings /\ v.trends = s1.trends
        /\ v.loadingRankings = s1.loadingRankings /\ v.trendLoading = s1.trendLoading
    BY <1>1 DEF AnalyticsTypes, AnalyticsPage
  <2> HIDE DEF v
  <2> QED
    BY <1>1, <1>2, <2>1, <2>2, ShownKeeps DEF AnalyticsTypes
<1>6. CASE Ana!RankingsLoaded(i)
  <2> DEFINE v == [s1 EXCEPT !.rankings = arg, !.loadingRankings = FALSE]
             past == [s3 EXCEPT !.rankings = newest]
  <2>1. s1' = v /\ s3' = past /\ s2[i].op = "rankings"
    BY <1>4, <1>6, Zenon DEF Ana!RankingsLoaded
  <2> HIDE DEF arg
  <2>2. /\ v \in AnalyticsPage /\ v.project = s1.project /\ v.prompts = s1.prompts
        /\ v.selected = s1.selected /\ v.rankings = arg /\ v.trends = s1.trends
        /\ ~v.loadingRankings /\ v.trendLoading = s1.trendLoading
    BY <1>1, <1>3 DEF AnalyticsTypes, AnalyticsPage
  <2>3. /\ past \in AnalyticsPast /\ past.lost = s3.lost /\ past.prompts = s3.prompts
        /\ past.rankings = newest /\ past.trends = s3.trends
    BY <1>1, <1>3 DEF AnalyticsTypes, AnalyticsPast
  <2> HIDE DEF v, past
  <2> QED
    BY <1>2, <2>1, <2>2, <2>3, ShownKeeps DEF arg, newest
<1>7. CASE Ana!TrendsLoaded(i)
  <2> DEFINE v == [s1 EXCEPT !.trends = arg, !.trendLoading = FALSE]
             past == [s3 EXCEPT !.trends = newest]
  <2>1. s1' = v /\ s3' = past /\ s2[i].op = "trends"
    BY <1>4, <1>7, Zenon DEF Ana!TrendsLoaded
  <2> HIDE DEF arg
  <2>2. /\ v \in AnalyticsPage /\ v.project = s1.project /\ v.prompts = s1.prompts
        /\ v.selected = s1.selected /\ v.trends = arg /\ v.rankings = s1.rankings
        /\ ~v.trendLoading /\ v.loadingRankings = s1.loadingRankings
    BY <1>1, <1>3 DEF AnalyticsTypes, AnalyticsPage
  <2>3. /\ past \in AnalyticsPast /\ past.lost = s3.lost /\ past.prompts = s3.prompts
        /\ past.trends = newest /\ past.rankings = s3.rankings
    BY <1>1, <1>3 DEF AnalyticsTypes, AnalyticsPast
  <2> HIDE DEF v, past
  <2> QED
    BY <1>2, <2>1, <2>2, <2>3, ShownKeeps DEF arg, newest
<1>8. CASE Ana!CallFails(i)
  <2> DEFINE past == [s3 EXCEPT !.lost = TRUE]
  <2>1. s2[i].op \in {"projects", "prompts", "rankings", "trends"}
    BY <1>1 DEF AnalyticsCalls, CallsOf
  <2>2. \/ s1' = [s1 EXCEPT !.loading = FALSE, !.error = TRUE]
        \/ s1' = [s1 EXCEPT !.error = TRUE]
        \/ s1' = [s1 EXCEPT !.loadingRankings = FALSE, !.error = TRUE]
        \/ s1' = [s1 EXCEPT !.trendLoading = FALSE, !.trends = "none"]
    BY <1>8, <2>1 DEF Ana!CallFails, Ana!NoPrompt
  <2>3. /\ s1' \in AnalyticsPage /\ s1'.project = s1.project /\ s1'.prompts = s1.prompts
        /\ s1'.selected = s1.selected
    BY <1>1, <2>2 DEF AnalyticsTypes, AnalyticsPage, AnalyticsArgs
  <2>4. s3' = past /\ past \in AnalyticsPast /\ past.lost
    BY <1>1, <1>8 DEF Ana!CallFails, AnalyticsTypes, AnalyticsPast
  <2> QED
    BY <1>2, <2>3, <2>4, ShownKeeps
<1> QED
  BY <1>5, <1>6, <1>7, <1>8

LEMMA AnalyticsKeeps == AnalyticsInv /\ [Ana!Next]_(Ana!vars) => AnalyticsInv'
<1> SUFFICES ASSUME AnalyticsInv, [Ana!Next]_(Ana!vars) PROVE AnalyticsInv'
  OBVIOUS
<1>1. CASE UNCHANGED Ana!vars
  BY <1>1 DEF Ana!vars, AnalyticsInv, AnalyticsTypes
<1> QED
  BY <1>1, SelectProjectKeeps, SelectPromptKeeps, PromptsLoadedKeeps, AnalyticsAnswersKeep
     DEF Ana!Next, Ana!AnalyticsPage, ProjectPrompts

\* When all calls were answered, none failed, and those made last came last, the list of
\* prompts, the rankings and the trends are those of the project and the prompt that are
\* selected, through any choices made while answers were on their way (analytics/index.tsx).
THEOREM DisplayedPromptRankedHolds == Spec => []DisplayedPromptRanked
<1> DEFINE Inv == mounted = "analytics" => AnalyticsInv
<1>1. Init => Inv
  BY BeginsWithPart, AnalyticsBegins
<1>2. Inv /\ [Next]_vars => Inv'
  BY StepOfPart, AnalyticsKeeps
<1>3. AnalyticsInv => Ana!DisplayedPromptRanked
  <2> SUFFICES ASSUME AnalyticsInv, s2 = <<>>, ~s3.lost, s3.prompts, s1.project # "none"
               PROVE  /\ s1.prompts = PromptsOf[s1.project]
                      /\ LET q == Ana!DisplayedPrompt(s1)
                         IN q # "none" => /\ s3.rankings => s1.rankings = q
                                          /\ s3.trends => s1.trends = q
                      /\ ~s1.loadingRankings /\ ~s1.trendLoading
    BY Zenon DEF Ana!DisplayedPromptRanked, Ana!NoPrompt
  <2>1. \A op, arg : ~Due(s2, op, arg) /\ ~Flies(s2, op)
    BY DEF Due, Flies
  <2> QED
    BY <2>1 DEF AnalyticsInv, Follows, Loads
<1>4. Inv => DisplayedPromptRanked
  BY <1>3 DEF DisplayedPromptRanked
<1> QED
  BY <1>1, <1>2, <1>4, PTL DEF Spec

(***************************************************************************)
(* Prompt                                                                  *)
(***************************************************************************)
SomePrompt == Prm!AllPrompts \cup {"none"}

PromptPage ==
    [loading : BOOLEAN, project : Prm!Projects \cup {"none"}, prompt : SomePrompt,
     all : SomePrompt, tablePrompt : SomePrompt,
     chart : [prompt : SomePrompt, filter : Prm!Filters], filter : Prm!Filters,
     dateError : BOOLEAN, trendLoading : BOOLEAN,
     lists : [PagedLists -> [prompt : SomePrompt, rows : Nat, page : Nat, total : Nat,
                             loading : BOOLEAN]],
     ranked : SomePrompt \X Nat, rankingPage : Nat, history : SomePrompt,
     historyLoading : BOOLEAN, projectChanging : BOOLEAN]

PromptAddress ==
    [project : Prm!Projects, prompt : Prm!AllPrompts, query : Prm!Filters \cup {Prm!NoQuery}]

PromptPast == [busy : BOOLEAN, lost : BOOLEAN, moves : Nat]

\* The page is all about the prompt of the address.
ShowsPrompt(v, a) ==
    /\ v.project = a.project /\ v.prompt = a.prompt /\ v.all = a.prompt
    /\ v.tablePrompt = a.prompt /\ v.chart.prompt = a.prompt
    /\ \A s \in PagedLists : v.lists[s].prompt = a.prompt

FilteredAs(v, a) ==
    v.chart.filter = IF a.query = Prm!NoQuery
                     THEN Prm!Unfiltered(DefaultModel[a.prompt]) ELSE a.query

\* The call that a user who waits has in flight is for the prompt of the address.
ForPrompt(op, arg, v, a) ==
    \/ /\ op = "fetch" /\ arg = [project |-> a.project, prompt |-> a.prompt]
       /\ a.query = Prm!NoQuery
    \/ /\ op = "ranked" /\ arg \in [prompt : {a.prompt}, filter : Prm!Filters]
       /\ ShowsPrompt(v, a) /\ v.chart = arg
    \/ /\ ShowsPrompt(v, a) /\ FilteredAs(v, a)
       /\ \/ op = "page" /\ arg \in [section : PagedLists, prompt : {a.prompt}, page : Nat]
          \/ op = "rankPage" /\ arg \in {a.prompt} \X Nat
          \/ op = "history" /\ arg = a.prompt
          \/ op = "projectPrompts" /\ arg \in Prm!Projects \ {a.project}
          \/ op = "trends" /\ arg \in [prompt : {a.prompt}, filter : Prm!Filters]

Waiting(v, n, a) ==
    /\ v \in PromptPage /\ a \in PromptAddress /\ a.prompt \in Prm!PromptsIn(a.project)
    /\ \/ n = <<>> /\ ShowsPrompt(v, a) /\ FilteredAs(v, a)
       \/ \E op, arg : n = <<Call(op, arg)>> /\ ForPrompt(op, arg, v, a)

PromptInv == s4 \in PromptPast /\ (~s4.busy /\ ~s4.lost => Waiting(s1, s2, s3))

LEMMA PromptConstants ==
    /\ \A p \in Prm!Projects : PromptsOf[p] \in Seq(Prm!PromptsIn(p))
    /\ \A p \in Prm!Projects : Prm!PromptsIn(p) \subseteq Prm!AllPrompts
    /\ \A q \in Prm!AllPrompts : /\ DefaultModel[q] \in Models \cup {"none"}
                                 /\ Prm!Unfiltered(DefaultModel[q]) \in Prm!Filters
                                 /\ ListPages[q] \in Nat
    /\ Prm!Unfiltered("none") \in Prm!Filters
    /\ Prm!NoQuery \notin Prm!Filters
<1>1. Prm!AnalyticsParameters
  BY FrontendParameters
<1>2. ASSUME NEW m \in Models \cup {"none"} PROVE Prm!Unfiltered(m) \in Prm!Filters
  BY DEF Prm!Unfiltered, Prm!Filters
<1>3. \A p \in Prm!Projects : Prm!PromptsIn(p) \subseteq Prm!AllPrompts
  BY DEF Prm!AllPrompts
<1> QED
  BY <1>1, <1>2, <1>3 DEF Prm!AnalyticsParameters

LEMMA PromptBegins == Prm!Init => PromptInv
<1> SUFFICES ASSUME Prm!Init PROVE PromptInv
  OBVIOUS
<1>0. PICK p \in Prm!Projects : \E q \in Prm!PromptsIn(p) :
         /\ s3 = [project |-> p, prompt |-> q, query |-> Prm!NoQuery]
         /\ s2 = Prm!Issue(<<>>, "fetch", [project |-> p, prompt |-> q])
  BY DEF Prm!Init
<1>1. PICK q \in Prm!PromptsIn(p) :
         /\ s3 = [project |-> p, prompt |-> q, query |-> Prm!NoQuery]
         /\ s2 = Prm!Issue(<<>>, "fetch", [project |-> p, prompt |-> q])
  BY <1>0
<1>2. s2 = <<Call("fetch", [project |-> p, prompt |-> q])>>
  BY <1>1, OneCall DEF Prm!Issue, Prm!Call, Issue, Call
<1>3. q \in Prm!AllPrompts
  BY PromptConstants
<1>4. s3 \in PromptAddress /\ s3.prompt \in Prm!PromptsIn(s3.project)
  BY <1>1, <1>3 DEF PromptAddress
<1>5. ForPrompt("fetch", [project |-> p, prompt |-> q], s1, s3)
  BY <1>1 DEF ForPrompt
<1>6. s1 \in PromptPage
  BY PromptConstants DEF Prm!Init, Prm!AnalyticsState, Prm!NoChart, Prm!EmptyList, PromptPage, SomePrompt
<1>7. s4 \in PromptPast
  BY DEF Prm!Init, PromptPast
<1> QED
  BY <1>2, <1>4, <1>5, <1>6, <1>7 DEF PromptInv, Waiting

\* The page is still about the prompt when a handler changed nothing of that.
LEMMA PromptStays ==
    ASSUME NEW v, NEW w, NEW a, ShowsPrompt(v, a), FilteredAs(v, a),
           w.project = v.project, w.prompt = v.prompt, w.all = v.all,
           w.tablePrompt = v.tablePrompt, w.chart = v.chart,
           \A s \in PagedLists : w.lists[s].prompt = v.lists[s].prompt
    PROVE  ShowsPrompt(w, a) /\ FilteredAs(w, a)
BY DEF ShowsPrompt, FilteredAs

\* The user acts: one who waits does so when nothing is in flight.
LEMMA PromptActed ==
    ASSUME PromptInv, s4' = Prm!Acted \/ s4' = [Prm!Acted EXCEPT !.moves = @ + 1],
           s2 = <<>> /\ Waiting(s1, s2, s3) => Waiting(s1', s2', s3')
    PROVE  PromptInv'
<1> DEFINE b == s4.busy \/ s2 # <<>>
           past == [s4 EXCEPT !.busy = b]
<1>1. s4 \in PromptPast /\ b \in BOOLEAN
  BY DEF PromptInv, PromptPast
<1>2. s4' = past \/ s4' = [past EXCEPT !.moves = @ + 1]
  BY DEF Prm!Acted
<1> HIDE DEF b
<1>3. past \in PromptPast /\ past.lost = s4.lost /\ past.busy = b
  BY <1>1 DEF PromptPast
<1> HIDE DEF past
<1>4. s4' \in PromptPast /\ s4'.lost = s4.lost /\ s4'.busy = b
  BY <1>2, <1>3 DEF PromptPast
<1> QED
  BY <1>1, <1>4 DEF PromptInv, PromptPast, b

\* Setters of the page that leave the prompt alone.
LEMMA PromptSets ==
    ASSUME PromptInv, NEW w, Prm!Set(w),
           s1 \in PromptPage =>
               /\ w \in PromptPage /\ w.project = s1.project /\ w.prompt = s1.prompt
               /\ w.all = s1.all /\ w.tablePrompt = s1.tablePrompt /\ w.chart = s1.chart
               /\ w.lists = s1.lists
    PROVE  PromptInv'
<1>1. s1' = w /\ s2' = s2 /\ s3' = s3 /\ s4' = Prm!Acted
  BY DEF Prm!Set
<1>2. ASSUME s2 = <<>>, Waiting(s1, s2, s3) PROVE Waiting(w, s2, s3)
  <2>1. ShowsPrompt(s1, s3) /\ FilteredAs(s1, s3)
    BY <1>2 DEF Waiting
  <2>2. ShowsPrompt(w, s3) /\ FilteredAs(w, s3)
    BY <1>2, <2>1, PromptStays DEF Waiting
  <2> QED
    BY <1>2, <2>2 DEF Waiting
<1> QED
  BY <1>1, <1>2, PromptActed

\* A handler that makes a call for the prompt of the address.
LEMMA PromptCalls ==
    ASSUME PromptInv, NEW w, NEW op, NEW arg, Prm!SetAndCall(w, op, arg),
           s2 = <<>> /\ Waiting(s1, s2, s3) =>
               /\ w \in PromptPage /\ w.project = s1.project /\ w.prompt = s1.prompt
               /\ w.all = s1.all /\ w.tablePrompt = s1.tablePrompt /\ w.chart = s1.chart
               /\ \A s \in PagedLists : w.lists[s].prompt = s1.lists[s].prompt
               /\ \/ op = "page" /\ arg \in [section : PagedLists, prompt : {s3.prompt}, page : Nat]
                  \/ op = "rankPage" /\ arg \in {s3.prompt} \X Nat
                  \/ op = "history" /\ arg = s3.prompt
                  \/ op = "projectPrompts" /\ arg \in Prm!Projects \ {s3.project}
                  \/ op = "trends" /\ arg \in [prompt : {s3.prompt}, filter : Prm!Filters]
    PROVE  PromptInv'
<1>1. s1' = w /\ s2' = Issue(s2, op, arg) /\ s3' = s3 /\ s4' = Prm!Acted
  BY DEF Prm!SetAndCall, Prm!Issue, Prm!Call, Issue, Call
<1>2. ASSUME s2 = <<>>, Waiting(s1, s2, s3) PROVE Waiting(w, s2', s3)
  <2>1. ShowsPrompt(s1, s3) /\ FilteredAs(s1, s3)
    BY <1>2 DEF Waiting
  <2>2. ShowsPrompt(w, s3) /\ FilteredAs(w, s3)
    BY <1>2, <2>1, PromptStays
  <2>3. ForPrompt(op, arg, w, s3)
    BY <1>2, <2>2 DEF ForPrompt
  <2>4. s2' = <<Call(op, arg)>>
    BY <1>1, <1>2, OneCall
  <2> QED
    BY <1>2, <2>3, <2>4 DEF Waiting
<1> QED
  BY <1>1, <1>2, PromptActed

LEMMA PromptCardsKeep ==
    ASSUME PromptInv,
           \/ \E s \in PagedLists : Prm!LoadPage(s)
           \/ Prm!RankPage \/ Prm!LoadPromptHistory
           \/ \E f \in Prm!Filters : Prm!ChooseFilter(f)
           \/ Prm!ApplyTrendFilters
           \/ \E p \in Prm!Projects : Prm!ChangeReportProject(p)
    PROVE  PromptInv'
<1>1. ASSUME NEW s \in PagedLists, Prm!LoadPage(s) PROVE PromptInv'
  <2> DEFINE w == [s1 EXCEPT !.lists[s].loading = TRUE]
  <2>1. PICK k \in {s1.lists[s].page - 1, s1.lists[s].page + 1} \cap 1 .. s1.lists[s].total :
           Prm!SetAndCall(w, "page", [section |-> s, prompt |-> s3.prompt, page |-> k])
    BY <1>1 DEF Prm!LoadPage
  <2>2. ASSUME Waiting(s1, s2, s3)
        PROVE  /\ w \in PromptPage /\ w.project = s1.project /\ w.prompt = s1.prompt
               /\ w.all = s1.all /\ w.tablePrompt = s1.tablePrompt /\ w.chart = s1.chart
               /\ \A t \in PagedLists : w.lists[t].prompt = s1.lists[t].prompt
               /\ k \in Nat
    <3>1. s1 \in PromptPage
      BY <2>2 DEF Waiting
    <3> DEFINE row == [s1.lists[s] EXCEPT !.loading = TRUE]
               rows == [s1.lists EXCEPT ![s] = row]
    <3>2. /\ s1.lists[s].total \in Nat
          /\ row \in [prompt : SomePrompt, rows : Nat, page : Nat, total : Nat, loading : BOOLEAN]
          /\ row.prompt = s1.lists[s].prompt
      BY <3>1 DEF PromptPage
    <3>3. w = [s1 EXCEPT !.lists = rows]
      OBVIOUS
    <3> HIDE DEF row
    <3>4. /\ rows \in [PagedLists -> [prompt : SomePrompt, rows : Nat, page : Nat, total : Nat,
                                      loading : BOOLEAN]]
          /\ \A t \in PagedLists : rows[t].prompt = s1.lists[t].prompt
      BY <3>1, <3>2 DEF PromptPage
    <3> HIDE DEF rows, w
    <3>5. /\ w \in PromptPage /\ w.project = s1.project /\ w.prompt = s1.prompt
          /\ w.all = s1.all /\ w.tablePrompt = s1.tablePrompt /\ w.chart = s1.chart
          /\ w.lists = rows
      BY <3>1, <3>3, <3>4 DEF PromptPage
    <3>6. k \in Nat
      BY <2>1, <3>2
    <3> QED
      BY <3>4, <3>5, <3>6
  <2> HIDE DEF w
  <2> QED
    BY <2>1, <2>2, PromptCalls
<1>2. CASE Prm!RankPage
  <2>1. PICK k \in {s1.rankingPage - 1, s1.rankingPage + 1} \cap 1 .. ListPages[s1.ranked[1]] :
           s1.ranked[1] # "none" /\ Prm!SetAndCall(s1, "rankPage", <<s3.prompt, k>>)
    BY <1>2 DEF Prm!RankPage
  <2>2. ASSUME Waiting(s1, s2, s3) PROVE k \in Nat /\ s1 \in PromptPage
    <3>1. s1 \in PromptPage
      BY <2>2 DEF Waiting
    <3>2. s1.ranked[1] \in Prm!AllPrompts
      BY <2>1, <3>1 DEF PromptPage, SomePrompt
    <3> QED
      BY <3>1, <3>2, PromptConstants
  <2> QED
    BY <2>1, <2>2, PromptCalls
<1>3. CASE Prm!LoadPromptHistory
  <2> DEFINE w == [s1 EXCEPT !.historyLoading = TRUE]
  <2>1. Prm!SetAndCall(w, "history", s3.prompt)
    BY <1>3 DEF Prm!LoadPromptHistory
  <2>2. ASSUME s1 \in PromptPage
        PROVE  /\ w \in PromptPage /\ w.project = s1.project /\ w.prompt = s1.prompt
               /\ w.all = s1.all /\ w.tablePrompt = s1.tablePrompt /\ w.chart = s1.chart
               /\ w.lists = s1.lists
    BY <2>2 DEF PromptPage
  <2> HIDE DEF w
  <2> QED
    BY <2>1, <2>2, PromptCalls DEF Waiting
<1>4. ASSUME NEW f \in Prm!Filters, Prm!ChooseFilter(f) PROVE PromptInv'
  <2> DEFINE w == [s1 EXCEPT !.filter = f]
  <2>1. Prm!Set(w)
    BY <1>4 DEF Prm!ChooseFilter
  <2>2. ASSUME s1 \in PromptPage
        PROVE  /\ w \in PromptPage /\ w.project = s1.project /\ w.prompt = s1.prompt
               /\ w.all = s1.all /\ w.tablePrompt = s1.tablePrompt /\ w.chart = s1.chart
               /\ w.lists = s1.lists
    BY <2>2 DEF PromptPage
  <2> HIDE DEF w
  <2> QED
    BY <2>1, <2>2, PromptSets
<1>5. CASE Prm!ApplyTrendFilters
  <2> DEFINE w == [s1 EXCEPT !.dateError = TRUE]
             x == [s1 EXCEPT !.dateError = FALSE, !.trendLoading = TRUE]
  <2>1. \/ Prm!Set(w)
        \/ Prm!SetAndCall(x, "trends", [prompt |-> s3.prompt, filter |-> s1.filter])
    BY <1>5 DEF Prm!ApplyTrendFilters
  <2>2. ASSUME s1 \in PromptPage
        PROVE  /\ w \in PromptPage /\ w.project = s1.project /\ w.prompt = s1.prompt
               /\ w.all = s1.all /\ w.tablePrompt = s1.tablePrompt /\ w.chart = s1.chart
               /\ w.lists = s1.lists
               /\ x \in PromptPage /\ x.project = s1.project /\ x.prompt = s1.prompt
               /\ x.all = s1.all /\ x.tablePrompt = s1.tablePrompt /\ x.chart = s1.chart
               /\ x.lists = s1.lists
               /\ s1.filter \in Prm!Filters
    BY <2>2 DEF PromptPage
  <2> HIDE DEF w, x
  <2>3. CASE Prm!Set(w)
    BY <2>2, <2>3, PromptSets
  <2>4. CASE Prm!SetAndCall(x, "trends", [prompt |-> s3.prompt, filter |-> s1.filter])
    BY <2>2, <2>4, PromptCalls DEF Waiting
  <2> QED
    BY <2>1, <2>3, <2>4
<1>6. ASSUME NEW p \in Prm!Projects, Prm!ChangeReportProject(p) PROVE PromptInv'
  <2> DEFINE w == [s1 EXCEPT !.projectChanging = TRUE]
  <2>1. Prm!SetAndCall(w, "projectPrompts", p) /\ p # s3.project
    BY <1>6 DEF Prm!ChangeReportProject
  <2>2. ASSUME s1 \in PromptPage
        PROVE  /\ w \in PromptPage /\ w.project = s1.project /\ w.prompt = s1.prompt
               /\ w.all = s1.all /\ w.tablePrompt = s1.tablePrompt /\ w.chart = s1.chart
               /\ w.lists = s1.lists
    BY <2>2 DEF PromptPage
  <2> HIDE DEF w
  <2> QED
    BY <2>1, <2>2, PromptCalls DEF Waiting
<1> QED
  BY <1>1, <1>2, <1>3, <1>4, <1>5, <1>6

\* The chart of the prompt shown, without a filter in the address either.
LEMMA PromptCleared ==
    ASSUME PromptInv, Prm!ClearTrendFilters
    PROVE  PromptInv'
<1> DEFINE w == [s1 EXCEPT !.filter = Prm!Unfiltered(DefaultModel[s1.all]),
                           !.dateError = FALSE, !.chart = Prm!DefaultChart(s1.all)]
           a == [s3 EXCEPT !.query = Prm!NoQuery]
<1>1. s1' = w /\ s3' = a /\ s2' = s2 /\ s4' = Prm!Acted /\ s1.all # "none"
  BY DEF Prm!ClearTrendFilters, Prm!HasTrends
<1>2. ASSUME s2 = <<>>, Waiting(s1, s2, s3) PROVE Waiting(w, s2, a)
  <2>1. s1 \in PromptPage /\ s3 \in PromptAddress /\ ShowsPrompt(s1, s3)
    BY <1>2 DEF Waiting
  <2>2. s1.all \in Prm!AllPrompts /\ s1.all = s3.prompt
    BY <1>1, <2>1 DEF PromptPage, SomePrompt, ShowsPrompt
  <2>3. /\ Prm!Unfiltered(DefaultModel[s1.all]) \in Prm!Filters
        /\ Prm!DefaultChart(s1.all) = [prompt |-> s1.all,
                                       filter |-> Prm!Unfiltered(DefaultModel[s1.all])]
    BY <2>2, PromptConstants DEF Prm!DefaultChart
  <2>4. /\ w \in PromptPage /\ w.project = s1.project /\ w.prompt = s1.prompt
        /\ w.all = s1.all /\ w.tablePrompt = s1.tablePrompt /\ w.lists = s1.lists
        /\ w.chart.prompt = s1.all /\ w.chart.filter = Prm!Unfiltered(DefaultModel[s1.all])
    <3> DEFINE g == Prm!Unfiltered(DefaultModel[s1.all])
               chart == Prm!DefaultChart(s1.all)
    <3>1. g \in Prm!Filters /\ chart = [prompt |-> s1.all, filter |-> g] /\ s1.all \in SomePrompt
      BY <2>2, <2>3 DEF SomePrompt
    <3>2. w = [s1 EXCEPT !.filter = g, !.dateError = FALSE, !.chart = chart]
      OBVIOUS
    <3> HIDE DEF g, chart, w
    <3>3. chart \in [prompt : SomePrompt, filter : Prm!Filters]
      BY <3>1
    <3>4. /\ w \in PromptPage /\ w.project = s1.project /\ w.prompt = s1.prompt
          /\ w.all = s1.all /\ w.tablePrompt = s1.tablePrompt /\ w.lists = s1.lists
          /\ w.chart = chart
      BY <2>1, <3>1, <3>2, <3>3 DEF PromptPage
    <3> QED
      BY <3>1, <3>4 DEF g
  <2>5. /\ a \in PromptAddress /\ a.project = s3.project /\ a.prompt = s3.prompt
        /\ a.query = Prm!NoQuery
    BY <2>1 DEF PromptAddress
  <2> HIDE DEF w, a
  <2>6. ShowsPrompt(w, a) /\ FilteredAs(w, a)
    BY <2>1, <2>2, <2>4, <2>5 DEF ShowsPrompt, FilteredAs
  <2> QED
    BY <1>2, <2>4, <2>5, <2>6 DEF Waiting
<1> QED
  BY <1>1, <1>2, PromptActed

\* A new address, whose prompt is fetched.
LEMMA PromptGoes ==
    ASSUME NEW p \in Prm!Projects, NEW q \in Prm!PromptsIn(p),
           <<p, q>> # <<s3.project, s3.prompt>>, Prm!Go(p, q, <<>>), s1' \in PromptPage
    PROVE  Waiting(s1', s2', s3')
<1>1. s3' = [project |-> p, prompt |-> q, query |-> Prm!NoQuery]
  BY DEF Prm!Go
<1>2. s2' = <<Call("fetch", [project |-> p, prompt |-> q])>>
  BY OneCall DEF Prm!Go, Prm!Issue, Prm!Call, Issue, Call
<1>3. s3' \in PromptAddress
  BY <1>1, PromptConstants DEF PromptAddress
<1>4. ForPrompt("fetch", [project |-> p, prompt |-> q], s1', s3')
  BY <1>1 DEF ForPrompt
<1> QED
  BY <1>1, <1>2, <1>3, <1>4 DEF Waiting

LEMMA PromptChanged ==
    ASSUME PromptInv, NEW q, Prm!ChangePrompt(q)
    PROVE  PromptInv'
<1>1. /\ q \in Prm!PromptsIn(s1.project) /\ q # s1.tablePrompt /\ Prm!Go(s3.project, q, s2)
      /\ s4' = [Prm!Acted EXCEPT !.moves = @ + 1] /\ s1' = s1
  BY Zenon DEF Prm!ChangePrompt
<1>2. ASSUME s2 = <<>>, Waiting(s1, s2, s3) PROVE Waiting(s1', s2', s3')
  <2>1. ShowsPrompt(s1, s3) /\ s1 \in PromptPage /\ s3 \in PromptAddress
    BY <1>2 DEF Waiting
  <2>2. q \in Prm!PromptsIn(s3.project) /\ q # s3.prompt /\ s3.project \in Prm!Projects
    BY <1>1, <2>1 DEF ShowsPrompt, PromptAddress
  <2>3. Prm!Go(s3.project, q, <<>>)
    BY <1>1, <1>2
  <2> QED
    BY <1>1, <2>1, <2>2, <2>3, PromptGoes
<1> QED
  BY <1>1, <1>2, PromptActed

\* An answer that a user who waits gets is the one call's.
LEMMA PromptAnswered ==
    ASSUME PromptInv, NEW i \in DOMAIN s2, s4' \in PromptPast,
           s4'.busy = s4.busy, s4'.lost = s4.lost,
           \A arg : s2 = <<Call(s2[i].op, arg)>> /\ i = 1 /\ Waiting(s1, s2, s3)
                       /\ ForPrompt(s2[i].op, arg, s1, s3) /\ s2[i].arg = arg
                    => Waiting(s1', s2', s3')
    PROVE  PromptInv'
<1> SUFFICES ASSUME Waiting(s1, s2, s3) PROVE Waiting(s1', s2', s3')
  BY DEF PromptInv
<1>1. PICK op, arg : s2 = <<Call(op, arg)>> /\ ForPrompt(op, arg, s1, s3)
  BY DEF Waiting
<1>2. i = 1
  BY <1>1, OneCall
<1>3. s2[i].op = op /\ s2[i].arg = arg
  BY <1>1, <1>2 DEF Call
<1> QED
  BY <1>1, <1>2, <1>3

\* What the answer of a list, the ranks, the history or the selector leaves alone.
LEMMA PromptReceived ==
    ASSUME PromptInv, NEW i \in DOMAIN s2, NEW op \in {"page", "rankPage", "history"},
           NEW w, Prm!Received(op, i, w, Prm!Finish(s2, i)),
           s1 \in PromptPage /\ s3 \in PromptAddress /\ ForPrompt(op, s2[i].arg, s1, s3) =>
               /\ w \in PromptPage /\ w.project = s1.project /\ w.prompt = s1.prompt
               /\ w.all = s1.all /\ w.tablePrompt = s1.tablePrompt /\ w.chart = s1.chart
               /\ \A s \in PagedLists : w.lists[s].prompt \in {s1.lists[s].prompt, s3.prompt}
    PROVE  PromptInv'
<1>1. s2[i].op = op /\ s1' = w /\ s3' = s3 /\ s4' = s4 /\ s2' = Finish(s2, i)
  BY DEF Prm!Received, Prm!Finish, Prm!RemoveAt, Finish, RemoveAt
<1>2. ASSUME NEW arg, s2 = <<Call(op, arg)>>, i = 1, Waiting(s1, s2, s3),
             ForPrompt(op, arg, s1, s3), s2[i].arg = arg
      PROVE  Waiting(w, s2', s3)
  <2>1. ShowsPrompt(s1, s3) /\ FilteredAs(s1, s3)
    BY <1>2 DEF ForPrompt
  <2>2. s1 \in PromptPage /\ s3 \in PromptAddress
    BY <1>2 DEF Waiting
  <2>3. \A s \in PagedLists : s1.lists[s].prompt = s3.prompt
    BY <2>1 DEF ShowsPrompt
  <2>4. /\ w \in PromptPage /\ w.project = s1.project /\ w.prompt = s1.prompt
        /\ w.all = s1.all /\ w.tablePrompt = s1.tablePrompt /\ w.chart = s1.chart
        /\ \A s \in PagedLists : w.lists[s].prompt = s1.lists[s].prompt
    BY <1>2, <2>2, <2>3
  <2>5. ShowsPrompt(w, s3) /\ FilteredAs(w, s3)
    BY <2>1, <2>4, PromptStays
  <2>6. s2' = <<>>
    BY <1>1, <1>2, OneCall
  <2> QED
    BY <1>2, <2>4, <2>5, <2>6 DEF Waiting
<1>3. s4 \in PromptPast
  BY DEF PromptInv
<1> QED
  BY <1>1, <1>2, <1>3, PromptAnswered

LEMMA PromptListsAnswered ==
    ASSUME PromptInv, NEW i \in DOMAIN s2,
           Prm!PageLoaded(i) \/ Prm!RankPageLoaded(i) \/ Prm!PromptHistoryLoaded(i)
    PROVE  PromptInv'
<1> DEFINE arg == s2[i].arg
<1>1. CASE Prm!PageLoaded(i)
  <2> DEFINE row == [prompt |-> arg.prompt, rows |-> arg.page, page |-> arg.page,
                     total |-> ListPages[arg.prompt], loading |-> FALSE]
             w == [s1 EXCEPT !.lists[arg.section] = row]
  <2>1. Prm!Received("page", i, w, Prm!Finish(s2, i))
    BY <1>1 DEF Prm!PageLoaded
  <2>2. ASSUME s1 \in PromptPage, s3 \in PromptAddress, ForPrompt("page", arg, s1, s3)
        PROVE  /\ w \in PromptPage /\ w.project = s1.project /\ w.prompt = s1.prompt
               /\ w.all = s1.all /\ w.tablePrompt = s1.tablePrompt /\ w.chart = s1.chart
               /\ \A s \in PagedLists : w.lists[s].prompt \in {s1.lists[s].prompt, s3.prompt}
    <3> DEFINE rows == [s1.lists EXCEPT ![arg.section] = row]
    <3>1. arg \in [section : PagedLists, prompt : {s3.prompt}, page : Nat]
      BY <2>2 DEF ForPrompt
    <3>2. arg.section \in PagedLists /\ arg.prompt = s3.prompt /\ arg.page \in Nat
          /\ s3.prompt \in Prm!AllPrompts
      BY <2>2, <3>1 DEF PromptAddress
    <3>3. row \in [prompt : SomePrompt, rows : Nat, page : Nat, total : Nat, loading : BOOLEAN]
          /\ row.prompt = s3.prompt
      BY <3>2, PromptConstants DEF SomePrompt
    <3>4. w = [s1 EXCEPT !.lists = rows]
      OBVIOUS
    <3> HIDE DEF row, arg
    <3>5. /\ rows \in [PagedLists -> [prompt : SomePrompt, rows : Nat, page : Nat, total : Nat,
                                      loading : BOOLEAN]]
          /\ \A t \in PagedLists : rows[t].prompt \in {s1.lists[t].prompt, s3.prompt}
      BY <2>2, <3>2, <3>3 DEF PromptPage
    <3> HIDE DEF rows, w
    <3>6. /\ w \in PromptPage /\ w.project = s1.project /\ w.prompt = s1.prompt
          /\ w.all = s1.all /\ w.tablePrompt = s1.tablePrompt /\ w.chart = s1.chart
          /\ w.lists = rows
      BY <2>2, <3>4, <3>5 DEF PromptPage
    <3> QED
      BY <3>5, <3>6
  <2> HIDE DEF w
  <2> QED
    BY <2>1, <2>2, PromptReceived
<1>2. CASE Prm!RankPageLoaded(i)
  <2> DEFINE w == [s1 EXCEPT !.ranked = arg, !.rankingPage = arg[2]]
  <2>1. Prm!Received("rankPage", i, w, Prm!Finish(s2, i))
    BY <1>2 DEF Prm!RankPageLoaded
  <2>2. ASSUME s1 \in PromptPage, s3 \in PromptAddress, ForPrompt("rankPage", arg, s1, s3)
        PROVE  /\ w \in PromptPage /\ w.project = s1.project /\ w.prompt = s1.prompt
               /\ w.all = s1.all /\ w.tablePrompt = s1.tablePrompt /\ w.chart = s1.chart
               /\ w.lists = s1.lists
    <3>1. arg \in {s3.prompt} \X Nat /\ s3.prompt \in SomePrompt
      BY <2>2 DEF ForPrompt, PromptAddress, SomePrompt
    <3> HIDE DEF arg
    <3>2. arg \in SomePrompt \X Nat /\ arg[2] \in Nat
      BY <3>1
    <3> QED
      BY <2>2, <3>2 DEF PromptPage
  <2> HIDE DEF w
  <2> QED
    BY <2>1, <2>2, PromptReceived
<1>3. CASE Prm!PromptHistoryLoaded(i)
  <2> DEFINE w == [s1 EXCEPT !.history = arg, !.historyLoading = FALSE]
  <2>1. Prm!Received("history", i, w, Prm!Finish(s2, i))
    BY <1>3 DEF Prm!PromptHistoryLoaded
  <2>2. ASSUME s1 \in PromptPage, s3 \in PromptAddress, ForPrompt("history", arg, s1, s3)
        PROVE  /\ w \in PromptPage /\ w.project = s1.project /\ w.prompt = s1.prompt
               /\ w.all = s1.all /\ w.tablePrompt = s1.tablePrompt /\ w.chart = s1.chart
               /\ w.lists = s1.lists
    <3>1. arg \in SomePrompt
      BY <2>2 DEF ForPrompt, PromptAddress, SomePrompt
    <3> HIDE DEF arg
    <3> QED
      BY <2>2, <3>1 DEF PromptPage
  <2> HIDE DEF w
  <2> QED
    BY <2>1, <2>2, PromptReceived
<1> QED
  BY <1>1, <1>2, <1>3

\* Everything the page shows comes with the first fetch of a prompt.
LEMMA PromptFetched ==
    ASSUME PromptInv, NEW i \in DOMAIN s2, Prm!DataFetched(i)
    PROVE  PromptInv'
<1> DEFINE a == s2[i].arg
           w == Prm!FetchData(s1, a)
<1>1. /\ s2[i].op = "fetch" /\ s1' = w /\ s3' = s3 /\ s4' = s4 /\ s2' = Finish(s2, i)
  BY DEF Prm!DataFetched, Prm!Received, Prm!Finish, Prm!RemoveAt, Finish, RemoveAt
<1>2. ASSUME NEW arg, s2 = <<Call("fetch", arg)>>, i = 1, Waiting(s1, s2, s3),
             ForPrompt("fetch", arg, s1, s3), a = arg
      PROVE  Waiting(w, s2', s3)
  <2> DEFINE p == s3.project
             q == s3.prompt
             chart == Prm!DefaultChart(q)
             rows == [s \in PagedLists |-> [prompt |-> q, rows |-> 1, page |-> 1,
                                            total |-> ListPages[q],
                                            loading |-> s1.lists[s].loading]]
             ranks == <<q, 1>>
             model == DefaultModel[q]
             filter == [s1.filter EXCEPT !.model = model]
  <2>1. /\ s1 \in PromptPage /\ s3 \in PromptAddress /\ q \in Prm!PromptsIn(p)
        /\ p \in Prm!Projects /\ q \in Prm!AllPrompts
    BY <1>2 DEF Waiting, PromptAddress
  <2>2. a = [project |-> p, prompt |-> q] /\ s3.query = Prm!NoQuery
    BY <1>2 DEF ForPrompt
  <2>3. a.project = p /\ a.prompt = q
    BY <2>2
  <2>4. w = [s1 EXCEPT !.loading = FALSE, !.project = p, !.all = q, !.tablePrompt = q,
                       !.prompt = q, !.ranked = ranks, !.filter = filter, !.chart = chart,
                       !.lists = rows]
    <3>1. w = [s1 EXCEPT !.loading = FALSE, !.project = p, !.all = q, !.tablePrompt = q,
                         !.prompt = IF q \in Prm!PromptsIn(p) THEN q ELSE "none",
                         !.ranked = <<q, 1>>, !.filter.model = DefaultModel[q],
                         !.chart = Prm!DefaultChart(q),
                         !.lists = [s \in PagedLists |-> [prompt |-> q, rows |-> 1, page |-> 1,
                                            total |-> ListPages[q],
                                            loading |-> @[s].loading]]]
      BY <2>3, Zenon DEF Prm!FetchData
    <3> QED
      BY <2>1, <3>1
  <2>5. model \in Models \cup {"none"} /\ Prm!Unfiltered(model) \in Prm!Filters
        /\ ListPages[q] \in Nat /\ q \in SomePrompt
    BY <2>1, PromptConstants DEF SomePrompt
  <2>6. /\ chart \in [prompt : SomePrompt, filter : Prm!Filters] /\ chart.prompt = q
        /\ chart.filter = Prm!Unfiltered(model)
    BY <2>5 DEF Prm!DefaultChart
  <2>7. /\ rows \in [PagedLists -> [prompt : SomePrompt, rows : Nat, page : Nat, total : Nat,
                                    loading : BOOLEAN]]
        /\ \A s \in PagedLists : rows[s].prompt = q
    BY <2>1, <2>5 DEF PromptPage
  <2>8. filter \in Prm!Filters
    BY <2>1, <2>5 DEF PromptPage, Prm!Filters
  <2>9. ranks \in SomePrompt \X Nat
    BY <2>5
  <2> HIDE DEF a, w, chart, rows, ranks, model, filter, p, q
  <2>10. /\ w \in PromptPage /\ w.project = p /\ w.prompt = q /\ w.all = q
         /\ w.tablePrompt = q /\ w.chart = chart /\ w.lists = rows
    BY <2>1, <2>4, <2>5, <2>6, <2>7, <2>8, <2>9 DEF PromptPage
  <2>11. ShowsPrompt(w, s3) /\ FilteredAs(w, s3)
    BY <2>2, <2>6, <2>7, <2>10 DEF ShowsPrompt, FilteredAs, p, q, model
  <2>12. s2' = <<>>
    BY <1>1, <1>2, OneCall
  <2> QED
    BY <1>2, <2>10, <2>11, <2>12 DEF Waiting
<1>3. s4 \in PromptPast
  BY DEF PromptInv
<1> QED
  BY <1>1, <1>2, <1>3, PromptAnswered

\* The trends come, and then the ranks for the same filter, which the address gets.
LEMMA PromptFiltered ==
    ASSUME PromptInv, NEW i \in DOMAIN s2, Prm!TrendsFiltered(i) \/ Prm!RankingsFiltered(i)
    PROVE  PromptInv'
<1> DEFINE c == s2[i].arg
<1>1. s4 \in PromptPast /\ s4' = s4
  BY DEF PromptInv, Prm!TrendsFiltered, Prm!RankingsFiltered, Prm!Received
<1>2. CASE Prm!TrendsFiltered(i)
  <2> DEFINE w == [s1 EXCEPT !.chart = c]
  <2>1. s2[i].op = "trends" /\ s1' = w /\ s3' = s3 /\ s2' = Issue(Finish(s2, i), "ranked", c)
    BY <1>2 DEF Prm!TrendsFiltered, Prm!Received, Prm!Finish, Prm!RemoveAt, Finish, RemoveAt,
                Prm!Issue, Prm!Call, Issue, Call
  <2>2. ASSUME NEW arg, s2 = <<Call("trends", arg)>>, i = 1, Waiting(s1, s2, s3),
               ForPrompt("trends", arg, s1, s3), c = arg
        PROVE  Waiting(w, s2', s3)
    <3>1. s1 \in PromptPage /\ s3 \in PromptAddress /\ ShowsPrompt(s1, s3)
      BY <2>2 DEF Waiting, ForPrompt
    <3>2. arg \in [prompt : {s3.prompt}, filter : Prm!Filters]
      BY <2>2 DEF ForPrompt
    <3>3. arg \in [prompt : SomePrompt, filter : Prm!Filters] /\ arg.prompt = s3.prompt
      BY <3>1, <3>2 DEF PromptAddress, SomePrompt
    <3> HIDE DEF c
    <3>4. /\ w \in PromptPage /\ w.project = s1.project /\ w.prompt = s1.prompt
          /\ w.all = s1.all /\ w.tablePrompt = s1.tablePrompt /\ w.lists = s1.lists
          /\ w.chart = arg
      BY <2>2, <3>1, <3>3 DEF PromptPage
    <3> HIDE DEF w
    <3>5. ShowsPrompt(w, s3)
      BY <3>1, <3>3, <3>4 DEF ShowsPrompt
    <3>6. ForPrompt("ranked", arg, w, s3)
      BY <3>2, <3>4, <3>5 DEF ForPrompt
    <3>7. s2' = <<Call("ranked", arg)>>
      BY <2>1, <2>2, OneCall
    <3> QED
      BY <2>2, <3>4, <3>6, <3>7 DEF Waiting
  <2> QED
    BY <1>1, <2>1, <2>2, PromptAnswered
<1>3. CASE Prm!RankingsFiltered(i)
  <2> DEFINE ranks == <<c.prompt, 1>>
             w == [s1 EXCEPT !.ranked = ranks, !.rankingPage = 1, !.trendLoading = FALSE]
             a == [s3 EXCEPT !.query = c.filter]
  <2>1. s2[i].op = "ranked" /\ s1' = w /\ s3' = a /\ s2' = Finish(s2, i)
    BY <1>3 DEF Prm!RankingsFiltered, Prm!Finish, Prm!RemoveAt, Finish, RemoveAt
  <2>2. ASSUME NEW arg, s2 = <<Call("ranked", arg)>>, i = 1, Waiting(s1, s2, s3),
               ForPrompt("ranked", arg, s1, s3), c = arg
        PROVE  Waiting(w, s2', a)
    <3>1. /\ s1 \in PromptPage /\ s3 \in PromptAddress /\ ShowsPrompt(s1, s3)
          /\ s3.prompt \in Prm!PromptsIn(s3.project)
      BY <2>2 DEF Waiting, ForPrompt
    <3>2. arg \in [prompt : {s3.prompt}, filter : Prm!Filters] /\ s1.chart = arg
      BY <2>2 DEF ForPrompt
    <3>3. c.prompt = s3.prompt /\ c.filter \in Prm!Filters /\ c.filter # Prm!NoQuery
      BY <2>2, <3>2, PromptConstants
    <3>4. ranks \in SomePrompt \X Nat
      BY <3>1, <3>3 DEF PromptAddress, SomePrompt
    <3>5. /\ a \in PromptAddress /\ a.project = s3.project /\ a.prompt = s3.prompt
          /\ a.query = c.filter
      BY <3>1, <3>3 DEF PromptAddress
    <3>6. s1.chart.filter = c.filter
      BY <2>2, <3>2
    <3> HIDE DEF c, ranks
    <3>7. /\ w \in PromptPage /\ w.project = s1.project /\ w.prompt = s1.prompt
          /\ w.all = s1.all /\ w.tablePrompt = s1.tablePrompt /\ w.lists = s1.lists
          /\ w.chart = s1.chart
      BY <3>1, <3>4 DEF PromptPage
    <3> HIDE DEF w, a
    <3>8. ShowsPrompt(w, a)
      BY <3>1, <3>5, <3>7 DEF ShowsPrompt
    <3>9. FilteredAs(w, a)
      BY <3>3, <3>5, <3>6, <3>7 DEF FilteredAs
    <3>10. s2' = <<>>
      BY <2>1, <2>2, OneCall
    <3> QED
      BY <3>1, <3>5, <3>7, <3>8, <3>9, <3>10 DEF Waiting
  <2> QED
    BY <1>1, <2>1, <2>2, PromptAnswered
<1> QED
  BY <1>2, <1>3

LEMMA PromptProjectChanged ==
    ASSUME PromptInv, NEW i \in DOMAIN s2, Prm!ReportProjectChanged(i)
    PROVE  PromptInv'
<1> DEFINE w == [s1 EXCEPT !.projectChanging = FALSE]
           past == [s4 EXCEPT !.moves = @ + 1]
           p == s2[i].arg
<1>1. /\ s2[i].op = "projectPrompts" /\ s1' = w /\ s4' = past
      /\ IF PromptsOf[p] = <<>> THEN s2' = Finish(s2, i) /\ s3' = s3
         ELSE Prm!Go(p, Head(PromptsOf[p]), Finish(s2, i))
  BY Zenon DEF Prm!ReportProjectChanged, Prm!Finish, Prm!RemoveAt, Finish, RemoveAt
<1>2. s4 \in PromptPast /\ past \in PromptPast /\ past.busy = s4.busy /\ past.lost = s4.lost
  BY DEF PromptInv, PromptPast
<1> HIDE DEF past
<1>3. ASSUME NEW arg, s2 = <<Call("projectPrompts", arg)>>, i = 1, Waiting(s1, s2, s3),
             ForPrompt("projectPrompts", arg, s1, s3), p = arg
      PROVE  Waiting(s1', s2', s3')
  <2>1. /\ s1 \in PromptPage /\ s3 \in PromptAddress /\ ShowsPrompt(s1, s3)
        /\ FilteredAs(s1, s3) /\ p \in Prm!Projects /\ p # s3.project
    BY <1>3 DEF Waiting, ForPrompt
  <2>2. /\ w \in PromptPage /\ w.project = s1.project /\ w.prompt = s1.prompt
        /\ w.all = s1.all /\ w.tablePrompt = s1.tablePrompt /\ w.chart = s1.chart
        /\ w.lists = s1.lists
    BY <2>1 DEF PromptPage
  <2>3. Finish(s2, i) = <<>>
    BY <1>3, OneCall
  <2> HIDE DEF w
  <2>4. CASE PromptsOf[p] = <<>>
    <3>1. s2' = <<>> /\ s3' = s3
      BY <1>1, <2>3, <2>4
    <3>2. ShowsPrompt(w, s3) /\ FilteredAs(w, s3)
      BY <2>1, <2>2, PromptStays
    <3> QED
      BY <1>1, <1>3, <2>2, <3>1, <3>2 DEF Waiting
  <2>5. CASE PromptsOf[p] # <<>>
    <3>1. Head(PromptsOf[p]) \in Prm!PromptsIn(p)
      <4>1. PromptsOf[p] \in Seq(Prm!PromptsIn(p))
        BY <2>1, PromptConstants
      <4> QED
        BY <2>5, <4>1
    <3>2. Prm!Go(p, Head(PromptsOf[p]), <<>>)
      BY <1>1, <2>3, <2>5
    <3>3. <<p, Head(PromptsOf[p])>> # <<s3.project, s3.prompt>>
      BY <2>1
    <3> QED
      BY <1>1, <2>1, <2>2, <3>1, <3>2, <3>3, PromptGoes
  <2> QED
    BY <2>4, <2>5
<1> QED
  BY <1>1, <1>2, <1>3, PromptAnswered

LEMMA PromptKeeps == PromptInv /\ [Prm!Next]_(Prm!vars) => PromptInv'
<1> SUFFICES ASSUME PromptInv, [Prm!Next]_(Prm!vars) PROVE PromptInv'
  OBVIOUS
<1>1. CASE UNCHANGED Prm!vars
  BY <1>1 DEF Prm!vars, PromptInv, Waiting
<1>2. ASSUME NEW i \in DOMAIN s2, Prm!CallFails(i) PROVE PromptInv'
  <2>1. s4 \in PromptPast /\ s4' = [s4 EXCEPT !.lost = TRUE]
    BY <1>2 DEF Prm!CallFails, PromptInv
  <2> QED
    BY <2>1 DEF PromptInv, PromptPast
<1>3. CASE Prm!Answers
  BY <1>2, <1>3, PromptFetched, PromptListsAnswered, PromptFiltered, PromptProjectChanged
     DEF Prm!Answers
<1>4. CASE \/ Prm!ReferenceCard \/ Prm!FilterCard \/ Prm!RankTableCard \/ Prm!AnswersCard
           \/ Prm!RankPage
  BY <1>4, PromptCardsKeep, PromptCleared, PromptChanged
     DEF Prm!ReferenceCard, Prm!FilterCard, Prm!RankTableCard, Prm!AnswersCard
<1> QED
  BY <1>1, <1>3, <1>4 DEF Prm!Next

\* A user who waits for every answer before acting, and whose calls succeed, sees one
\* prompt of the project of the address in every card, and a chart filtered as the query
\* string says (prompt-analytics.tsx).
THEOREM WaitingUserSeesOnePromptHolds == Spec => []WaitingUserSeesOnePrompt
<1> DEFINE Inv == mounted = "prompt" => PromptInv
<1>1. Init => Inv
  BY BeginsWithPart, PromptBegins
<1>2. Inv /\ [Next]_vars => Inv'
  BY StepOfPart, PromptKeeps
<1>3. PromptInv => Prm!WaitingUserSeesOnePrompt
  <2> SUFFICES ASSUME PromptInv, s2 = <<>>, ~s4.busy, ~s4.lost
               PROVE  /\ s3.prompt \in Prm!PromptsIn(s3.project)
                      /\ s1.project = s3.project
                      /\ {s1.prompt, s1.all, s1.tablePrompt, s1.chart.prompt}
                           \cup {s1.lists[s].prompt : s \in PagedLists} = {s3.prompt}
                      /\ s1.chart.filter = IF s3.query = Prm!NoQuery
                                           THEN Prm!Unfiltered(DefaultModel[s3.prompt])
                                           ELSE s3.query
    BY Zenon DEF Prm!WaitingUserSeesOnePrompt
  <2>1. Waiting(s1, s2, s3)
    BY DEF PromptInv
  <2>2. s3.prompt \in Prm!PromptsIn(s3.project) /\ ShowsPrompt(s1, s3) /\ FilteredAs(s1, s3)
    BY <2>1 DEF Waiting
  <2> QED
    BY <2>2 DEF ShowsPrompt, FilteredAs
<1>4. Inv => WaitingUserSeesOnePrompt
  BY <1>3 DEF WaitingUserSeesOnePrompt
<1> QED
  BY <1>1, <1>2, <1>4, PTL DEF Spec

(***************************************************************************)
(* Administration, project list and project                                *)
(***************************************************************************)

\* When everything the user asked for has been answered, the cards are the projects of
\* the server, in whatever order creations, deletions and changes of settings overlapped;
\* only a list in flight together with a write, or a lost answer, leaves others
\* (project-grid.tsx).
THEOREM GridFollowsServerHolds == Spec => []GridFollowsServer
<1> DEFINE Inv == mounted = "projects" => GridInv
<1>1. Init => Inv
  BY BeginsWithPart, GridBegins
<1>2. Inv /\ [Next]_vars => Inv'
  BY StepOfPart, GridKeeps
<1>3. Inv => GridFollowsServer
  BY GridShows DEF GridFollowsServer
<1> QED
  BY <1>1, <1>2, <1>3, PTL DEF Spec

\* Once the user's calls have all been answered and the newest load came last, with no call
\* failed since it was made, the section shows what the server holds, though lines, actions
\* and loads were served and answered in any order; only what can run of the prompts that a
\* background run has changed since may be older (features/projects,
\* backend/app/projects/prompt_router.py).
THEOREM SectionFollowsServerHolds == Spec => []SectionFollowsServer
<1> DEFINE Inv == mounted = "project" => WorkInv
<1>1. Init => Inv
  BY BeginsWithPart, WorkBegins
<1>2. Inv /\ [Next]_vars => Inv'
  BY StepOfPart, WorkKeeps
<1>3. Inv => SectionFollowsServer
  BY WorkShows DEF SectionFollowsServer
<1> QED
  BY <1>1, <1>2, <1>3, PTL DEF Spec

LEMMA AdmHolds == Spec => [](mounted = "administration" => AdmInv)
<1> DEFINE Inv == mounted = "administration" => AdmInv
<1>1. Init => Inv
  BY BeginsWithPart, AdmBegins
<1>2. Inv /\ [Next]_vars => Inv'
  BY StepOfPart, AdmKeeps
<1> QED
  BY <1>1, <1>2, PTL DEF Spec

\* A merge is asked for only with its preview, without a conflict, on the screen: a
\* preview that was computed for another selection is never taken for it (previewKey in
\* features/admin/admin-panel.tsx).
THEOREM MergesArePreviewedHolds == Spec => []MergesArePreviewed
<1>1. (mounted = "administration" => AdmInv) => MergesArePreviewed
  BY AdmShows DEF MergesArePreviewed
<1> QED
  BY <1>1, AdmHolds, PTL

\* Once the newest load was the last to be received, the rows of the reference and query
\* tables are those of the page and text of the controls, whatever order the server
\* answered in (features/admin/admin-panel.tsx).
THEOREM RowsMatchControlsHolds == Spec => []RowsMatchControls
<1>1. (mounted = "administration" => AdmInv) => RowsMatchControls
  BY AdmShows DEF RowsMatchControls
<1> QED
  BY <1>1, AdmHolds, PTL

\* When nothing is in flight, nothing failed and the last refresh was not overtaken, the
\* counters are those of the server, also after a tab was left while its write was in
\* flight (features/admin/admin-panel.tsx).
THEOREM CountersFollowHolds == Spec => []CountersFollow
<1>1. (mounted = "administration" => AdmInv) => CountersFollow
  BY AdmShows DEF CountersFollow
<1> QED
  BY <1>1, AdmHolds, PTL

=============================================================================
