------------------------------ MODULE Dashboard ------------------------------
(***************************************************************************)
(* The rank report of the dashboard (BrandRankReport in                    *)
(* features/dashboard/index.tsx): a summary kept under the key of its      *)
(* request, the details of one row kept under theirs, and two exports that *)
(* page through the whole report while the controls stay usable.           *)
(***************************************************************************)
EXTENDS Requests

CONSTANTS PromptsOf,    \* PromptsOf[p]: prompts of project p
          Brands,       \* brands observed in every project
          Days,         \* the ranges offered
          ExportPages,  \* pages of an export
          MaxFlight,    \* bound: calls in flight when the user acts
          MaxActs       \* bound: acts of the user

Projects == DOMAIN PromptsOf
AllPrompts == UNION {PromptsOf[p] : p \in Projects}

DashboardParameters ==
    /\ Projects # {} /\ ExportPages \in Nat \ {0}
    /\ "all" \notin AllPrompts \cup Brands

VARIABLES page, net, files, acts

vars == <<page, net, files, acts>>

Selection(v) == [project |-> v.project, prompt |-> v.prompt, brand |-> v.brand, days |-> v.days]

Nothing == [project |-> "none", prompt |-> "all", brand |-> "all", days |-> 0]

\* Mutant of RequestKey: the key has no brand.
RequestKeyLoose(s) == <<s.project, s.prompt, "all", s.days>>

\* requestKey: `${projectId}:${promptId}:${brandId}:${days}`
RequestKey(s) == <<s.project, s.prompt, s.brand, s.days>>

NoDetails == [of |-> Nothing, row |-> "none"]

Init ==
    /\ page = [project |-> "none", prompt |-> "all", brand |-> "all",
               days |-> CHOOSE d \in Days : TRUE, listed |-> FALSE,
               prompts |-> "none", brands |-> "none",
               result |-> [key |-> RequestKey(Nothing), asked |-> Nothing, error |-> FALSE],
               expanded |-> NoDetails, details |-> NoDetails, exporting |-> "no"]
    /\ net = Issue(<<>>, "projects", {})
    /\ files = {} /\ acts = 0

\* The effect on the summary's parameters.
Summary(v, n) == page' = v /\ net' = Issue(n, "summary", Selection(v))

\* The effects on the project load its prompts and its brands as well.
ProjectEffects(v, n) ==
    Summary(v, Issue(Issue(n, "prompts", v.project), "brands", v.project))

ProjectsListed(i) ==
    /\ net[i].op = "projects"
    /\ ProjectEffects([page EXCEPT !.listed = TRUE,
                                   !.project = CHOOSE p \in Projects : TRUE],
                      Finish(net, i))
    /\ UNCHANGED <<files, acts>>

Acting == Len(net) < MaxFlight /\ acts < MaxActs /\ acts' = acts + 1

SelectProject(p) ==
    /\ Acting /\ page.listed /\ p # page.project
    /\ ProjectEffects([page EXCEPT !.project = p, !.prompt = "all", !.brand = "all"], net)
    /\ UNCHANGED files

\* The lists offered may still be those of the project selected before.
SelectPrompt(q) ==
    /\ Acting /\ page.prompts # "none" /\ q # page.prompt
    /\ q \in {"all"} \cup PromptsOf[page.prompts]
    /\ Summary([page EXCEPT !.prompt = q], net)
    /\ UNCHANGED files

SelectBrand(b) ==
    /\ Acting /\ page.brands # "none" /\ b # page.brand
    /\ Summary([page EXCEPT !.brand = b], net)
    /\ UNCHANGED files

SelectDays(d) ==
    /\ Acting /\ page.project # "none" /\ d # page.days
    /\ Summary([page EXCEPT !.days = d], net)
    /\ UNCHANGED files

ListLoaded(i) ==
    /\ net[i].op \in {"prompts", "brands"}
    /\ page' = IF net[i].op = "prompts" THEN [page EXCEPT !.prompts = net[i].arg]
               ELSE [page EXCEPT !.brands = net[i].arg]
    /\ net' = Finish(net, i)
    /\ UNCHANGED <<files, acts>>

\* then and catch both keep a result under the key of their own request.
SummaryAnswered(i) ==
    /\ net[i].op = "summary"
    /\ \E error \in BOOLEAN :
          page' = [page EXCEPT !.result = [key |-> RequestKey(net[i].arg),
                                           asked |-> net[i].arg, error |-> error]]
    /\ net' = Finish(net, i)
    /\ UNCHANGED <<files, acts>>

Current == page.result.key = RequestKey(Selection(page))

RowsShown == page.project # "none" /\ Current /\ ~page.result.error

-----------------------------------------------------------------------------
(* The details of a row *)

DetailKey(d) == <<RequestKey(d.of), d.row>>

ToggleDetails(row) ==
    /\ Acting /\ RowsShown
    /\ LET d == [of |-> Selection(page), row |-> row]
       IN IF DetailKey(page.expanded) = DetailKey(d)
          THEN page' = [page EXCEPT !.expanded = NoDetails] /\ UNCHANGED net
          ELSE page' = [page EXCEPT !.expanded = d] /\ net' = Issue(net, "details", d)
    /\ UNCHANGED files

DetailsAnswered(i) ==
    /\ net[i].op = "details"
    /\ page' = [page EXCEPT !.details = net[i].arg]
    /\ net' = Finish(net, i)
    /\ UNCHANGED <<files, acts>>

\* The rows of details under a row of the table.
DetailsShown(row) ==
    LET d == [of |-> Selection(page), row |-> row]
    IN /\ RowsShown /\ DetailKey(page.expanded) = DetailKey(d)
       /\ DetailKey(page.details) = DetailKey(d)

-----------------------------------------------------------------------------
(* The exports *)

\* The filters and the name are taken when the button is pressed, and then the
\* pages are asked for one after the other (getAllBrandRankSummary).
StartExport(kind) ==
    /\ Acting /\ RowsShown /\ page.exporting = "no"
    /\ page' = [page EXCEPT !.exporting = kind]
    /\ net' = Issue(net, "export", [kind |-> kind, filters |-> Selection(page),
                                    name |-> Selection(page), page |-> 1])
    /\ UNCHANGED files

DownloadCsv == StartExport("csv")

\* The print window is opened first, and may have been blocked.
PrintPdf ==
    \/ StartExport("pdf")
    \/ Acting /\ RowsShown /\ page.exporting = "no" /\ UNCHANGED <<page, net, files>>

\* Mutant of ExportPageLoaded: the next page is asked for with the filters of
\* the moment.
ExportPageOfSelection(i) ==
    /\ net[i].op = "export"
    /\ LET a == [net[i].arg EXCEPT !.filters = Selection(page)]
       IN IF a.page < ExportPages
          THEN /\ net' = Issue(Finish(net, i), "export", [a EXCEPT !.page = @ + 1])
               /\ UNCHANGED <<page, files>>
          ELSE /\ net' = Finish(net, i)
               /\ page' = [page EXCEPT !.exporting = "no"]
               /\ files' = {[name |-> a.name, rows |-> a.filters, pages |-> a.page]}
    /\ UNCHANGED acts

\* The radar of a print comes with the pages and may be missing.
ExportPageLoaded(i) ==
    /\ net[i].op = "export"
    /\ LET a == net[i].arg
       IN IF a.page < ExportPages
          THEN /\ net' = Issue(Finish(net, i), "export", [a EXCEPT !.page = @ + 1])
               /\ UNCHANGED <<page, files>>
          ELSE /\ net' = Finish(net, i)
               /\ page' = [page EXCEPT !.exporting = "no"]
               /\ files' = {[name |-> a.name, rows |-> a.filters, pages |-> a.page]}
    /\ UNCHANGED acts

\* The catch blocks; a failed list of prompts or brands is emptied.
CallFails(i) ==
    /\ net[i].op \in {"projects", "prompts", "brands", "export"}
    /\ page' = CASE net[i].op = "projects" -> [page EXCEPT !.listed = TRUE]
                 [] net[i].op = "prompts" -> [page EXCEPT !.prompts = "none"]
                 [] net[i].op = "brands" -> [page EXCEPT !.brands = "none"]
                 [] net[i].op = "export" -> [page EXCEPT !.exporting = "no"]
    /\ net' = Finish(net, i)
    /\ UNCHANGED <<files, acts>>

BrandRankReport ==
    \/ \E p \in Projects : SelectProject(p)
    \/ \E q \in AllPrompts \cup {"all"} : SelectPrompt(q)
    \/ \E b \in Brands \cup {"all"} : SelectBrand(b)
    \/ \E d \in Days : SelectDays(d)
    \/ \E row \in Brands : ToggleDetails(row)
    \/ DownloadCsv \/ PrintPdf

Answers ==
    \E i \in DOMAIN net :
        \/ ProjectsListed(i) \/ ListLoaded(i) \/ SummaryAnswered(i)
        \/ DetailsAnswered(i) \/ ExportPageLoaded(i) \/ CallFails(i)

Next == BrandRankReport \/ Answers

Spec == Init /\ [][Next]_vars

-----------------------------------------------------------------------------
(* Properties *)

\* The summary, its error, and the details under a row are never those of
\* another selection, in whatever order selections, answers and failures come.
RowsForSelection ==
    /\ Current => page.result.asked = Selection(page)
    /\ \A row \in Brands :
          DetailsShown(row) => page.details = [of |-> Selection(page), row |-> row]

\* A file holds the rows of the filters it is named after, and all pages of
\* them, although the selection may change between any two of its pages.
FilesAsNamed == \A f \in files : f.rows = f.name /\ f.pages = ExportPages
=============================================================================
