----------------------------- MODULE EditingPages -----------------------------
(***************************************************************************)
(* The pages that create and change what the server holds: administration, *)
(* the list of projects and a project.  Only one page is mounted at a      *)
(* time, so they share the variables s1, s2, ..., in the order of each     *)
(* module's vars.                                                          *)
(***************************************************************************)
EXTENDS Naturals

CONSTANTS MaxFlight,  \* MaxFlight[part]: bound, calls in flight when the user acts
          MaxActs     \* MaxActs[part]: bound, the user's acts, changes or moves

\* The constants of the pages, as their modules explain them.
CONSTANTS ModelKeys, Prompts, Terms, Queries, PageCount, Brands,  \* administration
          Ids, Names, PromptCounts,                               \* projects
          Models, ModelTexts, Texts, Rows, RunPages, Tokens       \* project

VARIABLES s1, s2, s3, s4, s5, s6, s7, s8

Adm == INSTANCE AdminConsole WITH
    MaxFlight <- MaxFlight["administration"], MaxSwitches <- MaxActs["administration"],
    tab <- s1, view <- s2, overview <- s3, net <- s4, server <- s5, asked <- s6,
    lost <- s7, switches <- s8

Grid == INSTANCE ProjectGrid WITH
    Counts <- PromptCounts,
    MaxFlight <- MaxFlight["projects"], MaxActs <- MaxActs["projects"],
    page <- s1, server <- s2, net <- s3, past <- s4

Work == INSTANCE ProjectWorkspace WITH
    Queries <- ModelTexts,
    MaxFlight <- MaxFlight["project"], MaxActs <- MaxActs["project"],
    section <- s1, page <- s2, server <- s3, net <- s4, past <- s5

\* What each page assumes of its constants.
ASSUME EditingParameters ==
    Adm!AdminParameters /\ Grid!ProjectGridParameters /\ Work!WorkspaceParameters
=============================================================================
