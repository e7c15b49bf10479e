SPECIFICATION Spec
CONSTANTS
    k1 = k1
    p1 = p1
    b1 = b1
    b2 = b2
    P1 = P1
    P2 = P2
    P3 = P3
    q1 = q1
    q2 = q2
    q3 = q3
    MaxFlight <- MCMaxFlight
    MaxActs <- MCMaxActs
    ModelKeys = {k1}
    Prompts = {p1}
    Terms <- MCTerms
    Queries = {"", "q"}
    PageCount <- MCPageCount
    Brands = {b1, b2}
    PromptsOf <- MCPromptsOf
    Models = {"m"}
    Days = {7, 30}
    DefaultModel <- MCDefaultModel
    FilterBrands = {}
    DateRanges <- MCDateRanges
    PagedLists = {"references"}
    ListPages <- MCPages
    ReportProjects = {P1, P2}
    Observed <- MCObserved
    Configured <- MCConfigured
    Owned <- MCOwned
    RowPages <- MCRowPages
    Dates = {1, 2}
    CardPrompts = {q1}
    Series <- MCSeries
    DashboardPrompts <- MCDashboardPrompts
    DashboardBrands = {b1}
    ExportPages = 2
    Ids = {1, 2}
    Names = {"a", "b"}
    PromptCounts = {0, 1}
    ModelTexts <- MCModelTexts
    Texts = {"s", "t"}
    Rows = {"a", "b"}
    RunPages = 3
    Tokens = {1, 2}
    LoginPages = {"login"}
    RegisterPages = {"register"}
    MaxAttempts = 2
    Fonts = {"inter", "manrope"}
    DefaultFont <- MCDefaultFont
    Kinds = {"k"}
    FilterTexts = {"", " ", "a"}
    Blank = " "
    PageCounts = {0, 5, 7}
    Sizes = {0, 20}
    RankedModels = {1, 2}
    NameOrder <- MCNameOrder
    Ranks = {1, 3}
    MaxPoints = 3
    LastDay = 4
    Length = 3
    MaxVisible = 1
CONSTRAINT Unhurried
INVARIANTS
    MergesArePreviewed
    RowsMatchControls
    CountersFollow
    WaitingUserSeesOnePrompt
    ReportMatchesControls
    SkeletonIsAwaited
    DisplayedPromptRanked
    CardShowsItsRequest
    RowsForSelection
    FilesAsNamed
    GridFollowsServer
    SectionFollowsServer
    GuessesBounded
    ResendAllowed
    PreferencesSurvive
    UrlKeepsTable
    PagerReaches
    ReportsAgree
CHECK_DEADLOCK FALSE
