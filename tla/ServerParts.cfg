SPECIFICATION PartsSpec
CONSTANTS
    NoRisk = NoRisk
    MaxFilings = 4
    MaxCandidates = 2
    MaxSearches = 1
    MaxFaults = 2
    FixtureRisks <- MCFixtureRisks
    FixtureMarket <- MCFixtureMarket
    FixtureInsights <- MCFixtureInsights
    FilingLists <- MCFilingLists
    EventLists <- MCEventLists
    PageLists <- MCPageLists
    LabelKey <- MCLabelKey
    NoNode = NoNode
    MaxSuppliers = 2
    MaxChainRuns = 2
    Seed <- MCSeed
    Product <- MCProduct
    Fixture <- MCFixture
    RequirementLists <- MCRequirementLists
    ProposalLists <- MCProposalLists
    Findings <- MCFindings
    Expansions <- MCExpansions
    MaxChainFaults = 1
    Clerks = {k1, k2}
    Theses = {t1}
    Periods <- MCPeriods
    MaxReviews = 2
    Desks = {d1, d2}
    Points <- MCPoints
    Imports <- MCImports
    Groups = {g1}
    Peers <- MCPeers
    Actuals <- MCActuals
    Kinds = {"dcf"}
    Filings <- MCFilings
    Undated = Undated
    AsOfDays = {2, 3, 4}
    Policies = {"latest_known", "original", "amended_only"}
    LastDay = 4
    ToolCalls = {c1, c2}
    ToolRequests <- MCToolRequests
    Grants <- MCGrants
    ToolScopes = {"company_research"}
    Registry <- MCRegistry
    GraphNodes <- MCGraphNodes
    GraphEdges <- MCGraphEdges
    GraphSources = {"fixture", "unavailable"}
    MaxToolRounds = 2
    MaxTotalToolCalls = 2
    Tabs = {b1, b2}
    Site <- MCSite
    Links <- MCLinks
    InitialUrls <- MCInitialUrls
    MaxSteps = 4
    NoNewFindings = 3
    CheckpointInterval = 2
    StopChecks = {TRUE, FALSE}
    Company = "AAA"
    EdgeTypes <- MCEdgeTypes
    TopPaths = 5
    TopInsights = 3
    GraphNodesOf = {"AAA", "sup", "tw", "ev"}
    GraphEdgesOf <- MCEdgesOf
    EvidenceRows <- MCEvidenceRows
    Recorders = {p1, p2}
    Operations = {"o1"}
    Contents = {"x", "y"}
    MaxMessageTime = 1
    Clients = {"key"}
    NoKey = "none"
    MaxRequests = 2
    Window = 5
    Second = 2
    MaxTicks = 12
    Openers = {"o1", "o2"}
    Releases <- MCReleases
    Checksums = {"a", "b", "c"}
    Searchers = {s1, s2}
    Providers <- MCProviders
    Requests <- MCRequests
    FoundLists <- MCFoundLists
    Pages <- MCPages
    MaxPages = 1
    Ttl = 0
    MaxSearchTime = 1
    SearchBound = 2
    MemoryUsers = {u1, u2}
    Sources <- MCSources
    Budgets = {0, 5}
    MaxConsidered = 3
    MaxSelected = 2
    MaxMemoryCalls = 3
    Resolvers = {r1, r2}
    Tickers = {"AAA", "BBB"}
    Ciks <- MCCiks
    Listed <- MCListed
    Anchors <- MCAnchors
    Predecessors = {"BBB"}
    SecCallers = {q1, q2}
    Interval = 2
    MaxTime = 6
    Lines <- MCLines
    MaxLines = 4
    Submissions <- MCSubmissions
    Floors = {1, 2}
    Limits = {0, 1, 99}
    Readers = {x1, x2}
    Quarters = {1, 2}
    Title <- MCTitle
    RawCalls <- MCRawCalls
    Wanted <- MCWanted
    FilingTexts <- MCFilingTexts
    CallTexts <- MCCallTexts
    WebTexts <- MCWebTexts
    Signals <- MCSignals
    Years = {0, 1}
    MaxTranscripts = 2
    Goals <- MCGoals
    ToolResults <- MCToolResults
    MaxResults = 2
    Overlap <- MCOverlap
    Companies <- MCCompanies
    Beginnings <- MCBeginnings
    NewSnapshots <- MCSnapshots
    ReviewStatuses = {"confirmed", "ignored"}
    MaxSnapshots = 2
    MaxStatuses = 1
INVARIANTS
    PartsTypeOK
    ReportsHold
    CriticalBlockersAreFinal
    ChainsHold
    StoresHold
    DataHolds
    SnapshotIsPointInTime
    SnapshotAddsUp
    ExpiryHolds
    KnowledgeHolds
PROPERTIES
    RunsArePolled
    FinRiskRunsEnd
    AgentToolsHold
CHECK_DEADLOCK FALSE
