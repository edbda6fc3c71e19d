SPECIFICATION Spec
CONSTANTS
    fact1 = fact1
    fact2 = fact2
    NoRisks = NoRisks
    Facts = {fact1, fact2, NoRisks}
    Scanners = {s1, s2}
    Missing = Missing
    Undated = Undated
    NoSnapshot = NoSnapshot
    Now = Now
    MaxTime = 3
    Histories <- FilingsAndRisks
    Requests <- NowOnly
    Loaders = {"financials", "management"}
    WatchComponents = {}
    Severity <- MCSeverity
    MinimumMateriality = "medium"
    NoThreshold = NoThreshold
    StaleAfter = 1
    MaxRetries = 0
    ProvidersFail = TRUE
    MayAbort = TRUE
    UserRequests <- UserRuns
    UsersCompare = TRUE
INVARIANTS
    TypeOK
    ChangesExplained
    ChangesFollowHistory
    AlertsBacked
    ScansConsistent
    OneAlertPerChange
    CursorHolds
PROPERTY
    DecisionsStand
    ScansGetNearer
SYMMETRY Symmetry
CHECK_DEADLOCK FALSE
