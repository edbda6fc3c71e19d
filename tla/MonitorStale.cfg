SPECIFICATION Spec
CONSTANTS
    fact1 = fact1
    fact2 = fact2
    NoRisks = fact1
    Facts = {fact1, fact2}
    Scanners = {"s1"}
    Missing = Missing
    Undated = Undated
    NoSnapshot = NoSnapshot
    Now = Now
    MaxTime = 4
    Histories <- FilingHistories
    Requests <- NowOnly
    Loaders = {"financials", "management"}
    WatchComponents = {"management", "risks"}
    Severity <- MCSeverity
    MinimumMateriality = "medium"
    NoThreshold = NoThreshold
    StaleAfter = 1
    MaxRetries = 1
    ProvidersFail = FALSE
    MayAbort = FALSE
    UserRequests = {}
    UsersCompare = FALSE
INVARIANT StaleCrossingRecorded
CHECK_DEADLOCK FALSE
