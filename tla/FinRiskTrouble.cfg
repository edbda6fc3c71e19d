SPECIFICATION Spec
CONSTANTS
    NoRisk = NoRisk
    MaxFilings = 4
    MaxCandidates = 2
    MaxSearches = 1
    MaxFaults = 2
    FixtureRisks <- MCFixtureRisks
    FixtureMarket <- MCFixtureMarket
    FixtureInsights <- MCFixtureInsights
    FilingLists <- MCFilingLists
    EventLists <- MCEventLists
    PageLists <- MCPageLists
INVARIANT TroubleNeedsReview
CHECK_DEADLOCK FALSE
