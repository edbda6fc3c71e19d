SPECIFICATION FairSpec
CONSTANTS
    PlanSizes = {2}
    PlannerIsLLM = TRUE
    Proposals <- MCProposals
    Outcomes <- MCOutcomes
    MaxSubgoals = 3
    MaxToolCalls = 4
    Reviewers = {"analyst"}
    NoRow = NoRow
    MayCrash = TRUE
INVARIANTS
    TypeOK
    DependenciesMet
    EvidenceAccounted
    BudgetRespected
    WaitsForReview
    ReviewsRefer
PROPERTIES
    AnswersStand
    LoopWindsDown
    RunsEnd
CHECK_DEADLOCK FALSE
