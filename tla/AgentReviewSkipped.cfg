SPECIFICATION Spec
CONSTANTS
    PlanSizes = {2}
    PlannerIsLLM = TRUE
    Proposals <- MCProposals
    Outcomes <- MCOutcomes
    MaxSubgoals = 3
    MaxToolCalls = 4
    Reviewers = {"analyst"}
    NoRow = NoRow
    MayCrash = FALSE
INVARIANT
    ReviewItemWritten
CHECK_DEADLOCK FALSE
