SPECIFICATION Spec
CONSTANTS
    PlanSizes = {2}
    PlannerIsLLM = FALSE
    Proposals <- MCProposals
    Outcomes <- MCOutcomes
    MaxSubgoals = 3
    MaxToolCalls = 4
    Reviewers = {"analyst1", "analyst2"}
    NoRow = NoRow
    MayCrash = FALSE
PROPERTY
    ApprovalsStand
CHECK_DEADLOCK FALSE
