SPECIFICATION FairSpec
CONSTANTS
    Approvals = {"a1", "a2"}
    TTLs = {1, 2}
    MaxTime = 2
    NoItem = NoItem
    Processes = {"p1", "p2"}
    MaxAudit = 5
INVARIANTS
    TypeOK
    ReadsAreCurrent
    SingleUse
    AuditTellsStatus
    EndIsFinal
PROPERTIES
    KeepsPromise
    CallsReturn
CHECK_DEADLOCK FALSE
