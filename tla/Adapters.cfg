SPECIFICATION Spec
CONSTANTS
    t1 = t1
    t2 = t2
    p1 = p1
    p2 = p2
    p3 = p3
    ToolCalls = {t1, t2}
    MaxSessions = 2
    Payloads = {"whole", "partial", "changed"}
    Incomplete = {"partial"}
    NoPayload = "none"
    Commands <- MCCommands
    MaxFiles = 2
    MaxBytes = 2
    Scopes = 2
INVARIANTS TypeOK RunsOnlyApproved OutcomesAreTrue CompleteMeansWhole
PROPERTIES EveryCallEnds
CHECK_DEADLOCK FALSE
