SPECIFICATION Spec
CONSTANTS
    i1 = i1
    i2 = i2
    c1 = c1
    c2 = c2
    Instances = {i1}
    Calls = {c1, c2}
    Owner <- OneSession
    Payloads = {"whole", "partial"}
    Incomplete = {"partial"}
    NoPayload = "none"
    Window = 1
    ApprovalSeconds = 1
    ModelWait = 1
    MaxClock = 2
    LastSubmit = 0
    MaxRuns = 2
    MaxFaults = 1
INVARIANTS AuditTrail
PROPERTIES NoApprovalAfterSessionEnd
