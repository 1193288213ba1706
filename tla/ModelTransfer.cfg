SPECIFICATION Spec
CONSTANTS
    i1 = i1
    i2 = i2
    c1 = c1
    c2 = c2
    Instances = {i1}
    Calls = {c1}
    Owner <- OneCall
    Payloads = {"whole", "partial"}
    Incomplete = {"partial"}
    NoPayload = "none"
    Window = 2
    ApprovalSeconds = 3
    ModelWait = 2
    MaxClock = 6
    LastSubmit = 2
    MaxRuns = 2
    MaxFaults = 1
INVARIANTS ModelCallsStayWithModel
