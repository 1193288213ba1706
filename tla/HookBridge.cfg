SPECIFICATION HookSpec
CONSTANTS
    i1 = i1
    c1 = c1
    global = global
    project = project
    Instances = {i1}
    Calls = {c1}
    Owner <- OneOwner
    Hooks = {global, project}
    CallOf <- BothOnOneCall
    Payloads = {"whole", "partial"}
    Incomplete = {"partial"}
    NoPayload = "none"
    Window = 1
    ApprovalSeconds = 1
    ModelWait = 1
    MaxClock = 2
    LastSubmit = 0
    Grace = 0
    BeatEvery = 0
    MaxRuns = 2
    MaxFaults = 0
    MaxAttempts = 2
INVARIANTS RunsOnlyApproved ReportsAreTrue ReplayIsDenied
SYMMETRY EitherOrder
