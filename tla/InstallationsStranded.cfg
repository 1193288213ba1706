SPECIFICATION Spec
SYMMETRY Paths
CONSTRAINT SmallInstance
CONSTANTS
    Entries <- MCEntries
    Documents <- MCDocuments
    Links <- MCLinks
    AgentOf <- MCAgentOf
    ScopeOf <- MCScopeOf
    Exclusive = {"grok"}
    Commands <- MCCommands
    client = client
    loader = loader
    p1 = p1
    p2 = p2
    Client = client
    LocalEntries = {"grok", "pi"}
    Programs = {p1, p2}
    Loader = loader
    Versions = {1, 2}
    MaxEdits = 1
    MaxNodes = 2
    MaxFaults = 1
    MaxCrashes = 1
    MaxMoves = 1
INVARIANTS InterruptedLeavesOnlyPending
