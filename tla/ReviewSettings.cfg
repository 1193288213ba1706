SPECIFICATION Spec
CONSTANTS
    e1 = e1
    e2 = e2
    k1 = k1
    Endpoints = {e1, e2}
    Keys = {k1}
    NoKey = NoKey
    None = None
    MaxVersion = 3
    MaxCrashes = 1
INVARIANTS TypeOK TestedMeansPassed ModelModeIsTested MemoryIsDurable VersionNamesPolicy
