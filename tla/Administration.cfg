SPECIFICATION Spec
CONSTANTS
    Presets <- MCPresets
    ParentOf <- MCParentOf
    Customs = {5}
    ScopeIds = {"s1", "s2"}
    ScopeDrafts <- MCScopeDrafts
    Calls <- MCCalls
    Within <- MCWithin
    Scenarios <- MCScenarios
INVARIANTS StrictestRuleDecides
PROPERTIES ClosedCategoriesStayClosed ConsoleCatchesUp
CHECK_DEADLOCK FALSE
