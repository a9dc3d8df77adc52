SPECIFICATION ScenarioSpec
CONSTANTS
    Scenarios <- MCScenarios
    RunIds = {0, 1}
    Typed <- MCTyped
    MicroNs = 4
    DayUs = 4
    MaxUInt32 = 1000
INVARIANTS
    RulesAgree
    ConfigUsable
CHECK_DEADLOCK FALSE
