SPECIFICATION FairSpec
CONSTANTS
    Calls = {c1, c2}
    Contents = {v1, v2}
    Absent = Absent
    MaxAttempts = 2
INVARIANTS
    AppliedAtMostOnce
    OneCreator
    SettledBeforeReturn
PROPERTIES
    ImplementsConditionalStore
    EveryCallReturns
CHECK_DEADLOCK FALSE
