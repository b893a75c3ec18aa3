SPECIFICATION FairSpec
CONSTANTS
    Calls = {c1, c2, c3}
    Contents = {v1, v2}
    Absent = Absent
    MayCrash = FALSE
INVARIANTS
    ExclusiveSection
    PutIfAbsentAtomic
PROPERTIES
    ImplementsConditionalStore
CHECK_DEADLOCK FALSE
