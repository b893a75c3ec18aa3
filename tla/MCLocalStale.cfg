SPECIFICATION Spec
CONSTANTS
    Calls = {c1, c2, c3}
    Contents = {v1, v2}
    Absent = Absent
    MayCrash = TRUE
INVARIANTS
    PutIfAbsentAtomic
CHECK_DEADLOCK FALSE
