SPECIFICATION Spec
CONSTANTS
    Users = {u1, u2}
    BlockNum = 2
    EmergentNum = 1
    MaxNew = 3
    MaxCrash = 1
INVARIANTS RestIsFree
CHECK_DEADLOCK FALSE
