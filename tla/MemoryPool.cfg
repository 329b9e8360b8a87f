SPECIFICATION FairSpec
CONSTANTS
    Users = {u1, u2}
    BlockNum = 2
    EmergentNum = 1
    MaxNew = 5
    MaxCrash = 2
INVARIANTS TypeOK EachBlockOnce EmergentReserveKept DeleteAccepted
PROPERTIES NewReturns
CHECK_DEADLOCK FALSE
