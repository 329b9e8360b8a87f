SPECIFICATION FairSpec
CONSTANTS
    NEntries = 4
    Events = {2, 4}
    Fatal = {1, 3, 4}
    KillPoints = {"poll", "entry", "app", "processed"}
    MaxKills = 2
    AgentMayDie = TRUE
INVARIANTS TypeOK OnlyVetted DeadlyNeverGiven TrialErrorAsserts DoneOncePerMessage
PROPERTIES AllHandled 
CHECK_DEADLOCK FALSE
