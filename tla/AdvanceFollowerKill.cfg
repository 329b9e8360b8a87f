SPECIFICATION Spec
CONSTANTS
    NEntries = 3
    Events = {}
    Fatal = {}
    KillPoints = {"published"}
    MaxKills = 1
    AgentMayDie = FALSE
INVARIANTS OnlyVetted
