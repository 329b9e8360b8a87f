SPECIFICATION Spec
CONSTANTS
    NEntries = 3
    Events = {}
    Fatal = {}
    KillPoints = {"poll"}
    MaxKills = 1
    AgentMayDie = FALSE
INVARIANTS VettedIsGiven
