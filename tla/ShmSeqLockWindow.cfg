SPECIFICATION FairSpec
CONSTANTS
    Shards = {s1, s2}
    QueueSize = 2
    Routes = {{s1}, {s2}}
    MaxSqn = 4
    MaxCalls = 1
    Window = 2
PROPERTIES UnlockedInAnyOrder
CHECK_DEADLOCK FALSE
