SPECIFICATION FairSpec
CONSTANTS
    Shards = {s1, s2}
    QueueSize = 2
    Routes = {{}, {s1}, {s2}}
    MaxSqn = 5
    MaxCalls = 2
    Window = 2
INVARIANTS TypeOK MutualExclusion TotalOrder
PROPERTIES ReleasedNeverBack LockIsGranted
CHECK_DEADLOCK FALSE
