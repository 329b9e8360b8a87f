SPECIFICATION FairSpec
CONSTANTS
    Producers = {p1, p2}
    Consumers = {c1, c2}
    QueueSize = 2
    Setups <- MCSetups
    MaxPush = 4
    MaxCrash = 1
INVARIANTS TypeOK ReservedIsHeld NoSharing
PROPERTIES ImplementsRedelivery Drained
CHECK_DEADLOCK FALSE
