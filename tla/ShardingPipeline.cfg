SPECIFICATION FairSpec
CONSTANTS
    ShardNum = 2
    Dsts = {0, 1, 2, 3}
    RxSize = 1
    SortSize = 2
    MaxSends = 1
    MaxSqn = 2
    Setups <- MCSetups
INVARIANTS TypeOK DoneAfterOutputs RecoveryHandled
PROPERTIES ImplementsService AllDone RecoveryReturns
CHECK_DEADLOCK FALSE
