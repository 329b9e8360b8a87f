SPECIFICATION FairSpec
CONSTANTS
    ShardNum = 1
    Dsts = {1}
    RxSize = 1
    SortSize = 2
    MaxSends = 1
    MaxSqn = 3
    Setups <- MCPostToSetups
PROPERTIES AllocSucceeds
CHECK_DEADLOCK FALSE
