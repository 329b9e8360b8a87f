SPECIFICATION FairSpec
CONSTANTS
    MemorySize = 8
    ReserveSize = 4
    Lengths = {0, 17}
    MaxPost = 5
INVARIANTS TypeOK EntriesIntact ConsumeComplete WalkVisitsUnread
PROPERTIES ImplementsFifo AllocTerminates PostedIsRead
