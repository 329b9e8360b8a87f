SPECIFICATION MPSpec
CONSTANTS
    MemorySize = 6
    ReserveSize = 3
    Lengths = {1, 9}
    MaxPost = 3
    Producers = {p1, p2}
INVARIANTS EntriesIntact HeldEntriesDisjoint PublishedInAllocationOrder
PROPERTIES ImplementsFifo HeldIsPublished
