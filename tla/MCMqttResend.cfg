CONSTANTS
    Parts = {"mqtt"}
    t1 = t1
    t2 = t2
    EdgeCapacity = 2
    DebounceTime = 1
    LongTime = 2
    ExtraLongTime = 3
    Ticks = 10
    FirstTick = 7
    EndOfTime = 7
    MaxEdges = 4
    MaxLost = 1
    Tasks = {t1, t2}
    Deadline <- TaskDeadline
    MaxLease = 2
    ClockRange = 6
    Byte = {1, 2}
    Files <- SmallFiles
    BlockMax = 2
    Timeout = 2
    TransferRange = 5
    Sectors = 3
    SectorSlots = 2
    CacheCount = 1
    EpochMax = 2
    SeqMax = 3
    MaxMishaps = 2
    MaxId = 3
    OutMax = 3
    InMax = 2
    Budgets <- SmallBudgets
    MediaSize = 8
    PageSize = 2
    EraseSizes = {2, 4}
    SectorSize = 2
    FirstContent = {4}
    MaxSpiFaults = 2
    Table <- AlignedTable
    Bits = {1, 2}
    Images <- SmallImages
    SlotBlocks = 2
    NoImageHeld = NoImageHeld
SPECIFICATION DeviceSpec
INVARIANTS
    ResendComplete
