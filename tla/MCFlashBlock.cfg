CONSTANTS
    MediaSize = 8
    PageSize = 2
    EraseSizes = {2, 4}
    SectorSize = 2
    FirstContent = {1}
    MaxSpiFaults = 1
    Table <- SectorAlignedTable
SPECIFICATION PartitionSpec
INVARIANT ReadOnlyKept
