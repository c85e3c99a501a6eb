CONSTANTS
    Parts = {"boot", "store", "log"}
    v1 = v1
    v2 = v2
    Value = {v1, v2}
    SeqMod = 12
    vBad = vBad
    NoImage = NoImage
    Image <- WithBadVectors
    Bootable <- GoodImages
    MaxTrial = 2
    MaxPhase = 2
    MaxStorm = 2
    CounterMax = 2
    RequestStates = {"CANDIDATE_VALID", "INSTALLING"}
    StorageFaults = TRUE
    FlashFaults = TRUE
    Erased = Erased
    Hole = Hole
    Garbled = Garbled
    NoValue = NoValue
    Torn = Torn
    Corrupt = Corrupt
    BankSlots = 2
    HeadSlots = 1
    Straddles = TRUE
    Modes = {"legacy", "strict", "prepared"}
    StoreMishaps = 2
    LogSectors = 2
    LogSlots = 2
    MaxSequence = 5
    MaxClears = 1
    LogMishaps = 1
SPECIFICATION StorageSpec
INVARIANTS
    TypeOK RunsOnlyComplete IncompleteIsMarked SomethingToInstall CandidateErasesBounded
    SnapshotSurvives RamAgrees ReaderSafe 
PROPERTIES
    IntentBeforeErase TrustedAppHasBackup UsesRegister
    OwedDelivered
