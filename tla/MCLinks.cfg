CONSTANTS
    Parts = {"modbus", "uart", "collector", "modem", "boot"}
    r1 = r1
    r2 = r2
    FrameDepth = 1
    WireMax = 2
    MaxPieces = 2
    MaxNoise = 1
    Requests = {r1, r2}
    TopPriority = 1
    RequestDepth = 1
    ResultDepth = 1
    Retries <- ModbusRetries
    Ports = {1, 2}
    InboxDepth = 1
    Records <- ModemRecords
    BufferSize = 14
    HeaderMax = 9
    TopicMax = 2
    PayloadMax = 3
    NumberMax = 20
    Settings <- FourSettings
    MaxModemMishaps = 3
    v1 = v1
    v2 = v2
    NoImage = NoImage
    Image <- TwoImages
    Bootable <- TwoImages
    MaxTrial = 2
    MaxPhase = 2
    MaxStorm = 2
    CounterMax = 2
    RequestStates = {"CANDIDATE_VALID"}
    StorageFaults = FALSE
    FlashFaults = TRUE
SPECIFICATION LinksSpec
INVARIANTS
    ModbusSafe StoredNeverTaken LossReported
    TrialsBounded ConfiguredWhenDone
PROPERTIES
    DeafOnlyByStore RecordsKeptApart
    EveryoneServed UpgradeEnds ModemConfigured
