CONSTANTS
  v1 = v1
  v2 = v2
  vBad = vBad
  NoImage = NoImage
  Image <- TwoImages
  Bootable <- GoodImages
  MaxTrial = 2
  MaxPhase = 2
  MaxStorm = 2
  CounterMax = 2
  RequestStates = {"CANDIDATE_VALID"}
  StorageFaults = FALSE
  FlashFaults = FALSE
SPECIFICATION HSpec
PROPERTY BackupBeforeErase
