CONSTANTS
  v1 = v1
  v2 = v2
  Value <- TwoValues
  SeqMod = 16
  Erased = Erased
  Hole = Hole
  Garbled = Garbled
  Empty = Empty
  LogSlots = 3
  Straddle = 2
  StartSeq <- NearWrap
  Faults = FALSE
  BankReadFaults = TRUE
  MaxMishaps = 2
SPECIFICATION Spec
PROPERTY StateSurvives
