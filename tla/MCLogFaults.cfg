CONSTANTS
  v1 = v1
  v2 = v2
  Value <- TwoValues
  SeqMod = 16
  Erased = Erased
  Hole = Hole
  Garbled = Garbled
  Empty = Empty
  LogSlots = 3
  Straddle = 2
  StartSeq <- NearWrap
  Faults = TRUE
  BankReadFaults = FALSE
  MaxMishaps = 2
SPECIFICATION Spec
INVARIANTS SequencesComparable CutsOnlyDelay
PROPERTIES ImplementsRegister CutsLoseNothing
SYMMETRY SameValues
