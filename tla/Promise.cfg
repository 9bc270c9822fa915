SPECIFICATION Spec
CONSTANTS
  MaxPromises = 2
  MaxEmits = 1
  Sharing = TRUE
INVARIANTS NoRingOfWaits ReceiptsAreWhole JoinsAreClean
PROPERTIES WaitsEnd
