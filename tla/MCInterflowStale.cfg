CONSTANTS
  Library <- MCLibrary
  Signature <- MCSignature
  IntWidth <- MCIntWidth
  Fuel <- MCFuel
  Inputs <- MCInputs
  Programs <- MCPrograms
  Family = "stale"
SPECIFICATION Spec
INVARIANTS
  MeaningPreserved
CHECK_DEADLOCK FALSE
