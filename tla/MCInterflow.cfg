CONSTANTS
  Library <- MCLibrary
  Signature <- MCSignature
  IntWidth <- MCIntWidth
  Fuel <- MCFuel
  Inputs <- MCInputs
  Programs <- MCPrograms
  Family = "all"
SPECIFICATION Spec
INVARIANTS
  MeaningPreserved
  AnalysesAreRight
  RejectsOnlyItsInput
  AcceptedNeverStuck
PROPERTIES
  Terminates
CHECK_DEADLOCK FALSE
