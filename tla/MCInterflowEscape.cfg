CONSTANTS
  Library <- MCLibrary
  Signature <- MCSignature
  IntWidth <- MCIntWidth
  Fuel <- MCFuel
  Inputs <- MCInputs
  Programs <- MCPrograms
  Family = "escaping"
SPECIFICATION Spec
INVARIANTS
  AcceptedNeverStuck
CHECK_DEADLOCK FALSE
