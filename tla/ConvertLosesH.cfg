SPECIFICATION Spec
CONSTANTS
  Circuits <- MCCircuits
  Reading <- MCReading
INVARIANTS ConvertedIsTheGraph
CHECK_DEADLOCK FALSE
