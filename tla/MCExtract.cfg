SPECIFICATION Spec
CONSTANTS
  Circuits <- MCCircuits
  Reading <- MCReading
INVARIANTS MeaningKept FlowExtracts FlowSound
CHECK_DEADLOCK FALSE
