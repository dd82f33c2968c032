SPECIFICATION OptimizeSpec
CONSTANTS
  Qubits = 2
  Logical = 2
  Circuits <- MCCircuits
  MaxCommands = 2
  MaxIter = 20
INVARIANTS MeaningKept SettlesEarly
PROPERTIES BasicNeverCosts OptimizeEnds
CHECK_DEADLOCK FALSE
