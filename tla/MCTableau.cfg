SPECIFICATION TableauSpec
CONSTANTS
  Qubits = 5
  Logical = 4
  Circuits <- MCCircuits
  MaxCommands = 3
  StopsAfter = {0, 1, 3}
  Enough = 1000
  Appendable <- MCAppendable
  Ancillae = {0, 1}
  Orders <- MCOrders
  GroupSizes <- MCGroupSizes
  MaxSolutions = 5
  DefaultConfig <- MCDefault
  Configs <- MCConfigs
INVARIANTS MeaningKept SymplecticKept SearchKeepsProblem
PROPERTIES CostsNeverRise CommandsEnd
CHECK_DEADLOCK FALSE
