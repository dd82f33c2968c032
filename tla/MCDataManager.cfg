CONSTANTS
    MaxId = 3
    MaxMade = 5
SPECIFICATION ManagerSpec
INVARIANTS
    ManagerInv
PROPERTIES
    KeepsEveryResult
