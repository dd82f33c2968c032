CONSTANTS
    NumQubits = 5
    Devices <- AllDevices
SPECIFICATION Spec
INVARIANT PathTables
