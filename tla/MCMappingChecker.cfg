CONSTANTS
    NumQubits = 3
    MaxGates = 5
SPECIFICATION Spec
PROPERTIES
    FollowsARun
