CONSTANTS
    NumQubits = 5
    Devices <- MCDevices
    Configs <- MCConfigs
    Placements <- MCPlacements
    Gates <- MCGates
    MaxOps = 5
SPECIFICATION Spec
INVARIANTS
    NoOverlap
    OnCoupledPairs
    RouterInv
PROPERTIES
    GateOnItsQubits
    RoutingEnds
