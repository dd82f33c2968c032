CONSTANTS
    NumQubits = 4
    Devices <- MCDevices
    Configs <- MCConfigs
    Placements <- MCPlacements
    Jobs <- MCJobs
SPECIFICATION DuostraSpec
INVARIANTS
    WaitlistExact
    MappingIsChecked
PROPERTIES
    MapsTheCircuit
    MappingEnds
