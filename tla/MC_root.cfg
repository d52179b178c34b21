SPECIFICATION Spec
CONSTANTS
    Node = {1, 2, 3}
    None = 0
    pathSwitchThreshold = 1
    MESH_DEMO = FALSE
    Neighbours <- Line
    Setups = {{1, 3}, {3}}
    Candidates = {1, 3}
    PANN_INTERVAL = 1
    TIMEOUT = 4
    ARBITRATION = 5
    MAX_MPP_NUM = 15
    Faults = {"crash", "start", "bridge", "decision"}
    MaxFault = 1
    Settle = 12
    MaxTime = 15
INVARIANTS TypeOK DeviceKind Elected PortalsKnown
CHECK_DEADLOCK FALSE
