SPECIFICATION Spec
CONSTANTS
    Calls <- MCCalls
    Sweeps <- MCSweeps
    Devices <- MCDevices
    Kinds = {"golden", "scaled", "offset"}
    Times = {11, 12, 30}
    Launchers = {"matmul", "fused_matmul_bias_gelu"}
    MaxSweeps = 2
    MaxRaced = 3
INVARIANTS
    GateSound
    RecordsBest
    ServedWasTuned
    OperandsFit
    RacedConfigsFit
PROPERTY
    SweepEnds
CHECK_DEADLOCK FALSE
