CONSTANTS
    Statuses <- MCStatuses
    StateDefinitions <- MCStateDefinitions
    Transitions <- MCTransitions
    NULL = NULL
    Nodes = {d1}
    Payloads = {p1}
    DeviceOf <- MCDeviceOf
    Keys = {k1, k2}
    ExecutionIds = {x1, x2}
    Sockets = {s1, s2}
    MaxEpoch = 2
SPECIFICATION Spec
SYMMETRY Symmetry
INVARIANTS TypeOK EpochNamesOneSocket MapNamesTheClaim StartedByItsOwnDispatch
