CONSTANTS
    Statuses <- MCStatuses
    StateDefinitions <- MCStateDefinitions
    Transitions <- MCTransitions
    NULL = NULL
    Nodes = {n1}
    Keys = {k1, k2, k3}
    Payloads = {p1}
    ExecutionIds = {x1, x2, x3}
    MaxEpoch = 1
SPECIFICATION Spec
SYMMETRY Symmetry
INVARIANTS TypeOK OneActivePerNode NoOvertaking StatusAgreesWithTimestamps
PROPERTIES ImplementsPhoneLane TerminalIsFinal 
