SPECIFICATION Spec
CONSTANTS
    Versions = {v1, v2}
    Runs = {r1}
    Callers = {d1}
    Retriers = {q1, q2}
    MaxHandlers = 2
    MaxCrashes = 1
    Statuses <- MCStatuses
    StateDefinitions <- MCStates
    Transitions <- MCTransitions
    NULL = NULL
INVARIANTS TypeOK CompletedIsPromoted
PROPERTIES ClaimIsNotUndone RunningCanaryIsNotExpired ReopenedOnce
SYMMETRY Symmetry
CHECK_DEADLOCK FALSE
