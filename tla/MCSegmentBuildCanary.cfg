SPECIFICATION Spec
CONSTANTS
    Versions = {v1,v2}
    Runs = {r1,r2}
    Callers = {d1}
    Retriers = {q1}
    MaxHandlers = 2
    MaxCrashes = 0
    Statuses <- MCStatuses
    StateDefinitions <- MCStates
    Transitions <- MCTransitions
    NULL = NULL
INVARIANT PromotedRanItself
SYMMETRY Symmetry
CHECK_DEADLOCK FALSE
