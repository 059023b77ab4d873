CONSTANTS
    Jobs = {}
    Workflows = {w1}
    Children = {c1, c2}
    ParentOf <- MCParentOf
    RootStatuses <- MCRootStatuses
    RootStates <- MCRootStates
    RootTransitions <- MCRootTransitions
    OpStatuses <- MCOpStatuses
    OpStates <- MCOpStates
    OpTransitions <- MCOpTransitions
    Completed = "completed"
    Failed = "failed"
    Cancelled = "cancelled"
    NULL = NULL
SPECIFICATION Spec
SYMMETRY Symmetry
INVARIANT HandleStaysCurrent
PROPERTY AmbiguousFailsClosed
