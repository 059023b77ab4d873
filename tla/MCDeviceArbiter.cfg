CONSTANTS
    Jobs = {j1}
    Workflows = {w1}
    Children = {c1}
    ParentOf <- MCParentOf
    RootStatuses <- MCRootStatuses
    RootStates <- MCRootStates
    RootTransitions <- MCRootTransitions
    OpStatuses <- MCOpStatuses
    OpStates <- MCOpStates
    OpTransitions <- MCOpTransitions
    Completed = "completed"
    Failed = "failed"
    Cancelled = "cancelled"
    NULL = NULL
SPECIFICATION Spec
INVARIANTS TypeOK OneActiveRoot SentOnce JobFrameHoldsDevice
    FrameIsAccountedFor OutcomeIsThePhones
PROPERTY LaneSpec
