SPECIFICATION FairSpec
CONSTANTS
    Workflows = {w1}
    Pumps = {p1}
    Statuses <- MCStatuses
    StateDefinitions <- MCStates
    Transitions <- MCTransitions
    ActiveStatuses <- MCWorkflowActive
    MaxPerDevice = 1
    MaxReports = 3
    MaxDrops = 1
    MaxCrashes = 1
    NULL = NULL
INVARIANTS TypeOK OutcomeReachesRow
PROPERTIES WatchdogFailsOnlySilence RunningEnds WatchdogFreesPhone
CHECK_DEADLOCK FALSE
