CONSTANTS
    t1 = t1
    t2 = t2
    d1 = d1
    Tasks = {t1, t2}
    Devices = {d1}
    DeviceOf <- MCDeviceOf
    AccountTasks = {t1}
    NoRetry = {t1}
    ScheduledTime <- MCScheduledTime
    SortOrder <- MCSortOrder
    Statuses <- MCStatuses
    StateDefinitions <- MCStates
    Transitions <- MCTransitions
    Polls = {p1}
    Slots = {1}
    BatchSize = 1
    MaxRetries = 2
    NULL = NULL
SPECIFICATION FairSpec
  
PROPERTY QueuedTaskStarts
