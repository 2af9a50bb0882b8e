CONSTANTS
    Paths <- MCPaths
    Existing <- MCExisting
    Excluded <- MCExcluded
    Debounce = 1
    PostTimeout = 3
    MaxChanges = 3
    MaxBacklog = 1
    MaxWatchFaults = 2
    Sessions <- MCSessions
    HookBodies <- MCHookBodies
    Noise <- MCNoise
    MaxHooks = 3
    MaxReceiverFaults = 2
    MaxIncidents = 3
SPECIFICATION FairIngestSpec
INVARIANTS
    WatcherInv
    CountsAddUp
    ReceiverInv
    EventsInOrder
PROPERTIES
    LastEventIsTrue
CHECK_DEADLOCK FALSE
