SPECIFICATION MCSpec
CONSTANTS
    Tasks = {"lower", "low", "mid", "high"}
    Prio <- MCPrio
    Mutexes = {"m"}
    Uses <- MCUses
    Waits <- MCWaits
    Sleepers = {}
    InCritical = {"lower"}
    Deferred = TRUE
    MaxNest = 2
    Nobody = Nobody
INVARIANTS PrioritiesAreRight RightTaskRuns MutexesWork
PROPERTIES WaitsEnd
