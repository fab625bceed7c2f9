\* A trace loaded beside artifacts newer than those it names.
CONSTANTS
    None = None
    Contracts <- MCContracts
    Targets <- MCTargets
    Schedules <- MCSchedules
    Latency <- MCLatency
    Samples <- MCSamples
    Weighed <- MCWeighed
    Edits <- NoEdits
    MaxEdits = 2
SPECIFICATION Spec
INVARIANT
    LoadedTraceResolves
