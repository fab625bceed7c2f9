\* A decision edited in the bundle that C++ reads.
CONSTANTS
    None = None
    Contracts <- MCContracts
    Targets <- MCTargets
    Schedules <- MCSchedules
    Latency <- MCLatency
    Samples <- MCSamples
    Weighed <- MCWeighed
    Edits <- MCEdits
    MaxEdits = 2
SPECIFICATION Spec
INVARIANT
    AcceptedDecisionIsValid
