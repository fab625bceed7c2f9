\* The evidence chain with stale artifacts and one edited document.
CONSTANTS
    None = None
    Contracts <- MCContracts
    Targets <- MCTargets
    Schedules <- MCSchedules
    Latency <- MCLatency
    Samples <- MCSamples
    Weighed <- MCWeighed
    Edits <- MCEdits
    MaxEdits = 2
SPECIFICATION Spec
INVARIANTS
    TypeOK
    AcceptedMappingIsLegal
    AcceptedEvidenceIsOfThisChain
