\* The estimator on small contracts, profiles and candidates.
CONSTANTS
    None = None
    Precision = 4
    Contracts <- MCContracts
    Targets <- MCTargets
    Proposals <- MCProposals
SPECIFICATION Spec
INVARIANTS
    TypeOK
    EveryTileFits
    OutputCountedOnce
    EstimateCoversOutput
    TrafficIsUpperBound
    OverheadPerVisit
    TileCountsExact
CHECK_DEADLOCK FALSE
