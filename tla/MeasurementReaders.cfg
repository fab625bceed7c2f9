\* One measurement document, written, edited once and read by Python and C++.
CONSTANTS
    None = None
    Observations <- MCObservations
    Levels <- MCLevels
    Edited <- MCEdited
SPECIFICATION Spec
INVARIANTS
    TypeOK
    AcceptedSummaryIsTrue
    ReadersAgree
CHECK_DEADLOCK FALSE
