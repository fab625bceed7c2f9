\* Each class of artifact: loaded from a complete or a shortened document, saved, and the documents edited.
CONSTANT MaxEdits = 3
SPECIFICATION Spec
INVARIANTS
    TypeOK
    ReferenceStaysTrue
    CompleteFileKeepsFingerprint
    RoundTrip
CHECK_DEADLOCK FALSE
