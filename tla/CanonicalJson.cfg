\* Fingerprints of artifacts, and what both readers make of the file when it is edited.
CONSTANTS
    Keys <- MCKeys
    Values <- MCValues
    Depth <- MCDepth
    MaxMembers = 2
    MaxEdits = 1
SPECIFICATION Spec
INVARIANTS
    TypeOK
    ReferenceIdentifiesContent
    ReadersAgree
CHECK_DEADLOCK FALSE
