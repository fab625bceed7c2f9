\* The readers on every document of the sweep and every single-field edit.
CONSTANTS
    MaxExtent = 3
    IntMax = 20
    NoContract = NoContract
    Documents <- MCDocuments
SPECIFICATION Spec
INVARIANTS
    TypeOK
    NoReaderFaults
    SameConclusionWhenKernelFits
    ExportIsAccepted
    OutputIsTheWindows
PROPERTY RoundTrip
CHECK_DEADLOCK FALSE
