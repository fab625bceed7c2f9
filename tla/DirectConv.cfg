\* direct_conv2d on small convolutions, with buffers of the right and of wrong lengths.
CONSTANTS
    MaxWork = 24
    Contracts <- MCContracts
    LengthErrors <- MCLengthErrors
    Zero = Zero
SPECIFICATION Spec
INVARIANTS
    TypeOK
    AccessesInBounds
    OutputFillsInOrder
PROPERTIES
    NeverReassigned
    ImplementsConvolution
CHECK_DEADLOCK FALSE
