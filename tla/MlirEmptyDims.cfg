\* Tensor types with a zero dimension.
CONSTANTS
    MaxExtent = 3
    IntMax = 20
    NoContract = NoContract
    Documents <- EmptyDims
SPECIFICATION Spec
INVARIANT MlirAcceptsPositiveDimsOnly
CHECK_DEADLOCK FALSE
