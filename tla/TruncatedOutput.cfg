\* The geometries of one spatial axis, without the provisos of the passing run.
CONSTANTS
    MaxExtent = 3
    IntMax = 20
    NoContract = NoContract
    Documents <- HeightSweep
SPECIFICATION Spec
INVARIANT AcceptedOutputIsTheDesignFormula
CHECK_DEADLOCK FALSE
