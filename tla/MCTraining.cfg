SPECIFICATION Spec
CONSTANTS
    Inputs <- MCInputs
    DenseSizes <- MCDenseSizes
    MaxLayers = 4
INVARIANTS
    TypeOK
    OrderlyBackwardSucceeds
    StepIsOfOneInput
