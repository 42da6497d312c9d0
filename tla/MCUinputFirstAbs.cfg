CONSTANTS
    Inputs <- AxisInputs
    KeyList = {}
    AbsList = {1}
    RelList = {}
    AxisRange <- MixedRange
    KEY_MAX = 5
    ABS_MAX = 3
SPECIFICATION Spec
INVARIANTS
    FirstAbsKept
