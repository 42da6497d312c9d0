CONSTANTS
    Inputs <- MixedInputs
    KeyList = {1, 3}
    AbsList = {1}
    RelList = {2}
    AxisRange <- MixedRange
    KEY_MAX = 5
    ABS_MAX = 3
SPECIFICATION Spec
INVARIANTS
    TypeOK
    KeysFollowReport
    AxesFollowReport
    AtomicFrames
    FirstRelKept
