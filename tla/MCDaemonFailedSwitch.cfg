CONSTANTS
    plain = plain
    full = full
    Profiles = {plain, full}
    Features <- MCFeatures
    MAX_DRIVER_MESSAGES = 1
    MaxTimeouts = 1
    Faults = {"uinput"}
SPECIFICATION Spec
INVARIANTS
    FailedLoadKeepsProfile
