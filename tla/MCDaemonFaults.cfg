CONSTANTS
    plain = plain
    full = full
    Profiles = {plain, full}
    Features <- MCFeatures
    MAX_DRIVER_MESSAGES = 2
    MaxTimeouts = 1
    Faults = {"unplug", "timeout", "read", "write", "nodevice", "open", "uinput", "profile", "config", "throw"}
SPECIFICATION Spec
INVARIANTS
    TypeOK
    Inv
    FrameMatchesDevices
    PollHasGamepad
    DriverOutlivesThreads
PROPERTIES
    SwitchesProfiles
CHECK_DEADLOCK FALSE
