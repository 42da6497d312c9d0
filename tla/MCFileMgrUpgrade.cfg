CONSTANTS
    default = default
    dualsense = dualsense
    dualshock4 = dualshock4
    Profiles <- MCProfiles
    Default = default
    Config = config
    NoFile = NoFile
    MaxChanges = 1
SPECIFICATION Spec
INVARIANTS
    StartCopiesMissing
