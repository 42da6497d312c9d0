CONSTANTS
    default = default
    dualsense = dualsense
    dualshock4 = dualshock4
    Profiles <- MCProfiles
    Default = default
    Config = config
    NoFile = NoFile
    MaxChanges = 4
SPECIFICATION FairSpec
INVARIANTS
    TypeOK
    Inv
    ReadyMeansComplete
PROPERTIES
    UserFilesKept
    StartsConverge
