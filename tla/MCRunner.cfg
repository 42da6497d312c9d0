CONSTANTS
    NBindings = 2
    WaitForExit = {1}
    Delay <- MCDelay
    Pids = {p1, p2}
    SigchldIgnored = TRUE
    MaxEntries = 3
    MaxLoads = 2
SPECIFICATION FairSpec
INVARIANTS
    TypeOK
    EveryChildListed
    OneShellPerId
    ExitLeavesNoChild
PROPERTIES
    ZombiesReaped
    ExecReturns
