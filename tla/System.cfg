CONSTANTS
    MaxPid = 4
    MaxExec = 0
    ExitCodes <- MCExitCodes
    KillFlags = {}
    None = None
SPECIFICATION FairSystemSpec
INVARIANT CleanShutdown
PROPERTY ShutsDown
