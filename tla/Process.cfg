CONSTANTS
    MaxPid = 3
    MaxExec = 1
    ExitCodes <- MCExitCodes
    KillFlags <- MCKillFlags
    None = None
SPECIFICATION FairSpec
INVARIANTS
    QueueIntegrity
    PidTableExact
    FamilyTree
    ReportFaithful
    UserRunsInOwnSpace
    FatalSignalStopsUser
PROPERTIES
    Wait4ResultDelivered
    ImplementsLife
    NoStarvation
    Wait4Completes
    KilledDies
