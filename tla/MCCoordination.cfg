CONSTANTS
    fp = fp
    fq = fq
    sync = sync
    sx = sx
    sy = sy
    Names = {fp, fq}
    MaxHandle = 2
    Labels = {sync}
    SaveLabels = {sx, sy}
    Groups <- MCGroups
    MaxRequests = 2
    MaxObject = 2
    Disks <- MCDisks
    Unknown = Unknown
    Partial = Partial
    None = None
SPECIFICATION FairSpec
CHECK_DEADLOCK FALSE
INVARIANTS
    SnapshotUnderOwnLabel
    RestoreKeepsNames
    ClashesExplained
PROPERTIES
    ImplementsBarrier
    OperationsEnd
