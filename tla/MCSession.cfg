SPECIFICATION FairSpec
CONSTANTS
    MaxTasks = 3
    MaxHandles = 2
    Windows = {TRUE, FALSE}
    MayShutDown = TRUE
    MayFail = TRUE
    None = None
CHECK_DEADLOCK FALSE
INVARIANTS
    MembershipOwned
    OrphansWereDropped
    JanitorListIsSafe
    ConnectionsExact
PROPERTIES
    SuspensionEnds
    SessionsUnwind
