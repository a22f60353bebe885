SPECIFICATION MCSpec
CONSTANTS
    MaxTasks = 4
    Ips = {x, y}
    Loops = {tcp, tls}
    Plain = {tcp}
    max_total = 2
    max_per_ip = 1
    None = None
CHECK_DEADLOCK FALSE
INVARIANTS
    OvershootBounded
    ReadsExactly
PROPERTIES
    RefusedOnlyAtLimit
    FramesReturned
