SPECIFICATION Spec
CONSTANTS
    MaxLocks = 2
    Proc = {p1, p2, p3}
    Start <- StartSame
    Quantity <- One
    EndPort = 5
    Bound = {}
    YieldAfter = 16
    Releases = FALSE
INVARIANT PortsExclusive
CHECK_DEADLOCK FALSE
