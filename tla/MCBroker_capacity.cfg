CONSTANTS
    Slugs = {s1, s2, s3}
    Clients = {c1, c2}
    Reaper = reaper
    Obj = {o1, o2, o3}
    Ports = {p1, p2, p3}
    None = None
    MaxSessions = 1
    CacheTicks = 0
    Ops = {"ensure", "stop"}
    ReaperOn = FALSE
    Faults = {}
SPECIFICATION Spec
SYMMETRY Symmetry
INVARIANT CapacityBound
INVARIANT OwnPort
