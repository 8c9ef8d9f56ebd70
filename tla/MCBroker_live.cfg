CONSTANTS
    Slugs = {s1}
    Clients = {c1}
    Reaper = reaper
    Obj = {o1, o2, o3, o4}
    Ports = {p1}
    None = None
    MaxSessions = 1
    CacheTicks = 0
    Ops = {"ensure", "stop", "wipe", "list"}
    ReaperOn = TRUE
    Faults = {"unhealthy", "exit"}
SPECIFICATION FairSpec
PROPERTY UncountedFound
PROPERTY IdleStopped
