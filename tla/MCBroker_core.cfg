CONSTANTS
    Slugs = {s1}
    Clients = {c1, c2}
    Reaper = reaper
    Obj = {o1, o2, o3, o4}
    Ports = {p1}
    None = None
    MaxSessions = 1
    CacheTicks = 2
    Ops = {"ensure", "stop", "wipe"}
    ReaperOn = FALSE
    Faults = {"fail", "timeout", "unhealthy", "restart", "rollout"}
SPECIFICATION Spec
SYMMETRY Symmetry
INVARIANT TypeOK
INVARIANT MutualExclusion
INVARIANT ActsOnWhatItSaw
INVARIANT CacheHonest
