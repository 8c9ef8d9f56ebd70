CONSTANTS
    NumCode = 2
    NumWatch = 2
    Revision = 0
    AddrEnd = 128
    Addr <- Locations
    Watch <- Watches
    None = None
    Ops = {"set", "clear", "watch", "clearAll", "flash", "reset", "detach"}
    Faults = {"target", "usb", "loses"}
SPECIFICATION Spec
INVARIANT TrackedArmed
INVARIANT ToldStops
INVARIANT NoPhantom
