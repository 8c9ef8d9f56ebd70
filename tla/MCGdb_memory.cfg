CONSTANTS
    Cmds = {"c", "s", "m", "M", "Z0", "Z1", "z1", "reset halt", "reset", "halt", "flash", "D", "k", "vKill", "drop"}
    WebOps = {}
    MaxPackets = 2
    Faults = {"target", "user"}
    MaxEvents = 1
SPECIFICATION Spec
INVARIANT CacheFresh
INVARIANT LeftRunning
