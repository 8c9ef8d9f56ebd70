CONSTANTS
    Cmds = {"c", "^C", "halt", "vKill"}
    WebOps = {"flash"}
    MaxPackets = 2
    Faults = {"unplug"}
    MaxEvents = 1
SPECIFICATION FairSpec
PROPERTY StopReported
