CONSTANTS
    Cmds = {"c", "^C"}
    WebOps = {"flash", "getState"}
    MaxPackets = 2
    Faults = {"unplug", "user"}
    MaxEvents = 1
SPECIFICATION Spec
INVARIANT TypeOK
INVARIANT PollerAlive
INVARIANT BeliefRight
