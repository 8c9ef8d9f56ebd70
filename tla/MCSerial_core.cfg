SPECIFICATION FairSpec
CONSTANTS
  Ports = {p1}
  Callers = {c1, c2}
  None = None
  Consoles = {k1, k2, k3}
  MaxCables = 2
  MaxCommands = 3
INVARIANTS StatesSettle NoLeak
PROPERTY ComesToRest
CHECK_DEADLOCK FALSE
