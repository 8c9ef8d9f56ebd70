SPECIFICATION Spec
CONSTANTS
  Sizes <- MCSizes
  Bank2 = 2
  MaxTransfer = 8
  Files <- MCFiles
  Ranges <- MCRanges
  MaxOps = 2
  MaxFaults = 2
  MaxResets = 1
INVARIANTS OneStep CleanAfter FlashedRight OthersKept LeftLocked FreshStart RangeCovered
CHECK_DEADLOCK FALSE
