SPECIFICATION Spec
CONSTANTS
  Conversations <- MCConversations
  Outputs <- MCOutputs
  Patterns <- MCPatterns
  MaxChunk = 2
  LineMax = 3
  BufMax = 5
  BufKeep = 4
INVARIANTS ItemsRecovered LinesRight WaitersTold
CHECK_DEADLOCK FALSE
