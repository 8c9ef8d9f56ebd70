SPECIFICATION FairSpec
CONSTANTS
  NoManifest = NoManifest
  NoFrontMatter = NoFrontMatter
  NoPack = NoPack
  BadRegExp = BadRegExp
  None = None
  Runs = {"r1"}
  Found <- MCFound
  Places = {"main", "loop"}
  Debuggers = {"cortex"}
  HistoryCap = 1
  MaxEvents = 3
INVARIANTS FirstCopyWins VerdictRight AnswerHeard StopSeen
PROPERTIES EveryCheckEnds
CHECK_DEADLOCK FALSE
