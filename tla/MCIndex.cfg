SPECIFICATION FairSpec
CONSTANTS
  Pollers = {p1}
  Reindexers = {x1}
  ReindexAlone = TRUE
  Provider = "sqlite"
  StartBlock = 1
  Window = 1
  BatchBlocks = 1
  MaxFaults = 2
  Owners = {o1}
  IntentHashes = {h1, h2}
  Receipts = {r1}
  Agents = {a1}
  Stakes = {1, 2}
  MaxChallenges = 1
  MaxBlocks = 3
  NoIntent = NoIntent
CHECK_DEADLOCK FALSE
INVARIANTS
  SettledRowsAreCurrent
  ReindexRepullsEverything
PROPERTIES
  CatchesUp
