SPECIFICATION Spec
CONSTANTS
  Pollers = {p1}
  Reindexers = {}
  ReindexAlone = TRUE
  Provider = "sqlite"
  StartBlock = 1
  Window = 1
  BatchBlocks = 1
  MaxFaults = 1
  Owners = {o1}
  IntentHashes = {h1}
  Receipts = {r1}
  Agents = {a1}
  Stakes = {1}
  MaxChallenges = 1
  MaxBlocks = 2
  NoIntent = NoIntent
CHECK_DEADLOCK FALSE
INVARIANTS
  ActiveIntentIsShown
