SPECIFICATION Spec
CONSTANTS
  Pollers = {p1, p2}
  Reindexers = {}
  ReindexAlone = TRUE
  Provider = "supabase"
  StartBlock = 1
  Window = 1
  BatchBlocks = 1
  MaxFaults = 1
  Owners = {o1}
  IntentHashes = {h1, h2}
  Receipts = {r1}
  Agents = {a1}
  Stakes = {1}
  MaxChallenges = 1
  MaxBlocks = 3
  NoIntent = NoIntent
CHECK_DEADLOCK FALSE
INVARIANTS
  NothingBelowCursorMissing
  AtMostOneActiveIntent
