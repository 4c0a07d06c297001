SPECIFICATION FairSpec
CONSTANTS
  o1 = o1  o2 = o2  c1 = c1  h1 = h1  shop = shop  other = other
  Malformed = Malformed  None = None
  Owners = {o1, o2}
  Clients = {c1}
  Hashes = {h1}
  Manifest <- MCManifest
  Amounts = {1, 2, Malformed}
  Inputs <- MCInputs
  Targets = {shop, other}
  Scores = {90}
  HardThreshold = 90
  MaxTime = 1
  MaxRequests = 2
  MaxFaults = 1
CHECK_DEADLOCK FALSE
INVARIANTS
  AnswerIsTheRow
  BlockedPreflightStaysBlocked
  BlockedIsAnnounced
PROPERTIES
  RowsSettle
