SPECIFICATION FairSpec
CONSTANTS
  o1 = o1  o2 = o2  op = op  shop = shop  vault = vault  arbiter = arbiter
  a0 = a0  a1 = a1  a2 = a2  h0 = h0  h1 = h1  h2 = h2  s1 = s1  s2 = s2  usdc = usdc
  legit = legit  second = second
  NoConfig = NoConfig  NoSigner = NoSigner  ZeroAddress = ZeroAddress
  NoAck = NoAck
  Owners = {o1}
  Operators = {}
  Delegates = {op}
  Challengers = {}
  Accounts <- MCAccounts
  StakeVaultAddr = vault
  ArbiterAddr = arbiter
  AgentIds = {a0, a1, a2}
  ZeroAgent = a0
  IntentHashes = {h0, h1, h2}
  ZeroHash = h0
  Tokens = {usdc}
  USDC = usdc
  Digests <- MCDigests
  Signers = {s1, s2}
  Payments = {}
  Stakes = {}
  IntentConfigs <- MCConfigs
  TraceAcks = {}
  InitialBalance <- MCBalance
  MAX_COUNTERPARTIES = 8
  BRONZE_TIER_THRESHOLD = 2
  BRONZE_CHALLENGE_WINDOW = 2
  CHALLENGE_BOND = 1
  DAY = 2
  MaxTime = 2
  MaxExecs = 3
  MaxChallenges = 0
  Runs = {legit, second}
  Consumers = {legit, second}
  Plan <- Plans
  TTL = 1
  MaxMishaps = 1
  MaxTries <- MCTries
  MaxOwnerTxs = 1
CHECK_DEADLOCK FALSE
INVARIANTS
  ReceiptIsReplayable
  ReportedPaymentIsReal
PROPERTIES
  PaidInTheEnd
