SPECIFICATION Spec
CONSTANTS
  o1 = o1  o2 = o2  op = op  shop = shop  vault = vault  arbiter = arbiter
  a0 = a0  a1 = a1  h0 = h0  h1 = h1  h2 = h2  dg = dg  s1 = s1  s2 = s2
  usdc = usdc  other = other
  NoConfig = NoConfig  NoSigner = NoSigner  ZeroAddress = ZeroAddress
  Owners = {o1, o2}
  Operators = {}
  Delegates = {op}
  Challengers = {}
  Accounts <- MCAccounts
  StakeVaultAddr = vault
  ArbiterAddr = arbiter
  AgentIds = {a0, a1}
  ZeroAgent = a0
  IntentHashes = {h0, h1, h2}
  ZeroHash = h0
  Tokens = {usdc, other}
  USDC = usdc
  Digests = {dg}
  Signers = {s1, s2}
  Payments = {2}
  Stakes = {}
  IntentConfigs <- SpendConfigs
  TraceAcks <- SpendAcks
  InitialBalance <- SpendBalance
  MAX_COUNTERPARTIES = 8
  BRONZE_TIER_THRESHOLD = 2
  BRONZE_CHALLENGE_WINDOW = 2
  CHALLENGE_BOND = 1
  DAY = 2
  MaxTime = 3
  MaxExecs = 2
  MaxChallenges = 0
INVARIANTS
  ReceiptsFormOneHistory
  SpentIsWhatReceiptsSay
  DayTotalWithinCap
  ActiveIntentIsNewest
  ReceiptsHonourTheirIntent
PROPERTIES
  EvidenceIsFinal
CHECK_DEADLOCK FALSE
