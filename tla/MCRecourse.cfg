SPECIFICATION Spec
CONSTANTS
  o1 = o1  o2 = o2  op = op  shop = shop  vault = vault  arbiter = arbiter
  a0 = a0  a1 = a1  h0 = h0  h1 = h1  h2 = h2  dg = dg  s1 = s1  s2 = s2
  usdc = usdc  other = other
  NoConfig = NoConfig  NoSigner = NoSigner  ZeroAddress = ZeroAddress
  Owners = {o1}
  Operators = {op}
  Delegates = {op}
  Challengers = {op}
  Accounts <- MCAccounts
  StakeVaultAddr = vault
  ArbiterAddr = arbiter
  AgentIds = {a0, a1}
  ZeroAgent = a0
  IntentHashes = {h0, h1}
  ZeroHash = h0
  Tokens = {usdc, other}
  USDC = usdc
  Digests = {dg}
  Signers = {s1}
  Payments = {1, 2}
  Stakes = {1, 2}
  IntentConfigs <- RecourseConfigs
  TraceAcks <- RecourseAcks
  InitialBalance <- RecourseBalance
  MAX_COUNTERPARTIES = 8
  BRONZE_TIER_THRESHOLD = 2
  BRONZE_CHALLENGE_WINDOW = 1
  CHALLENGE_BOND = 1
  DAY = 9
  MaxTime = 3
  MaxExecs = 2
  MaxChallenges = 2
INVARIANTS
  TypeOK
  VaultIsSolvent
PROPERTIES
  StakeFallsOnlyForOverspend
  ChallengeSettlesExactly
  ImplementsEscrow
CHECK_DEADLOCK FALSE
