----------------------------- MODULE GuardTypes -----------------------------
(***************************************************************************)
(* The shared vocabulary of the contracts: addresses, identifiers, the     *)
(* structs of IGuardTypes.sol and the constants of GuardConstants.sol.     *)
(* Hashes, URIs and signatures are members of small sets; only what the    *)
(* contracts compare is kept.                                              *)
(***************************************************************************)
EXTENDS Integers, FiniteSets

CONSTANTS
  Accounts,        \* addresses that hold USDC
  ZeroAddress,     \* address(0), which holds nothing
  StakeVaultAddr,  \* the StakeVault contract's own address
  ArbiterAddr,     \* the ChallengeArbiter contract's own address
  Owners,          \* users who commit intents and approve delegates
  Operators,       \* agent operators
  Delegates,       \* keys that submit executeWithGuard
  Challengers,     \* senders of fileAmountViolation
  AgentIds,        \* bytes32 agent identifiers ...
  ZeroAgent,       \* ... of which bytes32(0) is one
  IntentHashes,    \* bytes32 intent hashes ...
  ZeroHash,        \* ... of which bytes32(0) is one, read as "no active intent"
  Tokens,          \* token addresses a caller may name
  USDC,            \* the one token the contracts accept
  Digests,         \* context digests of decision traces
  Signers,         \* keys that sign TraceAcks and reviewer verdicts
  NoSigner         \* the zero signer

CONSTANTS
  Payments,        \* amounts callers try to pay
  Stakes,          \* amounts operators try to stake
  IntentConfigs,   \* the IntentConfig structs callers pass to commitIntent
  TraceAcks        \* the TraceAcks the infra service may have signed

CONSTANTS
  MAX_COUNTERPARTIES, BRONZE_TIER_THRESHOLD, BRONZE_CHALLENGE_WINDOW,
  CHALLENGE_BOND,
  DAY,             \* `1 days`, in the model's units of time
  MaxTime,         \* bound on block.timestamp
  MaxExecs,        \* bound on executions per owner
  MaxChallenges    \* bound on challenge ids

\* A struct IntentConfig. The address list is a set: only its length and
\* membership are ever read.
IntentConfig ==
  [owner : Accounts, token : Tokens, maxSpendPerTx : Nat,
   maxSpendPerDay : Nat, allowedCounterparties : SUBSET Accounts,
   expiry : Nat, nonce : Nat]

\* A TraceAck together with what its EIP-712 signature covers: the signing key
\* and the agent and owner it was issued for.
TraceAck ==
  [contextDigest : Digests, expiresAt : Nat, signer : Signers,
   agentId : AgentIds, owner : Accounts]

\* keccak256(owner, agentId, nonce, chainid, this): injective, so the tuple.
ReceiptIds == Owners \X AgentIds \X Nat

\* callDataHash is a payload nothing reads and is left out.
ReceiptSummary ==
  [owner : Owners, agentId : AgentIds, intentHash : IntentHashes,
   target : Accounts, token : Tokens, amount : Nat,
   contextDigest : Digests, nonce : Nat, timestamp : Nat]

DayOf(t) == t \div DAY
Days == {DayOf(t) : t \in 1 .. MaxTime}

ASSUME AddressAssumption ==
  /\ ZeroAddress \notin Accounts
  /\ {StakeVaultAddr, ArbiterAddr} \subseteq Accounts
  /\ StakeVaultAddr # ArbiterAddr
  /\ Owners \cup Operators \cup Delegates \cup Challengers \subseteq Accounts
  \* the two contracts send no transaction of their own
  /\ {StakeVaultAddr, ArbiterAddr}
       \cap (Owners \cup Operators \cup Delegates \cup Challengers) = {}

ASSUME IdAssumption ==
  /\ ZeroAgent \in AgentIds
  /\ IsFiniteSet(AgentIds)
  /\ ZeroHash \in IntentHashes
  /\ USDC \in Tokens
  /\ NoSigner \notin Signers

ASSUME InputAssumption ==
  /\ Payments \subseteq Nat
  /\ Stakes \subseteq Nat
  /\ IntentConfigs \subseteq IntentConfig
  /\ TraceAcks \subseteq TraceAck

ASSUME NumberAssumption ==
  /\ {MAX_COUNTERPARTIES, BRONZE_TIER_THRESHOLD, BRONZE_CHALLENGE_WINDOW,
      CHALLENGE_BOND, MaxExecs, MaxChallenges} \subseteq Nat
  /\ DAY \in Nat \ {0}
  /\ MaxTime \in Nat \ {0}
=============================================================================
