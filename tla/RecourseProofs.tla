----------------------------- MODULE RecourseProofs -----------------------------
(***************************************************************************)
(* What a challenge may do to stake and balances, and that the contracts   *)
(* implement StakeEscrow, for every value of the constants.                *)
(***************************************************************************)
EXTENDS VaultRefinement, VaultProofs

\* A challenge slot that can still be resolved names no receipt.
ResolvableIsEmpty ==
  \A i \in ChallengeIds :
    ~challenges[i].resolved => challenges[i].receiptId = ZeroReceiptId

LEMMA ArbiterFrame ==
  ASSUME [Next]_vars
  PROVE  \/ FileAmountViolationTx
         \/ ResolveByReviewerTx
         \/ UNCHANGED <<nextId, challenges>>
BY DEF Next, vars, arbiterVars, CommitIntentTx, RevokeIntentTx, SetWiringTx,
       RegisterAgentTx, StakeTx, SetAgentDelegateTx, ExecuteWithGuardTx,
       SetTraceAckSignerTx, SetReviewerSignerTx, SetReviewerSigner, NextBlock

LEMMA StakeFrame ==
  ASSUME [Next]_vars
  PROVE  StakeTx \/ FileAmountViolationTx \/ ResolveByReviewerTx \/ UNCHANGED stake
BY DEF Next, vars, vaultVars, CommitIntentTx, RevokeIntentTx, SetWiringTx,
       SetWiring, RegisterAgentTx, SetAgentDelegateTx, ExecuteWithGuardTx,
       SetTraceAckSignerTx, SetReviewerSignerTx, NextBlock

LEMMA NoZeroReceipt == ASSUME TypeOK PROVE ZeroReceiptId \notin DOMAIN receipts
<1>1. ZeroReceiptId \notin ReceiptIds
  <2>1. SUFFICES ASSUME ZeroReceiptId \in ReceiptIds PROVE FALSE
    OBVIOUS
  <2>2. Len(ZeroReceiptId) = 0
    BY DEF ZeroReceiptId
  <2>3. PICK o \in Owners, a \in AgentIds, n \in Nat : ZeroReceiptId = <<o, a, n>>
    BY <2>1 DEF ReceiptIds
  <2>4. QED
    BY <2>2, <2>3
<1>2. QED
  BY <1>1 DEF TypeOK, ExecutorTypeOK

LEMMA ResolvableInductive ==
  ASSUME TypeOK, ResolvableIsEmpty, [Next]_vars
  PROVE  ResolvableIsEmpty'
<1>1. CASE FileAmountViolationTx
  BY <1>1 DEF FileAmountViolationTx, FileAmountViolation, ResolvableIsEmpty,
              TypeOK, ArbiterTypeOK
<1>2. CASE ResolveByReviewerTx
  BY <1>2 DEF ResolveByReviewerTx, ResolveByReviewer, ResolvableIsEmpty,
              TypeOK, ArbiterTypeOK
<1>3. CASE UNCHANGED <<nextId, challenges>>
  BY <1>3 DEF ResolvableIsEmpty
<1>4. QED
  BY <1>1, <1>2, <1>3, ArbiterFrame

LEMMA ResolvableHolds == Spec => []ResolvableIsEmpty
<1>1. Init => ResolvableIsEmpty
  BY DEF Init, ArbiterInit, ZeroChallenge, ResolvableIsEmpty
<1>2. TypeOK /\ ResolvableIsEmpty /\ [Next]_vars => ResolvableIsEmpty'
  BY ResolvableInductive
<1>3. QED
  BY <1>1, <1>2, TypeCorrect, PTL DEF Spec

\* The only verdicts that succeed are those that do not uphold.
LEMMA VerdictMovesNothing ==
  ASSUME TypeOK, ResolvableIsEmpty, ResolveByReviewerTx
  PROVE  UNCHANGED <<stake, balance, nextId>>
<1>1. PICK id \in ChallengeIds, uphold \in BOOLEAN, amount \in Payments,
           s \in Signers : ResolveByReviewer(id, uphold, amount, s)
  BY DEF ResolveByReviewerTx
<1> DEFINE rid == challenges[id].receiptId
<1>2. rid \notin DOMAIN receipts
  BY <1>1, NoZeroReceipt DEF ResolveByReviewer, ResolvableIsEmpty
<1>3. ~uphold
  <2>1. SUFFICES ASSUME uphold PROVE FALSE
    OBVIOUS
  <2>2. Slash(balance, GetReceipt(rid).agentId, GetReceipt(rid).owner, amount)
    BY <1>1, <2>1 DEF ResolveByReviewer
  <2>3. QED
    BY <1>2, <2>2, SlashNeedsAReceipt
<1>4. QED
  BY <1>1, <1>3 DEF ResolveByReviewer
-----------------------------------------------------------------------------
\* What filing a challenge on receipt r has checked, and the stake it leaves.
Filed(rid, r, sender) ==
  /\ rid \in DOMAIN receipts /\ r = receipts[rid]
  /\ r \in ReceiptSummary
  /\ sender \in Challengers
  /\ r.amount > intentConfig[r.intentHash].maxSpendPerTx
  /\ now - r.timestamp <= BRONZE_CHALLENGE_WINDOW
  /\ nextId' = nextId + 1
  /\ challenges'[nextId'].receiptId = rid
  /\ r.amount # 0 /\ stake[r.agentId] # 0
  /\ stake' = [stake EXCEPT ![r.agentId] = @ - SlashActual(r.agentId, r.amount)]
  /\ balance' =
       BondRefund(SlashPays(Transfer(balance, sender, ArbiterAddr, CHALLENGE_BOND),
                            r.agentId, r.owner, r.amount), sender)

LEMMA FileEffect ==
  ASSUME TypeOK, FileAmountViolationTx
  PROVE  \E rid, r, sender : Filed(rid, r, sender)
<1>1. PICK sender \in Challengers, rid \in DOMAIN receipts :
        FileAmountViolation(sender, rid)
  BY DEF FileAmountViolationTx
<1> DEFINE r == receipts[rid]
<1>2. r \in ReceiptSummary /\ GetReceipt(rid) = r
  BY DEF TypeOK, ExecutorTypeOK, GetReceipt
<1>3. nextId + 1 \in ChallengeIds
  BY <1>1, NumberAssumption
     DEF FileAmountViolation, ChallengeIds, TypeOK, ArbiterTypeOK
<1>4. /\ nextId' = nextId + 1
      /\ challenges'[nextId'].receiptId = rid
  BY <1>1, <1>3 DEF FileAmountViolation, TypeOK, ArbiterTypeOK
<1>5. /\ WindowOpen(r) /\ Overspends(r)
      /\ Slash(Transfer(balance, sender, ArbiterAddr, CHALLENGE_BOND),
               r.agentId, r.owner, r.amount)
      /\ balance' =
           BondRefund(SlashPays(Transfer(balance, sender, ArbiterAddr,
             CHALLENGE_BOND), r.agentId, r.owner, r.amount), sender)
  BY <1>1, <1>2 DEF FileAmountViolation
<1>6. now - r.timestamp <= BRONZE_CHALLENGE_WINDOW
  <2> HIDE DEF r
  <2>1. now \in Nat /\ r.timestamp \in Nat /\ BRONZE_CHALLENGE_WINDOW \in Nat
    BY <1>2, NumberAssumption DEF TypeOK, ChainTypeOK, ReceiptSummary
  <2>2. ChallengeWindow(r.agentId) \in {0, BRONZE_CHALLENGE_WINDOW}
    BY DEF ChallengeWindow
  <2>3. QED
    BY <1>5, <2>1, <2>2 DEF WindowOpen
<1>7. Filed(rid, r, sender)
  <2> HIDE DEF r
  <2>1. QED
    BY <1>2, <1>4, <1>5, <1>6 DEF Filed, Overspends, Slash, r
<1>8. QED
  BY <1>7

\* The stake of an agent falls only when a challenge is filed against a receipt
\* of that agent that overspent and is within the Bronze window.
THEOREM StakeIsSafe == Spec => StakeFallsOnlyForOverspend
<1>1. ASSUME TypeOK, ResolvableIsEmpty, [Next]_vars,
             NEW a \in AgentIds, stake'[a] < stake[a]
      PROVE  /\ nextId' = nextId + 1
             /\ LET r == receipts[challenges'[nextId'].receiptId] IN
                /\ r.agentId = a
                /\ r.amount > ConfigOf(r).maxSpendPerTx
                /\ now - r.timestamp <= BRONZE_CHALLENGE_WINDOW
                /\ stake[a] - stake'[a] <= r.amount
  <2>1. stake \in [AgentIds -> Nat]
    BY <1>1 DEF TypeOK, VaultTypeOK
  <2>2. ~UNCHANGED stake
    BY <1>1, <2>1
  <2>3. ~StakeTx
    <3>1. SUFFICES ASSUME StakeTx PROVE FALSE
      OBVIOUS
    <3>2. PICK b \in AgentIds, amount \in Stakes :
            stake' = [stake EXCEPT ![b] = @ + amount]
      BY <3>1 DEF StakeTx, Stake, Deposit
    <3>3. QED
      BY <1>1, <2>1, <3>2, InputAssumption
  <2>4. FileAmountViolationTx
    BY <1>1, <2>2, <2>3, StakeFrame, VerdictMovesNothing
  <2>5. PICK rid, r, sender : Filed(rid, r, sender)
    BY <1>1, <2>4, FileEffect
  <2>6. r.agentId \in AgentIds /\ r.amount \in Nat
    BY <2>5 DEF Filed, ReceiptSummary
  <2>7. SlashActual(r.agentId, r.amount) \in Nat
        /\ SlashActual(r.agentId, r.amount) <= r.amount
    BY <1>1, <2>6, SlashActualType DEF TypeOK
  <2>8. /\ r.agentId = a
        /\ stake[a] - stake'[a] = SlashActual(r.agentId, r.amount)
    BY <1>1, <2>1, <2>5, <2>6, <2>7 DEF Filed
  <2>9. QED
    BY <2>5, <2>7, <2>8 DEF Filed, ConfigOf
<1>2. TypeOK /\ ResolvableIsEmpty /\ [Next]_vars
        => [\A a \in AgentIds : stake'[a] < stake[a] =>
              /\ nextId' = nextId + 1
              /\ LET r == receipts[challenges'[nextId'].receiptId] IN
                 /\ r.agentId = a
                 /\ r.amount > ConfigOf(r).maxSpendPerTx
                 /\ now - r.timestamp <= BRONZE_CHALLENGE_WINDOW
                 /\ stake[a] - stake'[a] <= r.amount]_vars
  BY <1>1
<1>3. QED
  BY <1>2, ResolvableHolds, TypeCorrect, PTL DEF Spec, StakeFallsOnlyForOverspend
-----------------------------------------------------------------------------
LEMMA SameFunction ==
  ASSUME NEW f \in [Accounts -> Int], NEW g \in [Accounts -> Int],
         \A x \in Accounts : f[x] = g[x]
  PROVE  f = g
OBVIOUS

\* The bond goes to the arbiter and back around the payout, so that only the
\* payout is left, whether or not the challenger is the one paid out.
LEMMA BondCancels ==
  ASSUME NEW bal \in [Accounts -> Nat], NEW paid \in Nat,
         NEW sender \in Challengers, NEW to \in Owners
  PROVE  Transfer(Transfer(Transfer(bal, sender, ArbiterAddr, CHALLENGE_BOND),
                           StakeVaultAddr, to, paid),
                  ArbiterAddr, sender, CHALLENGE_BOND)
           = Transfer(bal, StakeVaultAddr, to, paid)
<1>1. /\ CHALLENGE_BOND \in Int /\ paid \in Int
      /\ sender \in Accounts /\ to \in Accounts
      /\ ArbiterAddr \in Accounts /\ StakeVaultAddr \in Accounts
      /\ ArbiterAddr # StakeVaultAddr
      /\ ArbiterAddr # sender /\ ArbiterAddr # to
      /\ StakeVaultAddr # sender /\ StakeVaultAddr # to
  BY NumberAssumption, AddressAssumption
<1> DEFINE bonded  == Transfer(bal, sender, ArbiterAddr, CHALLENGE_BOND)
           slashed == Transfer(bonded, StakeVaultAddr, to, paid)
           settled == Transfer(slashed, ArbiterAddr, sender, CHALLENGE_BOND)
           direct  == Transfer(bal, StakeVaultAddr, to, paid)
<1>2. bal \in [Accounts -> Int]
  OBVIOUS
<1>3. /\ bonded \in [Accounts -> Int]
      /\ \A x \in Accounts :
           bonded[x] = IF x = sender THEN bal[x] - CHALLENGE_BOND
                       ELSE IF x = ArbiterAddr THEN bal[x] + CHALLENGE_BOND
                       ELSE bal[x]
  BY <1>1, <1>2 DEF Transfer
<1>4. /\ slashed \in [Accounts -> Int]
      /\ \A x \in Accounts :
           slashed[x] = IF x = StakeVaultAddr THEN bonded[x] - paid
                        ELSE IF x = to THEN bonded[x] + paid
                        ELSE bonded[x]
  <2> HIDE DEF bonded
  <2>1. QED
    BY <1>1, <1>3 DEF Transfer
<1>5. /\ settled \in [Accounts -> Int]
      /\ \A x \in Accounts :
           settled[x] = IF x = ArbiterAddr THEN slashed[x] - CHALLENGE_BOND
                        ELSE IF x = sender THEN slashed[x] + CHALLENGE_BOND
                        ELSE slashed[x]
  <2> HIDE DEF slashed
  <2>1. QED
    BY <1>1, <1>4 DEF Transfer
<1>6. /\ direct \in [Accounts -> Int]
      /\ \A x \in Accounts :
           direct[x] = IF x = StakeVaultAddr THEN bal[x] - paid
                       ELSE IF x = to THEN bal[x] + paid
                       ELSE bal[x]
  BY <1>1, <1>2 DEF Transfer
<1> HIDE DEF bonded, slashed, settled, direct
<1>7. ASSUME NEW x \in Accounts PROVE settled[x] = direct[x]
  <2>1. bal[x] \in Int
    BY <1>2
  <2>2. QED
    BY <1>1, <1>3, <1>4, <1>5, <1>6, <2>1
<1>8. settled = direct
  BY <1>5, <1>6, <1>7, SameFunction
<1>9. QED
  BY <1>8 DEF settled, slashed, bonded, direct

\* Filing a challenge moves min(stake, amount) from the vault to the owner of
\* the receipt and nothing else.
THEOREM SettlementIsExact == Spec => ChallengeSettlesExactly
<1>1. ASSUME TypeOK, ResolvableIsEmpty, [Next]_vars, nextId' # nextId
      PROVE  LET r    == receipts[challenges'[nextId'].receiptId]
                 paid == stake[r.agentId] - stake'[r.agentId]
             IN /\ paid > 0
                /\ paid = r.amount \/ stake'[r.agentId] = 0
                /\ balance' = [balance EXCEPT ![StakeVaultAddr] = @ - paid,
                                              ![r.owner] = @ + paid]
  <2>1. FileAmountViolationTx
    BY <1>1, ArbiterFrame, VerdictMovesNothing
  <2>2. PICK rid, r, sender : Filed(rid, r, sender)
    BY <1>1, <2>1, FileEffect
  <2> DEFINE paid == SlashActual(r.agentId, r.amount)
  <2>3. /\ r.agentId \in AgentIds /\ r.amount \in Nat /\ r.owner \in Owners
        /\ stake[r.agentId] \in Nat
        /\ stake \in [AgentIds -> Nat]
        /\ balance \in [Accounts -> Nat]
    BY <1>1, <2>2
       DEF Filed, ReceiptSummary, TypeOK, VaultTypeOK, ChainTypeOK
  <2>4. /\ paid \in Nat /\ paid > 0
        /\ paid = r.amount \/ paid = stake[r.agentId]
    BY <2>2, <2>3 DEF Filed, SlashActual
  <2>5. r = receipts[challenges'[nextId'].receiptId]
    <3>1. challenges'[nextId'].receiptId = rid /\ r = receipts[rid]
      BY <2>2 DEF Filed
    <3>2. QED
      BY <3>1
  <2>6. balance' = [balance EXCEPT ![StakeVaultAddr] = @ - paid,
                                  ![r.owner] = @ + paid]
    <3> HIDE DEF paid
    <3>1. /\ sender \in Challengers
          /\ balance' = Transfer(Transfer(Transfer(balance, sender, ArbiterAddr,
                          CHALLENGE_BOND), StakeVaultAddr, r.owner, paid),
                          ArbiterAddr, sender, CHALLENGE_BOND)
      BY <2>2 DEF Filed, SlashPays, BondRefund, paid
    <3>2. balance' = Transfer(balance, StakeVaultAddr, r.owner, paid)
      BY <2>3, <2>4, <3>1, BondCancels
    <3>3. QED
      BY <3>2 DEF Transfer
  <2>7. stake'[r.agentId] = stake[r.agentId] - paid
    BY <2>2, <2>3 DEF Filed
  <2> HIDE DEF paid
  <2>8. /\ stake[r.agentId] - stake'[r.agentId] = paid
        /\ paid = r.amount \/ stake'[r.agentId] = 0
    BY <2>3, <2>4, <2>7
  <2>9. QED
    BY <2>4, <2>5, <2>6, <2>8
<1>2. TypeOK /\ ResolvableIsEmpty /\ [Next]_vars
        => [nextId' # nextId =>
              LET r    == receipts[challenges'[nextId'].receiptId]
                  paid == stake[r.agentId] - stake'[r.agentId]
              IN /\ paid > 0
                 /\ paid = r.amount \/ stake'[r.agentId] = 0
                 /\ balance' = [balance EXCEPT ![StakeVaultAddr] = @ - paid,
                                               ![r.owner] = @ + paid]]_vars
  BY <1>1
<1>3. QED
  BY <1>2, ResolvableHolds, TypeCorrect, PTL DEF Spec, ChallengeSettlesExactly

-----------------------------------------------------------------------------
(* The vault holds what it owes. *)

\* The total of the stakes, once amount is added to that of agent a.
LEMMA TotalStakeChange ==
  ASSUME TypeOK, NEW a \in AgentIds, NEW amount \in Int,
         stake'[a] = stake[a] + amount,
         \A x \in AgentIds \ {a} : stake'[x] = stake[x]
  PROVE  /\ SumFunctionOnSet(stake, AgentIds) \in Int
         /\ SumFunctionOnSet(stake', AgentIds)
              = SumFunctionOnSet(stake, AgentIds) + amount
<1>1. stake \in [AgentIds -> Nat] /\ IsFiniteSet(AgentIds)
  BY IdAssumption DEF TypeOK, VaultTypeOK
<1>2. \A x \in AgentIds : stake[x] \in Int
  BY <1>1
<1>3. SumFunctionOnSet(stake, AgentIds) \in Int
  BY <1>1, <1>2, SumRemove
<1>4. SumFunctionOnSet(stake', AgentIds) = SumFunctionOnSet(stake, AgentIds) + amount
  <2> DEFINE new == stake'
  <2> HIDE DEF new
  <2>1. /\ \A x \in AgentIds \ {a} : new[x] = stake[x]
        /\ new[a] = stake[a] + amount
    BY DEF new
  <2>2. SumFunctionOnSet(new, AgentIds) = SumFunctionOnSet(stake, AgentIds) + amount
    BY <1>1, <1>2, <2>1, SumChange
  <2>3. QED
    BY <2>2 DEF new
<1>5. QED
  BY <1>3, <1>4

\* A challenge takes from the vault what it takes from one agent's stake.
LEMMA ChallengePays ==
  ASSUME TypeOK, FileAmountViolationTx
  PROVE  \E a \in AgentIds, o \in Owners, paid \in Nat :
           /\ stake' = [stake EXCEPT ![a] = @ - paid]
           /\ balance' = Transfer(balance, StakeVaultAddr, o, paid)
<1>1. PICK rid, r, sender : Filed(rid, r, sender)
  BY FileEffect
<1> DEFINE paid == SlashActual(r.agentId, r.amount)
<1>2. /\ r.agentId \in AgentIds /\ r.owner \in Owners /\ r.amount \in Nat
      /\ balance \in [Accounts -> Nat] /\ stake \in [AgentIds -> Nat]
  BY <1>1 DEF Filed, ReceiptSummary, TypeOK, ChainTypeOK, VaultTypeOK
<1>3. paid \in Nat
  BY <1>2, SlashActualType DEF TypeOK
<1>4. stake' = [stake EXCEPT ![r.agentId] = @ - paid]
  BY <1>1 DEF Filed
<1>5. /\ sender \in Challengers
      /\ balance' = Transfer(Transfer(Transfer(balance, sender, ArbiterAddr,
                      CHALLENGE_BOND), StakeVaultAddr, r.owner, paid),
                      ArbiterAddr, sender, CHALLENGE_BOND)
  BY <1>1 DEF Filed, SlashPays, BondRefund
<1> HIDE DEF paid
<1>6. balance' = Transfer(balance, StakeVaultAddr, r.owner, paid)
  BY <1>2, <1>3, <1>5, BondCancels
<1>7. QED
  BY <1>2, <1>3, <1>4, <1>6

LEMMA SolventInductive ==
  ASSUME TypeOK, ResolvableIsEmpty, VaultIsSolvent, [Next]_vars
  PROVE  VaultIsSolvent'
<1> DEFINE owed == SumFunctionOnSet(stake, AgentIds)
           held == balance[StakeVaultAddr]
<1>1. /\ balance \in [Accounts -> Nat] /\ stake \in [AgentIds -> Nat]
      /\ StakeVaultAddr \in Accounts /\ held \in Nat
      /\ \A x \in Owners \cup Operators : x \in Accounts /\ x # StakeVaultAddr
  BY AddressAssumption DEF TypeOK, ChainTypeOK, VaultTypeOK
<1>2. owed \in Int /\ held >= owed
  <2>1. \A x \in AgentIds : stake[x] \in Int
    BY <1>1
  <2>2. QED
    BY <2>1, IdAssumption, SumRemove DEF VaultIsSolvent
<1>3. CASE StakeTx
  <2>1. PICK sender \in Operators, a \in AgentIds, amount \in Stakes :
          /\ stake' = [stake EXCEPT ![a] = @ + amount]
          /\ balance' = Transfer(balance, sender, StakeVaultAddr, amount)
    BY <1>3 DEF StakeTx, Stake, Deposit
  <2>2. amount \in Nat
    BY InputAssumption
  <2>3. held' = held + amount
    BY <1>1, <2>1, <2>2 DEF Transfer
  <2>4. owed' = owed + amount
    <3>1. /\ stake'[a] = stake[a] + amount
          /\ \A x \in AgentIds \ {a} : stake'[x] = stake[x]
      BY <1>1, <2>1
    <3>2. QED
      BY <2>2, <3>1, TotalStakeChange
  <2> HIDE DEF owed, held
  <2>5. QED
    BY <1>1, <1>2, <2>2, <2>3, <2>4 DEF VaultIsSolvent, owed, held
<1>4. CASE FileAmountViolationTx
  <2>1. PICK a \in AgentIds, o \in Owners, paid \in Nat :
          /\ stake' = [stake EXCEPT ![a] = @ - paid]
          /\ balance' = Transfer(balance, StakeVaultAddr, o, paid)
    BY <1>4, ChallengePays
  <2>2. held' = held - paid
    BY <1>1, <2>1 DEF Transfer
  <2>3. owed' = owed + (0 - paid)
    <3>1. /\ stake'[a] = stake[a] + (0 - paid)
          /\ \A x \in AgentIds \ {a} : stake'[x] = stake[x]
      BY <1>1, <2>1
    <3>2. 0 - paid \in Int
      OBVIOUS
    <3>3. QED
      BY <3>1, <3>2, TotalStakeChange
  <2> HIDE DEF owed, held
  <2>4. QED
    BY <1>1, <1>2, <2>2, <2>3 DEF VaultIsSolvent, owed, held
<1>5. CASE ExecuteWithGuardTx
  <2>1. PICK sender \in Delegates, req \in Request :
          balance' = Transfer(balance, req.owner, req.target, req.amount)
    BY <1>5 DEF ExecuteWithGuardTx, ExecuteWithGuard
  <2>2. req.owner \in Owners /\ req.target \in Accounts /\ req.amount \in Nat
    BY InputAssumption DEF Request
  <2>3. held' >= held /\ held' \in Nat
    BY <1>1, <2>1, <2>2 DEF Transfer
  <2>4. UNCHANGED stake
    BY <1>5 DEF ExecuteWithGuardTx, vaultVars
  <2>5. QED
    BY <1>1, <1>2, <2>3, <2>4 DEF VaultIsSolvent
<1>6. CASE ResolveByReviewerTx
  BY <1>6, VerdictMovesNothing DEF VaultIsSolvent
<1>7. CASE UNCHANGED <<stake, balance>>
  BY <1>7 DEF VaultIsSolvent
<1>8. QED
  <2>1. \/ StakeTx \/ FileAmountViolationTx \/ ExecuteWithGuardTx
        \/ ResolveByReviewerTx \/ UNCHANGED <<stake, balance>>
    BY DEF Next, vars, chainVars, vaultVars, CommitIntentTx, RevokeIntentTx,
           SetWiringTx, SetWiring, RegisterAgentTx, SetAgentDelegateTx,
           SetTraceAckSignerTx, SetReviewerSignerTx, NextBlock, Tick
  <2>2. QED
    BY <1>3, <1>4, <1>5, <1>6, <1>7, <2>1

\* At any moment StakeVault can return every agent's stake in full.
THEOREM VaultStaysSolvent == Spec => []VaultIsSolvent
<1>1. Init => VaultIsSolvent
  <2> SUFFICES ASSUME Init PROVE VaultIsSolvent
    OBVIOUS
  <2>1. \A x \in AgentIds : stake[x] = 0
    BY DEF Init, VaultInit
  <2>2. SumFunctionOnSet(stake, AgentIds) = 0
    BY <2>1, IdAssumption, SumZero
  <2>3. balance[StakeVaultAddr] \in Nat
    BY AddressAssumption, BalanceAssumption DEF Init, ChainInit
  <2>4. QED
    BY <2>2, <2>3 DEF VaultIsSolvent
<1>2. TypeOK /\ ResolvableIsEmpty /\ VaultIsSolvent /\ [Next]_vars
      => VaultIsSolvent'
  BY SolventInductive
<1>3. QED
  BY <1>1, <1>2, TypeCorrect, ResolvableHolds, PTL DEF Spec

----------------------------------------------------------------------------
(* The contracts implement StakeEscrow.                                    *)

\* Claims are numbered by the arbiter: an upheld claim has a number handed out.
UpheldAreFiled == \A i \in Upheld : events[i].id \in 1 .. nextId

\* What a verdict can still do: report a refusal.
Refused(id) ==
  /\ events' = Append(events, ResolvedEvent(id, FALSE, 0))
  /\ challenges' = [challenges EXCEPT ![id].resolved = TRUE]
  /\ UNCHANGED <<stake, nextId>>

LEMMA VerdictRefuses ==
  ASSUME TypeOK, ResolvableIsEmpty, ResolveByReviewerTx
  PROVE  \E id \in ChallengeIds : Refused(id)
<1>1. PICK id \in ChallengeIds, uphold \in BOOLEAN, amount \in Payments,
           s \in Signers : ResolveByReviewer(id, uphold, amount, s)
  BY DEF ResolveByReviewerTx
<1> DEFINE rid == challenges[id].receiptId
<1>2. rid \notin DOMAIN receipts
  BY <1>1, NoZeroReceipt DEF ResolveByReviewer, ResolvableIsEmpty
<1>3. ~uphold
  <2>1. SUFFICES ASSUME uphold PROVE FALSE
    OBVIOUS
  <2>2. Slash(balance, GetReceipt(rid).agentId, GetReceipt(rid).owner, amount)
    BY <1>1, <2>1 DEF ResolveByReviewer
  <2>3. QED
    BY <1>2, <2>2, SlashNeedsAReceipt
<1>4. uphold = FALSE
  BY <1>3
<1>5. Refused(id)
  BY <1>1, <1>4 DEF ResolveByReviewer, Refused
<1>6. QED
  BY <1>5

LEMMA EventFrame ==
  ASSUME [Next]_vars
  PROVE  \/ FileAmountViolationTx
         \/ ResolveByReviewerTx
         \/ UNCHANGED <<nextId, challenges, events>>
BY DEF Next, vars, arbiterVars, CommitIntentTx, RevokeIntentTx, SetWiringTx,
       RegisterAgentTx, StakeTx, SetAgentDelegateTx, ExecuteWithGuardTx,
       SetTraceAckSignerTx, SetReviewerSignerTx, SetReviewerSigner, NextBlock

\* The two events of a challenge, of which the second is upheld.
Reported(rid, n) ==
  /\ \E c : events' = Append(Append(events, FiledEvent(nextId + 1, rid, c)),
                             ResolvedEvent(nextId + 1, TRUE, n))
  /\ nextId + 1 \in ChallengeIds
  /\ nextId' = nextId + 1
  /\ challenges'[nextId + 1].receiptId = rid
  /\ \A i \in 1 .. nextId : challenges'[i] = challenges[i]

LEMMA FileReports ==
  ASSUME TypeOK, FileAmountViolationTx
  PROVE  \E rid \in DOMAIN receipts :
           LET r == receipts[rid] IN
           /\ Reported(rid, SlashActual(r.agentId, r.amount))
           /\ Overspends(r)
           /\ r.amount # 0 /\ stake[r.agentId] # 0
           /\ stake' = [stake EXCEPT ![r.agentId] = @ - SlashActual(r.agentId, r.amount)]
<1>1. PICK sender \in Challengers, rid \in DOMAIN receipts :
        FileAmountViolation(sender, rid)
  BY DEF FileAmountViolationTx
<1> DEFINE r == receipts[rid]
           bonded == Transfer(balance, sender, ArbiterAddr, CHALLENGE_BOND)
<1>2. GetReceipt(rid) = r
  BY <1>1 DEF GetReceipt
<1>3. nextId \in Nat /\ nextId + 1 \in ChallengeIds
  BY <1>1, NumberAssumption
     DEF FileAmountViolation, ChallengeIds, TypeOK, ArbiterTypeOK
<1>4. /\ nextId' = nextId + 1
      /\ challenges' = [challenges EXCEPT ![nextId + 1] =
           [receiptId |-> rid, challenger |-> sender, resolved |-> TRUE]]
      /\ challenges \in [ChallengeIds -> Challenge]
      /\ events' = Append(Append(events, FiledEvent(nextId + 1, rid, sender)),
                     ResolvedEvent(nextId + 1, TRUE, SlashActual(r.agentId, r.amount)))
  BY <1>1, <1>2 DEF FileAmountViolation, TypeOK, ArbiterTypeOK
<1>5. Reported(rid, SlashActual(r.agentId, r.amount))
  <2> HIDE DEF r
  <2>1. challenges'[nextId + 1].receiptId = rid
    BY <1>3, <1>4
  <2>2. ASSUME NEW i \in 1 .. nextId PROVE challenges'[i] = challenges[i]
    <3>1. i # nextId + 1 /\ i \in ChallengeIds
      BY <1>3, NumberAssumption DEF ChallengeIds
    <3>2. QED
      BY <1>4, <3>1
  <2>3. QED
    BY <1>3, <1>4, <2>1, <2>2 DEF Reported
<1>6. Overspends(r) /\ Slash(bonded, r.agentId, r.owner, r.amount)
  BY <1>1, <1>2 DEF FileAmountViolation
<1>7. /\ r.amount # 0 /\ stake[r.agentId] # 0
      /\ stake' = [stake EXCEPT ![r.agentId] = @ - SlashActual(r.agentId, r.amount)]
  <2> HIDE DEF r
  <2>1. QED
    BY <1>6 DEF Slash
<1>8. QED
  BY <1>5, <1>6, <1>7
-----------------------------------------------------------------------------
\* How the settled claims follow from the events.

LEMMA AppendOne ==
  ASSUME NEW S, NEW s \in Seq(S), NEW e
  PROVE  /\ DOMAIN s = 1 .. Len(s) /\ Len(s) \in Nat
         /\ DOMAIN Append(s, e) = 1 .. Len(s) + 1
         /\ Append(s, e)[Len(s) + 1] = e
         /\ \A i \in 1 .. Len(s) : Append(s, e)[i] = s[i]
OBVIOUS

LEMMA QuietEvents ==
  ASSUME UNCHANGED <<nextId, challenges, events>>, UpheldAreFiled
  PROVE  Settled' = Settled /\ UpheldAreFiled'
BY DEF Settled, SettledBy, Upheld, UpheldAreFiled

LEMMA RefusedSettlesNothing ==
  ASSUME TypeOK, UpheldAreFiled, NEW id \in ChallengeIds, Refused(id)
  PROVE  Settled' = Settled /\ UpheldAreFiled'
<1>1. events \in Seq(ArbiterEvent) /\ challenges \in [ChallengeIds -> Challenge]
  BY DEF TypeOK, ArbiterTypeOK
<1> DEFINE new == ResolvedEvent(id, FALSE, 0)
<1>2. new.uphold = FALSE
  BY DEF ResolvedEvent
<1>3. events' = Append(events, new) /\ nextId' = nextId
  BY DEF Refused
<1>4. \A i \in ChallengeIds : challenges'[i].receiptId = challenges[i].receiptId
  BY <1>1 DEF Refused, Challenge
<1> HIDE DEF new
<1>5. /\ DOMAIN events = 1 .. Len(events) /\ Len(events) \in Nat
      /\ DOMAIN events' = 1 .. Len(events) + 1
      /\ events'[Len(events) + 1] = new
      /\ \A i \in 1 .. Len(events) : events'[i] = events[i]
  BY <1>1, <1>3, AppendOne
<1>6. Upheld' = Upheld
  BY <1>2, <1>5 DEF Upheld
<1>7. ASSUME NEW i \in Upheld PROVE SettledBy(i)' = SettledBy(i) /\ events'[i].id = events[i].id
  <2>1. events'[i] = events[i] /\ events[i].id \in 1 .. nextId
    BY <1>5 DEF Upheld, UpheldAreFiled
  <2>2. events[i].id \in ChallengeIds
    BY <2>1, NumberAssumption DEF TypeOK, ArbiterTypeOK, ChallengeIds
  <2>3. QED
    BY <1>4, <2>1, <2>2 DEF SettledBy
<1>8. Settled' = Settled
  BY <1>6, <1>7 DEF Settled
<1>9. UpheldAreFiled'
  BY <1>3, <1>6, <1>7 DEF UpheldAreFiled
<1>10. QED
  BY <1>8, <1>9

LEMMA ReportedSettlesOne ==
  ASSUME TypeOK, UpheldAreFiled, NEW rid, NEW n, Reported(rid, n)
  PROVE  /\ Settled' = Settled \cup {[claim |-> nextId + 1, receipt |-> rid, amount |-> n]}
         /\ \A s \in Settled : s.claim # nextId + 1
         /\ UpheldAreFiled'
<1>1. events \in Seq(ArbiterEvent) /\ nextId \in Nat
  BY DEF TypeOK, ArbiterTypeOK
<1>2. PICK c : events' = Append(Append(events, FiledEvent(nextId + 1, rid, c)),
                                ResolvedEvent(nextId + 1, TRUE, n))
  BY DEF Reported
<1> DEFINE filed == FiledEvent(nextId + 1, rid, c)
           res   == ResolvedEvent(nextId + 1, TRUE, n)
           last  == Len(events) + 2
<1>3. /\ filed.event = "ChallengeFiled"
      /\ res.event = "ChallengeResolved" /\ res.uphold = TRUE
      /\ res.id = nextId + 1 /\ res.payout = n
  BY DEF FiledEvent, ResolvedEvent
<1> HIDE DEF filed, res
<1>4. /\ DOMAIN events = 1 .. Len(events) /\ Len(events) \in Nat
      /\ DOMAIN events' = 1 .. Len(events) + 2
      /\ events'[Len(events) + 1] = filed
      /\ events'[Len(events) + 2] = res
      /\ \A i \in 1 .. Len(events) : events'[i] = events[i]
  <2>1. events \in Seq(ArbiterEvent \cup {filed})
    BY <1>1
  <2>2. Append(events, filed) \in Seq(ArbiterEvent \cup {filed})
    BY <2>1, AppendType
  <2>3. events' = Append(Append(events, filed), res)
    BY <1>2 DEF filed, res
  <2>4. /\ DOMAIN events = 1 .. Len(events) /\ Len(events) \in Nat
        /\ Len(Append(events, filed)) = Len(events) + 1
    BY <2>1
  <2>5. /\ Append(events, filed)[Len(events) + 1] = filed
        /\ \A i \in 1 .. Len(events) : Append(events, filed)[i] = events[i]
    BY <2>1, AppendOne
  <2>6. /\ DOMAIN events' = 1 .. (Len(events) + 1) + 1
        /\ events'[(Len(events) + 1) + 1] = res
        /\ \A i \in 1 .. Len(events) + 1 : events'[i] = Append(events, filed)[i]
    BY <2>2, <2>3, <2>4, AppendOne
  <2>7. QED
    BY <2>4, <2>5, <2>6
<1>5. Upheld' = Upheld \cup {last}
  BY <1>3, <1>4 DEF Upheld
<1>6. ASSUME NEW i \in Upheld
      PROVE  SettledBy(i)' = SettledBy(i) /\ events'[i].id \in 1 .. nextId
             /\ SettledBy(i).claim # nextId + 1
  <2>1. events'[i] = events[i] /\ events[i].id \in 1 .. nextId
    BY <1>4 DEF Upheld, UpheldAreFiled
  <2>2. challenges'[events[i].id] = challenges[events[i].id]
    BY <2>1 DEF Reported
  <2>3. events[i].id # nextId + 1
    BY <1>1, <2>1
  <2>4. QED
    BY <2>1, <2>2, <2>3 DEF SettledBy
<1>7. ASSUME NEW l, l = last
      PROVE  SettledBy(l)' = [claim |-> nextId + 1, receipt |-> rid, amount |-> n]
  <2>1. events'[l] = res /\ challenges'[nextId + 1].receiptId = rid
    BY <1>4, <1>7 DEF Reported
  <2>2. QED
    BY <1>3, <2>1 DEF SettledBy
<1>8. Settled' = Settled \cup {[claim |-> nextId + 1, receipt |-> rid, amount |-> n]}
  <2>1. Settled' = {SettledBy(i)' : i \in Upheld \cup {last}}
    BY <1>5 DEF Settled
  <2>2. QED
    BY <1>6, <1>7, <2>1 DEF Settled
<1>9. \A s \in Settled : s.claim # nextId + 1
  BY <1>6 DEF Settled
<1>10. UpheldAreFiled'
  <2>1. nextId' = nextId + 1
    BY DEF Reported
  <2>2. ASSUME NEW i \in Upheld' PROVE events'[i].id \in 1 .. nextId'
    <3>1. CASE i \in Upheld
      BY <1>1, <1>6, <2>1, <3>1
    <3>2. CASE i = last
      BY <1>1, <1>3, <1>4, <2>1, <3>2
    <3>3. QED
      BY <1>5, <3>1, <3>2
  <2>3. QED
    BY <2>2 DEF UpheldAreFiled
<1>11. QED
  BY <1>8, <1>9, <1>10

LEMMA UpheldInductive ==
  ASSUME TypeOK, ResolvableIsEmpty, UpheldAreFiled, [Next]_vars
  PROVE  UpheldAreFiled'
<1>1. CASE FileAmountViolationTx
  BY <1>1, FileReports, ReportedSettlesOne
<1>2. CASE ResolveByReviewerTx
  BY <1>2, VerdictRefuses, RefusedSettlesNothing
<1>3. CASE UNCHANGED <<nextId, challenges, events>>
  BY <1>3, QuietEvents
<1>4. QED
  BY <1>1, <1>2, <1>3, EventFrame
-----------------------------------------------------------------------------
LEMMA EscrowInit == Init => Escrow!Init
<1> SUFFICES ASSUME Init PROVE Escrow!Init
  OBVIOUS
<1>1. /\ events = <<>> /\ DOMAIN receipts = {}
      /\ stake = [a \in AgentIds |-> 0]
  BY DEF Init, ArbiterInit, ExecutorInit, VaultInit
<1>2. Settled = {}
  BY <1>1 DEF Settled, Upheld
<1>3. Paid = [id \in {} |-> {}]
  BY <1>1 DEF Paid
<1>4. QED
  BY <1>1, <1>2, <1>3 DEF Escrow!Init

\* Whatever a transaction does, the payments on record stay as they are.
LEMMA PaidGrows ==
  ASSUME TypeOK, RegistryInv, HistoryInv, ReceiptsHonourTheirIntent, [Next]_vars
  PROVE  \A id \in DOMAIN Paid : id \in DOMAIN Paid' /\ Paid'[id] = Paid[id]
<1> SUFFICES ASSUME NEW id \in DOMAIN receipts
             PROVE  id \in DOMAIN Paid' /\ Paid'[id] = Paid[id]
  BY DEF Paid
<1>1. id \in DOMAIN receipts' /\ receipts'[id] = receipts[id]
  BY EvidenceStep
<1>2. receipts[id].intentHash \in IntentHashes /\ Committed(receipts[id].intentHash)
  BY DEF ReceiptsHonourTheirIntent, TypeOK, ExecutorTypeOK, ReceiptSummary
<1>3. intentConfig'[receipts[id].intentHash] = intentConfig[receipts[id].intentHash]
  BY <1>2, EvidenceStep
<1>4. QED
  BY <1>1, <1>3 DEF Paid, ConfigOf

LEMMA PaidStill ==
  ASSUME UNCHANGED <<receipts, intentConfig>>
  PROVE  Paid' = Paid
BY DEF Paid, ConfigOf

LEMMA EscrowStep ==
  ASSUME TypeOK, RegistryInv, HistoryInv, ReceiptsHonourTheirIntent,
         ResolvableIsEmpty, UpheldAreFiled, [Next]_vars
  PROVE  [Escrow!Next]_(Escrow!vars)
<1>1. CASE StakeTx
  <2>1. PICK a \in AgentIds, n \in Stakes :
          /\ n # 0
          /\ stake' = [stake EXCEPT ![a] = @ + n]
          /\ UNCHANGED <<receipts, intentConfig, nextId, challenges, events>>
    BY <1>1 DEF StakeTx, Stake, Deposit, registryVars, executorVars, arbiterVars
  <2>2. n \in Nat /\ stake \in [AgentIds -> Nat]
    BY InputAssumption DEF TypeOK, VaultTypeOK
  <2>3. stake'[a] > stake[a] /\ stake' = [stake EXCEPT ![a] = stake'[a]]
    BY <2>1, <2>2
  <2>4. Paid' = Paid /\ Settled' = Settled
    BY <2>1, PaidStill, QuietEvents
  <2>5. Escrow!Fund(a)
    BY <2>3, <2>4 DEF Escrow!Fund
  <2>6. QED
    BY <2>5 DEF Escrow!Next
<1>2. CASE FileAmountViolationTx
  <2>1. PICK rid \in DOMAIN receipts :
          LET r == receipts[rid] IN
          /\ Reported(rid, SlashActual(r.agentId, r.amount))
          /\ Overspends(r)
          /\ r.amount # 0 /\ stake[r.agentId] # 0
          /\ stake' = [stake EXCEPT ![r.agentId] = @ - SlashActual(r.agentId, r.amount)]
    BY <1>2, FileReports
  <2> DEFINE r == receipts[rid]
             n == SlashActual(r.agentId, r.amount)
  <2>2. r \in ReceiptSummary /\ stake \in [AgentIds -> Nat]
    BY DEF TypeOK, ExecutorTypeOK, VaultTypeOK
  <2>3. /\ rid \in DOMAIN Paid /\ Paid[rid].agent = r.agentId
        /\ Paid[rid].amount = r.amount /\ Paid[rid].over
    BY <2>1 DEF Paid, Overspends, ConfigOf
  <2>4. Escrow!Covered(rid) = n
    BY <2>3 DEF Escrow!Covered, SlashActual
  <2>5. n > 0
    BY <2>1, <2>2 DEF SlashActual, ReceiptSummary
  <2>6. Paid' = Paid
    <3>1. UNCHANGED <<receipts, intentConfig>>
      BY <1>2 DEF FileAmountViolationTx, registryVars, executorVars
    <3>2. QED
      BY <3>1, PaidStill
  <2> HIDE DEF n, r
  <2>7. /\ Settled' = Settled \cup {[claim |-> nextId + 1, receipt |-> rid, amount |-> n]}
        /\ \A s \in Settled : s.claim # nextId + 1
        /\ nextId + 1 \in ChallengeIds
    <3>1. Reported(rid, n)
      BY <2>1 DEF n, r
    <3>2. QED
      BY <3>1, ReportedSettlesOne DEF Reported
  <2>8. stake' = [stake EXCEPT ![Paid[rid].agent] = @ - n]
    BY <2>1, <2>3 DEF n, r
  <2>9. Escrow!Settle(nextId + 1, rid)
    BY <2>3, <2>4, <2>5, <2>6, <2>7, <2>8 DEF Escrow!Settle
  <2>10. QED
    BY <2>3, <2>7, <2>9 DEF Escrow!Next
<1>3. CASE ~StakeTx /\ ~FileAmountViolationTx
  <2>1. UNCHANGED stake /\ Settled' = Settled
    <3>1. CASE ResolveByReviewerTx
      <4>1. PICK id \in ChallengeIds : Refused(id)
        BY <3>1, VerdictRefuses
      <4>2. QED
        BY <4>1, RefusedSettlesNothing DEF Refused
    <3>2. CASE ~ResolveByReviewerTx
      BY <1>3, <3>2, StakeFrame, EventFrame, QuietEvents
    <3>3. QED
      BY <3>1, <3>2
  <2>2. Escrow!Pay
    BY <2>1, PaidGrows DEF Escrow!Pay
  <2>3. QED
    BY <2>2 DEF Escrow!Next
<1>4. QED
  BY <1>1, <1>2, <1>3

\* The contracts implement the abstract escrow: a claim is settled once, for as
\* much as the stake covers, nothing else takes stake, and the arbiter's events
\* report exactly what was settled, whatever transactions come in between.
THEOREM EscrowIsImplemented == Spec => ImplementsEscrow
<1>1. Init => UpheldAreFiled
  BY DEF Init, ArbiterInit, UpheldAreFiled, Upheld
<1>2. TypeOK /\ ResolvableIsEmpty /\ UpheldAreFiled /\ [Next]_vars => UpheldAreFiled'
  BY UpheldInductive
<1>3. TypeOK /\ RegistryInv /\ HistoryInv /\ ReceiptsHonourTheirIntent
        /\ ResolvableIsEmpty /\ UpheldAreFiled /\ [Next]_vars
        => [Escrow!Next]_(Escrow!vars)
  BY EscrowStep
<1>4. QED
  BY <1>1, <1>2, <1>3, EscrowInit, TypeCorrect, InvsHold, ReceiptsAreHonoured,
     ResolvableHolds, PTL DEF Spec, ImplementsEscrow, Escrow!Spec
=============================================================================
