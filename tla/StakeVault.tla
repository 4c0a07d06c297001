------------------------------ MODULE StakeVault ------------------------------
(***************************************************************************)
(* StakeVault.sol: custody of operator stake.  deposit and slash are only  *)
(* reachable through AgentRegistry.stake and the arbiter, and only once    *)
(* the deployer has wired those two contracts in.                          *)
(***************************************************************************)
EXTENDS Chain

VARIABLES
  wired,  \* agentRegistry and challengeArbiter are set (setWiring ran)
  stake   \* _stake

vaultVars == <<wired, stake>>

VaultTypeOK ==
  /\ wired \in BOOLEAN
  /\ stake \in [AgentIds -> Nat]

VaultInit ==
  /\ wired = FALSE
  /\ stake = [a \in AgentIds |-> 0]

SetWiring ==
  /\ ~wired
  /\ wired' = TRUE
  /\ UNCHANGED stake

Deposit(agentId, from, amount) ==
  /\ wired
  /\ amount # 0
  /\ CanTransfer(balance, from, StakeVaultAddr, amount)
  /\ balance' = Transfer(balance, from, StakeVaultAddr, amount)
  /\ stake' = [stake EXCEPT ![agentId] = @ + amount]

\* The partial-slash rule: actual = min(amount, current stake).
SlashUnclamped(agentId, amount) == amount
SlashActual(agentId, amount) ==
  IF amount < stake[agentId] THEN amount ELSE stake[agentId]

\* slash runs inside the arbiter's transaction, on the balances bal that the
\* transaction has produced so far, and SlashPays is the ledger it leaves.
Slash(bal, agentId, to, amount) ==
  /\ wired
  /\ amount # 0
  /\ stake[agentId] # 0
  /\ CanTransfer(bal, StakeVaultAddr, to, SlashActual(agentId, amount))
  /\ stake' = [stake EXCEPT ![agentId] = @ - SlashActual(agentId, amount)]

SlashPaysRequested(bal, agentId, to, amount) ==
  Transfer(bal, StakeVaultAddr, to, amount)
SlashPays(bal, agentId, to, amount) ==
  Transfer(bal, StakeVaultAddr, to, SlashActual(agentId, amount))
=============================================================================
