----------------------------- MODULE AgentRegistry -----------------------------
(***************************************************************************)
(* AgentRegistry.sol: agent identity, and the challenge window derived     *)
(* from the stake the agent has now.                                       *)
(***************************************************************************)
EXTENDS StakeVault

VARIABLE operator  \* _agents[id].operator; ZeroAddress where exists is false

agentVars == <<operator>>

AgentTypeOK == operator \in [AgentIds -> Accounts \cup {ZeroAddress}]

AgentInit == operator = [a \in AgentIds |-> ZeroAddress]

\* Anyone may register an agent for any nonzero operator.
RegisterAgent(agentId, op) ==
  /\ op # ZeroAddress
  /\ operator[agentId] = ZeroAddress
  /\ operator' = [operator EXCEPT ![agentId] = op]

Stake(sender, agentId, amount) ==
  /\ operator[agentId] # ZeroAddress
  /\ sender = operator[agentId]
  /\ Deposit(agentId, sender, amount)
  /\ UNCHANGED <<operator, wired>>

ChallengeWindow(agentId) ==
  IF stake[agentId] >= BRONZE_TIER_THRESHOLD
  THEN BRONZE_CHALLENGE_WINDOW ELSE 0
=============================================================================
