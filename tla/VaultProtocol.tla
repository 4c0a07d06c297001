----------------------------- MODULE VaultProtocol -----------------------------
(***************************************************************************)
(* The deployed contracts together.  Every step is one transaction, which  *)
(* either runs to its end or reverts and changes nothing, or the clock     *)
(* moving to a later block.                                                *)
(***************************************************************************)
EXTENDS ChallengeArbiter

vars == <<chainVars, registryVars, vaultVars, agentVars, executorVars,
          arbiterVars>>

TypeOK ==
  /\ ChainTypeOK
  /\ RegistryTypeOK
  /\ VaultTypeOK
  /\ AgentTypeOK
  /\ ExecutorTypeOK
  /\ ArbiterTypeOK

Init ==
  /\ ChainInit
  /\ RegistryInit
  /\ VaultInit
  /\ AgentInit
  /\ ExecutorInit
  /\ ArbiterInit

Request ==
  [owner : Owners, agentId : AgentIds, target : Accounts, token : Tokens,
   amount : Payments, traceAck : TraceAcks]

CommitIntentTx ==
  \E sender \in Owners, h \in IntentHashes, cfg \in IntentConfigs :
    /\ CommitIntent(sender, h, cfg)
    /\ UNCHANGED <<chainVars, vaultVars, agentVars, executorVars, arbiterVars>>

RevokeIntentTx ==
  \E sender \in Owners :
    /\ RevokeIntent(sender)
    /\ UNCHANGED <<chainVars, vaultVars, agentVars, executorVars, arbiterVars>>

SetWiringTx ==
  /\ SetWiring
  /\ UNCHANGED <<chainVars, registryVars, agentVars, executorVars, arbiterVars>>

RegisterAgentTx ==
  \E a \in AgentIds, op \in Operators \cup {ZeroAddress} :
    /\ RegisterAgent(a, op)
    /\ UNCHANGED <<chainVars, registryVars, vaultVars, executorVars,
                   arbiterVars>>

StakeTx ==
  \E sender \in Operators, a \in AgentIds, amount \in Stakes :
    /\ Stake(sender, a, amount)
    /\ UNCHANGED <<now, registryVars, executorVars, arbiterVars>>

SetAgentDelegateTx ==
  \E sender \in Owners, a \in AgentIds, d \in Delegates, b \in BOOLEAN :
    /\ SetAgentDelegate(sender, a, d, b)
    /\ UNCHANGED <<chainVars, registryVars, vaultVars, agentVars, arbiterVars>>

ExecuteWithGuardTx ==
  \E sender \in Delegates, req \in Request :
    /\ ExecuteWithGuard(sender, req)
    /\ UNCHANGED <<now, registryVars, vaultVars, agentVars, arbiterVars>>

SetTraceAckSignerTx ==
  \E s \in Signers :
    /\ SetTraceAckSigner(s)
    /\ UNCHANGED <<chainVars, registryVars, vaultVars, agentVars, arbiterVars>>

FileAmountViolationTx ==
  \E sender \in Challengers, id \in DOMAIN receipts :
    /\ FileAmountViolation(sender, id)
    /\ UNCHANGED <<now, wired, registryVars, agentVars, executorVars>>

ResolveByReviewerTx ==
  \E id \in ChallengeIds, uphold \in BOOLEAN, amount \in Payments, s \in Signers :
    /\ ResolveByReviewer(id, uphold, amount, s)
    /\ UNCHANGED <<now, wired, registryVars, agentVars, executorVars>>

SetReviewerSignerTx ==
  \E s \in Signers :
    /\ SetReviewerSigner(s)
    /\ UNCHANGED <<chainVars, registryVars, vaultVars, agentVars, executorVars>>

NextBlock ==
  /\ Tick
  /\ UNCHANGED <<registryVars, vaultVars, agentVars, executorVars, arbiterVars>>

Next ==
  \/ CommitIntentTx
  \/ RevokeIntentTx
  \/ SetWiringTx
  \/ RegisterAgentTx
  \/ StakeTx
  \/ SetAgentDelegateTx
  \/ ExecuteWithGuardTx
  \/ SetTraceAckSignerTx
  \/ FileAmountViolationTx
  \/ ResolveByReviewerTx
  \/ SetReviewerSignerTx
  \/ NextBlock

Spec == Init /\ [][Next]_vars
=============================================================================
