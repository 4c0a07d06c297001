----------------------------- MODULE VaultRefinement -----------------------------
(***************************************************************************)
(* The contracts as an implementation of StakeEscrow.  The settled claims  *)
(* are read from the arbiter's own events, so that what the indexer and    *)
(* the web application are told is part of the promise.                    *)
(***************************************************************************)
EXTENDS VaultProperties

Paid ==
  [id \in DOMAIN receipts |->
     [agent |-> receipts[id].agentId, amount |-> receipts[id].amount,
      over |-> receipts[id].amount > ConfigOf(receipts[id]).maxSpendPerTx]]

Upheld == {i \in DOMAIN events : events[i].event = "ChallengeResolved" /\ events[i].uphold}

SettledBy(i) ==
  [claim |-> events[i].id, receipt |-> challenges[events[i].id].receiptId,
   amount |-> events[i].payout]

Settled == {SettledBy(i) : i \in Upheld}

Escrow == INSTANCE StakeEscrow WITH
  Agents <- AgentIds, Claims <- ChallengeIds,
  paid <- Paid, escrow <- stake, settled <- Settled

\* Payments, stakes, challenges and verdicts, in any order, are an escrow with
\* claims: every transaction is a step of it or leaves it alone, and the events
\* of the arbiter say what was settled.
ImplementsEscrow == Escrow!Spec
=============================================================================
