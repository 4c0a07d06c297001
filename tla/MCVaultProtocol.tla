---------------------------- MODULE MCVaultProtocol ----------------------------
(***************************************************************************)
(* Instances of VaultProtocol small enough for TLC.                        *)
(***************************************************************************)
EXTENDS VaultProperties

CONSTANTS o1, o2, op, shop, vault, arbiter, a0, a1, h0, h1, h2, dg, s1, s2,
          usdc, other

MCAccounts == {o1, o2, op, shop, vault, arbiter}

Cfg(o, n, tx, day, exp, tgts) ==
  [owner |-> o, token |-> usdc, maxSpendPerTx |-> tx, maxSpendPerDay |-> day,
   allowedCounterparties |-> tgts, expiry |-> exp, nonce |-> n]

Ack(o, a, s, exp) ==
  [contextDigest |-> dg, expiresAt |-> exp, signer |-> s, agentId |-> a,
   owner |-> o]
\* No instance wastes an intent that can never be committed.
ASSUME CommittableConfigs ==
  \A c \in IntentConfigs :
    Cardinality(c.allowedCounterparties) \in 1 .. MAX_COUNTERPARTIES
-----------------------------------------------------------------------------
\* Payments: two owners with two agents commit, replace and revoke intents, one
\* in another token, with a cap that lets a second payment of a day through
\* exactly and one that just does not, within a day and on the next day;
\* acks that expire, and a signer that is rotated out and in again.
SpendConfigs ==
  {Cfg(o1, 1, 1, 4, 9, {shop}), Cfg(o1, 2, 1, 3, 2, {shop, o2}),
   [Cfg(o1, 3, 1, 3, 9, {shop}) EXCEPT !.token = other], Cfg(o2, 1, 1, 2, 2, {o1})}
SpendAcks == {Ack(o1, a1, s1, 2), Ack(o1, a0, s1, 9), Ack(o2, a1, s1, 9)}
SpendBalance ==
  [a \in MCAccounts |-> CASE a = o1 -> 4 [] a = o2 -> 2 [] OTHER -> 0]
-----------------------------------------------------------------------------
\* Recourse: overspends of two agents, slashes down to nothing, restaking, a
\* payment to the vault itself, and verdicts of the reviewer.
RecourseConfigs == {Cfg(o1, 1, 1, 9, 9, {shop, vault})}
RecourseAcks == {Ack(o1, a1, s1, 9)}
RecourseBalance ==
  [a \in MCAccounts |-> CASE a = o1 -> 5 [] a = op -> 4 [] OTHER -> 0]
=============================================================================
