----------------------------- MODULE MCAgentFlow -----------------------------
(***************************************************************************)
(* Two agents that pay for one owner, the first of them tried again once.  *)
(***************************************************************************)
EXTENDS AgentFlow

CONSTANTS o1, o2, op, shop, vault, arbiter, a0, a1, a2, h0, h1, h2, s1, s2, usdc,
          legit, second

MCAccounts == {o1, o2, op, shop, vault, arbiter}
Cfg(n, day, exp) ==
  [owner |-> o1, token |-> usdc, maxSpendPerTx |-> 2, maxSpendPerDay |-> day,
   allowedCounterparties |-> {shop}, expiry |-> exp, nonce |-> n]
MCConfigs == {Cfg(1, 3, 9), Cfg(2, 2, 9)}
MCBalance == [a \in MCAccounts |-> IF a = o1 THEN 4 ELSE 0]

Scenario(agentId) ==
  [owner |-> o1, agentId |-> agentId, sender |-> op, target |-> shop,
   amount |-> 2, executes |-> TRUE]
Plans == [r \in Runs |-> Scenario(IF r = legit THEN a1 ELSE a2)]
MCTries == [r \in Runs |-> IF r = legit THEN 2 ELSE 1]
MCDigests == {DigestOf(r, h) : r \in Runs, h \in IntentHashes \ {ZeroHash}}
=============================================================================
