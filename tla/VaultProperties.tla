---------------------------- MODULE VaultProperties ----------------------------
(***************************************************************************)
(* What the contracts promise, as properties of VaultProtocol.             *)
(***************************************************************************)
EXTENDS VaultProtocol, Functions

ConfigOf(r) == intentConfig[r.intentHash]

Committed(h) == intentConfig[h] # NoConfig

ReceiptIdsOf(o, d) ==
  {id \in DOMAIN receipts :
     receipts[id].owner = o /\ DayOf(receipts[id].timestamp) = d}

Amounts == [id \in DOMAIN receipts |-> receipts[id].amount]

\* Configs are never rolled back (IntentRegistry, NonceNotStrictlyIncreasing):
\* an active intent is the owner's own and the newest one the owner ever
\* committed, whatever was revoked or superseded in between.
ActiveIntentIsNewest ==
  \A o \in Owners, h \in IntentHashes :
    /\ activeIntentHash[o] # ZeroHash
    /\ Committed(h)
    /\ intentConfig[h].owner = o
    => /\ Committed(activeIntentHash[o])
       /\ intentConfig[activeIntentHash[o]].owner = o
       /\ intentConfig[h].nonce <= intentConfig[activeIntentHash[o]].nonce

\* Every receipt can be judged later against the very intent it ran under: the
\* config is still there, belongs to the paying owner and allowed the payment,
\* although the owner may since have revoked or replaced it any number of times.
ReceiptsHonourTheirIntent ==
  \A id \in DOMAIN receipts :
    LET r == receipts[id] IN
    /\ Committed(r.intentHash)
    /\ ConfigOf(r).owner = r.owner
    /\ ConfigOf(r).token = r.token
    /\ r.target \in ConfigOf(r).allowedCounterparties
    /\ r.timestamp < ConfigOf(r).expiry
    /\ r.amount <= ConfigOf(r).maxSpendPerDay

\* Why the two properties above hold: a committed config belongs to an owner
\* whose last nonce is at least the config's, and an active one is the last.
RegistryInv ==
  /\ \A h \in IntentHashes : Committed(h) =>
       /\ intentConfig[h].owner \in Owners
       /\ intentConfig[h].token = USDC
       /\ intentConfig[h].nonce <= lastNonce[intentConfig[h].owner]
  /\ \A o \in Owners : activeIntentHash[o] # ZeroHash =>
       /\ Committed(activeIntentHash[o])
       /\ intentConfig[activeIntentHash[o]].owner = o
       /\ intentConfig[activeIntentHash[o]].nonce = lastNonce[o]

\* One nonce, one receipt, in time order: the nonce is per owner, across every
\* agent that pays for that owner, so an owner's receipts form one history
\* numbered from 0 without gaps.
ReceiptsFormOneHistory ==
  \A o \in Owners :
    LET mine == {id \in DOMAIN receipts : receipts[id].owner = o} IN
    /\ {receipts[id].nonce : id \in mine} = 0 .. (execNonce[o] - 1)
    /\ \A i, j \in mine :
         /\ receipts[i].nonce = receipts[j].nonce => i = j
         /\ receipts[i].nonce < receipts[j].nonce =>
              receipts[i].timestamp <= receipts[j].timestamp

\* Why it holds: a receipt sits at the id made of its own fields, with a nonce
\* already used up and a time already past, and every nonce used has a receipt.
HistoryInv ==
  /\ \A id \in DOMAIN receipts :
       LET r == receipts[id] IN
       /\ id = ReceiptId(r.owner, r.agentId, r.nonce)
       /\ r.nonce < execNonce[r.owner]
       /\ r.timestamp <= now
  /\ \A o \in Owners, n \in Nat : n < execNonce[o] =>
       \E a \in AgentIds : ReceiptId(o, a, n) \in DOMAIN receipts

\* The day counter the cap is enforced with is exactly what the day's receipts
\* add up to, over all agents and all intents of the owner.
SpentIsWhatReceiptsSay ==
  \A o \in Owners, d \in Days :
    spentByDay[o][d] = SumFunctionOnSet(Amounts, ReceiptIdsOf(o, d))

\* The hard day cap: what an owner has spent on a day never exceeds the day cap
\* of some intent of the owner under which one of that day's payments was made,
\* also when intents with different caps succeed each other within the day.
DayTotalWithinCap ==
  \A o \in Owners, d \in Days :
    spentByDay[o][d] > 0 =>
      \E id \in ReceiptIdsOf(o, d) :
        /\ ConfigOf(receipts[id]).owner = o
        /\ spentByDay[o][d] <= ConfigOf(receipts[id]).maxSpendPerDay

\* StakeVault can pay every agent's stake in full, after any sequence of
\* deposits and slashes. (It may hold more: a payment may name it as target.)
VaultIsSolvent ==
  balance[StakeVaultAddr] >= SumFunctionOnSet(stake, AgentIds)

\* Dispute evidence is final: no transaction alters or removes a receipt
\* or a committed config.
EvidenceIsFinal ==
  [][/\ \A id \in DOMAIN receipts :
          id \in DOMAIN receipts' /\ receipts'[id] = receipts[id]
     /\ \A h \in IntentHashes :
          Committed(h) => intentConfig'[h] = intentConfig[h]]_vars

\* An operator loses stake only through a newly filed challenge against that
\* agent's own receipt, a receipt above the per-transaction cap it ran under
\* and at most the Bronze window old; no verdict of the reviewer can do it.
StakeFallsOnlyForOverspend ==
  [][\A a \in AgentIds : stake'[a] < stake[a] =>
       /\ nextId' = nextId + 1
       /\ LET r == receipts[challenges'[nextId'].receiptId] IN
          /\ r.agentId = a
          /\ r.amount > ConfigOf(r).maxSpendPerTx
          /\ now - r.timestamp <= BRONZE_CHALLENGE_WINDOW
          /\ stake[a] - stake'[a] <= r.amount]_vars

\* A challenge moves exactly min(stake, amount) from the vault to the owner of
\* the receipt: the challenger's bond comes back in the same transaction, the
\* arbiter keeps nothing, nobody else's balance moves.
ChallengeSettlesExactly ==
  [][nextId' # nextId =>
       LET r    == receipts[challenges'[nextId'].receiptId]
           paid == stake[r.agentId] - stake'[r.agentId]
       IN /\ paid > 0
          /\ paid = r.amount \/ stake'[r.agentId] = 0
          /\ balance' = [balance EXCEPT ![StakeVaultAddr] = @ - paid,
                                        ![r.owner] = @ + paid]]_vars
=============================================================================
