---------------------------- MODULE GuardedExecutor ----------------------------
(***************************************************************************)
(* GuardedExecutor.sol: the hard checks before a delegate's payment, the   *)
(* payment itself, and the receipt it leaves.  maxSpendPerTx is not among  *)
(* the checks: exceeding it is what a challenge is about.                  *)
(***************************************************************************)
EXTENDS IntentRegistry

VARIABLES
  delegates,       \* _delegates: the approved <<owner, agentId, delegate>>
  spentByDay,      \* _spentByDay
  execNonce,       \* _execNonce
  receipts,        \* _receipts, on the ids written so far
  traceAckSigner   \* traceAckSigner

executorVars == <<delegates, spentByDay, execNonce, receipts, traceAckSigner>>

ExecutorTypeOK ==
  /\ delegates \subseteq Owners \X AgentIds \X Delegates
  /\ spentByDay \in [Owners -> [Days -> Nat]]
  /\ execNonce \in [Owners -> Nat]
  /\ DOMAIN receipts \subseteq ReceiptIds
  /\ \A id \in DOMAIN receipts : receipts[id] \in ReceiptSummary
  /\ traceAckSigner \in Signers

ExecutorInit ==
  /\ delegates = {}
  /\ spentByDay = [o \in Owners |-> [d \in Days |-> 0]]
  /\ execNonce = [o \in Owners |-> 0]
  /\ receipts = [id \in {} |-> {}]
  /\ traceAckSigner \in Signers

SetAgentDelegate(sender, agentId, delegate, approved) ==
  /\ delegates' = IF approved
                  THEN delegates \cup {<<sender, agentId, delegate>>}
                  ELSE delegates \ {<<sender, agentId, delegate>>}
  /\ UNCHANGED <<spentByDay, execNonce, receipts, traceAckSigner>>

\* What the owner has spent on the current day once the request goes through.
SpentForgotten(req) == req.amount
SpentAfter(req) == spentByDay[req.owner][DayOf(now)] + req.amount

CapCheckedBefore(req, cfg) ==
  spentByDay[req.owner][DayOf(now)] < cfg.maxSpendPerDay
WithinDayCap(req, cfg) == SpentAfter(req) <= cfg.maxSpendPerDay

UnexpiredAtExpiry(cfg) == now <= cfg.expiry
Unexpired(cfg) == now < cfg.expiry

\* The ack is alive and its signature covers this agent and owner. Requests
\* carry the URI their ack was signed for; a mismatch is refused like a bad
\* signature.
AckValid(req) ==
  /\ req.traceAck.expiresAt > now
  /\ req.traceAck.agentId = req.agentId
  /\ req.traceAck.owner = req.owner
  /\ req.traceAck.signer = traceAckSigner

\* _checkGuard returns GREEN; preflightCheck evaluates the same predicate.
CheckGuard(sender, req) ==
  LET active == activeIntentHash[req.owner]
      cfg    == intentConfig[active]
  IN /\ <<req.owner, req.agentId, sender>> \in delegates
     /\ req.token = USDC
     /\ active # ZeroHash
     /\ Unexpired(cfg)
     /\ req.target \in cfg.allowedCounterparties
     /\ WithinDayCap(req, cfg)
     /\ AckValid(req)

ReceiptIdNoNonce(owner, agentId, nonce) == <<owner, agentId, 0>>
ReceiptId(owner, agentId, nonce) == <<owner, agentId, nonce>>

Summary(req) ==
  [owner |-> req.owner, agentId |-> req.agentId,
   intentHash |-> activeIntentHash[req.owner],
   target |-> req.target, token |-> req.token, amount |-> req.amount,
   contextDigest |-> req.traceAck.contextDigest,
   nonce |-> execNonce[req.owner], timestamp |-> now]

ExecuteWithGuard(sender, req) ==
  LET id == ReceiptId(req.owner, req.agentId, execNonce[req.owner])
  IN /\ execNonce[req.owner] < MaxExecs
     /\ CheckGuard(sender, req)
     /\ spentByDay' =
          [spentByDay EXCEPT ![req.owner][DayOf(now)] = SpentAfter(req)]
     /\ execNonce' = [execNonce EXCEPT ![req.owner] = @ + 1]
     /\ receipts' = [i \in DOMAIN receipts \cup {id} |->
                       IF i = id THEN Summary(req) ELSE receipts[i]]
     /\ CanTransfer(balance, req.owner, req.target, req.amount)
     /\ balance' = Transfer(balance, req.owner, req.target, req.amount)
     /\ UNCHANGED <<delegates, traceAckSigner>>

\* onlyOwner of the contract; the new signer is never zero.
SetTraceAckSigner(signer) ==
  /\ traceAckSigner' = signer
  /\ UNCHANGED <<delegates, spentByDay, execNonce, receipts>>
=============================================================================
