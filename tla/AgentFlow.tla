------------------------------ MODULE AgentFlow ------------------------------
(***************************************************************************)
(* The demo agents between the trace service and GuardedExecutor: read the *)
(* active intent, upload the trace, preflight, simulate, send, wait.  Each *)
(* of these is a call of its own; between any two of them other runs pay,  *)
(* the owner replaces or revokes the intent, keys rotate and time passes.  *)
(***************************************************************************)
EXTENDS GuardedExecutor, TraceService, FiniteSetsExt

CONSTANTS
  Runs,      \* invocations of an agent; each is a consumer of the service
  Plan,      \* the scenario and the wallet of each run
  MaxTries,  \* bound on how often each run is started
  MaxOwnerTxs \* bound on what owners do meanwhile

ASSUME FlowAssumption ==
  /\ Runs = Consumers
  /\ Plan \in [Runs -> [owner : Owners, agentId : AgentIds, sender : Delegates,
                        target : Accounts, amount : Nat, executes : BOOLEAN]]
  /\ MaxTries \in [Runs -> Nat]
  /\ MaxOwnerTxs \in Nat

\* computeContextDigest(prepareLiveTrace(..)): a digest per distinct content.
DigestOf(r, h) == <<Plan[r].owner, Plan[r].agentId, h, Plan[r].target, Plan[r].amount>>

\* The runs' own digests are digests, and there is an intent to begin with.
ASSUME DigestAssumption ==
  \A r \in Runs, h \in IntentHashes \ {ZeroHash} : DigestOf(r, h) \in Digests
ASSUME BootstrapAssumption ==
  /\ IntentHashes # {ZeroHash}
  /\ \E c \in IntentConfigs : c.nonce = 1

VARIABLES
  run,      \* where each run is and how its last try ended
  mempool,  \* transactions sent and not yet mined
  paid,     \* what each mined transaction left: run, try and receipt
  ownerTxs

flowVars == <<run, mempool, paid, ownerTxs>>
contractVars == <<chainVars, registryVars, executorVars>>
vars == <<contractVars, serviceVars, flowVars>>

Ended == {"off", "success", "blocked", "failed"}

FlowTypeOK ==
  /\ ChainTypeOK
  /\ RegistryTypeOK
  /\ ExecutorTypeOK
  /\ ServiceTypeOK
  /\ run \in [Runs -> [pc : Ended \cup {"intent", "upload", "response", "preflight",
                                      "simulate", "send", "wait"},
                       try : Nat, intent : IntentHashes]]
  /\ \A r \in Runs : run[r].try <= MaxTries[r]
  /\ \A tx \in mempool : tx.run \in Runs /\ tx.try \in 0 .. run[tx.run].try
  /\ \A p \in paid : p.receiptId \in DOMAIN receipts

BuildExecutionRequest(r) ==
  [owner |-> Plan[r].owner, agentId |-> Plan[r].agentId,
   target |-> Plan[r].target, token |-> USDC, amount |-> Plan[r].amount,
   traceAck |-> post[r].ack]

\* `npm run bootstrap` against fresh contracts: resolveNextIntentNonce finds no
\* active intent and starts at 1, the owner commits and approves the agent's key.
FirstIntent == CHOOSE c \in IntentConfigs : c.nonce = 1
FirstHash == CHOOSE h \in IntentHashes : h # ZeroHash

Bootstrapped ==
  /\ activeIntentHash =
       [o \in Owners |-> IF o = FirstIntent.owner THEN FirstHash ELSE ZeroHash]
  /\ lastNonce =
       [o \in Owners |-> IF o = FirstIntent.owner THEN FirstIntent.nonce ELSE 0]
  /\ intentConfig =
       [h \in IntentHashes |-> IF h = FirstHash THEN FirstIntent ELSE NoConfig]
  /\ delegates = {<<Plan[r].owner, Plan[r].agentId, Plan[r].sender>> : r \in Runs}

\* The executor knows the service's signer.
Init ==
  /\ ChainInit
  /\ Bootstrapped
  /\ spentByDay = [o \in Owners |-> [d \in Days |-> 0]]
  /\ execNonce = [o \in Owners |-> 0]
  /\ receipts = [id \in {} |-> {}]
  /\ ServiceInit
  /\ traceAckSigner = signKey
  /\ run = [r \in Runs |-> [pc |-> "off", try |-> 0, intent |-> ZeroHash]]
  /\ mempool = {}
  /\ paid = {}
  /\ ownerTxs = 0

----------------------------------------------------------------------------
At(r, label) == run[r].pc = label
Goto(r, label) ==
  run' = [run EXCEPT ![r].pc = label,
                     ![r].intent = IF label \in Ended THEN ZeroHash ELSE @]
NothingElse == UNCHANGED <<contractVars, mempool, paid, ownerTxs>>

\* The response of the service goes out of scope with the run's last use of it.
Forget(r, gone) ==
  /\ post' = IF gone
             THEN [post EXCEPT ![r] = NoPost(CHOOSE d \in Digests : TRUE, ZeroAgent, Plan[r].owner)]
             ELSE post
  /\ UNCHANGED <<traceRow, pinned, signKey, lost, mishaps>>
Go(r, label) == Goto(r, label) /\ Forget(r, label \in Ended)

\* A run that has not paid may be started again and again; the tries are only
\* told apart while a transaction of an earlier one may still be mined.
StartRun(r) ==
  /\ run[r].pc \in Ended \ {"success"}
  /\ run[r].try < MaxTries[r] \/ \A tx \in mempool : tx.run # r
  /\ run' = [run EXCEPT ![r] =
       [pc |-> "intent", intent |-> ZeroHash,
        try |-> IF @.try < MaxTries[r] THEN @.try + 1 ELSE MaxTries[r]]]
  /\ UNCHANGED serviceVars
  /\ NothingElse

\* Without an active intent the run throws.
ReadActiveIntentHash(r) ==
  /\ At(r, "intent")
  /\ LET h == activeIntentHash[Plan[r].owner] IN
     run' = [run EXCEPT ![r].pc = IF h = ZeroHash THEN "failed" ELSE "upload",
                        ![r].intent = h]
  /\ UNCHANGED serviceVars
  /\ NothingElse

UploadTrace(r) ==
  /\ At(r, "upload")
  /\ PostTrace(r, DigestOf(r, run[r].intent), Plan[r].agentId, Plan[r].owner)
  /\ Goto(r, "response")
  /\ NothingElse

\* A status other than 200 throws, and so does a digest not the run's own.
ReceiveAck(r) ==
  /\ At(r, "response")
  /\ post[r].pc \in {"answered", "failed"}
  /\ Go(r, IF /\ post[r].pc = "answered"
              /\ post[r].digest = DigestOf(r, run[r].intent)
           THEN "preflight" ELSE "failed")
  /\ NothingElse

Green(r) == CheckGuard(Plan[r].sender, BuildExecutionRequest(r))
Payable(r) ==
  Green(r) /\ CanTransfer(balance, Plan[r].owner, Plan[r].target, Plan[r].amount)

\* runExecuteFlow stops at anything but GREEN; runPreflightOnlyFlow stops here
\* in any case and expects RED.
AfterPreflight(r) ==
  IF Plan[r].executes
  THEN IF Green(r) THEN "simulate" ELSE "blocked"
  ELSE IF Green(r) THEN "failed" ELSE "blocked"

Preflight(r) ==
  /\ At(r, "preflight")
  /\ Go(r, AfterPreflight(r))
  /\ NothingElse

Simulate(r) ==
  /\ At(r, "simulate")
  /\ Go(r, IF Payable(r) THEN "send" ELSE "failed")
  /\ NothingElse

Send(r) ==
  /\ At(r, "send")
  /\ mempool' = mempool \cup
       {[run |-> r, try |-> run[r].try, req |-> BuildExecutionRequest(r)]}
  /\ run' = [run EXCEPT ![r].pc = "wait", ![r].intent = ZeroHash]
  /\ Forget(r, TRUE)
  /\ UNCHANGED <<contractVars, paid, ownerTxs>>

AwaitedByRun(tx) == run[tx.run].pc = "wait"
AwaitedBy(tx) == run[tx.run].pc = "wait" /\ run[tx.run].try = tx.try
EndWait(tx, outcome) ==
  run' = IF AwaitedBy(tx) THEN [run EXCEPT ![tx.run].pc = outcome] ELSE run

\* execute takes the id from the ActionReceipt log of its own transaction.
LoggedReceipt(tx) ==
  ReceiptId(tx.req.owner, tx.req.agentId, execNonce[tx.req.owner])

\* The transaction is mined: it pays ...
MinePaid(tx) ==
  /\ ExecuteWithGuard(Plan[tx.run].sender, tx.req)
  /\ paid' = paid \cup
       {[run |-> tx.run, try |-> tx.try,
         receiptId |-> LoggedReceipt(tx)]}
  /\ mempool' = mempool \ {tx}
  /\ EndWait(tx, "success")
  /\ UNCHANGED <<now, registryVars, serviceVars, ownerTxs>>

\* ... or reverts: receipt.status is "reverted" and execute throws.
MineReverted(tx) ==
  /\ ~ /\ CheckGuard(Plan[tx.run].sender, tx.req)
       /\ CanTransfer(balance, tx.req.owner, tx.req.target, tx.req.amount)
  /\ mempool' = mempool \ {tx}
  /\ EndWait(tx, "failed")
  /\ UNCHANGED <<contractVars, serviceVars, paid, ownerTxs>>

\* waitForTransactionReceipt times out; the transaction stays in the mempool.
LoseWait(r) ==
  /\ At(r, "wait")
  /\ mishaps < MaxMishaps
  /\ mishaps' = mishaps + 1
  /\ Goto(r, "failed")
  /\ UNCHANGED <<contractVars, traceRow, pinned, signKey, post, lost, mempool, paid,
                 ownerTxs>>

RunStep(r) ==
  \/ ReadActiveIntentHash(r)
  \/ UploadTrace(r)
  \/ ReceiveAck(r)
  \/ Preflight(r)
  \/ Simulate(r)
  \/ Send(r)

----------------------------------------------------------------------------
\* What goes on around the runs: transactions of the owner and the deployer,
\* later blocks, keys rotated.
OwnerTx ==
  /\ ownerTxs < MaxOwnerTxs
  /\ ownerTxs' = ownerTxs + 1
  /\ \/ \E o \in Owners, h \in IntentHashes, cfg \in IntentConfigs :
          CommitIntent(o, h, cfg) /\ UNCHANGED executorVars
     \/ \E o \in Owners : RevokeIntent(o) /\ UNCHANGED executorVars
     \/ \E o \in Owners, a \in AgentIds, d \in Delegates, b \in BOOLEAN :
          /\ b # (<<o, a, d>> \in delegates)
          /\ SetAgentDelegate(o, a, d, b)
          /\ UNCHANGED registryVars
  /\ UNCHANGED <<chainVars, serviceVars, run, mempool, paid>>

\* The deployer follows a key rotation.
FollowRotation ==
  /\ traceAckSigner # signKey
  /\ SetTraceAckSigner(signKey)
  /\ UNCHANGED <<chainVars, registryVars, serviceVars, flowVars>>

NextBlock ==
  /\ Tick
  /\ UNCHANGED <<registryVars, executorVars, serviceVars, flowVars>>

Serve ==
  \E c \in Consumers :
    /\ ServiceStep(c) \/ ServiceMishap(c)
    /\ UNCHANGED <<contractVars, flowVars>>

Rotate ==
  /\ now + TTL <= MaxTime  \* the clock outlasts the acks of the old key
  /\ \E k \in Signers : RestartService(k)
  /\ UNCHANGED <<contractVars, flowVars>>

MineTx == \E tx \in mempool : MinePaid(tx) \/ MineReverted(tx)

Next ==
  \/ \E r \in Runs : StartRun(r) \/ RunStep(r) \/ LoseWait(r)
  \/ MineTx
  \/ OwnerTx
  \/ FollowRotation
  \/ NextBlock
  \/ Serve
  \/ Rotate

Spec == Init /\ [][Next]_vars

\* Blocks come, transactions in the mempool are mined, the service and the
\* agent processes run, the deployer follows a rotation, and the operator
\* starts a run again.
FairSpec ==
  /\ Spec
  /\ WF_vars(NextBlock) /\ WF_vars(MineTx) /\ WF_vars(FollowRotation)
  /\ \A r \in Runs :
       WF_vars(\/ StartRun(r)
               \/ RunStep(r)
               \/ ServiceStep(r) /\ UNCHANGED <<contractVars, flowVars>>)

----------------------------------------------------------------------------
(* Properties.                                                             *)

\* "every onchain action is bound to a signed decision trace you can replay
\* later" (README.md:16): GET /v1/replay finds the trace of every receipt, but
\* for traces that the database dropped, and its bytes are pinned.
ReceiptIsReplayable ==
  \A id \in DOMAIN receipts :
    /\ traceRow[receipts[id].contextDigest] # NoAck \/ receipts[id].contextDigest \in lost
    /\ receipts[id].contextDigest \in pinned

\* A run that reports success reports a payment of its own: it is on chain, it
\* is what the run planned, and no other run or try reports the same receipt,
\* although several may be in the mempool together.
ReportedPaymentIsReal ==
  /\ \A r \in Runs : run[r].pc = "success" =>
       \E p \in paid :
         /\ p.run = r /\ p.try = run[r].try
         /\ receipts[p.receiptId].amount = Plan[r].amount
         /\ receipts[p.receiptId].target = Plan[r].target
  /\ \A p, q \in paid : p.receiptId = q.receiptId => p = q

\* An agent that keeps trying is paid for in the end, unless its owner acts or
\* others use up the day's budget: no cached ack, expired or signed with a key
\* rotated away, stands in its way for good.
BudgetUsedUp(r) ==
  LET o == Plan[r].owner IN
  spentByDay[o][DayOf(now)] + Plan[r].amount
    > intentConfig[activeIntentHash[o]].maxSpendPerDay
PaidInTheEnd ==
  <>(\A r \in Runs : Plan[r].executes =>
       (\E p \in paid : p.run = r) \/ ownerTxs > 0 \/ BudgetUsedUp(r))
=============================================================================
