------------------------------ MODULE EventLog ------------------------------
(***************************************************************************)
(* The chain as the indexer sees it: blocks of contract events, in order,  *)
(* never rewritten (the poller has no notion of a reorganisation).  Which  *)
(* transaction may follow which is decided by the contracts, whose full    *)
(* behaviour is in VaultProtocol; here a transaction is the events it      *)
(* emits.  A block holds one transaction or none.                          *)
(***************************************************************************)
EXTENDS Integers, Sequences, FiniteSetsExt

CONSTANTS
  Owners, IntentHashes, Receipts, Agents, Stakes,
  NoIntent,        \* "no active intent"
  MaxChallenges,   \* bound on challenge ids
  MaxBlocks        \* bound on the chain's height

ASSUME LogAssumption ==
  /\ NoIntent \notin IntentHashes
  /\ Stakes \subseteq Nat \ {0}
  /\ MaxChallenges \in Nat
  /\ MaxBlocks \in Nat

VARIABLES
  log,      \* every event so far, in block and log-index order
  blockEnd  \* blockEnd[b]: how many of them are in blocks 1 .. b

logVars == <<log, blockEnd>>

Event ==
  [kind : {"IntentCommitted"}, owner : Owners, intentHash : IntentHashes]
  \cup [kind : {"IntentRevoked"}, owner : Owners]
  \cup [kind : {"ActionReceipt", "TraceURIStored"}, receiptId : Receipts]
  \cup [kind : {"ChallengeFiled"}, challengeId : 1 .. MaxChallenges,
        receiptId : Receipts]
  \cup [kind : {"ChallengeResolved"}, challengeId : 1 .. MaxChallenges,
        uphold : BOOLEAN]
  \cup [kind : {"AgentRegistered"}, agentId : Agents]
  \cup [kind : {"AgentStaked"}, agentId : Agents, newStake : Nat]
  \cup [kind : {"AgentDelegateSet"}, owner : Owners, agentId : Agents]

LogTypeOK ==
  /\ log \in Seq(Event)
  /\ blockEnd \in Seq(0 .. Len(log))

Height == Len(blockEnd)
EndOf(b) == IF b <= 0 THEN 0 ELSE blockEnd[b]

----------------------------------------------------------------------------
(* What the log says, read up to its p-th event.                           *)

At(p, kinds) == {i \in 1 .. p : log[i].kind \in kinds}

IntentEvents(p, o) ==
  {i \in At(p, {"IntentCommitted", "IntentRevoked"}) : log[i].owner = o}
ChallengeEvents(p, c) ==
  {i \in At(p, {"ChallengeFiled", "ChallengeResolved"}) :
     log[i].challengeId = c}
StakeEvents(p, a) ==
  {i \in At(p, {"AgentRegistered", "AgentStaked"}) : log[i].agentId = a}

\* IntentRegistry.activeIntentHash
ActiveAt(p, o) ==
  LET K == IntentEvents(p, o)
  IN  IF K = {} \/ log[Max(K)].kind = "IntentRevoked"
      THEN NoIntent
      ELSE log[Max(K)].intentHash

\* StakeVault.stakeOf, slashes apart: the vault's own events are not indexed
StakeAt(p, a) ==
  LET K == StakeEvents(p, a)
  IN  IF log[Max(K)].kind = "AgentRegistered" THEN 0 ELSE log[Max(K)].newStake

Filed == {log[i].challengeId : i \in At(Len(log), {"ChallengeFiled"})}

----------------------------------------------------------------------------
LogInit ==
  /\ log = << >>
  /\ blockEnd = << >>

MineBlock(es) ==
  /\ Height < MaxBlocks
  /\ log' = log \o es
  /\ blockEnd' = Append(blockEnd, Len(log) + Len(es))

EmptyBlock == MineBlock(<< >>)

\* An intent hash is committed once (IntentRegistry: IntentHashAlreadyUsed).
CommitTx ==
  \E o \in Owners, h \in IntentHashes :
    /\ \A i \in At(Len(log), {"IntentCommitted"}) : log[i].intentHash # h
    /\ MineBlock(<<[kind |-> "IntentCommitted", owner |-> o,
                    intentHash |-> h]>>)

RevokeTx ==
  \E o \in Owners :
    /\ ActiveAt(Len(log), o) # NoIntent
    /\ MineBlock(<<[kind |-> "IntentRevoked", owner |-> o]>>)

\* Receipt ids are fresh. ReceiptStored, which the decoder ignores, is left out.
ExecuteTx ==
  \E r \in Receipts :
    /\ \A i \in At(Len(log), {"ActionReceipt"}) : log[i].receiptId # r
    /\ \E o \in Owners : ActiveAt(Len(log), o) # NoIntent
    /\ MineBlock(<<[kind |-> "ActionReceipt", receiptId |-> r],
                   [kind |-> "TraceURIStored", receiptId |-> r]>>)

\* fileAmountViolation settles the challenge in the transaction that files it.
FileTx ==
  \E i \in At(Len(log), {"ActionReceipt"}), id \in 1 .. MaxChallenges :
    /\ id = Cardinality(Filed) + 1
    /\ MineBlock(<<[kind |-> "ChallengeFiled", challengeId |-> id,
                    receiptId |-> log[i].receiptId],
                   [kind |-> "ChallengeResolved", challengeId |-> id,
                    uphold |-> TRUE]>>)

\* So a verdict of the reviewer is accepted on an unfiled id only, once, and it
\* is a rejection: upholding would slash in favour of address(0) and revert.
ReviewTx ==
  \E c \in 1 .. MaxChallenges :
    /\ ChallengeEvents(Len(log), c) = {}
    /\ MineBlock(<<[kind |-> "ChallengeResolved", challengeId |-> c,
                    uphold |-> FALSE]>>)

RegisterTx ==
  \E a \in Agents :
    /\ StakeEvents(Len(log), a) = {}
    /\ MineBlock(<<[kind |-> "AgentRegistered", agentId |-> a]>>)

StakeTx ==
  \E a \in Agents, s \in Stakes :
    /\ StakeEvents(Len(log), a) # {}
    /\ MineBlock(<<[kind |-> "AgentStaked", agentId |-> a, newStake |-> s]>>)

DelegateTx ==
  \E o \in Owners, a \in Agents :
    MineBlock(<<[kind |-> "AgentDelegateSet", owner |-> o, agentId |-> a]>>)

LogNext ==
  \/ EmptyBlock
  \/ CommitTx
  \/ RevokeTx
  \/ ExecuteTx
  \/ FileTx
  \/ ReviewTx
  \/ RegisterTx
  \/ StakeTx
  \/ DelegateTx
=============================================================================
