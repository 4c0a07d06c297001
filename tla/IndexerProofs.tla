---------------------------- MODULE IndexerProofs ----------------------------
(***************************************************************************)
(* Proofs about the indexer, for any number of processes, blocks and       *)
(* interruptions.  ShapeInv types the state and bounds what a process      *)
(* works on by the chain; CoveredInv adds that what a process or the       *)
(* cursor has passed is stored; ActiveInv that a second call is safe;      *)
(* SettledInv that what a lone process has passed is current.              *)
(***************************************************************************)
EXTENDS IndexerProperties, FiniteSetTheorems, WellFoundedInduction,
        SequenceTheorems, TLAPS

\* What is true of the chain: blocks end where later ones begin, and a trace
\* URI event follows the receipt it belongs to.
LogInv ==
  /\ log \in Seq(Event)
  /\ blockEnd \in Seq(Nat)
  /\ \A b \in 1 .. Height : blockEnd[b] <= Len(log)
  /\ \A b, c \in 1 .. Height : b <= c => blockEnd[b] <= blockEnd[c]
  /\ \A i \in 1 .. Len(log) : log[i].kind = "TraceURIStored" =>
       /\ i > 1
       /\ log[i - 1].kind = "ActionReceipt"
       /\ log[i - 1].receiptId = log[i].receiptId

LEMMA EventTypes ==
  ASSUME NEW e \in Event
  PROVE  /\ e.kind \in {"ActionReceipt", "TraceURIStored"} =>
              e.receiptId \in Receipts
         /\ e.kind = "ChallengeFiled" =>
              e.challengeId \in 1 .. MaxChallenges /\ e.receiptId \in Receipts
         /\ e.kind = "IntentCommitted" =>
              e.owner \in Owners /\ e.intentHash \in IntentHashes
         /\ e.kind = "IntentRevoked" => e.owner \in Owners
         /\ e.kind = "AgentRegistered" => e.agentId \in Agents
         /\ e.kind = "AgentStaked" => e.agentId \in Agents /\ e.newStake \in Nat
BY DEF Event

LEMMA HeightType ==
  ASSUME LogInv
  PROVE  /\ Len(log) \in Nat
         /\ Height \in Nat
         /\ \A b \in Int : b <= Height => EndOf(b) \in 0 .. Len(log)
         /\ \A b, c \in Int : b <= c /\ c <= Height => EndOf(b) <= EndOf(c)
<1>1. Len(log) \in Nat /\ Height \in Nat
  BY DEF LogInv, Height
<1>2. \A b \in 1 .. Height : blockEnd[b] \in Nat
  BY ElementOfSeq DEF LogInv, Height
<1>3. QED
  BY <1>1, <1>2 DEF LogInv, EndOf

\* What mining a block does to the log, in the terms the invariants speak of.
Grown(es) ==
  /\ es \in Seq(Event)
  /\ log' \in Seq(Event)
  /\ Len(log') = Len(log) + Len(es)
  /\ \A i \in 1 .. Len(log) : log'[i] = log[i]
  /\ \A i \in 1 .. Len(es) : log'[Len(log) + i] = es[i]
  /\ blockEnd' \in Seq(Nat)
  /\ Height' = Height + 1
  /\ \A b \in 1 .. Height : blockEnd'[b] = blockEnd[b]
  /\ blockEnd'[Height + 1] = Len(log')

LEMMA MineBlockGrows ==
  ASSUME LogInv, NEW es \in Seq(Event), MineBlock(es)
  PROVE  Grown(es)
<1>1. Len(log) \in Nat /\ Len(es) \in Nat
  BY DEF LogInv
<1>2. /\ log' = log \o es
      /\ blockEnd' = Append(blockEnd, Len(log) + Len(es))
  BY DEF MineBlock
<1>3. /\ log' \in Seq(Event)
      /\ Len(log') = Len(log) + Len(es)
      /\ \A i \in 1 .. Len(log) : log'[i] = log[i]
      /\ \A i \in 1 .. Len(es) : log'[Len(log) + i] = es[i]
  BY <1>1, <1>2, ConcatProperties DEF LogInv
<1>4. /\ blockEnd' \in Seq(Nat)
      /\ Len(blockEnd') = Len(blockEnd) + 1
      /\ \A b \in 1 .. Len(blockEnd) : blockEnd'[b] = blockEnd[b]
      /\ blockEnd'[Len(blockEnd) + 1] = Len(log) + Len(es)
  BY <1>1, <1>2 DEF LogInv
<1>5. QED
  BY <1>1, <1>3, <1>4 DEF Grown, Height

\* Event i is about a challenge, an agent, an owner's active intent.
AboutChallenge(i, c) ==
  /\ log[i].kind \in {"ChallengeFiled", "ChallengeResolved"}
  /\ log[i].challengeId = c
AboutAgent(i, a) ==
  /\ log[i].kind \in {"AgentRegistered", "AgentStaked"}
  /\ log[i].agentId = a
AboutOwner(i, o) ==
  /\ log[i].kind \in {"IntentCommitted", "IntentRevoked"}
  /\ log[i].owner = o

Committed(h) ==
  \E j \in 1 .. Len(log) :
    log[j].kind = "IntentCommitted" /\ log[j].intentHash = h

\* The events a transaction may emit together: a trace URI comes after its
\* receipt, a verdict after its challenge, an agent registers once, first, and
\* an intent hash is committed once.
Transaction(es) ==
  /\ \A i \in 1 .. Len(es) : es[i].kind = "TraceURIStored" =>
       /\ i > 1
       /\ es[i - 1].kind = "ActionReceipt"
       /\ es[i - 1].receiptId = es[i].receiptId
  /\ \A i \in 1 .. Len(es) : es[i].kind = "ChallengeFiled" =>
       /\ i < Len(es)
       /\ es[i + 1].kind = "ChallengeResolved"
       /\ es[i + 1].challengeId = es[i].challengeId
  /\ \A i \in 1 .. Len(es) : es[i].kind = "AgentRegistered" =>
       /\ Len(es) = 1
       /\ \A j \in 1 .. Len(log) : ~AboutAgent(j, es[i].agentId)
  /\ \A i \in 1 .. Len(es) : es[i].kind = "IntentCommitted" =>
       Len(es) = 1 /\ ~Committed(es[i].intentHash)

\* Every transaction mines a block of such events.
LEMMA MineEffect ==
  ASSUME LogInv, LogNext
  PROVE  \E es \in Seq(Event) : Grown(es) /\ Transaction(es)
<1> SUFFICES \E es \in Seq(Event) : MineBlock(es) /\ Transaction(es)
  BY MineBlockGrows
<1>1. ASSUME NEW e \in Event,
             e.kind \notin {"TraceURIStored", "ChallengeFiled"},
             e.kind = "AgentRegistered" =>
               \A j \in 1 .. Len(log) : ~AboutAgent(j, e.agentId),
             e.kind = "IntentCommitted" => ~Committed(e.intentHash)
      PROVE  <<e>> \in Seq(Event) /\ Transaction(<<e>>)
  BY <1>1 DEF Transaction
<1>2. CASE EmptyBlock
  <2>1. << >> \in Seq(Event) /\ Transaction(<< >>)
    BY DEF Transaction
  <2>2. QED
    BY <1>2, <2>1 DEF EmptyBlock
<1>3. CASE CommitTx
  <2>1. PICK o \in Owners, h \in IntentHashes :
          /\ ~Committed(h)
          /\ MineBlock(<<[kind |-> "IntentCommitted", owner |-> o,
                          intentHash |-> h]>>)
    BY <1>3 DEF CommitTx, At, Committed
  <2>2. [kind |-> "IntentCommitted", owner |-> o, intentHash |-> h] \in Event
    BY DEF Event
  <2>3. QED
    BY <1>1, <2>1, <2>2
<1>4. CASE RevokeTx
  <2>1. PICK o \in Owners :
          MineBlock(<<[kind |-> "IntentRevoked", owner |-> o]>>)
    BY <1>4 DEF RevokeTx
  <2>2. [kind |-> "IntentRevoked", owner |-> o] \in Event
    BY DEF Event
  <2>3. QED
    BY <1>1, <2>1, <2>2
<1>5. CASE ExecuteTx
  <2>1. PICK r \in Receipts :
          MineBlock(<<[kind |-> "ActionReceipt", receiptId |-> r],
                      [kind |-> "TraceURIStored", receiptId |-> r]>>)
    BY <1>5 DEF ExecuteTx
  <2> DEFINE one == [kind |-> "ActionReceipt", receiptId |-> r]
             two == [kind |-> "TraceURIStored", receiptId |-> r]
  <2>2. one \in Event /\ two \in Event
    BY DEF Event
  <2>3. <<one, two>> \in Seq(Event)
    BY <2>2
  <2>4. Transaction(<<one, two>>)
    BY DEF Transaction
  <2>5. QED
    BY <2>1, <2>3, <2>4
<1>6. CASE FileTx
  <2>1. PICK i \in 1 .. Len(log), id \in 1 .. MaxChallenges :
          /\ log[i].kind = "ActionReceipt"
          /\ MineBlock(<<[kind |-> "ChallengeFiled", challengeId |-> id,
                          receiptId |-> log[i].receiptId],
                         [kind |-> "ChallengeResolved", challengeId |-> id,
                          uphold |-> TRUE]>>)
    BY <1>6 DEF FileTx, At
  <2> DEFINE one == [kind |-> "ChallengeFiled", challengeId |-> id,
                     receiptId |-> log[i].receiptId]
             two == [kind |-> "ChallengeResolved", challengeId |-> id,
                     uphold |-> TRUE]
  <2>2. log[i].receiptId \in Receipts
    BY <2>1, EventTypes, ElementOfSeq DEF LogInv
  <2>4. one \in Event /\ two \in Event
    BY <2>2 DEF Event
  <2>5. <<one, two>> \in Seq(Event)
    BY <2>4
  <2>6. Transaction(<<one, two>>)
    BY DEF Transaction
  <2>7. QED
    BY <2>1, <2>5, <2>6
<1>7. CASE ReviewTx
  <2>1. PICK c \in 1 .. MaxChallenges :
          MineBlock(<<[kind |-> "ChallengeResolved", challengeId |-> c,
                       uphold |-> FALSE]>>)
    BY <1>7 DEF ReviewTx
  <2>2. [kind |-> "ChallengeResolved", challengeId |-> c, uphold |-> FALSE]
          \in Event
    BY DEF Event
  <2>3. QED
    BY <1>1, <2>1, <2>2
<1>8. CASE RegisterTx
  <2>1. PICK a \in Agents :
          /\ StakeEvents(Len(log), a) = {}
          /\ MineBlock(<<[kind |-> "AgentRegistered", agentId |-> a]>>)
    BY <1>8 DEF RegisterTx
  <2>2. [kind |-> "AgentRegistered", agentId |-> a] \in Event
    BY DEF Event
  <2>3. \A j \in 1 .. Len(log) : ~AboutAgent(j, a)
    BY <2>1 DEF StakeEvents, At, AboutAgent
  <2>4. QED
    BY <1>1, <2>1, <2>2, <2>3
<1>9. CASE StakeTx
  <2>1. PICK a \in Agents, s \in Stakes :
          MineBlock(<<[kind |-> "AgentStaked", agentId |-> a,
                       newStake |-> s]>>)
    BY <1>9 DEF StakeTx
  <2>2. [kind |-> "AgentStaked", agentId |-> a, newStake |-> s] \in Event
    BY LogAssumption DEF Event
  <2>3. QED
    BY <1>1, <2>1, <2>2
<1>10. CASE DelegateTx
  <2>1. PICK o \in Owners, a \in Agents :
          MineBlock(<<[kind |-> "AgentDelegateSet", owner |-> o,
                       agentId |-> a]>>)
    BY <1>10 DEF DelegateTx
  <2>2. [kind |-> "AgentDelegateSet", owner |-> o, agentId |-> a] \in Event
    BY DEF Event
  <2>3. QED
    BY <1>1, <2>1, <2>2
<1>11. QED
  BY <1>2, <1>3, <1>4, <1>5, <1>6, <1>7, <1>8, <1>9, <1>10 DEF LogNext

LEMMA LogInvInductive ==
  ASSUME LogInv, LogNext \/ UNCHANGED logVars
  PROVE  LogInv'
<1>1. CASE LogNext
  <2>1. PICK es \in Seq(Event) : Grown(es) /\ Transaction(es)
    BY <1>1, MineEffect
  <2>2. Len(log) \in Nat /\ Len(es) \in Nat /\ Height \in Nat
    BY HeightType
  <2>3. ASSUME NEW i \in 1 .. Len(log'), log'[i].kind = "TraceURIStored"
        PROVE  /\ i > 1
               /\ log'[i - 1].kind = "ActionReceipt"
               /\ log'[i - 1].receiptId = log'[i].receiptId
    <3>1. CASE i <= Len(log)
      <4>1. i \in 1 .. Len(log) /\ i - 1 < Len(log)
        BY <2>1, <2>2, <3>1 DEF Grown
      <4>2. log'[i] = log[i]
        BY <2>1, <4>1 DEF Grown
      <4>3. /\ i > 1
            /\ log[i - 1].kind = "ActionReceipt"
            /\ log[i - 1].receiptId = log[i].receiptId
        BY <2>3, <4>1, <4>2 DEF LogInv
      <4>4. i - 1 \in 1 .. Len(log)
        BY <2>2, <4>1, <4>3
      <4>5. log'[i - 1] = log[i - 1]
        BY <2>1, <4>4 DEF Grown
      <4>6. QED
        BY <4>2, <4>3, <4>5
    <3>2. CASE i > Len(log)
      <4>1. PICK j \in 1 .. Len(es) : i = Len(log) + j
        <5>1. i - Len(log) \in 1 .. Len(es)
          BY <2>1, <2>2, <3>2 DEF Grown
        <5>2. QED
          BY <5>1, <2>2
      <4>2. log'[i] = es[j]
        BY <2>1, <4>1 DEF Grown
      <4>3. j > 1 /\ es[j - 1].kind = "ActionReceipt"
                  /\ es[j - 1].receiptId = es[j].receiptId
        <5>1. es[j].kind = "TraceURIStored" =>
                /\ j > 1
                /\ es[j - 1].kind = "ActionReceipt"
                /\ es[j - 1].receiptId = es[j].receiptId
          BY <2>1 DEF Transaction
        <5>2. QED
          BY <2>3, <4>2, <5>1
      <4>4. log'[i - 1] = es[j - 1]
        <5>1. j > 1
          BY <4>3
        <5>2. j - 1 \in 1 .. Len(es) /\ i - 1 = Len(log) + (j - 1)
          BY <2>2, <4>1, <5>1
        <5>3. QED
          BY <2>1, <5>2 DEF Grown
      <4>5. QED
        BY <2>2, <4>1, <4>2, <4>3, <4>4
    <3>3. QED
      BY <2>2, <3>1, <3>2
  <2>4. /\ \A b \in 1 .. Height : blockEnd'[b] = blockEnd[b]
        /\ \A b \in 1 .. Height : blockEnd'[b] <= Len(log')
        /\ blockEnd'[Height + 1] = Len(log')
        /\ \A b \in 1 .. Height' : b \in 1 .. Height \/ b = Height + 1
    <3>1. \A b \in 1 .. Height : blockEnd[b] \in Nat /\ blockEnd[b] <= Len(log)
      BY ElementOfSeq DEF LogInv, Height
    <3>2. /\ \A b \in 1 .. Height : blockEnd'[b] = blockEnd[b]
          /\ blockEnd'[Height + 1] = Len(log')
          /\ Len(log') = Len(log) + Len(es)
          /\ Height' = Height + 1
      BY <2>1 DEF Grown
    <3>3. \A b \in 1 .. Height : blockEnd'[b] <= Len(log')
      BY <2>2, <3>1, <3>2
    <3>4. \A b \in 1 .. Height' : b \in 1 .. Height \/ b = Height + 1
      BY <2>2, <3>2
    <3>5. QED
      BY <3>2, <3>3, <3>4
  <2>5. /\ \A b \in 1 .. Height' : blockEnd'[b] <= Len(log')
        /\ \A b, c \in 1 .. Height' : b <= c => blockEnd'[b] <= blockEnd'[c]
    <3>1. \A b, c \in 1 .. Height : b <= c => blockEnd[b] <= blockEnd[c]
      BY DEF LogInv
    <3>2. Len(log') \in Nat
      BY <2>1, <2>2 DEF Grown
    <3>3. QED
      BY <2>2, <2>4, <3>1, <3>2
  <2>6. QED
    BY <2>1, <2>3, <2>5 DEF LogInv, Grown
<1>2. CASE UNCHANGED logVars
  BY <1>2 DEF logVars, LogInv, Height
<1>3. QED
  BY <1>1, <1>2

----------------------------------------------------------------------------
(* The tables and the processes.                                           *)

ReceiptRow == [receiptId : Receipts, hasTrace : BOOLEAN]
ChallengeRow ==
  [challengeId : 1 .. MaxChallenges, receiptId : Receipts,
   status : {"FILED", "UPHELD", "REJECTED"}]
IntentRow == [intentHash : IntentHashes, owner : Owners, active : BOOLEAN]
AgentRow == [agentId : Agents, totalStake : Nat]

TablesInv ==
  /\ receiptRows \subseteq ReceiptRow
  /\ challengeRows \subseteq ChallengeRow
  /\ intentRows \subseteq IntentRow
  /\ agentRows \subseteq AgentRow
  /\ delegateRows \subseteq 1 .. Len(log)

PCs == {"idle", "off", "reset", "cursor", "fetch", "handle", "insertIntent",
        "done", "failed"}

Task == [pc : PCs, head : Nat, next : Nat, upper : Nat, pos : Nat]

\* What a process knows is true of the chain: it never works past the head it
\* read nor past its batch.
TaskInv(t) ==
  /\ t \in Task
  /\ t.upper <= t.head /\ t.head <= Height
  /\ t.pc = "fetch" => t.next <= t.head
  /\ t.pc \in {"handle", "insertIntent"} => t.pos <= EndOf(t.upper)
  /\ t.pc = "insertIntent" =>
       t.pos < EndOf(t.upper) /\ log[t.pos + 1].kind = "IntentCommitted"

ShapeInv ==
  /\ LogInv
  /\ TablesInv
  /\ lastBlock \in 0 .. Height
  /\ task \in [Processes -> Task]
  /\ \A p \in Processes : TaskInv(task[p])
  /\ faults \in 0 .. MaxFaults
  /\ missed \subseteq 1 .. Len(log)

\* The event a process is about to handle is an event of the log.
LEMMA NextEventType ==
  ASSUME ShapeInv, NEW p \in Processes,
         HasNext(p) \/ PC(p) = "insertIntent"
  PROVE  /\ task[p].pos + 1 \in 1 .. Len(log)
         /\ NextEvent(p) \in Event
<1>1. task[p] \in Task /\ TaskInv(task[p])
  BY DEF ShapeInv
<1>2. task[p].pos \in Nat /\ task[p].upper \in Nat /\ task[p].upper <= Height
  BY <1>1, HeightType DEF Task, TaskInv, ShapeInv
<1>3. EndOf(task[p].upper) \in 0 .. Len(log)
  BY <1>2, HeightType DEF ShapeInv
<1>4. task[p].pos < EndOf(task[p].upper)
  BY <1>1 DEF HasNext, TaskInv, PC
<1>5. task[p].pos + 1 \in 1 .. Len(log)
  BY <1>2, <1>3, <1>4, HeightType DEF ShapeInv
<1>6. QED
  BY <1>5, ElementOfSeq DEF NextEvent, ShapeInv, LogInv

\* A call to Supabase that is refused.
Refused(p) == RefusedWrite(p) \/ MisreadCursor(p) \/ RefusedCursor(p)

\* Which actions write which variables.
LEMMA WriteFrame ==
  ASSUME [Next]_vars
  PROVE  /\ LogNext \/ UNCHANGED logVars
         /\ UNCHANGED logVars \/ UNCHANGED indexVars
         /\ \/ UNCHANGED receiptRows
            \/ \E p \in Processes :
                 HandleActionReceipt(p) \/ HandleTraceURIStored(p)
            \/ \E r \in Reindexers : Truncate(r)
         /\ \/ UNCHANGED challengeRows
            \/ \E p \in Processes :
                 HandleChallengeFiled(p) \/ HandleChallengeResolved(p)
            \/ \E r \in Reindexers : Truncate(r)
         /\ \/ UNCHANGED intentRows
            \/ \E p \in Processes :
                 \/ HandleIntentCommitted(p) \/ InsertIntent(p)
                 \/ HandleIntentRevoked(p)
            \/ \E r \in Reindexers : Truncate(r)
         /\ \/ UNCHANGED agentRows
            \/ \E p \in Processes :
                 HandleAgentRegistered(p) \/ HandleAgentStaked(p)
            \/ \E r \in Reindexers : Truncate(r)
         /\ \/ UNCHANGED delegateRows
            \/ \E p \in Processes : HandleAgentDelegateSet(p)
            \/ \E r \in Reindexers : Truncate(r)
<1> USE DEF logVars, indexVars, tables
<1>1. CASE Mine
  BY <1>1 DEF Mine
<1>2. ASSUME NEW p \in Processes,
             \/ ReadHead(p) \/ ReadCursor(p) \/ FetchBatch(p) \/ SaveCursor(p)
             \/ Interrupt(p) \/ Refused(p)
      PROVE  UNCHANGED <<logVars, tables>>
  BY <1>2 DEF ReadHead, ReadCursor, FetchBatch, SaveCursor, Interrupt, Refused,
              RefusedWrite, MisreadCursor, RefusedCursor
<1>3. ASSUME NEW p \in Processes,
             HandleActionReceipt(p) \/ HandleTraceURIStored(p)
      PROVE  UNCHANGED <<logVars, challengeRows, intentRows, agentRows,
                         delegateRows>>
  BY <1>3 DEF HandleActionReceipt, HandleTraceURIStored
<1>4. ASSUME NEW p \in Processes,
             HandleChallengeFiled(p) \/ HandleChallengeResolved(p)
      PROVE  UNCHANGED <<logVars, receiptRows, intentRows, agentRows,
                         delegateRows>>
  BY <1>4 DEF HandleChallengeFiled, HandleChallengeResolved
<1>5. ASSUME NEW p \in Processes,
             \/ HandleIntentCommitted(p) \/ InsertIntent(p)
             \/ HandleIntentRevoked(p)
      PROVE  UNCHANGED <<logVars, receiptRows, challengeRows, agentRows,
                         delegateRows>>
  BY <1>5 DEF HandleIntentCommitted, InsertIntent, HandleIntentRevoked
<1>6. ASSUME NEW p \in Processes,
             HandleAgentRegistered(p) \/ HandleAgentStaked(p)
      PROVE  UNCHANGED <<logVars, receiptRows, challengeRows, intentRows,
                         delegateRows>>
  BY <1>6 DEF HandleAgentRegistered, HandleAgentStaked
<1>7. ASSUME NEW p \in Processes, HandleAgentDelegateSet(p)
      PROVE  UNCHANGED <<logVars, receiptRows, challengeRows, intentRows,
                         agentRows>>
  BY <1>7 DEF HandleAgentDelegateSet
<1>8. ASSUME NEW r \in Reindexers, Truncate(r)
      PROVE  UNCHANGED logVars
  BY <1>8 DEF Truncate
<1>9. ASSUME NEW r \in Reindexers, ResetCursor(r)
      PROVE  UNCHANGED <<logVars, tables>>
  BY <1>9 DEF ResetCursor
<1>10. CASE UNCHANGED vars
  BY <1>10 DEF vars
<1>11. QED
  BY <1>1, <1>2, <1>3, <1>4, <1>5, <1>6, <1>7, <1>8, <1>9, <1>10
     DEF Next, PollerStep, HandleLog, Refused

NoTruncate == \A r \in Reindexers : ~Truncate(r)

LEMMA ReceiptsStep ==
  ASSUME ShapeInv, [Next]_vars
  PROVE  /\ receiptRows' \subseteq ReceiptRow
         /\ NoTruncate => \A k :
              /\ HasReceipt(k) => HasReceipt(k)'
              /\ HasTraceURI(k) => HasTraceURI(k)'
<1>1. receiptRows \subseteq ReceiptRow
  BY DEF ShapeInv, TablesInv
<1>2. CASE UNCHANGED receiptRows
  BY <1>1, <1>2 DEF HasReceipt, HasTraceURI
<1>3. ASSUME NEW p \in Processes, HandleActionReceipt(p)
      PROVE  /\ receiptRows' \subseteq ReceiptRow
             /\ receiptRows \subseteq receiptRows'
  <2>1. NextEvent(p).receiptId \in Receipts
    BY <1>3, NextEventType, EventTypes DEF HandleActionReceipt
  <2> DEFINE new == [receiptId |-> NextEvent(p).receiptId, hasTrace |-> FALSE]
  <2>2. new \in ReceiptRow
    BY <2>1 DEF ReceiptRow
  <2>3. receiptRows' = receiptRows \/ receiptRows' = receiptRows \cup {new}
    BY <1>3 DEF HandleActionReceipt, UpsertReceipt
  <2> HIDE DEF new
  <2>4. QED
    BY <1>1, <2>2, <2>3
<1>4. ASSUME NEW p \in Processes, HandleTraceURIStored(p)
      PROVE  /\ receiptRows' \subseteq ReceiptRow
             /\ \A k : /\ HasReceipt(k) => HasReceipt(k)'
                       /\ HasTraceURI(k) => HasTraceURI(k)'
  <2> DEFINE r == NextEvent(p).receiptId
             set(row) == IF row.receiptId = r
                         THEN [row EXCEPT !.hasTrace = TRUE] ELSE row
  <2>1. receiptRows' = {set(row) : row \in receiptRows}
    BY <1>4 DEF HandleTraceURIStored, SetReceiptTraceUri
  <2>2. \A row \in receiptRows :
           /\ set(row) \in ReceiptRow
           /\ set(row).receiptId = row.receiptId
           /\ row.hasTrace => set(row).hasTrace
    BY <1>1 DEF ReceiptRow
  <2> HIDE DEF set
  <2>3. QED
    BY <2>1, <2>2 DEF HasReceipt, HasTraceURI
<1>5. ASSUME NEW r \in Reindexers, Truncate(r)
      PROVE  receiptRows' = {} /\ ~NoTruncate
  BY <1>5 DEF Truncate, NoTruncate
<1>6. QED
  BY <1>2, <1>3, <1>4, <1>5, WriteFrame DEF HasReceipt, HasTraceURI

LEMMA ChallengesStep ==
  ASSUME ShapeInv, [Next]_vars
  PROVE  /\ challengeRows' \subseteq ChallengeRow
         /\ NoTruncate => \A k : HasChallenge(k) => HasChallenge(k)'
<1>1. challengeRows \subseteq ChallengeRow
  BY DEF ShapeInv, TablesInv
<1>2. CASE UNCHANGED challengeRows
  BY <1>1, <1>2 DEF HasChallenge
<1>3. ASSUME NEW p \in Processes, HandleChallengeFiled(p)
      PROVE  /\ challengeRows' \subseteq ChallengeRow
             /\ \A k : HasChallenge(k) => HasChallenge(k)'
  <2> DEFINE c == NextEvent(p).challengeId
             same == {row \in challengeRows : row.challengeId = c}
             new == [challengeId |-> c, receiptId |-> NextEvent(p).receiptId,
                     status |-> IF same = {} THEN "FILED"
                       ELSE StatusOnConflict((CHOOSE row \in same : TRUE).status)]
  <2>1. c \in 1 .. MaxChallenges /\ NextEvent(p).receiptId \in Receipts
    BY <1>3, NextEventType, EventTypes DEF HandleChallengeFiled
  <2>2. challengeRows' = (challengeRows \ same) \cup {new}
    BY <1>3 DEF HandleChallengeFiled, UpsertChallengeFiled
  <2>3. ASSUME same # {}
        PROVE  StatusOnConflict((CHOOSE row \in same : TRUE).status)
                 \in {"FILED", "UPHELD", "REJECTED"}
    <3>1. (CHOOSE row \in same : TRUE) \in same
      BY <2>3
    <3>2. (CHOOSE row \in same : TRUE) \in ChallengeRow
      BY <1>1, <3>1
    <3>3. QED
      BY <3>2 DEF StatusOnConflict, ChallengeRow
  <2>4. new \in ChallengeRow
    BY <2>1, <2>3 DEF ChallengeRow
  <2>5. new.challengeId = c
    OBVIOUS
  <2> HIDE DEF new
  <2>6. challengeRows' \subseteq ChallengeRow
    BY <1>1, <2>2, <2>4
  <2>7. \A k : HasChallenge(k) => HasChallenge(k)'
    BY <2>2, <2>5 DEF HasChallenge
  <2>8. QED
    BY <2>6, <2>7
<1>4. ASSUME NEW p \in Processes, HandleChallengeResolved(p)
      PROVE  /\ challengeRows' \subseteq ChallengeRow
             /\ \A k : HasChallenge(k) => HasChallenge(k)'
  <2> DEFINE e == NextEvent(p)
             set(row) == IF row.challengeId = e.challengeId
                         THEN [row EXCEPT !.status =
                                 IF e.uphold THEN "UPHELD" ELSE "REJECTED"]
                         ELSE row
  <2>1. challengeRows' = {set(row) : row \in challengeRows}
    BY <1>4 DEF HandleChallengeResolved, ResolveChallenge
  <2>2. \A row \in challengeRows :
           set(row) \in ChallengeRow /\ set(row).challengeId = row.challengeId
    BY <1>1 DEF ChallengeRow
  <2> HIDE DEF set
  <2>3. QED
    BY <2>1, <2>2 DEF HasChallenge
<1>5. ASSUME NEW r \in Reindexers, Truncate(r)
      PROVE  challengeRows' = {} /\ ~NoTruncate
  BY <1>5 DEF Truncate, NoTruncate
<1>6. QED
  BY <1>2, <1>3, <1>4, <1>5, WriteFrame

\* Deactivating keeps every row, but for the flag.
LEMMA DeactivatedRows ==
  ASSUME intentRows \subseteq IntentRow, NEW o
  PROVE  /\ Deactivated(o) \subseteq IntentRow
         /\ \A row \in intentRows :
              \E later \in Deactivated(o) : later.intentHash = row.intentHash
<1> DEFINE set(row) == IF row.owner = o
                       THEN [row EXCEPT !.active = FALSE] ELSE row
<1>1. Deactivated(o) = {set(row) : row \in intentRows}
  BY DEF Deactivated
<1>2. \A row \in intentRows :
         set(row) \in IntentRow /\ set(row).intentHash = row.intentHash
  BY DEF IntentRow
<1> HIDE DEF set
<1>3. QED
  BY <1>1, <1>2

\* Inserting keeps every row, and leaves one for the hash.
LEMMA InsertedRows ==
  ASSUME NEW rows, rows \subseteq IntentRow,
         NEW o \in Owners, NEW h \in IntentHashes
  PROVE  /\ InsertIgnore(rows, o, h) \subseteq IntentRow
         /\ rows \subseteq InsertIgnore(rows, o, h)
         /\ \E row \in InsertIgnore(rows, o, h) : row.intentHash = h
<1> DEFINE new == [intentHash |-> h, owner |-> o, active |-> TRUE]
<1>1. new \in IntentRow /\ new.intentHash = h
  BY DEF IntentRow
<1>2. InsertIgnore(rows, o, h) =
        IF \E row \in rows : row.intentHash = h THEN rows
        ELSE rows \cup {new}
  BY DEF InsertIgnore
<1> HIDE DEF new
<1>3. QED
  BY <1>1, <1>2

LEMMA IntentsStep ==
  ASSUME ShapeInv, [Next]_vars
  PROVE  /\ intentRows' \subseteq IntentRow
         /\ NoTruncate => \A k : HasIntent(k) => HasIntent(k)'
<1>1. intentRows \subseteq IntentRow
  BY DEF ShapeInv, TablesInv
<1>2. CASE UNCHANGED intentRows
  BY <1>1, <1>2 DEF HasIntent
<1>3. ASSUME NEW p \in Processes, HandleIntentCommitted(p)
      PROVE  /\ intentRows' \subseteq IntentRow
             /\ \A k : HasIntent(k) => HasIntent(k)'
  <2> DEFINE e == NextEvent(p)
  <2>1. e.owner \in Owners /\ e.intentHash \in IntentHashes
    BY <1>3, NextEventType, EventTypes DEF HandleIntentCommitted
  <2>2. \/ intentRows' = InsertIgnore(Deactivated(e.owner), e.owner,
                                     e.intentHash)
        \/ intentRows' = Deactivated(e.owner)
    BY <1>3 DEF HandleIntentCommitted
  <2> HIDE DEF e
  <2>3. QED
    BY <1>1, <2>1, <2>2, DeactivatedRows, InsertedRows DEF HasIntent
<1>4. ASSUME NEW p \in Processes, InsertIntent(p)
      PROVE  /\ intentRows' \subseteq IntentRow
             /\ \A k : HasIntent(k) => HasIntent(k)'
  <2> DEFINE e == NextEvent(p)
  <2>1. e.kind = "IntentCommitted"
    BY <1>4 DEF InsertIntent, ShapeInv, TaskInv, PC, NextEvent
  <2>2. e.owner \in Owners /\ e.intentHash \in IntentHashes
    BY <1>4, <2>1, NextEventType, EventTypes DEF InsertIntent
  <2>3. intentRows' = InsertIgnore(intentRows, e.owner, e.intentHash)
    BY <1>4 DEF InsertIntent
  <2> HIDE DEF e
  <2>4. QED
    BY <1>1, <2>2, <2>3, InsertedRows DEF HasIntent
<1>5. ASSUME NEW p \in Processes, HandleIntentRevoked(p)
      PROVE  /\ intentRows' \subseteq IntentRow
             /\ \A k : HasIntent(k) => HasIntent(k)'
  BY <1>1, <1>5, DeactivatedRows DEF HandleIntentRevoked, HasIntent
<1>6. ASSUME NEW r \in Reindexers, Truncate(r)
      PROVE  intentRows' = {} /\ ~NoTruncate
  BY <1>6 DEF Truncate, NoTruncate
<1>7. QED
  BY <1>2, <1>3, <1>4, <1>5, <1>6, WriteFrame

LEMMA AgentsStep ==
  ASSUME ShapeInv, [Next]_vars
  PROVE  /\ agentRows' \subseteq AgentRow
         /\ NoTruncate => \A k : HasAgent(k) => HasAgent(k)'
<1>1. agentRows \subseteq AgentRow
  BY DEF ShapeInv, TablesInv
<1>2. CASE UNCHANGED agentRows
  BY <1>1, <1>2 DEF HasAgent
<1>3. ASSUME NEW p \in Processes, HandleAgentRegistered(p)
      PROVE  /\ agentRows' \subseteq AgentRow
             /\ \A k : HasAgent(k) => HasAgent(k)'
  <2> DEFINE a == NextEvent(p).agentId
             new == [agentId |-> a, totalStake |-> 0]
  <2>1. a \in Agents
    BY <1>3, NextEventType, EventTypes DEF HandleAgentRegistered
  <2>2. new \in AgentRow /\ new.agentId = a
    BY <2>1 DEF AgentRow
  <2>3. \/ UNCHANGED agentRows
        \/ agentRows' = {row \in agentRows : row.agentId # a} \cup {new}
    BY <1>3 DEF HandleAgentRegistered, UpsertAgentRegistered
  <2> HIDE DEF new, a
  <2>4. QED
    BY <1>1, <2>2, <2>3 DEF HasAgent
<1>4. ASSUME NEW p \in Processes, HandleAgentStaked(p)
      PROVE  /\ agentRows' \subseteq AgentRow
             /\ \A k : HasAgent(k) => HasAgent(k)'
  <2> DEFINE e == NextEvent(p)
             set(row) == IF row.agentId = e.agentId
                         THEN [row EXCEPT !.totalStake = e.newStake] ELSE row
  <2>1. e.newStake \in Nat
    BY <1>4, NextEventType, EventTypes DEF HandleAgentStaked
  <2>2. agentRows' = {set(row) : row \in agentRows}
    BY <1>4 DEF HandleAgentStaked, ApplyStakeIncrease
  <2>3. \A row \in agentRows :
           set(row) \in AgentRow /\ set(row).agentId = row.agentId
    BY <1>1, <2>1 DEF AgentRow
  <2> HIDE DEF set
  <2>4. QED
    BY <2>2, <2>3 DEF HasAgent
<1>5. ASSUME NEW r \in Reindexers, Truncate(r)
      PROVE  agentRows' = {} /\ ~NoTruncate
  BY <1>5 DEF Truncate, NoTruncate
<1>6. QED
  BY <1>2, <1>3, <1>4, <1>5, WriteFrame

LEMMA DelegatesStep ==
  ASSUME ShapeInv, [Next]_vars
  PROVE  /\ delegateRows' \subseteq 1 .. Len(log)
         /\ NoTruncate => delegateRows \subseteq delegateRows'
<1>1. delegateRows \subseteq 1 .. Len(log)
  BY DEF ShapeInv, TablesInv
<1>2. ASSUME NEW p \in Processes, HandleAgentDelegateSet(p)
      PROVE  /\ delegateRows' \subseteq 1 .. Len(log)
             /\ delegateRows \subseteq delegateRows'
  <2>1. task[p].pos + 1 \in 1 .. Len(log)
    BY <1>2, NextEventType DEF HandleAgentDelegateSet
  <2>2. QED
    BY <1>1, <1>2, <2>1 DEF HandleAgentDelegateSet
<1>3. ASSUME NEW r \in Reindexers, Truncate(r)
      PROVE  delegateRows' = {} /\ ~NoTruncate
  BY <1>3 DEF Truncate, NoTruncate
<1>4. QED
  BY <1>1, <1>2, <1>3, WriteFrame

----------------------------------------------------------------------------
(* The chain only grows, and what is stored stays stored.                  *)

LEMMA LogGrows ==
  ASSUME LogInv, [Next]_vars
  PROVE  /\ LogInv'
         /\ Len(log) <= Len(log') /\ Height <= Height'
         /\ \A i \in 1 .. Len(log) : log'[i] = log[i]
         /\ \A b \in Int : b <= Height => EndOf(b)' = EndOf(b)
<1>1. LogInv'
  BY LogInvInductive, WriteFrame
<1>2. Len(log) \in Nat /\ Height \in Nat
  BY HeightType
<1>3. CASE LogNext
  <2>1. PICK es \in Seq(Event) : Grown(es)
    BY <1>3, MineEffect
  <2>2. Len(es) \in Nat
    OBVIOUS
  <2>3. QED
    BY <1>1, <1>2, <2>1, <2>2 DEF Grown, EndOf
<1>4. CASE UNCHANGED logVars
  BY <1>1, <1>2, <1>4 DEF logVars, EndOf, Height
<1>5. QED
  BY <1>3, <1>4, WriteFrame

\* Which steps miss a write, and that none is made up for.
LEMMA MissedStep ==
  ASSUME ShapeInv, [Next]_vars
  PROVE  /\ missed \subseteq missed'
         /\ missed' \subseteq 1 .. Len(log)
         /\ \/ UNCHANGED missed
            \/ \E p \in Processes : /\ RefusedWrite(p)
                                    /\ missed' = missed \cup {task[p].pos + 1}
         /\ Provider = "sqlite" => UNCHANGED missed
<1>1. missed \subseteq 1 .. Len(log)
  BY DEF ShapeInv
<1>2. CASE \E p \in Processes : RefusedWrite(p)
  <2>1. PICK p \in Processes : RefusedWrite(p)
    BY <1>2
  <2>2. task[p].pos + 1 \in 1 .. Len(log)
    BY <2>1, NextEventType DEF RefusedWrite
  <2>3. Provider = "supabase"
    BY <2>1 DEF RefusedWrite, Refusal
  <2>4. QED
    BY <1>1, <2>1, <2>2, <2>3 DEF RefusedWrite
<1>3. CASE ~\E p \in Processes : RefusedWrite(p)
  <2>1. ASSUME NEW p \in Processes, PollerStep(p) PROVE UNCHANGED missed
    BY <2>1 DEF PollerStep, ReadHead, ReadCursor, FetchBatch, SaveCursor,
       HandleLog, HandleActionReceipt, HandleTraceURIStored,
       HandleChallengeFiled, HandleChallengeResolved, HandleIntentCommitted,
       InsertIntent, HandleIntentRevoked, HandleAgentRegistered,
       HandleAgentStaked, HandleAgentDelegateSet
  <2>2. ASSUME NEW p \in Processes,
               Interrupt(p) \/ MisreadCursor(p) \/ RefusedCursor(p)
        PROVE  UNCHANGED missed
    BY <2>2 DEF Interrupt, MisreadCursor, RefusedCursor
  <2>3. ASSUME NEW r \in Reindexers, Truncate(r) \/ ResetCursor(r)
        PROVE  UNCHANGED missed
    BY <2>3 DEF Truncate, ResetCursor
  <2>4. ASSUME Mine \/ UNCHANGED vars PROVE UNCHANGED missed
    BY <2>4 DEF Mine, vars, indexVars
  <2>5. UNCHANGED missed
    BY <1>3, <2>1, <2>2, <2>3, <2>4 DEF Next
  <2>6. QED
    BY <1>1, <2>5
<1>4. QED
  BY <1>2, <1>3

AccountedUpTo(n) == \A i \in 1 .. n : Accounted(i)

LEMMA StoredKept ==
  ASSUME ShapeInv, [Next]_vars, NoTruncate,
         NEW i \in 1 .. Len(log), Stored(i)
  PROVE  Stored(i)'
<1>1. log'[i] = log[i]
  BY LogGrows DEF ShapeInv
<1>2. QED
  BY <1>1, ReceiptsStep, ChallengesStep, IntentsStep, AgentsStep, DelegatesStep
     DEF Stored

LEMMA AccountedKept ==
  ASSUME ShapeInv, [Next]_vars, NoTruncate,
         NEW i \in 1 .. Len(log), Accounted(i)
  PROVE  Accounted(i)'
<1>1. log'[i] = log[i]
  BY LogGrows DEF ShapeInv
<1>2. QED
  BY <1>1, StoredKept, MissedStep DEF Accounted, Excused

LEMMA AccountedUpToKept ==
  ASSUME ShapeInv, [Next]_vars, NoTruncate,
         NEW n \in Nat, n <= Len(log), AccountedUpTo(n)
  PROVE  AccountedUpTo(n)'
<1>1. \A i \in 1 .. n : i \in 1 .. Len(log)
  BY HeightType DEF ShapeInv
<1>2. QED
  BY <1>1, AccountedKept DEF AccountedUpTo

\* An event is stored by the handler that completes it. A trace URI is set on a
\* row that exists if the receipt before it was not refused: it is accounted for.
LEMMA HandlerStores ==
  ASSUME ShapeInv, [Next]_vars,
         NEW p \in Processes, HandleLog(p), task'[p].pc = "handle",
         NEW i, i = task[p].pos + 1, AccountedUpTo(task[p].pos)
  PROVE  Accounted(i)'
<1> DEFINE e == NextEvent(p)
<1>1. task[p] \in Task /\ TaskInv(task[p]) /\ task \in [Processes -> Task]
  BY DEF ShapeInv
<1>2. HasNext(p) \/ PC(p) = "insertIntent"
  BY DEF HandleLog, HandleActionReceipt, HandleTraceURIStored,
         HandleChallengeFiled, HandleChallengeResolved, HandleIntentCommitted,
         InsertIntent, HandleIntentRevoked, HandleAgentRegistered,
         HandleAgentStaked, HandleAgentDelegateSet
<1>3. /\ i \in 1 .. Len(log)
      /\ e \in Event
      /\ e = log[i]
      /\ log'[i] = e
  BY <1>2, NextEventType, LogGrows DEF NextEvent, ShapeInv
<1>4. CASE HandleActionReceipt(p)
  <2>1. e.kind = "ActionReceipt" /\ UpsertReceipt(e.receiptId)
    BY <1>4 DEF HandleActionReceipt
  <2>2. \E row \in receiptRows' : row.receiptId = e.receiptId
    <3> DEFINE new == [receiptId |-> e.receiptId, hasTrace |-> FALSE]
    <3>1. new.receiptId = e.receiptId
      OBVIOUS
    <3>2. \/ (\E row \in receiptRows : row.receiptId = e.receiptId)
             /\ receiptRows' = receiptRows
          \/ receiptRows' = receiptRows \cup {new}
      BY <2>1 DEF UpsertReceipt
    <3> HIDE DEF new, e
    <3>3. QED
      BY <3>1, <3>2
  <2> HIDE DEF e
  <2>3. QED
    BY <1>3, <2>1, <2>2 DEF Accounted, Stored, HasReceipt
<1>5. CASE HandleTraceURIStored(p)
  <2> DEFINE set(row) == IF row.receiptId = e.receiptId
                         THEN [row EXCEPT !.hasTrace = TRUE] ELSE row
  <2>1. /\ e.kind = "TraceURIStored"
        /\ receiptRows' = {set(row) : row \in receiptRows}
    BY <1>5 DEF HandleTraceURIStored, SetReceiptTraceUri
  <2>2. /\ i > 1
        /\ log[i - 1].kind = "ActionReceipt"
        /\ log[i - 1].receiptId = e.receiptId
    BY <1>3, <2>1 DEF ShapeInv, LogInv
  <2>3. Accounted(i - 1)
    <3>1. i - 1 \in 1 .. task[p].pos
      BY <1>1, <2>2 DEF Task
    <3>2. QED
      BY <3>1 DEF AccountedUpTo
  <2> SUFFICES ASSUME Stored(i - 1) PROVE Stored(i)'
    <3>1. i - 1 \in missed => i - 1 \in missed'
      BY MissedStep
    <3>2. ~Stored(i - 1) => i - 1 \in missed
      BY <2>2, <2>3 DEF Accounted, Excused
    <3> HIDE DEF e
    <3>3. log'[i].kind = "TraceURIStored"
      BY <1>3, <2>1
    <3>4. QED
      BY <3>1, <3>2, <3>3 DEF Accounted, Excused
  <2>4. PICK row \in receiptRows : row.receiptId = e.receiptId
    BY <2>2 DEF Stored, HasReceipt
  <2>5. row \in ReceiptRow
    BY DEF ShapeInv, TablesInv
  <2>6. /\ set(row) \in receiptRows'
        /\ set(row).receiptId = e.receiptId
        /\ set(row).hasTrace
    BY <2>1, <2>4, <2>5 DEF ReceiptRow
  <2> HIDE DEF set, e
  <2>7. QED
    BY <1>3, <2>1, <2>6 DEF Stored, HasTraceURI
<1>6. CASE HandleChallengeFiled(p)
  <2> DEFINE new == [challengeId |-> e.challengeId, receiptId |-> e.receiptId,
                     status |-> IF {row \in challengeRows :
                                      row.challengeId = e.challengeId} = {}
                                THEN "FILED"
                                ELSE StatusOnConflict((CHOOSE row \in
                                  {row \in challengeRows :
                                     row.challengeId = e.challengeId} :
                                  TRUE).status)]
  <2>1. e.kind = "ChallengeFiled" /\ new \in challengeRows'
    BY <1>6 DEF HandleChallengeFiled, UpsertChallengeFiled
  <2>2. new.challengeId = e.challengeId
    OBVIOUS
  <2> HIDE DEF new, e
  <2>3. QED
    BY <1>3, <2>1, <2>2 DEF Accounted, Stored, HasChallenge
<1>7. CASE HandleIntentCommitted(p) \/ InsertIntent(p)
  <2>1. e.kind = "IntentCommitted"
    BY <1>1, <1>7 DEF HandleIntentCommitted, InsertIntent, TaskInv, PC,
                      NextEvent
  <2>2. e.owner \in Owners /\ e.intentHash \in IntentHashes
    BY <1>3, <2>1, EventTypes
  <2>3. \/ intentRows' = InsertIgnore(Deactivated(e.owner), e.owner,
                                     e.intentHash)
        \/ intentRows' = InsertIgnore(intentRows, e.owner, e.intentHash)
    <3>1. CASE HandleIntentCommitted(p)
      <4>1. ASSUME Provider # "sqlite" PROVE FALSE
        <5>1. task' = [task EXCEPT ![p].pc = "insertIntent"]
          BY <3>1, <4>1 DEF HandleIntentCommitted
        <5>2. task'[p].pc = "insertIntent"
          BY <1>1, <5>1 DEF Task
        <5>3. QED
          BY <5>2
      <4>2. QED
        BY <3>1, <4>1 DEF HandleIntentCommitted
    <3>2. CASE InsertIntent(p)
      BY <3>2 DEF InsertIntent
    <3>3. QED
      BY <1>7, <3>1, <3>2
  <2> HIDE DEF e
  <2>4. intentRows \subseteq IntentRow /\ Deactivated(e.owner) \subseteq IntentRow
    BY DeactivatedRows DEF ShapeInv, TablesInv
  <2>5. \E row \in intentRows' : row.intentHash = e.intentHash
    BY <2>2, <2>3, <2>4, InsertedRows
  <2>6. QED
    BY <1>3, <2>1, <2>5 DEF Accounted, Stored, HasIntent
<1>8. CASE HandleAgentRegistered(p)
  <2> DEFINE new == [agentId |-> e.agentId, totalStake |-> 0]
  <2>1. e.kind = "AgentRegistered" /\ UpsertAgentRegistered(e.agentId)
    BY <1>8 DEF HandleAgentRegistered
  <2>2. new.agentId = e.agentId
    OBVIOUS
  <2>3. \/ (\E row \in agentRows : row.agentId = e.agentId)
           /\ agentRows' = agentRows
        \/ new \in agentRows'
    BY <2>1 DEF UpsertAgentRegistered
  <2> HIDE DEF new, e
  <2>4. \E row \in agentRows' : row.agentId = e.agentId
    BY <2>2, <2>3
  <2>5. QED
    BY <1>3, <2>1, <2>4 DEF Accounted, Stored, HasAgent
<1>9. CASE HandleAgentDelegateSet(p)
  <2>1. e.kind = "AgentDelegateSet" /\ i \in delegateRows'
    BY <1>9 DEF HandleAgentDelegateSet
  <2> HIDE DEF e
  <2>2. QED
    BY <1>3, <2>1 DEF Accounted, Stored
<1>10. CASE \/ HandleChallengeResolved(p) \/ HandleIntentRevoked(p)
            \/ HandleAgentStaked(p)
  <2>1. e.kind \in {"ChallengeResolved", "IntentRevoked", "AgentStaked"}
    BY <1>10 DEF HandleChallengeResolved, HandleIntentRevoked, HandleAgentStaked
  <2> HIDE DEF e
  <2>2. QED
    BY <1>3, <2>1 DEF Accounted, Stored
<1>11. QED
  BY <1>4, <1>5, <1>6, <1>7, <1>8, <1>9, <1>10 DEF HandleLog

----------------------------------------------------------------------------
(* What a step does to the processes.                                      *)

LEMMA SmallerOf ==
  ASSUME NEW a \in Int, NEW b \in Int
  PROVE  Min({a, b}) \in {a, b} /\ Min({a, b}) <= a /\ Min({a, b}) <= b
<1>1. \E x \in {a, b} : \A y \in {a, b} : x <= y
  OBVIOUS
<1>2. Min({a, b}) \in {a, b} /\ \A y \in {a, b} : Min({a, b}) <= y
  BY <1>1 DEF Min
<1>3. QED
  BY <1>2

\* A process that a step leaves alone is as right as it was.
LEMMA OneTask ==
  ASSUME ShapeInv, [Next]_vars, NEW p \in Processes,
         \A q \in Processes \ {p} : task'[q] = task[q],
         TaskInv(task[p])'
  PROVE  \A q \in Processes : TaskInv(task[q])'
<1>1. SUFFICES ASSUME NEW q \in Processes, task'[q] = task[q]
               PROVE  TaskInv(task[q])'
  OBVIOUS
<1>2. TaskInv(task[q]) /\ task[q] \in Task
  BY DEF ShapeInv
<1>3. /\ Len(log) <= Len(log') /\ Height <= Height'
      /\ \A i \in 1 .. Len(log) : log'[i] = log[i]
      /\ \A b \in Int : b <= Height => EndOf(b)' = EndOf(b)
      /\ Height' \in Nat
  BY LogGrows, HeightType DEF ShapeInv, LogInv, Height
<1>4. /\ task[q].upper \in Nat /\ task[q].head \in Nat /\ task[q].pos \in Nat
      /\ task[q].upper <= Height
      /\ Height \in Nat
  BY <1>2, HeightType DEF Task, TaskInv, ShapeInv
<1>5. EndOf(task[q].upper)' = EndOf(task[q].upper)
  BY <1>1, <1>3, <1>4 DEF EndOf
<1>6. task[q].pc = "insertIntent" => log'[task[q].pos + 1] = log[task[q].pos + 1]
  BY <1>3, NextEventType DEF PC
<1>7. QED
  BY <1>1, <1>2, <1>3, <1>4, <1>5, <1>6 DEF TaskInv

LEMMA TaskAt ==
  ASSUME ShapeInv, NEW p \in Processes
  PROVE  /\ task[p] \in Task /\ TaskInv(task[p])
         /\ DOMAIN task = Processes
         /\ task[p].pc \in PCs
         /\ task[p].head \in Nat /\ task[p].next \in Nat
         /\ task[p].upper \in Nat /\ task[p].pos \in Nat
         /\ lastBlock \in Nat
         /\ task[p].head \in 0 .. Height /\ task[p].upper \in 0 .. Height
         /\ EndOf(task[p].upper) \in 0 .. Len(log)
BY HeightType DEF ShapeInv, Task, TaskInv

\* Where a process goes when it handles an event.
LEMMA HandleLogTask ==
  ASSUME ShapeInv, NEW p \in Processes, HandleLog(p) \/ RefusedWrite(p)
  PROVE  /\ HasNext(p) \/ PC(p) = "insertIntent"
         /\ task[p].pos < EndOf(task[p].upper)
         /\ UNCHANGED <<logVars, lastBlock>>
         /\ HandleLog(p) => UNCHANGED faults
         /\ \/ task' = [task EXCEPT ![p].pc = "handle", ![p].pos = @ + 1]
            \/ /\ NextEvent(p).kind = "IntentCommitted"
               /\ task' = [task EXCEPT ![p].pc = "insertIntent"]
BY TaskAt
   DEF HandleLog, HandleActionReceipt, HandleTraceURIStored,
       HandleChallengeFiled, HandleChallengeResolved, HandleIntentCommitted,
       InsertIntent, HandleIntentRevoked, HandleAgentRegistered,
       HandleAgentStaked, HandleAgentDelegateSet, Handled, HasNext, PC, TaskInv,
       RefusedWrite

LEMMA HandleLogShape ==
  ASSUME ShapeInv, [Next]_vars, NEW p \in Processes,
         HandleLog(p) \/ RefusedWrite(p)
  PROVE  /\ task' \in [Processes -> Task]
         /\ \A q \in Processes : TaskInv(task[q])'
         /\ \A q \in Processes \ {p} : task'[q] = task[q]
<1>1. /\ task[p].pos < EndOf(task[p].upper)
      /\ UNCHANGED logVars
      /\ \/ task' = [task EXCEPT ![p].pc = "handle", ![p].pos = @ + 1]
         \/ /\ NextEvent(p).kind = "IntentCommitted"
            /\ task' = [task EXCEPT ![p].pc = "insertIntent"]
  BY HandleLogTask
<1>2. /\ task[p] \in Task /\ TaskInv(task[p])
      /\ task[p].pos \in Nat /\ task[p].upper \in Nat
      /\ EndOf(task[p].upper) \in Nat
  BY TaskAt
<1>3. task \in [Processes -> Task]
  BY DEF ShapeInv
<1>4. /\ task' \in [Processes -> Task]
      /\ \A q \in Processes \ {p} : task'[q] = task[q]
      /\ task'[p].upper = task[p].upper /\ task'[p].head = task[p].head
      /\ \/ task'[p].pc = "handle" /\ task'[p].pos = task[p].pos + 1
         \/ /\ task'[p].pc = "insertIntent" /\ task'[p].pos = task[p].pos
            /\ NextEvent(p).kind = "IntentCommitted"
  BY <1>1, <1>2, <1>3 DEF Task, PCs
<1>5. TaskInv(task[p])'
  BY <1>1, <1>2, <1>4 DEF TaskInv, EndOf, Height, logVars, NextEvent
<1>6. QED
  BY <1>4, <1>5, OneTask

\* A process that takes on a task true of the chain, while nothing is mined.
LEMMA TaskBecomes ==
  ASSUME ShapeInv, [Next]_vars, NEW p \in Processes, UNCHANGED logVars,
         NEW t, TaskInv(t), task' = [task EXCEPT ![p] = t]
  PROVE  /\ task' \in [Processes -> Task]
         /\ \A q \in Processes : TaskInv(task[q])'
         /\ \A q \in Processes \ {p} : task'[q] = task[q]
         /\ task'[p] = t
<1>1. t \in Task /\ task \in [Processes -> Task]
  BY DEF TaskInv, ShapeInv
<1>2. /\ task'[p] = t /\ task' \in [Processes -> Task]
      /\ \A q \in Processes \ {p} : task'[q] = task[q]
  BY <1>1
<1>3. /\ Height' = Height
      /\ log' = log
      /\ (IF t.upper <= 0 THEN 0 ELSE blockEnd'[t.upper]) = EndOf(t.upper)
  BY DEF logVars, Height, EndOf
<1>4. TaskInv(task[p])'
  BY <1>2, <1>3 DEF TaskInv, EndOf
<1>5. QED
  BY <1>2, <1>4, OneTask

\* A task with nothing to handle is true of any chain as high as its head.
LEMMA LooseTask ==
  ASSUME ShapeInv, NEW t \in Task,
         t.pc \notin {"fetch", "handle", "insertIntent"},
         t.upper <= t.head, t.head <= Height
  PROVE  TaskInv(t)
BY DEF TaskInv

LEMMA IdleTasks ==
  ASSUME ShapeInv, NEW p \in Processes
  PROVE  /\ TaskInv(Idle) /\ Idle.pc = "idle"
         /\ LET t == [Idle EXCEPT !.pc = "cursor", !.head = Height]
            IN  TaskInv(t) /\ t.pc = "cursor"
         /\ LET t == [Idle EXCEPT !.pc = "failed"]
            IN  TaskInv(t) /\ t.pc = "failed"
         /\ TaskInv(Resting(p)) /\ Resting(p).pc \in {"idle", "done"}
<1> DEFINE reading == [Idle EXCEPT !.pc = "cursor", !.head = Height]
           broken == [Idle EXCEPT !.pc = "failed"]
           over == [Idle EXCEPT !.pc = "done", !.head = task[p].head]
<1>1. Height \in Nat /\ task[p].head \in Nat /\ task[p].head <= Height
  BY HeightType, TaskAt DEF ShapeInv
<1>2. Idle \in Task /\ Idle.pc = "idle" /\ Idle.upper = 0 /\ Idle.head = 0
  BY DEF Idle, Task, PCs
<1>3. /\ reading \in Task /\ reading.pc = "cursor"
      /\ reading.upper = 0 /\ reading.head = Height
  BY <1>1, <1>2 DEF Task, PCs
<1>4. /\ broken \in Task /\ broken.pc = "failed"
      /\ broken.upper = 0 /\ broken.head = 0
  BY <1>2 DEF Task, PCs
<1>5. /\ over \in Task /\ over.pc = "done"
      /\ over.upper = 0 /\ over.head = task[p].head
  BY <1>1, <1>2 DEF Task, PCs
<1>6. Resting(p) = Idle \/ Resting(p) = over
  BY DEF Resting
<1> HIDE DEF reading, broken, over
<1>7. TaskInv(Idle) /\ TaskInv(reading) /\ TaskInv(broken) /\ TaskInv(over)
  BY <1>1, <1>2, <1>3, <1>4, <1>5, LooseTask
<1>8. TaskInv(Resting(p)) /\ Resting(p).pc \in {"idle", "done"}
  BY <1>2, <1>5, <1>6, <1>7
<1>9. QED
  BY <1>2, <1>3, <1>4, <1>7, <1>8 DEF reading, broken

\* A process that goes on to another block, not past its head.
LEMMA NextBlockTask ==
  ASSUME ShapeInv, NEW p \in Processes,
         NEW t \in Task, t.pc = "fetch", t.next <= t.head,
         t.head = task[p].head, t.upper = task[p].upper
  PROVE  TaskInv(t)
BY TaskAt DEF TaskInv

\* The effect of a step of p outside the handlers.
TaskStepOf(p) ==
  /\ task' \in [Processes -> Task]
  /\ \A q \in Processes : TaskInv(task[q])'
  /\ \A q \in Processes \ {p} : task'[q] = task[q]

\* A step that leaves a process outside a pass.
LEMMA RestTask ==
  ASSUME ShapeInv, [Next]_vars, NEW p \in Processes,
         \/ ReadHead(p) \/ Interrupt(p)
         \/ p \in Reindexers /\ (Truncate(p) \/ ResetCursor(p))
  PROVE  /\ TaskStepOf(p)
         /\ task'[p].pc \in {"idle", "failed", "cursor", "reset"}
<1>1. UNCHANGED logVars
  BY DEF ReadHead, Interrupt, Truncate, ResetCursor
<1>2. CASE ReadHead(p)
  BY <1>1, <1>2, IdleTasks, TaskBecomes DEF ReadHead, TaskStepOf
<1>3. CASE Interrupt(p)
  <2>1. \/ task' = [task EXCEPT ![p] = Idle]
        \/ task' = [task EXCEPT ![p] = [Idle EXCEPT !.pc = "failed"]]
    BY <1>3 DEF Interrupt
  <2>2. QED
    BY <1>1, <2>1, IdleTasks, TaskBecomes DEF TaskStepOf
<1>4. CASE p \in Reindexers /\ Truncate(p)
  <2> DEFINE t == [task[p] EXCEPT !.pc = "reset"]
  <2>1. task' = [task EXCEPT ![p] = t]
    BY <1>4, TaskAt DEF Truncate
  <2>2. /\ t \in Task /\ t.pc = "reset"
        /\ t.head = task[p].head /\ t.upper = task[p].upper
    BY TaskAt DEF Task, PCs
  <2> HIDE DEF t
  <2>3. TaskInv(t)
    BY <2>2, TaskAt DEF TaskInv
  <2>4. QED
    BY <1>1, <2>1, <2>2, <2>3, TaskBecomes DEF TaskStepOf
<1>5. CASE p \in Reindexers /\ ResetCursor(p)
  BY <1>1, <1>5, IdleTasks, TaskBecomes DEF ResetCursor, TaskStepOf
<1>6. QED
  BY <1>2, <1>3, <1>4, <1>5

\* Going on from a block: to fetch it, or done when it is past the head.
LEMMA IndexFromTask ==
  ASSUME ShapeInv, [Next]_vars, NEW p \in Processes, UNCHANGED logVars,
         NEW first \in Nat, IndexFrom(p, first)
  PROVE  /\ TaskStepOf(p)
         /\ \/ task'[p].pc \in {"idle", "done"}
            \/ task'[p].pc = "fetch" /\ task'[p].next = first
<1>1. task[p].head \in Nat
  BY TaskAt
<1>2. CASE first > task[p].head
  <2>1. task' = [task EXCEPT ![p] = Resting(p)]
    BY <1>2, TaskAt DEF IndexFrom
  <2>2. QED
    BY <2>1, IdleTasks, TaskBecomes DEF TaskStepOf
<1>3. CASE ~(first > task[p].head)
  <2> DEFINE t == [task[p] EXCEPT !.pc = "fetch", !.next = first]
  <2>1. task' = [task EXCEPT ![p] = t]
    BY <1>3, TaskAt DEF IndexFrom
  <2>2. /\ t \in Task /\ t.pc = "fetch" /\ t.next = first
        /\ t.head = task[p].head /\ t.upper = task[p].upper
    BY TaskAt DEF Task, PCs
  <2> HIDE DEF t
  <2>3. TaskInv(t)
    BY <1>1, <1>3, <2>2, NextBlockTask
  <2>4. QED
    BY <2>1, <2>2, <2>3, TaskBecomes DEF TaskStepOf
<1>4. QED
  BY <1>2, <1>3

\* The cursor a pass starts from: the saved one, or none when it was misread.
LEMMA ReadCursorTask ==
  ASSUME ShapeInv, [Next]_vars, NEW p \in Processes,
         ReadCursor(p) \/ MisreadCursor(p)
  PROVE  /\ TaskStepOf(p)
         /\ \E last \in {0, lastBlock} :
              /\ ReadCursor(p) => last = lastBlock
              /\ \/ task'[p].pc \in {"idle", "done"}
                 \/ task'[p].pc = "fetch" /\ task'[p].next = FirstBlock(last)
<1>1. UNCHANGED logVars
  BY DEF ReadCursor, MisreadCursor
<1>2. \A last \in {0, lastBlock} : FirstBlock(last) \in Nat
  BY TaskAt, HeightType, IndexerAssumption DEF FirstBlock, Resume, ShapeInv
<1>3. CASE ReadCursor(p)
  BY <1>1, <1>2, <1>3, IndexFromTask DEF ReadCursor
<1>4. CASE ~ReadCursor(p)
  BY <1>1, <1>2, <1>4, IndexFromTask DEF MisreadCursor
<1>5. QED
  BY <1>3, <1>4

LEMMA SaveCursorTask ==
  ASSUME ShapeInv, [Next]_vars, NEW p \in Processes,
         SaveCursor(p) \/ RefusedCursor(p)
  PROVE  /\ TaskStepOf(p)
         /\ \/ task'[p].pc \in {"idle", "done"}
            \/ task'[p].pc = "fetch" /\ task'[p].next = task[p].upper + 1
<1>1. UNCHANGED logVars
  BY DEF SaveCursor, RefusedCursor
<1>2. AfterBatch(p) = task[p].upper + 1 /\ AfterBatch(p) \in Nat
  BY TaskAt DEF AfterBatch
<1>3. QED
  BY <1>1, <1>2, IndexFromTask DEF SaveCursor, RefusedCursor

LEMMA FetchBatchTask ==
  ASSUME ShapeInv, [Next]_vars, NEW p \in Processes, FetchBatch(p)
  PROVE  /\ TaskStepOf(p)
         /\ task'[p].pc = "handle"
         /\ task'[p].pos = EndOf(task[p].next - 1)
         /\ task'[p].pos \in 0 .. Len(log)
<1> DEFINE u == Min({task[p].next + BatchBlocks, task[p].head})
           t == [task[p] EXCEPT !.pc = "handle", !.upper = u,
                                !.pos = EndOf(task[p].next - 1)]
<1>1. UNCHANGED logVars /\ task' = [task EXCEPT ![p] = t]
  BY TaskAt DEF FetchBatch
<1>2. /\ task[p] \in Task /\ task[p].head \in Nat /\ task[p].head <= Height
      /\ task[p].next \in Nat /\ task[p].next <= task[p].head
      /\ Height \in Nat /\ BatchBlocks \in Nat
  BY TaskAt, HeightType, IndexerAssumption
     DEF TaskInv, ShapeInv, FetchBatch, PC
<1>3. u \in Nat /\ u <= task[p].head /\ task[p].next <= u
  <2>1. task[p].next + BatchBlocks \in Int /\ task[p].head \in Int
    BY <1>2
  <2>2. u \in {task[p].next + BatchBlocks, task[p].head} /\ u <= task[p].head
    BY <2>1, SmallerOf
  <2>3. QED
    BY <1>2, <2>2
<1>4. /\ EndOf(task[p].next - 1) \in 0 .. Len(log)
      /\ EndOf(task[p].next - 1) <= EndOf(u)
  <2>1. /\ task[p].next - 1 \in Int /\ u \in Int
        /\ task[p].next - 1 <= u /\ u <= Height /\ task[p].next - 1 <= Height
    BY <1>2, <1>3
  <2> HIDE DEF u
  <2>2. QED
    BY <2>1, HeightType DEF ShapeInv
<1> HIDE DEF u
<1>5. /\ t \in Task /\ t.pc = "handle" /\ t.upper = u
      /\ t.pos = EndOf(task[p].next - 1) /\ t.head = task[p].head
  <2>1. EndOf(task[p].next - 1) \in Nat
    BY <1>4, HeightType DEF ShapeInv
  <2>2. QED
    BY <1>2, <1>3, <2>1 DEF Task, PCs
<1> HIDE DEF t
<1>6. TaskInv(t)
  BY <1>2, <1>3, <1>4, <1>5 DEF TaskInv
<1>7. QED
  BY <1>1, <1>4, <1>5, <1>6, TaskBecomes DEF TaskStepOf

----------------------------------------------------------------------------
(* The invariants.                                                         *)

LEMMA ShapeInit ==
  ASSUME Init
  PROVE  ShapeInv
<1>1. /\ log = << >> /\ blockEnd = << >> /\ lastBlock = 0 /\ faults = 0
      /\ missed = {} /\ receiptRows = {} /\ challengeRows = {} /\ intentRows = {}
      /\ agentRows = {} /\ delegateRows = {}
  BY DEF Init, LogInit
<1>2. Height = 0 /\ Len(log) = 0
  BY <1>1 DEF Height
<1>3. LogInv
  BY <1>1, <1>2 DEF LogInv
<1>4. TablesInv
  BY <1>1 DEF TablesInv
<1> DEFINE off == [Idle EXCEPT !.pc = "off"]
<1>5. /\ Idle \in Task /\ Idle.pc = "idle" /\ Idle.upper = 0 /\ Idle.head = 0
  BY DEF Idle, Task, PCs
<1>6. /\ off \in Task /\ off.pc = "off" /\ off.upper = 0 /\ off.head = 0
  BY <1>5 DEF Task, PCs
<1>7. task = [p \in Processes |-> IF p \in Pollers THEN Idle ELSE off]
  BY DEF Init
<1> HIDE DEF off
<1>8. /\ task \in [Processes -> Task]
      /\ \A p \in Processes : TaskInv(task[p])
  <2>1. TaskInv(Idle) /\ TaskInv(off)
    BY <1>2, <1>5, <1>6 DEF TaskInv
  <2>2. QED
    BY <1>5, <1>6, <1>7, <2>1
<1>9. QED
  BY <1>1, <1>2, <1>3, <1>4, <1>8, IndexerAssumption DEF ShapeInv

LEMMA ShapeStep ==
  ASSUME ShapeInv, [Next]_vars
  PROVE  ShapeInv'
<1>1. /\ LogInv' /\ Len(log) <= Len(log') /\ Height <= Height'
      /\ Height \in Nat /\ Height' \in Nat
      /\ Len(log) \in Nat /\ Len(log') \in Nat
  BY LogGrows, HeightType DEF ShapeInv, LogInv, Height
<1>2. TablesInv'
  <2>1. delegateRows' \subseteq 1 .. Len(log')
    BY <1>1, DelegatesStep
  <2>2. QED
    BY <2>1, ReceiptsStep, ChallengesStep, IntentsStep, AgentsStep DEF TablesInv
<1>3. /\ task' \in [Processes -> Task]
      /\ \A q \in Processes : TaskInv(task[q])'
  <2>1. CASE Mine \/ UNCHANGED vars
    <3>1. UNCHANGED task
      BY <2>1 DEF Mine, indexVars, vars
    <3>2. \A q \in Processes : TaskInv(task[q])'
      <4>1. SUFFICES ASSUME NEW q \in Processes PROVE TaskInv(task[q])'
        OBVIOUS
      <4>2. TaskInv(task[q]) /\ task'[q] = task[q]
        BY <3>1 DEF ShapeInv
      <4>3. /\ \A i \in 1 .. Len(log) : log'[i] = log[i]
            /\ \A b \in Int : b <= Height => EndOf(b)' = EndOf(b)
        BY LogGrows DEF ShapeInv
      <4>4. /\ task[q].upper \in Nat /\ task[q].head \in Nat
            /\ task[q].upper <= Height
        BY <1>1, TaskAt
      <4>5. EndOf(task[q].upper)' = EndOf(task[q].upper)
        BY <4>2, <4>3, <4>4 DEF EndOf
      <4>6. task[q].pc = "insertIntent" =>
              log'[task[q].pos + 1] = log[task[q].pos + 1]
        BY <4>3, NextEventType DEF PC
      <4>7. QED
        BY <1>1, <4>2, <4>4, <4>5, <4>6 DEF TaskInv
    <3>3. QED
      BY <3>1, <3>2 DEF ShapeInv
  <2>2. ASSUME NEW p \in Processes, PollerStep(p) \/ Interrupt(p) \/ Refused(p)
        PROVE  /\ task' \in [Processes -> Task]
               /\ \A q \in Processes : TaskInv(task[q])'
    BY <2>2, RestTask, ReadCursorTask, FetchBatchTask, SaveCursorTask,
       HandleLogShape DEF PollerStep, TaskStepOf, Refused
  <2>3. ASSUME NEW r \in Reindexers, Truncate(r) \/ ResetCursor(r)
        PROVE  /\ task' \in [Processes -> Task]
               /\ \A q \in Processes : TaskInv(task[q])'
    <3>1. r \in Processes
      BY DEF Processes
    <3>2. QED
      BY <2>3, <3>1, RestTask DEF TaskStepOf
  <2>4. QED
    BY <2>1, <2>2, <2>3 DEF Next, Refused
<1>4. lastBlock' \in 0 .. Height' /\ faults' \in 0 .. MaxFaults
  <2>1. /\ lastBlock \in 0 .. Height /\ faults \in 0 .. MaxFaults
        /\ MaxFaults \in Nat
    BY IndexerAssumption DEF ShapeInv
  <2>2. CASE Mine \/ UNCHANGED vars
    <3>1. UNCHANGED <<lastBlock, faults>>
      BY <2>2 DEF Mine, indexVars, vars
    <3>2. QED
      BY <1>1, <2>1, <3>1
  <2>3. ASSUME NEW p \in Processes, ReadHead(p) \/ ReadCursor(p) \/ FetchBatch(p)
        PROVE  UNCHANGED <<lastBlock, faults>>
    BY <2>3 DEF ReadHead, ReadCursor, FetchBatch
  <2>4. ASSUME NEW p \in Processes, HandleLog(p)
        PROVE  UNCHANGED <<lastBlock, faults>>
    BY <2>4, HandleLogTask
  <2>5. ASSUME NEW p \in Processes, SaveCursor(p)
        PROVE  lastBlock' \in 0 .. Height /\ faults' = faults
    BY <2>5, TaskAt DEF SaveCursor, SavedCursor
  <2>6. ASSUME NEW p \in Processes, Interrupt(p)
        PROVE  lastBlock' = lastBlock /\ faults' \in 0 .. MaxFaults
    BY <2>1, <2>6 DEF Interrupt
  <2>7. ASSUME NEW r \in Reindexers, Truncate(r) \/ ResetCursor(r)
        PROVE  lastBlock' \in {0, lastBlock} /\ faults' = faults
    BY <2>7 DEF Truncate, ResetCursor
  <2>8. ASSUME NEW p \in Processes, Refused(p)
        PROVE  lastBlock' = lastBlock /\ faults' \in 0 .. MaxFaults
    BY <2>1, <2>8 DEF Refused, RefusedWrite, MisreadCursor, RefusedCursor, Refusal
  <2>9. QED
    BY <1>1, <2>1, <2>2, <2>3, <2>4, <2>5, <2>6, <2>7, <2>8
       DEF Next, PollerStep, Refused
<1>5. missed' \subseteq 1 .. Len(log')
  BY <1>1, MissedStep
<1>6. QED
  BY <1>1, <1>2, <1>3, <1>4, <1>5 DEF ShapeInv

\* A fresh index starts at the first block, and a database whose truncation is
\* not atomic with the cursor's is not reindexed, nor under running pollers.
StartedWhole ==
  /\ StartBlock = 1
  /\ Reindexers = {} \/ (ReindexAlone /\ Provider = "sqlite")

\* SQLite throws what it refuses: no call of its is refused in silence.
OnSqlite == Provider = "sqlite"

LEMMA NoRefusal ==
  ASSUME OnSqlite, NEW p
  PROVE  ~Refused(p)
BY DEF OnSqlite, Refused, RefusedWrite, MisreadCursor, RefusedCursor, Refusal

\* What a process has passed, like what the cursor has passed, is accounted for.
Covered(p) ==
  /\ PC(p) = "fetch" => AccountedUpTo(EndOf(task[p].next - 1))
  /\ PC(p) \in {"handle", "insertIntent"} => AccountedUpTo(task[p].pos)

CoveredInv ==
  /\ NothingBelowCursorMissing
  /\ \A p \in Processes : Covered(p)

LEMMA CoveredInit ==
  ASSUME Init
  PROVE  CoveredInv
<1>1. EndOf(lastBlock) = 0
  BY DEF Init, EndOf
<1>2. ASSUME NEW p \in Processes
      PROVE  PC(p) \in {"idle", "off"}
  <2>1. task[p] = Idle \/ task[p] = [Idle EXCEPT !.pc = "off"]
    BY DEF Init
  <2>2. QED
    BY <2>1 DEF Idle, PC
<1>3. QED
  BY <1>1, <1>2 DEF CoveredInv, NothingBelowCursorMissing, Covered

\* What a process had passed stays stored unless the tables are emptied.
LEMMA CoveredKept ==
  ASSUME ShapeInv, [Next]_vars, NoTruncate,
         NEW p \in Processes, Covered(p), task'[p] = task[p]
  PROVE  Covered(p)'
<1>1. /\ task[p].next \in Nat /\ task[p].pos \in Nat /\ Height \in Nat
      /\ TaskInv(task[p]) /\ task[p].head <= Height
  BY TaskAt, HeightType DEF ShapeInv, TaskInv
<1>2. CASE PC(p) = "fetch"
  <2> DEFINE n == EndOf(task[p].next - 1)
  <2>1. task[p].next - 1 \in Int /\ task[p].next - 1 <= Height
    BY <1>1, <1>2, TaskAt DEF TaskInv, PC
  <2>2. n \in Nat /\ n <= Len(log)
    BY <2>1, HeightType DEF ShapeInv
  <2>3. EndOf(task[p].next - 1)' = n
    <3>1. \A b \in Int : b <= Height => EndOf(b)' = EndOf(b)
      BY LogGrows DEF ShapeInv
    <3>2. QED
      BY <2>1, <3>1 DEF EndOf
  <2>4. AccountedUpTo(n)
    BY <1>2 DEF Covered
  <2> HIDE DEF n
  <2>5. PICK m : m = n
    OBVIOUS
  <2>6. AccountedUpTo(m)'
    BY <2>2, <2>4, <2>5, AccountedUpToKept
  <2>7. EndOf(task[p].next - 1)' = m
    BY <2>3, <2>5
  <2>8. AccountedUpTo(EndOf(task[p].next - 1))'
    BY <2>6, <2>7 DEF AccountedUpTo
  <2>9. QED
    BY <1>2, <2>8 DEF Covered, PC
<1>3. CASE PC(p) \in {"handle", "insertIntent"}
  <2>1. task[p].pos <= Len(log)
    BY <1>1, <1>3, TaskAt, HeightType DEF TaskInv, PC, ShapeInv
  <2>2. PICK m : m = task[p].pos
    OBVIOUS
  <2>3. AccountedUpTo(m)'
    BY <1>1, <1>3, <2>1, <2>2, AccountedUpToKept DEF Covered
  <2>4. task'[p].pos = m
    BY <2>2
  <2>5. AccountedUpTo(task[p].pos)'
    BY <2>3, <2>4 DEF AccountedUpTo
  <2>6. QED
    BY <1>3, <2>5 DEF Covered, PC
<1>4. CASE PC(p) \notin {"fetch", "handle", "insertIntent"}
  BY <1>4 DEF Covered, PC
<1>5. QED
  BY <1>2, <1>3, <1>4

\* So does what the cursor had passed.
LEMMA CursorKept ==
  ASSUME ShapeInv, [Next]_vars, NoTruncate,
         NEW b \in Int, b <= Height, AccountedUpTo(EndOf(b)), lastBlock' = b
  PROVE  NothingBelowCursorMissing'
<1>1. EndOf(b) \in Nat /\ EndOf(b) <= Len(log)
  BY HeightType DEF ShapeInv
<1>2. PICK m : m = EndOf(b)
  OBVIOUS
<1>3. AccountedUpTo(m)'
  BY <1>1, <1>2, AccountedUpToKept
<1>4. EndOf(b)' = m
  BY <1>2, LogGrows DEF ShapeInv
<1>5. EndOf(lastBlock)' = m
  BY <1>4 DEF EndOf
<1>6. QED
  BY <1>3, <1>5 DEF NothingBelowCursorMissing, AccountedUpTo

\* A process that arrives at n is covered there if n was stored already.
LEMMA CoveredAt ==
  ASSUME ShapeInv, [Next]_vars, NoTruncate,
         NEW p \in Processes, NEW n \in Nat, n <= Len(log), AccountedUpTo(n),
         \/ task'[p].pc = "fetch" /\ EndOf(task[p].next - 1)' = n
         \/ task'[p].pc \in {"handle", "insertIntent"} /\ task'[p].pos = n
  PROVE  Covered(p)'
<1>1. AccountedUpTo(n)'
  BY AccountedUpToKept
<1>2. CASE task'[p].pc = "fetch" /\ EndOf(task[p].next - 1)' = n
  <2>1. AccountedUpTo(EndOf(task[p].next - 1))'
    BY <1>1, <1>2 DEF AccountedUpTo
  <2>2. QED
    BY <1>2, <2>1 DEF Covered, PC
<1>3. CASE task'[p].pc \in {"handle", "insertIntent"} /\ task'[p].pos = n
  <2>1. AccountedUpTo(task[p].pos)'
    BY <1>1, <1>3 DEF AccountedUpTo
  <2>2. QED
    BY <1>3, <2>1 DEF Covered, PC
<1>4. QED
  BY <1>2, <1>3

LEMMA ReadCursorCovered ==
  ASSUME StartedWhole, ShapeInv, CoveredInv, [Next]_vars, NoTruncate,
         NEW p \in Processes, ReadCursor(p) \/ MisreadCursor(p)
  PROVE  Covered(p)'
<1>1. PICK last \in {0, lastBlock} :
        \/ task'[p].pc \in {"idle", "done"}
        \/ task'[p].pc = "fetch" /\ task'[p].next = FirstBlock(last)
  BY ReadCursorTask
<1>2. CASE task'[p].pc \in {"idle", "done"}
  BY <1>2 DEF Covered, PC
<1>3. CASE task'[p].pc = "fetch" /\ task'[p].next = FirstBlock(last)
  <2>1. last \in Nat /\ last <= Height /\ Height \in Nat
    BY HeightType DEF ShapeInv
  <2>2. FirstBlock(last) - 1 = last
    BY <2>1 DEF FirstBlock, Resume, StartedWhole
  <2>3. EndOf(task[p].next - 1)' = EndOf(last)
    <3>1. EndOf(task[p].next - 1)' =
            IF last <= 0 THEN 0 ELSE blockEnd'[last]
      BY <1>3, <2>2 DEF EndOf
    <3>2. blockEnd' = blockEnd
      BY DEF ReadCursor, MisreadCursor, logVars
    <3>3. QED
      BY <3>1, <3>2 DEF EndOf
  <2>4. /\ EndOf(last) \in Nat /\ EndOf(last) <= Len(log)
        /\ AccountedUpTo(EndOf(last))
    <3>1. CASE last = 0
      <4>1. EndOf(last) = 0
        BY <3>1 DEF EndOf
      <4>2. QED
        BY <4>1, HeightType DEF ShapeInv, AccountedUpTo
    <3>2. CASE last = lastBlock
      BY <2>1, <3>2, HeightType
         DEF ShapeInv, CoveredInv, NothingBelowCursorMissing, AccountedUpTo
    <3>3. QED
      BY <3>1, <3>2
  <2>5. PICK n : n = EndOf(last)
    OBVIOUS
  <2>6. QED
    BY <1>3, <2>3, <2>4, <2>5, CoveredAt
<1>4. QED
  BY <1>1, <1>2, <1>3

LEMMA FetchBatchCovered ==
  ASSUME ShapeInv, CoveredInv, [Next]_vars, NoTruncate,
         NEW p \in Processes, FetchBatch(p)
  PROVE  Covered(p)'
<1>1. /\ task'[p].pc = "handle"
      /\ task'[p].pos = EndOf(task[p].next - 1)
      /\ task'[p].pos \in 0 .. Len(log)
  BY FetchBatchTask
<1>2. PICK n : n = EndOf(task[p].next - 1)
  OBVIOUS
<1>3. AccountedUpTo(EndOf(task[p].next - 1))
  BY DEF CoveredInv, Covered, FetchBatch
<1>4. n \in Nat /\ n <= Len(log) /\ AccountedUpTo(n) /\ task'[p].pos = n
  BY <1>1, <1>2, <1>3, HeightType DEF ShapeInv
<1>5. QED
  BY <1>1, <1>4, CoveredAt

LEMMA HandleLogCovered ==
  ASSUME ShapeInv, CoveredInv, [Next]_vars, NoTruncate,
         NEW p \in Processes, HandleLog(p) \/ RefusedWrite(p)
  PROVE  Covered(p)'
<1>1. /\ HasNext(p) \/ PC(p) = "insertIntent"
      /\ \/ task' = [task EXCEPT ![p].pc = "handle", ![p].pos = @ + 1]
         \/ task' = [task EXCEPT ![p].pc = "insertIntent"]
  BY HandleLogTask
<1>2. /\ task[p].pos \in Nat /\ task[p] \in Task
      /\ task \in [Processes -> Task]
      /\ task[p].pos + 1 \in 1 .. Len(log) /\ Len(log) \in Nat
  BY <1>1, TaskAt, NextEventType, HeightType DEF ShapeInv
<1>3. AccountedUpTo(task[p].pos)
  BY <1>1 DEF CoveredInv, Covered, HasNext
<1>4. PICK n : n = task[p].pos
  OBVIOUS
<1>5. n \in Nat /\ n <= Len(log) /\ AccountedUpTo(n)
  BY <1>2, <1>3, <1>4
<1>6. CASE task' = [task EXCEPT ![p].pc = "handle", ![p].pos = @ + 1]
  <2>1. task'[p].pc = "handle" /\ task'[p].pos = n + 1
    BY <1>2, <1>4, <1>6 DEF Task
  <2>2. PICK i : i = n + 1
    OBVIOUS
  <2>3. Accounted(i)'
    <3>1. CASE HandleLog(p)
      BY <1>3, <1>4, <2>1, <2>2, <3>1, HandlerStores
    <3>2. CASE RefusedWrite(p)
      BY <1>4, <2>2, <3>2 DEF RefusedWrite, Accounted, Excused
    <3>3. QED
      BY <3>1, <3>2
  <2>4. AccountedUpTo(n)'
    BY <1>5, AccountedUpToKept
  <2>5. \A j \in 1 .. n + 1 : j \in 1 .. n \/ j = i
    BY <1>5, <2>2
  <2>6. AccountedUpTo(task[p].pos)'
    BY <2>1, <2>3, <2>4, <2>5 DEF AccountedUpTo
  <2>7. QED
    BY <2>1, <2>6 DEF Covered, PC
<1>7. CASE task' = [task EXCEPT ![p].pc = "insertIntent"]
  <2>1. task'[p].pc = "insertIntent" /\ task'[p].pos = n
    BY <1>2, <1>4, <1>7 DEF Task
  <2>2. QED
    BY <1>5, <2>1, CoveredAt
<1>8. QED
  BY <1>1, <1>6, <1>7

LEMMA SaveCursorCovered ==
  ASSUME ShapeInv, CoveredInv, [Next]_vars, NoTruncate,
         NEW p \in Processes, SaveCursor(p) \/ RefusedCursor(p)
  PROVE  Covered(p)' /\ (SaveCursor(p) => NothingBelowCursorMissing')
<1>1. \/ task'[p].pc \in {"idle", "done"}
      \/ task'[p].pc = "fetch" /\ task'[p].next = task[p].upper + 1
  BY SaveCursorTask
<1>2. /\ task[p].upper \in Nat /\ task[p].upper <= Height /\ Height \in Nat
      /\ EndOf(task[p].upper) \in Nat /\ EndOf(task[p].upper) <= Len(log)
  BY TaskAt, HeightType DEF ShapeInv
<1>3. AccountedUpTo(EndOf(task[p].upper))
  BY DEF CoveredInv, Covered, SaveCursor, RefusedCursor, BatchHandled
<1>4. ASSUME SaveCursor(p)
      PROVE  NothingBelowCursorMissing'
  <2>1. PICK b : b = task[p].upper
    OBVIOUS
  <2>2. lastBlock' = b
    BY <1>4, <2>1 DEF SaveCursor, SavedCursor
  <2>3. QED
    BY <1>2, <1>3, <2>1, <2>2, CursorKept
<1>5. Covered(p)'
  <2>1. CASE task'[p].pc \in {"idle", "done"}
    BY <2>1 DEF Covered, PC
  <2>2. CASE task'[p].pc = "fetch" /\ task'[p].next = task[p].upper + 1
    <3>1. task'[p].next - 1 = task[p].upper /\ blockEnd' = blockEnd
      BY <1>2, <2>2 DEF SaveCursor, RefusedCursor, logVars
    <3>2. EndOf(task[p].next - 1)' = EndOf(task[p].upper)
      BY <3>1 DEF EndOf
    <3>3. PICK n : n = EndOf(task[p].upper)
      OBVIOUS
    <3>4. QED
      BY <1>2, <1>3, <2>2, <3>2, <3>3, CoveredAt
  <2>3. QED
    BY <1>1, <2>1, <2>2
<1>6. QED
  BY <1>4, <1>5

\* Emptying the tables finds no pass under way, and takes the cursor with it.
LEMMA TruncateCovered ==
  ASSUME StartedWhole, ShapeInv, CoveredInv, [Next]_vars,
         NEW r \in Reindexers, Truncate(r)
  PROVE  CoveredInv'
<1>1. r \in Processes
  BY DEF Processes
<1>2. ASSUME NEW q \in Processes
      PROVE  task'[q].pc \notin {"fetch", "handle", "insertIntent"}
  <2>1. CASE q = r
    BY <1>1, <2>1, RestTask
  <2>2. CASE q # r
    <3>1. Waiting(q)
      BY <2>2 DEF Truncate, StartedWhole
    <3>2. task'[q] = task[q]
      BY <1>1, <2>2, RestTask DEF TaskStepOf
    <3>3. QED
      BY <3>1, <3>2 DEF Waiting, PC
  <2>3. QED
    BY <2>1, <2>2
<1>3. lastBlock' = 0
  BY DEF Truncate, StartedWhole
<1>4. EndOf(lastBlock)' = 0
  BY <1>3 DEF EndOf
<1>5. QED
  BY <1>2, <1>4 DEF CoveredInv, NothingBelowCursorMissing, Covered, PC

LEMMA CoveredStep ==
  ASSUME StartedWhole, ShapeInv, CoveredInv, [Next]_vars
  PROVE  CoveredInv'
<1>1. CASE ~NoTruncate
  BY <1>1, TruncateCovered DEF NoTruncate
<1>2. CASE NoTruncate
  <2>1. ASSUME lastBlock' = lastBlock
        PROVE  NothingBelowCursorMissing'
    <3>1. PICK b : b = lastBlock
      OBVIOUS
    <3>2. /\ b \in Int /\ b <= Height /\ lastBlock' = b
          /\ AccountedUpTo(EndOf(b))
      BY <2>1, <3>1, HeightType
         DEF ShapeInv, CoveredInv, NothingBelowCursorMissing, AccountedUpTo
    <3>3. QED
      BY <1>2, <3>2, CursorKept
  <2>2. ASSUME NEW p \in Processes, Covered(p)',
               \A q \in Processes \ {p} : task'[q] = task[q]
        PROVE  \A q \in Processes : Covered(q)'
    BY <1>2, <2>2, CoveredKept DEF CoveredInv
  <2>3. CASE Mine \/ UNCHANGED vars
    <3>1. UNCHANGED <<task, lastBlock>>
      BY <2>3 DEF Mine, indexVars, vars
    <3>2. \A q \in Processes : Covered(q)'
      BY <1>2, <3>1, CoveredKept DEF CoveredInv
    <3>3. QED
      BY <2>1, <3>1, <3>2 DEF CoveredInv
  <2>4. ASSUME NEW p \in Processes, ReadHead(p) \/ Interrupt(p)
        PROVE  CoveredInv'
    <3>1. lastBlock' = lastBlock
      BY <2>4 DEF ReadHead, Interrupt
    <3>2. /\ task'[p].pc \in {"idle", "failed", "cursor", "reset"}
          /\ \A q \in Processes \ {p} : task'[q] = task[q]
      BY <2>4, RestTask DEF TaskStepOf
    <3>3. Covered(p)'
      BY <3>2 DEF Covered, PC
    <3>4. QED
      BY <2>1, <2>2, <3>1, <3>2, <3>3 DEF CoveredInv
  <2>5. ASSUME NEW p \in Processes, ReadCursor(p) \/ MisreadCursor(p)
        PROVE  CoveredInv'
    <3>1. lastBlock' = lastBlock
      BY <2>5 DEF ReadCursor, MisreadCursor
    <3>2. \A q \in Processes \ {p} : task'[q] = task[q]
      BY <2>5, ReadCursorTask DEF TaskStepOf
    <3>3. Covered(p)'
      BY <1>2, <2>5, ReadCursorCovered
    <3>4. QED
      BY <2>1, <2>2, <3>1, <3>2, <3>3 DEF CoveredInv
  <2>6. ASSUME NEW p \in Processes, FetchBatch(p)
        PROVE  CoveredInv'
    <3>1. lastBlock' = lastBlock
      BY <2>6 DEF FetchBatch
    <3>2. \A q \in Processes \ {p} : task'[q] = task[q]
      BY <2>6, FetchBatchTask DEF TaskStepOf
    <3>3. Covered(p)'
      BY <1>2, <2>6, FetchBatchCovered
    <3>4. QED
      BY <2>1, <2>2, <3>1, <3>2, <3>3 DEF CoveredInv
  <2>7. ASSUME NEW p \in Processes, HandleLog(p) \/ RefusedWrite(p)
        PROVE  CoveredInv'
    <3>1. lastBlock' = lastBlock
      BY <2>7, HandleLogTask
    <3>2. \A q \in Processes \ {p} : task'[q] = task[q]
      BY <2>7, HandleLogShape
    <3>3. Covered(p)'
      BY <1>2, <2>7, HandleLogCovered
    <3>4. QED
      BY <2>1, <2>2, <3>1, <3>2, <3>3 DEF CoveredInv
  <2>8. ASSUME NEW p \in Processes, SaveCursor(p) \/ RefusedCursor(p)
        PROVE  CoveredInv'
    <3>1. \A q \in Processes \ {p} : task'[q] = task[q]
      BY <2>8, SaveCursorTask DEF TaskStepOf
    <3>2. Covered(p)' /\ (SaveCursor(p) => NothingBelowCursorMissing')
      BY <1>2, <2>8, SaveCursorCovered
    <3>3. RefusedCursor(p) => lastBlock' = lastBlock
      BY DEF RefusedCursor
    <3>4. QED
      BY <2>1, <2>2, <2>8, <3>1, <3>2, <3>3 DEF CoveredInv
  <2>9. ASSUME NEW r \in Reindexers, ResetCursor(r)
        PROVE  CoveredInv'
    <3>1. /\ r \in Processes
          /\ task'[r].pc \in {"idle", "failed", "cursor", "reset"}
          /\ \A q \in Processes \ {r} : task'[q] = task[q]
      BY <2>9, RestTask DEF TaskStepOf, Processes
    <3>2. Covered(r)'
      BY <3>1 DEF Covered, PC
    <3>3. NothingBelowCursorMissing'
      <4>1. EndOf(lastBlock)' = 0
        BY <2>9 DEF ResetCursor, EndOf
      <4>2. QED
        BY <4>1 DEF NothingBelowCursorMissing
    <3>4. QED
      BY <2>2, <3>1, <3>2, <3>3 DEF CoveredInv
  <2>10. QED
    BY <1>2, <2>3, <2>4, <2>5, <2>6, <2>7, <2>8, <2>9
       DEF Next, PollerStep, NoTruncate
<1>3. QED
  BY <1>1, <1>2

\* Rows keep their shape, the cursor is a block that exists, no process works
\* past the head it read, and the chain's trace URIs follow their receipts.
THEOREM IndexShapeTheorem == Spec => []IndexTypeOK
<1>1. Init => ShapeInv
  BY ShapeInit
<1>2. ShapeInv /\ [Next]_vars => ShapeInv'
  BY ShapeStep
<1>3. ShapeInv => IndexTypeOK
  <2> SUFFICES ASSUME ShapeInv PROVE IndexTypeOK
    OBVIOUS
  <2>1. blockEnd \in Seq(0 .. Len(log))
    <3>1. /\ blockEnd \in Seq(Nat) /\ Len(log) \in Nat
          /\ \A b \in 1 .. Len(blockEnd) : blockEnd[b] <= Len(log)
      BY HeightType DEF ShapeInv, LogInv, Height
    <3>2. \A b \in 1 .. Len(blockEnd) : blockEnd[b] \in 0 .. Len(log)
      BY <3>1, ElementOfSeq
    <3>3. QED
      BY <3>1, <3>2, IsASeq, SeqDef
  <2>2. QED
    BY <2>1 DEF ShapeInv, LogInv, TablesInv, TaskInv, IndexTypeOK, LogTypeOK,
                ReceiptRow, ChallengeRow, IntentRow, AgentRow
<1>4. QED
  BY <1>1, <1>2, <1>3, PTL DEF Spec

\* Whatever crashes, errors, misread cursors and second pollers intervene, every
\* event in a block up to the saved cursor has its row, and every receipt there
\* its trace URI, but for the rows Supabase refused and the trace URIs of
\* refused receipts: poller.ts saves the cursor after the batch's last handler,
\* and resumes at the block after it. On SQLite nothing at all is missing.
THEOREM NothingBelowCursorMissingTheorem ==
  ASSUME StartedWhole
  PROVE  /\ Spec => []NothingBelowCursorMissing
         /\ OnSqlite => (Spec => [](\A i \in 1 .. EndOf(lastBlock) : Stored(i)))
<1>1. Init => ShapeInv /\ CoveredInv
  BY ShapeInit, CoveredInit
<1>2. ShapeInv /\ CoveredInv /\ [Next]_vars => ShapeInv' /\ CoveredInv'
  BY ShapeStep, CoveredStep
<1>3. CoveredInv => NothingBelowCursorMissing
  BY DEF CoveredInv
<1>4. Spec => []NothingBelowCursorMissing
  BY <1>1, <1>2, <1>3, PTL DEF Spec
<1>5. ASSUME OnSqlite
      PROVE  Spec => [](\A i \in 1 .. EndOf(lastBlock) : Stored(i))
  <2>1. Init => missed = {}
    BY DEF Init
  <2>2. ShapeInv /\ missed = {} /\ [Next]_vars => (missed = {})'
    BY <1>5, MissedStep DEF OnSqlite
  <2>3. missed = {} /\ NothingBelowCursorMissing =>
          \A i \in 1 .. EndOf(lastBlock) : Stored(i)
    BY DEF NothingBelowCursorMissing, Accounted, Excused
  <2>4. QED
    BY <1>1, <1>2, <1>4, <2>1, <2>2, <2>3, PTL DEF Spec
<1>6. QED
  BY <1>4, <1>5

----------------------------------------------------------------------------
(* One active intent per owner.                                            *)

Commits == At(Len(log), {"IntentCommitted"})

\* An intent hash is committed once, and every row is of a commit.
OneCommit ==
  \A i, j \in Commits : log[i].intentHash = log[j].intentHash => i = j
RowsOfCommits ==
  \A row \in intentRows :
    \E i \in Commits :
      row.intentHash = log[i].intentHash /\ row.owner = log[i].owner

\* Commit j of the owner of commit i is shown active, and none of its writes
\* was refused.
Rivals(i, j) ==
  /\ j # i
  /\ log[j].owner = log[i].owner
  /\ IsActive(log[j].intentHash)
  /\ j \notin missed

\* A process between the two calls of insertIntentCommitted adds a row beside an
\* active one of the owner only after a refusal: a process ahead of it has
\* inserted this very row already, and one behind it finds its own row there.
InsertionIsSafe(p) ==
  PC(p) = "insertIntent" =>
    LET i == task[p].pos + 1 IN
    \/ HasIntent(log[i].intentHash)
    \/ i \in missed
    \/ \A j \in Commits : ~Rivals(i, j)

ActiveInv ==
  /\ OneCommit
  /\ RowsOfCommits
  /\ AtMostOneActiveIntent
  /\ \A p \in Processes : InsertionIsSafe(p)

LEMMA OneCommitStep ==
  ASSUME LogInv, OneCommit, [Next]_vars
  PROVE  OneCommit'
<1>1. CASE UNCHANGED logVars
  BY <1>1 DEF logVars, OneCommit, Commits, At
<1>2. CASE LogNext
  <2>1. PICK es \in Seq(Event) : Grown(es) /\ Transaction(es)
    BY <1>2, MineEffect
  <2>2. Len(log) \in Nat /\ Len(es) \in Nat /\ Len(log') = Len(log) + Len(es)
    BY <2>1, HeightType DEF Grown
  <2>3. /\ \A i \in 1 .. Len(log) : log'[i] = log[i]
        /\ \A i \in 1 .. Len(es) : log'[Len(log) + i] = es[i]
    BY <2>1 DEF Grown
  <2>4. ASSUME NEW i \in 1 .. Len(log'), log'[i].kind = "IntentCommitted"
        PROVE  \/ i \in 1 .. Len(log) /\ log'[i] = log[i]
               \/ i = Len(log) + 1 /\ ~Committed(log'[i].intentHash)
    <3>1. CASE i <= Len(log)
      BY <2>2, <2>3, <3>1
    <3>2. CASE i > Len(log)
      <4>1. PICK k : k = i - Len(log)
        OBVIOUS
      <4>2. k \in 1 .. Len(es) /\ i = Len(log) + k
        BY <2>2, <3>2, <4>1
      <4>3. log'[i] = es[k]
        BY <2>3, <4>2
      <4>4. Len(es) = 1 /\ ~Committed(es[k].intentHash)
        BY <2>1, <2>4, <4>2, <4>3 DEF Transaction
      <4>5. i = Len(log) + 1
        BY <2>2, <4>2, <4>4
      <4>6. QED
        BY <4>3, <4>4, <4>5
    <3>3. QED
      BY <2>2, <3>1, <3>2
  <2>5. ASSUME NEW i \in 1 .. Len(log'), NEW j \in 1 .. Len(log'),
               log'[i].kind = "IntentCommitted", log'[j].kind = "IntentCommitted",
               log'[i].intentHash = log'[j].intentHash,
               i \in 1 .. Len(log), log'[i] = log[i]
        PROVE  i = j
    <3>1. Committed(log'[j].intentHash)
      BY <2>5 DEF Committed
    <3>2. j \in 1 .. Len(log) /\ log'[j] = log[j]
      BY <2>4, <2>5, <3>1
    <3>3. QED
      BY <2>5, <3>2 DEF OneCommit, Commits, At
  <2>6. QED
    BY <2>4, <2>5 DEF OneCommit, Commits, At
<1>3. QED
  BY <1>1, <1>2, WriteFrame

\* Deactivating keeps hash and owner, and leaves no row of the owner active.
LEMMA DeactivatedActive ==
  ASSUME intentRows \subseteq IntentRow, NEW o
  PROVE  \A row \in Deactivated(o) :
           /\ \E old \in intentRows :
                row.intentHash = old.intentHash /\ row.owner = old.owner
           /\ row.active => row \in intentRows /\ row.owner # o
<1> DEFINE set(row) == IF row.owner = o
                       THEN [row EXCEPT !.active = FALSE] ELSE row
<1>1. Deactivated(o) = {set(row) : row \in intentRows}
  BY DEF Deactivated
<1>2. \A row \in intentRows :
         /\ set(row).intentHash = row.intentHash /\ set(row).owner = row.owner
         /\ set(row).active => set(row) = row /\ row.owner # o
  BY DEF IntentRow
<1> HIDE DEF set
<1>3. QED
  BY <1>1, <1>2

LEMMA InsertedActive ==
  ASSUME NEW rows, NEW o, NEW h
  PROVE  \/ InsertIgnore(rows, o, h) = rows
         \/ /\ \A row \in rows : row.intentHash # h
            /\ \E new : /\ new.owner = o /\ new.intentHash = h
                       /\ InsertIgnore(rows, o, h) = rows \cup {new}
<1> DEFINE new == [intentHash |-> h, owner |-> o, active |-> TRUE]
<1>1. new.owner = o /\ new.intentHash = h
  OBVIOUS
<1>2. InsertIgnore(rows, o, h) =
        IF \E row \in rows : row.intentHash = h THEN rows
        ELSE rows \cup {new}
  BY DEF InsertIgnore
<1> HIDE DEF new
<1>3. QED
  BY <1>1, <1>2

\* The commit a process is at.
AtCommit(q, j) ==
  /\ HasNext(q) \/ PC(q) = "insertIntent"
  /\ j = task[q].pos + 1
  /\ j \in Commits

\* What a step of the log's readers does to the intents shown: each row is an
\* old one's or that of commit j.
RowsCome(j) ==
  \A row \in intentRows' :
    \/ \E old \in intentRows :
         row.intentHash = old.intentHash /\ row.owner = old.owner
    \/ row.intentHash = log[j].intentHash /\ row.owner = log[j].owner

\* No intent is shown active that was not, or one is: that of commit j, which
\* had no row, and every other intent of the owner shown active has been missed.
IsActiveNext(h) == \E row \in intentRows' : row.intentHash = h /\ row.active
HasIntentNext(h) == \E row \in intentRows' : row.intentHash = h
NoneActivated == \A h : IsActiveNext(h) => IsActive(h)
Activated(j) ==
  /\ ~HasIntent(log[j].intentHash)
  /\ HasIntentNext(log[j].intentHash)
  /\ \A h : IsActiveNext(h) => IsActive(h) \/ h = log[j].intentHash
  /\ \/ j \in missed
     \/ \A k \in Commits : ~(Rivals(j, k) /\ IsActiveNext(log[k].intentHash))

LEMMA ActivationStep ==
  ASSUME ShapeInv, ActiveInv, [Next]_vars, NoTruncate
  PROVE  \/ UNCHANGED intentRows
         \/ \E q \in Processes, j \in Nat :
              /\ AtCommit(q, j) /\ RowsCome(j)
              /\ NoneActivated \/ Activated(j)
         \/ \E o : intentRows' = Deactivated(o)
<1>1. intentRows \subseteq IntentRow
  BY DEF ShapeInv, TablesInv
<1>2. ASSUME NEW q \in Processes,
             \/ HandleIntentCommitted(q) /\ Provider = "sqlite"
             \/ InsertIntent(q)
      PROVE  \E j \in Nat : /\ AtCommit(q, j) /\ RowsCome(j)
                            /\ NoneActivated \/ Activated(j)
  <2>1. PICK j : j = task[q].pos + 1
    OBVIOUS
  <2>2. j \in 1 .. Len(log) /\ NextEvent(q) = log[j] /\ j \in Nat
    BY <1>2, <2>1, NextEventType, TaskAt
       DEF NextEvent, HandleIntentCommitted, InsertIntent
  <2>3. log[j].kind = "IntentCommitted"
    BY <1>2, <2>1, <2>2, TaskAt
       DEF HandleIntentCommitted, InsertIntent, TaskInv, PC
  <2>4. AtCommit(q, j)
    BY <1>2, <2>1, <2>2, <2>3
       DEF AtCommit, Commits, At, HandleIntentCommitted, InsertIntent
  <2>5. PICK o, h : o = log[j].owner /\ h = log[j].intentHash
    OBVIOUS
  <2>6. PICK rows :
          /\ intentRows' = InsertIgnore(rows, o, h)
          /\ \/ rows = intentRows /\ InsertIntent(q)
             \/ rows = Deactivated(o)
    BY <1>2, <2>2, <2>5 DEF HandleIntentCommitted, InsertIntent
  <2>7. \A row \in rows :
          /\ \E old \in intentRows :
               row.intentHash = old.intentHash /\ row.owner = old.owner
          /\ row.active => row \in intentRows
    BY <1>1, <2>6, DeactivatedActive
  <2>8. CASE intentRows' = rows
    <3>1. RowsCome(j) /\ NoneActivated
      BY <2>7, <2>8 DEF RowsCome, NoneActivated, IsActive, IsActiveNext
    <3>2. QED
      BY <2>2, <2>4, <3>1
  <2>9. ASSUME \A row \in rows : row.intentHash # h,
               NEW new, new.owner = o, new.intentHash = h,
               intentRows' = rows \cup {new}
        PROVE  RowsCome(j) /\ Activated(j)
    <3>1. RowsCome(j)
      BY <2>5, <2>7, <2>9 DEF RowsCome
    <3>2. ~HasIntent(h)
      <4>1. \A row \in intentRows :
              \E later \in rows : later.intentHash = row.intentHash
        BY <1>1, <2>6, DeactivatedRows
      <4>2. QED
        BY <2>9, <4>1 DEF HasIntent, HasIntentNext
    <3>3. HasIntentNext(h) /\ \A g : IsActiveNext(g) => IsActive(g) \/ g = h
      BY <2>7, <2>9 DEF HasIntent, HasIntentNext, IsActive, IsActiveNext
    <3>4. ASSUME j \notin missed, NEW k \in Commits, Rivals(j, k),
                 IsActiveNext(log[k].intentHash)
          PROVE  FALSE
      <4>1. CASE rows = intentRows /\ InsertIntent(q)
        BY <2>1, <2>5, <3>2, <3>4, <4>1
           DEF ActiveInv, InsertionIsSafe, InsertIntent
      <4>2. CASE rows = Deactivated(o)
        <5>1. log[k].intentHash # h
          BY <2>4, <2>5, <3>4 DEF ActiveInv, OneCommit, Rivals, AtCommit
        <5>2. PICK row \in rows : row.intentHash = log[k].intentHash /\ row.active
          BY <2>9, <3>4, <5>1 DEF IsActive, IsActiveNext
        <5>3. row \in intentRows /\ row.owner # o
          BY <1>1, <4>2, <5>2, DeactivatedActive
        <5>4. PICK i \in Commits :
                row.intentHash = log[i].intentHash /\ row.owner = log[i].owner
          BY <5>3 DEF ActiveInv, RowsOfCommits
        <5>5. i = k
          BY <3>4, <5>2, <5>4 DEF ActiveInv, OneCommit
        <5>6. QED
          BY <2>5, <3>4, <5>3, <5>4, <5>5 DEF Rivals
      <4>3. QED
        BY <2>6, <4>1, <4>2
    <3>5. QED
      BY <2>5, <3>1, <3>2, <3>3, <3>4 DEF Activated
  <2>10. QED
    BY <2>2, <2>4, <2>6, <2>8, <2>9, InsertedActive
<1>3. ASSUME NEW q \in Processes,
             \/ HandleIntentCommitted(q) /\ Provider # "sqlite"
             \/ HandleIntentRevoked(q)
      PROVE  \E o : intentRows' = Deactivated(o)
  BY <1>3 DEF HandleIntentCommitted, HandleIntentRevoked
<1>4. QED
  BY <1>2, <1>3, WriteFrame DEF NoTruncate

\* A process at its second call was there before the step, or has just made the
\* first, unless that one was refused.
LEMMA AtSecondCall ==
  ASSUME ShapeInv, [Next]_vars, NoTruncate,
         NEW p \in Processes, task'[p].pc = "insertIntent"
  PROVE  /\ task'[p].pos = task[p].pos
         /\ HasNext(p) \/ PC(p) = "insertIntent"
         /\ \/ PC(p) = "insertIntent"
            \/ intentRows' = Deactivated(NextEvent(p).owner)
            \/ task[p].pos + 1 \in missed'
<1>1. CASE task'[p] = task[p]
  BY <1>1 DEF PC
<1>2. CASE task'[p] # task[p]
  <2>1. \/ PollerStep(p) \/ Interrupt(p) \/ Refused(p)
        \/ p \in Reindexers /\ (Truncate(p) \/ ResetCursor(p))
    <3>1. ~Mine /\ ~UNCHANGED vars
      BY <1>2 DEF Mine, indexVars, vars
    <3>2. ASSUME NEW q \in Processes,
                 PollerStep(q) \/ Interrupt(q) \/ Refused(q), q # p
          PROVE  task'[p] = task[p]
      BY <3>2, RestTask, ReadCursorTask, FetchBatchTask, SaveCursorTask,
         HandleLogShape DEF PollerStep, TaskStepOf, Refused
    <3>3. ASSUME NEW q \in Reindexers, Truncate(q) \/ ResetCursor(q), q # p
          PROVE  task'[p] = task[p]
      <4>1. q \in Processes
        BY DEF Processes
      <4>2. QED
        BY <3>3, <4>1, RestTask DEF TaskStepOf
    <3>4. QED
      BY <1>2, <3>1, <3>2, <3>3 DEF Next, Refused
  <2>2. HandleLog(p) \/ RefusedWrite(p)
    BY <2>1, RestTask, ReadCursorTask, FetchBatchTask, SaveCursorTask
       DEF PollerStep, Refused
  <2>3. task[p] \in Task /\ task \in [Processes -> Task]
    BY TaskAt DEF ShapeInv
  <2>4. task' # [task EXCEPT ![p].pc = "handle", ![p].pos = @ + 1]
    BY <2>3 DEF Task
  <2>5. task' = [task EXCEPT ![p].pc = "insertIntent"]
        /\ (HasNext(p) \/ PC(p) = "insertIntent")
    BY <2>2, <2>4, HandleLogTask
  <2>6. task'[p].pos = task[p].pos
    BY <2>3, <2>5 DEF Task
  <2>7. CASE RefusedWrite(p)
    BY <2>5, <2>6, <2>7 DEF RefusedWrite
  <2>8. CASE HandleLog(p)
    <3>1. HandleIntentCommitted(p) /\ Provider # "sqlite"
      BY <2>4, <2>8
         DEF HandleLog, HandleActionReceipt, HandleTraceURIStored,
             HandleChallengeFiled, HandleChallengeResolved,
             HandleIntentCommitted, InsertIntent, HandleIntentRevoked,
             HandleAgentRegistered, HandleAgentStaked, HandleAgentDelegateSet,
             Handled
    <3>2. intentRows' = Deactivated(NextEvent(p).owner)
      BY <3>1 DEF HandleIntentCommitted
    <3>3. QED
      BY <2>5, <2>6, <3>2
  <2>9. QED
    BY <2>2, <2>7, <2>8
<1>3. QED
  BY <1>1, <1>2

\* Where the log grows no row is added, so that what is shown active in the
\* next state was committed before the step.
LEMMA ActiveIsOld ==
  ASSUME ShapeInv, ActiveInv, [Next]_vars, NoTruncate,
         NEW k \in Commits', IsActiveNext(log'[k].intentHash)
  PROVE  k \in Commits /\ log'[k] = log[k]
<1>1. CASE UNCHANGED logVars
  BY <1>1 DEF logVars, Commits, At
<1>2. CASE UNCHANGED indexVars
  <2>1. PICK row \in intentRows : row.intentHash = log'[k].intentHash
    BY <1>2 DEF IsActive, IsActiveNext, indexVars, tables
  <2>2. PICK i \in Commits : row.intentHash = log[i].intentHash
    BY DEF ActiveInv, RowsOfCommits
  <2>3. /\ i \in 1 .. Len(log) /\ log'[i] = log[i]
        /\ Len(log) \in Nat /\ Len(log') \in Nat /\ Len(log) <= Len(log')
    <3>1. LogInv'
      BY LogGrows DEF ShapeInv
    <3>2. Len(log') \in Nat
      BY <3>1 DEF LogInv
    <3>3. QED
      BY <3>2, LogGrows, HeightType DEF ShapeInv, Commits, At
  <2>4. i \in Commits'
    BY <2>3 DEF Commits, At
  <2>5. OneCommit'
    BY OneCommitStep DEF ActiveInv, ShapeInv
  <2>6. i = k
    BY <2>1, <2>2, <2>3, <2>4, <2>5 DEF OneCommit
  <2>7. QED
    BY <2>3, <2>6
<1>3. QED
  BY <1>1, <1>2, WriteFrame

LEMMA RowsOfCommitsStep ==
  ASSUME ShapeInv, ActiveInv, [Next]_vars
  PROVE  RowsOfCommits'
<1>1. \A i \in Commits : i \in Commits' /\ log'[i] = log[i]
  <2>1. LogInv'
    BY LogGrows DEF ShapeInv
  <2>2. Len(log) \in Nat /\ Len(log') \in Nat
    BY <2>1, HeightType DEF ShapeInv, LogInv
  <2>3. QED
    BY <2>2, LogGrows DEF ShapeInv, Commits, At
<1>2. CASE ~NoTruncate
  BY <1>2 DEF NoTruncate, Truncate, RowsOfCommits
<1>3. CASE NoTruncate
  <2>1. SUFFICES ASSUME NEW row \in intentRows'
                 PROVE  \E i \in Commits : /\ row.intentHash = log[i].intentHash
                                          /\ row.owner = log[i].owner
    BY <1>1 DEF RowsOfCommits
  <2>2. ASSUME NEW old \in intentRows, row.intentHash = old.intentHash,
               row.owner = old.owner
        PROVE  \E i \in Commits : /\ row.intentHash = log[i].intentHash
                                 /\ row.owner = log[i].owner
    BY <2>2 DEF ActiveInv, RowsOfCommits
  <2>3. CASE UNCHANGED intentRows
    BY <2>2, <2>3
  <2>4. ASSUME NEW q \in Processes, NEW j, AtCommit(q, j), RowsCome(j)
        PROVE  \E i \in Commits : /\ row.intentHash = log[i].intentHash
                                 /\ row.owner = log[i].owner
    BY <2>2, <2>4 DEF RowsCome, AtCommit
  <2>5. ASSUME NEW o, intentRows' = Deactivated(o)
        PROVE  \E i \in Commits : /\ row.intentHash = log[i].intentHash
                                 /\ row.owner = log[i].owner
    <3>1. intentRows \subseteq IntentRow
      BY DEF ShapeInv, TablesInv
    <3>2. QED
      BY <2>2, <2>5, <3>1, DeactivatedActive
  <2>6. QED
    BY <1>3, <2>3, <2>4, <2>5, ActivationStep
<1>4. QED
  BY <1>2, <1>3

\* Deactivating an owner's rows leaves none of its commits shown active.
LEMMA NoneOfOwner ==
  ASSUME ShapeInv, ActiveInv, NEW o, intentRows' = Deactivated(o)
  PROVE  /\ NoneActivated
         /\ \A k \in Commits : log[k].owner = o => ~IsActiveNext(log[k].intentHash)
<1>1. \A row \in intentRows' :
        row.active => row \in intentRows /\ row.owner # o
  BY DeactivatedActive DEF ShapeInv, TablesInv
<1>2. NoneActivated
  BY <1>1 DEF NoneActivated, IsActive, IsActiveNext
<1>3. ASSUME NEW k \in Commits, log[k].owner = o,
             NEW row \in intentRows', row.active,
             row.intentHash = log[k].intentHash
      PROVE  FALSE
  <2>1. PICK i \in Commits :
          row.intentHash = log[i].intentHash /\ row.owner = log[i].owner
    BY <1>1, <1>3 DEF ActiveInv, RowsOfCommits
  <2>2. i = k
    BY <1>3, <2>1 DEF ActiveInv, OneCommit
  <2>3. QED
    BY <1>1, <1>3, <2>1, <2>2
<1>4. QED
  BY <1>2, <1>3 DEF IsActive, IsActiveNext

LEMMA InsertionStaysSafe ==
  ASSUME ShapeInv, CoveredInv, ActiveInv, [Next]_vars, NoTruncate,
         NEW p \in Processes
  PROVE  InsertionIsSafe(p)'
<1> SUFFICES ASSUME task'[p].pc = "insertIntent"
             PROVE  InsertionIsSafe(p)'
  BY DEF InsertionIsSafe, PC
<1>1. PICK i : i = task[p].pos + 1
  OBVIOUS
<1>2. /\ i = task'[p].pos + 1
      /\ HasNext(p) \/ PC(p) = "insertIntent"
      /\ \/ PC(p) = "insertIntent"
         \/ intentRows' = Deactivated(NextEvent(p).owner)
         \/ i \in missed'
  BY <1>1, AtSecondCall
<1>3. /\ i \in 1 .. Len(log) /\ task[p].pos \in Nat /\ Len(log) \in Nat
      /\ NextEvent(p) = log[i] /\ log'[i] = log[i]
  BY <1>1, <1>2, NextEventType, TaskAt, HeightType, LogGrows
     DEF ShapeInv, NextEvent
<1>4. SUFFICES ASSUME ~HasIntentNext(log[i].intentHash), i \notin missed',
                      NEW k \in Commits', Rivals(i, k)'
               PROVE  FALSE
  BY <1>2, <1>3 DEF InsertionIsSafe, HasIntent, HasIntentNext, PC
<1>5. /\ k \in Commits /\ log'[k] = log[k] /\ k # i /\ k \notin missed
      /\ IsActiveNext(log[k].intentHash) /\ log[k].owner = log[i].owner
      /\ i \notin missed
  BY <1>3, <1>4, ActiveIsOld, MissedStep DEF Rivals, IsActive, IsActiveNext
<1>6. CASE intentRows' = Deactivated(NextEvent(p).owner)
  BY <1>3, <1>5, <1>6, NoneOfOwner
<1>7. CASE PC(p) = "insertIntent"
  <2>1. ~HasIntent(log[i].intentHash)
    BY <1>4, IntentsStep DEF HasIntent, HasIntentNext
  <2>2. ~Rivals(i, k)
    BY <1>1, <1>5, <1>7, <2>1 DEF ActiveInv, InsertionIsSafe
  <2>3. ~IsActive(log[k].intentHash)
    BY <1>5, <2>2 DEF Rivals
  <2>4. ~NoneActivated
    BY <1>5, <2>3 DEF NoneActivated
  <2>5. PICK q \in Processes, j \in Nat : AtCommit(q, j) /\ Activated(j)
    BY <1>5, <2>3, <2>4, ActivationStep, NoneOfOwner DEF IsActive, IsActiveNext
  <2>6. log[k].intentHash = log[j].intentHash
    BY <1>5, <2>3, <2>5 DEF Activated
  <2>7. k = j
    BY <1>5, <2>5, <2>6 DEF ActiveInv, OneCommit, AtCommit
  <2>8. /\ j \in 1 .. Len(log) /\ log[j].kind = "IntentCommitted"
        /\ task[q].pos \in Nat /\ j = task[q].pos + 1
    BY <2>5, TaskAt DEF AtCommit, Commits, At
  <2>9. CASE j < i
    <3>1. j \in 1 .. task[p].pos
      BY <1>1, <1>3, <2>8, <2>9
    <3>2. Accounted(j)
      BY <1>7, <3>1 DEF CoveredInv, Covered, AccountedUpTo
    <3>3. j \notin missed /\ ~HasIntent(log[j].intentHash)
      BY <1>5, <2>5, <2>7 DEF Activated
    <3>4. QED
      BY <2>8, <3>2, <3>3 DEF Accounted, Excused, Stored
  <2>10. CASE i < j
    <3>1. i \in 1 .. task[q].pos
      BY <1>3, <2>8, <2>10
    <3>2. Accounted(i)
      BY <2>5, <3>1 DEF CoveredInv, Covered, AccountedUpTo, AtCommit, HasNext
    <3>3. log[i].kind = "IntentCommitted"
      BY <1>1, <1>7, TaskAt DEF TaskInv, PC
    <3>4. QED
      BY <1>5, <2>1, <3>2, <3>3 DEF Accounted, Excused, Stored
  <2>11. QED
    BY <1>3, <1>5, <2>7, <2>8, <2>9, <2>10
<1>8. QED
  BY <1>2, <1>4, <1>6, <1>7

LEMMA OneActiveStep ==
  ASSUME ShapeInv, ActiveInv, [Next]_vars, NoTruncate
  PROVE  AtMostOneActiveIntent'
<1> SUFFICES ASSUME NEW i \in Commits', NEW k \in Commits', i # k,
                    log'[i].owner = log'[k].owner,
                    IsActiveNext(log'[i].intentHash),
                    IsActiveNext(log'[k].intentHash),
                    i \notin missed', k \notin missed'
             PROVE  FALSE
  BY DEF AtMostOneActiveIntent, Commits, IsActive, IsActiveNext
<1>1. /\ i \in Commits /\ k \in Commits /\ log[i].owner = log[k].owner
      /\ IsActiveNext(log[i].intentHash) /\ IsActiveNext(log[k].intentHash)
      /\ log'[i] = log[i] /\ log'[k] = log[k]
      /\ i \notin missed /\ k \notin missed
  BY ActiveIsOld, MissedStep
<1>2. ~(IsActive(log[i].intentHash) /\ IsActive(log[k].intentHash))
  BY <1>1 DEF ActiveInv, AtMostOneActiveIntent, Commits
<1>3. PICK q \in Processes, j \in Nat : AtCommit(q, j) /\ Activated(j)
  <2>1. ~NoneActivated
    BY <1>1, <1>2 DEF NoneActivated, IsActive, IsActiveNext
  <2>2. QED
    BY <1>1, <1>2, <2>1, ActivationStep, NoneOfOwner DEF IsActive, IsActiveNext
<1>4. j \in Commits
  BY <1>3 DEF AtCommit
<1>5. ASSUME NEW m \in Commits, NEW n \in Commits, m # n,
             log[m].owner = log[n].owner, m \notin missed, n \notin missed,
             IsActiveNext(log[m].intentHash), IsActiveNext(log[n].intentHash),
             ~IsActive(log[m].intentHash)
      PROVE  FALSE
  <2>1. m = j
    BY <1>3, <1>4, <1>5 DEF Activated, ActiveInv, OneCommit
  <2>2. log[n].intentHash # log[j].intentHash
    BY <1>4, <1>5, <2>1 DEF ActiveInv, OneCommit
  <2>3. IsActive(log[n].intentHash)
    BY <1>3, <1>5, <2>2 DEF Activated
  <2>4. Rivals(j, n)
    BY <1>5, <2>1, <2>3 DEF Rivals
  <2>5. QED
    BY <1>3, <1>5, <2>1, <2>4 DEF Activated
<1>6. QED
  BY <1>1, <1>2, <1>5

LEMMA ActiveStep ==
  ASSUME StartedWhole, ShapeInv, CoveredInv, ActiveInv, [Next]_vars
  PROVE  ActiveInv'
<1>1. OneCommit' /\ RowsOfCommits'
  BY OneCommitStep, RowsOfCommitsStep DEF ActiveInv, ShapeInv
<1>2. CASE ~NoTruncate
  <2>1. PICK r \in Reindexers : Truncate(r)
    BY <1>2 DEF NoTruncate
  <2>2. \A h : ~IsActiveNext(h)
    BY <2>1 DEF Truncate, IsActive, IsActiveNext
  <2>3. AtMostOneActiveIntent'
    BY <2>2 DEF AtMostOneActiveIntent, IsActive, IsActiveNext
  <2>4. \A p \in Processes : InsertionIsSafe(p)'
    BY <2>2 DEF InsertionIsSafe, Rivals, IsActive, IsActiveNext
  <2>5. QED
    BY <1>1, <2>3, <2>4 DEF ActiveInv
<1>3. CASE NoTruncate
  BY <1>1, <1>3, InsertionStaysSafe, OneActiveStep DEF ActiveInv
<1>4. QED
  BY <1>2, <1>3

\* getActiveIntent never has a choice: of two intents of one owner shown active
\* Supabase refused a write of one of the two commits, with any number of
\* pollers, although insertIntentCommitted is there two calls with an await
\* between them; on SQLite there is one active intent at most.
THEOREM AtMostOneActiveIntentTheorem ==
  ASSUME StartedWhole
  PROVE  Spec => []AtMostOneActiveIntent
<1>1. Init => ActiveInv
  <2> SUFFICES ASSUME Init PROVE ActiveInv
    OBVIOUS
  <2>1. intentRows = {} /\ Len(log) = 0
    BY DEF Init, LogInit
  <2>2. QED
    BY <2>1 DEF ActiveInv, AtMostOneActiveIntent, InsertionIsSafe, OneCommit,
                RowsOfCommits, Commits, At
<1>2. Init => ShapeInv /\ CoveredInv
  BY ShapeInit, CoveredInit
<1>3. ShapeInv /\ CoveredInv /\ ActiveInv /\ [Next]_vars =>
        ShapeInv' /\ CoveredInv' /\ ActiveInv'
  BY ShapeStep, CoveredStep, ActiveStep
<1>4. ActiveInv => AtMostOneActiveIntent
  BY DEF ActiveInv
<1>5. QED
  BY <1>1, <1>2, <1>3, <1>4, PTL DEF Spec

----------------------------------------------------------------------------
(* What one reindex re-pulls.                                              *)

OneReindexer == \A r, s \in Reindexers : r = s

RepulledInv ==
  \A r \in Reindexers :
    PC(r) = "done" => AccountedUpTo(EndOf(task[r].head))

\* A process ends its pass with the head covered.
LEMMA PassEnds ==
  ASSUME StartedWhole, ShapeInv, CoveredInv,
         NEW r \in Reindexers, ReadCursor(r) \/ SaveCursor(r),
         task'[r].pc = "done"
  PROVE  task'[r].head = task[r].head /\ AccountedUpTo(EndOf(task[r].head))
<1>1. r \in Processes /\ r \notin Pollers
  BY IndexerAssumption DEF Processes
<1>2. /\ task[r] \in Task /\ task \in [Processes -> Task]
      /\ task[r].head \in Nat /\ task[r].upper \in Nat
      /\ task[r].upper <= task[r].head /\ task[r].head <= Height
      /\ lastBlock \in Nat /\ lastBlock <= Height /\ Height \in Nat
      /\ Len(log) \in Nat
  BY <1>1, TaskAt, HeightType DEF ShapeInv, TaskInv
<1>3. Idle \in Task
  BY DEF Idle, Task, PCs
<1>4. Resting(r) = [Idle EXCEPT !.pc = "done", !.head = task[r].head]
  BY <1>1 DEF Resting
<1>5. Resting(r).head = task[r].head
  BY <1>2, <1>3, <1>4 DEF Task
<1>6. CASE ReadCursor(r)
  <2>1. FirstBlock(lastBlock) > task[r].head /\ task'[r] = Resting(r)
    <3>1. CASE FirstBlock(lastBlock) > task[r].head
      BY <1>1, <1>2, <1>6, <3>1 DEF ReadCursor, IndexFrom
    <3>2. CASE ~(FirstBlock(lastBlock) > task[r].head)
      <4>1. task'[r] = [task[r] EXCEPT !.pc = "fetch",
                                       !.next = FirstBlock(lastBlock)]
        BY <1>1, <1>2, <1>6, <3>2 DEF ReadCursor, IndexFrom
      <4>2. task'[r].pc = "fetch"
        BY <1>2, <4>1 DEF Task
      <4>3. QED
        BY <4>2
    <3>3. QED
      BY <3>1, <3>2
  <2>2. task[r].head <= lastBlock
    BY <1>2, <2>1 DEF FirstBlock, Resume, StartedWhole
  <2>3. /\ EndOf(task[r].head) <= EndOf(lastBlock)
        /\ EndOf(task[r].head) \in Nat /\ EndOf(lastBlock) \in Nat
    BY <1>2, <2>2, HeightType DEF ShapeInv
  <2>4. AccountedUpTo(EndOf(task[r].head))
    BY <2>3 DEF CoveredInv, NothingBelowCursorMissing, AccountedUpTo
  <2>5. QED
    BY <1>5, <2>1, <2>4
<1>7. CASE SaveCursor(r)
  <2>1. task[r].upper + 1 > task[r].head /\ task'[r] = Resting(r)
    <3>1. CASE task[r].upper + 1 > task[r].head
      BY <1>1, <1>2, <1>7, <3>1 DEF SaveCursor, AfterBatch, IndexFrom
    <3>2. CASE ~(task[r].upper + 1 > task[r].head)
      <4>1. task'[r] = [task[r] EXCEPT !.pc = "fetch",
                                       !.next = task[r].upper + 1]
        BY <1>1, <1>2, <1>7, <3>2 DEF SaveCursor, AfterBatch, IndexFrom
      <4>2. task'[r].pc = "fetch"
        BY <1>2, <4>1 DEF Task
      <4>3. QED
        BY <4>2
    <3>3. QED
      BY <3>1, <3>2
  <2>2. task[r].upper = task[r].head
    BY <1>2, <2>1
  <2>3. AccountedUpTo(EndOf(task[r].head))
    BY <1>1, <1>7, <2>2 DEF CoveredInv, Covered, SaveCursor, BatchHandled
  <2>4. QED
    BY <1>5, <2>1, <2>3
<1>8. QED
  BY <1>6, <1>7

LEMMA RepulledStep ==
  ASSUME StartedWhole, OneReindexer, ShapeInv, CoveredInv, RepulledInv,
         [Next]_vars
  PROVE  RepulledInv'
<1> SUFFICES ASSUME NEW r \in Reindexers, task'[r].pc = "done"
             PROVE  AccountedUpTo(EndOf(task[r].head))'
  BY DEF RepulledInv, PC
<1>1. r \in Processes
  BY DEF Processes
<1>2. NoTruncate /\ \A q : ~Refused(q)
  BY <1>1, RestTask, NoRefusal DEF NoTruncate, OneReindexer, StartedWhole, OnSqlite
<1>3. task'[r].head = task[r].head /\ AccountedUpTo(EndOf(task[r].head))
  <2>1. CASE task'[r] = task[r]
    BY <2>1 DEF RepulledInv, PC
  <2>2. CASE task'[r] # task[r]
    <3>1. PollerStep(r) \/ Interrupt(r) \/ ResetCursor(r)
      <4>1. ~Mine /\ ~UNCHANGED vars
        BY <2>2 DEF Mine, indexVars, vars
      <4>2. ASSUME NEW q \in Processes, PollerStep(q) \/ Interrupt(q), q # r
            PROVE  task'[r] = task[r]
        BY <1>1, <4>2, RestTask, ReadCursorTask, FetchBatchTask,
           SaveCursorTask, HandleLogShape DEF PollerStep, TaskStepOf
      <4>3. QED
        BY <1>2, <2>2, <4>1, <4>2 DEF Next, NoTruncate, OneReindexer, Refused
    <3>2. ~HandleLog(r)
      <4>1. task[r] \in Task /\ task \in [Processes -> Task]
        BY <1>1, TaskAt DEF ShapeInv
      <4>2. ASSUME task' = [task EXCEPT ![r].pc = "handle", ![r].pos = @ + 1]
                   \/ task' = [task EXCEPT ![r].pc = "insertIntent"]
            PROVE  FALSE
        BY <1>1, <4>1, <4>2 DEF Task
      <4>3. QED
        BY <1>1, <4>2, HandleLogTask
    <3>3. ReadCursor(r) \/ SaveCursor(r)
      BY <1>1, <3>1, <3>2, RestTask, FetchBatchTask DEF PollerStep
    <3>4. QED
      BY <3>3, PassEnds
  <2>3. QED
    BY <2>1, <2>2
<1>4. task[r].head \in Nat /\ task[r].head <= Height /\ Height \in Nat
  BY <1>1, TaskAt, HeightType DEF ShapeInv
<1>5. PICK n : n = EndOf(task[r].head)
  OBVIOUS
<1>6. n \in Nat /\ n <= Len(log) /\ AccountedUpTo(n)
  BY <1>3, <1>4, <1>5, HeightType DEF ShapeInv
<1>7. AccountedUpTo(n)'
  BY <1>2, <1>6, AccountedUpToKept
<1>8. EndOf(task[r].head)' = n
  <2>1. \A b \in Int : b <= Height => EndOf(b)' = EndOf(b)
    BY LogGrows DEF ShapeInv
  <2>2. QED
    BY <1>3, <1>4, <1>5, <2>1 DEF EndOf
<1>9. QED
  BY <1>7, <1>8 DEF AccountedUpTo

\* A reindex that ends has re-pulled every event up to the head it read, with
\* the pollers stopped and SQLite dropping the rows and the cursor in one
\* transaction (scripts/reindex.ts).
THEOREM ReindexRepullsEverythingTheorem ==
  ASSUME StartedWhole, OneReindexer
  PROVE  Spec => []ReindexRepullsEverything
<1>1. Init => RepulledInv
  <2> SUFFICES ASSUME Init, NEW r \in Reindexers PROVE PC(r) # "done"
    BY DEF RepulledInv
  <2>1. task[r] = [Idle EXCEPT !.pc = "off"]
    BY IndexerAssumption DEF Init, Processes
  <2>2. QED
    BY <2>1 DEF Idle, PC
<1>2. Init => ShapeInv /\ CoveredInv
  BY ShapeInit, CoveredInit
<1>3. ShapeInv /\ CoveredInv /\ RepulledInv /\ [Next]_vars =>
        ShapeInv' /\ CoveredInv' /\ RepulledInv'
  BY ShapeStep, CoveredStep, RepulledStep
<1>4. Init => (OnSqlite => missed = {})
  BY DEF Init
<1>5. ShapeInv /\ (OnSqlite => missed = {}) /\ [Next]_vars =>
        (OnSqlite => missed = {})'
  BY MissedStep DEF OnSqlite
<1>6. RepulledInv /\ (OnSqlite => missed = {}) => ReindexRepullsEverything
  <2>1. \A r \in Reindexers : OnSqlite
    BY DEF StartedWhole, OnSqlite
  <2>2. QED
    BY <2>1 DEF RepulledInv, ReindexRepullsEverything, AccountedUpTo, Accounted,
                Excused
<1>7. QED
  BY <1>1, <1>2, <1>3, <1>4, <1>5, <1>6, PTL DEF Spec

----------------------------------------------------------------------------
(* Verdicts on SQLite.                                                     *)

\* The primary key, without which "the row on conflict" is not one row.
ChallengeKeys ==
  \A row1, row2 \in challengeRows :
    row1.challengeId = row2.challengeId => row1 = row2

LEMMA VerdictStep ==
  ASSUME OnSqlite, ShapeInv, ChallengeKeys, [Next]_vars
  PROVE  ChallengeKeys' /\ KeepsVerdicts
<1>1. challengeRows \subseteq ChallengeRow
  BY DEF ShapeInv, TablesInv
<1>2. CASE UNCHANGED challengeRows
  BY <1>2 DEF ChallengeKeys, KeepsVerdicts
<1>3. ASSUME NEW p \in Processes, HandleChallengeFiled(p)
      PROVE  ChallengeKeys' /\ KeepsVerdicts
  <2> DEFINE c == NextEvent(p).challengeId
             same == {row \in challengeRows : row.challengeId = c}
             new == [challengeId |-> c, receiptId |-> NextEvent(p).receiptId,
                     status |-> IF same = {} THEN "FILED"
                       ELSE StatusOnConflict((CHOOSE row \in same : TRUE).status)]
  <2>1. challengeRows' = (challengeRows \ same) \cup {new}
    BY <1>3 DEF HandleChallengeFiled, UpsertChallengeFiled
  <2>2. /\ new.challengeId = c
        /\ same # {} => new.status = (CHOOSE row \in same : TRUE).status
    BY DEF StatusOnConflict, OnSqlite
  <2>3. ASSUME NEW row \in challengeRows, row.challengeId = c
        PROVE  new.status = row.status
    <3>1. row \in same
      BY <2>3
    <3>2. (CHOOSE later \in same : TRUE) \in same
      BY <3>1
    <3>3. (CHOOSE later \in same : TRUE) = row
      BY <3>1, <3>2 DEF ChallengeKeys
    <3>4. QED
      BY <2>2, <3>1, <3>3
  <2>4. \A row \in challengeRows : row \in same <=> row.challengeId = c
    OBVIOUS
  <2> HIDE DEF new, same, c
  <2>5. ChallengeKeys'
    BY <2>1, <2>2, <2>4 DEF ChallengeKeys
  <2>6. KeepsVerdicts
    BY <2>1, <2>2, <2>3, <2>4 DEF KeepsVerdicts
  <2>7. QED
    BY <2>5, <2>6
<1>4. ASSUME NEW p \in Processes, HandleChallengeResolved(p)
      PROVE  ChallengeKeys' /\ KeepsVerdicts
  <2> DEFINE e == NextEvent(p)
             set(row) == IF row.challengeId = e.challengeId
                         THEN [row EXCEPT !.status =
                                 IF e.uphold THEN "UPHELD" ELSE "REJECTED"]
                         ELSE row
  <2>1. challengeRows' = {set(row) : row \in challengeRows}
    BY <1>4 DEF HandleChallengeResolved, ResolveChallenge
  <2>2. \A row \in challengeRows :
           /\ set(row).challengeId = row.challengeId
           /\ row.status # "FILED" => set(row).status # "FILED"
    BY <1>1 DEF ChallengeRow
  <2> HIDE DEF set
  <2>3. QED
    BY <2>1, <2>2 DEF ChallengeKeys, KeepsVerdicts
<1>5. CASE \E r \in Reindexers : Truncate(r)
  BY <1>5 DEF Truncate, ChallengeKeys, KeepsVerdicts
<1>6. QED
  BY <1>2, <1>3, <1>4, <1>5, WriteFrame

\* On SQLite a challenge row that shows a verdict never goes back to FILED, with
\* any number of pollers, redeliveries and reindexers (challenges.ts: the ON CONFLICT clause
\* leaves the status alone).
THEOREM VerdictIsKeptTheorem ==
  ASSUME OnSqlite
  PROVE  Spec => VerdictIsKept
<1>1. Init => ShapeInv /\ ChallengeKeys
  <2> SUFFICES ASSUME Init PROVE ShapeInv /\ ChallengeKeys
    OBVIOUS
  <2>1. challengeRows = {}
    BY DEF Init
  <2>2. QED
    BY <2>1, ShapeInit DEF ChallengeKeys
<1>2. ShapeInv /\ ChallengeKeys /\ [Next]_vars => ShapeInv' /\ ChallengeKeys'
  BY ShapeStep, VerdictStep
<1>3. ShapeInv /\ ChallengeKeys /\ [Next]_vars => [KeepsVerdicts]_challengeRows
  BY VerdictStep
<1>4. QED
  BY <1>1, <1>2, <1>3, PTL DEF Spec, VerdictIsKept

----------------------------------------------------------------------------
(* What the log has settled.                                               *)

\* The last event about a challenge, an agent, an owner's active intent.
LastOfChallenge(i, c) ==
  AboutChallenge(i, c) /\ \A j \in i + 1 .. Len(log) : ~AboutChallenge(j, c)
LastOfAgent(i, a) ==
  AboutAgent(i, a) /\ \A j \in i + 1 .. Len(log) : ~AboutAgent(j, a)
LastOfOwner(i, o) ==
  AboutOwner(i, o) /\ \A j \in i + 1 .. Len(log) : ~AboutOwner(j, o)

\* A row whose object's last event is among the first n says what that event says.
ChallengesUpTo(n) ==
  \A row \in challengeRows, i \in 1 .. Len(log) :
    i <= n /\ LastOfChallenge(i, row.challengeId) =>
      row.status = (IF log[i].uphold THEN "UPHELD" ELSE "REJECTED")
AgentsUpTo(n) ==
  \A row \in agentRows, i \in 1 .. Len(log) :
    i <= n /\ LastOfAgent(i, row.agentId) =>
      row.totalStake =
        (IF log[i].kind = "AgentRegistered" THEN 0 ELSE log[i].newStake)
OwnersUpTo(n) ==
  \A row \in intentRows, i \in 1 .. Len(log) :
    row.active /\ i <= n /\ LastOfOwner(i, row.owner) =>
      /\ log[i].kind = "IntentCommitted"
      /\ row.intentHash = log[i].intentHash

SettledUpTo(n) == ChallengesUpTo(n) /\ AgentsUpTo(n) /\ OwnersUpTo(n)

\* A challenge is never left without its verdict, and an agent's first event is
\* its registration.
OneStory ==
  /\ \A i \in 1 .. Len(log) : log[i].kind = "ChallengeFiled" =>
       i < Len(log) /\ AboutChallenge(i + 1, log[i].challengeId)
  /\ \A i, j \in 1 .. Len(log) :
       log[i].kind = "AgentRegistered" /\ AboutAgent(j, log[i].agentId) => i <= j

\* Rows come from events.
KnownRows ==
  /\ \A row \in challengeRows :
       \E i \in 1 .. Len(log) : AboutChallenge(i, row.challengeId)
  /\ \A row \in agentRows :
       \E i \in 1 .. Len(log) : AboutAgent(i, row.agentId)
  /\ \A row \in agentRows : row.totalStake # 0 =>
       \E i \in 1 .. Len(log) :
         AboutAgent(i, row.agentId) /\ log[i].kind = "AgentStaked"
  /\ \A row \in intentRows : row.active =>
       \E i \in 1 .. Len(log) : AboutOwner(i, row.owner)

\* One poller, stopped while the reindex script runs.
OnePoller == \A p, q \in Pollers : p = q
AloneInv ==
  \A r \in Reindexers, p \in Pollers :
    PC(r) \in {"off", "done", "failed"} \/ Waiting(p)

\* A pass begins at the cursor, and what it has handled it has settled.
SettledAt(p) ==
  /\ PC(p) = "fetch" => task[p].next = lastBlock + 1
  /\ PC(p) \in {"handle", "insertIntent"} =>
       EndOf(lastBlock) <= task[p].pos /\ SettledUpTo(task[p].pos)
  /\ PC(p) = "insertIntent" =>
       \A row \in intentRows : row.active => row.owner # NextEvent(p).owner

SettledInv ==
  /\ OneStory
  /\ KnownRows
  /\ AloneInv
  /\ SettledUpTo(EndOf(lastBlock))
  /\ \A p \in Processes : SettledAt(p)

LEMMA OneStoryStep ==
  ASSUME LogInv, OneStory, [Next]_vars
  PROVE  OneStory'
<1>1. CASE UNCHANGED logVars
  BY <1>1 DEF logVars, OneStory, AboutChallenge, AboutAgent
<1>2. CASE LogNext
  <2>1. PICK es \in Seq(Event) : Grown(es) /\ Transaction(es)
    BY <1>2, MineEffect
  <2>2. Len(log) \in Nat /\ Len(es) \in Nat /\ Len(log') = Len(log) + Len(es)
    BY <2>1, HeightType DEF Grown
  <2>3. /\ \A i \in 1 .. Len(log) : log'[i] = log[i]
        /\ \A i \in 1 .. Len(es) : log'[Len(log) + i] = es[i]
    BY <2>1 DEF Grown
  <2>4. ASSUME NEW i \in 1 .. Len(log')
        PROVE  \/ i \in 1 .. Len(log)
               \/ \E k \in 1 .. Len(es) : i = Len(log) + k /\ log'[i] = es[k]
    <3>1. CASE i <= Len(log)
      BY <2>2, <3>1
    <3>2. CASE i > Len(log)
      <4>1. i - Len(log) \in 1 .. Len(es) /\ i = Len(log) + (i - Len(log))
        BY <2>2, <3>2
      <4>2. QED
        BY <2>3, <4>1
    <3>3. QED
      BY <2>2, <3>1, <3>2
  <2>5. ASSUME NEW i \in 1 .. Len(log'), log'[i].kind = "ChallengeFiled"
        PROVE  i < Len(log') /\ AboutChallenge(i + 1, log[i].challengeId)'
    <3>1. CASE i \in 1 .. Len(log)
      <4>1. log'[i] = log[i]
        BY <2>3, <3>1
      <4>2. i < Len(log) /\ AboutChallenge(i + 1, log[i].challengeId)
        BY <2>5, <3>1, <4>1 DEF OneStory
      <4>3. i + 1 \in 1 .. Len(log) /\ i < Len(log')
        BY <2>2, <3>1, <4>2
      <4>4. log'[i + 1] = log[i + 1]
        BY <2>3, <4>3
      <4>5. QED
        BY <4>1, <4>2, <4>3, <4>4 DEF AboutChallenge
    <3>2. ASSUME NEW k \in 1 .. Len(es), i = Len(log) + k, log'[i] = es[k]
          PROVE  i < Len(log') /\ AboutChallenge(i + 1, log[i].challengeId)'
      <4>1. /\ k < Len(es)
            /\ es[k + 1].kind = "ChallengeResolved"
            /\ es[k + 1].challengeId = es[k].challengeId
        BY <2>1, <2>5, <3>2 DEF Transaction
      <4>2. k + 1 \in 1 .. Len(es) /\ i + 1 = Len(log) + (k + 1) /\ i < Len(log')
        BY <2>2, <3>2, <4>1
      <4>3. log'[i + 1] = es[k + 1]
        BY <2>3, <4>2
      <4>4. QED
        BY <3>2, <4>1, <4>2, <4>3 DEF AboutChallenge
    <3>3. QED
      BY <2>4, <3>1, <3>2
  <2>6. ASSUME NEW i \in 1 .. Len(log'), NEW j \in 1 .. Len(log'),
               log'[i].kind = "AgentRegistered", AboutAgent(j, log[i].agentId)'
        PROVE  i <= j
    <3> SUFFICES ASSUME j < i
                 PROVE  FALSE
      BY <2>2
    <3>1. CASE i \in 1 .. Len(log)
      <4>1. j \in 1 .. Len(log)
        BY <2>2, <3>1
      <4>2. log'[i] = log[i] /\ log'[j] = log[j]
        BY <2>3, <3>1, <4>1
      <4>3. AboutAgent(j, log[i].agentId)
        BY <2>6, <4>2 DEF AboutAgent
      <4>4. i <= j
        BY <2>6, <3>1, <4>1, <4>2, <4>3 DEF OneStory
      <4>5. QED
        BY <3>1, <4>1, <4>4
    <3>2. ASSUME NEW k \in 1 .. Len(es), i = Len(log) + k, log'[i] = es[k]
          PROVE  FALSE
      <4>1. /\ Len(es) = 1
            /\ \A m \in 1 .. Len(log) : ~AboutAgent(m, es[k].agentId)
        BY <2>1, <2>6, <3>2 DEF Transaction
      <4>2. j \in 1 .. Len(log)
        BY <2>2, <3>2, <4>1
      <4>3. AboutAgent(j, es[k].agentId)
        BY <2>3, <2>6, <3>2, <4>2 DEF AboutAgent
      <4>4. QED
        BY <4>1, <4>2, <4>3
    <3>3. QED
      BY <2>4, <3>1, <3>2
  <2>7. QED
    BY <2>5, <2>6 DEF OneStory
<1>3. QED
  BY <1>1, <1>2, WriteFrame

\* While the tables stay, what was settled up to an event of the log stays so:
\* events mined since are later ones.
LEMMA SettledKept ==
  ASSUME ShapeInv, [Next]_vars, UNCHANGED tables,
         NEW n \in Nat, n <= Len(log), SettledUpTo(n)
  PROVE  SettledUpTo(n)'
<1>1. /\ Len(log) \in Nat /\ Len(log') \in Nat /\ Len(log) <= Len(log')
      /\ \A i \in 1 .. Len(log) : log'[i] = log[i]
  <2>1. LogInv /\ LogInv' /\ Len(log) <= Len(log')
        /\ \A i \in 1 .. Len(log) : log'[i] = log[i]
    BY LogGrows DEF ShapeInv
  <2>2. Len(log) \in Nat /\ Len(log') \in Nat
    BY <2>1 DEF LogInv
  <2>3. QED
    BY <2>1, <2>2
<1>2. ASSUME NEW i \in 1 .. Len(log'), i <= n
      PROVE  /\ i \in 1 .. Len(log) /\ log'[i] = log[i]
             /\ \A j \in i + 1 .. Len(log) : log'[j] = log[j]
             /\ \A j \in i + 1 .. Len(log) : j \in i + 1 .. Len(log')
  BY <1>1, <1>2
<1>3. ChallengesUpTo(n)'
  <2> SUFFICES ASSUME NEW row \in challengeRows', NEW i \in 1 .. Len(log'),
                      i <= n, LastOfChallenge(i, row.challengeId)'
               PROVE  row.status =
                        (IF log'[i].uphold THEN "UPHELD" ELSE "REJECTED")
    BY DEF ChallengesUpTo
  <2>1. i \in 1 .. Len(log) /\ row \in challengeRows
    BY <1>2 DEF tables
  <2>2. LastOfChallenge(i, row.challengeId)
    BY <1>2 DEF LastOfChallenge, AboutChallenge
  <2>3. QED
    BY <1>2, <2>1, <2>2 DEF SettledUpTo, ChallengesUpTo
<1>4. AgentsUpTo(n)'
  <2> SUFFICES ASSUME NEW row \in agentRows', NEW i \in 1 .. Len(log'),
                      i <= n, LastOfAgent(i, row.agentId)'
               PROVE  row.totalStake =
                        (IF log'[i].kind = "AgentRegistered" THEN 0
                         ELSE log'[i].newStake)
    BY DEF AgentsUpTo
  <2>1. i \in 1 .. Len(log) /\ row \in agentRows
    BY <1>2 DEF tables
  <2>2. LastOfAgent(i, row.agentId)
    BY <1>2 DEF LastOfAgent, AboutAgent
  <2>3. QED
    BY <1>2, <2>1, <2>2 DEF SettledUpTo, AgentsUpTo
<1>5. OwnersUpTo(n)'
  <2> SUFFICES ASSUME NEW row \in intentRows', NEW i \in 1 .. Len(log'),
                      row.active, i <= n, LastOfOwner(i, row.owner)'
               PROVE  /\ log'[i].kind = "IntentCommitted"
                      /\ row.intentHash = log'[i].intentHash
    BY DEF OwnersUpTo
  <2>1. i \in 1 .. Len(log) /\ row \in intentRows
    BY <1>2 DEF tables
  <2>2. LastOfOwner(i, row.owner)
    BY <1>2 DEF LastOfOwner, AboutOwner
  <2>3. QED
    BY <1>2, <2>1, <2>2 DEF SettledUpTo, OwnersUpTo
<1>6. QED
  BY <1>3, <1>4, <1>5 DEF SettledUpTo

LEMMA KnownKept ==
  ASSUME ShapeInv, KnownRows, [Next]_vars, UNCHANGED tables
  PROVE  KnownRows'
<1>1. /\ Len(log) \in Nat /\ Len(log') \in Nat /\ Len(log) <= Len(log')
      /\ \A i \in 1 .. Len(log) : i \in 1 .. Len(log') /\ log'[i] = log[i]
  BY LogGrows, HeightType DEF ShapeInv, LogInv
<1>2. QED
  BY <1>1 DEF KnownRows, tables, AboutChallenge, AboutAgent, AboutOwner

\* What was settled further on was settled before.
LEMMA SettledBefore ==
  ASSUME ShapeInv, NEW m \in Nat, NEW n \in Nat, m <= n, SettledUpTo(n)
  PROVE  SettledUpTo(m)
<1>1. \A i \in 1 .. Len(log) : i <= m => i <= n
  BY HeightType DEF ShapeInv
<1>2. QED
  BY <1>1 DEF SettledUpTo, ChallengesUpTo, AgentsUpTo, OwnersUpTo

\* What handling event i does to the rows of its object; others keep theirs.
LEMMA ChallengeRowsAfter ==
  ASSUME ShapeInv, [Next]_vars, NEW p \in Processes, HandleLog(p),
         NEW i, i = task[p].pos + 1, NEW row \in challengeRows'
  PROVE  \/ row \in challengeRows /\ ~AboutChallenge(i, row.challengeId)
         \/ /\ AboutChallenge(i, row.challengeId)
            /\ log[i].kind = "ChallengeResolved" =>
                 row.status = (IF log[i].uphold THEN "UPHELD" ELSE "REJECTED")
<1>1. NextEvent(p) = log[i]
  BY DEF NextEvent
<1>2. challengeRows \subseteq ChallengeRow
  BY DEF ShapeInv, TablesInv
<1>3. CASE HandleChallengeFiled(p)
  <2> DEFINE c == log[i].challengeId
             same == {r \in challengeRows : r.challengeId = c}
             new == [challengeId |-> c, receiptId |-> log[i].receiptId,
                     status |-> IF same = {} THEN "FILED"
                       ELSE StatusOnConflict((CHOOSE r \in same : TRUE).status)]
  <2>1. /\ challengeRows' = (challengeRows \ same) \cup {new}
        /\ log[i].kind = "ChallengeFiled"
    BY <1>1, <1>3 DEF HandleChallengeFiled, UpsertChallengeFiled
  <2>2. new.challengeId = c /\ \A r \in challengeRows \ same : r.challengeId # c
    OBVIOUS
  <2> HIDE DEF new, same
  <2>3. QED
    BY <2>1, <2>2 DEF AboutChallenge
<1>4. CASE HandleChallengeResolved(p)
  <2> DEFINE verdict == IF log[i].uphold THEN "UPHELD" ELSE "REJECTED"
             set(r) == IF r.challengeId = log[i].challengeId
                       THEN [r EXCEPT !.status = verdict] ELSE r
  <2>1. /\ challengeRows' = {set(r) : r \in challengeRows}
        /\ log[i].kind = "ChallengeResolved"
    BY <1>1, <1>4 DEF HandleChallengeResolved, ResolveChallenge
  <2>2. \A r \in challengeRows :
          /\ set(r).challengeId = r.challengeId
          /\ r.challengeId = log[i].challengeId => set(r).status = verdict
          /\ r.challengeId # log[i].challengeId => set(r) = r
    BY <1>2 DEF ChallengeRow
  <2> HIDE DEF set
  <2>3. QED
    BY <2>1, <2>2 DEF AboutChallenge
<1>5. CASE ~HandleChallengeFiled(p) /\ ~HandleChallengeResolved(p)
  <2>1. /\ challengeRows' = challengeRows
        /\ NextEvent(p).kind \notin {"ChallengeFiled", "ChallengeResolved"}
    BY <1>5, TaskAt
       DEF HandleLog, HandleActionReceipt, HandleTraceURIStored,
           HandleIntentCommitted, InsertIntent, HandleIntentRevoked,
           HandleAgentRegistered, HandleAgentStaked, HandleAgentDelegateSet,
           TaskInv, PC, NextEvent
  <2>2. QED
    BY <1>1, <2>1 DEF AboutChallenge
<1>6. QED
  BY <1>3, <1>4, <1>5

LEMMA AgentRowsAfter ==
  ASSUME ShapeInv, [Next]_vars, NEW p \in Processes, HandleLog(p),
         NEW i, i = task[p].pos + 1, NEW row \in agentRows'
  PROVE  \/ row \in agentRows /\ ~AboutAgent(i, row.agentId)
         \/ /\ AboutAgent(i, row.agentId)
            /\ \/ /\ log[i].kind = "AgentStaked"
                  /\ row.totalStake = log[i].newStake
               \/ /\ log[i].kind = "AgentRegistered"
                  /\ row.totalStake = 0 \/ row \in agentRows
<1>1. NextEvent(p) = log[i]
  BY DEF NextEvent
<1>2. agentRows \subseteq AgentRow
  BY DEF ShapeInv, TablesInv
<1>3. CASE HandleAgentRegistered(p)
  <2> DEFINE new == [agentId |-> log[i].agentId, totalStake |-> 0]
  <2>1. /\ log[i].kind = "AgentRegistered"
        /\ \/ agentRows' = agentRows
           \/ agentRows' = {r \in agentRows : r.agentId # log[i].agentId}
                             \cup {new}
    BY <1>1, <1>3 DEF HandleAgentRegistered, UpsertAgentRegistered
  <2>2. new.agentId = log[i].agentId /\ new.totalStake = 0
    OBVIOUS
  <2> HIDE DEF new
  <2>3. QED
    BY <2>1, <2>2 DEF AboutAgent
<1>4. CASE HandleAgentStaked(p)
  <2> DEFINE set(r) == IF r.agentId = log[i].agentId
                       THEN [r EXCEPT !.totalStake = log[i].newStake] ELSE r
  <2>1. /\ agentRows' = {set(r) : r \in agentRows}
        /\ log[i].kind = "AgentStaked"
    BY <1>1, <1>4 DEF HandleAgentStaked, ApplyStakeIncrease
  <2>2. \A r \in agentRows :
          /\ set(r).agentId = r.agentId
          /\ r.agentId = log[i].agentId => set(r).totalStake = log[i].newStake
          /\ r.agentId # log[i].agentId => set(r) = r
    BY <1>2 DEF AgentRow
  <2> HIDE DEF set
  <2>3. QED
    BY <2>1, <2>2 DEF AboutAgent
<1>5. CASE ~HandleAgentRegistered(p) /\ ~HandleAgentStaked(p)
  <2>1. /\ agentRows' = agentRows
        /\ NextEvent(p).kind \notin {"AgentRegistered", "AgentStaked"}
    BY <1>5, TaskAt
       DEF HandleLog, HandleActionReceipt, HandleTraceURIStored,
           HandleChallengeFiled, HandleChallengeResolved,
           HandleIntentCommitted, InsertIntent, HandleIntentRevoked,
           HandleAgentDelegateSet, TaskInv, PC, NextEvent
  <2>2. QED
    BY <1>1, <2>1 DEF AboutAgent
<1>6. QED
  BY <1>3, <1>4, <1>5

LEMMA OwnerRowsAfter ==
  ASSUME ShapeInv, [Next]_vars, NEW p \in Processes, HandleLog(p),
         SettledAt(p),
         NEW i, i = task[p].pos + 1, NEW row \in intentRows', row.active
  PROVE  \/ row \in intentRows /\ ~AboutOwner(i, row.owner)
         \/ /\ AboutOwner(i, row.owner)
            /\ log[i].kind = "IntentCommitted"
            /\ row.intentHash = log[i].intentHash
            /\ task'[p].pc # "insertIntent"
<1>1. NextEvent(p) = log[i]
  BY DEF NextEvent
<1>2. intentRows \subseteq IntentRow /\ task[p] \in Task
      /\ task \in [Processes -> Task]
  BY TaskAt DEF ShapeInv, TablesInv
<1> DEFINE o == log[i].owner
           h == log[i].intentHash
<1>3. \A r \in Deactivated(o) : r.active => r \in intentRows /\ r.owner # o
  BY <1>2, DeactivatedActive
<1>4. ASSUME NEW rows, \A r \in rows : r.active => r \in intentRows /\ r.owner # o,
             intentRows' = InsertIgnore(rows, o, h)
      PROVE  (row \in intentRows /\ row.owner # o)
               \/ (row.owner = o /\ row.intentHash = h)
  <2> HIDE DEF o, h
  <2>1. QED
    BY <1>4, InsertedActive
<1>5. ASSUME Handled(p) PROVE task'[p].pc # "insertIntent"
  BY <1>2, <1>5 DEF Handled, Task
<1>6. CASE HandleIntentCommitted(p) /\ Provider = "sqlite"
  <2>1. /\ intentRows' = InsertIgnore(Deactivated(o), o, h)
        /\ log[i].kind = "IntentCommitted" /\ Handled(p)
    BY <1>1, <1>6 DEF HandleIntentCommitted
  <2>2. (row \in intentRows /\ row.owner # o)
           \/ (row.owner = o /\ row.intentHash = h)
    <3> HIDE DEF o, h
    <3>1. QED
      BY <1>3, <1>4, <2>1
  <2>3. QED
    BY <1>5, <2>1, <2>2 DEF AboutOwner
<1>7. CASE \/ HandleIntentCommitted(p) /\ Provider # "sqlite"
           \/ HandleIntentRevoked(p)
  <2>1. intentRows' = Deactivated(o)
    BY <1>1, <1>7 DEF HandleIntentCommitted, HandleIntentRevoked
  <2>2. QED
    BY <1>3, <2>1 DEF AboutOwner
<1>8. CASE InsertIntent(p)
  <2>1. /\ PC(p) = "insertIntent" /\ Handled(p)
        /\ intentRows' = InsertIgnore(intentRows, o, h)
    BY <1>1, <1>8 DEF InsertIntent
  <2>2. log[i].kind = "IntentCommitted"
    BY <2>1, TaskAt DEF TaskInv, PC
  <2>3. \A r \in intentRows : r.active => r \in intentRows /\ r.owner # o
    BY <1>1, <2>1 DEF SettledAt
  <2>4. (row \in intentRows /\ row.owner # o)
           \/ (row.owner = o /\ row.intentHash = h)
    <3> HIDE DEF o, h
    <3>1. QED
      BY <1>4, <2>1, <2>3
  <2>5. QED
    BY <1>5, <2>1, <2>2, <2>4 DEF AboutOwner
<1>9. CASE ~HandleIntentCommitted(p) /\ ~InsertIntent(p) /\ ~HandleIntentRevoked(p)
  <2>1. /\ intentRows' = intentRows
        /\ NextEvent(p).kind \notin {"IntentCommitted", "IntentRevoked"}
    BY <1>9, TaskAt
       DEF HandleLog, HandleActionReceipt, HandleTraceURIStored,
           HandleChallengeFiled, HandleChallengeResolved,
           HandleAgentRegistered, HandleAgentStaked, HandleAgentDelegateSet
  <2>2. QED
    BY <1>1, <2>1 DEF AboutOwner
<1>10. QED
  BY <1>6, <1>7, <1>8, <1>9

\* Where the event a process handles is the last about an object, the row says
\* what it says; rows of other objects stay right.
LEMMA HandlerSettles ==
  ASSUME ShapeInv, OneStory, KnownRows, [Next]_vars,
         NEW p \in Processes, HandleLog(p), SettledAt(p),
         NEW i, i = task[p].pos + 1
  PROVE  SettledUpTo(i)'
<1>1. /\ log' = log /\ Len(log) \in Nat
      /\ HasNext(p) \/ PC(p) = "insertIntent"
  BY HandleLogTask, HeightType DEF ShapeInv, logVars
<1>2. i \in 1 .. Len(log) /\ task[p].pos \in Nat /\ NextEvent(p) = log[i]
  BY <1>1, NextEventType, TaskAt DEF NextEvent
<1>3. SettledUpTo(task[p].pos)
  BY <1>1 DEF SettledAt, HasNext
<1>4. ASSUME NEW j \in 1 .. Len(log), j <= i, j # i
      PROVE  j <= task[p].pos
  BY <1>2, <1>4
<1>5. ASSUME NEW j \in 1 .. Len(log), j <= i, j # i
      PROVE  i \in j + 1 .. Len(log)
  BY <1>1, <1>2, <1>5
<1>6. ChallengesUpTo(i)'
  <2> SUFFICES ASSUME NEW row \in challengeRows', NEW j \in 1 .. Len(log),
                      j <= i, LastOfChallenge(j, row.challengeId)
               PROVE  row.status =
                        (IF log[j].uphold THEN "UPHELD" ELSE "REJECTED")
    BY <1>1 DEF ChallengesUpTo, LastOfChallenge, AboutChallenge
  <2>1. CASE AboutChallenge(i, row.challengeId)
    <3>1. j = i
      BY <1>5, <2>1 DEF LastOfChallenge
    <3>2. log[i].kind # "ChallengeFiled"
      <4>1. SUFFICES ASSUME log[i].kind = "ChallengeFiled" PROVE FALSE
        OBVIOUS
      <4>2. i < Len(log) /\ AboutChallenge(i + 1, row.challengeId)
        BY <1>2, <2>1, <4>1 DEF OneStory, AboutChallenge
      <4>3. i + 1 \in i + 1 .. Len(log)
        BY <1>1, <1>2, <4>2
      <4>4. QED
        BY <3>1, <4>2, <4>3 DEF LastOfChallenge
    <3>3. QED
      BY <2>1, <3>1, <3>2, ChallengeRowsAfter DEF AboutChallenge
  <2>2. CASE ~AboutChallenge(i, row.challengeId)
    <3>1. row \in challengeRows
      BY <2>2, ChallengeRowsAfter
    <3>2. j <= task[p].pos
      BY <1>4, <2>2 DEF LastOfChallenge
    <3>3. QED
      BY <1>3, <3>1, <3>2 DEF SettledUpTo, ChallengesUpTo
  <2>3. QED
    BY <2>1, <2>2
<1>7. AgentsUpTo(i)'
  <2> SUFFICES ASSUME NEW row \in agentRows', NEW j \in 1 .. Len(log),
                      j <= i, LastOfAgent(j, row.agentId)
               PROVE  row.totalStake =
                        (IF log[j].kind = "AgentRegistered" THEN 0
                         ELSE log[j].newStake)
    BY <1>1 DEF AgentsUpTo, LastOfAgent, AboutAgent
  <2>1. CASE AboutAgent(i, row.agentId)
    <3>1. j = i
      BY <1>5, <2>1 DEF LastOfAgent
    <3>2. ASSUME log[i].kind = "AgentRegistered", row \in agentRows
          PROVE  row.totalStake = 0
      <4>1. SUFFICES ASSUME row.totalStake # 0 PROVE FALSE
        OBVIOUS
      <4>2. PICK k \in 1 .. Len(log) :
              AboutAgent(k, row.agentId) /\ log[k].kind = "AgentStaked"
        BY <3>2, <4>1 DEF KnownRows
      <4>3. i <= k /\ k # i
        BY <1>2, <2>1, <3>2, <4>2 DEF OneStory, AboutAgent
      <4>4. k \in i + 1 .. Len(log)
        BY <1>1, <1>2, <4>3
      <4>5. QED
        BY <3>1, <4>2, <4>4 DEF LastOfAgent
    <3>3. QED
      BY <2>1, <3>1, <3>2, AgentRowsAfter
  <2>2. CASE ~AboutAgent(i, row.agentId)
    <3>1. row \in agentRows
      BY <2>2, AgentRowsAfter
    <3>2. j <= task[p].pos
      BY <1>4, <2>2 DEF LastOfAgent
    <3>3. QED
      BY <1>3, <3>1, <3>2 DEF SettledUpTo, AgentsUpTo
  <2>3. QED
    BY <2>1, <2>2
<1>8. OwnersUpTo(i)'
  <2> SUFFICES ASSUME NEW row \in intentRows', NEW j \in 1 .. Len(log),
                      row.active, j <= i, LastOfOwner(j, row.owner)
               PROVE  /\ log[j].kind = "IntentCommitted"
                      /\ row.intentHash = log[j].intentHash
    BY <1>1 DEF OwnersUpTo, LastOfOwner, AboutOwner
  <2>1. CASE AboutOwner(i, row.owner)
    <3>1. j = i
      BY <1>5, <2>1 DEF LastOfOwner
    <3>2. QED
      BY <2>1, <3>1, OwnerRowsAfter
  <2>2. CASE ~AboutOwner(i, row.owner)
    <3>1. row \in intentRows
      BY <2>2, OwnerRowsAfter
    <3>2. j <= task[p].pos
      BY <1>4, <2>2 DEF LastOfOwner
    <3>3. QED
      BY <1>3, <3>1, <3>2 DEF SettledUpTo, OwnersUpTo
  <2>3. QED
    BY <2>1, <2>2
<1>9. QED
  BY <1>6, <1>7, <1>8 DEF SettledUpTo

LEMMA HandlerKnows ==
  ASSUME ShapeInv, KnownRows, [Next]_vars,
         NEW p \in Processes, HandleLog(p), SettledAt(p)
  PROVE  KnownRows'
<1>1. PICK i : i = task[p].pos + 1
  OBVIOUS
<1>2. log' = log /\ (HasNext(p) \/ PC(p) = "insertIntent")
  BY HandleLogTask DEF logVars
<1>3. i \in 1 .. Len(log)
  BY <1>1, <1>2, NextEventType
<1>4. ASSUME NEW row \in challengeRows'
      PROVE  \E j \in 1 .. Len(log) : AboutChallenge(j, row.challengeId)
  <2>1. \/ row \in challengeRows
        \/ AboutChallenge(i, row.challengeId)
    BY <1>1, ChallengeRowsAfter
  <2>2. QED
    BY <1>3, <2>1 DEF KnownRows
<1>5. ASSUME NEW row \in agentRows'
      PROVE  /\ \E j \in 1 .. Len(log) : AboutAgent(j, row.agentId)
             /\ row.totalStake # 0 =>
                  \E j \in 1 .. Len(log) :
                    AboutAgent(j, row.agentId) /\ log[j].kind = "AgentStaked"
  <2>1. \/ row \in agentRows
        \/ /\ AboutAgent(i, row.agentId)
           /\ log[i].kind = "AgentStaked" \/ row.totalStake = 0
    BY <1>1, AgentRowsAfter
  <2>2. QED
    BY <1>3, <2>1 DEF KnownRows
<1>6. ASSUME NEW row \in intentRows', row.active
      PROVE  \E j \in 1 .. Len(log) : AboutOwner(j, row.owner)
  <2>1. \/ row \in intentRows
        \/ AboutOwner(i, row.owner)
    BY <1>1, <1>6, OwnerRowsAfter
  <2>2. QED
    BY <1>3, <1>6, <2>1 DEF KnownRows
<1>7. QED
  BY <1>2, <1>4, <1>5, <1>6 DEF KnownRows, AboutChallenge, AboutAgent, AboutOwner

\* At most one process is at work.
LEMMA AloneAtWork ==
  ASSUME OnePoller, OneReindexer, AloneInv,
         NEW p \in Processes, ~Waiting(p), NEW q \in Processes, q # p
  PROVE  Waiting(q)
BY DEF OnePoller, OneReindexer, AloneInv, Processes, Waiting

LEMMA AloneStep ==
  ASSUME StartedWhole, OnePoller, OneReindexer, ShapeInv, AloneInv, [Next]_vars
  PROVE  AloneInv'
<1> SUFFICES ASSUME NEW r \in Reindexers, NEW p \in Pollers
             PROVE  PC(r)' \in {"off", "done", "failed"} \/ Waiting(p)'
  BY DEF AloneInv
<1>1. r \in Processes /\ p \in Processes /\ r # p /\ r \notin Pollers /\ ReindexAlone
  BY IndexerAssumption DEF Processes, StartedWhole
<1>2. PC(r) \in {"off", "done", "failed"} \/ Waiting(p)
  BY DEF AloneInv
<1>3. ASSUME task'[r] = task[r], task'[p] = task[p]
      PROVE  PC(r)' \in {"off", "done", "failed"} \/ Waiting(p)'
  BY <1>2, <1>3 DEF Waiting, PC
<1>4. CASE Mine \/ UNCHANGED vars
  <2>1. UNCHANGED task
    BY <1>4 DEF Mine, indexVars, vars
  <2>2. QED
    BY <1>3, <2>1
<1>a. \A q : ~Refused(q)
  BY NoRefusal DEF StartedWhole, OnSqlite
<1>5. ASSUME NEW q \in Processes, PollerStep(q) \/ Interrupt(q)
      PROVE  PC(r)' \in {"off", "done", "failed"} \/ Waiting(p)'
  <2>1. \A s \in Processes \ {q} : task'[s] = task[s]
    BY <1>5, RestTask, ReadCursorTask, FetchBatchTask, SaveCursorTask,
       HandleLogShape DEF PollerStep, TaskStepOf
  <2>2. PC(q) \notin {"off", "done", "failed"}
    BY <1>5, HandleLogTask
       DEF PollerStep, ReadHead, ReadCursor, FetchBatch, SaveCursor, Interrupt,
           BatchHandled, Waiting, HasNext
  <2>3. CASE q = r
    BY <1>1, <1>2, <2>1, <2>2, <2>3 DEF Waiting, PC
  <2>4. CASE q = p
    <3>1. Waiting(p) => ReadHead(p)
      BY <1>5, <2>4, HandleLogTask
         DEF PollerStep, ReadCursor, FetchBatch, SaveCursor, Interrupt, Waiting,
             HasNext, BatchHandled
    <3>2. PC(r) \in {"off", "done", "failed"}
      BY <1>1, <1>2, <3>1 DEF ReadHead, Reindexing
    <3>3. QED
      BY <1>1, <2>1, <2>4, <3>2 DEF PC
  <2>5. CASE q # r /\ q # p
    BY <1>1, <1>3, <2>1, <2>5
  <2>6. QED
    BY <2>3, <2>4, <2>5
<1>6. ASSUME NEW s \in Reindexers, Truncate(s) \/ ResetCursor(s)
      PROVE  Waiting(p)'
  <2>1. s = r
    BY DEF OneReindexer
  <2>2. Waiting(p)
    BY <1>1, <1>2, <1>6, <2>1 DEF Truncate, ResetCursor
  <2>3. task'[p] = task[p]
    BY <1>1, <1>6, <2>1, RestTask DEF TaskStepOf
  <2>4. QED
    BY <2>2, <2>3 DEF Waiting, PC
<1>7. QED
  BY <1>4, <1>5, <1>6, <1>a DEF Next, Refused

\* A process that waits has nothing to answer for.
LEMMA WaitingSettled ==
  ASSUME NEW q \in Processes, Waiting(q), task'[q] = task[q]
  PROVE  SettledAt(q)'
BY DEF Waiting, SettledAt, PC

LEMMA RestingSettled ==
  ASSUME NEW q \in Processes,
         task'[q].pc \in {"idle", "failed", "cursor", "reset", "done"}
  PROVE  SettledAt(q)'
BY DEF SettledAt, PC

\* Where neither tables nor cursor move, nothing is unsettled.
LEMMA QuietStep ==
  ASSUME ShapeInv, SettledInv, [Next]_vars, UNCHANGED <<tables, lastBlock>>
  PROVE  /\ SettledUpTo(EndOf(lastBlock))'
         /\ EndOf(lastBlock)' = EndOf(lastBlock)
         /\ \A q \in Processes : task'[q] = task[q] => SettledAt(q)'
<1>1. lastBlock \in Int /\ lastBlock <= Height
  BY HeightType DEF ShapeInv
<1>2. EndOf(lastBlock) \in Nat /\ EndOf(lastBlock) <= Len(log)
  BY <1>1, HeightType DEF ShapeInv
<1>3. EndOf(lastBlock)' = EndOf(lastBlock)
  <2>1. \A b \in Int : b <= Height => EndOf(b)' = EndOf(b)
    BY LogGrows DEF ShapeInv
  <2>2. QED
    BY <1>1, <2>1 DEF EndOf
<1>4. PICK n : n = EndOf(lastBlock)
  OBVIOUS
<1>5. SettledUpTo(n)'
  BY <1>2, <1>4, SettledKept DEF SettledInv
<1>6. SettledUpTo(EndOf(lastBlock))'
  BY <1>3, <1>4, <1>5
     DEF SettledUpTo, ChallengesUpTo, AgentsUpTo, OwnersUpTo
<1>7. ASSUME NEW q \in Processes, task'[q] = task[q]
      PROVE  SettledAt(q)'
  <2>1. PC(q)' = PC(q)
    BY <1>7 DEF PC
  <2>2. SettledAt(q)
    BY DEF SettledInv
  <2>3. ASSUME PC(q) \in {"handle", "insertIntent"}
        PROVE  EndOf(lastBlock)' <= task'[q].pos /\ SettledUpTo(task[q].pos)'
    <3>1. task[q].pos \in Nat /\ task[q].pos <= Len(log)
      BY <2>3, TaskAt, HeightType DEF TaskInv, PC, ShapeInv
    <3>2. EndOf(lastBlock) <= task[q].pos /\ SettledUpTo(task[q].pos)
      BY <2>2, <2>3 DEF SettledAt
    <3>3. PICK m : m = task[q].pos
      OBVIOUS
    <3>4. SettledUpTo(m)'
      BY <3>1, <3>2, <3>3, SettledKept
    <3>5. SettledUpTo(task[q].pos)'
      BY <1>7, <3>3, <3>4
         DEF SettledUpTo, ChallengesUpTo, AgentsUpTo, OwnersUpTo
    <3>6. QED
      BY <1>3, <1>7, <3>2, <3>5
  <2>4. ASSUME PC(q) = "insertIntent"
        PROVE  NextEvent(q)' = NextEvent(q) /\ intentRows' = intentRows
    <3>1. task[q].pos + 1 \in 1 .. Len(log)
      BY <2>4, NextEventType
    <3>2. \A i \in 1 .. Len(log) : log'[i] = log[i]
      BY LogGrows DEF ShapeInv
    <3>3. QED
      BY <1>7, <3>1, <3>2 DEF NextEvent, tables
  <2>5. QED
    BY <1>7, <2>1, <2>2, <2>3, <2>4 DEF SettledAt
<1>8. QED
  BY <1>3, <1>6, <1>7

\* Only the handlers and the reindex script's emptying touch the tables.
LEMMA TablesStay ==
  ASSUME ShapeInv, NEW p \in Processes,
         ReadHead(p) \/ Interrupt(p) \/ ReadCursor(p) \/ FetchBatch(p)
  PROVE  UNCHANGED <<tables, lastBlock>> /\ UNCHANGED logVars
BY DEF ReadHead, Interrupt, ReadCursor, FetchBatch

LEMMA PassSettled ==
  ASSUME StartedWhole, ShapeInv, SettledInv, [Next]_vars,
         NEW p \in Processes, ReadCursor(p) \/ FetchBatch(p)
  PROVE  SettledAt(p)'
<1>1. /\ UNCHANGED <<tables, lastBlock>> /\ UNCHANGED logVars
      /\ lastBlock \in Nat /\ Height \in Nat /\ task[p].next \in Nat
      /\ EndOf(lastBlock) \in Nat /\ lastBlock <= Height
  BY TablesStay, TaskAt, HeightType DEF ShapeInv
<1>2. CASE ReadCursor(p)
  <2>1. \/ task'[p].pc \in {"idle", "done"}
        \/ task'[p].pc = "fetch" /\ task'[p].next = FirstBlock(lastBlock)
    BY <1>2, ReadCursorTask
  <2>2. FirstBlock(lastBlock) = lastBlock + 1
    BY <1>1 DEF FirstBlock, Resume, StartedWhole
  <2>3. QED
    BY <1>1, <2>1, <2>2 DEF SettledAt, PC
<1>3. CASE FetchBatch(p)
  <2>1. task'[p].pc = "handle" /\ task'[p].pos = EndOf(task[p].next - 1)
    BY <1>3, FetchBatchTask
  <2>2. task[p].next = lastBlock + 1
    BY <1>3 DEF SettledInv, SettledAt, FetchBatch
  <2>3. task'[p].pos = EndOf(lastBlock)
    <3>1. task[p].next - 1 = lastBlock
      BY <1>1, <2>2
    <3>2. QED
      BY <2>1, <3>1
  <2>4. EndOf(lastBlock)' = EndOf(lastBlock) /\ SettledUpTo(EndOf(lastBlock))'
    BY <1>1, QuietStep
  <2>5. SettledUpTo(task[p].pos)'
    BY <2>3, <2>4 DEF SettledUpTo, ChallengesUpTo, AgentsUpTo, OwnersUpTo
  <2>6. EndOf(lastBlock)' <= task'[p].pos
    BY <1>1, <2>3, <2>4
  <2>7. QED
    BY <2>1, <2>5, <2>6 DEF SettledAt, PC
<1>4. QED
  BY <1>2, <1>3

LEMMA HandledSettled ==
  ASSUME ShapeInv, SettledInv, [Next]_vars, NEW p \in Processes, HandleLog(p)
  PROVE  SettledAt(p)' /\ SettledUpTo(EndOf(lastBlock))' /\ KnownRows'
<1>1. /\ HasNext(p) \/ PC(p) = "insertIntent"
      /\ UNCHANGED <<log, blockEnd, lastBlock>>
      /\ \/ task' = [task EXCEPT ![p].pc = "handle", ![p].pos = @ + 1]
         \/ /\ NextEvent(p).kind = "IntentCommitted"
            /\ task' = [task EXCEPT ![p].pc = "insertIntent"]
  BY HandleLogTask DEF logVars
<1>2. SettledAt(p) /\ OneStory /\ KnownRows
  BY DEF SettledInv
<1>3. EndOf(lastBlock) <= task[p].pos /\ task[p].pos \in Nat
      /\ EndOf(lastBlock) \in Nat
  BY <1>1, <1>2, TaskAt, HeightType DEF SettledAt, HasNext, ShapeInv
<1>4. Len(log) \in Nat /\ log' = log
  BY <1>1, HeightType DEF ShapeInv
<1>5. PICK i : i = task[p].pos + 1
  OBVIOUS
<1>6. i \in Nat /\ SettledUpTo(i)'
  BY <1>2, <1>3, <1>5, HandlerSettles
<1>7. ASSUME NEW m \in Nat, m <= i
      PROVE  SettledUpTo(m)'
  <2>1. \A j \in 1 .. Len(log') : j <= m => j <= i
    BY <1>4, <1>6, <1>7
  <2>2. QED
    BY <1>6, <2>1 DEF SettledUpTo, ChallengesUpTo, AgentsUpTo, OwnersUpTo
<1>8. EndOf(lastBlock)' = EndOf(lastBlock)
  BY <1>1 DEF EndOf
<1>9. SettledUpTo(EndOf(lastBlock))'
  <2>1. PICK m : m = EndOf(lastBlock)
    OBVIOUS
  <2>2. SettledUpTo(m)'
    BY <1>3, <1>5, <1>7, <2>1
  <2>3. QED
    BY <1>8, <2>1, <2>2
       DEF SettledUpTo, ChallengesUpTo, AgentsUpTo, OwnersUpTo
<1>10. SettledAt(p)'
  <2>1. /\ task'[p].pc \in {"handle", "insertIntent"}
        /\ task'[p].pos \in {task[p].pos, i}
        /\ task'[p].pc = "insertIntent" =>
             task'[p].pos = task[p].pos /\ NextEvent(p).kind = "IntentCommitted"
    BY <1>1, <1>3, <1>5, TaskAt DEF Task, ShapeInv
  <2>2. PICK m : m = task'[p].pos
    OBVIOUS
  <2>3. m \in Nat /\ m <= i /\ EndOf(lastBlock) <= m
    BY <1>3, <1>5, <2>1, <2>2
  <2>4. SettledUpTo(m)'
    BY <1>7, <2>3
  <2>5. SettledUpTo(task[p].pos)'
    BY <2>2, <2>4 DEF SettledUpTo, ChallengesUpTo, AgentsUpTo, OwnersUpTo
  <2>6. ASSUME task'[p].pc = "insertIntent",
               NEW row \in intentRows', row.active
        PROVE  row.owner # NextEvent(p)'.owner
    <3>1. NextEvent(p)' = NextEvent(p) /\ NextEvent(p) = log[i]
      BY <1>1, <1>5, <2>1, <2>6 DEF NextEvent
    <3>2. ~AboutOwner(i, row.owner)
      BY <1>2, <1>5, <2>6, OwnerRowsAfter
    <3>3. QED
      BY <2>1, <2>6, <3>1, <3>2 DEF AboutOwner
  <2>7. QED
    BY <1>8, <2>1, <2>2, <2>3, <2>5, <2>6 DEF SettledAt, PC
<1>11. KnownRows'
  BY <1>2, HandlerKnows
<1>12. QED
  BY <1>9, <1>10, <1>11

LEMMA SavedSettled ==
  ASSUME ShapeInv, SettledInv, [Next]_vars, NEW p \in Processes, SaveCursor(p)
  PROVE  SettledAt(p)' /\ SettledUpTo(EndOf(lastBlock))' /\ KnownRows'
<1>1. /\ UNCHANGED tables /\ UNCHANGED <<log, blockEnd>>
      /\ PC(p) = "handle" /\ task[p].pos = EndOf(task[p].upper)
      /\ lastBlock' = task[p].upper
  BY DEF SaveCursor, SavedCursor, BatchHandled, logVars
<1>2. PICK n : n = task[p].pos
  OBVIOUS
<1>3. n \in Nat /\ n <= Len(log) /\ task[p].upper \in Nat
  BY <1>1, <1>2, TaskAt, HeightType DEF ShapeInv
<1>4. SettledUpTo(n)
  BY <1>1, <1>2 DEF SettledInv, SettledAt
<1>5. SettledUpTo(n)'
  BY <1>1, <1>3, <1>4, SettledKept
<1>6. EndOf(lastBlock)' = n
  BY <1>1, <1>2 DEF EndOf
<1>7. SettledUpTo(EndOf(lastBlock))'
  BY <1>5, <1>6 DEF SettledUpTo, ChallengesUpTo, AgentsUpTo, OwnersUpTo
<1>8. SettledAt(p)'
  BY <1>1, <1>3, SaveCursorTask DEF SettledAt, PC
<1>9. KnownRows'
  BY <1>1, KnownKept DEF SettledInv
<1>10. QED
  BY <1>7, <1>8, <1>9

LEMMA ReindexSettled ==
  ASSUME StartedWhole, ShapeInv, SettledInv, [Next]_vars,
         NEW r \in Reindexers, Truncate(r) \/ ResetCursor(r)
  PROVE  SettledAt(r)' /\ SettledUpTo(EndOf(lastBlock))' /\ KnownRows'
<1>1. SettledAt(r)'
  BY RestTask, RestingSettled DEF Processes
<1>2. CASE Truncate(r)
  BY <1>1, <1>2
     DEF Truncate, KnownRows, SettledUpTo, ChallengesUpTo, AgentsUpTo, OwnersUpTo
<1>3. CASE ResetCursor(r)
  <2>1. UNCHANGED tables /\ lastBlock' = 0
    BY <1>3 DEF ResetCursor
  <2>2. EndOf(lastBlock)' = 0
    BY <2>1 DEF EndOf
  <2>3. EndOf(lastBlock) \in Nat /\ Len(log) \in Nat
    BY HeightType DEF ShapeInv
  <2>4. SettledUpTo(0)
    BY <2>3, SettledBefore DEF SettledInv
  <2>5. SettledUpTo(0)'
    BY <2>1, <2>3, <2>4, SettledKept
  <2>6. SettledUpTo(EndOf(lastBlock))'
    BY <2>2, <2>5 DEF SettledUpTo, ChallengesUpTo, AgentsUpTo, OwnersUpTo
  <2>7. KnownRows'
    BY <2>1, KnownKept DEF SettledInv
  <2>8. QED
    BY <1>1, <2>6, <2>7
<1>4. QED
  BY <1>2, <1>3

LEMMA SettledStep ==
  ASSUME OnSqlite, StartedWhole, OnePoller, OneReindexer, ShapeInv, SettledInv, [Next]_vars
  PROVE  SettledInv'
<1>1. OneStory' /\ AloneInv'
  BY OneStoryStep, AloneStep DEF SettledInv, ShapeInv
<1>2. ASSUME UNCHANGED <<tables, lastBlock>>
      PROVE  /\ SettledUpTo(EndOf(lastBlock))' /\ KnownRows'
             /\ \A q \in Processes : task'[q] = task[q] => SettledAt(q)'
  BY <1>2, QuietStep, KnownKept DEF SettledInv
<1>3. ASSUME NEW p \in Processes, ~Waiting(p),
             \A q \in Processes \ {p} : task'[q] = task[q], SettledAt(p)'
      PROVE  \A q \in Processes : SettledAt(q)'
  BY <1>3, AloneAtWork, WaitingSettled DEF SettledInv
<1>4. CASE Mine \/ UNCHANGED vars
  <2>1. UNCHANGED <<tables, lastBlock>> /\ UNCHANGED task
    BY <1>4 DEF Mine, indexVars, vars
  <2>2. QED
    BY <1>1, <1>2, <2>1 DEF SettledInv
<1>5. ASSUME NEW p \in Processes,
             ReadHead(p) \/ Interrupt(p) \/ ReadCursor(p) \/ FetchBatch(p)
      PROVE  SettledInv'
  <2>1. UNCHANGED <<tables, lastBlock>>
    BY <1>5, TablesStay
  <2>2. /\ \A q \in Processes \ {p} : task'[q] = task[q]
        /\ SettledAt(p)'
    BY <1>5, RestTask, ReadCursorTask, FetchBatchTask, PassSettled,
       RestingSettled DEF TaskStepOf
  <2>3. QED
    BY <1>1, <1>2, <2>1, <2>2 DEF SettledInv
<1>6. ASSUME NEW p \in Processes, HandleLog(p) \/ SaveCursor(p)
      PROVE  SettledInv'
  <2>1. ~Waiting(p)
    BY <1>6, HandleLogTask DEF SaveCursor, BatchHandled, HasNext, Waiting
  <2>2. \A q \in Processes \ {p} : task'[q] = task[q]
    BY <1>6, SaveCursorTask, HandleLogShape DEF TaskStepOf
  <2>3. SettledAt(p)' /\ SettledUpTo(EndOf(lastBlock))' /\ KnownRows'
    BY <1>6, HandledSettled, SavedSettled
  <2>4. QED
    BY <1>1, <1>3, <2>1, <2>2, <2>3 DEF SettledInv
<1>7. ASSUME NEW r \in Reindexers, Truncate(r) \/ ResetCursor(r)
      PROVE  SettledInv'
  <2>1. r \in Processes
    BY DEF Processes
  <2>2. /\ \A q \in Processes \ {r} : task'[q] = task[q]
        /\ SettledAt(r)' /\ SettledUpTo(EndOf(lastBlock))' /\ KnownRows'
    BY <1>7, <2>1, RestTask, ReindexSettled DEF TaskStepOf
  <2>3. ASSUME NEW q \in Processes \ {r}
        PROVE  Waiting(q)
    <3>1. CASE Truncate(r)
      BY <2>3, <3>1 DEF Truncate, StartedWhole
    <3>2. CASE ResetCursor(r)
      BY <2>1, <2>3, <3>2, AloneAtWork DEF ResetCursor, Waiting, SettledInv
    <3>3. QED
      BY <1>7, <3>1, <3>2
  <2>4. QED
    BY <1>1, <2>2, <2>3, WaitingSettled DEF SettledInv
<1>8. QED
  BY <1>4, <1>5, <1>6, <1>7, NoRefusal DEF Next, PollerStep, Refused

\* Of the events larger than one of K, a smallest set is empty.
LEMMA LargestIn ==
  ASSUME NEW n \in Nat, NEW K, K \subseteq 1 .. n, K # {}
  PROVE  Max(K) \in K /\ \A k \in K : k <= Max(K)
<1> DEFINE Above(x) == {y \in K : y > x}
           Family == {Above(x) : x \in K}
<1>1. IsFiniteSet(K) /\ K \subseteq Int
  <2>1. IsFiniteSet(1 .. n)
    BY FS_Interval
  <2>2. K \in SUBSET (1 .. n)
    OBVIOUS
  <2>3. IsFiniteSet(K)
    BY <2>1, <2>2, FS_Subset
  <2>4. QED
    BY <2>3
<1>2. \A x \in K : Above(x) \in FiniteSubsetsOf(K)
  BY <1>1, FS_Subset DEF FiniteSubsetsOf
<1>3. PICK U \in Family :
        \A V \in Family : <<V, U>> \notin StrictSubsetOrdering(K)
  <2>1. Family \subseteq FiniteSubsetsOf(K) /\ Family # {}
    BY <1>2
  <2> HIDE DEF Family
  <2>2. QED
    BY <1>1, <2>1, FS_StrictSubsetOrderingWellFounded, WFMin
<1>4. PICK x \in K : U = Above(x)
  OBVIOUS
<1>5. ASSUME NEW y \in K, y > x
      PROVE  FALSE
  <2>1. \A z \in K : z > y => z > x
    <3>1. x \in Int /\ y \in Int /\ y > x
      BY <1>1, <1>5
    <3>2. ASSUME NEW z \in Int, z > y
          PROVE  z > x
      BY <3>1, <3>2
    <3>3. QED
      BY <1>1, <3>2
  <2>2. Above(y) \subseteq Above(x)
    BY <2>1
  <2>3. ~(y > y)
    BY <1>1, <1>5
  <2>4. y \in Above(x) /\ y \notin Above(y)
    BY <1>5, <2>3
  <2>5. <<Above(y), Above(x)>> \in StrictSubsetOrdering(K)
    BY <1>2, <2>2, <2>4 DEF StrictSubsetOrdering, FiniteSubsetsOf
  <2>6. QED
    BY <1>3, <1>4, <2>5
<1>6. \A k \in K : k <= x
  BY <1>1, <1>4, <1>5
<1>7. QED
  BY <1>4, <1>6 DEF Max

\* On SQLite, with one poller stopped for a reindex, a row whose object the log mentions
\* only below the cursor says what the log says: redelivery after an
\* interruption leaves no older verdict, stake or active intent behind
\* (poller.ts saves the cursor after a batch and replays from there).
THEOREM SettledRowsAreCurrentTheorem ==
  ASSUME OnSqlite, StartedWhole, OnePoller, OneReindexer
  PROVE  Spec => []SettledRowsAreCurrent
<1>1. Init => SettledInv
  <2> SUFFICES ASSUME Init PROVE SettledInv
    OBVIOUS
  <2>1. /\ challengeRows = {} /\ agentRows = {} /\ intentRows = {}
        /\ log = << >>
    BY DEF Init, LogInit
  <2>2. Len(log) = 0
    BY <2>1
  <2>3. \A p \in Processes :
          PC(p) = (IF p \in Pollers THEN "idle" ELSE "off")
    BY DEF Init, Idle, PC
  <2>4. OneStory
    BY <2>2 DEF OneStory
  <2>5. KnownRows /\ SettledUpTo(EndOf(lastBlock))
    BY <2>1 DEF KnownRows, SettledUpTo, ChallengesUpTo, AgentsUpTo, OwnersUpTo
  <2>6. AloneInv /\ \A p \in Processes : SettledAt(p)
    BY <2>3 DEF AloneInv, SettledAt, Processes, Waiting
  <2>7. QED
    BY <2>4, <2>5, <2>6 DEF SettledInv
<1>2. ShapeInv /\ SettledInv /\ [Next]_vars => ShapeInv' /\ SettledInv'
  BY ShapeStep, SettledStep
<1>3. ShapeInv /\ SettledInv => SettledRowsAreCurrent
  <2> SUFFICES ASSUME ShapeInv, SettledInv PROVE SettledRowsAreCurrent
    OBVIOUS
  <2>1. Len(log) \in Nat /\ SettledUpTo(EndOf(lastBlock)) /\ KnownRows
    BY HeightType DEF ShapeInv, SettledInv
  <2>2. ASSUME NEW row \in challengeRows,
               Max(ChallengeEvents(Len(log), row.challengeId)) <= EndOf(lastBlock)
        PROVE  row.status =
                 (IF log[Max(ChallengeEvents(Len(log), row.challengeId))].uphold
                  THEN "UPHELD" ELSE "REJECTED")
    <3> DEFINE K == ChallengeEvents(Len(log), row.challengeId)
    <3>1. K \subseteq 1 .. Len(log)
          /\ \A i \in 1 .. Len(log) :
               AboutChallenge(i, row.challengeId) <=> i \in K
      BY DEF ChallengeEvents, At, AboutChallenge
    <3>2. K # {}
      BY <2>1, <3>1 DEF KnownRows
    <3> HIDE DEF K
    <3>3. PICK m : m = Max(K)
      OBVIOUS
    <3>4. m \in K /\ \A i \in K : i <= m
      BY <2>1, <3>1, <3>2, <3>3, LargestIn
    <3>5. m \in 1 .. Len(log) /\ LastOfChallenge(m, row.challengeId)
      BY <2>1, <3>1, <3>4 DEF LastOfChallenge
    <3>6. m <= EndOf(lastBlock)
      BY <2>2, <3>3 DEF K
    <3>7. row.status = (IF log[m].uphold THEN "UPHELD" ELSE "REJECTED")
      BY <2>1, <3>5, <3>6 DEF SettledUpTo, ChallengesUpTo
    <3>8. QED
      BY <3>3, <3>7 DEF K
  <2>3. ASSUME NEW row \in agentRows,
               Max(StakeEvents(Len(log), row.agentId)) <= EndOf(lastBlock)
        PROVE  row.totalStake = StakeAt(Len(log), row.agentId)
    <3> DEFINE K == StakeEvents(Len(log), row.agentId)
    <3>1. K \subseteq 1 .. Len(log)
          /\ \A i \in 1 .. Len(log) : AboutAgent(i, row.agentId) <=> i \in K
      BY DEF StakeEvents, At, AboutAgent
    <3>2. K # {}
      BY <2>1, <3>1 DEF KnownRows
    <3>a. StakeAt(Len(log), row.agentId) =
            IF log[Max(K)].kind = "AgentRegistered" THEN 0
            ELSE log[Max(K)].newStake
      BY DEF StakeAt
    <3> HIDE DEF K
    <3>3. PICK m : m = Max(K)
      OBVIOUS
    <3>4. m \in K /\ \A i \in K : i <= m
      BY <2>1, <3>1, <3>2, <3>3, LargestIn
    <3>5. m \in 1 .. Len(log) /\ LastOfAgent(m, row.agentId)
      BY <2>1, <3>1, <3>4 DEF LastOfAgent
    <3>6. m <= EndOf(lastBlock)
      BY <2>3, <3>3 DEF K
    <3>7. QED
      BY <2>1, <3>3, <3>5, <3>6, <3>a DEF SettledUpTo, AgentsUpTo
  <2>4. ASSUME NEW row \in intentRows, row.active,
               Max(IntentEvents(Len(log), row.owner)) <= EndOf(lastBlock)
        PROVE  row.intentHash = ActiveAt(Len(log), row.owner)
    <3> DEFINE K == IntentEvents(Len(log), row.owner)
    <3>1. K \subseteq 1 .. Len(log)
          /\ \A i \in 1 .. Len(log) : AboutOwner(i, row.owner) <=> i \in K
      BY DEF IntentEvents, At, AboutOwner
    <3>2. K # {}
      BY <2>1, <2>4, <3>1 DEF KnownRows
    <3>a. ActiveAt(Len(log), row.owner) =
            IF K = {} \/ log[Max(K)].kind = "IntentRevoked" THEN NoIntent
            ELSE log[Max(K)].intentHash
      BY DEF ActiveAt
    <3> HIDE DEF K
    <3>3. PICK m : m = Max(K)
      OBVIOUS
    <3>4. m \in K /\ \A i \in K : i <= m
      BY <2>1, <3>1, <3>2, <3>3, LargestIn
    <3>5. m \in 1 .. Len(log) /\ LastOfOwner(m, row.owner)
      BY <2>1, <3>1, <3>4 DEF LastOfOwner
    <3>6. m <= EndOf(lastBlock)
      BY <2>4, <3>3 DEF K
    <3>7. QED
      BY <2>1, <2>4, <3>2, <3>3, <3>5, <3>6, <3>a DEF SettledUpTo, OwnersUpTo
  <2>5. QED
    BY <2>2, <2>3, <2>4 DEF SettledRowsAreCurrent
<1>4. Init => ShapeInv
  BY ShapeInit
<1>5. QED
  BY <1>1, <1>2, <1>3, <1>4, PTL DEF Spec
=============================================================================
