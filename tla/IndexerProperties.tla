-------------------------- MODULE IndexerProperties --------------------------
(***************************************************************************)
(* What the tables owe the API: nothing missing below the cursor, nothing  *)
(* stale below it, no settled challenge reopened, and the head reached.    *)
(***************************************************************************)
EXTENDS Indexer

\* The tables hold rows of their shape, the cursor is a block that exists and
\* no process works past the head it read.
IndexTypeOK ==
  /\ LogTypeOK
  /\ receiptRows \subseteq [receiptId : Receipts, hasTrace : BOOLEAN]
  /\ challengeRows \subseteq
       [challengeId : 1 .. MaxChallenges, receiptId : Receipts,
        status : {"FILED", "UPHELD", "REJECTED"}]
  /\ intentRows \subseteq
       [intentHash : IntentHashes, owner : Owners, active : BOOLEAN]
  /\ agentRows \subseteq [agentId : Agents, totalStake : Nat]
  /\ delegateRows \subseteq 1 .. Len(log)
  /\ lastBlock \in 0 .. Height
  /\ \A p \in Processes : task[p].upper <= task[p].head /\ task[p].head <= Height
  /\ faults \in 0 .. MaxFaults
  /\ missed \subseteq 1 .. Len(log)

HasReceipt(r) == \E row \in receiptRows : row.receiptId = r
HasTraceURI(r) == \E row \in receiptRows : row.receiptId = r /\ row.hasTrace
HasChallenge(c) == \E row \in challengeRows : row.challengeId = c
HasIntent(h) == \E row \in intentRows : row.intentHash = h
HasAgent(a) == \E row \in agentRows : row.agentId = a

\* Event i has left its row in the tables.
Stored(i) ==
  /\ log[i].kind = "ActionReceipt" => HasReceipt(log[i].receiptId)
  /\ log[i].kind = "TraceURIStored" => HasTraceURI(log[i].receiptId)
  /\ log[i].kind = "ChallengeFiled" => HasChallenge(log[i].challengeId)
  /\ log[i].kind = "IntentCommitted" => HasIntent(log[i].intentHash)
  /\ log[i].kind = "AgentRegistered" => HasAgent(log[i].agentId)
  /\ log[i].kind = "AgentDelegateSet" => i \in delegateRows

\* A refused write explains the gap: the event's own, or for a trace URI that of
\* the receipt before it, whose row is what it updates.
Excused(i) ==
  \/ i \in missed
  \/ log[i].kind = "TraceURIStored" /\ i - 1 \in missed
Accounted(i) == Stored(i) \/ Excused(i)

\* Resuming at cursor + 1 loses nothing: whatever crash, error, misread cursor or
\* second poller intervenes, every event in a block up to the saved cursor has
\* its row, and every receipt there its trace URI (poller.ts saves the cursor
\* after the batch's last handler). What Supabase refused to write is missing
\* for good, and takes nothing with it but the trace URI of a missing receipt.
NothingBelowCursorMissing == \A i \in 1 .. EndOf(lastBlock) : Accounted(i)

\* Where the log mentions an object only below the cursor, its row says what
\* the log says of it: a challenge's last verdict, an agent's last stake; and
\* an intent row shown active is the owner's active intent. Redelivered events
\* never leave an older value behind.
SettledRowsAreCurrent ==
  /\ \A row \in challengeRows :
       LET K == ChallengeEvents(Len(log), row.challengeId) IN
       Max(K) <= EndOf(lastBlock) =>
         row.status = (IF log[Max(K)].uphold THEN "UPHELD" ELSE "REJECTED")
  /\ \A row \in agentRows :
       Max(StakeEvents(Len(log), row.agentId)) <= EndOf(lastBlock) =>
         row.totalStake = StakeAt(Len(log), row.agentId)
  /\ \A row \in intentRows :
       row.active /\ Max(IntentEvents(Len(log), row.owner)) <= EndOf(lastBlock) =>
         row.intentHash = ActiveAt(Len(log), row.owner)

IsActive(h) == \E row \in intentRows : row.intentHash = h /\ row.active

\* getActiveIntent picks among an owner's active rows: there is never a choice,
\* even with two pollers inside insertIntentCommitted at once. Two intents of an
\* owner are shown active only where Supabase refused a write of one of the two
\* commits: no other refusal, of a revocation for one, does it.
AtMostOneActiveIntent ==
  \A i, j \in At(Len(log), {"IntentCommitted"}) :
    /\ i # j
    /\ log[i].owner = log[j].owner
    /\ IsActive(log[i].intentHash)
    /\ IsActive(log[j].intentHash)
    => i \in missed \/ j \in missed

KeepsVerdicts ==
  challengeRows' # {} =>
    \A row \in challengeRows :
      row.status # "FILED" =>
        \E later \in challengeRows' :
          later.challengeId = row.challengeId /\ later.status # "FILED"

\* "Idempotent: tx_hash + log_index keys protect against double-inserts when
\* reindexing" (decoder.ts:48-49): once a challenge row shows a verdict no later
\* step takes it back to FILED, redelivery of its ChallengeFiled event included,
\* but for a reindex, which empties the table. So it is on SQLite, whose ON
\* CONFLICT clause leaves the status alone; Supabase's upsert writes it.
VerdictIsKept == [][KeepsVerdicts]_challengeRows

\* Every block is eventually indexed, finitely many interruptions
\* notwithstanding (the poll loop catches every error and polls again).
CatchesUp == \A b \in 1 .. MaxBlocks : (Height >= b) ~> (lastBlock >= b)

\* When a reindex has ended, every event up to the head it read has its row
\* ("Re-pull every event from chain", INFRA-README.md).
ReindexRepullsEverything ==
  \A r \in Reindexers :
    PC(r) = "done" => \A i \in 1 .. EndOf(task[r].head) : Stored(i)

\* An index that has caught up shows every owner's active intent as active
\* ("idempotent reindexing safe", 00001_initial_schema.sql).
ActiveIntentIsShown ==
  (\A p \in Processes : Waiting(p)) /\ lastBlock = Height =>
    \A o \in Owners :
      ActiveAt(Len(log), o) # NoIntent =>
        \E row \in intentRows :
          row.intentHash = ActiveAt(Len(log), o) /\ row.active
=============================================================================
