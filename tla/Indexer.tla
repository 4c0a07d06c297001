------------------------------- MODULE Indexer -------------------------------
(***************************************************************************)
(* The indexer: pollers that copy the contracts' events into the tables    *)
(* the API reads.  A poller reads the head, reads the cursor, then goes    *)
(* batch by batch: fetch the logs, handle them one at a time, save the     *)
(* cursor.  It may be interrupted at any of these points by an RPC error,  *)
(* a database error or a restart, and polls again from the saved cursor.   *)
(* Every store call is an await, so pollers interleave between them.  On   *)
(* Supabase a call may be refused besides: supabase-js returns its error,  *)
(* no store function looks at it, and the poller goes on.                  *)
(* A reindexer is the one-shot script that empties the tables and replays. *)
(***************************************************************************)
EXTENDS EventLog

CONSTANTS
  Pollers,        \* running pollers: in the API process and standalone
  Reindexers,     \* runs of `npm run reindex`
  ReindexAlone,   \* whether the operator stops the pollers for a reindex
  Provider,       \* the database: "sqlite" or "supabase"
  StartBlock,     \* where a fresh index starts; 0 when not configured ...
  Window,         \* ... and then this many blocks before the head
  BatchBlocks,    \* INDEXER_BATCH_BLOCKS
  MaxFaults       \* bound on interruptions and refused calls

Processes == Pollers \cup Reindexers

ASSUME IndexerAssumption ==
  /\ Pollers \cap Reindexers = {}
  /\ ReindexAlone \in BOOLEAN
  /\ Provider \in {"sqlite", "supabase"}
  /\ {StartBlock, Window, BatchBlocks, MaxFaults} \subseteq Nat

VARIABLES
  receiptRows, challengeRows, intentRows, agentRows, delegateRows,
  lastBlock,  \* meta row "indexer.last_block"; no row reads as 0
  task,       \* what each process is at
  faults,     \* interruptions and refused calls so far
  missed      \* events of which some write was refused

tables == <<receiptRows, challengeRows, intentRows, agentRows, delegateRows>>
indexVars == <<tables, lastBlock, task, faults, missed>>
vars == <<logVars, indexVars>>

\* head: toBlock; next .. upper: the batch; pos: events handled so far.
Idle == [pc |-> "idle", head |-> 0, next |-> 0, upper |-> 0, pos |-> 0]
PC(p) == task[p].pc

Init ==
  /\ LogInit
  /\ receiptRows = {}
  /\ challengeRows = {}
  /\ intentRows = {}
  /\ agentRows = {}
  /\ delegateRows = {}
  /\ lastBlock = 0
  /\ task = [p \in Processes |->
       IF p \in Pollers THEN Idle ELSE [Idle EXCEPT !.pc = "off"]]
  /\ faults = 0
  /\ missed = {}

----------------------------------------------------------------------------
(* The store.                                                              *)

UpsertReceipt(r) ==
  IF \E row \in receiptRows : row.receiptId = r
  THEN UNCHANGED receiptRows
  ELSE receiptRows' = receiptRows \cup {[receiptId |-> r, hasTrace |-> FALSE]}

SetReceiptTraceUri(r) ==
  receiptRows' = {IF row.receiptId = r THEN [row EXCEPT !.hasTrace = TRUE]
                  ELSE row : row \in receiptRows}

\* On conflict SQLite's statement leaves the status alone; Supabase's upsert
\* writes every column it is given.
StatusOnConflict(old) == IF Provider = "sqlite" THEN old ELSE "FILED"

UpsertChallengeFiled(c, r) ==
  LET same == {row \in challengeRows : row.challengeId = c}
  IN  challengeRows' = (challengeRows \ same) \cup
        {[challengeId |-> c, receiptId |-> r,
          status |-> IF same = {} THEN "FILED"
                     ELSE StatusOnConflict((CHOOSE row \in same : TRUE).status)]}

ResolveChallenge(c, uphold) ==
  challengeRows' =
    {IF row.challengeId = c
     THEN [row EXCEPT !.status = IF uphold THEN "UPHELD" ELSE "REJECTED"]
     ELSE row : row \in challengeRows}

LeftActive(o) == intentRows
Deactivated(o) ==
  {IF row.owner = o THEN [row EXCEPT !.active = FALSE] ELSE row :
     row \in intentRows}

InsertIgnore(rows, o, h) ==
  IF \E row \in rows : row.intentHash = h THEN rows
  ELSE rows \cup {[intentHash |-> h, owner |-> o, active |-> TRUE]}

UpsertAgentRegistered(a) ==
  IF Provider = "sqlite" /\ \E row \in agentRows : row.agentId = a
  THEN UNCHANGED agentRows
  ELSE agentRows' = {row \in agentRows : row.agentId # a}
                      \cup {[agentId |-> a, totalStake |-> 0]}

ApplyStakeIncrease(a, newStake) ==
  agentRows' = {IF row.agentId = a THEN [row EXCEPT !.totalStake = newStake]
                ELSE row : row \in agentRows}

----------------------------------------------------------------------------
(* handleLog: one event, the store calls it makes, then the next event.    *)

HasNext(p) == PC(p) = "handle" /\ task[p].pos < EndOf(task[p].upper)
NextEvent(p) == log[task[p].pos + 1]
Handled(p) == task' = [task EXCEPT ![p].pc = "handle", ![p].pos = @ + 1]

HandleActionReceipt(p) ==
  /\ HasNext(p) /\ NextEvent(p).kind = "ActionReceipt"
  /\ UpsertReceipt(NextEvent(p).receiptId)
  /\ Handled(p)
  /\ UNCHANGED <<challengeRows, intentRows, agentRows, delegateRows, lastBlock,
                 faults, missed, logVars>>

HandleTraceURIStored(p) ==
  /\ HasNext(p) /\ NextEvent(p).kind = "TraceURIStored"
  /\ SetReceiptTraceUri(NextEvent(p).receiptId)
  /\ Handled(p)
  /\ UNCHANGED <<challengeRows, intentRows, agentRows, delegateRows, lastBlock,
                 faults, missed, logVars>>

HandleChallengeFiled(p) ==
  /\ HasNext(p) /\ NextEvent(p).kind = "ChallengeFiled"
  /\ UpsertChallengeFiled(NextEvent(p).challengeId, NextEvent(p).receiptId)
  /\ Handled(p)
  /\ UNCHANGED <<receiptRows, intentRows, agentRows, delegateRows, lastBlock,
                 faults, missed, logVars>>

HandleChallengeResolved(p) ==
  /\ HasNext(p) /\ NextEvent(p).kind = "ChallengeResolved"
  /\ ResolveChallenge(NextEvent(p).challengeId, NextEvent(p).uphold)
  /\ Handled(p)
  /\ UNCHANGED <<receiptRows, intentRows, agentRows, delegateRows, lastBlock,
                 faults, missed, logVars>>

\* One SQLite transaction; two Supabase calls.
HandleIntentCommitted(p) ==
  LET e == NextEvent(p) IN
  /\ HasNext(p) /\ e.kind = "IntentCommitted"
  /\ IF Provider = "sqlite"
     THEN /\ intentRows' = InsertIgnore(Deactivated(e.owner), e.owner,
                                        e.intentHash)
          /\ Handled(p)
     ELSE /\ intentRows' = Deactivated(e.owner)
          /\ task' = [task EXCEPT ![p].pc = "insertIntent"]
  /\ UNCHANGED <<receiptRows, challengeRows, agentRows, delegateRows, lastBlock,
                 faults, missed, logVars>>

InsertIntent(p) ==
  LET e == NextEvent(p) IN
  /\ PC(p) = "insertIntent"
  /\ intentRows' = InsertIgnore(intentRows, e.owner, e.intentHash)
  /\ Handled(p)
  /\ UNCHANGED <<receiptRows, challengeRows, agentRows, delegateRows, lastBlock,
                 faults, missed, logVars>>

HandleIntentRevoked(p) ==
  /\ HasNext(p) /\ NextEvent(p).kind = "IntentRevoked"
  /\ intentRows' = Deactivated(NextEvent(p).owner)
  /\ Handled(p)
  /\ UNCHANGED <<receiptRows, challengeRows, agentRows, delegateRows, lastBlock,
                 faults, missed, logVars>>

HandleAgentRegistered(p) ==
  /\ HasNext(p) /\ NextEvent(p).kind = "AgentRegistered"
  /\ UpsertAgentRegistered(NextEvent(p).agentId)
  /\ Handled(p)
  /\ UNCHANGED <<receiptRows, challengeRows, intentRows, delegateRows, lastBlock,
                 faults, missed, logVars>>

HandleAgentStaked(p) ==
  /\ HasNext(p) /\ NextEvent(p).kind = "AgentStaked"
  /\ ApplyStakeIncrease(NextEvent(p).agentId, NextEvent(p).newStake)
  /\ Handled(p)
  /\ UNCHANGED <<receiptRows, challengeRows, intentRows, delegateRows, lastBlock,
                 faults, missed, logVars>>

\* One row per event: its key holds the transaction and the log index.
HandleAgentDelegateSet(p) ==
  /\ HasNext(p) /\ NextEvent(p).kind = "AgentDelegateSet"
  /\ delegateRows' = delegateRows \cup {task[p].pos + 1}
  /\ Handled(p)
  /\ UNCHANGED <<receiptRows, challengeRows, intentRows, agentRows, lastBlock,
                 faults, missed, logVars>>

HandleLog(p) ==
  \/ HandleActionReceipt(p)
  \/ HandleTraceURIStored(p)
  \/ HandleChallengeFiled(p)
  \/ HandleChallengeResolved(p)
  \/ HandleIntentCommitted(p)
  \/ InsertIntent(p)
  \/ HandleIntentRevoked(p)
  \/ HandleAgentRegistered(p)
  \/ HandleAgentStaked(p)
  \/ HandleAgentDelegateSet(p)

Refusal ==
  /\ Provider = "supabase"
  /\ faults < MaxFaults
  /\ faults' = faults + 1

\* The error of a refused write is returned and ignored: the handler goes on to
\* its next call, or the poller to the next event.
RefusedWrite(p) ==
  /\ HasNext(p) \/ PC(p) = "insertIntent"
  /\ Refusal
  /\ missed' = missed \cup {task[p].pos + 1}
  /\ IF HasNext(p) /\ NextEvent(p).kind = "IntentCommitted"
     THEN task' = [task EXCEPT ![p].pc = "insertIntent"]
     ELSE Handled(p)
  /\ UNCHANGED <<tables, lastBlock, logVars>>

----------------------------------------------------------------------------
(* The poller.                                                             *)

Reindexing == \E r \in Reindexers : PC(r) \notin {"off", "done", "failed"}
Waiting(p) == PC(p) \in {"idle", "off", "done", "failed"}
Resting(p) ==
  IF p \in Pollers THEN Idle
  ELSE [Idle EXCEPT !.pc = "done", !.head = task[p].head]

\* catchUp: the head first ...
ReadHead(p) ==
  /\ PC(p) = "idle"
  /\ (ReindexAlone /\ p \in Pollers) => ~Reindexing
  /\ task' = [task EXCEPT ![p] = [Idle EXCEPT !.pc = "cursor", !.head = Height]]
  /\ UNCHANGED <<tables, lastBlock, faults, missed, logVars>>

ResumeSkipping(last) == last + 2
Resume(last) == last + 1

\* resolveStartBlock. The fallback asks for the head again.
FirstBlock(last) ==
  IF last > 0 THEN Resume(last)
  ELSE IF StartBlock > 0 THEN StartBlock
  ELSE IF Height > Window THEN Height - Window ELSE 0

\* ... then the cursor. indexRange returns at once on an empty range.
IndexFrom(p, first) ==
  task' = [task EXCEPT ![p] =
    IF first > @.head THEN Resting(p)
    ELSE [@ EXCEPT !.pc = "fetch", !.next = first]]

ReadCursor(p) ==
  /\ PC(p) = "cursor"
  /\ IndexFrom(p, FirstBlock(lastBlock))
  /\ UNCHANGED <<tables, lastBlock, faults, missed, logVars>>

\* getMeta answers a refused read as it answers a missing row.
MisreadCursor(p) ==
  /\ PC(p) = "cursor"
  /\ Refusal
  /\ IndexFrom(p, FirstBlock(0))
  /\ UNCHANGED <<tables, lastBlock, missed, logVars>>

\* getLogs for blocks next .. upper.
FetchBatch(p) ==
  /\ PC(p) = "fetch"
  /\ task' = [task EXCEPT ![p] =
       [@ EXCEPT !.pc = "handle",
                 !.upper = Min({task[p].next + BatchBlocks, task[p].head}),
                 !.pos = EndOf(task[p].next - 1)]]
  /\ UNCHANGED <<tables, lastBlock, faults, missed, logVars>>

SavedHead(p) == task[p].head
SavedCursor(p) == task[p].upper
AfterBatchSkipping(p) == task[p].upper + 2
AfterBatch(p) == task[p].upper + 1

\* The batch is handled: save the cursor, go on or be done.
BatchHandled(p) == PC(p) = "handle" /\ task[p].pos = EndOf(task[p].upper)

SaveCursor(p) ==
  /\ BatchHandled(p)
  /\ lastBlock' = SavedCursor(p)
  /\ IndexFrom(p, AfterBatch(p))
  /\ UNCHANGED <<tables, faults, missed, logVars>>

\* setMeta was refused: the poller is past the batch, the cursor is not.
RefusedCursor(p) ==
  /\ BatchHandled(p)
  /\ Refusal
  /\ IndexFrom(p, AfterBatch(p))
  /\ UNCHANGED <<tables, lastBlock, missed, logVars>>

\* An error thrown inside catchUp, or a restart. The loop polls again; the
\* reindex script exits.
Interrupt(p) ==
  /\ ~Waiting(p)
  /\ faults < MaxFaults
  /\ faults' = faults + 1
  /\ task' = [task EXCEPT ![p] =
       IF p \in Pollers THEN Idle ELSE [Idle EXCEPT !.pc = "failed"]]
  /\ UNCHANGED <<tables, lastBlock, missed, logVars>>

\* scripts/reindex.ts: empty the indexed tables (SQLite drops the cursor in
\* the same transaction; Supabase's calls, which may be refused here too, are
\* in no instance and in no theorem) ...
Truncate(r) ==
  /\ PC(r) = "off"
  /\ ReindexAlone => \A q \in Processes \ {r} : Waiting(q)
  /\ receiptRows' = {}
  /\ challengeRows' = {}
  /\ intentRows' = {}
  /\ agentRows' = {}
  /\ delegateRows' = {}
  /\ lastBlock' = IF Provider = "sqlite" THEN 0 ELSE lastBlock
  /\ task' = [task EXCEPT ![r].pc = "reset"]
  /\ UNCHANGED <<faults, missed, logVars>>

\* ... then reindexFromGenesis: set the cursor to 0 and catch up once.
ResetCursor(r) ==
  /\ PC(r) = "reset"
  /\ lastBlock' = 0
  /\ task' = [task EXCEPT ![r] = Idle]
  /\ UNCHANGED <<tables, faults, missed, logVars>>

Mine == LogNext /\ UNCHANGED indexVars

PollerStep(p) ==
  \/ ReadHead(p)
  \/ ReadCursor(p)
  \/ FetchBatch(p)
  \/ HandleLog(p)
  \/ SaveCursor(p)

Next ==
  \/ Mine
  \/ \E p \in Processes : PollerStep(p) \/ Interrupt(p)
  \/ \E p \in Processes : RefusedWrite(p) \/ MisreadCursor(p) \/ RefusedCursor(p)
  \/ \E r \in Reindexers : Truncate(r) \/ ResetCursor(r)

Spec == Init /\ [][Next]_vars

\* The poll loop never gives up, and a reindex that was started runs to its end:
\* a step that stays possible is taken.
FairSpec ==
  /\ Spec
  /\ \A p \in Processes : WF_vars(PollerStep(p))
  /\ \A r \in Reindexers : WF_vars(ResetCursor(r))
=============================================================================
