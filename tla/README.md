# A TLA+ development of Vault (IntentGuard)

Vault lets a user hand an AI agent a bounded right to spend USDC. Five Solidity
contracts enforce the bounds and pay compensation out of the agent operator's
stake; a TypeScript service ("infra") indexes the contracts' events, signs
attestations of decision traces and serves a read model; demo agents, a
demo-control service and a web application use both. This directory models the
contracts, the indexer, the trace service with the agents, the executions API,
the sign-in with the onboarding, the challenge desk and the demo; model-checks
them with TLC; and proves with TLAPS, for every value of the constants, each
safety property that the passing runs check.

## 1. The system

| Component | State it keeps | Operations | Hard behaviour |
|---|---|---|---|
| `IntentRegistry.sol` | active intent per owner, config per intent hash, last nonce | commit, revoke | replacing intents while old receipts can still be disputed |
| `StakeVault.sol` | stake per agent, one USDC balance for all | one-shot wiring, deposit, slash | partial slashes, solvency across agents |
| `AgentRegistry.sol` | operator per agent | register, stake, challenge window | the window depends on the stake at challenge time |
| `GuardedExecutor.sol` | delegates, spent per owner and day, execution nonce, receipts, ack signer | execute with guard, set delegate, set signer | one day counter for all agents and intents; boundaries of expiry, day and ack |
| `ChallengeArbiter.sol` | challenges, next id, reviewer signer | file amount violation, resolve by reviewer | slash, payout and bond in one transaction; verdicts on unfiled ids; repeated challenges |
| Indexer (`services/infra/src/indexer`, `store`) | tables of receipts, challenges, intents, agents, delegates; a cursor | poll, fetch a batch, handle an event, save the cursor, reindex | restarts in the middle of a batch, redelivery, two pollers, a reindex beside a poller; writes and cursor reads that Supabase refuses and nobody looks at |
| Trace and manifest service, signer, pinning | cached acks, manifests | pin, sign, answer from the cache | expiry of a cached ack, concurrent posts, key rotation, dropped writes |
| Agents, trace package | none | read the intent, upload, preflight, simulate, send, wait | state changes between any two calls; a lost wait and the next try |
| Executions API, screening | execution rows | create, check, screen, answer, announce | an error between two updates of a row; preflight and execution apart in time; a refused read that passes for "no manifest" |
| Authentication | nonces, sessions, partner keys | issue, verify, authenticate | late answers while the wallet changes; a nonce whose mark was refused |
| Web: onboarding | flags in `localStorage`, three transactions in flight | login, five steps, dashboard gate | handlers that outlive their page, account changes under a transaction |
| Read-model API, challenge preparation, web: receipt page, status panel, review queue | none (reads the index) | feed, receipt, prepare, file, follow, decide | three answers to one question, retries over a lagging index, a page left while its handler runs on |
| Summaries | cached summaries | load | a resolution, or a redelivered event, while the model answers |
| demo-control, demo-status poller | the last run in one slot; blocked attempts | start, finish, poll | overlapping runs share the slot; look, then insert |
| Web: demo console and theater | phase, mode and timer of the theater | dispatch, play, pause, step, replay | a scripted timer against a real result |
| mock-x402, bootstrap and deployment scripts, configuration | none of interest | | |

Interactions. Owners, operators, delegates and challengers send transactions.
`AgentRegistry.stake` calls `StakeVault.deposit`; `GuardedExecutor` reads the
intent from `IntentRegistry`; `ChallengeArbiter` reads the receipt, the window
and the config from the three others and calls `StakeVault.slash`. The trace
service's signature (TraceAck) is an input of `executeWithGuard`. The contracts'
events are the only thing the indexer sees; the API reads only the indexer's
tables; the pages read the API and, for what they send, the chain. demo-control
runs the agents; its slot is polled by the dashboards and by infra.
`PROJECT.json` lists every component with its status and, under `hazards`, what
in this code is hard to test, line by line, with the properties that cover it.

What makes each part correct: the registry never brings an old intent back; the
executor never lets a day exceed its cap and keeps receipts that can be judged
later; the vault can always pay all stakes; the arbiter moves stake only for an
overspend and exactly the right amount; the index loses no event below its
cursor but those whose write was refused, keeps no older value, and reaches the
head; an agent reports only
payments of its own, and what it paid for can be replayed; rows, answers and
announcements of an execution agree; a token is served as the connected wallet
only; onboarding neither invents nor loses progress; the read models agree, and
a receipt is challenged twice only by a blind retry; the demo shows no run's
result as another's, and no end before there is one.

## 2. Modules

**Contracts.** `GuardTypes` (structs, constants, assumptions on the constants) and
`Chain` (block time and USDC ledger) are below `IntentRegistry`, `StakeVault`,
`AgentRegistry`, `GuardedExecutor`, `ChallengeArbiter`, one per contract; each
extends the ones it calls, as the contracts hold references to each other.
`VaultProtocol` composes them: a step is one transaction, executed to its end or
reverted, or time passing. An action's conjuncts are the function's `require`s
and reverts, `x'` its assignments; a call into another contract is that
contract's operator applied inside the action (the balance after the bond
transfer is what `Slash` receives, and so on), because a revert anywhere undoes
everything. Reentrancy is excluded by `nonReentrant` and by USDC, which calls
nobody. `VaultProperties` states the properties, `MCVaultProtocol` the instances.

Hashes, URIs and signatures are members of small sets. A TraceAck carries the key
that signed it and what the signature covers; a receipt id is the tuple that is
hashed; `callDataHash`, `manifestURI`, `metadataURI`, reputation are left out since
nothing reads them. Addresses in `allowedCounterparties` form a set. The contracts'
events are kept only where a property speaks of them (`events` in
`ChallengeArbiter`).

**Abstract escrow.** `StakeEscrow` says what all of this is for, without the
contracts: agents put stake in escrow, payments are recorded for good, an
overspent one is a claim that is settled once per claim, for as much of it as the
escrow holds, and nothing else takes from the escrow. `VaultRefinement` maps the
contracts to it: its payments are the receipts judged by their own config, the escrow
is `stake`, the settled claims are read off the arbiter's `ChallengeResolved`
events, so what the indexer is told is part of the promise.

**Indexer.** `EventLog` is the chain as `getLogs` shows it: a sequence of events, cut
into blocks, in the orders the contracts permit (an intent hash once, a stake
only for a registered agent, a filed challenge settled in the same transaction, a
reviewer verdict only on an id not filed yet). `Indexer` has the tables as sets
of rows, the cursor `lastBlock`, and for every process a record of where it is in
`catchUp`: reading the head, reading the cursor, fetching, handling, saving. One
action per kind of event stands for `handleLog` and the store function it awaits;
each await ends a step, so two processes interleave there, and
`insertIntentCommitted` takes two steps on Supabase and one (a transaction) on
SQLite. The differences between the providers' conflict clauses are modelled
(`StatusOnConflict`, `UpsertAgentRegistered`). `Interrupt` is any thrown error
or restart. supabase-js returns its errors instead of throwing them, and no store
function looks: on Supabase any write may be dropped with the poller going on
(`RefusedWrite`; `missed` remembers of which events, for the properties only), a
read of the cursor may find none (`MisreadCursor`), and a cursor may go unsaved
(`RefusedCursor`). `Truncate` and `ResetCursor` are `scripts/reindex.ts`.
`IndexerProperties` states the properties.

**Traces and agents.** `TraceService` is `POST /v1/traces`: look in the table, pin,
sign, store, one step per await, with the key the process was started with, a
write that Supabase drops without throwing, a call that throws, and a restart with
a new key. `AgentFlow` composes it with `GuardedExecutor`: a run reads the active
intent, uploads its trace, preflights (`checkGuard`), simulates, sends and waits;
transactions sit in a mempool until they are mined or revert; a wait may be lost
with its transaction still to be mined, and the run be started again; the owner
commits, revokes and changes delegates meanwhile, and the deployer follows a key
rotation. The digest of a trace is the tuple of its content.

**Executions.** `Executions` follows each request of `POST /v1/executions` from the
inserted row over the deterministic checks and the advisory screening (hard mode
or not) to the updated row, the answer and the announcement to the subscribers of
`GET /v1/events`; preflights take the same path without a row. Any of the store's
calls may be refused unnoticed: a write is dropped (`lost`), and a manifest that is
there reads as none (`misread`), with which `runDeterministicChecks` passes.

**Sign-in and onboarding.** `Sessions` has the browser's automatic sign-in
(`useSiweAuth`, `AuthSessionBootstrap`), the server's nonces and sessions, partner
keys and what the routes make of them; every sign-in is a flight whose answers may
come after the wallet moved on. A nonce expires, is deleted with the account's
expired ones when the next is issued (`Cleaned`), or stays unmarked under the
session issued on it (`Unwritten`). `Onboarding` extends it with the login page, the
five steps of the wizard, the transactions of its widgets (commit with its pinned
manifest, USDC approval, delegate), the dashboard gate, and the flags written to
`localStorage`; its `ASSUME` says that the service accepts every rules form that
the builder lets through, up to the slots the form has.

**Challenge desk.** `Summaries` is the cache of advisory summaries over what the store
holds of a reference. `ChallengeDesk` extends it with the chain of filings and the
index: a cursor into the log of receipts, filings and verdicts, which handles them in
order, falls back to an earlier place when the indexer restarts, and drops a write that
is refused. As the provider is Supabase, a filing that is handled again sets its row
back to FILED until its verdict is handled again. Then the three places that decide
whether a receipt may be challenged (feed, receipt page, preparation), the tab that
prepares, approves, files, waits and looks for its challenge, the status panel, and the
review page. A tab may follow a link away from the receipt (`Leave`: the page's state is
gone, the handler runs on and may still send) or be reloaded (`Reload`: the handler is
gone as well).

**Demo.** `DemoControl` is the single slot, the flow of each run, the dashboards'
`waitForDemoScenario` and infra's `DemoStatusPoller` with `blocked_attempts`, whose
look-up takes a refused read for no row (`MisreadExists`). `DemoTheater` adds the
phase machine of the theater with its timer, and what stage and decision panel read
off phase and result.

Definitions named after a mistake (`CapCheckedBefore`, `SavedHead`, `LeftActive`,
`AwaitedByRun`, ...) are not part of the specification: each is a plausible bug,
kept to demonstrate that a property would catch it.

Every module states its type invariant beside its variables. `TypeOK` is part of
a run and proved; `IndexTypeOK`, `FlowTypeOK`, `ExecTypeOK`, `SessionTypeOK` with
`WizardTypeOK`, and `DeskTypeOK` are proved; any of them can be added to its
module's cfg as an `INVARIANT`.

**Proofs** are in modules of their own: `VaultProofs` (registry, executor, typing)
and `RecourseProofs` (stake, challenges, the escrow's refinement) about
`VaultProtocol`; `IndexerProofs`, `AgentFlowProofs`, `ExecutionsProofs`,
`OnboardingProofs` (with `Sessions`), `DemoProofs` (control and theater) and
`DeskProofs` (with `Summaries`) about the module they are named after.

## 3. Runs

All runs but `desk` and `status_panel` set `CHECK_DEADLOCK FALSE`: time, executions,
blocks, requests and faults are bounded, so the bounded system may stop.

| Run | Instance | Shows |
|---|---|---|
| `payments` | 2 owners, 2 agents, four configs with nonces, caps, expiries and another token, 2 days, acks that expire, a rotated signer, 2 executions | `ReceiptsFormOneHistory`, `SpentIsWhatReceiptsSay`, `DayTotalWithinCap`, `ActiveIntentIsNewest`, `ReceiptsHonourTheirIntent`, `EvidenceIsFinal` |
| `recourse` | overspends of 2 agents, stakes 1 and 2, 2 challenges, window 1, verdicts | `TypeOK`, `VaultIsSolvent`, `StakeFallsOnlyForOverspend`, `ChallengeSettlesExactly`, `ImplementsEscrow` |
| `index` | an SQLite poller and a reindex while it waits, every chain of 3 blocks, 2 interruptions | `SettledRowsAreCurrent`, `ReindexRepullsEverything`, `CatchesUp` |
| `index_pair` | 2 pollers on Supabase, 3 blocks, 1 fault (an interruption, a refused write, a cursor misread or unsaved) | `NothingBelowCursorMissing`, `AtMostOneActiveIntent` |
| `agents` | 2 agents of one owner whose two payments exceed the day's cap, one tried twice, 2 days, TTL 1, one owner transaction, one mishap | `ReceiptIsReplayable`, `ReportedPaymentIsReal`, `PaidInTheEnd` |
| `executions` | 2 requests of 2 owners, one perhaps after a preflight of the same input, one subscriber, an expiry, one crash, dropped write or refused read | `AnswerIsTheRow`, `BlockedPreflightStaysBlocked`, `BlockedIsAnnounced`, `RowsSettle` |
| `sessions` | 2 accounts, 1 partner key, sign-ins and the whole onboarding within 4 events | `ServedAsWallet`, `SessionIsSigned`, `FlagsAreEarned`, `ProgressIsKept`, `SignInSettles`, `WizardMovesOn` |
| `desk` | 1 overspent receipt, 2 filings that take the agent below its tier, one tab, one fault (a refused call of the store or a restart of the indexer), two clicks or summary loads | `SummaryOfItsEvidence`, `ReadModelsAgree`, `SecondFilingIsBlind`, `QueueDrains` |
| `demo` | 1 dashboard with its theater, 2 overlapping runs, 1 poller, 1 fault (a restart, a lost request, a refused look-up) | `ResultIsOwn`, `TerminalAwaitsResult`, `BlockedIsRecorded`, `SpinnerEnds`, `TheaterSettles` |

Three runs show a disagreement between the code and what its comments, migrations or
pages say; each ends in a counterexample:

- `redelivery` (`ActiveIntentIsShown`): handling `IntentCommitted` twice deactivates
  the intent and then ignores the insert; the active intent stays inactive in the
  index, although `handleLog` is documented as idempotent.
- `verdict_reset` (`VerdictIsKept`): on Supabase, the production provider, handling
  `ChallengeFiled` a second time takes a resolved challenge back to FILED. On SQLite it
  does not, which `VerdictIsKeptTheorem` proves.
- `status_panel` (`PanelUpdates`): the page says that the panel of a filing whose id the
  feed did not show in time will update by itself; it asks for the challenge "pending",
  is refused with 400 and never asks again. The run has no faults, and every page goes
  on with what it has begun.

**Bounds and why they suffice.** The contracts' hazards need two intents of one
owner, two agents that share an owner's counters, two days, two receipts of one
agent with a slash that exhausts the stake, and one challenge more than the stake
can pay for; the runs contain each. In `payments` an amount of 2 meets a day cap of 4,
into which the second payment of a day fits exactly, and one of 3, into which it just
does not, the counter being shared by both intents; an expiry and an ack's end fall on
a time at which payments are made. `DAY`, window and bond are shrunk to units of the model's
clock. For the indexer every kind of event occurs in every order the chain permits;
three blocks with batches of two (`BatchBlocks = 1`, as `cursor + batchSize` is
inclusive) put the head inside, at the end of and beyond a batch, and two
interruptions let a redelivered batch be interrupted again; on Supabase one fault is
one of any kind at any call, and the theorems are for any number. In `agents` three
executions are one per try; with `TTL = 1` an ack dies while a run is between two
calls, `MaxTime = 2` puts the day's boundary inside the run, and rotation happens
only while the clock still outlasts the acks of the old key (else the end of the
clock, not the code, would stop the run). In `sessions` four events
(wallet changes, faults, transactions) pay for an overlap of two handlers with an
account change in each of them. Some losses take five: commit, approve with the wait
lost after mining, commit again from the policy step that is still open, the allowance
read, and the second commit's flags written back over it. The safety properties were
checked once with `MaxEvents = 5` (12.8 million states, 21 minutes) and are proved for
any number. That loss is one `contested` names, and the only one that can keep the
second half of `WizardMovesOn` from happening: elsewhere it follows from `NotifyApproved`
and `ProgressIsKept`. In `desk` two filings of one receipt are what a double filing
takes, and `MaxUses = 2` is shared by attempts and summary loads. Two runs are enough to
overlap in demo-control's slot; a third adds only another overwriting.

**Fairness.** None for the contracts: nobody is obliged to send a transaction.

- `CatchesUp`: weak fairness of each poller's next step. `loop()` catches every
  error and polls again, and the supervisor restarts it; interruptions are bounded,
  so RPC and database work in the end.
- `PaidInTheEnd`: blocks come, transactions in the mempool are mined, the deployer
  follows a rotation, and each run with its own request goes on (including that its
  operator starts it again). The owner need not act.
- `RowsSettle`: one weak fairness for all handlers together, as Node has one thread.
- `SignInSettles`, `WizardMovesOn`: the wallet answers and the server serves (weak
  fairness per sign-in), React runs the effects of the page; an effect runs right
  after the render that calls for it, which is why `NetworkAdvance` gets strong
  fairness: clicks do not put it off for ever. Nobody is obliged to click.
- `QueueDrains`: the indexer handles what the log holds, the review page polls
  (`FairSpec`). `PanelUpdates`: besides, each page goes on with its attempts and with
  what its status panel asks (`DeskFairSpec`).
- `BlockedIsRecorded`, `SpinnerEnds`, `TheaterSettles`: requests arrive, flows end, the
  poller ticks, timers of a theater fire.

## 4. Proofs

### Contracts

`VaultProofs` and `RecourseProofs` prove for all constants that satisfy the named
assumptions of `GuardTypes`, `Chain` and `IntentRegistry` (the contracts' addresses
differ and send no transactions, inputs have their types, balances are natural
numbers, agent ids are finitely many, as `bytes32` are):

| Theorem | Property | Argument |
|---|---|---|
| `TypeCorrect` | `TypeOK` | inductive; amounts never negative because every transfer and slash is guarded |
| `NewestIntentIsActive` | `ActiveIntentIsNewest` | from `RegistryInv`: committed nonces are at most the owner's last, the active one is the last |
| `EvidenceStaysFinal` | `EvidenceIsFinal` | `HistoryInv` makes a new receipt id fresh; `RegistryInv` a used hash unusable |
| `ReceiptsAreHonoured` | `ReceiptsHonourTheirIntent` | the guard at execution, kept by `EvidenceIsFinal`'s step lemma |
| `DayCapHolds` | `DayTotalWithinCap` | the receipt just written is the witness |
| `OneHistory` | `ReceiptsFormOneHistory` | `HistoryInv` and `NonceOrder` |
| `SpentIsTheSum` | `SpentIsWhatReceiptsSay` | an execution adds one new receipt to one day's sum, and its amount to that day's counter |
| `VaultStaysSolvent` | `VaultIsSolvent` | each transaction changes the sum of the stakes by what it changes the vault's balance by, or less |
| `StakeIsSafe` | `StakeFallsOnlyForOverspend` | `ResolvableIsEmpty`: a challenge a reviewer can still resolve has no receipt, so its slash would pay address(0) and reverts |
| `SettlementIsExact` | `ChallengeSettlesExactly` | the bond's way out and back cancels (`BondCancels`) |
| `EscrowIsImplemented` | `ImplementsEscrow` | every transaction is a `Pay`, `Fund` or `Settle` of the escrow or leaves it alone |

The inductive invariant is `TypeOK /\ RegistryInv /\ HistoryInv`, extended by
`NonceOrder` and by `ResolvableIsEmpty`. None of the properties is inductive on
its own: freshness of a receipt id needs that every receipt sits at the id made of
its own fields with a nonce already used; permanence of a config needs that the
hash of a committed config can never be committed again.

The refinement needs one fact more, `UpheldAreFiled`. A filing appends two events,
`ChallengeFiled` and an upheld `ChallengeResolved`; that this settles one new claim
rests on every upheld event naming an id already filed (the reviewer can uphold
only an id without a receipt, whose slash reverts). `EscrowIsImplemented` proves Init and each step with the mapping
expanded; the escrow's `Covered(id) > 0` is the vault's refusal to slash nothing,
and its minimum is `SlashActual`.

The two sums are `SumFunctionOnSet` of the community modules, a fold. The library's
induction over finite sets takes an operator as a parameter, so the lemmas on sums
(`SumAdd`, `SumSame`, ...) use instead that strict inclusion is well-founded on the
finite subsets of a set (`FS_StrictSubsetOrderingWellFounded`, `WFMin`): of the
subsets on which the claim fails, none is smallest.

### Indexer

`IndexerProofs` proves, for any number of pollers, blocks, batches, interruptions
and refused calls, from the assumptions of `EventLog` and `Indexer`:

| Theorem | Property | Assumed besides | Argument |
|---|---|---|---|
| `IndexShapeTheorem` | `IndexTypeOK` | | `ShapeInv`: the log only grows, and a process never works past its batch, nor its batch past the head it read |
| `NothingBelowCursorMissingTheorem` | `NothingBelowCursorMissing` | `StartedWhole` | `CoveredInv` |
| `AtMostOneActiveIntentTheorem` | `AtMostOneActiveIntent` | `StartedWhole` | `ActiveInv` |
| `ReindexRepullsEverythingTheorem` | `ReindexRepullsEverything` | `StartedWhole`, `OneReindexer` | `RepulledInv`: a pass that ends has handled its head's block, or found the cursor there |
| `VerdictIsKeptTheorem` | `VerdictIsKept` | `OnSqlite` | one row per challenge id, and SQLite's conflict clause; a reindex empties the table at once |
| `SettledRowsAreCurrentTheorem` | `SettledRowsAreCurrent` | `OnSqlite`, `StartedWhole`, `OnePoller`, `OneReindexer` | `SettledInv` |

`NothingBelowCursorMissing` is not inductive: the cursor is moved by a process
whose own position is what guarantees the rows. `CoveredInv` says of every
process that all events before the block it fetches next, or the event it
handles next, are stored or were refused; since no step but `Truncate` removes a row,
another process can only add to that. The gaps are exactly what nobody looked at: the
row of an event in `missed`, and the trace URI of a receipt whose row is among them.
SQLite throws what it refuses, so there the theorem's second half says that everything
is stored. A trace URI needs one fact more, from `LogInv`: its
event follows its receipt's, so the row to update exists. `ActiveInv` explains why
Supabase's two calls are safe as long as neither commit has lost a write: take two
processes, one of them between the calls.
If the other inserts a row for the same owner, it is either behind, and then finds
its own row stored by whoever moved past it, or ahead, and then has stored the
first process's row, whose insertion will be ignored. A refused deactivation followed by
the insert does leave two active intents, and the property says that nothing else does.
`StartedWhole` (the start
block is 1; a reindex runs on SQLite with the pollers stopped) is what the
configuration has to provide. Without it the properties fail: a running poller
saves its cursor between the script's reset and its replay and the truncated rows
do not return; without a start block (the Base Sepolia deployment file has none)
the replay starts 1000 blocks before the head. `INFRA-README.md` (lines 90 and 132)
promises the re-pull without asking for either. Set `ReindexAlone = FALSE` or
`StartBlock = 0` in `MCIndex.cfg` to see either.

`SettledRowsAreCurrent` compares rows with the end of a log that goes on growing.
What is inductive is `SettledUpTo(n)`: a row whose object has its last event among
the first `n` says what that event says. Mining can only make it easier to
satisfy, and so can falling back to an earlier `n`, which is why an interruption
and the replay of a batch do no harm. A handler carries it from `n` to `n + 1`,
with two facts about the chain (`OneStory`): a `ChallengeFiled` is never the last event of
its challenge, so setting the status back to FILED is repaired by the next event;
and a registration that is an agent's last event is its only one, so a stake of 0
is right. `SettledInv` says this of the cursor and of the process at work, and
`AloneInv` that there is only one: with two pollers, one could write an old value
over a new one and the cursor already be past both.

### Agents, executions, web

| Theorem | Property | Argument |
|---|---|---|
| `AgentFlowProofs!FlowTypeCorrect` | `FlowTypeOK` | part of `FlowInv` |
| `EveryReceiptIsReplayable` | `ReceiptIsReplayable` | `Kept`, a pin and a row (or a dropped one), is what the service leaves before it answers; it is carried from the answer to the transaction in the mempool and on to the receipt |
| `ReportedPaymentsAreReal` | `ReportedPaymentIsReal` | `ReceiptInv`: no receipt is from a nonce yet to come, so that one mined transaction is one new receipt |
| `ExecutionsProofs!ExecTypeCorrect` | `ExecTypeOK` | part of `ExecInv` |
| `AnswersAreTheRows` | `AnswerIsTheRow` | rows that differ from what their handler last wrote (`AstrayIds`) are at most as many as dropped writes, counted from the insertion on |
| `RefusalsLast` | `BlockedPreflightStaysBlocked` | `ReasonsStay`: manifests are not taken back and time does not run back; an execution whose own read was refused (`misread`) is excepted |
| `BlockedAreAnnounced` | `BlockedIsAnnounced` | `NewsInv`: what was told was blocked, and what is due was told at one place of the inbox |
| `OnboardingProofs!OnboardingTypeCorrect` | `SessionTypeOK`, `WizardTypeOK` | part of `OnboardingInv` |
| `TokenServesTheWallet` | `ServedAsWallet` | `AuthInv`: the token a page holds is of a finished sign-in of the account shown, and of no other wallet than the one connected |
| `SessionsAreSigned` | `SessionIsSigned` | `FlightInv`: what the server has checked of a sign-in by the time it is where it is, and that its nonce is marked, expired, deleted or was refused its mark |
| `FlagsStandOnTheChain` | `FlagsAreEarned` | `EarnedInv`: of a kind with no success on chain, no flag, closure or widget shows one |
| `UncontestedFlagsAreKept` | `ProgressIsKept` | `KeptInv`: whatever was confirmed or reported and is not `contested` is shown, stored, and known to every handler still under way |
| `DemoProofs!OwnResults` | `ResultIsOwn` | `SlotInv`: an outcome in the slot is that of the run that owns it, whoever took the slot over |
| `TerminalFrames` | `TerminalAwaitsResult` | `StageInv`: the last frame comes after a hold that only a result ends; what stage and decision panel say of it is read off that result |
| `DeskProofs!DeskTypeCorrect` | `DeskTypeOK` | part of `DeskInv` |
| `SummariesAreTrue` | `SummaryOfItsEvidence` | `CacheInv`, `LoadInv`: an entry, and what a load is about to store, tells its own key, and no verdict but the one on record, or one that a redelivered filing has set back, or whose write was refused |
| `AnswersAgreeAlways` | `ReadModelsAgree` | the three answers are one condition on receipt, index and clock; no invariant is needed beyond types |
| `SecondFiling` | `SecondFilingIsBlind` | `KnewInv`: what a filing was prepared with held no challenge of its receipt, unless that read was refused; `OrderInv`: a tab tries again only after the attempt before is over or its page was left |

Assumed: the named assumptions of each module. They say that inputs, bounds and
tables have their types, that "none" is not a value, that the runs' digests are
digests and some intent can be committed (`DigestAssumption`,
`BootstrapAssumption`, what `bootstrap-agent.ts` sees to), and of the onboarding
that the service accepts every form the builder lets through. `SecondFiling` assumes
besides that no challenge of the desk is rejected: `fileAmountViolation` upholds a
challenge in the transaction that files it, so the index can hold no other verdict
on a filed one (and after a rejection a second filing would be in order).

An attempt at `ProgressIsKept` showed a state of the model that the browser
cannot be in. The flag with which the approval widget keeps itself from reporting twice
survived a switch of the account in the model, while `wagmi` keys the allowance it
is set from by the account; `NotifiedInv` did not hold. `NotifyApproved` and `OfAccount` now follow the
code, and the properties hold as before.

### Only model-checked

Every liveness property: `CatchesUp`, `PaidInTheEnd`, `RowsSettle`, `SignInSettles`,
`WizardMovesOn`, `QueueDrains`, `BlockedIsRecorded`, `SpinnerEnds`,
`TheaterSettles`. They rest on fairness, hence on ENABLED, which the provers at hand
do not handle. The three refutations of section 3 are counterexamples and need no
proof.

## 5. What the models showed besides

Observed while modelling; the models have each of them as the code has it. Where a
document is at odds with the code it is quoted, and section 3 says which of these
disagreements a run shows:

- No store function looks at the `error` that supabase-js returns. The indexer saves its
  cursor over rows that were refused; `getManifestByHash` answers a refused read with
  "no manifest", with which an execution passes the deterministic checks that refused
  its preflight (`misread` in `Executions`); `blockedAttemptExists` answers it with "no
  row", and a denial is recorded again; a session is issued although its nonce was not
  marked used.
- `INFRA-README.md:90` and `:132` promise that a reindex pulls everything again. It does
  so only with the pollers stopped and a start block configured (`StartedWhole`).
- The window of a receipt follows the agent's tier at the time of the challenge, as
  `IAgentRegistry.sol:7-8` and `:61-62` say: a slash can end it for the receipts before.
- The ack cache is looked up by digest alone; a caller that posts a known trace for
  another owner gets the first owner's ack.
- The arbiter accepts a second challenge of a receipt it has already settled. A tab that
  lost sight of its first attempt over a lagging index therefore slashes twice: by an
  error, by a reload, or by the receipt page's own link, which leaves the handler running
  while a fresh page offers the button again (`SecondFilingIsBlind` says that nothing else
  does but a refused read).
- A cached summary of a FILED challenge is served after its verdict; a cached verdict is
  served while a redelivered filing has set the row back.
- Feed, receipt page and preparation ignore that the contract's window depends on
  the stake. The reviewer's "Decision broadcast" toast appears though the arbiter
  refuses the verdict.
- Onboarding's flags are one entry for all accounts; two handlers that overlap may lose
  an update (`contested` in `Onboarding` names the flags at risk), and a commit that
  overlaps an approval clears `ownerApproved`. `isFullyConfigured` does not ask for the
  approval. `useChainId` reports configured chains only, so the wrong-network step never
  stops anyone. An approval's confirmed state survives an account switch.
- The evidence drawer's "Final verdict" (`evidence-content.tsx:251-265`) is the one its
  scenario scripts, whatever the run's result; a legitimate run that was denied is
  announced as "Payment executed".
- Two infra processes on one database record one denial twice.

## 6. Not modelled

- uint256 overflow (amounts are far below 2^256; in the day-cap sum it would revert),
  gas, chain reorganisations (the indexer has no notion of them).
- Refused calls of `Truncate` on Supabase: without a transaction around them a reindex
  is not assumed whole there anyway (`StartedWhole`). The block-timestamp cache and the
  announcements of the indexer's handlers. `/v1/feed/live`: clients can subscribe,
  but nothing emits to it.
- Listings of intents and blocked attempts, `/v1/replay`, health: projections of the
  tables. `POST /v1/execute` and `/v1/screen` change no state. What the language
  model says is any score or text.
- mock-x402 answers every request from the request alone. `dev-all.sh`,
  `writeArtifacts.ts`, `reset.ts` run once, alone, by hand; the models start from what
  they leave. Of `bootstrap-agent.ts` there is what the agents find after it
  (`Bootstrapped` in `AgentFlow`): a committed intent and its delegate. Parsing of the environment, migrations, connections.
- The web application's mock mode, landing pages, wording and layout; the evidence
  drawer, which only displays; `wallet-connect.tsx` and the demo panel, which no page
  mounts: `demo-panel.tsx` with its theater, policy panel and waterfall.
- `agents.total_stake` after a slash: `StakeVault` is not polled, and the column is
  compared with what `AgentStaked` reports.

## 7. Left to do

An abstract index (the tables as a function of the log, the cursor and the refused
writes) that `Indexer` implements while one poller runs; the same theorem of settled
rows for two pollers on SQLite, where each handler is one transaction but an older batch
can still be handled after a newer one; a reindex beside a running poller as a run of its
own, with what the rows it loses mean to the pages.
