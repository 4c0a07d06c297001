----------------------------- MODULE DemoControl -----------------------------
(***************************************************************************)
(* demo-control runs scenarios and keeps the last one in a single slot.    *)
(* Dashboards dispatch runs and poll the slot for theirs; infra polls it   *)
(* too and turns a blocked outcome into a row of the feed.  A run is       *)
(* numbered by its scenarioId.                                             *)
(***************************************************************************)
EXTENDS Naturals, Sequences, FiniteSets

CONSTANTS
  Panels,      \* dashboards with an agent action console
  Pollers,     \* DemoStatusPoller, one per infra server on this database
  MaxRuns,     \* bound on dispatched runs
  MaxAttempts, \* maxAttempts of waitForDemoScenario
  MaxFaults,   \* bound on restarts, lost requests and failed reads
  None

ASSUME DemoAssumption ==
  /\ {MaxRuns, MaxAttempts, MaxFaults} \subseteq Nat
  /\ None \notin Nat \cup {"success", "blocked", "failed"}

VARIABLES
  lastRun, \* the slot of createDemoStateStore
  runs,    \* every dispatched run: what its request and its flow have come to
  wait,    \* waitForDemoScenario of each run: polls made, then its result
  active,  \* the run a panel shows, and the result installed for it
  poller,  \* where a tick of each poller is, and the scenario it read
  blocked, \* blocked_attempts: the scenario of each row, in order
  misread, \* the scenarios whose row was looked up in vain by a failed read
  faults

demoVars == <<lastRun, runs, wait, active, poller, blocked, misread, faults>>

Scenarios == {"legit", "blocked", "overspend"}
Outcomes == {"success", "blocked", "failed"}
Ids == DOMAIN runs

DemoTypeOK ==
  /\ lastRun = None \/ lastRun \in
       [id : 1 .. MaxRuns, status : {"running", "completed", "failed"},
        outcome : Outcomes \cup {None}]
  /\ runs \in Seq([scenario : Scenarios, panel : Panels,
                   pc : {"post", "flow", "done", "lost"},
                   outcome : Outcomes \cup {None}])
  /\ wait \in Seq([polls : 0 .. MaxAttempts, result : Outcomes \cup {None}])
  /\ active \in [Panels -> [run : 0 .. MaxRuns, result : Outcomes \cup {None}]]
  /\ poller \in [Pollers -> [pc : {"fetch", "check", "insert"}, id : 0 .. MaxRuns]]
  /\ blocked \in Seq(1 .. MaxRuns)
  /\ misread \subseteq 1 .. MaxRuns
  /\ faults \in 0 .. MaxFaults

DemoInit ==
  /\ lastRun = None
  /\ runs = <<>>
  /\ wait = <<>>
  /\ active = [p \in Panels |-> [run |-> 0, result |-> None]]
  /\ poller = [q \in Pollers |-> [pc |-> "fetch", id |-> 0]]
  /\ blocked = <<>>
  /\ misread = {}
  /\ faults = 0

Fault == faults < MaxFaults /\ faults' = faults + 1

----------------------------------------------------------------------------
(* The dashboard.                                                          *)

\* setActive with a new runKey.  Only the card of the scenario that is running
\* is disabled; the other cards and the theater's Re-run are not.
HandleRun(p, s) ==
  /\ Len(runs) < MaxRuns
  /\ runs' = Append(runs, [scenario |-> s, panel |-> p, pc |-> "post", outcome |-> None])
  /\ wait' = Append(wait, [polls |-> 0, result |-> None])
  /\ active' = [active EXCEPT ![p] = [run |-> Len(runs) + 1, result |-> None]]
  /\ UNCHANGED <<lastRun, poller, blocked, misread, faults>>

\* The result of run id reaches its panel only if the panel still shows it.
SettleIfPaid(id, result) ==
  active' = [active EXCEPT ![runs[id].panel] =
               IF @.run = id /\ result # "failed" THEN [@ EXCEPT !.result = result] ELSE @]
Settle(id, result) ==
  active' = [active EXCEPT ![runs[id].panel] =
               IF @.run = id THEN [@ EXCEPT !.result = result] ELSE @]

Waiting(id) == wait[id].result = None

EndWait(id, result) ==
  /\ wait' = [wait EXCEPT ![id].result = result]
  /\ Settle(id, result)

\* mapLastToDemoStatus: a blocked outcome is a success with a reason code.
MapLast(last) ==
  IF last.status = "failed" \/ last.outcome = None THEN "failed" ELSE last.outcome

\* GET /demo/status answers with the slot.
DemoStatus == lastRun
IsMine(id) == DemoStatus # None /\ DemoStatus.id = id /\ DemoStatus.status # "running"

\* The POST was answered with its scenarioId.
Dispatched(id) == runs[id].pc # "post"

\* One GET /demo/status of waitForDemoScenario; the last one gives up.
PollStatus(id) ==
  /\ Waiting(id) /\ Dispatched(id)
  /\ IF IsMine(id) THEN EndWait(id, MapLast(DemoStatus))
     ELSE IF wait[id].polls + 1 < MaxAttempts
          THEN wait' = [wait EXCEPT ![id].polls = @ + 1] /\ UNCHANGED active
          ELSE EndWait(id, "failed")
  /\ UNCHANGED <<lastRun, runs, poller, blocked, misread, faults>>

\* A request that does not reach demo-control ends the wait: the POST, which
\* is then never run, or one of the polls.
RuntimeOffline(id) ==
  /\ Waiting(id)
  /\ Fault
  /\ runs' = [runs EXCEPT ![id].pc = IF @ = "post" THEN "lost" ELSE @]
  /\ EndWait(id, "failed")
  /\ UNCHANGED <<lastRun, poller, blocked, misread>>

----------------------------------------------------------------------------
(* The server.                                                             *)

\* POST /demo/run-<scenario>: startRun overwrites the slot, then the answer.
StartRun(id) ==
  /\ runs[id].pc = "post"
  /\ lastRun' = [id |-> id, status |-> "running", outcome |-> None]
  /\ runs' = [runs EXCEPT ![id].pc = "flow"]
  /\ UNCHANGED <<wait, active, poller, blocked, misread, faults>>

\* executeFlow pays, is denied by its preflight, or throws;
\* preflightOnlyFlow never pays.
FlowOutcomes(s) ==
  IF s = "blocked" THEN {"blocked", "failed"} ELSE Outcomes

\* Another run may own the slot by now.
FinishRunAny(id, outcome) ==
  IF lastRun = None THEN None
  ELSE [lastRun EXCEPT !.status = IF outcome = "failed" THEN "failed" ELSE "completed",
                       !.outcome = outcome]
FinishRun(id, outcome) ==
  IF lastRun = None \/ lastRun.id # id THEN lastRun
  ELSE [lastRun EXCEPT !.status = IF outcome = "failed" THEN "failed" ELSE "completed",
                       !.outcome = outcome]

RunFlow(id) ==
  /\ runs[id].pc = "flow"
  /\ \E o \in FlowOutcomes(runs[id].scenario) :
       /\ runs' = [runs EXCEPT ![id].pc = "done", ![id].outcome = o]
       /\ lastRun' = FinishRun(id, o)
  /\ UNCHANGED <<wait, active, poller, blocked, misread, faults>>

\* The slot lives in memory; the flows die with the process.
RestartControl ==
  /\ Fault
  /\ lastRun' = None
  /\ runs' = [id \in Ids |->
       IF runs[id].pc = "flow" THEN [runs[id] EXCEPT !.pc = "lost"] ELSE runs[id]]
  /\ UNCHANGED <<wait, active, poller, blocked, misread>>

----------------------------------------------------------------------------
(* The poller of the infra server.                                         *)

Recordable == DemoStatus # None /\ DemoStatus.outcome = "blocked"

FetchStatus(q) ==
  /\ poller[q].pc = "fetch"
  /\ Recordable
  /\ poller' = [poller EXCEPT ![q] = [pc |-> "check", id |-> lastRun.id]]
  /\ UNCHANGED <<lastRun, runs, wait, active, blocked, misread, faults>>

AnyAttemptExists(id) == blocked # <<>>
BlockedAttemptExists(id) == \E i \in DOMAIN blocked : blocked[i] = id

CheckExists(q) ==
  /\ poller[q].pc = "check"
  /\ poller' = [poller EXCEPT ![q].pc =
       IF BlockedAttemptExists(poller[q].id) THEN "fetch" ELSE "insert"]
  /\ UNCHANGED <<lastRun, runs, wait, active, blocked, misread, faults>>

\* On Supabase the error of the look-up is ignored: a failed read is no row.
MisreadExists(q) ==
  /\ poller[q].pc = "check"
  /\ Fault
  /\ poller' = [poller EXCEPT ![q].pc = "insert"]
  /\ misread' = misread \cup {poller[q].id}
  /\ UNCHANGED <<lastRun, runs, wait, active, blocked>>

\* There is no unique key on scenario_id.
InsertBlockedAttempt(q) ==
  /\ poller[q].pc = "insert"
  /\ blocked' = Append(blocked, poller[q].id)
  /\ poller' = [poller EXCEPT ![q].pc = "fetch"]
  /\ UNCHANGED <<lastRun, runs, wait, active, misread, faults>>

\* The server stops between two steps of a tick, a call of it throws, or
\* Supabase refuses the row and the refusal is ignored.
RestartPoller(q) ==
  /\ Fault
  /\ poller[q].pc # "fetch"
  /\ poller' = [poller EXCEPT ![q].pc = "fetch"]
  /\ UNCHANGED <<lastRun, runs, wait, active, blocked, misread>>

Tick(q) == FetchStatus(q) \/ CheckExists(q) \/ InsertBlockedAttempt(q)

\* What goes on without a click.
RunsGoOn ==
  \/ \E id \in Ids : PollStatus(id) \/ RuntimeOffline(id) \/ StartRun(id) \/ RunFlow(id)
  \/ RestartControl
  \/ \E q \in Pollers : Tick(q) \/ MisreadExists(q) \/ RestartPoller(q)

DemoNext ==
  \/ \E p \in Panels, s \in Scenarios : HandleRun(p, s)
  \/ RunsGoOn

DemoSpec == DemoInit /\ [][DemoNext]_demoVars

----------------------------------------------------------------------------
(* Properties.                                                             *)

\* However runs of one panel or of several overlap in the single slot, a wait
\* that ends with a payment or a denial ends with the outcome of its own run,
\* and a panel shows the result of the run it dispatched last, never another's.
ResultIsOwn ==
  /\ \A id \in Ids : wait[id].result \in {"success", "blocked"} =>
       runs[id].outcome = wait[id].result
  /\ \A p \in Panels : active[p].result # None =>
       active[p].result = wait[active[p].run].result

\* "whenever the latest scenario is a "blocked" outcome, we materialize a
\* blocked row in the feed" (demo-status.ts:9-10): a denial that stays in the
\* slot ends in the feed, wherever a poller stops between its look and its
\* insert, and however often it is polled with no more rows than there are
\* pollers; a look-up that failed is what the code repeats a row for.
RowsOf(id) == Cardinality({i \in DOMAIN blocked : blocked[i] = id})
BlockedIsRecorded ==
  /\ \A id \in 1 .. MaxRuns :
       <>[](lastRun # None /\ lastRun.id = id /\ lastRun.outcome = "blocked") =>
         <>[](RowsOf(id) # 0)
  /\ [](\A id \in 1 .. MaxRuns \ misread : RowsOf(id) <= Cardinality(Pollers))

\* A dashboard's run never waits for ever, whoever takes the slot: its spinner
\* ends with the outcome or with a timeout.
SpinnerEnds ==
  \A p \in Panels : []<>(active[p].run = 0 \/ active[p].result # None)
=============================================================================
