------------------------------ MODULE DemoProofs ------------------------------
(***************************************************************************)
(* demo-control and the theater for any dashboards, pollers and bounds:    *)
(* whose result a wait ends with, what a panel shows, and what the last    *)
(* frame of the theater stands on.                                         *)
(***************************************************************************)
EXTENDS DemoTheater, SequenceTheorems, TLAPS

RunType == [scenario : Scenarios, panel : Panels, pc : {"post", "flow", "done", "lost"},
            outcome : Outcomes \cup {None}]
WaitType == [polls : 0 .. MaxAttempts, result : Outcomes \cup {None}]
ShownType == [run : 0 .. MaxRuns, result : Outcomes \cup {None}]
TickType == [pc : {"fetch", "check", "insert"}, id : 0 .. MaxRuns]
SlotType == [id : 1 .. MaxRuns, status : {"running", "completed", "failed"},
             outcome : Outcomes \cup {None}]

\* Every run has its wait.
PairedInv == Len(runs) <= MaxRuns /\ Len(wait) = Len(runs)

\* A flow has an outcome once it is done, and one its scenario can have.
OutcomeInv ==
  \A id \in Ids :
    /\ runs[id].pc # "done" => runs[id].outcome = None
    /\ runs[id].outcome # None => runs[id].outcome \in FlowOutcomes(runs[id].scenario)

\* An outcome in the slot is that of the run that owns the slot.
SlotInv ==
  lastRun # None =>
    /\ lastRun.id \in Ids
    /\ lastRun.outcome # None => lastRun.outcome = runs[lastRun.id].outcome

WaitInv ==
  \A id \in Ids : wait[id].result \in {"success", "blocked"} =>
    runs[id].outcome = wait[id].result

\* A panel shows a run of its own, with what its wait has come to.
PanelInv ==
  \A p \in Panels :
    /\ active[p].run = 0 => active[p].result = None
    /\ active[p].run # 0 =>
         /\ active[p].run \in Ids
         /\ runs[active[p].run].panel = p
         /\ active[p].result = wait[active[p].run].result

\* A tick past its fetch names a run.
TickInv == \A q \in Pollers : poller[q].pc # "fetch" => poller[q].id # 0

DemoInv == DemoTypeOK /\ PairedInv /\ OutcomeInv /\ SlotInv /\ WaitInv /\ PanelInv /\ TickInv

\* The last frame comes after a hold, which only a result ends.
StageInv ==
  /\ stage \in [Panels -> [phase : 1 .. 7, mode : Modes]]
  /\ \A p \in Panels : Shown(p) =>
       /\ stage[p].phase <= Len(Phases(Scenario(p)))
       /\ Kind(p) = "terminal" => active[p].result # None

TheaterInv == DemoInv /\ StageInv

----------------------------------------------------------------------------
LEMMA DemoTyped ==
  ASSUME DemoAssumption, DemoInv
  PROVE  /\ lastRun = None \/ lastRun \in SlotType
         /\ runs \in Seq(RunType) /\ Len(runs) \in Nat /\ Ids = 1 .. Len(runs)
         /\ \A id \in Ids : runs[id] \in RunType
         /\ wait \in Seq(WaitType) /\ DOMAIN wait = Ids
         /\ \A id \in Ids : wait[id] \in WaitType
         /\ active \in [Panels -> ShownType]
         /\ poller \in [Pollers -> TickType]
         /\ \A q \in Pollers : poller[q].pc # "fetch" => poller[q].id # 0
         /\ blocked \in Seq(1 .. MaxRuns) /\ misread \subseteq 1 .. MaxRuns
         /\ faults \in 0 .. MaxFaults
         /\ {MaxRuns, MaxAttempts, MaxFaults} \subseteq Nat
         /\ Ids \subseteq 1 .. MaxRuns
<1>1. runs \in Seq(RunType) /\ wait \in Seq(WaitType) /\ Len(wait) = Len(runs) /\ Len(runs) <= MaxRuns
  BY DEF DemoInv, DemoTypeOK, RunType, WaitType, PairedInv
<1>2. Len(runs) \in Nat /\ Ids = 1 .. Len(runs) /\ DOMAIN wait = 1 .. Len(wait)
  BY <1>1, LenProperties DEF Ids
<1>3. (\A id \in 1 .. Len(runs) : runs[id] \in RunType) /\ (\A id \in 1 .. Len(wait) : wait[id] \in WaitType)
  BY <1>1, ElementOfSeq
<1>4. {MaxRuns, MaxAttempts, MaxFaults} \subseteq Nat
  BY DEF DemoAssumption
<1>5. Ids \subseteq 1 .. MaxRuns
  BY <1>1, <1>2, <1>4
<1> QED  BY <1>1, <1>2, <1>3, <1>4, <1>5 DEF DemoInv, TickInv, DemoTypeOK, SlotType, ShownType, TickType

\* A run keeps its scenario and panel, and gets one outcome as it is done.
RunKept(id) ==
  /\ runs'[id].scenario = runs[id].scenario /\ runs'[id].panel = runs[id].panel
  /\ runs[id].outcome # None => runs'[id].outcome = runs[id].outcome
  /\ runs'[id].pc # "done" => runs'[id].outcome = None
  /\ runs'[id].outcome # None => runs'[id].outcome \in FlowOutcomes(runs[id].scenario)

\* What a step may do that begins no run: the flows go on, waits end with the
\* outcome of their own run or with a failure, and their panels follow.
LEMMA DemoFrame ==
  ASSUME DemoAssumption, DemoInv,
         runs' \in Seq(RunType), DOMAIN runs' = Ids, Len(runs') = Len(runs),
         wait' \in Seq(WaitType), DOMAIN wait' = Ids, Len(wait') = Len(wait),
         active' \in [Panels -> ShownType],
         lastRun' = None \/ lastRun' \in SlotType,
         poller' \in [Pollers -> TickType],
         \A q \in Pollers : poller'[q].pc # "fetch" => poller'[q].id # 0,
         blocked' \in Seq(1 .. MaxRuns), misread' \subseteq 1 .. MaxRuns, faults' \in 0 .. MaxFaults,
         \A id \in Ids :
           /\ RunKept(id)
           /\ wait'[id].result \in {"success", "blocked"} =>
                wait'[id].result \in {wait[id].result, runs[id].outcome},
         lastRun' # None =>
           /\ lastRun'.id \in Ids
           /\ lastRun'.outcome # None => lastRun'.outcome = runs'[lastRun'.id].outcome,
         \A p \in Panels :
           /\ active'[p].run = active[p].run
           /\ active[p].run = 0 => active'[p].result = active[p].result
           /\ active[p].run # 0 => active'[p].result = wait'[active[p].run].result
  PROVE  DemoInv'
<1> USE DEF DemoInv
<1>1. DemoTypeOK'
  BY DEF DemoTypeOK, RunType, WaitType, ShownType, SlotType, TickType
<1>2. PairedInv'
  BY DEF PairedInv
<1>3. OutcomeInv'
  BY DEF OutcomeInv, Ids, RunKept
<1>4. SlotInv'
  BY DEF SlotInv, Ids
<1>5. WaitInv'
  <2> SUFFICES ASSUME NEW id \in Ids, wait'[id].result \in {"success", "blocked"}
               PROVE  runs'[id].outcome = wait'[id].result
    BY DEF WaitInv, Ids
  <2>1. runs[id].outcome = wait'[id].result
    BY DEF WaitInv
  <2>2. wait'[id].result # None
    BY DEF DemoAssumption
  <2> QED  BY <2>1, <2>2 DEF RunKept
<1>6. PanelInv'
  <2> SUFFICES ASSUME NEW p \in Panels
               PROVE  /\ active'[p].run = 0 => active'[p].result = None
                      /\ active'[p].run # 0 =>
                           /\ active'[p].run \in Ids
                           /\ runs'[active'[p].run].panel = p
                           /\ active'[p].result = wait'[active'[p].run].result
    BY DEF PanelInv, Ids
  <2>1. /\ active[p].run = 0 => active[p].result = None
        /\ active[p].run # 0 => active[p].run \in Ids /\ runs[active[p].run].panel = p
    BY DEF PanelInv
  <2> QED  BY <2>1 DEF RunKept
<1>7. TickInv'
  BY DEF TickInv
<1> QED  BY <1>1, <1>2, <1>3, <1>4, <1>5, <1>6, <1>7

----------------------------------------------------------------------------
(* One run, one wait, and the panel that shows it.                         *)

\* Everything but one run stays.
LEMMA OneRun ==
  ASSUME NEW S, NEW s \in Seq(S), NEW id \in DOMAIN s, NEW q \in S, NEW t, t = [s EXCEPT ![id] = q]
  PROVE  /\ t \in Seq(S) /\ Len(t) = Len(s) /\ DOMAIN t = DOMAIN s /\ t[id] = q
         /\ \A i \in DOMAIN s : i # id => t[i] = s[i]
<1>1. Len(s) \in Nat /\ DOMAIN s = 1 .. Len(s)
  BY LenProperties
<1>2. /\ [s EXCEPT ![id] = q] \in Seq(S) /\ Len([s EXCEPT ![id] = q]) = Len(s)
      /\ \A j \in 1 .. Len(s) : [s EXCEPT ![id] = q][j] = IF j = id THEN q ELSE s[j]
  BY <1>1, ExceptSeq
<1>3. t \in Seq(S) /\ Len(t) = Len(s) /\ \A j \in 1 .. Len(s) : t[j] = IF j = id THEN q ELSE s[j]
  BY <1>2, Zenon
<1>4. DOMAIN t = 1 .. Len(t)
  BY <1>3, LenProperties
<1> QED  BY <1>1, <1>3, <1>4

\* The facts of a wait that ends are shown by the panel of its run.
LEMMA WaitEnds ==
  ASSUME DemoAssumption, DemoInv, NEW id \in Ids, Waiting(id),
         NEW result \in Outcomes, EndWait(id, result)
  PROVE  /\ wait' \in Seq(WaitType) /\ DOMAIN wait' = Ids /\ Len(wait') = Len(wait)
         /\ wait'[id].result = result
         /\ \A i \in Ids : i # id => wait'[i].result = wait[i].result
         /\ active' \in [Panels -> ShownType]
         /\ \A p \in Panels :
              /\ active'[p].run = active[p].run
              /\ active[p].run = 0 => active'[p].result = active[p].result
              /\ active[p].run # 0 => active'[p].result = wait'[active[p].run].result
<1>0. /\ runs[id] \in RunType /\ wait \in Seq(WaitType) /\ DOMAIN wait = Ids /\ wait[id] \in WaitType
      /\ active \in [Panels -> ShownType] /\ Ids \subseteq 1 .. MaxRuns
      /\ {MaxRuns, MaxAttempts, MaxFaults} \subseteq Nat
  BY DemoTyped
<1> DEFINE q == [wait[id] EXCEPT !.result = result]
<1>1. q \in WaitType /\ q.result = result
  BY <1>0 DEF WaitType
<1>2. wait' = [wait EXCEPT ![id] = q] /\ Settle(id, result)
  BY DEF EndWait
<1> HIDE DEF q
<1>3. /\ wait' \in Seq(WaitType) /\ DOMAIN wait' = Ids /\ Len(wait') = Len(wait)
      /\ wait'[id].result = result
      /\ \A i \in Ids : i # id => wait'[i].result = wait[i].result
  BY <1>0, <1>1, <1>2, OneRun
<1>4. PICK owner \in Panels : owner = runs[id].panel
  BY <1>0 DEF RunType
<1>5. active' = [active EXCEPT ![owner] =
                   IF active[owner].run = id THEN [active[owner] EXCEPT !.result = result]
                   ELSE active[owner]]
  BY <1>2, <1>4 DEF Settle
<1>6. ASSUME NEW p \in Panels
      PROVE  /\ active'[p] \in ShownType
             /\ active'[p].run = active[p].run
             /\ active[p].run = 0 => active'[p].result = active[p].result
             /\ active[p].run # 0 => active'[p].result = wait'[active[p].run].result
  <2>0. /\ active[p] \in ShownType
        /\ active[p].run = 0 => active[p].result = None
        /\ active[p].run # 0 => /\ active[p].run \in Ids /\ runs[active[p].run].panel = p
                                /\ active[p].result = wait[active[p].run].result
    BY <1>0 DEF DemoInv, PanelInv
  <2>1. CASE p = owner /\ active[p].run = id
    <3>1. active'[p] = [active[p] EXCEPT !.result = result]
      BY <1>0, <1>5, <2>1
    <3>2. active'[p] \in ShownType /\ active'[p].run = id /\ active'[p].result = result /\ id # 0
      BY <1>0, <2>0, <2>1, <3>1 DEF ShownType
    <3> QED  BY <1>3, <2>1, <3>2
  <2>2. CASE ~(p = owner /\ active[p].run = id)
    <3>1. active'[p] = active[p]
      BY <1>0, <1>5, <2>2
    <3>2. active[p].run # id
      BY <1>0, <1>4, <2>0, <2>2
    <3> QED  BY <1>3, <2>0, <3>1, <3>2
  <2> QED  BY <2>1, <2>2
<1>7. active' \in [Panels -> ShownType]
  <2>1. DOMAIN active' = Panels /\ active' = [p \in Panels |-> active'[p]]
    BY <1>0, <1>5
  <2> QED  BY <1>6, <2>1
<1> QED  BY <1>3, <1>6, <1>7

\* Waits and panels that stay.
LEMMA WaitsStay ==
  ASSUME DemoAssumption, DemoInv, UNCHANGED <<wait, active>>
  PROVE  /\ wait' \in Seq(WaitType) /\ DOMAIN wait' = Ids /\ Len(wait') = Len(wait)
         /\ \A i \in Ids : wait'[i].result = wait[i].result
         /\ active' \in [Panels -> ShownType]
         /\ \A p \in Panels :
              /\ active'[p].run = active[p].run
              /\ active[p].run = 0 => active'[p].result = active[p].result
              /\ active[p].run # 0 => active'[p].result = wait'[active[p].run].result
BY DemoTyped DEF DemoInv, PanelInv

LEMMA RunsStay ==
  ASSUME DemoAssumption, DemoInv, UNCHANGED runs
  PROVE  /\ runs' \in Seq(RunType) /\ DOMAIN runs' = Ids /\ Len(runs') = Len(runs)
         /\ \A id \in Ids : RunKept(id)
BY DemoTyped DEF DemoInv, OutcomeInv, RunKept, Ids

\* One run that moves, and gets an outcome only as it is done.
LEMMA RunMoves ==
  ASSUME DemoAssumption, DemoInv, NEW id \in Ids, NEW q \in RunType,
         runs' = [runs EXCEPT ![id] = q],
         q.scenario = runs[id].scenario, q.panel = runs[id].panel,
         runs[id].outcome # None => q.outcome = runs[id].outcome,
         q.pc # "done" => q.outcome = None,
         q.outcome # None => q.outcome \in FlowOutcomes(q.scenario)
  PROVE  /\ runs' \in Seq(RunType) /\ DOMAIN runs' = Ids /\ Len(runs') = Len(runs)
         /\ runs'[id] = q
         /\ \A i \in Ids : i # id => runs'[i] = runs[i]
         /\ \A i \in Ids : RunKept(i)
<1>1. /\ runs' \in Seq(RunType) /\ DOMAIN runs' = Ids /\ Len(runs') = Len(runs)
      /\ runs'[id] = q
      /\ \A i \in Ids : i # id => runs'[i] = runs[i]
  BY DemoTyped, OneRun DEF Ids
<1>2. \A i \in Ids : i # id => RunKept(i)
  BY <1>1 DEF RunKept, DemoInv, OutcomeInv
<1>3. RunKept(id)
  BY <1>1 DEF RunKept
<1> QED  BY <1>1, <1>2, <1>3

----------------------------------------------------------------------------
(* Every step of demo-control.                                             *)

LEMMA DispatchStep ==
  ASSUME DemoAssumption, DemoInv, NEW p \in Panels, NEW s \in Scenarios, HandleRun(p, s)
  PROVE  /\ DemoInv'
         /\ active'[p] = [run |-> Len(runs) + 1, result |-> None]
         /\ \A other \in Panels \ {p} : active'[other] = active[other]
         /\ \A id \in Ids : runs'[id] = runs[id]
         /\ runs'[Len(runs) + 1].scenario = s
<1> DEFINE q == [scenario |-> s, panel |-> p, pc |-> "post", outcome |-> None]
           w == [polls |-> 0, result |-> None]
<1>1. PICK n : n = Len(runs) + 1
  OBVIOUS
<1>2. /\ runs \in Seq(RunType) /\ Len(runs) \in Nat /\ Ids = 1 .. Len(runs)
      /\ wait \in Seq(WaitType) /\ DOMAIN wait = Ids /\ Len(wait) = Len(runs)
      /\ active \in [Panels -> ShownType]
      /\ {MaxRuns, MaxAttempts, MaxFaults} \subseteq Nat
      /\ Len(runs) < MaxRuns /\ n \in 1 .. MaxRuns
  BY <1>1, DemoTyped DEF DemoInv, PairedInv, HandleRun
<1>3. q \in RunType /\ q.scenario = s /\ q.panel = p /\ q.pc = "post" /\ q.outcome = None
  BY DEF RunType
<1>4. w \in WaitType /\ w.result = None
  BY <1>2 DEF WaitType
<1>5. /\ runs' = Append(runs, q) /\ wait' = Append(wait, w)
      /\ active' = [active EXCEPT ![p] = [run |-> n, result |-> None]]
      /\ UNCHANGED <<lastRun, poller, blocked, misread, faults>>
  BY <1>1 DEF HandleRun
<1> HIDE DEF q, w
<1>6. /\ runs' \in Seq(RunType) /\ Len(runs') = n /\ runs'[n] = q
      /\ \A id \in Ids : runs'[id] = runs[id]
  BY <1>1, <1>2, <1>3, <1>5, AppendProperties
<1>7. /\ wait' \in Seq(WaitType) /\ Len(wait') = n /\ wait'[n] = w
      /\ \A id \in Ids : wait'[id] = wait[id]
  BY <1>1, <1>2, <1>4, <1>5, AppendProperties
<1>8. Ids' = 1 .. n /\ Ids' = Ids \cup {n} /\ n \notin Ids
  <2>1. DOMAIN runs' = 1 .. Len(runs')
    BY <1>6, LenProperties
  <2> QED  BY <1>1, <1>2, <1>6, <2>1 DEF Ids
<1>9. /\ active' \in [Panels -> ShownType]
      /\ active'[p] = [run |-> n, result |-> None]
      /\ \A other \in Panels \ {p} : active'[other] = active[other]
  BY <1>2, <1>5 DEF ShownType
<1>10. DemoInv'
  <2> USE DEF DemoInv
  <2>1. DemoTypeOK'
    BY <1>5, <1>6, <1>7, <1>9 DEF DemoTypeOK, RunType, WaitType, ShownType
  <2>2. PairedInv'
    BY <1>2, <1>6, <1>7 DEF PairedInv
  <2>3. OutcomeInv'
    BY <1>3, <1>6, <1>8 DEF OutcomeInv
  <2>4. SlotInv'
    BY <1>5, <1>6, <1>8 DEF SlotInv
  <2>5. WaitInv'
    <3>1. None \notin {"success", "blocked"}
      BY DEF DemoAssumption
    <3> QED  BY <1>4, <1>6, <1>7, <1>8, <3>1 DEF WaitInv
  <2>6. PanelInv'
    <3>1. ASSUME NEW other \in Panels \ {p}
          PROVE  /\ active'[other].run = 0 => active'[other].result = None
                 /\ active'[other].run # 0 =>
                      /\ active'[other].run \in Ids'
                      /\ runs'[active'[other].run].panel = other
                      /\ active'[other].result = wait'[active'[other].run].result
      BY <1>6, <1>7, <1>8, <1>9 DEF PanelInv
    <3>2. /\ active'[p].run = n /\ active'[p].result = None /\ n # 0 /\ n \in Ids'
          /\ runs'[n].panel = p /\ wait'[n].result = None
      BY <1>2, <1>3, <1>4, <1>6, <1>7, <1>8, <1>9
    <3> QED  BY <3>1, <3>2 DEF PanelInv
  <2>7. TickInv'
    BY <1>5 DEF TickInv
  <2> QED  BY <2>1, <2>2, <2>3, <2>4, <2>5, <2>6, <2>7
<1> QED  BY <1>1, <1>3, <1>6, <1>9, <1>10

\* What a poll returns is the outcome of the run that it names, or a failure.
LEMMA AnswerIsOwn ==
  ASSUME DemoAssumption, DemoInv, NEW id \in Ids, IsMine(id)
  PROVE  /\ MapLast(DemoStatus) \in Outcomes
         /\ MapLast(DemoStatus) # "failed" => runs[id].outcome = MapLast(DemoStatus)
<1>1. lastRun \in SlotType /\ lastRun.id = id
  BY DemoTyped DEF IsMine, DemoStatus
<1>2. lastRun.outcome # None => lastRun.outcome = runs[id].outcome
  BY <1>1 DEF IsMine, DemoStatus, DemoInv, SlotInv
<1> QED  BY <1>1, <1>2 DEF MapLast, DemoStatus, SlotType, Outcomes

LEMMA PollStep ==
  ASSUME DemoAssumption, DemoInv, NEW id \in Ids, PollStatus(id)
  PROVE  DemoInv'
<1>0. UNCHANGED <<lastRun, runs, poller, blocked, misread, faults>> /\ Waiting(id)
  BY DEF PollStatus
<1>1. ASSUME NEW result \in Outcomes, EndWait(id, result),
             result # "failed" => runs[id].outcome = result
      PROVE  DemoInv'
  <2>1. /\ wait' \in Seq(WaitType) /\ DOMAIN wait' = Ids /\ Len(wait') = Len(wait)
        /\ wait'[id].result = result
        /\ \A i \in Ids : i # id => wait'[i].result = wait[i].result
        /\ active' \in [Panels -> ShownType]
        /\ \A p \in Panels :
             /\ active'[p].run = active[p].run
             /\ active[p].run = 0 => active'[p].result = active[p].result
             /\ active[p].run # 0 => active'[p].result = wait'[active[p].run].result
    BY <1>0, <1>1, WaitEnds
  <2>2. \A i \in Ids : wait'[i].result \in {"success", "blocked"} =>
          wait'[i].result \in {wait[i].result, runs[i].outcome}
    BY <1>1, <2>1
  <2>3. lastRun' # None =>
          /\ lastRun'.id \in Ids
          /\ lastRun'.outcome # None => lastRun'.outcome = runs'[lastRun'.id].outcome
    BY <1>0 DEF DemoInv, SlotInv
  <2> QED  BY <1>0, <2>1, <2>2, <2>3, RunsStay, DemoTyped, DemoFrame
<1>2. CASE IsMine(id)
  <2>1. EndWait(id, MapLast(DemoStatus))
    BY <1>2 DEF PollStatus
  <2> QED  BY <1>1, <1>2, <2>1, AnswerIsOwn
<1>3. CASE ~IsMine(id) /\ wait[id].polls + 1 < MaxAttempts
  <2> DEFINE w == [wait[id] EXCEPT !.polls = @ + 1]
  <2>1. /\ wait \in Seq(WaitType) /\ DOMAIN wait = Ids /\ wait[id] \in WaitType /\ MaxAttempts \in Nat
    BY DemoTyped
  <2>2. w \in WaitType /\ w.result = wait[id].result
    BY <1>3, <2>1 DEF WaitType
  <2>3. wait' = [wait EXCEPT ![id] = w] /\ UNCHANGED active
    BY <1>3 DEF PollStatus
  <2> HIDE DEF w
  <2>4. /\ wait' \in Seq(WaitType) /\ DOMAIN wait' = Ids /\ Len(wait') = Len(wait)
        /\ \A i \in Ids : wait'[i].result = wait[i].result
    BY <2>1, <2>2, <2>3, OneRun
  <2>5. \A p \in Panels :
             /\ active'[p].run = active[p].run
             /\ active[p].run = 0 => active'[p].result = active[p].result
             /\ active[p].run # 0 => active'[p].result = wait'[active[p].run].result
    BY <2>3, <2>4 DEF DemoInv, PanelInv
  <2>6. lastRun' # None =>
          /\ lastRun'.id \in Ids
          /\ lastRun'.outcome # None => lastRun'.outcome = runs'[lastRun'.id].outcome
    BY <1>0 DEF DemoInv, SlotInv
  <2>7. active' \in [Panels -> ShownType]
    BY <2>3, DemoTyped
  <2> QED  BY <1>0, <2>4, <2>5, <2>6, <2>7, RunsStay, DemoTyped, DemoFrame
<1>4. CASE ~IsMine(id) /\ ~(wait[id].polls + 1 < MaxAttempts)
  <2>1. EndWait(id, "failed") /\ "failed" \in Outcomes
    BY <1>4 DEF PollStatus, Outcomes
  <2> QED  BY <1>1, <2>1
<1> QED  BY <1>2, <1>3, <1>4

LEMMA OfflineStep ==
  ASSUME DemoAssumption, DemoInv, NEW id \in Ids, RuntimeOffline(id)
  PROVE  DemoInv'
<1>0. /\ UNCHANGED <<lastRun, poller, blocked, misread>> /\ Waiting(id) /\ EndWait(id, "failed")
      /\ "failed" \in Outcomes /\ Fault
  BY DEF RuntimeOffline, Outcomes
<1> DEFINE q == [runs[id] EXCEPT !.pc = IF @ = "post" THEN "lost" ELSE @]
<1>1. /\ runs[id] \in RunType /\ faults \in 0 .. MaxFaults /\ MaxFaults \in Nat
      /\ runs[id].pc # "done" => runs[id].outcome = None
      /\ runs[id].outcome # None => runs[id].outcome \in FlowOutcomes(runs[id].scenario)
  BY DemoTyped DEF DemoInv, OutcomeInv
<1>2. /\ q \in RunType /\ q.scenario = runs[id].scenario /\ q.panel = runs[id].panel
      /\ q.outcome = runs[id].outcome
      /\ q.pc # "done" => runs[id].pc # "done"
  BY <1>1 DEF RunType
<1>3. runs' = [runs EXCEPT ![id] = q]
  BY DEF RuntimeOffline
<1> HIDE DEF q
<1>4. /\ runs' \in Seq(RunType) /\ DOMAIN runs' = Ids /\ Len(runs') = Len(runs)
      /\ runs'[id] = q
      /\ \A i \in Ids : i # id => runs'[i] = runs[i]
      /\ \A i \in Ids : RunKept(i)
  <2>1. /\ q \in RunType /\ q.scenario = runs[id].scenario /\ q.panel = runs[id].panel
        /\ q.outcome = runs[id].outcome
    BY <1>2
  <2>2. q.pc # "done" => q.outcome = None
    BY <1>1, <1>2
  <2>3. q.outcome # None => q.outcome \in FlowOutcomes(q.scenario)
    BY <1>1, <1>2
  <2> QED  BY <1>3, <2>1, <2>2, <2>3, RunMoves
<1>5. /\ wait' \in Seq(WaitType) /\ DOMAIN wait' = Ids /\ Len(wait') = Len(wait)
      /\ wait'[id].result = "failed"
      /\ \A i \in Ids : i # id => wait'[i].result = wait[i].result
      /\ active' \in [Panels -> ShownType]
      /\ \A p \in Panels :
           /\ active'[p].run = active[p].run
           /\ active[p].run = 0 => active'[p].result = active[p].result
           /\ active[p].run # 0 => active'[p].result = wait'[active[p].run].result
  BY <1>0, WaitEnds
<1>6. \A i \in Ids : wait'[i].result \in {"success", "blocked"} =>
        wait'[i].result \in {wait[i].result, runs[i].outcome}
  BY <1>5
<1>7. lastRun' # None =>
        /\ lastRun'.id \in Ids
        /\ lastRun'.outcome # None => lastRun'.outcome = runs'[lastRun'.id].outcome
  <2>1. \A i \in Ids : runs'[i].outcome = runs[i].outcome
    BY <1>2, <1>4
  <2> QED  BY <1>0, <2>1 DEF DemoInv, SlotInv
<1>8. faults' \in 0 .. MaxFaults
  BY <1>0, <1>1 DEF Fault
<1>9. /\ lastRun' = None \/ lastRun' \in SlotType
      /\ poller' \in [Pollers -> TickType]
      /\ \A i \in Pollers : poller'[i].pc # "fetch" => poller'[i].id # 0
      /\ blocked' \in Seq(1 .. MaxRuns) /\ misread' \subseteq 1 .. MaxRuns
  BY <1>0, DemoTyped
<1> QED  BY <1>4, <1>5, <1>6, <1>7, <1>8, <1>9, DemoFrame

LEMMA StartStep ==
  ASSUME DemoAssumption, DemoInv, NEW id \in Ids, StartRun(id)
  PROVE  DemoInv'
<1>0. /\ UNCHANGED <<wait, active, poller, blocked, misread, faults>> /\ runs[id].pc = "post"
      /\ lastRun' = [id |-> id, status |-> "running", outcome |-> None]
  BY DEF StartRun
<1> DEFINE q == [runs[id] EXCEPT !.pc = "flow"]
<1>1. /\ runs[id] \in RunType /\ id \in 1 .. MaxRuns /\ runs[id].outcome = None
  BY <1>0, DemoTyped DEF DemoInv, OutcomeInv
<1>2. /\ q \in RunType /\ q.scenario = runs[id].scenario /\ q.panel = runs[id].panel
      /\ q.outcome = None
  BY <1>1 DEF RunType
<1>3. runs' = [runs EXCEPT ![id] = q]
  BY DEF StartRun
<1> HIDE DEF q
<1>4. /\ runs' \in Seq(RunType) /\ DOMAIN runs' = Ids /\ Len(runs') = Len(runs)
      /\ \A i \in Ids : RunKept(i)
  BY <1>1, <1>2, <1>3, RunMoves
<1>5. lastRun' \in SlotType /\ lastRun'.id \in Ids /\ lastRun'.outcome = None
  BY <1>0, <1>1 DEF SlotType
<1>6. /\ poller' \in [Pollers -> TickType]
      /\ \A i \in Pollers : poller'[i].pc # "fetch" => poller'[i].id # 0
      /\ blocked' \in Seq(1 .. MaxRuns) /\ misread' \subseteq 1 .. MaxRuns /\ faults' \in 0 .. MaxFaults
  BY <1>0, DemoTyped
<1> QED  BY <1>0, <1>4, <1>5, <1>6, WaitsStay, DemoFrame

\* A flow that ends writes to the slot only what the slot is about.
LEMMA FlowStep ==
  ASSUME DemoAssumption, DemoInv, NEW id \in Ids, RunFlow(id)
  PROVE  DemoInv'
<1>0. UNCHANGED <<wait, active, poller, blocked, misread, faults>> /\ runs[id].pc = "flow"
  BY DEF RunFlow
<1>1. PICK o \in FlowOutcomes(runs[id].scenario) :
        /\ runs' = [runs EXCEPT ![id].pc = "done", ![id].outcome = o]
        /\ lastRun' = FinishRun(id, o)
  BY DEF RunFlow
<1> DEFINE q == [runs[id] EXCEPT !.pc = "done", !.outcome = o]
<1>2. /\ runs \in Seq(RunType) /\ runs[id] \in RunType /\ id \in 1 .. MaxRuns /\ runs[id].outcome = None
      /\ o \in Outcomes
  BY <1>0, DemoTyped DEF DemoInv, OutcomeInv, FlowOutcomes, Outcomes
<1>3. /\ q \in RunType /\ q.scenario = runs[id].scenario /\ q.panel = runs[id].panel
      /\ q.outcome = o /\ q.pc = "done"
  BY <1>2 DEF RunType
<1>4. runs' = [runs EXCEPT ![id] = q]
  BY <1>1
<1> HIDE DEF q
<1>5. /\ runs' \in Seq(RunType) /\ DOMAIN runs' = Ids /\ Len(runs') = Len(runs)
      /\ runs'[id] = q
      /\ \A i \in Ids : i # id => runs'[i] = runs[i]
      /\ \A i \in Ids : RunKept(i)
  <2>1. /\ runs[id].outcome # None => q.outcome = runs[id].outcome
        /\ q.pc # "done" => q.outcome = None
        /\ q.outcome \in FlowOutcomes(q.scenario)
    BY <1>2, <1>3
  <2> QED  BY <1>3, <1>4, <2>1, RunMoves
<1>6. /\ lastRun' = None \/ lastRun' \in SlotType
      /\ lastRun' # None =>
           /\ lastRun'.id \in Ids
           /\ lastRun'.outcome # None => lastRun'.outcome = runs'[lastRun'.id].outcome
  <2>0. /\ lastRun = None \/ lastRun \in SlotType
        /\ lastRun # None =>
             /\ lastRun.id \in Ids
             /\ lastRun.outcome # None => lastRun.outcome = runs[lastRun.id].outcome
    BY DemoTyped DEF DemoInv, SlotInv
  <2>1. CASE lastRun = None \/ lastRun.id # id
    <3>1. lastRun' = lastRun
      BY <1>1, <2>1 DEF FinishRun
    <3> QED  BY <1>5, <2>0, <2>1, <3>1
  <2>2. CASE lastRun # None /\ lastRun.id = id
    <3> DEFINE st == IF o = "failed" THEN "failed" ELSE "completed"
    <3>1. lastRun' = [lastRun EXCEPT !.status = st, !.outcome = o]
      BY <1>1, <2>2 DEF FinishRun
    <3>2. st \in {"running", "completed", "failed"}
      OBVIOUS
    <3> HIDE DEF st
    <3>3. lastRun' \in SlotType /\ lastRun'.id = id /\ lastRun'.outcome = o
      BY <1>2, <2>0, <2>2, <3>1, <3>2 DEF SlotType
    <3> QED  BY <1>3, <1>5, <3>3
  <2> QED  BY <2>1, <2>2
<1>7. /\ poller' \in [Pollers -> TickType]
      /\ \A i \in Pollers : poller'[i].pc # "fetch" => poller'[i].id # 0
      /\ blocked' \in Seq(1 .. MaxRuns) /\ misread' \subseteq 1 .. MaxRuns /\ faults' \in 0 .. MaxFaults
  BY <1>0, DemoTyped
<1> QED  BY <1>0, <1>5, <1>6, <1>7, WaitsStay, DemoFrame

LEMMA RestartControlStep ==
  ASSUME DemoAssumption, DemoInv, RestartControl
  PROVE  DemoInv'
<1>0. UNCHANGED <<wait, active, poller, blocked, misread>> /\ lastRun' = None /\ faults' \in 0 .. MaxFaults
  BY DemoTyped DEF RestartControl, Fault
<1>1. /\ runs \in Seq(RunType) /\ Len(runs) \in Nat /\ Ids = 1 .. Len(runs)
      /\ \A id \in Ids : runs[id] \in RunType
      /\ \A id \in Ids :
           /\ runs[id].pc # "done" => runs[id].outcome = None
           /\ runs[id].outcome # None => runs[id].outcome \in FlowOutcomes(runs[id].scenario)
  BY DemoTyped DEF DemoInv, OutcomeInv
<1>2. /\ DOMAIN runs' = Ids
      /\ \A id \in Ids : runs'[id] = IF runs[id].pc = "flow" THEN [runs[id] EXCEPT !.pc = "lost"] ELSE runs[id]
      /\ runs' = [id \in Ids |-> runs'[id]]
  BY DEF RestartControl
<1>3. ASSUME NEW id \in Ids PROVE runs'[id] \in RunType /\ RunKept(id)
  <2>1. CASE runs[id].pc = "flow"
    <3>1. runs'[id] = [runs[id] EXCEPT !.pc = "lost"] /\ runs[id] \in RunType
      BY <1>1, <1>2, <2>1
    <3>2. /\ runs'[id] \in RunType /\ runs'[id].scenario = runs[id].scenario
          /\ runs'[id].panel = runs[id].panel /\ runs'[id].outcome = runs[id].outcome
          /\ runs'[id].pc = "lost"
      BY <3>1 DEF RunType
    <3>3. runs[id].outcome = None
      BY <1>1, <2>1
    <3> QED  BY <3>2, <3>3 DEF RunKept
  <2>2. CASE runs[id].pc # "flow"
    <3>1. runs'[id] = runs[id] /\ runs[id] \in RunType
      BY <1>1, <1>2, <2>2
    <3> QED  BY <1>1, <3>1 DEF RunKept
  <2> QED  BY <2>1, <2>2
<1>4. runs' \in Seq(RunType) /\ Len(runs') = Len(runs)
  <2>1. runs' \in [1 .. Len(runs) -> RunType]
    BY <1>1, <1>2, <1>3
  <2>2. runs' \in Seq(RunType)
    BY <1>1, <2>1, SeqDef
  <2> QED  BY <1>1, <1>2, <2>2, LenProperties
<1>5. /\ poller' \in [Pollers -> TickType]
      /\ \A i \in Pollers : poller'[i].pc # "fetch" => poller'[i].id # 0
      /\ blocked' \in Seq(1 .. MaxRuns) /\ misread' \subseteq 1 .. MaxRuns
  BY <1>0, DemoTyped
<1> QED  BY <1>0, <1>2, <1>3, <1>4, <1>5, WaitsStay, DemoFrame

\* The poller of infra only reads the slot.
LEMMA PollerStep ==
  ASSUME DemoAssumption, DemoInv, NEW q \in Pollers, Tick(q) \/ MisreadExists(q) \/ RestartPoller(q)
  PROVE  DemoInv'
<1>0. UNCHANGED <<lastRun, runs, wait, active>>
  BY DEF Tick, FetchStatus, CheckExists, MisreadExists, InsertBlockedAttempt, RestartPoller
<1>1. /\ poller \in [Pollers -> TickType]
      /\ \A i \in Pollers : poller[i].pc # "fetch" => poller[i].id # 0
      /\ blocked \in Seq(1 .. MaxRuns) /\ misread \subseteq 1 .. MaxRuns
      /\ faults \in 0 .. MaxFaults /\ MaxFaults \in Nat /\ MaxRuns \in Nat
      /\ lastRun = None \/ lastRun \in SlotType
      /\ Ids \subseteq 1 .. MaxRuns
  BY DemoTyped
<1>2. faults' \in 0 .. MaxFaults
  BY <1>1 DEF Tick, FetchStatus, CheckExists, MisreadExists, InsertBlockedAttempt, RestartPoller, Fault
<1>3. /\ poller' \in [Pollers -> TickType]
      /\ \A i \in Pollers : poller'[i].pc # "fetch" => poller'[i].id # 0
      /\ blocked' \in Seq(1 .. MaxRuns) /\ misread' \subseteq 1 .. MaxRuns
  <2>1. CASE FetchStatus(q)
    <3>1. lastRun.id \in 1 .. MaxRuns
      BY <1>1, <2>1 DEF FetchStatus, Recordable, DemoStatus, SlotType
    <3>2. [pc |-> "check", id |-> lastRun.id] \in TickType
      BY <1>1, <3>1 DEF TickType
    <3> QED  BY <1>1, <2>1, <3>1, <3>2 DEF FetchStatus
  <2>2. CASE CheckExists(q)
    BY <1>1, <2>2 DEF CheckExists, TickType
  <2>5. CASE MisreadExists(q)
    <3>1. poller[q].id \in 1 .. MaxRuns
      BY <1>1, <2>5 DEF MisreadExists, TickType
    <3> QED  BY <1>1, <2>5, <3>1 DEF MisreadExists, TickType
  <2>3. CASE InsertBlockedAttempt(q)
    <3>1. poller[q].id \in 1 .. MaxRuns
      BY <1>1, <2>3 DEF InsertBlockedAttempt, TickType
    <3>2. blocked' \in Seq(1 .. MaxRuns)
      BY <1>1, <2>3, <3>1, AppendProperties DEF InsertBlockedAttempt
    <3> QED  BY <1>1, <2>3, <3>2 DEF InsertBlockedAttempt, TickType
  <2>4. CASE RestartPoller(q)
    BY <1>1, <2>4 DEF RestartPoller, TickType
  <2> QED  BY <2>1, <2>2, <2>3, <2>4, <2>5 DEF Tick
<1>5. lastRun' # None =>
        /\ lastRun'.id \in Ids
        /\ lastRun'.outcome # None => lastRun'.outcome = runs'[lastRun'.id].outcome
  BY <1>0 DEF DemoInv, SlotInv
<1> QED  BY <1>0, <1>1, <1>2, <1>3, <1>5, RunsStay, WaitsStay, DemoFrame

LEMMA DemoStep ==
  ASSUME DemoAssumption, DemoInv, [DemoNext]_demoVars
  PROVE  DemoInv'
<1>1. CASE UNCHANGED demoVars
  <2>1. /\ UNCHANGED <<lastRun, runs, wait, active, poller, blocked, misread, faults>>
    BY <1>1 DEF demoVars
  <2>2. lastRun' # None =>
          /\ lastRun'.id \in Ids
          /\ lastRun'.outcome # None => lastRun'.outcome = runs'[lastRun'.id].outcome
    BY <2>1 DEF DemoInv, SlotInv
  <2> QED  BY <2>1, <2>2, RunsStay, WaitsStay, DemoTyped, DemoFrame
<1>2. CASE DemoNext
  BY <1>2, DispatchStep, PollStep, OfflineStep, StartStep, FlowStep, RestartControlStep, PollerStep
  DEF DemoNext, RunsGoOn
<1> QED  BY <1>1, <1>2

LEMMA DemoStart ==
  ASSUME DemoAssumption, DemoInit
  PROVE  DemoInv
<1>1. /\ runs \in Seq(RunType) /\ wait \in Seq(WaitType) /\ blocked \in Seq(1 .. MaxRuns)
      /\ Len(runs) = 0 /\ Len(wait) = 0 /\ DOMAIN runs = {}
  BY EmptySeq DEF DemoInit
<1>2. DemoTypeOK
  BY <1>1 DEF DemoTypeOK, DemoInit, DemoAssumption, RunType, WaitType
<1>3. PairedInv /\ OutcomeInv /\ SlotInv /\ WaitInv /\ PanelInv /\ TickInv
  BY <1>1 DEF PairedInv, OutcomeInv, SlotInv, WaitInv, PanelInv, TickInv, DemoInit, DemoAssumption, Ids
<1> QED  BY <1>2, <1>3 DEF DemoInv

LEMMA OwnResult ==
  ASSUME DemoInv
  PROVE  ResultIsOwn
BY DEF DemoInv, WaitInv, PanelInv, ResultIsOwn

\* However many dashboards share the one slot of demo-control, and whatever is
\* restarted or lost, nobody is told the outcome of another's run.
THEOREM OwnResults == DemoSpec => []ResultIsOwn
<1>1. DemoInit => DemoInv
  BY DemoStart, DemoAssumption
<1>2. DemoInv /\ [DemoNext]_demoVars => DemoInv'
  BY DemoStep, DemoAssumption
<1>3. DemoInv => ResultIsOwn
  BY OwnResult
<1> QED  BY <1>1, <1>2, <1>3, PTL DEF DemoSpec

----------------------------------------------------------------------------
(* The theater.                                                            *)

\* Only the last frame is terminal, and the one before it holds.
LEMMA Scripts ==
  ASSUME NEW s \in Scenarios
  PROVE  /\ Len(Phases(s)) \in 2 .. 7
         /\ \A k \in 1 .. Len(Phases(s)) :
              /\ Phases(s)[k] = "terminal" <=> k = Len(Phases(s))
              /\ k + 1 = Len(Phases(s)) => Phases(s)[k] = "hold"
<1>1. CASE s = "legit"
  <2>1. Phases(s) = Legit
    BY <1>1 DEF Phases
  <2>2. /\ Len(Legit) = 7
        /\ Legit[1] = "normal" /\ Legit[2] = "normal" /\ Legit[3] = "guard-evaluating"
        /\ Legit[4] = "normal" /\ Legit[5] = "normal" /\ Legit[6] = "hold"
        /\ Legit[7] = "terminal"
    BY DEF Legit
  <2>3. Len(Phases(s)) \in 2 .. 7
    BY <2>1, <2>2
  <2>4. ASSUME NEW k \in 1 .. Len(Phases(s))
        PROVE  /\ Phases(s)[k] = "terminal" <=> k = Len(Phases(s))
               /\ k + 1 = Len(Phases(s)) => Phases(s)[k] = "hold"
    <3> DEFINE kind == Legit[k]
    <3>1. k = 1 \/ k = 2 \/ k = 3 \/ k = 4 \/ k = 5 \/ k = 6 \/ k = 7
      BY <2>1, <2>2
    <3>2. kind = Phases(s)[k]
      BY <2>1
    <3>3. kind = "terminal" <=> k = 7
      BY <2>2, <3>1
    <3>4. k + 1 = 7 => kind = "hold"
      BY <2>2, <3>1
    <3> HIDE DEF kind
    <3> QED  BY <1>1, <2>1, <2>2, <3>2, <3>3, <3>4
  <2> QED  BY <2>3, <2>4
<1>2. CASE s = "blocked"
  <2>1. Phases(s) = Blocked
    BY <1>2 DEF Phases
  <2>2. /\ Len(Blocked) = 5
        /\ Blocked[1] = "normal" /\ Blocked[2] = "normal"
        /\ Blocked[3] = "guard-evaluating" /\ Blocked[4] = "hold"
        /\ Blocked[5] = "terminal"
    BY DEF Blocked
  <2>3. Len(Phases(s)) \in 2 .. 7
    BY <2>1, <2>2
  <2>4. ASSUME NEW k \in 1 .. Len(Phases(s))
        PROVE  /\ Phases(s)[k] = "terminal" <=> k = Len(Phases(s))
               /\ k + 1 = Len(Phases(s)) => Phases(s)[k] = "hold"
    <3> DEFINE kind == Blocked[k]
    <3>1. k = 1 \/ k = 2 \/ k = 3 \/ k = 4 \/ k = 5
      BY <2>1, <2>2
    <3>2. kind = Phases(s)[k]
      BY <2>1
    <3>3. kind = "terminal" <=> k = 5
      BY <2>2, <3>1
    <3>4. k + 1 = 5 => kind = "hold"
      BY <2>2, <3>1
    <3> HIDE DEF kind
    <3> QED  BY <1>2, <2>1, <2>2, <3>2, <3>3, <3>4
  <2> QED  BY <2>3, <2>4
<1>3. CASE s = "overspend"
  <2>1. Phases(s) = Overspend
    BY <1>3 DEF Phases
  <2>2. /\ Len(Overspend) = 7
        /\ Overspend[1] = "normal" /\ Overspend[2] = "normal" /\ Overspend[3] = "guard-warn"
        /\ Overspend[4] = "guard-warn" /\ Overspend[5] = "normal" /\ Overspend[6] = "hold"
        /\ Overspend[7] = "terminal"
    BY DEF Overspend
  <2>3. Len(Phases(s)) \in 2 .. 7
    BY <2>1, <2>2
  <2>4. ASSUME NEW k \in 1 .. Len(Phases(s))
        PROVE  /\ Phases(s)[k] = "terminal" <=> k = Len(Phases(s))
               /\ k + 1 = Len(Phases(s)) => Phases(s)[k] = "hold"
    <3> DEFINE kind == Overspend[k]
    <3>1. k = 1 \/ k = 2 \/ k = 3 \/ k = 4 \/ k = 5 \/ k = 6 \/ k = 7
      BY <2>1, <2>2
    <3>2. kind = Phases(s)[k]
      BY <2>1
    <3>3. kind = "terminal" <=> k = 7
      BY <2>2, <3>1
    <3>4. k + 1 = 7 => kind = "hold"
      BY <2>2, <3>1
    <3> HIDE DEF kind
    <3> QED  BY <1>3, <2>1, <2>2, <3>2, <3>3, <3>4
  <2> QED  BY <2>3, <2>4
<1> QED  BY <1>1, <1>2, <1>3 DEF Scenarios

LEMMA PhasesAreSequences ==
  ASSUME NEW s \in Scenarios
  PROVE  DOMAIN Phases(s) = 1 .. Len(Phases(s))
<1>1. /\ DOMAIN Legit = 1 .. 7 /\ Len(Legit) = 7
      /\ DOMAIN Blocked = 1 .. 5 /\ Len(Blocked) = 5
      /\ DOMAIN Overspend = 1 .. 7 /\ Len(Overspend) = 7
  BY DEF Legit, Blocked, Overspend
<1> QED  BY <1>1 DEF Phases, Scenarios

\* What a panel shows is a run with its scenario.
LEMMA ShownFacts ==
  ASSUME DemoAssumption, TheaterInv, NEW p \in Panels, Shown(p)
  PROVE  /\ active[p].run \in Ids
         /\ Scenario(p) \in Scenarios
         /\ stage[p].phase \in 1 .. Len(Phases(Scenario(p)))
         /\ stage[p].mode \in Modes
         /\ Kind(p) = Phases(Scenario(p))[stage[p].phase]
         /\ active[p].result \in Outcomes \cup {None}
         /\ Kind(p) = "terminal" => active[p].result # None
<1>1. active[p].run \in Ids
  BY DEF TheaterInv, DemoInv, PanelInv, Shown
<1>2. Scenario(p) \in Scenarios /\ active[p].result \in Outcomes \cup {None}
  BY <1>1, DemoTyped DEF TheaterInv, Scenario, RunType, ShownType
<1>3. Len(Phases(Scenario(p))) \in 2 .. 7
  BY <1>2, Scripts
<1>4. /\ stage[p].phase \in 1 .. 7 /\ stage[p].mode \in Modes
      /\ stage[p].phase <= Len(Phases(Scenario(p)))
      /\ Kind(p) = "terminal" => active[p].result # None
  BY DEF TheaterInv, StageInv
<1> QED  BY <1>1, <1>2, <1>3, <1>4 DEF Kind, KindIn

\* A new stage is far from the last frame.
LEMMA MountedIsEarly ==
  ASSUME NEW s \in Scenarios
  PROVE  /\ Mounted \in [phase : 1 .. 7, mode : Modes]
         /\ Mounted.phase <= Len(Phases(s))
         /\ Phases(s)[Mounted.phase] # "terminal"
<1>1. Mounted \in [phase : 1 .. 7, mode : Modes] /\ Mounted.phase = 1
  BY DEF Mounted, Modes
<1>2. Len(Phases(s)) \in 2 .. 7
  BY Scripts
<1>3. 1 \in 1 .. Len(Phases(s)) /\ Len(Phases(s)) # 1
  BY <1>2
<1>4. Phases(s)[1] # "terminal"
  BY <1>3, Scripts
<1> QED  BY <1>1, <1>2, <1>4

\* A step of one theater, with the runs as they are.
LEMMA StageMoves ==
  ASSUME DemoAssumption, TheaterInv, UNCHANGED demoVars, NEW p \in Panels, Shown(p),
         NEW g \in [phase : 1 .. 7, mode : Modes], stage' = [stage EXCEPT ![p] = g],
         g.phase <= Len(Phases(Scenario(p))),
         Phases(Scenario(p))[g.phase] = "terminal" => active[p].result # None
  PROVE  TheaterInv'
<1>1. UNCHANGED <<lastRun, runs, wait, active, poller, blocked, misread, faults>>
  BY DEF demoVars
<1>2. DemoInv'
  BY DemoStep DEF TheaterInv
<1>3. /\ stage \in [Panels -> [phase : 1 .. 7, mode : Modes]]
      /\ \A q \in Panels : Shown(q) =>
           /\ stage[q].phase <= Len(Phases(Scenario(q)))
           /\ Kind(q) = "terminal" => active[q].result # None
  BY DEF TheaterInv, StageInv
<1>4. stage' \in [Panels -> [phase : 1 .. 7, mode : Modes]]
  BY <1>3
<1>5. ASSUME NEW q \in Panels, Shown(q)'
      PROVE  /\ stage'[q].phase <= Len(Phases(Scenario(q)'))
             /\ Kind(q)' = "terminal" => active'[q].result # None
  <2>0. Scenario(q)' = Scenario(q) /\ Shown(q)
    BY <1>1, <1>5 DEF Scenario, Shown
  <2>1. CASE q = p
    <3>1. stage'[q] = g
      BY <1>3, <2>1
    <3>2. Kind(q)' = Phases(Scenario(p))[g.phase]
      BY <2>0, <2>1, <3>1 DEF Kind, KindIn
    <3> QED  BY <1>1, <2>0, <2>1, <3>1, <3>2
  <2>2. CASE q # p
    <3>1. stage'[q] = stage[q]
      BY <1>3, <2>2
    <3>2. Kind(q)' = Kind(q)
      BY <2>0, <3>1 DEF Kind, KindIn
    <3> QED  BY <1>1, <1>3, <2>0, <3>1, <3>2
  <2> QED  BY <2>1, <2>2
<1> QED  BY <1>2, <1>4, <1>5 DEF TheaterInv, StageInv

LEMMA TheaterDispatch ==
  ASSUME DemoAssumption, TheaterInv, NEW p \in Panels, NEW s \in Scenarios, Dispatch(p, s)
  PROVE  TheaterInv'
<1>1. DemoInv /\ HandleRun(p, s)
  BY DEF TheaterInv, Dispatch
<1>2. /\ DemoInv'
      /\ active'[p] = [run |-> Len(runs) + 1, result |-> None]
      /\ \A other \in Panels \ {p} : active'[other] = active[other]
      /\ \A id \in Ids : runs'[id] = runs[id]
      /\ runs'[Len(runs) + 1].scenario = s
  BY <1>1, DispatchStep
<1>3. /\ stage \in [Panels -> [phase : 1 .. 7, mode : Modes]]
      /\ stage' = [stage EXCEPT ![p] = Mounted]
  BY DEF TheaterInv, StageInv, Dispatch
<1>4. stage' \in [Panels -> [phase : 1 .. 7, mode : Modes]]
  BY <1>3, MountedIsEarly
<1>5. ASSUME NEW q \in Panels, Shown(q)'
      PROVE  /\ stage'[q].phase <= Len(Phases(Scenario(q)'))
             /\ Kind(q)' = "terminal" => active'[q].result # None
  <2>1. CASE q = p
    <3>1. stage'[q] = Mounted /\ Scenario(q)' = s
      BY <1>2, <1>3, <2>1 DEF Scenario
    <3>2. Kind(q)' = Phases(s)[Mounted.phase]
      BY <3>1 DEF Kind, KindIn
    <3> QED  BY <3>1, <3>2, MountedIsEarly
  <2>2. CASE q # p
    <3>1. stage'[q] = stage[q] /\ active'[q] = active[q] /\ Shown(q)
      BY <1>2, <1>3, <1>5, <2>2 DEF Shown
    <3>2. active[q].run \in Ids
      BY <1>1, <3>1 DEF DemoInv, PanelInv, Shown
    <3>3. Scenario(q)' = Scenario(q)
      BY <1>2, <3>1, <3>2 DEF Scenario
    <3>4. Kind(q)' = Kind(q)
      BY <3>1, <3>3 DEF Kind, KindIn
    <3>5. /\ stage[q].phase <= Len(Phases(Scenario(q)))
          /\ Kind(q) = "terminal" => active[q].result # None
      BY <3>1 DEF TheaterInv, StageInv
    <3> QED  BY <3>1, <3>3, <3>4, <3>5
  <2> QED  BY <2>1, <2>2
<1> QED  BY <1>2, <1>4, <1>5 DEF TheaterInv, StageInv

\* A beat: the last frame is reached from a hold that a result has ended.
LEMMA TheaterAdvance ==
  ASSUME DemoAssumption, TheaterInv, NEW p \in Panels, Advance(p)
  PROVE  TheaterInv'
<1>0. /\ Shown(p) /\ CanLeaveHold(p, stage) /\ UNCHANGED demoVars
      /\ stage[p] \in [phase : 1 .. 7, mode : Modes]
  BY DEF Advance, TheaterInv, StageInv
<1> DEFINE s == Scenario(p)  k == stage[p].phase
<1>1. /\ s \in Scenarios /\ k \in 1 .. Len(Phases(s)) /\ Kind(p) = Phases(s)[k]
      /\ Kind(p) = "terminal" => active[p].result # None
  BY <1>0, ShownFacts
<1>2. /\ Len(Phases(s)) \in 2 .. 7
      /\ \A i \in 1 .. Len(Phases(s)) :
           /\ Phases(s)[i] = "terminal" <=> i = Len(Phases(s))
           /\ i + 1 = Len(Phases(s)) => Phases(s)[i] = "hold"
  BY <1>1, Scripts
<1>3. CASE AtLast(p)
  <2> DEFINE g == [stage[p] EXCEPT !.mode = "settled"]
  <2>1. g \in [phase : 1 .. 7, mode : Modes] /\ g.phase = k
    BY <1>0 DEF Modes
  <2>2. stage' = [stage EXCEPT ![p] = g]
    BY <1>3 DEF Advance
  <2> HIDE DEF g, s, k
  <2>3. g.phase <= Len(Phases(s)) /\ (Phases(s)[g.phase] = "terminal" => active[p].result # None)
    BY <1>1, <1>2, <2>1
  <2> QED  BY <1>0, <2>1, <2>2, <2>3, StageMoves DEF s
<1>4. CASE ~AtLast(p)
  <2>1. PICK mode \in Modes : mode = IF stage[p].mode = "stepping" THEN "paused" ELSE "playing"
    BY DEF Modes
  <2> DEFINE g == [phase |-> k + 1, mode |-> mode]
  <2>2. stage' = [stage EXCEPT ![p] = g]
    BY <1>4, <2>1 DEF Advance
  <2>3. CanLeaveHold(p, stage) /\ (Kind(p) = "hold" => active[p].result # None)
    BY <1>0 DEF CanLeaveHold, Kind
  <2> HIDE DEF s, k
  <2>3a. k # Len(Phases(s))
    BY <1>1, <1>2, <1>4 DEF AtLast
  <2>3b. PICK n \in 2 .. 7 : n = Len(Phases(s))
    BY <1>2
  <2>3c. k \in 1 .. n /\ k # n
    BY <1>1, <2>3a, <2>3b
  <2>3d. k \in Nat /\ k + 1 \in 1 .. n /\ k + 1 \in 1 .. 7
    BY <2>3b, <2>3c
  <2>4. k \in Nat /\ k + 1 \in 1 .. Len(Phases(s)) /\ k + 1 \in 1 .. 7
    BY <2>3b, <2>3d
  <2>5. g \in [phase : 1 .. 7, mode : Modes] /\ g.phase = k + 1
    BY <2>1, <2>4
  <2>6. Phases(s)[k + 1] = "terminal" => Phases(s)[k] = "hold"
    BY <1>1, <1>2, <2>4
  <2> HIDE DEF g
  <2>7. g.phase <= Len(Phases(s)) /\ (Phases(s)[g.phase] = "terminal" => active[p].result # None)
    BY <1>1, <1>2, <2>3, <2>4, <2>5, <2>6
  <2> QED  BY <1>0, <2>2, <2>5, <2>7, StageMoves DEF s
<1> QED  BY <1>3, <1>4

\* Pausing, resuming and stepping change the mode alone.
LEMMA TheaterMode ==
  ASSUME DemoAssumption, TheaterInv, NEW p \in Panels, Shown(p), UNCHANGED demoVars,
         NEW mode \in Modes, stage' = [stage EXCEPT ![p].mode = mode]
  PROVE  TheaterInv'
<1> DEFINE g == [stage[p] EXCEPT !.mode = mode]
<1>1. stage[p] \in [phase : 1 .. 7, mode : Modes]
  BY DEF TheaterInv, StageInv
<1>2. g \in [phase : 1 .. 7, mode : Modes] /\ g.phase = stage[p].phase
  BY <1>1
<1>3. stage' = [stage EXCEPT ![p] = g]
  OBVIOUS
<1> HIDE DEF g
<1>4. /\ stage[p].phase <= Len(Phases(Scenario(p)))
      /\ Kind(p) = "terminal" => active[p].result # None
      /\ Kind(p) = Phases(Scenario(p))[stage[p].phase]
  BY DEF TheaterInv, StageInv, Kind, KindIn
<1> QED  BY <1>2, <1>3, <1>4, StageMoves

\* The runs go on under the theater: a result that has come stays.
LEMMA TheaterRuns ==
  ASSUME DemoAssumption, TheaterInv, UNCHANGED stage,
         DemoInv',
         \A p \in Panels : active'[p].run = active[p].run /\
           (active[p].result # None => active'[p].result # None),
         \A id \in Ids : runs'[id].scenario = runs[id].scenario
  PROVE  TheaterInv'
<1>1. stage' \in [Panels -> [phase : 1 .. 7, mode : Modes]]
  BY DEF TheaterInv, StageInv
<1>2. ASSUME NEW q \in Panels, Shown(q)'
      PROVE  /\ stage'[q].phase <= Len(Phases(Scenario(q)'))
             /\ Kind(q)' = "terminal" => active'[q].result # None
  <2>1. Shown(q) /\ active'[q].run = active[q].run /\ stage'[q] = stage[q]
    BY <1>2 DEF Shown
  <2>2. active[q].run \in Ids
    BY <2>1 DEF TheaterInv, DemoInv, PanelInv, Shown
  <2>3. Scenario(q)' = Scenario(q)
    BY <2>1, <2>2 DEF Scenario
  <2>4. Kind(q)' = Kind(q)
    BY <2>1, <2>3 DEF Kind, KindIn
  <2>5. /\ stage[q].phase <= Len(Phases(Scenario(q)))
        /\ Kind(q) = "terminal" => active[q].result # None
    BY <2>1 DEF TheaterInv, StageInv
  <2> QED  BY <2>1, <2>3, <2>4, <2>5
<1> QED  BY <1>1, <1>2 DEF TheaterInv, StageInv
\* While no run begins, a panel keeps its run, the run its scenario, and a
\* result that has come stays.
LEMMA WaitKeeps ==
  ASSUME DemoAssumption, DemoInv, NEW id \in Ids, Waiting(id),
         NEW result \in Outcomes, EndWait(id, result)
  PROVE  \A p \in Panels : active'[p].run = active[p].run /\
           (active[p].result # None => active'[p].result # None)
<1> SUFFICES ASSUME NEW p \in Panels
             PROVE  active'[p].run = active[p].run /\
                      (active[p].result # None => active'[p].result # None)
  OBVIOUS
<1>1. /\ \A i \in Ids : i # id => wait'[i].result = wait[i].result
      /\ active'[p].run = active[p].run
      /\ active[p].run # 0 => active'[p].result = wait'[active[p].run].result
  BY WaitEnds
<1>2. /\ active[p].run = 0 => active[p].result = None
      /\ active[p].run # 0 => active[p].run \in Ids /\ active[p].result = wait[active[p].run].result
  BY DEF DemoInv, PanelInv
<1>3. wait[id].result = None
  BY DEF Waiting
<1> QED  BY <1>1, <1>2, <1>3

LEMMA RunsKeep ==
  ASSUME DemoAssumption, DemoInv, RunsGoOn
  PROVE  /\ \A p \in Panels : active'[p].run = active[p].run /\
              (active[p].result # None => active'[p].result # None)
         /\ \A id \in Ids : runs'[id].scenario = runs[id].scenario
<1>0. runs \in Seq(RunType) /\ \A id \in Ids : runs[id] \in RunType
  BY DemoTyped
<1>2. ASSUME NEW id \in Ids, PollStatus(id)
      PROVE  /\ UNCHANGED runs
             /\ \A p \in Panels : active'[p].run = active[p].run /\
                  (active[p].result # None => active'[p].result # None)
  <2>0. UNCHANGED runs /\ Waiting(id) /\ "failed" \in Outcomes
    BY <1>2 DEF PollStatus, Outcomes
  <2>1. CASE IsMine(id)
    BY <1>2, <2>0, <2>1, AnswerIsOwn, WaitKeeps DEF PollStatus
  <2>2. CASE ~IsMine(id) /\ wait[id].polls + 1 < MaxAttempts
    BY <1>2, <2>0, <2>2 DEF PollStatus
  <2>3. CASE ~IsMine(id) /\ ~(wait[id].polls + 1 < MaxAttempts)
    BY <1>2, <2>0, <2>3, WaitKeeps DEF PollStatus
  <2> QED  BY <2>1, <2>2, <2>3
<1>3. ASSUME NEW id \in Ids, RuntimeOffline(id)
      PROVE  /\ \A p \in Panels : active'[p].run = active[p].run /\
                  (active[p].result # None => active'[p].result # None)
             /\ \A i \in Ids : runs'[i].scenario = runs[i].scenario
  <2>1. /\ Waiting(id) /\ EndWait(id, "failed") /\ "failed" \in Outcomes
        /\ runs' = [runs EXCEPT ![id].pc = IF @ = "post" THEN "lost" ELSE @]
    BY <1>3 DEF RuntimeOffline, Outcomes
  <2>2. \A i \in Ids : runs'[i].scenario = runs[i].scenario
    BY <1>0, <2>1 DEF RunType, Ids
  <2> QED  BY <2>1, <2>2, WaitKeeps
<1>4. ASSUME NEW id \in Ids, StartRun(id) \/ RunFlow(id)
      PROVE  UNCHANGED active /\ \A i \in Ids : runs'[i].scenario = runs[i].scenario
  <2>1. CASE StartRun(id)
    <3>1. runs' = [runs EXCEPT ![id].pc = "flow"] /\ UNCHANGED active
      BY <2>1 DEF StartRun
    <3>2. \A i \in Ids : runs'[i].scenario = runs[i].scenario
      BY <1>0, <3>1 DEF RunType, Ids
    <3> QED  BY <3>1, <3>2
  <2>2. CASE RunFlow(id)
    <3>1. PICK o : runs' = [runs EXCEPT ![id].pc = "done", ![id].outcome = o]
      BY <2>2 DEF RunFlow
    <3> DEFINE q == [runs[id] EXCEPT !.pc = "done", !.outcome = o]
    <3>2. q.scenario = runs[id].scenario
      BY <1>0 DEF RunType
    <3>3. runs' = [runs EXCEPT ![id] = q]
      BY <3>1
    <3> HIDE DEF q
    <3>4. \A i \in Ids : runs'[i].scenario = runs[i].scenario
      BY <3>2, <3>3 DEF Ids
    <3> QED  BY <2>2, <3>4 DEF RunFlow
  <2> QED  BY <1>4, <2>1, <2>2
<1>5. ASSUME RestartControl
      PROVE  UNCHANGED active /\ \A i \in Ids : runs'[i].scenario = runs[i].scenario
  BY <1>0, <1>5 DEF RestartControl, RunType
<1>6. ASSUME NEW q \in Pollers, Tick(q) \/ MisreadExists(q) \/ RestartPoller(q)
      PROVE  UNCHANGED <<active, runs>>
  BY <1>6 DEF Tick, FetchStatus, CheckExists, MisreadExists, InsertBlockedAttempt, RestartPoller
<1> QED  BY <1>2, <1>3, <1>4, <1>5, <1>6 DEF RunsGoOn

LEMMA TheaterStep ==
  ASSUME DemoAssumption, TheaterInv, [Next]_theaterVars
  PROVE  TheaterInv'
<1>1. CASE UNCHANGED theaterVars
  <2>1. UNCHANGED <<demoVars, lastRun, runs, wait, active, poller, blocked, misread, faults, stage>>
    BY <1>1 DEF theaterVars, demoVars
  <2>2. DemoInv'
    BY <2>1, DemoStep DEF TheaterInv
  <2>3. StageInv'
    BY <2>1 DEF TheaterInv, StageInv, Shown, Kind, KindIn, Scenario
  <2> QED  BY <2>2, <2>3 DEF TheaterInv
<1>2. ASSUME NEW p \in Panels, NEW s \in Scenarios, Dispatch(p, s) PROVE TheaterInv'
  BY <1>2, TheaterDispatch
<1>3. ASSUME NEW p \in Panels, Advance(p) PROVE TheaterInv'
  BY <1>3, TheaterAdvance
<1>4. ASSUME NEW p \in Panels, Pause(p) \/ Resume(p) \/ Step(p) PROVE TheaterInv'
  <2>1. Shown(p) /\ UNCHANGED demoVars /\ {"paused", "playing", "stepping"} \subseteq Modes
    BY <1>4 DEF Pause, Resume, Step, Modes
  <2>2. PICK mode \in Modes : stage' = [stage EXCEPT ![p].mode = mode]
    BY <1>4, <2>1 DEF Pause, Resume, Step
  <2> QED  BY <2>1, <2>2, TheaterMode
<1>5. ASSUME NEW p \in Panels, Replay(p) PROVE TheaterInv'
  <2>1. Shown(p) /\ UNCHANGED demoVars /\ stage' = [stage EXCEPT ![p] = Mounted]
    BY <1>5 DEF Replay
  <2>2. Scenario(p) \in Scenarios
    BY <2>1, ShownFacts
  <2> QED  BY <2>1, <2>2, MountedIsEarly, StageMoves
<1>6. CASE RunsGoOn /\ UNCHANGED stage
  <2>1. DemoInv /\ DemoInv'
    BY <1>6, DemoStep DEF TheaterInv, DemoNext
  <2> QED  BY <1>6, <2>1, RunsKeep, TheaterRuns
<1> QED  BY <1>1, <1>2, <1>3, <1>4, <1>5, <1>6 DEF Next

LEMMA TheaterStart ==
  ASSUME DemoAssumption, Init
  PROVE  TheaterInv
<1>1. DemoInv
  BY DemoStart DEF Init
<1>2. stage \in [Panels -> [phase : 1 .. 7, mode : Modes]]
  BY DEF Init, Mounted, Modes
<1>3. \A p \in Panels : ~Shown(p)
  BY DEF Init, DemoInit, Shown
<1> QED  BY <1>1, <1>2, <1>3 DEF TheaterInv, StageInv

\* What a result says of its run: a payment shown was made, and a run of the
\* scenario that is to be denied never shows one.
LEMMA ShownResult ==
  ASSUME DemoAssumption, TheaterInv, NEW p \in Panels, Shown(p)
  PROVE  /\ wait[active[p].run].result = active[p].result
         /\ active[p].result = "success" => runs[active[p].run].outcome = "success"
         /\ active[p].result = "success" => Scenario(p) # "blocked"
<1>1. active[p].run \in Ids
  BY ShownFacts
<1>2. wait[active[p].run].result = active[p].result
  BY DEF TheaterInv, DemoInv, PanelInv, Shown
<1>3. active[p].result = "success" => runs[active[p].run].outcome = "success"
  BY <1>1, <1>2 DEF TheaterInv, DemoInv, WaitInv
<1>4. runs[active[p].run].outcome = "success" => "success" \in FlowOutcomes(Scenario(p))
  BY <1>1 DEF TheaterInv, DemoInv, OutcomeInv, Scenario, DemoAssumption
<1>5. "success" \in FlowOutcomes(Scenario(p)) => Scenario(p) # "blocked"
  BY DEF FlowOutcomes
<1> QED  BY <1>2, <1>3, <1>4, <1>5

\* The views of one panel, on its last frame and before it.
LEMMA LastFrame ==
  ASSUME DemoAssumption, TheaterInv, NEW p \in Panels, Shown(p), IsTerminal(p)
  PROVE  LET result == active[p].result  frame == DecisionLabel(p)
             paid == runs[active[p].run].outcome = "success"
         IN /\ result # None
            /\ TerminalStamp(Scenario(p), result) = frame
            /\ FrozenAtGuard(p) <=> frame = "blocked"
            /\ NextAction(p) = "open receipt" => paid
            /\ NextAction(p) = "retry" <=> result = "failed"
<1> DEFINE s == Scenario(p)  result == active[p].result  frame == DecisionLabel(p)
<1>1. /\ s \in {"legit", "blocked", "overspend"}
      /\ result \in {"success", "blocked", "failed"} /\ result # None
  BY ShownFacts DEF IsTerminal, Scenarios, Outcomes
<1>2. result = "success" => runs[active[p].run].outcome = "success" /\ s # "blocked"
  BY ShownResult
<1>3. frame = IF result = "success" /\ s = "overspend" THEN "overspend" ELSE result
  BY <1>1 DEF DecisionLabel, ResolveTerminal
<1>4. TerminalStamp(s, result) = frame
  BY <1>1, <1>3 DEF TerminalStamp
<1>5. FrozenAtGuard(p) <=> frame = "blocked"
  BY <1>1, <1>3 DEF FrozenAtGuard
<1>6. NextAction(p) = "open receipt" => result = "success"
  BY <1>1, <1>3 DEF NextAction
<1>7. NextAction(p) = "retry" <=> result = "failed"
  BY <1>1, <1>3 DEF NextAction
<1> QED  BY <1>1, <1>2, <1>4, <1>5, <1>6, <1>7

LEMMA EarlierFrame ==
  ASSUME DemoAssumption, TheaterInv, NEW p \in Panels, Shown(p), ~IsTerminal(p)
  PROVE  NextAction(p) = "none"
<1>1. DecisionLabel(p) \in {"awaiting", "rolling"}
  BY DEF DecisionLabel
<1> QED  BY <1>1 DEF NextAction

LEMMA FramesAgree ==
  ASSUME DemoAssumption, TheaterInv
  PROVE  TerminalAwaitsResult
BY LastFrame, EarlierFrame DEF TerminalAwaitsResult

\* No theater shows the end of a run whose result has not come, whatever its
\* user and the runs of the others do; and what its views say of it agrees.
THEOREM TerminalFrames == Spec => []TerminalAwaitsResult
<1>1. Init => TheaterInv
  BY TheaterStart, DemoAssumption
<1>2. TheaterInv /\ [Next]_theaterVars => TheaterInv'
  BY TheaterStep, DemoAssumption
<1>3. TheaterInv => TerminalAwaitsResult
  BY FramesAgree, DemoAssumption
<1> QED  BY <1>1, <1>2, <1>3, PTL DEF Spec
===============================================================================
