----------------------------- MODULE DemoTheater -----------------------------
(***************************************************************************)
(* The theater of the agent action console: a phase machine driven by a    *)
(* timer that holds until the real result of the run has come, and can be  *)
(* paused, stepped and replayed meanwhile.                                 *)
(***************************************************************************)
EXTENDS DemoControl

VARIABLE
  stage \* the theater of each panel: its phase, its mode, a pending timer

theaterVars == <<demoVars, stage>>

Modes == {"playing", "paused", "stepping", "settled"}

\* The kind of each beat.
Legit ==
  <<"normal", "normal", "guard-evaluating", "normal", "normal", "hold", "terminal">>
Blocked ==
  <<"normal", "normal", "guard-evaluating", "hold", "terminal">>
Overspend ==
  <<"normal", "normal", "guard-warn", "guard-warn", "normal", "hold", "terminal">>
Phases(s) ==
  CASE s = "legit" -> Legit [] s = "blocked" -> Blocked [] s = "overspend" -> Overspend

Scenario(p) == runs[active[p].run].scenario
KindIn(p, st) == Phases(Scenario(p))[st[p].phase]
Kind(p) == KindIn(p, stage)
Shown(p) == active[p].run # 0
CanLeaveHoldAlways(p, st) == TRUE
CanLeaveHoldPaid(p, st) == KindIn(p, st) = "hold" => active[p].result = "success"
CanLeaveHold(p, st) == KindIn(p, st) = "hold" => active[p].result # None
IsHolding(p) == ~CanLeaveHold(p, stage)
IsTerminal(p) == Shown(p) /\ Kind(p) = "terminal"
AtLast(p) == Kind(p) = "terminal"

TheaterTypeOK ==
  /\ DemoTypeOK
  /\ stage \in [Panels -> [phase : 1 .. 7, mode : Modes]]
  /\ \A p \in Panels : Shown(p) => stage[p].phase <= Len(Phases(Scenario(p)))

Mounted == [phase |-> 1, mode |-> "playing"]

Init == DemoInit /\ stage = [p \in Panels |-> Mounted]

\* A new runKey mounts a new theater.
Dispatch(p, s) ==
  /\ HandleRun(p, s)
  /\ stage' = [stage EXCEPT ![p] = Mounted]

\* The effect that follows each render: settle on the last frame, wait at the
\* hold, advance one beat and pause, or advance when the timer fires.
Advance(p) ==
  /\ Shown(p)
  /\ stage[p].mode \in {"playing", "stepping"}
  /\ CanLeaveHold(p, stage)
  /\ stage' = [stage EXCEPT ![p] =
       IF AtLast(p) THEN [@ EXCEPT !.mode = "settled"]
       ELSE [phase |-> @.phase + 1,
             mode |-> IF @.mode = "stepping" THEN "paused" ELSE "playing"]]
  /\ UNCHANGED demoVars

Pause(p) ==
  /\ Shown(p) /\ stage[p].mode = "playing"
  /\ stage' = [stage EXCEPT ![p].mode = "paused"]
  /\ UNCHANGED demoVars

Resume(p) ==
  /\ Shown(p) /\ stage[p].mode \in {"paused", "stepping"} /\ ~IsTerminal(p)
  /\ stage' = [stage EXCEPT ![p].mode = "playing"]
  /\ UNCHANGED demoVars

Step(p) ==
  /\ Shown(p) /\ ~IsTerminal(p) /\ ~IsHolding(p)
  /\ stage' = [stage EXCEPT ![p].mode = "stepping"]
  /\ UNCHANGED demoVars

Replay(p) ==
  /\ Shown(p)
  /\ stage' = [stage EXCEPT ![p] = Mounted]
  /\ UNCHANGED demoVars

Next ==
  \/ \E p \in Panels, s \in Scenarios : Dispatch(p, s)
  \/ \E p \in Panels : Advance(p) \/ Pause(p) \/ Resume(p) \/ Step(p) \/ Replay(p)
  \/ RunsGoOn /\ UNCHANGED stage

Spec == Init /\ [][Next]_theaterVars

\* Timers fire and every process runs: requests arrive, flows end, pollers tick.
FairSpec ==
  /\ Spec
  /\ \A p \in Panels : WF_theaterVars(Advance(p))
  /\ \A id \in 1 .. MaxRuns :
       /\ WF_theaterVars(id \in Ids /\ StartRun(id) /\ UNCHANGED stage)
       /\ WF_theaterVars(id \in Ids /\ RunFlow(id) /\ UNCHANGED stage)
       /\ WF_theaterVars(id \in Ids /\ PollStatus(id) /\ UNCHANGED stage)
  /\ \A q \in Pollers : WF_theaterVars(Tick(q) /\ UNCHANGED stage)

----------------------------------------------------------------------------
(* What the frames say of a run: each view reads the result for itself.    *)

\* The kind of the last frame; without a result it would be the scripted one.
ResolveTerminal(s, result) ==
  IF result = None THEN IF s = "legit" THEN "success" ELSE s
  ELSE IF result = "success" /\ s = "overspend" THEN "overspend"
  ELSE result

\* The stamp under the stage.
TerminalStamp(s, result) ==
  IF result = None THEN "awaiting"
  ELSE IF result \in {"failed", "blocked"} THEN result
  ELSE IF s = "overspend" THEN "overspend" ELSE "success"

\* The packet stays at the guard of a denied run.
FrozenAtGuard(p) == IsTerminal(p) /\ active[p].result = "blocked"

\* The label of the decision panel, and the action it offers next.
DecisionLabel(p) ==
  IF IsTerminal(p) THEN ResolveTerminal(Scenario(p), active[p].result)
  ELSE IF IsHolding(p) THEN "awaiting" ELSE "rolling"
NextAction(p) ==
  LET frame == DecisionLabel(p) IN
  IF frame \in {"success", "overspend"} THEN "open receipt"
  ELSE IF frame = "failed" THEN "retry" ELSE "none"

----------------------------------------------------------------------------
\* "The terminal phase is only revealed after `realResult` is known"
\* (use-demo-visualizer.ts:53): through pauses, steps, replays and re-runs no
\* last frame is shown for a run that has not ended.  The stamp and the packet say
\* of it what the decision panel says; a receipt is offered only for a run that
\* paid, a retry only for one that failed, and neither before.
TerminalAwaitsResult ==
  \A p \in Panels : Shown(p) =>
    LET result == active[p].result  frame == DecisionLabel(p)
        paid == runs[active[p].run].outcome = "success"
    IN IF IsTerminal(p)
       THEN /\ result # None
            /\ TerminalStamp(Scenario(p), result) = frame
            /\ FrozenAtGuard(p) <=> frame = "blocked"
            /\ NextAction(p) = "open receipt" => paid
            /\ NextAction(p) = "retry" <=> result = "failed"
       ELSE NextAction(p) = "none"

\* A theater its user leaves alone comes to rest: on its last frame, or paused
\* where the user left it.  No hold outlasts the wait for the result, and no
\* step or replay leaves a timer that never fires.
UserStep ==
  \E p \in Panels :
    \/ \E s \in Scenarios : Dispatch(p, s)
    \/ Pause(p) \/ Resume(p) \/ Step(p) \/ Replay(p)
AtRest(p) == ~Shown(p) \/ stage[p].mode \in {"paused", "settled"}
TheaterSettles ==
  <>[][~UserStep]_theaterVars => \A p \in Panels : <>[]AtRest(p)
=============================================================================
