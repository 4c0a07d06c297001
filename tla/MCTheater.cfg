SPECIFICATION FairSpec
CONSTANTS
  p1 = p1  q1 = q1  None = None
  Panels = {p1}
  Pollers = {q1}
  MaxRuns = 2
  MaxAttempts = 1
  MaxFaults = 1
CHECK_DEADLOCK FALSE
INVARIANTS
  ResultIsOwn
  TerminalAwaitsResult
PROPERTIES
  BlockedIsRecorded
  SpinnerEnds
  TheaterSettles
