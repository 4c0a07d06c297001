SPECIFICATION DeskFairSpec
CONSTANTS
  None = None
  Tabs = {1}
  Refs <- MCRefs
  Verdicts = {"UPHELD"}
  Decided <- MCDecided
  Paid <- MCPaid  Over = {12}  Pinned = {12}
  InitialStake = 3  Threshold = 2  Window = 1  Slashed = 2
  MaxTime = 1  MaxFilings = 2  MaxFaults = 0  MaxUses = 2  MaxLoads = 2
PROPERTY
  PanelUpdates
