\* The collapse detector: breaks up to severity 2, commands between ticks.
SPECIFICATION Spec
CONSTANTS
  Scale <- MCScale
  CollapseN = 5  CollapsePct = 20  LoadedPct = 50
  LoadedRecent = 5  CollapseMs = 3  Word = 8
  Severities = {2}  Loads = {0, 20, 50}
  Setpoints = {30, 50}  Setpoint = 50
  Gaps = {1, 2}
  Serialised = TRUE
INVARIANTS LatchIsEarned SnapDetected
