\* The wire feed with severity-3 breaks and commands that race the tick.
SPECIFICATION FairSpec
CONSTANTS
  Scale <- MCScale
  CollapseN = 5  CollapsePct = 20  LoadedPct = 50
  LoadedRecent = 1  CollapseMs = 1  Word = 3
  Severities = {3}  Loads = {0, 50}
  Setpoints = {50}  Setpoint = 50
  Gaps = {1}
  Serialised = FALSE
INVARIANTS TypeOK LatchedStopsFeed
PROPERTIES NoAutoRecovery SevereBreakStops
