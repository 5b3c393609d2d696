\* Lines and arcs, also beyond the buffer, behind queued rapids, with every
\* realtime event and with calls inside the ticks.
SPECIFICATION Spec
CONSTANTS
  Cap = 2
  DtMin = 1  DtMax = 2  SegMin = 2  SegMax = 4  AMax = 1  VMax = 1  VFloor = 1
  RetractMax = 4  EpsEnd = 1
  Serialised = FALSE
  Cuts <- MCCuts
  Speeds <- MCSpeeds
  Elapsed = {1, 2}
  Rapids = {4}
  StepLen = 2
  MaxInflight = 2
  Events = {"hold", "limit", "alarm", "reset"}
INVARIANTS TypeOK Arrives InWindow PendingShort EarlyEndNoSpark
PROPERTIES ShortBlocks
