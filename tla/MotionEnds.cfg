\* Liveness, with every realtime event: faults and resets end a move.
SPECIFICATION FairSpec
CONSTANTS
  Cap = 3
  DtMin = 1  DtMax = 2  SegMin = 2  SegMax = 4  AMax = 1  VMax = 1  VFloor = 1
  RetractMax = 4  EpsEnd = 1
  Serialised = FALSE
  Cuts <- MCShort
  Speeds <- MCSpeeds
  Elapsed = {2}
  Rapids = {}
  StepLen = 2
  MaxInflight = 1
  Events = {"hold", "limit", "alarm", "reset"}
PROPERTIES FaultEndsMove AbortEndsMove
