\* Both links, with the interlock.
SPECIFICATION SysSpec
CONSTANTS
  IgniteMax = 1  FinishMax = 2  SMax = 4  Adaptive = TRUE
  ShortLimit = 2
  Word = 100
  TeleHold = 1  TeleFault = 2  AckTime = 2  StallTime = 9
  ReliefTime = 1  ClearTime = 2  TouchOffBudget = 1
  DrainBudget = 1  ContactLimit = 1  LostLimit = 1  Byte = 4
  SWords = {3}
  Windows <- MCWindows
  Severities = {3}
  DielRequired = TRUE
  Serialised = TRUE
  TickGaps = {1}
  MaxNow = 6
  Links = {"can", "sim"}
  FlowMin = 100  LevelMin = 15  FlowT <- MCFlowT  FlushLevels = {2}
  AskedMax = 0
INVARIANTS SysTypeOK DrySparkBounded
