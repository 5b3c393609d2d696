\* Any generator that answers SET_MODE_BOUNDS within a tick.
SPECIFICATION SysSpec
CONSTANTS
  IgniteMax = 1  FinishMax = 2  SMax = 4  Adaptive = TRUE
  ShortLimit = 2
  Word = 100
  TeleHold = 0  TeleFault = 1  AckTime = 2  StallTime = 0
  ReliefTime = 1  ClearTime = 2  TouchOffBudget = 2
  DrainBudget = 1  ContactLimit = 1  LostLimit = 1  Byte = 4
  SWords = {3}
  Windows <- MCWindows
  Severities = {3}
  DielRequired = FALSE
  Serialised = TRUE
  TickGaps = {1}
  MaxNow = 4
  MaxEvents = 1
  Refusals <- MCRefusals
  PromptAcks = TRUE
  Compatible = {TRUE}
INVARIANTS SysTypeOK FaultTelemetryStops SilenceEndsCut
PROPERTIES StartsInBounds
