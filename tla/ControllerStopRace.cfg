\* M5 against the servo task on the other core.
SPECIFICATION Spec
CONSTANTS
  IgniteMax = 1  FinishMax = 2  SMax = 4  Adaptive = TRUE
  ShortLimit = 2
  Word = 100
  TeleHold = 1  TeleFault = 2  AckTime = 3  StallTime = 0
  ReliefTime = 1  ClearTime = 3  TouchOffBudget = 2
  DrainBudget = 1  ContactLimit = 2  LostLimit = 2  Byte = 4
  SWords = {3}
  Windows <- MCWindows
  Severities = {3}
  DielRequired = FALSE
  Serialised = FALSE
  TickGaps = {1}
  MaxNow = 5
INVARIANTS SparkOffWhenIdle
