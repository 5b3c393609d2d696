\* G-code calls inside the sections of a tick (the target): a short horizon, in
\* which every timer still expires.
SPECIFICATION Spec
CONSTANTS
  IgniteMax = 1  FinishMax = 2  SMax = 4  Adaptive = TRUE
  ShortLimit = 2
  Word = 100
  TeleHold = 1  TeleFault = 2  AckTime = 2  StallTime = 0
  ReliefTime = 1  ClearTime = 2  TouchOffBudget = 1
  DrainBudget = 2  ContactLimit = 1  LostLimit = 1  Byte = 4
  SWords = {0, 3}
  Windows <- MCRaceWindows
  Severities = {3}
  DielRequired = FALSE
  Serialised = FALSE
  TickGaps = {1}
  MaxNow = 3
INVARIANTS SparkOffWhenFaulted ServoTimersServed NoAdvanceOnBreak
