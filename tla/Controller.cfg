\* Calls between ticks (the host build), with the dielectric interlock: a flow
\* that never fails is a controller without one.  Every timer expires before
\* the clock stops at MaxNow, and it does not wrap.
SPECIFICATION Spec
CONSTANTS
  IgniteMax = 1  FinishMax = 2  SMax = 4  Adaptive = TRUE
  ShortLimit = 2
  Word = 100
  TeleHold = 1  TeleFault = 2  AckTime = 3  StallTime = 0
  ReliefTime = 1  ClearTime = 3  TouchOffBudget = 2
  DrainBudget = 1  ContactLimit = 2  LostLimit = 2  Byte = 4
  SWords = {3}
  Windows <- MCWindows
  Severities = {1, 2, 3}
  DielRequired = TRUE
  Serialised = TRUE
  TickGaps = {1}
  MaxNow = 5
INVARIANTS TypeOK SparkOffWhenFaulted SparkOffWhenIdle BoundsInSync ModeRestored NoOverdueTimer NoAdvanceOnBreak NoBlindAdvance
PROPERTIES ImplementsCut DielectricGuards
