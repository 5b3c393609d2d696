SPECIFICATION Spec
CONSTANTS
  Homes = TRUE
  Parks = TRUE
  OffOnAlarm = FALSE
  QueueMax = 4
  TargetZ = 0
  Pullout = 1
  WorkZ <- MCWorkZ
  BlockLen = 1
  MaxBlocks = 1
  Lines = {"move", "M3", "jog", "$SLP", "$X"}
  Inputs = {"door", "cycleStart", "feedHold"}
  Rough = {"reset", "limit", "motionCancel", "spindleOvr", "spindleStop"}
  MaxLines = 2
  MaxInputs = 3
  MaxRough = 1
INVARIANTS
  TypeOK
  HoldStandsStill
  NoStaleStop
  ParkedIsOff
PROPERTIES
  ResumesInPlace
  HoldCompletes
  DoorStopsSpindle
