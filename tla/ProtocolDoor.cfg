SPECIFICATION Spec
CONSTANTS
  Homes = TRUE
  Parks = TRUE
  OffOnAlarm = FALSE
  QueueMax = 5
  TargetZ = 0
  Pullout = 1
  WorkZ <- MCWorkZ
  BlockLen = 1
  MaxBlocks = 1
  Lines = {"move", "M3"}
  Inputs = {"door", "cycleStart"}
  Rough = {}
  MaxLines = 2
  MaxInputs = 4
  MaxRough = 0
PROPERTY
  NoSpinUpWhileAjar
