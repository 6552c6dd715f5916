CONSTANTS
  KeyTable <- MCKeys
  Port2 = {"present"}
  KeysWithMouse = {"NUM"}
  MaxStrokes = 1
  MaxPackets = 1
  Movements = {0}
  EarlyKeys = FALSE
  Prompt = TRUE
SPECIFICATION FairSpec
PROPERTY PollingEnds
CHECK_DEADLOCK FALSE
