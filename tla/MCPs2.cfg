CONSTANTS
  KeyTable <- MCKeys
  Port2 = {"present", "reads 0", "reads 1"}
  KeysWithMouse = {"L SHFT", "R CTRL"}
  MaxStrokes = 3
  MaxPackets = 1
  Movements = {0, 8}
  EarlyKeys = FALSE
  Prompt = TRUE
SPECIFICATION FairSpec
INVARIANTS TypeOK RightDriver KeysRecognised PacketsAligned Port2Detected ConfigKept
PROPERTIES NothingStuck InitEnds
CHECK_DEADLOCK FALSE
