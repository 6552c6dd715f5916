CONSTANTS
  MAX_TASKS = 6
  PageSize = 2
  PageNumber = 6
  Lengths = {0, 1, 2, 3, 5, 8}
  ArgRange = 64
  PadRange = 32
  Byte = 8
  Word = 64
  x_max = 9
  y_max = 6
  screen_width = 4
  screen_height = 2
  delta_max = 5
SPECIFICATION AlgorithmsSpec
INVARIANTS ReturnsFirstFit LookupsAgree NumbersReadBack PointerFollowsMouse
CHECK_DEADLOCK FALSE
