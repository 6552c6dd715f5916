CONSTANTS
  Modulus = 16
  freq = 3
  MsPerSecond = 3
  Sixty = 2
  Waiters = {w1}
  Milliseconds = {0, 1, 3, 5}
  MaxGap = 3
SPECIFICATION PitSpec
INVARIANTS NeverEarly NoticedInTime
PROPERTIES ImplementsWallClock
