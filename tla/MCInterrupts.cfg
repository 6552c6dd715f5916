CONSTANTS
  MAIN = MAIN
  PS2 = PS2
  Users = {u}
  Irqs = {0, 1, 6, 12}
  IO_COLS = 2
  IO_ROWS = 1
SPECIFICATION Spec
INVARIANTS NoLineBlocked ResultsReachCallers SectionsWhole HandlersPrintWhole
CHECK_DEADLOCK FALSE
