CONSTANTS
  PageSize = 4
  PageNumber = 36
  ENTRIES = 6
  UserStart = 72
  LowerMemory = 12
  KernelEnd = 32
  MemoryEnd = 144
  Video = 8
  VideoLength = 4
  MAX_TASKS = 5
  TaskLength = 3
  StackLength = 4
  STACK_SIZE = 8
  Elfs = {"template", "two"}
  Suitable = {"template", "two", "table", "unaligned"}
  Segments <- MCSegments
  CODE_ADDRESS = 1
  CodeLength = 1
  Leftover = {"none", "template"}
SPECIFICATION Spec
INVARIANTS TablesKept NothingShared NothingLeaks KernelTablesAgree FaultsOnlyWhenShort
PROPERTIES ImplementsAddressSpaces
CHECK_DEADLOCK FALSE
