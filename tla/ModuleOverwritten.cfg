CONSTANTS
  PageSize = 4
  PageNumber = 16
  LowerMemory = 8
  FirstPageTable = 24
  kernel_start = 24
  kernel_end = 32
  MemoryMaps <- MCMemoryMaps
  InfoLength = 3
  Modules <- MCModules
  ModulePages <- MCAllPages
  Lengths = {0, 4, 6, 12}
SPECIFICATION Spec
INVARIANT ModulesIntact
