CONSTANTS
  Program <- MCProgram
  Segments <- MCSegments
  StackArea <- MCStackArea
  Ivt <- MCIvt
  FLAGS <- MCFlags
  Data = {0, 1}
  CodeLength = 3
SPECIFICATION Vm86Spec
PROPERTIES ImplementsCpu8086
CHECK_DEADLOCK FALSE
