CONSTANTS
  Table <- MCTable
  Structs <- MCStructs
  Responses <- MCResponses
  Links <- MCLinks
  WrongBytes = {0, 1, 2, 3, 4, 16, 128, 255}
SPECIFICATION Spec
CHECK_DEADLOCK FALSE
INVARIANTS Delivered Accepted
