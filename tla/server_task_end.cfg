\* The driver's read fails: the select! of main consumes a task's handle.
SPECIFICATION Spec
CONSTANTS
  InCap = 1
  OutCap = 1
  MaxIn = 1
  MaxRx = 1
  Junk = {}
  ReadBlocks = FALSE
  ReadFails = TRUE
  PipeFails = FALSE
INVARIANTS
  CloseOnExit
