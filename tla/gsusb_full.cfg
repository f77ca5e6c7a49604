\* The frame channel is full when the last call arrives.
SPECIFICATION FairSpec
CONSTANTS
  CmdCap = 2
  FrameCap = 1
  NumRx = 1
  MaxTx = 1
  MaxRx = 2
  MaxFaults = 0
  MaxFound = 1
  Stalls = FALSE
  LeftRunning = FALSE
  Supports = {"ts", "pad"}
PROPERTIES
  CloseReturns
CHECK_DEADLOCK FALSE
