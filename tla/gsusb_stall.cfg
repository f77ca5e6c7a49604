\* One bulk write stalls and the event loop recovers.
SPECIFICATION Spec
CONSTANTS
  CmdCap = 2
  FrameCap = 1
  NumRx = 1
  MaxTx = 1
  MaxRx = 1
  MaxFaults = 1
  MaxFound = 1
  Stalls = TRUE
  LeftRunning = FALSE
  Supports = {"ts", "pad"}
INVARIANTS
  FormatAgreement
CHECK_DEADLOCK FALSE
