\* No stall, a fresh adapter, and room in the frame channel for every frame.
SPECIFICATION FairSpec
CONSTANTS
  CmdCap = 2
  FrameCap = 2
  NumRx = 2
  MaxTx = 2
  MaxRx = 2
  MaxFaults = 2
  MaxFound = 1
  Stalls = FALSE
  LeftRunning = FALSE
  Supports = {"ts", "pad"}
INVARIANTS
  FormatAgreement
  RxComplete
  AckedOnBus
PROPERTIES
  InitEnds
  SendReturns
  CloseReturns
  RxForwarded
