\* Every fault, an adapter left running by an earlier session, small channels.
SPECIFICATION Spec
CONSTANTS
  CmdCap = 2
  FrameCap = 2
  NumRx = 2
  MaxTx = 2
  MaxRx = 2
  MaxFaults = 2
  MaxFound = 2
  Stalls = TRUE
  LeftRunning = TRUE
  Supports = {"ts", "pad"}
INVARIANTS
  TypeOK
  NoLostReply
  TxOnce
  RxOrder
  ClosedMeansReset
CHECK_DEADLOCK FALSE
