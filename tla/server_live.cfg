\* The driver never fails and answers at once (gs_usb, PCAN): the server
\* stops for Ctrl-C only.
SPECIFICATION FairSpec
CONSTANTS
  InCap = 1
  OutCap = 1
  MaxIn = 2
  MaxRx = 1
  Junk = {}
  ReadBlocks = FALSE
  ReadFails = FALSE
  PipeFails = FALSE
INVARIANTS
  CloseOnExit
PROPERTIES
  InForwarded
  ConfigServed
  ShutdownEnds
