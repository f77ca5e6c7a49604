\* SLCAN: read_frames awaits serial data while it holds the lock.
SPECIFICATION FairSpec
CONSTANTS
  InCap = 1
  OutCap = 1
  MaxIn = 1
  MaxRx = 1
  Junk = {}
  ReadBlocks = TRUE
  ReadFails = FALSE
  PipeFails = FALSE
PROPERTIES
  InForwarded
