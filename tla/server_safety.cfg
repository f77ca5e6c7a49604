\* Everything may fail; read_frames waits for data holding the lock.
SPECIFICATION Spec
CONSTANTS
  InCap = 1
  OutCap = 1
  MaxIn = 3
  MaxRx = 3
  Junk <- MCJunk
  ReadBlocks = TRUE
  ReadFails = TRUE
  PipeFails = TRUE
INVARIANTS
  TypeOK
  LockOK
  InFifo
  OutOrder
PROPERTIES
  NoSendAfterClose
  ImplementsBridge
