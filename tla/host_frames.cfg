\* Frames longer than a packet; an adapter that may have been left running.
SPECIFICATION Spec
CONSTANTS
  Wmax = 16
  Supports = {"ts", "pad"}
  LeftRunning = TRUE
  Ids <- MixedIds
  Dlcs = {0, 8}
  Fills = {255}
  Jumps = {1, 255}
  MaxFrames = 3
  MaxData = 8
INVARIANTS
  Exact
  TimeExact
PROPERTIES
  PanicsOnlyBare
