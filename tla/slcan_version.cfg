\* The port was auto-detected, the channel left open by an earlier session.
SPECIFICATION Spec
CONSTANTS
  AutoDetect = TRUE
  AnswersB = TRUE
  LeftRunning = TRUE
  Kinds = {"t", "T"}
  MaxRx = 2
  MaxTime = 2
  Wrap = 2
INVARIANT VersionNotFrame
