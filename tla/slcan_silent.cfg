\* The adapter does not answer the bitrate request.
\* The driver waits for ever for the answer.
CHECK_DEADLOCK FALSE
SPECIFICATION FairSpec
CONSTANTS
  AutoDetect = FALSE
  AnswersB = FALSE
  LeftRunning = FALSE
  Kinds = {"t", "T"}
  MaxRx = 2
  MaxTime = 2
  Wrap = 2
PROPERTY SetUpEnds
