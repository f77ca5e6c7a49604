\* Every driver of the server from its set-up to its close; both pipes.
SPECIFICATION EdgesSpec
CONSTANTS
  AutoDetect = FALSE
  AnswersB = TRUE
  LeftRunning = TRUE
  Kinds = {"t", "T"}
  MaxRx = 2
  MaxTime = 2
  Wrap = 2
  Plugged <- MCPlugged
  Rates = {500000}
  HwMax = 4
  HwWrap = 3
  Milli = 4
  DeviceLists <- MCDeviceLists
  Idents <- MCIdents
  NumXfer = 2
  CapSet <- MCCapSet
  Frames <- MCFrames
  Attempts = 2
  ChunkMax = 3
  InQMax = 1
  Dumpers = {"d1", "d2"}
  FilterLists <- MCFilterLists
  Ids <- MCIds
  MaxHeard = 4
  OutQMax = 2
  PipeMax = 1
INVARIANTS
  RxExact
  TimeExact
  MeasuredIsAnswer
  PcanRxExact
  PcanTimeExact
  SelectsFirst
  ContextUse
  TimingBest
  FirstForwarded
  StaleBound
  FilterMeaning
PROPERTIES
  SetUpEnds
  FrameReturned
  TeardownEnds
  FirstReachesDriver
