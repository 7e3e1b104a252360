SPECIFICATION FairSpec
CONSTANTS
  MaxStoredFrames = 3
  MaxReadyFrames = 2
  Defects = {"InvalidIntrinsics"}
  MaxFrameId = 4
  MaxTimestamp = 4
  MaxRejected = 1
INVARIANTS
  HistoryIndexed
  PendingFramesRetained
  LifecycleMatchesHandOff
PROPERTIES
  CompletedForGood
  ImplementsHandOff
  AcceptedFramesCompleted
CHECK_DEADLOCK FALSE
