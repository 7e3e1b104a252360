SPECIFICATION FairSpec
CONSTANTS
  Readers = {viewer}
  Layouts = {"small", "large"}
  VersionCapacity = 2
  MaxReadyFrames = 2
  MaxFrameId = 4
  MaxStarts = 2
INVARIANTS
  ReadersSeeCommittedState
  VersionsMatchScene
  ConsumedFramesPublished
  EndsCleanly
PROPERTIES
  FramesBuilt
  StopEndsLoop
