SPECIFICATION Spec
CONSTANTS
  Clients = {c1, c2}
  NoClient = NoClient
  Producers = {"seeder", c1, c2}
  PoseCount = 3
  MaxGeneration = 3
  MaxStoredFrames = 2
  MaxFrameId = 4
INVARIANTS
  SeedNeverOverrides
  SeedFrameKept
  PoseFollowsClient
CHECK_DEADLOCK FALSE
