SPECIFICATION FairSpec
CONSTANTS
  Producers = {"seeder", "client"}
  PoseCount = 2
  MaxGeneration = 3
  Policies = {"Event", "HotLoop"}
  OutputCapacity = 2
  MaxVersion = 1
  MaxStarts = 2
INVARIANTS
  NoLostPoseWakeup
  OutputsFollowScene
  EventRendersOnce
PROPERTY LatestPoseShown
CHECK_DEADLOCK FALSE
