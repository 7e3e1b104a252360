SPECIFICATION FairSpec
CONSTANTS
  CommandLines <- MCCommandLines
  Number <- MCNumber
  ColorImages <- MCColorImages
  DepthImages <- MCDepthImages
  MaxFrameId = 4
  MaxClock = 4
INVARIANTS
  CameraUsedWhileStarted
  SubmittedFramesFit
  ConfigFollowsOptions
PROPERTY CleanupEnds
CHECK_DEADLOCK FALSE
