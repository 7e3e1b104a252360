SPECIFICATION DumpSpec
CONSTANTS
  Pictures = {"p1", "p2"}
  OutputCapacity = 3
  MaxFrames = 3
  MaxOutputs = 5
INVARIANTS
  DumpShowsChanges
  SummaryCoversDump
CHECK_DEADLOCK FALSE
