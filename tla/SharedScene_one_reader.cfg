SPECIFICATION FairSpec
CONSTANTS
  Readers = {r1}
  Writers = {w1, w2}
  Policies = {"Greedy", "Balanced"}
  MaxVersion = 1
PROPERTIES
  BlockedReadBeforeNextWriter
  GreedyReaderAdmitted
  BalancedWritersAdmitted
