SPECIFICATION Spec
CONSTANTS
  Readers = {r1, r2}
  Writers = {w1, w2}
  Policies = {"Greedy", "Balanced"}
  MaxVersion = 2
SYMMETRY ThreadSymmetry
INVARIANTS
  NoLostWakeup
  SomeoneAdmissible
PROPERTY ImplementsSceneLock
