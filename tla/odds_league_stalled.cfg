SPECIFICATION Spec
SYMMETRY Symmetry
VIEW StalledView
CONSTANTS
  Invocations = {i1, i2}
  NoInv = NoInv
  NPages = 2
  Concurrency = 2
  StallPastLease = TRUE
INVARIANTS CheckpointSound
PROPERTIES SealedForGood
