SPECIFICATION Spec
SYMMETRY Symmetry
CONSTANTS
  Invocations = {i1, i2, i3}
  NoInv = NoInv
  NPages = 1
  Concurrency = 2
  StallPastLease = FALSE
INVARIANTS TypeOK SingleRequest SealedPageNotRefetched PublisherIsFenced
PROPERTIES OnlyStaleClaimErasesFence
