SPECIFICATION MCSpec
SYMMETRY Symmetry
VIEW View
CONSTANTS
  Landings = {l1}
  Closings = {c1, c2}
  Collectors = {a1}
  Limit = 4
  LandingReserve = 1
  ClosingReserve = 1
  CollectorReserve = 0
INVARIANTS TypeOK NeverOverstated
PROPERTIES LandingSparesLive RefusalsStand
