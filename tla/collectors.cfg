SPECIFICATION MCSpec
CONSTANTS
  Landings = {l1}
  Closings = {}
  Collectors = {a1}
  Limit = 1
  LandingReserve = 0
  ClosingReserve = 0
  CollectorReserve = 0
  Slots = {w1, w2}
  Kinds = {"schedule", "account", "splits"}
  NPages = 2
  Runs = {1, 2, 3, 4}
  None = None
INVARIANTS WalksArePaidOnce
PROPERTIES Recovers
