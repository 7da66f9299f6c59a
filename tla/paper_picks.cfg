CHECK_DEADLOCK FALSE
SPECIFICATION Spec
SYMMETRY Symmetry
CONSTANTS
  Runs = 1
  Events = {e1, e2, e3}
  Invs = {i1, i2}
  NoInv = NoInv
  Snapshots = {s1, s2}
  NoSnapshot = NoSnapshot
  Decisions = {d1}
  MaxEvents = 2
  MaxCalls = 2
  MaxConc = 1
INVARIANTS TypeOK PicksAreBudgeted
PROPERTIES PicksEndOnce
