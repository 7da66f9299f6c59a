CHECK_DEADLOCK FALSE
SPECIFICATION MCSpec
SYMMETRY Symmetry
CONSTANTS
  Parts = {"working"}
  First = k1
  Keys = {k1}
  NoKey = NoKey
  CreateKeys = {k1}
  MaxAttempts = 1
  Clients = {c1}
  Workers = {w1, w2}
  Finalizers = {f1}
  MaxForeign = 1
INVARIANTS OneClaimPerAttempt CompletedIsBound
