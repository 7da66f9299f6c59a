CHECK_DEADLOCK FALSE
SPECIFICATION MCSpec
SYMMETRY Symmetry
CONSTANTS
  Keys = {k1, k2, k3}
  NoKey = NoKey
  First = k1
  Parts = {"creating", "retrying"}
  CreateKeys = {k1, k2, k3}
  MaxAttempts = 2
  Clients = {c1, c2}
  Workers = {w1}
  Finalizers = {f1}
  MaxForeign = 0
INVARIANTS TypeOK RowsAgree RetryReceiptsNameAFailure LockIsTheActiveJob
PROPERTIES EndedStaysEnded
