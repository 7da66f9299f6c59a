SPECIFICATION LiveSpec
CONSTANTS
  Invocations = {i1, i2}
  NoInv = NoInv
  NPages = 1
  Concurrency = 2
  StallPastLease = FALSE
PROPERTIES LeagueRecovers
