SPECIFICATION PipeSpec
CONSTANTS
  r1 = r1
  k1 = k1
  b1 = b1
  NoTx = NoTx
  Requests = {r1}
  Keys = {k1}
  Bodies = {b1}
  SlowRuns = FALSE
  MaxRules = 1
  MaxFaults = 0
CHECK_DEADLOCK FALSE
INVARIANT OneResolverWins
