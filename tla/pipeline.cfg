SPECIFICATION PipeSpec
CONSTANTS
  r1 = r1
  r2 = r2
  k1 = k1
  b1 = b1
  b2 = b2
  NoTx = NoTx
  Requests = {r1, r2}
  Keys = {k1}
  Bodies = {b1, b2}
  SlowRuns = TRUE
  MaxRules = 2
  MaxFaults = 1
INVARIANTS
  KeyNamesOneRun
  SettledWasDecided
  OutcomeIsTrue
PROPERTIES
  RunsEnd
CHECK_DEADLOCK FALSE
