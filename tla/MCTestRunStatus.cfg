\* As MCTestRun.cfg: does a status of 0 mean that the run got to its end?
SPECIFICATION TSpec
CONSTANTS
  a = a
  b = b
  c = c
  Package = {a, b, c}
  Goroutine <- MCClients
  Calls <- MCCalls
  List <- MCList
  Deps <- MCDeps
  Concurrency = 2
  Unlucky = TRUE
  MaxConns = 3
  Faults = 1
INVARIANTS SuccessMeansVerified
CHECK_DEADLOCK FALSE
