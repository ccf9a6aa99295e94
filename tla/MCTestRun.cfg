\* Two clients for a chain of three packages, and one fault.
SPECIFICATION TFairSpec
CONSTANTS
  a = a
  b = b
  c = c
  Package = {a, b, c}
  Goroutine <- MCClients
  Calls <- MCCalls
  List <- MCList
  Deps <- MCDeps
  Concurrency = 2
  Unlucky = TRUE
  MaxConns = 3
  Faults = 1
INVARIANTS TTypeOK StepsApart RefusedForGone LateByFaults NoFalseAlarm IndexVerified RemovalVerified
PROPERTIES RunEnds
CHECK_DEADLOCK FALSE
