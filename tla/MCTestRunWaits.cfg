\* Four clients asked for, and three packages.
SPECIFICATION TFairSpec
CONSTANTS
  a = a
  b = b
  c = c
  Package = {a, b, c}
  Goroutine <- MCClients
  Calls <- MCCalls
  List <- MCList
  Deps <- MCDeps
  Concurrency = 4
  Unlucky = FALSE
  MaxConns = 8
  Faults = 0
PROPERTIES AnyConcurrency
CHECK_DEADLOCK FALSE
