\* Three goroutines, line by line, on a package with two dependencies.
SPECIFICATION LFairSpec
CONSTANTS
  a = a
  b = b
  c = c
  Package = {a, b, c}
  Goroutine = {g1, g2, g3}
  Calls <- MCTriangle
INVARIANTS LTypeOK NoMapRace
PROPERTIES ImplementsIndex QueryAnswered WriterAnswered
