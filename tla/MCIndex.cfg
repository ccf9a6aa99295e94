\* Every request over four packages by one caller: all dependency graphs on
\* four names.
SPECIFICATION Spec
CONSTANTS
  Package = {a, b, c, d}
  Goroutine = {g1}
  Calls <- MCCalls
SYMMETRY Symmetry
INVARIANTS TypeOK RefCountsExact DepsIndexed NoCycles
PROPERTIES DepsFixed ImplementsGraph
