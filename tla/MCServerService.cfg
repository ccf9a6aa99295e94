\* Two clients that wait for each response, over a package and its dependency.
SPECIFICATION SSpec
CONSTANTS
  a = a
  b = b
  Package = {a, b}
  Goroutine = {c1, c2}
  Calls <- MCPair
  MaxConns = 2
  Messages = 2
  Window = 1
  Unread = 1
SYMMETRY Symmetry
PROPERTIES ImplementsService
CHECK_DEADLOCK FALSE
