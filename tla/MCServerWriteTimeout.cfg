\* What the code does after a write times out.
SPECIFICATION SSpec
CONSTANTS
  a = a
  b = b
  Package = {a}
  Goroutine = {c1}
  Calls <- MCQuery
  MaxConns = 1
  Messages = 2
  Window = 2
  Unread = 1
PROPERTIES WriteTimeoutCloses
CHECK_DEADLOCK FALSE
