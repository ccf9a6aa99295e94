\* Two clients for one slot, who may send without waiting and need not read.
SPECIFICATION SFairSpec
CONSTANTS
  a = a
  b = b
  Package = {a}
  Goroutine = {c1, c2}
  Calls <- MCQuery
  MaxConns = 1
  Messages = 2
  Window = 2
  Unread = 1
INVARIANTS STypeOK SlotsExact ConnsBounded NoExtraResponse
PROPERTIES SlotReturned ClientAnswered
CHECK_DEADLOCK FALSE
