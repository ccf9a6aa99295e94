\* A client that waits and one that does not, sharing the buffers.
SPECIFICATION RSpec
CONSTANTS
  Conn = {c1, c2}
  Patient = {c1}
  Buffer = {k1, k2}
  MaxMessageSize = 3
  MinBufferSize = 2
  LineLengths = {1, 3, 4}
  Lines = 2
SYMMETRY Symmetry
INVARIANTS OwnBytes NeverJoined WholeMessages
CHECK_DEADLOCK FALSE
