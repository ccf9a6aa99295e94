\* A limit below the smallest buffer that bufio makes.
SPECIFICATION RSpec
CONSTANTS
  Conn = {c1}
  Patient = {c1}
  Buffer = {k1}
  MaxMessageSize = 2
  MinBufferSize = 4
  LineLengths = {1, 3, 5}
  Lines = 3
INVARIANTS SizeLimit
CHECK_DEADLOCK FALSE
