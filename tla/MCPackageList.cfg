\* Every text of up to eight bytes with names over one letter or two.
SPECIFICATION Spec
CONSTANTS
  Letter = {"x", "y"}
  MaxText = 8
  MaxSegments = 4
INVARIANTS ReadsAsWritten ListClosed SegmentsCover
CHECK_DEADLOCK FALSE
