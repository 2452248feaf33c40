CONSTANTS
  HeaderLength = 7
  PduLengths = {2, 5, 6}
  SegmentSize = 36
  Backlog = 48
  MaxMessages = 5
SPECIFICATION Spec
INVARIANT CutsAreTheOnlyLoss
CHECK_DEADLOCK FALSE
