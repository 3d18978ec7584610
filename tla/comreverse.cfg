SPECIFICATION ComSpec
CONSTANTS
  good_addrs <- MCAddrs
  Originals <- MCOriginals
  Failures = FALSE
  MaxCalls = 1
CHECK_DEADLOCK FALSE
INVARIANT FixRemoved
