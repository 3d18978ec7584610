SPECIFICATION ComSpec
CONSTANTS
  good_addrs <- MCAddrs
  Originals <- MCOriginals
  Failures = TRUE
  MaxCalls = 4
CHECK_DEADLOCK FALSE
INVARIANT EntryKept
INVARIANT ProgramKept
INVARIANT Reversed
INVARIANT Updated
