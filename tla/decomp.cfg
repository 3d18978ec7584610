SPECIFICATION Spec
CONSTANTS
  Archives <- MCArchives
  BufSizes = {1, 2, 3, 5, 9}
  FRAME = 6
  MaxCalls = 3
  Junk = Junk
  None = None
  E8 = 99
  E8Margin = 2
INVARIANT FileExact
INVARIANT ValidExtracts
PROPERTY RequestsEnd
CHECK_DEADLOCK FALSE
