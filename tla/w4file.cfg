SPECIFICATION W4Spec
CONSTANTS
  Byte = {0, 229}
  Blocks <- MCBlocks
  Capacity = 16
  Segment = 8
  MaxDepth = 4
  Tries = {4}
  MinRun = 3
  Strays <- MCStrays
  Files <- MCFiles
  Padding = 229
  Garbage = Garbage
CHECK_DEADLOCK FALSE
INVARIANT InBounds
INVARIANT PrefixExact
INVARIANT RoundTrip
INVARIANT CodesExact
INVARIANT ChunksSurvive
PROPERTY Ends
