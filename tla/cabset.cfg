CONSTANTS
  Archive <- MCArchive
  Wanted <- MCWanted
  BlockMax = 2
  Failures = {TRUE, FALSE}
  None = None
SPECIFICATION Spec
INVARIANT ExtractedExact
INVARIANT FoundIfThere
INVARIANT NoDangling
PROPERTY Ends
CHECK_DEADLOCK FALSE
