SPECIFICATION Spec
CONSTANTS
  Images <- MCImages
  patch_ofset = 1
  patch_size = 2
  Files <- MCFiles
  BPATCHER_FILE_BUF = 2
  MaxRuns = 2
INVARIANT PatchedAsWhole
INVARIANT MadeRight
CHECK_DEADLOCK FALSE
