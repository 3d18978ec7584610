SPECIFICATION PatchSpec
CONSTANTS
  table <- MCTable
  Place <- MCPlace
  Windows <- MCWindows
  MeA = 7
  MeB = 8
  Objects <- MCObjects
  Files <- MCFiles
  Selections <- MCSelections
  Faults = {"read","open","memory"}
  MaxRuns = 2
  Used <- Vmm
CHECK_DEADLOCK FALSE
INVARIANT OnlyReported
INVARIANT ForwardExact
INVARIANT ReverseClean
INVARIANT SecondRunIdle
