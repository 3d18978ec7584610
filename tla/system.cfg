SPECIFICATION Spec
CONSTANTS
  Absent = Absent
  Torn = Torn
  Table <- MCTable
  Path <- MCPath
  EName <- EPath
  VName <- VPath
  Bystanders <- NoOthers
  Lookups = {"dir"}
  Given <- VPath
  NoBackup = FALSE
  ForceW3 = FALSE
  Faults = {"crash","rename"}
  MaxRuns = 2
  Versions = {"old","new","other"}
  Used <- System
CHECK_DEADLOCK FALSE
INVARIANT AbortRestores
INVARIANT NoTempLeft
INVARIANT Recoverable
PROPERTY BackupBeforeModify
PROPERTY ImplementsSafeReplace
PROPERTY AgreedIsDone
