SPECIFICATION Spec
CONSTANTS
  Absent = Absent
  Torn = Torn
  Table <- MCTable
  Path <- MCPath
  EName <- EPath
  VName <- VPath
  Bystanders <- NoOthers
  Lookups = {"extract","novmm32","cab","file"}
  Given <- VPath
  NoBackup = TRUE
  ForceW3 = TRUE
  Faults = {"crash","rename"}
  MaxRuns = 1
  Versions = {"old","new"}
  Used <- Drivers
CHECK_DEADLOCK FALSE
INVARIANT CommitExact
INVARIANT SomeVersionSurvives
