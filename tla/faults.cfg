SPECIFICATION Spec
CONSTANTS
  Absent = Absent
  Torn = Torn
  Table <- MCTable
  Path <- MCPath
  EName <- EPath
  VName <- VPath
  Bystanders <- NoOthers
  Lookups = {"dir"}
  Given <- VPath
  NoBackup = FALSE
  ForceW3 = FALSE
  Faults = {"crash","restart","backup","pack","unpack","rename","copy","full"}
  MaxRuns = 2
  Versions = {"old"}
  Used <- Together
CHECK_DEADLOCK FALSE
PROPERTY OnlyAnnouncedChange
