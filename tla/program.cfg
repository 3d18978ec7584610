CONSTANTS
  Path <- MCPath
  Absent = Absent
  Torn = Torn
  WX = "wx"
  VXD = "vxd"
  Dirs <- MCDirs
  Calls <- MCCalls
  Holds <- MCHolds
  MaxRuns = 2
  CommandLines <- MCCommandLines
  Lines <- MCLines
  MaxLines = 3
  Eof = Eof
SPECIFICATION ProgramSpec
INVARIANT AllOrNothing
INVARIANT ReportedRight
INVARIANT OthersKept
INVARIANT TempsGone
INVARIANT Consent
CHECK_DEADLOCK FALSE
