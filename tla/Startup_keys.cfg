SPECIFICATION StartupSpec
CONSTANTS
  Files <- MCFiles
  MaxFileLines = 2
  MaxInits = 2
  MaxAttrCalls = 3
  Ports = {0, 8080, 65535}
  TlsFiles = {p}
  Absent = Absent
  Unreadable = Unreadable
  NULL = NULL
INVARIANTS
  EveryKeyEffective
