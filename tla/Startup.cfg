SPECIFICATION StartupSpec
CONSTANTS
  p1 = p1
  p2 = p2
  None = None
  Proc <- MCProc
  Release <- MCRelease
  Repeatable <- MCRepeatable
  Minimum = 2
  MaxStarts = 4
CHECK_DEADLOCK FALSE
INVARIANTS
  VersionNotAhead
  ServesMigratedSchema
PROPERTIES
  AccessDecidedOnce
  SecretKept
