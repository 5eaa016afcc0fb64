SPECIFICATION Spec
CONSTANTS
  Compared = {c1, c2}
  Ignored = {s1, s2}
  MaxWrites = 3
  MaxReads = 2
  MaxVersions = 5
  MaxFaults = 1
INVARIANTS
  TypeOK
  NoErrorMeansWritten
  ReadsConfirmedPart
CHECK_DEADLOCK FALSE
