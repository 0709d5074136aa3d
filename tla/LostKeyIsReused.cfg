\* Overlapping creates.
CONSTANTS
  a = a
  b = b
  Calls = {a, b}
  Creators = {a, b}
  Submitters = {}
  good = good
  bad = bad
  Values = {good, bad}
  Valid = {good}
  Foreign = {}
  MaxKeys = 3
  MaxRevision = 1
  MaxLate = 1
SPECIFICATION Safety
INVARIANTS
  LostKeyIsReused
CHECK_DEADLOCK FALSE
