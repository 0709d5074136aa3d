\* Two overlapping submissions of a draft that another editor works on, too.
\* The client stops when its one record is submitted and its key is used.
CONSTANTS
  a = a
  s1 = s1
  s2 = s2
  Calls = {a, s1, s2}
  Creators = {a}
  Submitters = {s1, s2}
  good = good
  bad = bad
  Values = {good, bad}
  Valid = {good}
  Foreign = {good}
  MaxKeys = 1
  MaxRevision = 4
  MaxLate = 1
SYMMETRY Symmetry
SPECIFICATION Safety
INVARIANTS
  SubmitsWhatWasEntered
CHECK_DEADLOCK FALSE
