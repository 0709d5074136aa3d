\* No other editor: two drafts, one call that creates and one that submits.
CONSTANTS
  a = a
  s1 = s1
  Calls = {a, s1}
  Creators = {a}
  Submitters = {s1}
  good = good
  bad = bad
  Values = {good, bad}
  Valid = {good}
  Foreign = {}
  MaxKeys = 2
  MaxRevision = 3
  MaxLate = 1
SPECIFICATION Spec
INVARIANTS
  NoOrphanDraft
  ScreenIsCurrent
PROPERTIES
  EveryCallReturns
CHECK_DEADLOCK FALSE
