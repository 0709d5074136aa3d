\* Two release builds at once.
CONSTANTS
  c1 = c1
  c2 = c2
  Commands = {c1, c2}
  r1 = r1
  r2 = r2
  Revisions = {r1, r2}
  Stable = Stable
  PublisherKey = PublisherKey
  Absent = Absent
  Torn = Torn
  MaxKeys = 1
SPECIFICATION Spec
INVARIANTS
  ChangedPayloadIsRefused
