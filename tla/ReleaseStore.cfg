\* Two commands at once on one revision, or one at a time on two; two keys, so
\* that further identities could be made.
CONSTANTS
  c1 = c1
  c2 = c2
  Commands = {c1, c2}
  r1 = r1
  r2 = r2
  Revisions = {r1, r2}
  Stable = Stable
  PublisherKey = PublisherKey
  Absent = Absent
  Torn = Torn
  MaxKeys = 2
SYMMETRY Symmetry
SPECIFICATION MCSpec
INVARIANTS
  SnapshotsVerify
  SerialReleasedStays
  SerialStateNamesSnapshot
PROPERTIES
  IdentityKept
