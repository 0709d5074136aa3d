\* A session may be renewed, refreshed, replaced by another login and logged out
\* by two requests; the absolute lifetime is longer than the idle one.
CONSTANTS
  Requests = {r1, r2}
  SessionIds = {k1, k2}
  NoSession = NoSession
  IdleLifetime = 3
  AbsoluteLifetime = 4
  MaxTokens = 2
  MaxAttempts = 2
SPECIFICATION Spec
INVARIANTS
  WithinAbsolute
PROPERTIES
  ImplementsSessions
  EverySessionEnds
