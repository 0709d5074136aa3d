\* The documented serialisation of refreshes against a response that slides.
CONSTANTS
  Requests = {r1, r2}
  SessionIds = {k1}
  NoSession = NoSession
  IdleLifetime = 3
  AbsoluteLifetime = 4
  MaxTokens = 2
  MaxAttempts = 1
SPECIFICATION Safety
PROPERTIES
  RefreshIsNotUndone
