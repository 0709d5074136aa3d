\* Two requests that keep coming, of a session that comes to the second half of
\* its idle window: every property, under fairness.
CONSTANTS
  Calls = {c1, c2}
  NoCall = NoCall
  LockLifetime = 2
  ResultLifetime = 2
  WaitLimit = 1
  MaxRotations = 2
SPECIFICATION Spec
INVARIANTS
  TypeOK
  LeaseMutualExclusion
  ServesSuccessor
  SpentTokenHasExcuse
  TicketTracksProvider
PROPERTIES
  OnlyOwnerUnlocks
  ImplementsLeaseLock
  EveryRequestEnds
