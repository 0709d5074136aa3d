\* Three saves and two ticks: a save in each reading, within a tick and over one.
CONSTANTS
  Inodes = {1, 2, 3}
  MaxClock = 2
  MaxSaves = 3
  Target = target
  Helpers = {helper1, helper2}
  Targets = 2
  Deadline = 3
  MaxFetch = 2
SPECIFICATION MCSpec
INVARIANTS ReadWasHeld AdoptedAsOne EndedByItself NothingLeftBehind WaitedForAll CanonicalTextsAgree
CHECK_DEADLOCK FALSE
