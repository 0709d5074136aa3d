\* A stubborn command, which may become another user's; a daemon that may as well, that
\* may redirect its output and that a signal may find asleep; and a stubborn job that may
\* drop the run identifier.  Two chunks may be written, and the second exceeds the budget.
CONSTANTS
  Root = Root
  Supervisor = Supervisor
  daemon = daemon
  job = job
  Descendants = {daemon, job}
  Detached = {daemon, job}
  Stubborn = {Root, job}
  Sleeping = {daemon}
  Untagged = {job}
  Privileged = {Root, daemon}
  Silent = {daemon}
  Limit = 1
  MaxOutput = 2
SPECIFICATION Spec
INVARIANTS
  LeftOnlyByTheDying
  SuccessIsRead
PROPERTIES
  SupervisorEnds
CHECK_DEADLOCK FALSE
