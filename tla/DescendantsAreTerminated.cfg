\* A daemon and a process it may start.
CONSTANTS
  Root = Root
  Supervisor = Supervisor
  daemon = daemon
  worker = worker
  Descendants = {daemon, worker}
  Detached = {daemon}
  Stubborn = {}
  Sleeping = {}
  Untagged = {}
  Privileged = {}
  Silent = {daemon, worker}
  Limit = 1
  MaxOutput = 0
SPECIFICATION Safety
INVARIANTS
  DescendantsAreTerminated
CHECK_DEADLOCK FALSE
