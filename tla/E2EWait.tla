------------------------------ MODULE E2EWait ------------------------------
(***************************************************************************)
(* The end-to-end container's wait for its targets                         *)
(* (scripts/wait-for-e2e-targets.mjs): one after the other, each is asked  *)
(* again until it answers, up to a deadline they share.                    *)
(***************************************************************************)
EXTENDS Naturals

CONSTANTS
  Targets,   \* how many there are
  Deadline,  \* in seconds
  MaxFetch   \* bound: the seconds an answer may take

ASSUME WaitAssumption == Targets \in Nat /\ Deadline \in Nat /\ MaxFetch \in Nat

VARIABLES
  now,
  target,    \* the one that is waited for
  lastError, \* of that one
  asked,     \* the targets that have been asked
  ready,     \* those whose last answer was a good one
  waiting    \* where the loop is

waitVars == <<now, target, lastError, asked, ready, waiting>>

WaitInit ==
  /\ now = 0
  /\ target = 1
  /\ lastError = FALSE
  /\ asked = {}
  /\ ready = {}
  /\ waiting = "loop"

\* Mutant: the last error of a target is not thrown.
LoopSilently ==
  /\ waiting = "loop"
  /\ IF target > Targets
       THEN waiting' = "done" /\ UNCHANGED <<target, lastError>>
       ELSE IF now < Deadline
              THEN waiting' = "fetch" /\ UNCHANGED <<target, lastError>>
              ELSE waiting' = "loop" /\ target' = target + 1 /\ lastError' = FALSE
  /\ UNCHANGED <<now, asked, ready>>

Loop ==
  /\ waiting = "loop"
  /\ IF target > Targets
       THEN waiting' = "done" /\ UNCHANGED <<target, lastError>>
       ELSE IF now < Deadline
              THEN waiting' = "fetch" /\ UNCHANGED <<target, lastError>>
              ELSE IF lastError THEN waiting' = "failed" /\ UNCHANGED <<target, lastError>>
                                ELSE waiting' = "loop" /\ target' = target + 1 /\ lastError' = FALSE
  /\ UNCHANGED <<now, asked, ready>>

\* A good answer ends the wait for a target, any other and none are an error.
Fetch ==
  /\ waiting = "fetch"
  /\ now' \in now..(now + MaxFetch)
  /\ asked' = asked \cup {target}
  /\ \/ /\ ready' = ready \cup {target}
        /\ waiting' = "loop" /\ target' = target + 1 /\ lastError' = FALSE
     \/ /\ lastError' = TRUE
        /\ waiting' = "sleep"
        /\ UNCHANGED <<target, ready>>

Sleep ==
  /\ waiting = "sleep"
  /\ now' = now + 1
  /\ waiting' = "loop"
  /\ UNCHANGED <<target, lastError, asked, ready>>

WaitNext == Loop \/ Fetch \/ Sleep

WaitSpec == WaitInit /\ [][WaitNext]_waitVars

-----------------------------------------------------------------------------
\* The tests start when every target has answered, or was not asked, because those
\* before it had used up the time; the wait fails only after the deadline, over a
\* target that was asked.
WaitedForAll ==
  /\ waiting = "done" => \A t \in 1..Targets : t \in ready \/ (t \notin asked /\ now >= Deadline)
  /\ waiting = "failed" => now >= Deadline /\ target \in asked \ ready
=============================================================================
