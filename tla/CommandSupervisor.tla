------------------------- MODULE CommandSupervisor -------------------------
(***************************************************************************)
(* One supervised command of process adoption (_run in                     *)
(* .process/adopt-process.py) on Linux: the command and the processes it   *)
(* starts, the threads that drain its output, and the supervisor that      *)
(* waits for it, cleans up after it and decides whether it succeeded.      *)
(*                                                                         *)
(* The supervisor is a subreaper: a process whose parent dies becomes its  *)
(* child.  A process that dies stays a zombie until its parent reaps it,   *)
(* and a process group exists as long as it has a member, zombies          *)
(* included.  A process may become another user's, whom no signal of the   *)
(* supervisor reaches, and one that sleeps in the kernel dies of a signal  *)
(* only when it wakes.  The deadlines are nondeterministic.                *)
(***************************************************************************)
EXTENDS Integers, FiniteSets

CONSTANTS
  Root,          \* the process of the command itself
  Supervisor,    \* the process that runs adopt-process.py
  Descendants,   \* processes that may be forked
  Detached,      \* those that leave the command's session
  Stubborn,      \* the processes that ignore SIGTERM
  Sleeping,      \* those that a signal may find asleep in the kernel
  Untagged,      \* those that may exec with an environment of their own
  Privileged,    \* those that may exec as another user
  Silent,        \* those that may redirect their output away from the command's
  Limit,         \* the output budget, in chunks
  MaxOutput      \* bound: the chunks the command and its descendants write

Procs == Descendants \cup {Root}

ASSUME ProcsAssumption == Root \notin Descendants /\ Supervisor \notin Procs
ASSUME NatureAssumption == /\ Detached \subseteq Descendants
                           /\ Stubborn \cup Sleeping \subseteq Procs
                           /\ Untagged \cup Privileged \cup Silent \subseteq Procs
ASSUME BoundAssumption == Limit \in Nat /\ MaxOutput \in Nat

VARIABLES
  state,     \* of each process
  parent,    \* of each process
  group,     \* the processes in the command's process group
  tagged,    \* those in whose environment the supervisor finds the run identifier
  forebears, \* history: those that have forked while they were tagged
  guarded,   \* the processes that belong to another user
  holding,   \* the processes whose output is the command's
  unread,    \* chunks of output in the pipes
  read,      \* chunks of output the drain threads have counted
  exitCode,  \* with which the command exited
  pc,        \* where the supervisor is
  listed,    \* the processes that ran when it listed /proc
  unseen,    \* those of them it has not looked at
  victims,   \* the adopted children it has found, and then killed
  found,     \* descendants_found
  failure,   \* the exception on its way out, while cleanup goes on
  result     \* what _run did in the end

idVars == <<tagged, forebears, guarded>>
procVars == <<state, parent, group, idVars, holding, exitCode>>
outVars == <<unread, read>>
scanVars == <<listed, unseen, victims>>
supVars == <<pc, scanVars, found, failure, result>>
vars == <<procVars, outVars, supVars>>

-----------------------------------------------------------------------------
Failures == {"timeout", "overflow", "readers", "cleanup"}
Results == Failures \cup {"success", "descendants", "budget", "failed"}
Places == {"poll", "term", "termWait", "termKill", "group", "groupTerm", "groupKill",
           "adopted", "scan", "reap", "join", "verdict", "done"}

\* One that a signal has found asleep still runs, but does nothing more.
Awake(p) == state[p] = "running"
Running(p) == Awake(p) \/ state[p] = "dying"
RunningProcs == {p \in Procs : Running(p)}
Exists(p) == Running(p) \/ state[p] = "zombie"
GroupExists == \E p \in group : Exists(p)
Holders == holding \cap RunningProcs

Init ==
  /\ state = [p \in Procs |-> IF p = Root THEN "running" ELSE "unborn"]
  /\ parent = [p \in Procs |-> Supervisor]
  /\ group = {Root}
  /\ tagged = {Root}
  /\ forebears = {}
  /\ guarded = {}
  /\ holding = {Root}
  /\ unread = 0
  /\ read = 0
  /\ exitCode = 0
  /\ pc = "poll"
  /\ listed = {}
  /\ unseen = {}
  /\ victims = {}
  /\ found = FALSE
  /\ failure = "none"
  /\ result = "none"

-----------------------------------------------------------------------------
(***************************************************************************)
(* The operating system.                                                   *)
(***************************************************************************)
\* What becomes of the processes that a signal reaches, or that exit.
Struck(dead, asleep) ==
  [p \in Procs |-> CASE p \in dead \ asleep /\ Running(p) -> "zombie"
                     [] p \in dead \cap asleep /\ Running(p) -> "dying"
                     [] OTHER -> state[p]]

\* Mutant: without PR_SET_CHILD_SUBREAPER orphans go to another process.
DieToInit(dead, asleep) ==
  /\ state' = Struck(dead, asleep)
  /\ parent' = [p \in Procs |-> IF parent[p] \in dead \ asleep THEN p ELSE parent[p]]

\* The processes die, but for those asleep; the children of the dead become the
\* supervisor's.
Die(dead, asleep) ==
  /\ state' = Struck(dead, asleep)
  /\ parent' = [p \in Procs |-> IF parent[p] \in dead \ asleep THEN Supervisor ELSE parent[p]]

\* A signal that ends whom it reaches.
Signal(reached) == \E asleep \in SUBSET Sleeping : Die(reached, asleep)

Reap(gone) == state' = [p \in Procs |-> IF p \in gone THEN "gone" ELSE state[p]]

\* A new process has its parent's group, environment, user and output.
Fork(p, child) ==
  /\ Awake(p)
  /\ state[child] = "unborn"
  /\ state' = [state EXCEPT ![child] = "running"]
  /\ parent' = [parent EXCEPT ![child] = p]
  /\ group' = group \cup {q \in {child} : p \in group}
  /\ tagged' = tagged \cup {q \in {child} : p \in tagged}
  /\ forebears' = forebears \cup ({p} \cap tagged)
  /\ guarded' = guarded \cup {q \in {child} : p \in guarded}
  /\ holding' = holding \cup {q \in {child} : p \in holding}
  /\ UNCHANGED <<exitCode, outVars, supVars>>

\* execve with an environment without the run identifier, or as another user, whose
\* environment the supervisor may not read either.
Exec(p) ==
  /\ Awake(p)
  /\ p \in (Untagged \cap tagged) \cup (Privileged \ guarded)
  /\ tagged' = tagged \ {p}
  /\ guarded' = guarded \cup ({p} \cap Privileged)
  /\ UNCHANGED <<state, parent, group, forebears, holding, exitCode, outVars, supVars>>

\* dup2
Redirect(p) ==
  /\ Awake(p)
  /\ p \in Silent \cap holding
  /\ holding' = holding \ {p}
  /\ UNCHANGED <<state, parent, group, idVars, exitCode, outVars, supVars>>

\* setsid
Detach(p) ==
  /\ Awake(p)
  /\ p \in Detached \cap group
  /\ group' = group \ {p}
  /\ UNCHANGED <<state, parent, idVars, holding, exitCode, outVars, supVars>>

Exit(p) ==
  /\ Running(p)
  /\ Die({p}, {})
  /\ exitCode' \in IF p = Root THEN {0, 1} ELSE {exitCode}
  /\ UNCHANGED <<group, idVars, holding, outVars, supVars>>

ParentReaps(p) ==
  /\ state[p] = "zombie"
  /\ parent[p] \in Procs /\ Awake(parent[p])
  /\ Reap({p})
  /\ UNCHANGED <<parent, group, idVars, holding, exitCode, outVars, supVars>>

Write(p) ==
  /\ p \in Holders /\ Awake(p)
  /\ read + unread < MaxOutput
  /\ unread' = unread + 1
  /\ UNCHANGED <<procVars, read, supVars>>

\* _drain: a thread reads a chunk and counts it.
Drain ==
  /\ unread > 0
  /\ unread' = unread - 1
  /\ read' = read + 1
  /\ UNCHANGED <<procVars, supVars>>

-----------------------------------------------------------------------------
(***************************************************************************)
(* Waiting for the command.                                                *)
(***************************************************************************)
Goto(place) == pc' = place /\ UNCHANGED <<scanVars, found, failure, result>>

\* Cleanup begins, with an exception on its way or without one.
Leave(why) == pc' = "term" /\ failure' = why /\ UNCHANGED <<scanVars, found, result>>

PollExited ==
  /\ pc = "poll"
  /\ state[Root] = "zombie"
  /\ Reap({Root})
  /\ Leave("none")
  /\ UNCHANGED <<parent, group, idVars, holding, exitCode, outVars>>

PollTimeout == pc = "poll" /\ Leave("timeout") /\ UNCHANGED <<procVars, outVars>>
PollOverflow ==
  pc = "poll" /\ read > Limit /\ Leave("overflow") /\ UNCHANGED <<procVars, outVars>>

-----------------------------------------------------------------------------
(***************************************************************************)
(* _terminate_tree: the command, then what is left of its process group.   *)
(***************************************************************************)
\* killpg fails with EPERM when it may signal none of the group's members.
Refused == GroupExists /\ \A p \in group : Exists(p) => p \in guarded

\* A signal to the group; SIGTERM leaves the stubborn alone.
Terminate == Signal(group \ (guarded \cup Stubborn))
Kill == Signal(group \ guarded)

\* An exception ends the cleanup: the adopted children are not looked for any more.
GiveUp ==
  /\ IF failure = "readers"
       THEN pc' = "done" /\ result' = "cleanup" /\ UNCHANGED failure
       ELSE pc' = "join" /\ failure' = "cleanup" /\ UNCHANGED result
  /\ UNCHANGED <<scanVars, found>>

\* poll: the command is reaped if it has exited, else its group gets a SIGTERM; the
\* PermissionError of a refused one is not caught.
Term ==
  /\ pc = "term"
  /\ CASE Running(Root) /\ ~Refused -> Terminate /\ Goto("termWait")
       [] Running(Root) /\ Refused -> UNCHANGED <<state, parent>> /\ GiveUp
       [] state[Root] = "zombie" -> Reap({Root}) /\ UNCHANGED parent /\ Goto("group")
       [] OTHER -> UNCHANGED <<state, parent>> /\ Goto("group")
  /\ UNCHANGED <<group, idVars, holding, exitCode, outVars>>

TermWaited ==
  /\ pc \in {"termWait", "termKill"}
  /\ state[Root] = "zombie"
  /\ Reap({Root})
  /\ Goto("group")
  /\ UNCHANGED <<parent, group, idVars, holding, exitCode, outVars>>

TermTimeout ==
  /\ pc = "termWait"
  /\ IF Refused THEN UNCHANGED <<state, parent>> /\ GiveUp
                ELSE Kill /\ Goto("termKill")
  /\ UNCHANGED <<group, idVars, holding, exitCode, outVars>>

\* "command root process survived bounded termination".
RootSurvived ==
  /\ pc = "termKill"
  /\ Running(Root)
  /\ GiveUp
  /\ UNCHANGED <<procVars, outVars>>

\* The group is gone: look for adopted children, or, when the readers were late,
\* give up on them.
GroupGone(was) ==
  /\ IF failure = "readers"
       THEN pc' = "done" /\ result' = failure
       ELSE pc' = "adopted" /\ UNCHANGED result
  /\ found' = (found \/ was)
  /\ UNCHANGED <<scanVars, failure>>

\* A signal that is refused is followed by a wait as well, but by no other signal.
Group ==
  /\ pc = "group"
  /\ CASE ~GroupExists -> UNCHANGED <<state, parent>> /\ GroupGone(FALSE)
       [] Refused -> UNCHANGED <<state, parent>> /\ Goto("groupKill")
       [] OTHER -> Terminate /\ Goto("groupTerm")
  /\ UNCHANGED <<group, idVars, holding, exitCode, outVars>>

GroupWaited ==
  /\ pc \in {"groupTerm", "groupKill"}
  /\ ~GroupExists
  /\ GroupGone(TRUE)
  /\ UNCHANGED <<procVars, outVars>>

GroupTermTimeout ==
  /\ pc = "groupTerm"
  /\ GroupExists
  /\ IF Refused THEN UNCHANGED <<state, parent>> ELSE Kill
  /\ Goto("groupKill")
  /\ UNCHANGED <<group, idVars, holding, exitCode, outVars>>

\* "command process group survived bounded termination", or it could not be signaled.
GroupSurvived ==
  /\ pc = "groupKill"
  /\ GroupExists
  /\ GiveUp
  /\ UNCHANGED <<procVars, outVars>>

-----------------------------------------------------------------------------
(***************************************************************************)
(* _terminate_adopted_children.                                            *)
(***************************************************************************)
\* A direct child of the supervisor with the run identifier; a zombie has no
\* environment.
Adopted(p) == p \in tagged \ {Root} /\ Running(p) /\ parent[p] = Supervisor

\* os.listdir("/proc"); what only comes after it is not looked at.
ListProcesses ==
  /\ pc = "adopted"
  /\ listed' = RunningProcs
  /\ unseen' = RunningProcs
  /\ pc' = "scan"
  /\ UNCHANGED <<procVars, outVars, victims, found, failure, result>>

\* /proc/p/status and /proc/p/environ.
Look(p) ==
  /\ pc = "scan"
  /\ p \in unseen
  /\ unseen' = unseen \ {p}
  /\ victims' = victims \cup {q \in {p} : Adopted(q)}
  /\ UNCHANGED <<procVars, outVars, pc, listed, found, failure, result>>

\* SIGKILL to every one of them, which may have exited by now.  The PermissionError of
\* one that is another user's by now is not caught: some have had theirs before.
KillAdopted ==
  /\ pc = "scan"
  /\ unseen = {}
  /\ IF victims \cap guarded = {}
       THEN Signal(victims) /\ Goto(IF victims = {} THEN "join" ELSE "reap")
       ELSE (\E before \in SUBSET (victims \ guarded) : Signal(before)) /\ GiveUp
  /\ UNCHANGED <<group, idVars, holding, exitCode, outVars>>

\* "detached descendants survived bounded cleanup" when one still runs in the end.
ReapAdopted ==
  /\ pc = "reap"
  /\ Reap(victims \ RunningProcs)
  /\ IF victims \cap RunningProcs = {}
       THEN pc' = "join" /\ found' = TRUE /\ UNCHANGED <<scanVars, failure, result>>
       ELSE GiveUp
  /\ UNCHANGED <<parent, group, idVars, holding, exitCode, outVars>>

-----------------------------------------------------------------------------
(***************************************************************************)
(* The readers, and the verdict.                                           *)
(***************************************************************************)
EndOfOutput == Holders = {} /\ unread = 0

\* Mutant: the readers are joined without a timeout.
JoinForever ==
  /\ pc = "join"
  /\ EndOfOutput
  /\ IF failure = "none" THEN Goto("verdict")
                         ELSE pc' = "done" /\ result' = failure /\ UNCHANGED <<scanVars, found, failure>>
  /\ UNCHANGED <<procVars, outVars>>

\* The readers have ended, or the join has timed out with the output still held.
Join ==
  /\ pc = "join"
  /\ EndOfOutput \/ Holders # {}
  /\ CASE failure # "none" ->
            pc' = "done" /\ result' = failure /\ UNCHANGED <<scanVars, found, failure>>
       [] failure = "none" /\ EndOfOutput -> Goto("verdict")
       [] OTHER -> Leave("readers")
  /\ UNCHANGED <<procVars, outVars>>

\* Mutant: the budget is only looked at while the command runs.
VerdictWithoutBudget ==
  /\ pc = "verdict"
  /\ result' = CASE found -> "descendants"
                 [] exitCode # 0 -> "failed"
                 [] OTHER -> "success"
  /\ pc' = "done"
  /\ UNCHANGED <<procVars, outVars, scanVars, found, failure>>

\* Output that holds a diagnostic makes a command fail that exited with 0.
Verdict ==
  /\ pc = "verdict"
  /\ result' \in CASE found -> {"descendants"}
                   [] ~found /\ read > Limit -> {"budget"}
                   [] ~found /\ read <= Limit /\ exitCode # 0 -> {"failed"}
                   [] OTHER -> {"success", "failed"}
  /\ pc' = "done"
  /\ UNCHANGED <<procVars, outVars, scanVars, found, failure>>

Poll == PollExited \/ PollTimeout \/ PollOverflow
TerminateTree ==
  \/ Term \/ TermWaited \/ TermTimeout \/ RootSurvived
  \/ Group \/ GroupWaited \/ GroupTermTimeout \/ GroupSurvived
TerminateAdoptedChildren ==
  ListProcesses \/ (\E p \in Procs : Look(p)) \/ KillAdopted \/ ReapAdopted
Supervise == Poll \/ TerminateTree \/ TerminateAdoptedChildren \/ Join \/ Verdict
Process(p) ==
  \/ Exec(p) \/ Redirect(p) \/ Detach(p) \/ Exit(p) \/ ParentReaps(p) \/ Write(p)
  \/ \E child \in Descendants : Fork(p, child)

Next == Supervise \/ Drain \/ \E p \in Procs : Process(p)

\* The supervisor keeps running, its waits have deadlines, and the drain threads
\* read what there is.
Fairness == WF_vars(Supervise) /\ WF_vars(Drain)

Safety == Init /\ [][Next]_vars
Spec == Safety /\ Fairness

-----------------------------------------------------------------------------
(***************************************************************************)
(* Properties.                                                             *)
(***************************************************************************)
TypeOK ==
  /\ state \in [Procs -> {"unborn", "running", "dying", "zombie", "gone"}]
  /\ parent \in [Procs -> Procs \cup {Supervisor}]
  /\ group \subseteq Procs
  /\ tagged \cup forebears \cup guarded \subseteq Procs
  /\ holding \subseteq Procs
  /\ unread \in 0..MaxOutput
  /\ read \in 0..MaxOutput
  /\ exitCode \in {0, 1}
  /\ pc \in Places
  /\ listed \subseteq Procs
  /\ unseen \subseteq listed
  /\ victims \subseteq Descendants \cap listed
  /\ found \in BOOLEAN
  /\ failure \in Failures \cup {"none"}
  /\ result \in Results \cup {"none"}

\* Unless the cleanup itself is reported to have failed, no process of the command's group
\* is left running.  A command that succeeded has left nothing else running either with
\* its run identifier, whatever its descendants did: detach, ignore signals, fork, outlive
\* their parents.  The exception is what descends from a process that ran when /proc was
\* listed, had forked with the identifier by then or did so later, and has died since the
\* listing or given the identifier up: its children have or had it for their parent and
\* were passed over.
LeftOnlyByTheDying ==
  /\ result \notin {"none", "cleanup"} => group \cap RunningProcs = {}
  /\ result = "success" /\ tagged \cap RunningProcs # {} =>
       \E p \in listed \cap forebears : ~Running(p) \/ p \notin tagged

\* A command that succeeded was read to the end and kept to the budget, however
\* late its output came.
SuccessIsRead == result = "success" => unread = 0 /\ read <= Limit

\* The supervisor always comes to an end, whoever ignores its signals or holds the
\* output.
SupervisorEnds == <>(pc = "done")

-----------------------------------------------------------------------------
\* adopt-process.py: "command left descendant processes; they were terminated".
DescendantsAreTerminated == result = "descendants" => tagged \cap RunningProcs = {}
=============================================================================
