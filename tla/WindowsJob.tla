----------------------------- MODULE WindowsJob -----------------------------
(***************************************************************************)
(* One supervised command on Windows: the runner that puts it into a job   *)
(* object (.process/adopt-process-windows-job.py), the job's processes and *)
(* the supervisor that waits for the runner and reads its status           *)
(* (.process/adopt-process.py).                                            *)
(*                                                                         *)
(* Every call of the system may fail.  A process that is terminated is     *)
(* counted until it has gone, and may never go: the runner's waits are     *)
(* bounded.  The system closes the handles of a runner that has gone, and  *)
(* a job that kills on close terminates its processes with its last        *)
(* handle.                                                                 *)
(***************************************************************************)
EXTENDS Integers, FiniteSets

CONSTANTS
  Target,    \* the command's process
  Helpers    \* processes it may start

ASSUME JobProcsAssumption == Target \notin Helpers /\ IsFiniteSet(Helpers)

JobProcs == Helpers \cup {Target}

VARIABLES
  proc,       \* of each process: unborn, running, dying, gone
  kills,      \* JOB_OBJECT_LIMIT_KILL_ON_JOB_CLOSE is set
  handles,    \* those of job, process and thread that the runner has open
  attributes, \* the attribute list: none, live, deleted
  place,      \* where the runner is
  caught,     \* caught_error
  errors,     \* cleanup_errors is not empty
  active,     \* active_processes: Unknown is None
  first,      \* active_processes_before_cleanup
  exitCode,   \* exit_code, None until it is read
  ended,      \* the code the target ended with
  killed,     \* the processes that ran when the runner terminated the job
  status,     \* what is in the status pipe
  returned,   \* the runner's exit code
  super       \* where the supervisor is, and in the end its verdict

systemVars == <<proc, kills, handles, attributes, ended, killed>>
runnerVars == <<place, caught, errors, active, first, exitCode>>
pipeVars == <<status, returned, super>>
jobVars == <<systemVars, runnerVars, pipeVars>>

-----------------------------------------------------------------------------
\* No exit code and no count is negative.
None == -1
Unknown == -2
Active == {p \in JobProcs : proc[p] \in {"running", "dying"}}
Terminated == [p \in JobProcs |-> IF proc[p] = "running" THEN "dying" ELSE proc[p]]

JobInit ==
  /\ proc = [p \in JobProcs |-> "unborn"]
  /\ kills = FALSE
  /\ handles = {}
  /\ attributes = "none"
  /\ place = "create job"
  /\ caught = FALSE
  /\ errors = FALSE
  /\ active = 0
  /\ first = None
  /\ exitCode = None
  /\ ended = None
  /\ killed = {}
  /\ status = "empty"
  /\ returned = None
  /\ super = "poll"

-----------------------------------------------------------------------------
(***************************************************************************)
(* The job's processes.                                                    *)
(***************************************************************************)
Start ==
  /\ proc[Target] = "running" \/ \E p \in Helpers : proc[p] = "running"
  /\ \E p \in Helpers : proc[p] = "unborn" /\ proc' = [proc EXCEPT ![p] = "running"]
  /\ UNCHANGED <<kills, handles, attributes, ended, killed, runnerVars, pipeVars>>

End(p) ==
  /\ proc[p] \in {"running", "dying"}
  /\ proc' = [proc EXCEPT ![p] = "gone"]
  /\ ended' \in IF p # Target THEN {ended} ELSE IF proc[p] = "dying" THEN {125} ELSE {0, 1}
  /\ UNCHANGED <<kills, handles, attributes, killed, runnerVars, pipeVars>>

-----------------------------------------------------------------------------
(***************************************************************************)
(* The runner, up to the end of the target.  A call that fails goes to the *)
(* cleanup with its error.                                                 *)
(***************************************************************************)
Cleanup == IF "process" \in handles' THEN "query" ELSE "delete list"
Fails == caught' = TRUE /\ place' = Cleanup

CreateJob ==
  /\ place = "create job"
  /\ \/ handles' = {"job"} /\ place' = "limit" /\ UNCHANGED errors
     \/ errors' = TRUE /\ place' = "report" /\ UNCHANGED handles
  /\ UNCHANGED <<proc, kills, attributes, ended, killed, caught, active, first, exitCode, pipeVars>>

\* Mutant: a job whose limit could not be set is used all the same.
LimitTried ==
  /\ place = "limit"
  /\ place' = "list"
  /\ kills' \in BOOLEAN
  /\ UNCHANGED <<proc, handles, attributes, ended, killed, caught, errors, active, first, exitCode, pipeVars>>

Limit ==
  /\ place = "limit"
  /\ UNCHANGED handles
  /\ \/ kills' = TRUE /\ place' = "list" /\ UNCHANGED caught
     \/ Fails /\ UNCHANGED kills
  /\ UNCHANGED <<proc, attributes, ended, killed, errors, active, first, exitCode, pipeVars>>

InitializeList ==
  /\ place = "list"
  /\ UNCHANGED handles
  /\ \/ attributes' = "live" /\ place' = "update" /\ UNCHANGED caught
     \/ Fails /\ UNCHANGED attributes
  /\ UNCHANGED <<proc, kills, ended, killed, errors, active, first, exitCode, pipeVars>>

\* The job of the process to come, and the only handles it inherits.
UpdateList ==
  /\ place = "update"
  /\ UNCHANGED handles
  /\ \/ place' = "create process" /\ UNCHANGED caught
     \/ Fails
  /\ UNCHANGED <<proc, kills, attributes, ended, killed, errors, active, first, exitCode, pipeVars>>

CreateProcess ==
  /\ place = "create process"
  /\ \/ /\ proc' = [proc EXCEPT ![Target] = "running"]
        /\ handles' = handles \cup {"process", "thread"}
        /\ place' = "wait"
        /\ UNCHANGED caught
     \/ UNCHANGED <<proc, handles>> /\ Fails
  /\ UNCHANGED <<kills, attributes, ended, killed, errors, active, first, exitCode, pipeVars>>

WaitForTarget ==
  /\ place = "wait"
  /\ UNCHANGED handles
  /\ \/ proc[Target] = "gone" /\ place' = "read code" /\ UNCHANGED caught
     \/ Fails
  /\ UNCHANGED <<proc, kills, attributes, ended, killed, errors, active, first, exitCode, pipeVars>>

ReadCode ==
  /\ place = "read code"
  /\ UNCHANGED handles
  /\ \/ exitCode' = ended /\ place' = Cleanup /\ UNCHANGED caught
     \/ Fails /\ UNCHANGED exitCode
  /\ UNCHANGED <<proc, kills, attributes, ended, killed, errors, active, first, pipeVars>>

-----------------------------------------------------------------------------
(***************************************************************************)
(* The cleanup.                                                            *)
(***************************************************************************)
QueryActive ==
  \/ active' = Cardinality(Active) /\ UNCHANGED errors
  \/ active' = Unknown /\ errors' = TRUE

Query ==
  /\ place = "query"
  /\ QueryActive
  /\ place' = IF ~caught /\ active' \notin {0, Unknown} THEN "drain" ELSE "terminate"
  /\ UNCHANGED <<systemVars, caught, first, exitCode, pipeVars>>

\* What the target left may end by itself, until it has, a look fails or its time is up.
Drain ==
  /\ place = "drain"
  /\ QueryActive
  /\ place' \in IF active' \in {0, Unknown} THEN {"terminate"} ELSE {"drain", "terminate"}
  /\ UNCHANGED <<systemVars, caught, first, exitCode, pipeVars>>

Terminate ==
  /\ place = "terminate"
  /\ first' = active
  /\ IF active = 0
       THEN place' = "wait process" /\ UNCHANGED <<proc, killed, errors>>
       ELSE /\ \/ proc' = Terminated /\ killed' = {p \in JobProcs : proc[p] = "running"} /\ UNCHANGED errors
               \/ errors' = TRUE /\ UNCHANGED <<proc, killed>>
            /\ place' = "wait jobs"
  /\ UNCHANGED <<kills, handles, attributes, ended, caught, active, exitCode, pipeVars>>

WaitJobs ==
  /\ place = "wait jobs"
  /\ \/ Active = {} /\ active' = 0 /\ place' = "wait process" /\ UNCHANGED errors
     \/ active' \in {Unknown, Cardinality(Active)} /\ errors' = TRUE /\ place' = "wait process"
  /\ UNCHANGED <<systemVars, caught, first, exitCode, pipeVars>>

WaitProcess ==
  /\ place = "wait process"
  /\ \/ proc[Target] = "gone" /\ UNCHANGED errors
     \/ errors' = TRUE
  /\ place' = "delete list"
  /\ UNCHANGED <<systemVars, caught, active, first, exitCode, pipeVars>>

DeleteList ==
  /\ place = "delete list"
  /\ attributes' = IF attributes = "live" THEN "deleted" ELSE attributes
  /\ place' = "close"
  /\ UNCHANGED <<proc, kills, handles, ended, killed, caught, errors, active, first, exitCode, pipeVars>>

\* Without the runner's handle there is no job any more.
JobClosed == IF kills THEN Terminated ELSE proc

CloseHandles ==
  /\ place = "close"
  /\ \E closed \in SUBSET handles :
       /\ handles' = handles \ closed
       /\ errors' = (errors \/ closed # handles)
       /\ proc' = IF "job" \in closed THEN JobClosed ELSE proc
  /\ place' = "report"
  /\ UNCHANGED <<kills, attributes, ended, killed, caught, active, first, exitCode, pipeVars>>

-----------------------------------------------------------------------------
(***************************************************************************)
(* The runner's status and its end.                                        *)
(***************************************************************************)
Failed == caught \/ errors
\* Mutant: the processes are counted after they have been terminated.
DescendantsLeft == ~Failed /\ active \notin {None, 0}

DescendantsFound == ~Failed /\ first \notin {None, 0}

Gone(code) ==
  /\ returned' = code
  /\ handles' = {}
  /\ proc' = IF "job" \in handles THEN JobClosed ELSE proc

Report ==
  /\ place = "report"
  /\ \/ /\ status' = CASE Failed -> "error" [] DescendantsFound -> "descendants" [] OTHER -> "clean"
        /\ Gone(IF Failed THEN 125 ELSE exitCode)
     \/ status' \in {"empty", "partial"} /\ Gone(125)
  /\ place' = "gone"
  /\ UNCHANGED <<kills, attributes, ended, killed, caught, errors, active, first, exitCode, super>>

-----------------------------------------------------------------------------
(***************************************************************************)
(* The supervisor.                                                         *)
(***************************************************************************)

\* The deadline or the output's budget: the runner is terminated, wherever it is.
Forced ==
  /\ super = "poll"
  /\ super' = "forced"
  /\ IF returned = None THEN Gone(1) /\ place' = "gone" ELSE UNCHANGED <<proc, handles, place, returned>>
  /\ UNCHANGED <<kills, attributes, ended, killed, caught, errors, active, first, exitCode, status>>

DecodeStatus == IF status \in {"empty", "partial"} THEN "error" ELSE status

\* What a runner that was terminated has left in the pipe is read and not used.
Verdict ==
  IF super = "forced" THEN "timeout"
  ELSE IF DecodeStatus \in {"error", "descendants"} THEN DecodeStatus
  ELSE IF returned # 0 THEN "failed" ELSE "success"

\* The pipe ends when the runner, the only one to write it, has gone.
ReadStatus ==
  /\ super \in {"poll", "forced"} /\ returned # None
  /\ super' = Verdict
  /\ UNCHANGED <<systemVars, runnerVars, status, returned>>

RunnerNext ==
  \/ CreateJob \/ Limit \/ InitializeList \/ UpdateList \/ CreateProcess \/ WaitForTarget \/ ReadCode
  \/ Query \/ Drain \/ Terminate \/ WaitJobs \/ WaitProcess \/ DeleteList \/ CloseHandles \/ Report

JobNext == Start \/ (\E p \in JobProcs : End(p)) \/ RunnerNext \/ Forced \/ ReadStatus

JobSpec == JobInit /\ [][JobNext]_jobVars

-----------------------------------------------------------------------------
(***************************************************************************)
(* Properties.                                                             *)
(***************************************************************************)

\* A command that succeeds, or fails by its own code, has ended by itself and so has all
\* that it started: nothing was terminated, and nothing can still start.
EndedByItself ==
  super \in {"success", "failed"} =>
    /\ ended = IF super = "success" THEN 0 ELSE returned
    /\ killed = {} /\ Active = {}

\* Once the runner has gone, of its own or terminated at any of its steps, no process of
\* the job runs on; and when it reports, it has given back whatever it had been given, on
\* every path: all but the handles it says it could not close.
NothingLeftBehind ==
  /\ returned # None => \A p \in JobProcs : proc[p] # "running"
  /\ place = "report" => attributes # "live" /\ (handles = {} \/ errors)
=============================================================================
