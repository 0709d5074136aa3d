------------------------ MODULE ProductToolsProofs -------------------------
(***************************************************************************)
(* What the product's tools guarantee: the Windows runner for any number   *)
(* of helpers and any pattern of failing calls, the reading of the         *)
(* requirements lock for any number of saves, and the end-to-end           *)
(* container's wait for any number of targets, however long each takes to  *)
(* answer.  JobInv, LockInv and WaitInv are the inductive invariants.      *)
(***************************************************************************)
EXTENDS StableRequirements, WindowsJob, E2EWait, FiniteSetTheorems, WellFoundedInduction, TLAPS

-----------------------------------------------------------------------------
(***************************************************************************)
(* What the Windows runner keeps true.                                     *)
(***************************************************************************)
\* Where the runner is, by what it has been given so far.
Early == {"create job", "limit", "list", "update", "create process"}
Live == {"wait", "read code", "query", "drain", "terminate", "wait jobs", "wait process"}
Closing == {"delete list", "close", "report"}

Idle == \A p \in JobProcs : proc[p] \notin {"running", "dying"}

JobTypes ==
  /\ proc \in [JobProcs -> {"unborn", "running", "dying", "gone"}]
  /\ kills \in BOOLEAN /\ caught \in BOOLEAN /\ errors \in BOOLEAN
  /\ handles \subseteq {"job", "process", "thread"}
  /\ place \in Early \cup Live \cup Closing \cup {"gone"}
  /\ place = "gone" <=> returned # None
  /\ status \in {"empty", "partial", "error", "descendants", "clean"}
  /\ proc[Target] = "gone" => ended # None

\* The command and what it starts run only in a job that kills on close and that the
\* runner still holds.
RunInv ==
  /\ place \in {"create job", "gone"} => handles = {}
  /\ place \in Early => \A p \in JobProcs : proc[p] = "unborn"
  /\ place \in (Early \cup Live) \ {"create job"} => "job" \in handles
  /\ place \in Live \cup {"list", "update", "create process"} => kills
  /\ "process" \in handles => kills
  /\ (\E p \in JobProcs : proc[p] = "running") => kills /\ "job" \in handles

\* What is given back on every path.
BackInv ==
  /\ place \in Live => "process" \in handles
  /\ place \in {"create job", "limit", "list", "close", "report"} => attributes # "live"
  /\ place = "report" => handles = {} \/ errors

\* What a runner that has met no error knows: nothing was terminated before it
\* terminates, the target has ended with the code it has read, and a job that was
\* counted empty is empty.
CleanInv ==
  /\ place \in Early \cup {"wait", "read code", "query", "drain", "terminate"} => killed = {}
  /\ ~Failed =>
       /\ place \in {"read code", "query", "drain", "terminate", "wait jobs", "wait process"} \cup Closing =>
            proc[Target] = "gone"
       /\ place \in {"query", "drain", "terminate", "wait jobs", "wait process"} \cup Closing => exitCode = ended
       /\ place = "terminate" => active # None /\ (active = 0 => Idle)
       /\ place \in {"wait jobs", "wait process"} \cup Closing =>
            first # None /\ (first = 0 => killed = {} /\ Idle)

\* And what the supervisor knows.
StatusInv ==
  /\ status = "clean" => /\ place = "gone" /\ proc[Target] = "gone" /\ returned = ended
                         /\ killed = {} /\ Idle
  /\ super \in {"success", "failed"} => status = "clean" /\ (super = "success" <=> returned = 0)

JobInv == JobTypes /\ RunInv /\ BackInv /\ CleanInv /\ StatusInv

-----------------------------------------------------------------------------
(***************************************************************************)
(* The Windows runner.                                                     *)
(***************************************************************************)
LEMMA Counts ==
  /\ Cardinality(Active) \in Nat
  /\ Active = {} => Idle
  /\ Cardinality(Active) = 0 => Idle
<1>1. IsFiniteSet(JobProcs)
  BY JobProcsAssumption, FS_AddElement DEF JobProcs
<1>2. IsFiniteSet(Active)
  BY <1>1, FS_Subset DEF Active
<1>3. Active = {} => Idle
  BY DEF Active, Idle
<1> QED
  BY <1>2, <1>3, FS_CardinalityType, FS_EmptySet

LEMMA TargetInJob == Target \in JobProcs
  BY DEF JobProcs

LEMMA Sentinels == None = -1 /\ Unknown = -2 /\ None \notin Nat /\ Unknown \notin Nat /\ None # Unknown
  BY DEF None, Unknown

\* Terminating the job's processes leaves none that runs, and adds none.
LEMMA TerminatedFacts ==
  ASSUME JobTypes
  PROVE  /\ Terminated \in [JobProcs -> {"unborn", "running", "dying", "gone"}]
         /\ \A p \in JobProcs : /\ Terminated[p] # "running"
                                /\ Terminated[p] # proc[p] => proc[p] = "running" /\ Terminated[p] = "dying"
  BY DEF Terminated, JobTypes

\* The runner's handles are closed; what runs in a job that kills on close ends.
LEMMA GoneFacts ==
  ASSUME JobTypes, RunInv, NEW code, Gone(code)
  PROVE  /\ proc' \in [JobProcs -> {"unborn", "running", "dying", "gone"}]
         /\ \A p \in JobProcs : /\ proc'[p] # "running"
                                /\ proc'[p] # proc[p] => proc[p] = "running" /\ proc'[p] = "dying"
         /\ handles' = {} /\ returned' = code
  BY TerminatedFacts DEF Gone, JobClosed, RunInv, JobTypes

LEMMA InitJob == JobInit => JobInv
<1> SUFFICES ASSUME JobInit PROVE JobInv
  OBVIOUS
<1>1. JobTypes
  BY TargetInJob DEF JobInit, JobTypes, Early, Live, Closing
<1>2. RunInv /\ BackInv /\ CleanInv /\ StatusInv
  BY DEF JobInit, RunInv, BackInv, CleanInv, StatusInv, Early, Live, Closing
<1> QED
  BY <1>1, <1>2 DEF JobInv

\* The processes of the job.
LEMMA ProcessesJob ==
  ASSUME JobInv, Start \/ \E p \in JobProcs : End(p)
  PROVE  JobInv'
<1> USE TargetInJob DEF JobProcs, runnerVars, pipeVars
<1>1. CASE Start
  <2>1. PICK p \in Helpers : proc[p] = "unborn" /\ proc' = [proc EXCEPT ![p] = "running"]
    BY <1>1 DEF Start
  <2>2. p \in JobProcs /\ p # Target /\ Target \in JobProcs /\ \E q \in JobProcs : proc[q] = "running"
    BY <1>1, JobProcsAssumption DEF Start, JobProcs
  <2>3. kills /\ "job" \in handles /\ ~Idle /\ place \notin Early
    BY <2>2 DEF JobInv, RunInv, Idle
  <2>4. UNCHANGED <<kills, handles, attributes, ended, killed, place, caught, errors, active, first, exitCode,
                    status, returned, super>> /\ proc'[Target] = proc[Target]
    BY <1>1, <2>1, <2>2 DEF Start, JobInv, JobTypes
  <2>5. JobTypes' /\ RunInv' /\ BackInv'
    BY <2>1, <2>2, <2>3, <2>4 DEF JobInv, JobTypes, RunInv, BackInv
  <2>6. CleanInv' /\ StatusInv'
    BY <2>3, <2>4 DEF JobInv, CleanInv, StatusInv, Failed
  <2> QED
    BY <2>5, <2>6 DEF JobInv
<1>2. ASSUME NEW p \in JobProcs, End(p) PROVE JobInv'
  <2>1. /\ proc[p] \in {"running", "dying"} /\ proc' = [proc EXCEPT ![p] = "gone"]
        /\ UNCHANGED <<kills, handles, attributes, killed, place, caught, errors, active, first, exitCode,
                       status, returned, super>>
    BY <1>2 DEF End
  <2>2. /\ \A q \in JobProcs : proc'[q] = IF q = p THEN "gone" ELSE proc[q]
        /\ (Idle => Idle') /\ Target \in JobProcs
    BY <2>1 DEF JobInv, JobTypes, Idle, JobProcs
  <2>3. /\ proc[Target] = "gone" => ended' = ended /\ proc'[Target] = "gone"
        /\ proc'[Target] = "gone" => ended' # None
    BY <1>2, <2>1, <2>2, Sentinels DEF End, JobInv, JobTypes
  <2>4. JobTypes' /\ RunInv' /\ BackInv'
    BY <2>1, <2>2, <2>3 DEF JobInv, JobTypes, RunInv, BackInv
  <2>5. CleanInv' /\ StatusInv'
    BY <2>1, <2>2, <2>3 DEF JobInv, CleanInv, StatusInv, Failed, Closing
  <2> QED
    BY <2>4, <2>5 DEF JobInv
<1> QED
  BY <1>1, <1>2

\* The runner up to the end of the target.
LEMMA SetUpJob ==
  ASSUME JobInv,
         CreateJob \/ Limit \/ InitializeList \/ UpdateList \/ CreateProcess \/ WaitForTarget \/ ReadCode
  PROVE  JobInv'
<1> USE TargetInJob DEF JobProcs, pipeVars, Early, Live, Closing, Fails, Cleanup, Failed
<1>1. CASE CreateJob
  BY <1>1 DEF CreateJob, JobInv, JobTypes, RunInv, BackInv, CleanInv, StatusInv, Idle
<1>2. CASE Limit
  <2>1. /\ place = "limit" /\ (kills' = TRUE \/ kills' = kills) /\ "job" \in handles
        /\ \A p \in JobProcs : proc[p] = "unborn"
        /\ UNCHANGED <<proc, handles, attributes, ended, killed, errors, active, first, exitCode,
                       status, returned, super>>
    BY <1>2 DEF Limit, JobInv, RunInv
  <2>2. \/ place' = "list" /\ kills' = TRUE /\ caught' = caught
        \/ caught' = TRUE /\ place' \in {"query", "delete list"} /\ ("process" \in handles <=> place' = "query")
           /\ kills' = kills
    BY <1>2 DEF Limit
  <2>3. JobTypes'
    BY <2>1, <2>2 DEF JobInv, JobTypes
  <2>4. RunInv'
    <3>1. kills => kills'
      BY <2>1 DEF JobInv, JobTypes
    <3>2. place' \in Live => kills'
      BY <2>1, <2>2, <3>1 DEF JobInv, RunInv
    <3> QED
      BY <2>1, <2>2, <3>1, <3>2 DEF JobInv, RunInv
  <2>5. BackInv'
    BY <2>1, <2>2 DEF JobInv, BackInv
  <2>6. CleanInv' /\ StatusInv'
    BY <2>1, <2>2 DEF JobInv, CleanInv, StatusInv, Idle
  <2> QED
    BY <2>3, <2>4, <2>5, <2>6 DEF JobInv
<1>3. CASE InitializeList
  BY <1>3 DEF InitializeList, JobInv, JobTypes, RunInv, BackInv, CleanInv, StatusInv, Idle
<1>4. CASE UpdateList
  BY <1>4 DEF UpdateList, JobInv, JobTypes, RunInv, BackInv, CleanInv, StatusInv, Idle
<1>5. CASE CreateProcess
  <2>1. Target \in JobProcs
    BY DEF JobProcs
  <2> QED
    BY <1>5, <2>1 DEF CreateProcess, JobInv, JobTypes, RunInv, BackInv, CleanInv, StatusInv
<1>6. CASE WaitForTarget
  BY <1>6 DEF WaitForTarget, JobInv, JobTypes, RunInv, BackInv, CleanInv, StatusInv, Idle
<1>7. CASE ReadCode
  BY <1>7 DEF ReadCode, JobInv, JobTypes, RunInv, BackInv, CleanInv, StatusInv, Idle
<1> QED
  BY <1>1, <1>2, <1>3, <1>4, <1>5, <1>6, <1>7

\* The cleanup.
LEMMA CleanupJob ==
  ASSUME JobInv, Query \/ Drain \/ Terminate \/ WaitJobs \/ WaitProcess \/ DeleteList \/ CloseHandles
  PROVE  JobInv'
<1> USE TargetInJob DEF JobProcs, pipeVars, systemVars, Early, Live, Closing, Failed
<1>1. CASE Query \/ Drain
  <2>1. /\ active' # None
        /\ active' = 0 /\ ~errors' => Idle /\ ~errors
        /\ errors' \in BOOLEAN /\ (errors => errors')
    BY <1>1, Counts, Sentinels DEF Query, Drain, QueryActive, JobInv, JobTypes
  <2> QED
    BY <1>1, <2>1 DEF Query, Drain, JobInv, JobTypes, RunInv, BackInv, CleanInv, StatusInv, Idle
<1>2. CASE Terminate
  <2>1. Terminate /\ active = 0 => UNCHANGED <<proc, killed, errors>> /\ place' = "wait process"
    BY DEF Terminate
  <2>2. CASE active = 0
    BY <1>2, <2>1, <2>2, Sentinels DEF Terminate, JobInv, JobTypes, RunInv, BackInv, CleanInv, StatusInv, Idle
  <2>3. CASE active # 0
    <3>1. /\ proc' \in [JobProcs -> {"unborn", "running", "dying", "gone"}]
          /\ \A p \in JobProcs : proc'[p] # proc[p] => proc[p] = "running" /\ proc'[p] = "dying"
          /\ errors' \in BOOLEAN /\ (errors => errors') /\ place' = "wait jobs" /\ Target \in JobProcs
      BY <1>2, <2>3, TerminatedFacts DEF Terminate, JobInv, JobTypes, JobProcs
    <3>2. /\ place = "terminate" /\ first' = active
          /\ UNCHANGED <<kills, handles, attributes, ended, caught, active, exitCode, status, returned, super>>
      BY <1>2 DEF Terminate
    <3>3. JobTypes'
      BY <3>1, <3>2 DEF JobInv, JobTypes
    <3>4. RunInv' /\ BackInv'
      BY <3>1, <3>2 DEF JobInv, RunInv, BackInv
    <3>5. CleanInv'
      BY <2>3, <3>1, <3>2 DEF JobInv, JobTypes, CleanInv
    <3>6. StatusInv'
      BY <3>1, <3>2 DEF JobInv, StatusInv
    <3> QED
      BY <3>3, <3>4, <3>5, <3>6 DEF JobInv
  <2> QED
    BY <2>2, <2>3
<1>3. CASE WaitJobs
  BY <1>3 DEF WaitJobs, JobInv, JobTypes, RunInv, BackInv, CleanInv, StatusInv, Idle
<1>4. CASE WaitProcess
  BY <1>4 DEF WaitProcess, JobInv, JobTypes, RunInv, BackInv, CleanInv, StatusInv, Idle
<1>5. CASE DeleteList
  BY <1>5 DEF DeleteList, JobInv, JobTypes, RunInv, BackInv, CleanInv, StatusInv, Idle
<1>6. CASE CloseHandles
  <2>1. PICK closed \in SUBSET handles :
          /\ handles' = handles \ closed
          /\ errors' = (errors \/ closed # handles)
          /\ proc' = IF "job" \in closed THEN JobClosed ELSE proc
    BY <1>6 DEF CloseHandles
  <2>2. /\ place = "close" /\ place' = "report"
        /\ UNCHANGED <<kills, attributes, ended, killed, caught, active, first, exitCode, status, returned, super>>
    BY <1>6 DEF CloseHandles
  <2>3. "job" \in closed => kills \/ \A p \in JobProcs : proc[p] # "running"
    BY DEF JobInv, RunInv
  <2>4. /\ proc' \in [JobProcs -> {"unborn", "running", "dying", "gone"}]
        /\ \A p \in JobProcs : /\ proc'[p] # proc[p] => proc[p] = "running" /\ proc'[p] = "dying"
                               /\ proc'[p] = "running" => proc[p] = "running" /\ "job" \notin closed
        /\ Target \in JobProcs /\ errors' \in BOOLEAN /\ (errors => errors')
    BY <2>1, <2>3, TerminatedFacts DEF JobClosed, JobInv, JobTypes, JobProcs
  <2>5. Idle => Idle'
    BY <2>4 DEF Idle
  <2>6. JobTypes'
    BY <2>1, <2>2, <2>4 DEF JobInv, JobTypes
  <2>7. RunInv'
    BY <2>1, <2>2, <2>4 DEF JobInv, RunInv
  <2>8. BackInv'
    BY <2>1, <2>2 DEF JobInv, JobTypes, BackInv
  <2>9. CleanInv' /\ StatusInv'
    BY <2>2, <2>4, <2>5 DEF JobInv, CleanInv, StatusInv
  <2> QED
    BY <2>6, <2>7, <2>8, <2>9 DEF JobInv
<1> QED
  BY <1>1, <1>2, <1>3, <1>4, <1>5, <1>6

\* A step of the supervisor alone.
LEMMA SameJob ==
  ASSUME JobInv,
         UNCHANGED <<proc, kills, handles, attributes, ended, killed, place, caught, errors, active, first,
                     exitCode, status, returned>>,
         super' \in {"success", "failed"} => status' = "clean" /\ (super' = "success" <=> returned' = 0)
  PROVE  JobInv'
<1>1. Idle' = Idle /\ Failed' = Failed
  BY DEF Idle, Failed
<1>2. JobTypes'
  BY DEF JobInv, JobTypes
<1>3. RunInv'
  BY DEF JobInv, RunInv
<1>4. BackInv'
  BY DEF JobInv, BackInv
<1>5. CleanInv'
  BY <1>1 DEF JobInv, CleanInv
<1>6. StatusInv'
  BY <1>1 DEF JobInv, StatusInv
<1> QED
  BY <1>2, <1>3, <1>4, <1>5, <1>6 DEF JobInv

\* The end of the runner, and the supervisor.
LEMMA EndJob ==
  ASSUME JobInv, Report \/ Forced \/ ReadStatus
  PROVE  JobInv'
<1> USE TargetInJob DEF JobProcs, Early, Live, Closing
<1>1. ASSUME Report PROVE JobInv'
  <2>1. /\ place = "report" /\ place' = "gone"
        /\ UNCHANGED <<kills, attributes, ended, killed, caught, errors, active, first, exitCode, super>>
    BY <1>1 DEF Report
  <2>2. /\ returned' \in {125, exitCode} /\ (returned' # 125 => ~Failed)
        /\ status' \in {"empty", "partial", "error", "descendants", "clean"}
    BY <1>1 DEF Report, Gone
  <2>3. /\ proc' \in [JobProcs -> {"unborn", "running", "dying", "gone"}]
        /\ \A p \in JobProcs : /\ proc'[p] # "running"
                               /\ proc'[p] # proc[p] => proc[p] = "running" /\ proc'[p] = "dying"
        /\ handles' = {}
    BY <1>1, GoneFacts DEF Report, JobInv
  <2>4. status' = "clean" => ~Failed /\ first \in {None, 0} /\ returned' = exitCode
    BY <1>1 DEF Report, Gone, DescendantsFound
  <2>5. status' = "clean" => proc'[Target] = "gone" /\ returned' = ended' /\ killed' = {} /\ Idle'
    BY <2>1, <2>3, <2>4 DEF JobInv, CleanInv, Idle
  <2>6. returned' # None
    BY <2>1, <2>2, Sentinels DEF JobInv, JobTypes, CleanInv
  <2>7. JobTypes' /\ RunInv' /\ BackInv'
    BY <2>1, <2>2, <2>3, <2>6 DEF JobInv, JobTypes, RunInv, BackInv
  <2>8. CleanInv' /\ StatusInv'
    BY <2>1, <2>5 DEF JobInv, CleanInv, StatusInv
  <2> QED
    BY <2>7, <2>8 DEF JobInv
<1>2. ASSUME Forced PROVE JobInv'
  <2>1. /\ super = "poll" /\ super' = "forced"
        /\ UNCHANGED <<kills, attributes, ended, killed, caught, errors, active, first, exitCode, status>>
    BY <1>2 DEF Forced
  <2>2. CASE returned = None
    <3>1. Gone(1) /\ place' = "gone" /\ place # "gone"
      BY <1>2, <2>2 DEF Forced, JobInv, JobTypes
    <3>2. /\ proc' \in [JobProcs -> {"unborn", "running", "dying", "gone"}]
          /\ \A p \in JobProcs : /\ proc'[p] # "running"
                                 /\ proc'[p] # proc[p] => proc[p] = "running" /\ proc'[p] = "dying"
          /\ handles' = {} /\ returned' = 1 /\ 1 # None
      BY <3>1, GoneFacts, Sentinels DEF JobInv
    <3>3. JobTypes' /\ RunInv' /\ BackInv'
      BY <2>1, <3>1, <3>2 DEF JobInv, JobTypes, RunInv, BackInv
    <3>4. CleanInv' /\ StatusInv'
      BY <2>1, <3>1 DEF JobInv, CleanInv, StatusInv
    <3> QED
      BY <3>3, <3>4 DEF JobInv
  <2>3. CASE returned # None
    <3>1. UNCHANGED <<proc, handles, place, returned>>
      BY <1>2, <2>3 DEF Forced
    <3> QED
      BY <2>1, <3>1, SameJob DEF StatusInv
  <2> QED
    BY <2>2, <2>3
<1>3. ASSUME ReadStatus PROVE JobInv'
  <2>1. UNCHANGED <<proc, kills, handles, attributes, ended, killed, place, caught, errors, active, first,
                    exitCode, status, returned>>
    BY <1>3 DEF ReadStatus, systemVars, runnerVars
  <2>2. Verdict \in {"success", "failed"} => DecodeStatus \notin {"error", "descendants"}
    BY DEF Verdict
  <2>3. Verdict = "success" => returned = 0
    BY DEF Verdict
  <2>4. Verdict = "failed" => returned # 0
    BY DEF Verdict
  <2>5. super' \in {"success", "failed"} =>
          status \notin {"error", "descendants", "empty", "partial"} /\ (super' = "success" <=> returned = 0)
    BY <1>3, <2>2, <2>3, <2>4 DEF ReadStatus, DecodeStatus
  <2>6. super' \in {"success", "failed"} => status' = "clean" /\ (super' = "success" <=> returned' = 0)
    BY <2>1, <2>5 DEF JobInv, JobTypes
  <2> QED
    BY <2>1, <2>6, SameJob
<1> QED
  BY <1>1, <1>2, <1>3

-----------------------------------------------------------------------------
\* JobInv is an invariant of the Windows runner.
THEOREM JobInductive == JobSpec => []JobInv
<1>1. JobInv /\ [JobNext]_jobVars => JobInv'
  <2> SUFFICES ASSUME JobInv, [JobNext]_jobVars PROVE JobInv'
    OBVIOUS
  <2> USE TargetInJob DEF JobProcs
  <2>1. CASE JobNext
    BY <2>1, ProcessesJob, SetUpJob, CleanupJob, EndJob DEF JobNext, RunnerNext
  <2>2. CASE UNCHANGED jobVars
    BY <2>2, SameJob DEF jobVars, systemVars, runnerVars, pipeVars, JobInv, StatusInv
  <2> QED
    BY <2>1, <2>2
<1> QED
  BY <1>1, InitJob, PTL DEF JobSpec

\* A supervised command whose outcome is its own code has ended by itself, with all that
\* it started (main's status and supervise in the Windows runner).
THEOREM EndsByItself == JobSpec => []EndedByItself
<1>1. JobInv => EndedByItself
  BY DEF JobInv, JobTypes, StatusInv, EndedByItself, Idle, Active
<1> QED
  BY <1>1, JobInductive, PTL

\* A runner that has gone leaves no process of the job running, wherever it was and
\* whatever call failed, and one that reports has given back what it had been given.
THEOREM NothingIsLeft == JobSpec => []NothingLeftBehind
<1>1. JobInv => NothingLeftBehind
  <2> SUFFICES ASSUME JobInv PROVE NothingLeftBehind
    OBVIOUS
  <2>1. ASSUME returned # None, NEW p \in JobProcs, proc[p] = "running" PROVE FALSE
    BY <2>1 DEF JobInv, JobTypes, RunInv
  <2> QED
    BY <2>1 DEF JobInv, BackInv, NothingLeftBehind
<1> QED
  BY <1>1, JobInductive, PTL

-----------------------------------------------------------------------------
(***************************************************************************)
(* The requirements lock.                                                  *)
(***************************************************************************)
Blocks == Nat \X {1, 2}
LockFile == [inode : Nat, mtime : Nat, blocks : Seq(Blocks)]

\* The phases, by what the checks before them have established.
Lead == {"bind", "first", "snapshot"}
Checked == {"source checked", "version", "authority", "snapshot rechecked", "source rechecked", "attest", "adopted"}
Installed == {"snapshot checked"} \cup Checked
Written == {"venv", "help", "install"} \cup Installed

LockTypes ==
  /\ clock \in Nat /\ saves \in Nat /\ left \in Seq(Blocks)
  /\ file \in LockFile /\ before \in LockFile /\ opened \in LockFile
  /\ content \in Seq(Blocks) /\ current \in Seq(Blocks)
  /\ phase \in Lead \cup Written \cup {"refused"}
  /\ step \in {"start", "chain", "lstat", "open", "read", "after"}
  /\ step \in {"lstat", "open", "read", "after"} => phase \in Reading
  /\ step = "chain" => phase \in Reading \cup {"bind"}
  /\ altered \in BOOLEAN /\ unseen \in BOOLEAN

\* Since lstat the file is as it was, or shows a later time, or was written within the
\* tick that lstat saw.
Still == unseen \/ file.mtime > before.mtime

\* What has been read is a beginning of the lock.
Begun == Len(current) <= Len(file.blocks) /\ \A i \in 1..Len(current) : current[i] = file.blocks[i]

ReadInv ==
  /\ file.mtime <= clock /\ before.mtime <= clock
  /\ phase \in Reading /\ step # "start" => file.blocks \in held
  /\ phase \in Reading /\ step \in {"chain", "lstat"} => current = <<>>
  /\ step = "lstat" => Still \/ file = before
  /\ step = "open" => Still \/ (file = before /\ opened = file /\ Begun)
  /\ step = "read" => Still \/ (file = before /\ current = file.blocks)
  /\ step = "after" => unseen \/ current \in held
  /\ ReadWasHeld

AdoptInv ==
  /\ IF altered THEN phase \notin Lead /\ snapshot = Spoilt
                ELSE phase \in Written => snapshot = content
  /\ phase \in Installed => installed = content \/ altered
  /\ phase \in Checked => installed = content
  /\ phase \in {"attest", "adopted"} => current = content
  /\ phase = "adopted" => attested = content

LockInv == LockTypes /\ ReadInv /\ AdoptInv

\* The phases follow each other as Phases lists them.
LEMMA Order ==
  /\ Next1("bind") = "first" /\ Next1("first") = "snapshot"
  /\ Next1("snapshot") = "venv" /\ Next1("venv") = "help"
  /\ Next1("help") = "install" /\ Next1("install") = "snapshot checked"
  /\ Next1("snapshot checked") = "source checked" /\ Next1("source checked") = "version"
  /\ Next1("version") = "authority" /\ Next1("authority") = "snapshot rechecked"
  /\ Next1("snapshot rechecked") = "source rechecked" /\ Next1("source rechecked") = "attest"
  /\ Next1("attest") = "adopted"
<1> DEFINE N == {1, 2, 3, 4, 5, 6, 7, 8, 9, 10, 11, 12, 13, 14}
<1>1. DOMAIN Phases = N
  BY DEF Phases
<1>2. /\ Phases[1] = "bind" /\ Phases[2] = "first" /\ Phases[3] = "snapshot" /\ Phases[4] = "venv"
      /\ Phases[5] = "help" /\ Phases[6] = "install" /\ Phases[7] = "snapshot checked"
      /\ Phases[8] = "source checked" /\ Phases[9] = "version" /\ Phases[10] = "authority"
      /\ Phases[11] = "snapshot rechecked" /\ Phases[12] = "source rechecked"
      /\ Phases[13] = "attest" /\ Phases[14] = "adopted"
  BY DEF Phases
<1>3. ASSUME NEW i \in N, NEW j \in N, Phases[j] = Phases[i] PROVE j = i
  <2>1. CASE i = 1
    BY <1>2, <1>3, <2>1
  <2>2. CASE i = 2
    BY <1>2, <1>3, <2>2
  <2>3. CASE i = 3
    BY <1>2, <1>3, <2>3
  <2>4. CASE i = 4
    BY <1>2, <1>3, <2>4
  <2>5. CASE i = 5
    BY <1>2, <1>3, <2>5
  <2>6. CASE i = 6
    BY <1>2, <1>3, <2>6
  <2>7. CASE i = 7
    BY <1>2, <1>3, <2>7
  <2>8. CASE i = 8
    BY <1>2, <1>3, <2>8
  <2>9. CASE i = 9
    BY <1>2, <1>3, <2>9
  <2>10. CASE i = 10
    BY <1>2, <1>3, <2>10
  <2>11. CASE i = 11
    BY <1>2, <1>3, <2>11
  <2>12. CASE i = 12
    BY <1>2, <1>3, <2>12
  <2>13. CASE i = 13
    BY <1>2, <1>3, <2>13
  <2>14. CASE i = 14
    BY <1>2, <1>3, <2>14
  <2> QED
    BY <2>1, <2>2, <2>3, <2>4, <2>5, <2>6, <2>7, <2>8, <2>9, <2>10, <2>11, <2>12, <2>13, <2>14
<1>4. ASSUME NEW i \in N PROVE Next1(Phases[i]) = Phases[1 + i]
  <2> HIDE DEF N
  <2>1. (CHOOSE j \in DOMAIN Phases : Phases[j] = Phases[i]) = i
    BY <1>1, <1>3
  <2> QED
    BY <2>1 DEF Next1
<1>5. /\ Next1(Phases[1]) = Phases[2] /\ Next1(Phases[2]) = Phases[3] /\ Next1(Phases[3]) = Phases[4]
      /\ Next1(Phases[4]) = Phases[5] /\ Next1(Phases[5]) = Phases[6] /\ Next1(Phases[6]) = Phases[7]
      /\ Next1(Phases[7]) = Phases[8] /\ Next1(Phases[8]) = Phases[9] /\ Next1(Phases[9]) = Phases[10]
      /\ Next1(Phases[10]) = Phases[11] /\ Next1(Phases[11]) = Phases[12] /\ Next1(Phases[12]) = Phases[13]
      /\ Next1(Phases[13]) = Phases[14]
  BY <1>4
<1> QED
  BY <1>2, <1>5

\* A number can be had for a new file.
LEMMA LowestIsFree ==
  ASSUME NEW S, S \subseteq Nat, S # {}
  PROVE  Min(S) \in S
<1> DEFINE R == OpToRel(<, Nat)
<1>1. PICK n \in S : \A m \in S : <<m, n>> \notin R
  <2> HIDE DEF R
  <2>1. IsWellFoundedOn(R, Nat)
    BY NatLessThanWellFounded DEF R
  <2> QED
    BY <2>1, WFMin
<1>2. ASSUME NEW m \in S PROVE n <= m
  <2>1. ~(<<m, n>>[1] < <<m, n>>[2]) /\ m \in Nat /\ n \in Nat
    BY <1>1 DEF OpToRel
  <2> QED
    BY <2>1
<1> QED
  BY <1>2 DEF Min

LEMMA InodeIsFree == \A x, y : Min(Inodes \ {x, y}) \in Nat
<1> SUFFICES ASSUME NEW x, NEW y PROVE Min(Inodes \ {x, y}) \in Nat
  OBVIOUS
<1>1. Inodes \ {x, y} # {}
  <2>1. IsFiniteSet({x, y}) /\ Cardinality({x, y}) <= 2
    <3>1. IsFiniteSet({x}) /\ Cardinality({x}) = 1
      BY FS_Singleton
    <3>2. {x, y} = {x} \cup {y}
      OBVIOUS
    <3> QED
      BY <3>1, <3>2, FS_AddElement, FS_CardinalityType
  <2>2. ASSUME Inodes \subseteq {x, y} PROVE FALSE
    <3>1. Cardinality(Inodes) <= Cardinality({x, y})
      BY <2>1, <2>2, FS_Subset
    <3>2. Cardinality(Inodes) \in Nat /\ Cardinality({x, y}) \in Nat /\ Cardinality(Inodes) >= 3
      BY <2>1, FS_CardinalityType, InodesAssumption
    <3> QED
      BY <2>1, <3>1, <3>2
  <2> QED
    BY <2>2
<1> QED
  BY <1>1, LowestIsFree, InodesAssumption

\* What is saved is never what a command spoils.
LEMMA Contents ==
  /\ \A n \in Nat : Save(n) \in Seq(Blocks) /\ Save(n) # <<>>
  /\ Spoilt \notin Seq(Blocks)
<1>1. ASSUME NEW n \in Nat PROVE Save(n) \in Seq(Blocks) /\ Save(n) # <<>>
  BY DEF Save, Blocks
<1>2. Spoilt \notin Seq(Blocks)
  <2>1. Spoilt[1] = <<0, 0>> /\ Len(Spoilt) = 1
    BY DEF Spoilt
  <2>2. <<0, 0>> \notin Blocks
    BY DEF Blocks
  <2> QED
    BY <2>1, <2>2
<1> QED
  BY <1>1, <1>2
LEMMA NoFileIs == NoFile \in LockFile /\ NoFile.mtime = 0 /\ <<>> \in Seq(Blocks)
  BY DEF NoFile, LockFile

LEMMA InitLock == RequirementsInit => LockInv
<1> SUFFICES ASSUME RequirementsInit PROVE LockInv
  OBVIOUS
<1>1. Min(Inodes) \in Nat
  <2>1. Inodes # {}
    BY InodesAssumption, FS_EmptySet
  <2> QED
    BY <2>1, LowestIsFree, InodesAssumption
<1>2. Save(0) \in Seq(Blocks) /\ <<>> \in Seq(Blocks) /\ NoFile \in LockFile
  BY Contents DEF NoFile, LockFile
<1>3. file \in LockFile /\ file.mtime = 0
  BY <1>1, <1>2 DEF RequirementsInit, LockFile
<1>4. LockTypes
  BY <1>2, <1>3 DEF RequirementsInit, LockTypes, Lead
<1>5. ReadInv
  BY <1>3 DEF RequirementsInit, ReadInv, ReadWasHeld, Reading, NoFile
<1>6. AdoptInv
  BY DEF RequirementsInit, AdoptInv, Written, Installed, Checked, Lead
<1> QED
  BY <1>4, <1>5, <1>6 DEF LockInv

\* A save changes the lock alone, and tells the reading that it did.
LEMMA SavesTypes ==
  ASSUME LockInv, Replace \/ SaveInPlace \/ WriteBlock
  PROVE  /\ LockTypes' /\ file'.mtime = clock
         /\ held' = IF step = "start" THEN held ELSE held \cup {file'.blocks}
         /\ unseen' = (unseen \/ (step # "start" /\ clock = before.mtime))
         /\ UNCHANGED <<clock, phase, step, chain, before, current, mainVars>>
<1>1. saves \in Nat /\ file \in LockFile /\ clock \in Nat /\ opened \in LockFile /\ LockTypes
  BY DEF LockInv, LockTypes
<1>2. file' \in LockFile /\ file'.mtime = clock /\ opened' \in LockFile /\ left' \in Seq(Blocks) /\ saves' \in Nat /\ Wrote
  <2>1. CASE Replace
    <3>1. Save(saves') \in Seq(Blocks) /\ saves' \in Nat
      BY <1>1, <2>1, Contents DEF Replace
    <3> QED
      BY <1>1, <2>1, <3>1, InodeIsFree DEF Replace, LockFile, LockTypes
  <2>2. ASSUME NEW blocks \in Seq(Blocks), WriteInPlace(blocks)
        PROVE  file' \in LockFile /\ file'.mtime = clock /\ opened' \in LockFile /\ Wrote
    BY <1>1, <2>2 DEF WriteInPlace, LockFile
  <2>3. CASE SaveInPlace
    <3>1. left' \in Seq(Blocks) /\ saves' \in Nat /\ <<>> \in Seq(Blocks)
      BY <1>1, <2>3, Contents DEF SaveInPlace
    <3> QED
      BY <2>2, <2>3, <3>1 DEF SaveInPlace
  <2>4. CASE WriteBlock
    <3>1. left \in Seq(Blocks) /\ left # <<>> /\ file.blocks \in Seq(Blocks)
      BY <1>1, <2>4 DEF WriteBlock, LockTypes, LockFile
    <3>2. Append(file.blocks, Head(left)) \in Seq(Blocks) /\ Tail(left) \in Seq(Blocks)
      BY <3>1
    <3> QED
      BY <1>1, <2>2, <2>4, <3>2 DEF WriteBlock
  <2> QED
    BY <2>1, <2>3, <2>4
<1>3. UNCHANGED <<clock, phase, step, chain, before, current, mainVars>>
  BY <1>2 DEF Wrote
<1>4. unseen' = (unseen \/ (step # "start" /\ clock = before.mtime))
  BY <1>2 DEF Wrote
<1>5. unseen' \in BOOLEAN
  BY <1>1, <1>4 DEF LockTypes
<1>6. LockTypes'
  BY <1>1, <1>2, <1>3, <1>5 DEF LockTypes, mainVars
<1> QED
  BY <1>2, <1>3, <1>4, <1>6 DEF Wrote

LEMMA SavesLock ==
  ASSUME LockInv, Replace \/ SaveInPlace \/ WriteBlock
  PROVE  LockInv'
<1>1. /\ LockTypes' /\ file'.mtime = clock
      /\ held' = IF step = "start" THEN held ELSE held \cup {file'.blocks}
      /\ unseen' = (unseen \/ (step # "start" /\ clock = before.mtime))
      /\ UNCHANGED <<clock, phase, step, chain, before, current, content, snapshot, altered, installed, attested>>
  BY SavesTypes DEF mainVars
<1>2. before.mtime \in Nat /\ before.mtime <= clock /\ clock \in Nat
  BY DEF LockInv, LockTypes, LockFile, ReadInv
<1>3. step # "start" => Still'
  <2>1. step # "start" /\ clock = before.mtime => unseen'
    BY <1>1
  <2>2. clock # before.mtime => file'.mtime > before'.mtime
    BY <1>1, <1>2
  <2> QED
    BY <2>1, <2>2 DEF Still
<1>4. held \subseteq held' /\ (unseen => unseen')
  BY <1>1
<1>5. phase \in Reading /\ step # "start" => file'.blocks \in held'
  BY <1>1
<1>6. ReadInv'
  BY <1>1, <1>2, <1>3, <1>4, <1>5 DEF LockInv, ReadInv, ReadWasHeld
<1>7. AdoptInv'
  BY <1>1 DEF LockInv, AdoptInv
<1> QED
  BY <1>1, <1>6, <1>7 DEF LockInv
\* A refusal leaves no reading and no phase that promises anything.
LEMMA RefuseLock ==
  ASSUME LockInv, Refuse,
         UNCHANGED <<fileVars, current, held, unseen>>, before' \in LockFile, before'.mtime <= clock,
         content' \in Seq(Blocks),
         UNCHANGED altered, altered => UNCHANGED snapshot
  PROVE  LockInv'
<1>1. /\ phase' = "refused" /\ step' = "start" /\ opened' = NoFile /\ NoFile \in LockFile
      /\ UNCHANGED <<clock, file, folder, left, saves>>
  BY DEF Refuse, NoFile, LockFile, fileVars
<1>2. LockTypes'
  BY <1>1 DEF LockInv, LockTypes
<1>3. ReadInv'
  BY <1>1 DEF LockInv, ReadInv, ReadWasHeld, Reading
<1>4. AdoptInv'
  BY <1>1 DEF LockInv, AdoptInv, Lead, Written, Installed, Checked
<1> QED
  BY <1>2, <1>3, <1>4 DEF LockInv

\* Looking at the path and opening the lock.
LEMMA OpensLock ==
  ASSUME LockInv, Bind \/ Bound \/ StartReading \/ Lstat \/ Open
  PROVE  LockInv'
<1> USE DEF readVars, mainVars, seenVars, Reading, Lead, Written, Installed, Checked
<1>0. /\ before \in LockFile /\ file \in LockFile /\ opened \in LockFile /\ NoFile \in LockFile
      /\ before.mtime <= clock /\ file.mtime <= clock /\ content \in Seq(Blocks) /\ clock \in Nat
      /\ <<>> \in Seq(Blocks) /\ NoFile.mtime = 0
  BY NoFileIs DEF LockInv, LockTypes, ReadInv
<1>1. CASE Bind
  BY <1>1 DEF Bind, fileVars, LockInv, LockTypes, ReadInv, ReadWasHeld, AdoptInv, Still, Begun
<1>2. CASE Bound
  <2>1. CASE Refuse
    BY <1>0, <1>2, <2>1, RefuseLock DEF Bound
  <2>2. CASE ~Refuse
    <3>1. phase = "bind" /\ phase' = "first" /\ step' = "start" /\ UNCHANGED opened
          /\ UNCHANGED <<clock, file, folder, left, saves, chain, before, current, content, snapshot, altered,
                         installed, attested, held, unseen>>
      BY <1>2, <2>2, Order DEF Bound, fileVars
    <3>2. LockTypes' /\ ReadInv'
      BY <3>1 DEF LockInv, LockTypes, ReadInv, ReadWasHeld
    <3>3. AdoptInv'
      BY <3>1 DEF LockInv, AdoptInv
    <3> QED
      BY <3>2, <3>3 DEF LockInv
  <2> QED
    BY <2>1, <2>2
<1>3. CASE StartReading
  <2>1. /\ phase \in Reading /\ step = "start" /\ step' = "chain" /\ current' = <<>> /\ before' = NoFile
        /\ held' = {file.blocks} /\ unseen' = FALSE
        /\ UNCHANGED <<clock, file, folder, left, saves, phase, opened, content, snapshot, altered,
                       installed, attested>>
    BY <1>3 DEF StartReading, fileVars
  <2>2. LockTypes'
    BY <1>0, <2>1 DEF LockInv, LockTypes
  <2>3. ReadInv'
    <3>1. file' = file /\ clock' = clock /\ before' = NoFile /\ held' = {file.blocks}
      BY <2>1
    <3>2. file'.mtime <= clock' /\ before'.mtime <= clock' /\ file'.blocks \in held'
      BY <1>0, <3>1
    <3> QED
      BY <2>1, <3>2 DEF ReadInv, ReadWasHeld
  <2>4. AdoptInv'
    BY <2>1 DEF LockInv, AdoptInv
  <2> QED
    BY <2>2, <2>3, <2>4 DEF LockInv
<1>4. CASE Lstat
  <2>1. CASE Refuse
    BY <1>0, <1>4, <2>1, RefuseLock DEF Lstat
  <2>2. CASE ~Refuse
    <3>1. /\ phase \in Reading /\ step = "chain" /\ before' = file /\ step' = "lstat"
          /\ UNCHANGED <<clock, file, folder, left, saves, phase, chain, opened, current, content, snapshot,
                         altered, installed, attested, held, unseen>>
      BY <1>4, <2>2 DEF Lstat, fileVars
    <3>2. LockTypes'
      BY <1>0, <3>1 DEF LockInv, LockTypes
    <3>3. ReadInv'
      BY <1>0, <3>1 DEF LockInv, LockTypes, ReadInv, ReadWasHeld, Still
    <3>4. AdoptInv'
      BY <3>1 DEF LockInv, AdoptInv
    <3> QED
      BY <3>2, <3>3, <3>4 DEF LockInv
  <2> QED
    BY <2>1, <2>2
<1>5. CASE Open
  <2>1. CASE Refuse
    BY <1>0, <1>5, <2>1, RefuseLock DEF Open
  <2>2. CASE ~Refuse
    <3>1. /\ step = "lstat" /\ opened' = file /\ step' = "open"
          /\ UNCHANGED <<clock, file, folder, left, saves, phase, chain, before, current, content, snapshot,
                         altered, installed, attested, held, unseen>>
      BY <1>5, <2>2 DEF Open, fileVars
    <3>2. LockTypes' /\ phase \in Reading
      BY <1>0, <3>1 DEF LockInv, LockTypes
    <3>3. Still' = Still /\ (current = <<>> => Begun')
      BY <1>0, <3>1 DEF Still, Begun, LockFile
    <3>4. ReadInv'
      BY <1>0, <3>1, <3>2, <3>3 DEF LockInv, ReadInv, ReadWasHeld
    <3>5. AdoptInv'
      BY <3>1 DEF LockInv, AdoptInv
    <3> QED
      BY <3>2, <3>4, <3>5 DEF LockInv
  <2> QED
    BY <2>1, <2>2
<1> QED
  BY <1>1, <1>2, <1>3, <1>4, <1>5
\* Reading, and the looks that follow.
LEMMA ReadsLock ==
  ASSUME LockInv, ReadBlock \/ LstatAfter \/ ReadDone
  PROVE  LockInv'
<1> USE DEF mainVars, seenVars, Reading, Lead, Written, Installed, Checked
<1>1. /\ before \in LockFile /\ file \in LockFile /\ opened \in LockFile /\ NoFile \in LockFile
      /\ before.mtime <= clock /\ file.mtime <= clock /\ content \in Seq(Blocks) /\ current \in Seq(Blocks)
      /\ clock \in Nat
  BY NoFileIs DEF LockInv, LockTypes, ReadInv
<1>2. /\ before.mtime \in Nat /\ file.mtime \in Nat
      /\ file.blocks \in Seq(Blocks) /\ opened.blocks \in Seq(Blocks)
  BY <1>1 DEF LockFile
<1>3. CASE ReadBlock
  <2>1. /\ step = "open" /\ phase \in Reading /\ file.blocks \in held
        /\ UNCHANGED <<clock, file, folder, left, saves, phase, chain, before, content, snapshot, altered,
                       installed, attested, held, unseen>>
    BY <1>3 DEF ReadBlock, fileVars, LockInv, LockTypes, ReadInv
  <2>2. Still' = Still
    BY <2>1 DEF Still
  <2>3. CASE Len(current) < Len(opened.blocks)
    <3>1. /\ current' = Append(current, opened.blocks[Len(current) + 1])
          /\ UNCHANGED <<step, opened>>
      BY <1>3, <2>3 DEF ReadBlock
    <3>2. opened.blocks[Len(current) + 1] \in Blocks
      BY <1>1, <1>2, <2>3
    <3>3. current' \in Seq(Blocks)
      BY <1>1, <3>1, <3>2
    <3>4. ASSUME opened = file, Begun PROVE Begun'
      <4>1. Len(current') = Len(current) + 1 /\ Len(current) \in Nat
        BY <1>1, <3>1, <3>2
      <4>2. ASSUME NEW i \in 1..Len(current') PROVE current'[i] = file.blocks[i]
        BY <1>1, <1>2, <3>1, <3>2, <3>4, <4>1 DEF Begun
      <4>3. Len(file.blocks) \in Nat /\ Len(current) < Len(file.blocks) /\ file' = file
        <5>1. Len(current) < Len(file.blocks)
          BY <2>3, <3>4
        <5>2. Len(file.blocks) \in Nat
          BY <1>2
        <5>3. file' = file
          BY <2>1
        <5> QED
          BY <5>1, <5>2, <5>3
      <4> QED
        BY <4>1, <4>2, <4>3 DEF Begun
    <3>5. LockTypes'
      BY <2>1, <3>1, <3>3 DEF LockInv, LockTypes
    <3>6. ReadInv'
      BY <2>1, <2>2, <3>1, <3>4 DEF LockInv, ReadInv, ReadWasHeld
    <3>7. AdoptInv'
      BY <2>1 DEF LockInv, AdoptInv
    <3> QED
      BY <3>5, <3>6, <3>7 DEF LockInv
  <2>4. CASE ~(Len(current) < Len(opened.blocks))
    <3>1. step' = "read" /\ opened' = NoFile /\ current' = current
      BY <1>3, <2>4 DEF ReadBlock
    <3>2. ASSUME opened = file, Begun PROVE current = file.blocks
      <4>1. Len(current) = Len(file.blocks)
        BY <1>1, <1>2, <2>4, <3>2 DEF Begun
      <4> QED
        BY <1>1, <1>2, <3>2, <4>1 DEF Begun
    <3>3. LockTypes'
      BY <1>1, <2>1, <3>1 DEF LockInv, LockTypes
    <3>4. ReadInv'
      BY <2>1, <2>2, <3>1, <3>2 DEF LockInv, ReadInv, ReadWasHeld
    <3>5. AdoptInv'
      BY <2>1, <3>1 DEF LockInv, AdoptInv
    <3> QED
      BY <3>3, <3>4, <3>5 DEF LockInv
  <2> QED
    BY <2>3, <2>4
<1>4. CASE LstatAfter
  <2>1. CASE Refuse
    BY <1>1, <1>4, <2>1, RefuseLock DEF LstatAfter
  <2>2. CASE ~Refuse
    <3>1. /\ step = "read" /\ step' = "after" /\ file.mtime = before.mtime
          /\ UNCHANGED <<clock, file, folder, left, saves, phase, chain, before, opened, current, content,
                         snapshot, altered, installed, attested, held, unseen>>
      BY <1>4, <2>2 DEF LstatAfter, SameAsBefore, fileVars
    <3>2. LockTypes' /\ phase \in Reading
      BY <3>1 DEF LockInv, LockTypes
    <3>3. unseen \/ current \in held
      <4>1. ~(file.mtime > before.mtime)
        BY <1>2, <3>1
      <4>2. unseen \/ current = file.blocks
        BY <3>1, <4>1 DEF LockInv, ReadInv, Still
      <4>3. file.blocks \in held
        BY <3>1, <3>2 DEF LockInv, ReadInv
      <4> QED
        BY <4>2, <4>3
    <3>4. ReadInv'
      BY <3>1, <3>2, <3>3 DEF LockInv, ReadInv, ReadWasHeld
    <3>5. AdoptInv'
      BY <3>1 DEF LockInv, AdoptInv
    <3> QED
      BY <3>2, <3>4, <3>5 DEF LockInv
  <2> QED
    BY <2>1, <2>2
<1>5. CASE ReadDone
  <2>1. /\ step = "after" /\ phase \in Reading /\ (unseen \/ current \in held)
        /\ content' = (IF phase = "first" THEN current ELSE content) /\ content' \in Seq(Blocks)
        /\ UNCHANGED <<clock, file, folder, left, saves, chain, before, current, snapshot, altered,
                       installed, attested, held, unseen>>
    BY <1>1, <1>5 DEF ReadDone, fileVars, LockInv, LockTypes, ReadInv
  <2>2. CASE Refuse
    BY <1>1, <2>1, <2>2, RefuseLock DEF fileVars
  <2>3. CASE ~Refuse
    <3>1. phase' = Next1(phase) /\ step' = "start" /\ opened' = opened /\ (phase = "first" \/ current = content)
      BY <1>5, <2>3 DEF ReadDone, Unchanged
    <3>2. \/ phase = "first" /\ phase' = "snapshot"
          \/ phase = "source checked" /\ phase' = "version" /\ content' = content
          \/ phase = "source rechecked" /\ phase' = "attest" /\ content' = content /\ current = content
      BY <2>1, <3>1, Order
    <3>3. LockTypes'
      BY <2>1, <3>1, <3>2 DEF LockInv, LockTypes
    <3>4. ReadInv'
      BY <2>1, <3>1, <3>2 DEF LockInv, ReadInv, ReadWasHeld
    <3>5. AdoptInv'
      BY <2>1, <3>2 DEF LockInv, AdoptInv
    <3> QED
      BY <3>3, <3>4, <3>5 DEF LockInv
  <2> QED
    BY <2>2, <2>3
<1> QED
  BY <1>3, <1>4, <1>5
\* The snapshot, the commands, the authority's word and the clock.
LEMMA MainLock ==
  ASSUME LockInv,
         Tick \/ WriteSnapshot \/ Alter \/ Command \/ Authority \/ SnapshotUnchanged \/ Attest
  PROVE  LockInv'
<1> USE DEF mainVars, seenVars, readVars, fileVars, Lead, Written, Installed, Checked
<1>1. /\ before \in LockFile /\ file \in LockFile /\ before.mtime \in Nat /\ file.mtime \in Nat /\ clock \in Nat
      /\ before.mtime <= clock /\ file.mtime <= clock /\ content \in Seq(Blocks) /\ content # Spoilt
  BY Contents DEF LockInv, LockTypes, ReadInv, LockFile
<1>2. CASE Tick
  <2>1. /\ clock' = clock + 1 /\ UNCHANGED <<file, folder, left, saves, phase, step, chain, before, opened,
           current, content, snapshot, altered, installed, attested, held, unseen>>
    BY <1>2 DEF Tick
  <2>2. LockTypes'
    <3>1. clock' \in Nat
      BY <1>1, <2>1
    <3> QED
      BY <2>1, <3>1 DEF LockInv, LockTypes
  <2>3. Still' = Still /\ Begun' = Begun /\ file'.mtime <= clock' /\ before'.mtime <= clock'
    BY <1>1, <2>1 DEF Still, Begun
  <2>4. ReadInv'
    BY <2>1, <2>3 DEF LockInv, ReadInv, ReadWasHeld
  <2>5. AdoptInv'
    BY <2>1 DEF LockInv, AdoptInv
  <2> QED
    BY <2>2, <2>4, <2>5 DEF LockInv
<1>3. CASE Alter
  <2>1. /\ phase \in Commands /\ ~altered /\ altered' = TRUE /\ snapshot' = Spoilt
        /\ UNCHANGED <<clock, file, folder, left, saves, phase, step, chain, before, opened, current, content,
                       installed, attested, held, unseen>>
    BY <1>3 DEF Alter
  <2>2. LockTypes'
    BY <2>1 DEF LockInv, LockTypes
  <2>3. ReadInv'
    BY <2>1 DEF LockInv, ReadInv, ReadWasHeld, Still, Begun
  <2>4. AdoptInv'
    BY <2>1 DEF LockInv, AdoptInv, Commands
  <2> QED
    BY <2>2, <2>3, <2>4 DEF LockInv
<1>4. CASE WriteSnapshot \/ Command \/ Authority \/ SnapshotUnchanged \/ Attest
  <2>1. /\ phase \in {"snapshot", "venv", "help", "install", "snapshot checked", "version", "authority",
                      "snapshot rechecked", "attest"}
        /\ UNCHANGED <<clock, file, folder, left, saves, chain, before, current, content, altered, held, unseen>>
        /\ Refuse \/ (phase' = Next1(phase) /\ UNCHANGED <<step, opened>>)
        /\ phase # "snapshot" => UNCHANGED snapshot
    BY <1>4 DEF WriteSnapshot, Command, Authority, SnapshotUnchanged, Attest, Goes, Commands
  <2>2. CASE Refuse
    BY <1>1, <2>1, <2>2, RefuseLock DEF LockInv, AdoptInv
  <2>3. CASE ~Refuse
    <3>1. phase' = Next1(phase) /\ UNCHANGED <<step, opened>> /\ step = "start"
      BY <2>1, <2>3 DEF LockInv, LockTypes, Reading
    <3>2. \/ phase = "snapshot" /\ phase' = "venv" /\ snapshot' = content /\ UNCHANGED <<installed, attested>>
          \/ phase = "venv" /\ phase' = "help" /\ UNCHANGED <<snapshot, installed, attested>>
          \/ phase = "help" /\ phase' = "install" /\ UNCHANGED <<snapshot, installed, attested>>
          \/ phase = "install" /\ phase' = "snapshot checked" /\ installed' = snapshot
             /\ UNCHANGED <<snapshot, attested>>
          \/ phase = "snapshot checked" /\ phase' = "source checked" /\ snapshot = content
             /\ UNCHANGED <<snapshot, installed, attested>>
          \/ phase = "version" /\ phase' = "authority" /\ UNCHANGED <<snapshot, installed, attested>>
          \/ phase = "authority" /\ phase' = "snapshot rechecked" /\ UNCHANGED <<snapshot, installed>>
          \/ phase = "snapshot rechecked" /\ phase' = "source rechecked"
             /\ UNCHANGED <<snapshot, installed, attested>>
          \/ phase = "attest" /\ phase' = "adopted" /\ attested = content
             /\ UNCHANGED <<snapshot, installed, attested>>
      <4>1. CASE WriteSnapshot
        BY <3>1, <4>1, Order DEF WriteSnapshot
      <4>2. CASE Command
        BY <3>1, <4>2, Order DEF Command, Commands
      <4>3. CASE Authority
        BY <3>1, <4>3, Order DEF Authority
      <4>4. CASE SnapshotUnchanged
        BY <2>3, <3>1, <4>4, Order DEF SnapshotUnchanged, Goes
      <4>5. CASE Attest
        BY <2>3, <3>1, <4>5, Order DEF Attest, Goes
      <4> QED
        BY <1>4, <4>1, <4>2, <4>3, <4>4, <4>5
    <3>3. LockTypes'
      BY <2>1, <3>1, <3>2 DEF LockInv, LockTypes
    <3>4. ReadInv'
      BY <2>1, <3>1, <3>2 DEF LockInv, ReadInv, ReadWasHeld, Reading
    <3>5. AdoptInv'
      BY <1>1, <2>1, <3>2 DEF LockInv, AdoptInv
    <3> QED
      BY <3>3, <3>4, <3>5 DEF LockInv
  <2> QED
    BY <2>2, <2>3
<1> QED
  BY <1>2, <1>3, <1>4

\* LockInv is an invariant of adoption.
THEOREM LockInductive == RequirementsSpec => []LockInv
<1>1. LockInv /\ [RequirementsNext]_requirementsVars => LockInv'
  <2> SUFFICES ASSUME LockInv, [RequirementsNext]_requirementsVars PROVE LockInv'
    OBVIOUS
  <2>1. CASE RequirementsNext
    BY <2>1, SavesLock, OpensLock, ReadsLock, MainLock DEF RequirementsNext
  <2>2. CASE UNCHANGED requirementsVars
    <3>1. LockTypes'
      BY <2>2 DEF LockInv, LockTypes, requirementsVars, fileVars, readVars, mainVars, seenVars
    <3>2. ReadInv'
      BY <2>2 DEF LockInv, ReadInv, ReadWasHeld, Still, Begun, requirementsVars, fileVars, readVars, mainVars, seenVars
    <3>3. AdoptInv'
      BY <2>2 DEF LockInv, AdoptInv, requirementsVars, fileVars, readVars, mainVars, seenVars
    <3> QED
      BY <3>1, <3>2, <3>3 DEF LockInv
  <2> QED
    BY <2>1, <2>2
<1> QED
  BY <1>1, InitLock, PTL DEF RequirementsSpec

\* However often and however the developer's tools save the lock, what a reading accepts is
\* what the lock held at one moment of it, but for a save within the tick of the timestamp
\* it had (_read_stable_requirements).
THEOREM ReadingIsOneVersion == RequirementsSpec => []ReadWasHeld
<1>1. LockInv => ReadWasHeld
  BY DEF LockInv, ReadInv
<1> QED
  BY <1>1, LockInductive, PTL

\* An adoption that succeeds has installed, and had attested, the content that it read first
\* and found again at the end (main in adopt-process.py).
THEOREM AdoptionIsOne == RequirementsSpec => []AdoptedAsOne
<1>1. LockInv => AdoptedAsOne
  BY DEF LockInv, AdoptInv, AdoptedAsOne, Checked
<1> QED
  BY <1>1, LockInductive, PTL

-----------------------------------------------------------------------------
(***************************************************************************)
(* The wait for the targets of the end-to-end tests.                       *)
(***************************************************************************)
WaitTypes == now \in Nat /\ target \in Nat /\ lastError \in BOOLEAN

\* The targets before the one that is waited for have answered or were passed over, those
\* after it were not asked, and the last error is of the one itself.
Behind == \A t \in Nat : 1 <= t /\ t < target => t \in ready \/ (t \notin asked /\ now >= Deadline)
Ahead == \A t \in Nat : t > target => t \notin asked /\ t \notin ready
Here == target \notin ready /\ (lastError => target \in asked) /\ (~lastError => target \notin asked)

Outcome ==
  /\ waiting = "done" => target > Targets
  /\ waiting = "failed" => now >= Deadline /\ lastError

WaitInv == WaitTypes /\ Behind /\ Ahead /\ Here /\ Outcome

\* The loop leaves a target behind.
LEMMA NextTarget ==
  ASSUME WaitInv, target' = target + 1, lastError' = FALSE, waiting' = "loop",
         now' \in Nat, now' >= now,
         \/ asked' = asked /\ ready' = ready /\ target \notin asked /\ now >= Deadline
         \/ asked' = asked \cup {target} /\ ready' = ready \cup {target}
  PROVE  WaitInv'
<1> USE WaitAssumption
<1>1. WaitTypes'
  <2>1. target' \in Nat
    BY DEF WaitInv, WaitTypes
  <2> QED
    BY <2>1 DEF WaitTypes
<1>2. \A t \in Nat : (t < target' => t < target \/ t = target) /\ (t >= target' => t > target)
  BY DEF WaitInv, WaitTypes
<1>3. Behind'
  <2> SUFFICES ASSUME NEW t \in Nat, 1 <= t, t < target'
               PROVE  t \in ready' \/ (t \notin asked' /\ now' >= Deadline)
    BY DEF Behind
  <2>1. now >= Deadline => now' >= Deadline
    BY DEF WaitInv, WaitTypes
  <2>2. CASE t = target
    BY <2>1, <2>2
  <2>3. CASE t # target
    BY <1>2, <2>1, <2>3 DEF WaitInv, Behind
  <2> QED
    BY <2>2, <2>3
<1>4. Ahead' /\ Here'
  <2>1. \A t \in Nat : t >= target' => t # target /\ t \notin asked' /\ t \notin ready'
    BY <1>2 DEF WaitInv, WaitTypes, Ahead
  <2>2. \A t \in Nat : t > target' => t >= target'
    BY <1>1 DEF WaitTypes
  <2>3. target' >= target'
    BY <1>1 DEF WaitTypes
  <2> QED
    BY <1>1, <2>1, <2>2, <2>3 DEF Ahead, Here, WaitTypes
<1> QED
  BY <1>1, <1>3, <1>4 DEF WaitInv, Outcome

\* The loop goes on with the same target, or ends.
LEMMA SameTarget ==
  ASSUME WaitInv, target' = target, ready' = ready, now' \in Nat, now' >= now,
         \/ UNCHANGED <<lastError, asked>>
         \/ lastError' = TRUE /\ asked' = asked \cup {target},
         Outcome'
  PROVE  WaitInv'
<1> USE WaitAssumption
<1>1. WaitTypes'
  BY DEF WaitInv, WaitTypes
<1>2. now >= Deadline => now' >= Deadline
  BY DEF WaitInv, WaitTypes
<1>3. Behind'
  <2>1. \A t \in Nat : t < target => t # target
    BY DEF WaitInv, WaitTypes
  <2> QED
    BY <1>2, <2>1 DEF WaitInv, Behind
<1>4. Ahead' /\ Here'
  <2>1. \A t \in Nat : t > target => t # target
    BY DEF WaitInv, WaitTypes
  <2> QED
    BY <2>1 DEF WaitInv, Ahead, Here
<1> QED
  BY <1>1, <1>3, <1>4 DEF WaitInv

\* The tests start when all targets have answered or could not be asked in time, and the
\* wait fails only over a target that was asked (waitForTarget and the loop that calls it),
\* for any number of targets and however long each answer takes.
THEOREM WaitsForAll == WaitSpec => []WaitedForAll
<1>1. WaitInit => WaitInv
  <2> SUFFICES ASSUME WaitInit PROVE WaitInv
    OBVIOUS
  <2>1. WaitTypes /\ Ahead /\ Here /\ Outcome
    BY DEF WaitInit, WaitTypes, Ahead, Here, Outcome
  <2>2. Behind
    BY DEF WaitInit, Behind
  <2> QED
    BY <2>1, <2>2 DEF WaitInv
<1>2. WaitInv /\ [WaitNext]_waitVars => WaitInv'
  <2> SUFFICES ASSUME WaitInv, [WaitNext]_waitVars PROVE WaitInv'
    OBVIOUS
  <2>1. now \in Nat /\ target \in Nat /\ Outcome
    BY DEF WaitInv, WaitTypes
  <2>2. CASE Loop
    <3>1. waiting = "loop" /\ UNCHANGED <<now, asked, ready>>
      BY <2>2 DEF Loop
    <3>2. CASE UNCHANGED <<target, lastError>> /\ Outcome'
      BY <2>1, <3>1, <3>2, SameTarget
    <3>3. CASE waiting' = "loop" /\ target' = target + 1 /\ lastError' = FALSE /\ ~lastError /\ ~(now < Deadline)
      <4>1. now >= Deadline
        BY <2>1, <3>3, WaitAssumption
      <4>2. target \notin asked
        BY <3>3 DEF WaitInv, Here
      <4>3. now' \in Nat /\ now' >= now
        BY <2>1, <3>1
      <4> QED
        BY <3>1, <3>3, <4>1, <4>2, <4>3, NextTarget
    <3>4. CASE target > Targets
      BY <2>2, <3>2, <3>4 DEF Loop, Outcome
    <3>5. CASE ~(target > Targets) /\ now < Deadline
      BY <2>2, <3>2, <3>5 DEF Loop, Outcome
    <3>6. CASE ~(target > Targets) /\ ~(now < Deadline) /\ lastError
      <4>1. now >= Deadline
        BY <2>1, <3>6, WaitAssumption
      <4> QED
        BY <2>2, <3>1, <3>2, <3>6, <4>1 DEF Loop, Outcome
    <3>7. CASE ~(target > Targets) /\ ~(now < Deadline) /\ ~lastError
      BY <2>2, <3>3, <3>7 DEF Loop
    <3> QED
      BY <3>4, <3>5, <3>6, <3>7
  <2>3. CASE Fetch
    <3>1. now' \in Nat /\ now' >= now /\ asked' = asked \cup {target}
      BY <2>1, <2>3, WaitAssumption DEF Fetch
    <3>2. CASE lastError' = FALSE
      BY <2>3, <3>1, <3>2, NextTarget DEF Fetch
    <3>3. CASE lastError' # FALSE
      <4>1. target' = target /\ ready' = ready /\ lastError' = TRUE /\ waiting' = "sleep"
        BY <2>3, <3>3 DEF Fetch
      <4> QED
        BY <3>1, <4>1, SameTarget DEF Outcome
    <3> QED
      BY <3>2, <3>3
  <2>4. CASE Sleep
    BY <2>1, <2>4, SameTarget DEF Sleep, Outcome
  <2>5. CASE UNCHANGED waitVars
    BY <2>1, <2>5, SameTarget DEF waitVars, Outcome
  <2> QED
    BY <2>2, <2>3, <2>4, <2>5 DEF WaitNext
<1>3. WaitInv => WaitedForAll
  BY WaitAssumption DEF WaitInv, WaitTypes, Behind, Here, Outcome, WaitedForAll
<1> QED
  BY <1>1, <1>2, <1>3, PTL DEF WaitSpec
=============================================================================
