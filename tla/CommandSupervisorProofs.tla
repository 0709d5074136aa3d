---------------------- MODULE CommandSupervisorProofs ----------------------
(***************************************************************************)
(* What CommandSupervisor guarantees for any processes, whatever their     *)
(* nature, any budget and any amount of output.  Inv is the inductive      *)
(* invariant: what a look at /proc has missed descends from a process      *)
(* that ran when /proc was listed and that has died since or given up the  *)
(* run identifier.                                                         *)
(***************************************************************************)
EXTENDS CommandSupervisor, TLAPS

Born == {p \in Procs : state[p] # "unborn"}

\* The supervisor has a result only when it is done, and success only if nothing has
\* failed; Root has died by the time it looks further, unless the cleanup failed; and it
\* looks for children once.
PlaceInv ==
  /\ pc # "done" => result = "none"
  /\ pc = "verdict" \/ result = "success" => failure = "none"
  /\ failure = "cleanup" => pc \in {"join", "done"}
  /\ Running(Root) =>
       /\ failure # "readers"
       /\ pc \in {"poll", "term", "termWait", "termKill"} \/ failure = "cleanup"
  /\ pc \in {"poll", "adopted"} => failure # "readers"
  /\ pc \notin {"scan", "reap", "join", "verdict", "done"} /\ failure # "readers" => victims = {}

\* A process that has a tag, the output or a place in the list was born; a parent
\* runs, and the parent of a tagged process has forked with the tag.
FamilyInv ==
  /\ tagged \cup holding \cup listed \subseteq Born
  /\ \A p \in Procs : parent[p] \in RunningProcs \cup {Supervisor}
  /\ \A p \in tagged \ {Root} : parent[p] \in forebears \cup {Supervisor}
  /\ \A p \in listed : parent[p] \in listed \cup {Supervisor}

\* Nobody is his own ancestor: every set of processes has one whose parent is not
\* in it.
AncestryInv ==
  \A S \in SUBSET Born : S # {} => \E p \in S : parent[p] \notin S

\* The list was gone through, or still is, and no descendant was found.
Clean ==
  \/ pc = "scan"
  \/ pc \in {"join", "verdict"} /\ failure = "none" /\ ~found
  \/ pc = "done" /\ result = "success"

\* Nothing is lost of the list if whoever was on it and has forked with the tag still runs
\* with it.  Then who runs with the tag was listed or descends from somebody who was, and
\* whoever was looked at and passed over has a parent other than the supervisor.
TaggedProcs == tagged \cap RunningProcs
NoneLost == listed \cap forebears \subseteq TaggedProcs
Covered ==
  NoneLost => /\ TaggedProcs \subseteq listed \/ listed \cap forebears # {}
              /\ \A p \in (listed \cap TaggedProcs) \ (unseen \cup victims) : parent[p] # Supervisor
ScanInv == Clean => (pc # "scan" => unseen = {} /\ victims = {}) /\ Covered

\* The output is bounded; it is at its end when the verdict is given, and stays there.
OutputInv ==
  /\ read + unread <= MaxOutput
  /\ pc = "verdict" \/ result = "success" => Holders = {} /\ unread = 0
  /\ result = "success" => read <= Limit

\* The command's group has died by the time the supervisor looks further, unless the
\* cleanup failed, and only its own members could add to it.
Cleared ==
  \/ pc \in {"adopted", "scan", "reap", "verdict"}
  \/ pc = "join" /\ failure # "cleanup"
  \/ pc = "done" /\ result # "cleanup"
GroupInv ==
  /\ group \subseteq Born
  /\ Cleared => group \cap RunningProcs = {}

Inv == TypeOK /\ PlaceInv /\ FamilyInv /\ AncestryInv /\ ScanInv /\ OutputInv /\ GroupInv

\* What a step does to the processes, whoever takes it: a process is forked, some
\* die, some of the dead are reaped, or they all live on, but one may give up its tag
\* or the output.
Forks == \E p \in Procs, child \in Descendants : Fork(p, child)
Kills ==
  \E dead, asleep \in SUBSET Procs : Die(dead, asleep) /\ UNCHANGED <<tagged, forebears, holding>>
Reaps ==
  \E gone \in SUBSET Born : /\ \A p \in gone : ~Running(p)
                            /\ Reap(gone)
                            /\ UNCHANGED <<parent, tagged, forebears, holding>>
Stays ==
  /\ UNCHANGED <<state, parent, forebears>>
  /\ tagged' \subseteq tagged
  /\ holding' \subseteq holding

-----------------------------------------------------------------------------
(***************************************************************************)
(* Types.                                                                  *)
(***************************************************************************)
LEMMA PlaceFacts ==
  /\ "poll" \in Places /\ "term" \in Places /\ "termWait" \in Places /\ "termKill" \in Places
  /\ "group" \in Places /\ "groupTerm" \in Places /\ "groupKill" \in Places
  /\ "adopted" \in Places /\ "scan" \in Places /\ "reap" \in Places
  /\ "join" \in Places /\ "verdict" \in Places /\ "done" \in Places
  BY DEF Places

LEMMA RootFacts == Root \in Procs /\ Root \notin Descendants /\ Supervisor \notin Procs
  BY ProcsAssumption DEF Procs

\* Dying and being reaped are among the states.
LEMMA StateFacts ==
  ASSUME TypeOK
  PROVE  /\ \A dead, asleep : Die(dead, asleep) =>
              /\ state' \in [Procs -> {"unborn", "running", "dying", "zombie", "gone"}]
              /\ parent' \in [Procs -> Procs \cup {Supervisor}]
         /\ \A gone : Reap(gone) =>
              state' \in [Procs -> {"unborn", "running", "dying", "zombie", "gone"}]
  BY DEF Die, Struck, Reap, TypeOK

\* What the operating system does.
LEMMA ProcessTypeOK ==
  ASSUME TypeOK, NEW p \in Procs, Process(p)
  PROVE  TypeOK'
<1>1. CASE Exec(p) \/ Redirect(p) \/ Detach(p)
  BY <1>1 DEF Exec, Redirect, Detach, TypeOK, idVars, outVars, supVars, scanVars
<1>2. CASE Exit(p)
  <2>1. exitCode' \in {0, 1}
    BY <1>2 DEF Exit, TypeOK
  <2> QED
    BY <1>2, <2>1, StateFacts DEF Exit, TypeOK, idVars, outVars, supVars, scanVars
<1>3. CASE ParentReaps(p)
  BY <1>3, StateFacts DEF ParentReaps, TypeOK, idVars, outVars, supVars, scanVars
<1>4. CASE Write(p)
  <2>1. unread' \in 0..MaxOutput
    BY <1>4, BoundAssumption DEF Write, TypeOK
  <2> QED
    BY <1>4, <2>1 DEF Write, TypeOK, procVars, idVars, supVars, scanVars
<1>5. ASSUME NEW child \in Descendants, Fork(p, child) PROVE TypeOK'
  BY <1>5 DEF Fork, TypeOK, outVars, supVars, scanVars, Procs
<1> QED
  BY <1>1, <1>2, <1>3, <1>4, <1>5 DEF Process

\* What the supervisor and the threads that drain the output do.
LEMMA SupervisorTypeOK == TypeOK /\ PlaceInv /\ OutputInv /\ (Supervise \/ Drain) => TypeOK'
<1> SUFFICES ASSUME TypeOK, PlaceInv, OutputInv, Supervise \/ Drain PROVE TypeOK'
  OBVIOUS
<1> USE PlaceFacts DEF Leave, Goto, idVars
<1>0. GiveUp => /\ pc' \in Places /\ failure' \in Failures \cup {"none"}
                /\ result' \in Results \cup {"none"}
                /\ UNCHANGED <<listed, unseen, victims, found>>
  BY DEF GiveUp, TypeOK, Failures, Results, scanVars
<1>1. CASE Drain
  <2>1. unread' \in 0..MaxOutput /\ read' \in 0..MaxOutput
    BY <1>1, BoundAssumption DEF Drain, OutputInv, TypeOK
  <2> QED
    BY <1>1, <2>1 DEF Drain, TypeOK, procVars, supVars, scanVars
<1>2. CASE Poll
  BY <1>2, StateFacts DEF Poll, PollExited, PollTimeout, PollOverflow, TypeOK, procVars, outVars, scanVars, Failures
<1>3. CASE Term \/ TermWaited \/ TermTimeout \/ RootSurvived
  BY <1>0, <1>3, StateFacts DEF Term, TermWaited, TermTimeout, RootSurvived, Terminate, Kill, Signal,
     TypeOK, procVars, outVars, scanVars
<1>4. CASE Group \/ GroupWaited \/ GroupTermTimeout \/ GroupSurvived
  <2>1. \A was \in BOOLEAN : GroupGone(was) =>
          /\ pc' \in Places /\ found' \in BOOLEAN /\ result' \in Results \cup {"none"}
          /\ UNCHANGED <<listed, unseen, victims, failure>>
    BY DEF GroupGone, TypeOK, Results, scanVars
  <2>2. CASE Group
    BY <2>1, <2>2, StateFacts DEF Group, Terminate, Signal, TypeOK, outVars, scanVars
  <2>3. CASE GroupWaited
    BY <2>1, <2>3 DEF GroupWaited, TypeOK, procVars, outVars
  <2>4. CASE GroupTermTimeout
    BY <2>4, StateFacts DEF GroupTermTimeout, Kill, Signal, TypeOK, outVars, scanVars
  <2>5. CASE GroupSurvived
    BY <1>0, <2>5 DEF GroupSurvived, TypeOK, procVars, outVars
  <2> QED
    BY <1>4, <2>2, <2>3, <2>4, <2>5
<1>5. CASE TerminateAdoptedChildren
  <2>1. CASE ListProcesses
    <3>1. victims = {} /\ victims' = {}
      BY <2>1 DEF ListProcesses, PlaceInv
    <3> QED
      BY <2>1, <3>1 DEF ListProcesses, RunningProcs, TypeOK, procVars, outVars
  <2>2. ASSUME NEW p \in Procs, Look(p) PROVE TypeOK'
    BY <2>2, RootFacts DEF Look, Adopted, TypeOK, procVars, outVars, Procs
  <2>3. CASE KillAdopted
    BY <1>0, <2>3, StateFacts DEF KillAdopted, Signal, TypeOK, outVars, scanVars
  <2>4. CASE ReapAdopted
    BY <1>0, <2>4, StateFacts DEF ReapAdopted, TypeOK, outVars, scanVars
  <2> QED
    BY <1>5, <2>1, <2>2, <2>3, <2>4 DEF TerminateAdoptedChildren
<1>6. CASE Join \/ Verdict
  BY <1>6 DEF Join, Verdict, TypeOK, procVars, outVars, scanVars, Failures, Results
<1> QED
  BY <1>1, <1>2, <1>3, <1>4, <1>5, <1>6 DEF Supervise, TerminateTree

-----------------------------------------------------------------------------
(***************************************************************************)
(* The processes.                                                          *)
(***************************************************************************)
\* A signal strikes processes only.
LEMMA SignalKills ==
  ASSUME NEW reached \in SUBSET Procs, Signal(reached), UNCHANGED idVars, UNCHANGED holding
  PROVE  Kills
<1>1. PICK asleep \in SUBSET Sleeping : Die(reached, asleep)
  BY DEF Signal
<1>2. asleep \in SUBSET Procs
  BY NatureAssumption
<1> QED
  BY <1>1, <1>2 DEF Kills, idVars

\* Every step forks one, or kills some, or reaps some of the dead, or leaves them.
LEMMA ProcessStep ==
  ASSUME TypeOK, PlaceInv, FamilyInv, Next
  PROVE  Forks \/ Kills \/ Reaps \/ Stays
<1>0. /\ group \subseteq Procs /\ victims \subseteq Procs /\ victims \subseteq Born
      /\ \A p \in Procs : state[p] = "zombie" => p \in Born /\ ~Running(p)
      /\ Root \in Procs
  BY RootFacts DEF TypeOK, FamilyInv, Born, Running, Awake, Procs
<1>1. ASSUME NEW p \in Procs, Process(p) PROVE Forks \/ Kills \/ Reaps \/ Stays
  <2>1. Exec(p) \/ Redirect(p) \/ Detach(p) \/ Write(p) => Stays
    BY DEF Exec, Redirect, Detach, Write, procVars, idVars, Stays
  <2>2. Exit(p) => Kills
    <3>1. {p} \in SUBSET Procs /\ {} \in SUBSET Procs
      OBVIOUS
    <3> QED
      BY <3>1 DEF Exit, Kills, idVars
  <2>3. ParentReaps(p) => Reaps
    BY <1>0 DEF ParentReaps, Reaps, idVars
  <2> QED
    BY <1>1, <2>1, <2>2, <2>3 DEF Process, Forks
<1>2. CASE Drain
  BY <1>2 DEF Drain, procVars, idVars, Stays
<1>3. CASE Poll
  BY <1>0, <1>3 DEF Poll, PollExited, PollTimeout, PollOverflow, procVars, idVars, Reaps, Stays
<1>4. CASE Term \/ TermWaited \/ TermTimeout \/ RootSurvived
  <2>1. CASE Term
    <3>1. Terminate => Kills
      BY <1>0, <2>1, SignalKills DEF Terminate, Term
    <3>2. Reap({Root}) /\ UNCHANGED parent /\ state[Root] = "zombie" => Reaps
      BY <1>0, <2>1 DEF Term, Reaps, idVars
    <3>3. UNCHANGED <<state, parent>> => Stays
      BY <2>1 DEF Term, Stays, idVars
    <3> QED
      BY <2>1, <3>1, <3>2, <3>3 DEF Term
  <2>2. TermWaited => Reaps
    BY <1>0 DEF TermWaited, Reaps, idVars
  <2>3. CASE TermTimeout
    <3>1. Kill => Kills
      BY <1>0, <2>3, SignalKills DEF Kill, TermTimeout
    <3>2. UNCHANGED <<state, parent>> => Stays
      BY <2>3 DEF TermTimeout, Stays, idVars
    <3> QED
      BY <2>3, <3>1, <3>2 DEF TermTimeout
  <2>4. RootSurvived => Stays
    BY DEF RootSurvived, procVars, idVars, Stays
  <2> QED
    BY <1>4, <2>1, <2>2, <2>3, <2>4
<1>5. CASE Group \/ GroupWaited \/ GroupTermTimeout \/ GroupSurvived
  <2>1. CASE Group
    <3>1. Terminate => Kills
      BY <1>0, <2>1, SignalKills DEF Terminate, Group
    <3>2. UNCHANGED <<state, parent>> => Stays
      BY <2>1 DEF Group, Stays, idVars
    <3> QED
      BY <2>1, <3>1, <3>2 DEF Group
  <2>2. CASE GroupTermTimeout
    <3>1. Kill => Kills
      BY <1>0, <2>2, SignalKills DEF Kill, GroupTermTimeout
    <3>2. UNCHANGED <<state, parent>> => Stays
      BY <2>2 DEF GroupTermTimeout, Stays, idVars
    <3> QED
      BY <2>2, <3>1, <3>2 DEF GroupTermTimeout
  <2>3. GroupWaited \/ GroupSurvived => Stays
    BY DEF GroupWaited, GroupSurvived, procVars, idVars, Stays
  <2> QED
    BY <1>5, <2>1, <2>2, <2>3
<1>6. CASE TerminateAdoptedChildren
  <2>1. ListProcesses \/ (\E p \in Procs : Look(p)) => Stays
    BY DEF ListProcesses, Look, procVars, idVars, Stays
  <2>2. CASE KillAdopted
    <3>1. \A reached \in SUBSET victims : Signal(reached) => Kills
      BY <1>0, <2>2, SignalKills DEF KillAdopted
    <3> QED
      BY <2>2, <3>1 DEF KillAdopted
  <2>3. ReapAdopted => Reaps
    <3>1. victims \ RunningProcs \in SUBSET Born /\ \A p \in victims \ RunningProcs : ~Running(p)
      BY <1>0 DEF RunningProcs
    <3> QED
      BY <3>1 DEF ReapAdopted, Reaps, idVars
  <2> QED
    BY <1>6, <2>1, <2>2, <2>3 DEF TerminateAdoptedChildren
<1>7. CASE Join \/ Verdict
  BY <1>7 DEF Join, Verdict, procVars, idVars, Stays
<1> QED
  BY <1>1, <1>2, <1>3, <1>4, <1>5, <1>6, <1>7 DEF Next, Supervise, TerminateTree

\* Nobody is unborn again or runs again, nobody but a new process gets a tag, the output
\* or another parent than the supervisor, when its own dies, and a new process with a tag
\* has made its parent a forebear.
LEMMA Onward ==
  ASSUME TypeOK, FamilyInv, Forks \/ Kills \/ Reaps \/ Stays
  PROVE  /\ Born \subseteq Born' /\ forebears \subseteq forebears'
         /\ \A p \in Born : /\ Running(p)' => Running(p)
                            /\ parent'[p] \in {parent[p], Supervisor}
                            /\ p \in tagged' => p \in tagged
                            /\ p \in holding' => p \in holding
         /\ \A p \in Born : parent'[p] # parent[p] => parent[p] \notin RunningProcs'
         /\ Running(Root)' => Running(Root)
         /\ \A q \in tagged' : q \notin Born =>
              \E p \in Born \cap forebears' : p \in tagged /\ Running(p)
<1>1. CASE Forks
  <2>1. PICK p \in Procs, child \in Descendants : Fork(p, child)
    BY <1>1 DEF Forks
  <2>2. /\ child # Root /\ child \in Procs /\ child \notin Born /\ p \in Born /\ Root \in Procs
        /\ Born \subseteq Procs /\ Running(p)
    BY <2>1, RootFacts DEF Fork, Born, Running, Awake, Procs
  <2>3. \A q \in Procs \ {child} : state'[q] = state[q] /\ parent'[q] = parent[q]
    BY <2>1 DEF Fork, TypeOK
  <2>4. /\ tagged' \subseteq tagged \cup {child}
        /\ child \in tagged' => p \in tagged /\ p \in forebears'
        /\ holding' \subseteq holding \cup {child}
        /\ forebears \subseteq forebears'
    BY <2>1, <2>2 DEF Fork, FamilyInv
  <2>5. Born \subseteq Born'
    BY <2>2, <2>3 DEF Born
  <2>6. \A q \in Born : /\ Running(q)' => Running(q)
                        /\ parent'[q] = parent[q]
                        /\ q \in tagged' => q \in tagged
                        /\ q \in holding' => q \in holding
    BY <2>2, <2>3, <2>4 DEF Running, Awake
  <2>7. \A q \in tagged' : q \notin Born =>
          \E r \in Born \cap forebears' : r \in tagged /\ Running(r)
    BY <2>2, <2>4 DEF FamilyInv
  <2> QED
    BY <2>2, <2>3, <2>4, <2>5, <2>6, <2>7 DEF Running, Awake
<1>2. CASE Kills
  <2>1. PICK dead, asleep \in SUBSET Procs : Die(dead, asleep) /\ UNCHANGED <<tagged, forebears, holding>>
    BY <1>2 DEF Kills
  <2>2. \A p \in Procs : /\ Running(p)' <=> Running(p) /\ p \notin dead \ asleep
                         /\ p \in Born <=> p \in Born'
    BY <2>1 DEF Die, Struck, Running, Awake, Born
  <2>3. \A p \in Procs : parent'[p] = IF parent[p] \in dead \ asleep THEN Supervisor ELSE parent[p]
    BY <2>1 DEF Die
  <2>4. Born \subseteq Born' /\ Born \subseteq Procs
    BY <2>2 DEF Born
  <2> QED
    BY <2>1, <2>2, <2>3, <2>4, RootFacts DEF FamilyInv, RunningProcs
<1>3. CASE Reaps
  <2>1. PICK gone \in SUBSET Born : /\ Reap(gone)
                                    /\ UNCHANGED <<parent, tagged, forebears, holding>>
    BY <1>3 DEF Reaps
  <2>2. \A p \in Procs : state'[p] = IF p \in gone THEN "gone" ELSE state[p]
    BY <2>1 DEF Reap
  <2>3. Born \subseteq Born' /\ \A p \in Procs : Running(p)' => Running(p)
    BY <2>2 DEF Born, Running, Awake
  <2> QED
    BY <2>1, <2>3, RootFacts DEF Born, FamilyInv
<1>4. CASE Stays
  BY <1>4 DEF Stays, Born, Running, Awake, FamilyInv
<1> QED
  BY <1>1, <1>2, <1>3, <1>4

\* No process becomes its own ancestor.
LEMMA StepAncestry ==
  ASSUME TypeOK, FamilyInv, AncestryInv, Forks \/ Kills \/ Reaps \/ Stays
  PROVE  AncestryInv'
<1>1. CASE Forks
  <2>1. PICK p \in Procs, child \in Descendants : Fork(p, child)
    BY <1>1 DEF Forks
  <2>2. /\ child \in Procs /\ child \notin Born /\ p \in Born
        /\ Born' = Born \cup {child}
        /\ parent' = [parent EXCEPT ![child] = p]
        /\ \A q \in Procs : parent[q] # child
    BY <2>1, RootFacts DEF Fork, Born, RunningProcs, Running, Awake, TypeOK, FamilyInv, Procs
  <2> SUFFICES ASSUME NEW S \in SUBSET Born', S # {} PROVE \E q \in S : parent'[q] \notin S
    BY DEF AncestryInv
  <2>3. CASE S \subseteq {child}
    <3>1. child \in S /\ parent'[child] = p /\ p \notin S
      BY <2>2, <2>3 DEF TypeOK
    <3> QED
      BY <3>1
  <2>4. CASE ~(S \subseteq {child})
    <3>1. S \ {child} \in SUBSET Born /\ S \ {child} # {}
      BY <2>2, <2>4
    <3>2. PICK q \in S \ {child} : parent[q] \notin S \ {child}
      BY <3>1 DEF AncestryInv
    <3>3. q \in Procs /\ parent[q] # child /\ parent'[q] = parent[q]
      BY <2>2, <3>1, <3>2 DEF Born, TypeOK
    <3> QED
      BY <3>2, <3>3
  <2> QED
    BY <2>3, <2>4
<1>2. CASE Kills \/ Reaps \/ Stays
  <2>1. Born' = Born
    BY <1>2 DEF Kills, Die, Struck, Reaps, Reap, Stays, Born, Running, Awake, TypeOK
  <2> SUFFICES ASSUME NEW S \in SUBSET Born, S # {} PROVE \E q \in S : parent'[q] \notin S
    BY <2>1 DEF AncestryInv
  <2>2. PICK q \in S : parent[q] \notin S
    BY DEF AncestryInv
  <2>3. parent'[q] \in {parent[q], Supervisor} /\ Supervisor \notin S
    BY <1>2, Onward, RootFacts DEF Born
  <2> QED
    BY <2>2, <2>3
<1> QED
  BY <1>1, <1>2

\* The list is made once, of what runs, or stays as it is.
LEMMA ListStep ==
  ASSUME Next
  PROVE  UNCHANGED listed \/ (ListProcesses /\ listed' = RunningProcs /\ Stays)
<1>1. \A p \in Procs : Process(p) => UNCHANGED listed
  BY DEF Process, Exec, Redirect, Detach, Exit, ParentReaps, Write, Fork, supVars, scanVars
<1>2. Drain \/ Poll => UNCHANGED listed
  BY DEF Drain, Poll, PollExited, PollTimeout, PollOverflow, Leave, supVars, scanVars
<1>3. TerminateTree => UNCHANGED listed
  BY DEF TerminateTree, Term, TermWaited, TermTimeout, RootSurvived, Group, GroupWaited, GroupTermTimeout,
         GroupSurvived, GroupGone, GiveUp, Goto, scanVars
<1>4. ListProcesses => listed' = RunningProcs /\ Stays
  BY DEF ListProcesses, procVars, idVars, Stays
<1>5. (\E p \in Procs : Look(p)) \/ KillAdopted \/ ReapAdopted => UNCHANGED listed
  BY DEF Look, KillAdopted, ReapAdopted, GiveUp, Goto, scanVars
<1>6. Join \/ Verdict => UNCHANGED listed
  BY DEF Join, Verdict, Goto, Leave, scanVars
<1> QED
  BY <1>1, <1>2, <1>3, <1>4, <1>5, <1>6 DEF Next, Supervise, TerminateAdoptedChildren

LEMMA StepFamily ==
  ASSUME TypeOK, FamilyInv, Next, Forks \/ Kills \/ Reaps \/ Stays
  PROVE  FamilyInv'
<1>1. CASE Forks
  <2>1. PICK p \in Procs, child \in Descendants : Fork(p, child)
    BY <1>1 DEF Forks
  <2>2. /\ child \in Procs /\ child # Root /\ child \notin Born
        /\ p \in Born /\ Running(p)
        /\ Born' = Born \cup {child}
        /\ parent' = [parent EXCEPT ![child] = p]
        /\ tagged \subseteq tagged' /\ tagged' \subseteq tagged \cup {child}
        /\ child \in tagged' => p \in forebears'
        /\ forebears \subseteq forebears'
        /\ holding' \subseteq holding \cup {child}
        /\ UNCHANGED listed
    <3>1. child \in Procs /\ child # Root /\ child \notin Born /\ p \in Born /\ Running(p)
      BY <2>1, RootFacts DEF Fork, Born, Running, Awake, Procs
    <3>2. Born' = Born \cup {child}
      BY <2>1, <3>1 DEF Fork, Born, TypeOK
    <3>3. /\ tagged \subseteq tagged' /\ tagged' \subseteq tagged \cup {child}
          /\ child \in tagged' => p \in forebears'
          /\ forebears \subseteq forebears'
      BY <2>1, <3>1 DEF Fork, FamilyInv
    <3>4. holding' \subseteq holding \cup {child} /\ parent' = [parent EXCEPT ![child] = p] /\ UNCHANGED listed
      BY <2>1 DEF Fork, supVars, scanVars
    <3> QED
      BY <3>1, <3>2, <3>3, <3>4
  <2>3. \A q \in Procs : Running(q) => Running(q)'
    BY <2>1 DEF Fork, Running, Awake, TypeOK
  <2>4. \A q \in Procs : q # child => parent'[q] = parent[q]
    BY <2>2 DEF TypeOK
  <2>5. parent'[child] = p
    BY <2>2 DEF TypeOK
  <2>6. (tagged \cup holding \cup listed)' \subseteq Born'
    BY <2>2 DEF FamilyInv
  <2>7. \A q \in Procs : parent'[q] \in RunningProcs' \cup {Supervisor}
    BY <2>2, <2>3, <2>4, <2>5 DEF FamilyInv, RunningProcs
  <2>8. \A q \in tagged' \ {Root} : parent'[q] \in forebears' \cup {Supervisor}
    BY <2>2, <2>4, <2>5 DEF FamilyInv, TypeOK
  <2>9. \A q \in listed' : parent'[q] \in listed' \cup {Supervisor}
    BY <2>2, <2>4 DEF FamilyInv, TypeOK, Born
  <2> QED
    BY <2>6, <2>7, <2>8, <2>9 DEF FamilyInv
<1>2. CASE Kills \/ Reaps \/ Stays
  <2>1. tagged' \subseteq tagged /\ holding' \subseteq holding /\ UNCHANGED forebears
    BY <1>2 DEF Kills, Reaps, Stays
  <2>2. Born \subseteq Born' /\ \A p \in Born : parent'[p] \in {parent[p], Supervisor}
    BY <1>2, Onward
  <2>3. ASSUME NEW p \in Procs PROVE parent'[p] \in RunningProcs' \cup {Supervisor}
    <3>1. CASE Kills
      <4>1. PICK dead, asleep \in SUBSET Procs : Die(dead, asleep)
        BY <3>1 DEF Kills
      <4>2. \A q \in Procs : q \notin dead \ asleep /\ Running(q) => Running(q)'
        BY <4>1 DEF Die, Struck, Running, Awake
      <4>3. parent'[p] = IF parent[p] \in dead \ asleep THEN Supervisor ELSE parent[p]
        BY <4>1 DEF Die
      <4> QED
        BY <4>2, <4>3 DEF FamilyInv, RunningProcs
    <3>2. CASE Reaps
      <4>1. PICK gone \in SUBSET Born : /\ \A q \in gone : ~Running(q)
                                        /\ Reap(gone)
                                        /\ UNCHANGED parent
        BY <3>2 DEF Reaps
      <4>2. \A q \in Procs : Running(q) => Running(q)'
        BY <4>1 DEF Reap, Running, Awake
      <4> QED
        BY <4>1, <4>2 DEF FamilyInv, RunningProcs
    <3>3. CASE Stays
      BY <3>3 DEF Stays, FamilyInv, RunningProcs, Running, Awake
    <3> QED
      BY <1>2, <3>1, <3>2, <3>3
  <2>4. listed' \subseteq Born' /\ \A p \in listed' : parent'[p] \in listed' \cup {Supervisor}
    <3>1. CASE UNCHANGED listed
      BY <2>2, <3>1 DEF FamilyInv
    <3>2. CASE listed' = RunningProcs /\ Stays
      BY <3>2 DEF Stays, RunningProcs, FamilyInv, Born, Running, Awake, TypeOK
    <3> QED
      BY <3>1, <3>2, ListStep
  <2>5. \A p \in tagged' \ {Root} : parent'[p] \in forebears' \cup {Supervisor}
    BY <2>1, <2>2 DEF FamilyInv
  <2> QED
    BY <2>1, <2>2, <2>3, <2>4, <2>5 DEF FamilyInv
<1> QED
  BY <1>1, <1>2

-----------------------------------------------------------------------------
(***************************************************************************)
(* The places of the supervisor.                                           *)
(***************************************************************************)
LEMMA StepPlace ==
  ASSUME TypeOK, PlaceInv, FamilyInv, Next, Forks \/ Kills \/ Reaps \/ Stays
  PROVE  PlaceInv'
<1>0. (Running(Root)' => Running(Root)) /\ Root \in Procs
  BY Onward, RootFacts
<1>1. CASE UNCHANGED supVars
  BY <1>0, <1>1 DEF PlaceInv, supVars, scanVars
<1> USE DEF Leave, Goto
<1>2. CASE Poll
  <2>1. Reap({Root}) => ~Running(Root)'
    BY <1>0 DEF Reap, Running, Awake
  <2> QED
    BY <1>0, <1>2, <2>1 DEF Poll, PollExited, PollTimeout, PollOverflow, PlaceInv, scanVars
<1>3. GiveUp => /\ UNCHANGED victims
                /\ \/ failure # "readers" /\ pc' = "join" /\ failure' = "cleanup" /\ UNCHANGED result
                   \/ failure = "readers" /\ pc' = "done" /\ result' = "cleanup" /\ UNCHANGED failure
  BY DEF GiveUp, scanVars
<1>4. CASE Term \/ TermWaited \/ TermTimeout \/ RootSurvived
  <2>1. Reap({Root}) => ~Running(Root)'
    BY <1>0 DEF Reap, Running, Awake
  <2>2. CASE Term
    BY <1>0, <1>3, <2>1, <2>2 DEF Term, PlaceInv, scanVars
  <2>3. CASE TermWaited
    BY <1>0, <2>1, <2>3 DEF TermWaited, PlaceInv, scanVars
  <2>4. CASE TermTimeout
    BY <1>0, <1>3, <2>4 DEF TermTimeout, PlaceInv, scanVars
  <2>5. CASE RootSurvived
    BY <1>0, <1>3, <2>5 DEF RootSurvived, PlaceInv
  <2> QED
    BY <1>4, <2>2, <2>3, <2>4, <2>5
<1>5. CASE Group \/ GroupWaited \/ GroupTermTimeout \/ GroupSurvived
  <2>1. \A was \in BOOLEAN : GroupGone(was) =>
          /\ UNCHANGED <<victims, failure>>
          /\ \/ failure # "readers" /\ pc' = "adopted" /\ UNCHANGED result
             \/ failure = "readers" /\ pc' = "done" /\ result' = "readers"
    BY DEF GroupGone, scanVars
  <2>2. CASE Group \/ GroupWaited
    BY <1>0, <2>1, <2>2 DEF Group, GroupWaited, PlaceInv, scanVars
  <2>3. CASE GroupTermTimeout
    BY <1>0, <2>3 DEF GroupTermTimeout, PlaceInv, scanVars
  <2>4. CASE GroupSurvived
    BY <1>0, <1>3, <2>4 DEF GroupSurvived, PlaceInv
  <2> QED
    BY <1>5, <2>2, <2>3, <2>4
<1>6. CASE ListProcesses
  BY <1>0, <1>6 DEF ListProcesses, PlaceInv
<1>7. ASSUME NEW p \in Procs, Look(p) PROVE PlaceInv'
  BY <1>0, <1>7 DEF Look, PlaceInv
<1>8. CASE KillAdopted
  BY <1>0, <1>3, <1>8 DEF KillAdopted, PlaceInv, scanVars
<1>9. CASE ReapAdopted
  BY <1>0, <1>3, <1>9 DEF ReapAdopted, PlaceInv, scanVars
<1>10. CASE Join
  BY <1>0, <1>10 DEF Join, PlaceInv, scanVars, Failures, TypeOK
<1>11. CASE Verdict
  BY <1>0, <1>11 DEF Verdict, PlaceInv, scanVars
<1>12. Drain \/ (\E p \in Procs : Process(p)) => UNCHANGED supVars
  BY DEF Drain, Process, Exec, Redirect, Detach, Exit, ParentReaps, Write, Fork
<1> QED
  BY <1>1, <1>2, <1>4, <1>5, <1>6, <1>7, <1>8, <1>9, <1>10, <1>11, <1>12
     DEF Next, Supervise, TerminateTree, TerminateAdoptedChildren

-----------------------------------------------------------------------------
(***************************************************************************)
(* The adopted children.                                                   *)
(***************************************************************************)
\* What has been looked at stays covered: the parent of a listed process with a tag was
\* listed and has forked with the tag, so it neither dies nor drops the tag unnoticed.
LEMMA CoveredKept ==
  ASSUME TypeOK, FamilyInv, ~Running(Root), Covered, UNCHANGED scanVars,
         Forks \/ Kills \/ Reaps \/ Stays
  PROVE  Covered'
<1> SUFFICES ASSUME NoneLost'
             PROVE  /\ TaggedProcs' \subseteq listed \/ listed \cap forebears' # {}
                    /\ \A p \in (listed \cap TaggedProcs') \ (unseen \cup victims) : parent'[p] # Supervisor
  BY DEF Covered, scanVars
<1>1. /\ listed' = listed /\ listed \subseteq Born /\ forebears \subseteq forebears'
      /\ Born \cap TaggedProcs' \subseteq TaggedProcs
  <2>1. \A p \in Born : p \in tagged' /\ Running(p)' => p \in tagged /\ Running(p)
    BY Onward
  <2> QED
    BY <2>1, Onward DEF FamilyInv, scanVars, TaggedProcs, RunningProcs, Born
<1>2. Covered /\ NoneLost
  BY <1>1 DEF NoneLost
<1>3. TaggedProcs' \subseteq listed \/ listed \cap forebears' # {}
  <2> SUFFICES ASSUME NEW q \in TaggedProcs', q \notin listed PROVE listed \cap forebears' # {}
    OBVIOUS
  <2>1. CASE q \in Born
    BY <1>1, <1>2, <2>1 DEF Covered
  <2>2. CASE q \notin Born
    <3>1. PICK p \in Born \cap forebears' : p \in tagged /\ Running(p)
      BY <2>2, Onward DEF TaggedProcs
    <3>2. p \in TaggedProcs
      BY <3>1 DEF TaggedProcs, RunningProcs, Born
    <3> QED
      BY <1>1, <1>2, <3>1, <3>2 DEF Covered
  <2> QED
    BY <2>1, <2>2
<1>4. ASSUME NEW p \in (listed \cap TaggedProcs') \ (unseen \cup victims) PROVE parent'[p] # Supervisor
  <2>1. parent[p] # Supervisor /\ p # Root /\ p \in Born /\ p \in tagged
    BY <1>1, <1>2 DEF Covered, TaggedProcs, RunningProcs
  <2>2. parent[p] \in listed \cap forebears
    BY <2>1 DEF FamilyInv
  <2>3. parent[p] \in RunningProcs'
    BY <1>1, <2>2 DEF NoneLost, TaggedProcs
  <2> QED
    BY <2>1, <2>3, Onward
<1> QED
  BY <1>3, <1>4

LEMMA StepScan ==
  ASSUME TypeOK, PlaceInv, FamilyInv, ScanInv, Next, Forks \/ Kills \/ Reaps \/ Stays
  PROVE  ScanInv'
<1>0. Clean => (pc # "scan" => unseen = {} /\ victims = {}) /\ Covered /\ ~Running(Root)
  BY DEF ScanInv, Clean, PlaceInv
<1> SUFFICES ASSUME Clean' PROVE (pc # "scan" => unseen = {} /\ victims = {})' /\ Covered'
  BY DEF ScanInv
<1>1. CASE Clean /\ UNCHANGED scanVars /\ (pc' # "scan" => unseen = {} /\ victims = {})
  BY <1>0, <1>1, CoveredKept DEF scanVars
<1>2. CASE UNCHANGED supVars
  <2>1. Clean /\ UNCHANGED scanVars /\ UNCHANGED pc
    BY <1>2 DEF Clean, supVars
  <2> QED
    BY <1>0, <1>1, <2>1
<1> USE DEF Leave, Goto
<1>3. ~Poll
  BY DEF Poll, PollExited, PollTimeout, PollOverflow, Clean, PlaceInv
<1>4. ~GiveUp
  BY DEF GiveUp, Clean, PlaceInv
<1>5. ~(Term \/ TermWaited \/ TermTimeout \/ RootSurvived \/ GroupTermTimeout)
  BY <1>4 DEF Term, TermWaited, TermTimeout, RootSurvived, GroupTermTimeout, Clean, PlaceInv
<1>6. ~(Group \/ GroupWaited \/ GroupSurvived)
  <2>1. \A was \in BOOLEAN : ~GroupGone(was)
    BY DEF GroupGone, Clean, PlaceInv
  <2>2. Group => pc' \in {"groupTerm", "groupKill"}
    BY <2>1 DEF Group
  <2> QED
    BY <1>4, <2>1, <2>2 DEF GroupWaited, GroupSurvived, Clean
<1>7. CASE ListProcesses
  <2>1. pc' = "scan" /\ listed' = RunningProcs /\ unseen' = RunningProcs
        /\ UNCHANGED <<state, parent, tagged, forebears>>
    BY <1>7 DEF ListProcesses, procVars, idVars
  <2> QED
    BY <2>1 DEF Covered, NoneLost, TaggedProcs, RunningProcs, Running, Awake
<1>8. ASSUME NEW p \in Procs, Look(p)
      PROVE  (pc # "scan" => unseen = {} /\ victims = {})' /\ Covered'
  <2>1. /\ pc = "scan" /\ pc' = "scan" /\ p \in unseen
        /\ unseen' = unseen \ {p} /\ victims' = victims \cup {q \in {p} : Adopted(q)}
        /\ UNCHANGED <<state, parent, tagged, forebears, listed>>
    BY <1>8 DEF Look, procVars, idVars
  <2>2. Covered /\ ~Running(Root)
    BY <1>0, <2>1 DEF Clean
  <2>3. p \in TaggedProcs /\ p \notin victims' => parent[p] # Supervisor
    BY <2>1, <2>2 DEF Adopted, TaggedProcs, RunningProcs
  <2>4. TaggedProcs' = TaggedProcs /\ (NoneLost' <=> NoneLost)
    BY <2>1 DEF NoneLost, TaggedProcs, RunningProcs, Running, Awake
  <2> QED
    BY <2>1, <2>2, <2>3, <2>4 DEF Covered
<1>9. CASE KillAdopted
  <2>1. pc = "scan" /\ unseen = {} /\ UNCHANGED scanVars
    BY <1>4, <1>9 DEF KillAdopted
  <2>2. victims = {}
    BY <1>4, <1>9 DEF KillAdopted, Clean
  <2>3. Clean
    BY <2>1 DEF Clean
  <2> QED
    BY <1>1, <2>1, <2>2, <2>3
<1>10. ~ReapAdopted
  BY <1>4 DEF ReapAdopted, Clean, PlaceInv
<1>11. CASE Join
  <2>1. pc = "join" /\ UNCHANGED <<found, scanVars>> /\ failure = "none" /\ pc' = "verdict"
    BY <1>11 DEF Join, Clean, TypeOK, Failures
  <2>2. ~found
    BY <2>1, <1>11 DEF Clean, Join
  <2>3. Clean
    BY <2>1, <2>2 DEF Clean
  <2> QED
    BY <1>0, <1>1, <2>1, <2>3
<1>12. CASE Verdict
  <2>1. pc = "verdict" /\ ~found /\ UNCHANGED scanVars
    BY <1>12 DEF Verdict, Clean
  <2>2. Clean
    BY <2>1 DEF Clean, PlaceInv
  <2> QED
    BY <1>0, <1>1, <2>1, <2>2
<1>13. Drain \/ (\E p \in Procs : Process(p)) => UNCHANGED supVars
  BY DEF Drain, Process, Exec, Redirect, Detach, Exit, ParentReaps, Write, Fork
<1> QED
  BY <1>2, <1>3, <1>5, <1>6, <1>7, <1>8, <1>9, <1>10, <1>11, <1>12, <1>13
     DEF Next, Supervise, TerminateTree, TerminateAdoptedChildren

-----------------------------------------------------------------------------
(***************************************************************************)
(* The output.                                                             *)
(***************************************************************************)
\* Once nobody who runs holds the output, nobody will: a child has it from its
\* parent.
LEMMA NobodyHolds ==
  ASSUME TypeOK, FamilyInv, Forks \/ Kills \/ Reaps \/ Stays, Holders = {}
  PROVE  Holders' = {}
<1>1. ASSUME NEW p \in Procs, NEW child \in Descendants, Fork(p, child)
      PROVE  Holders' = {}
  <2>1. p \notin holding /\ child \notin holding
    BY <1>1 DEF Fork, Holders, RunningProcs, Running, Awake, FamilyInv, Born
  <2> QED
    BY <1>1, <2>1 DEF Fork, Holders, RunningProcs, Running, Awake, TypeOK
<1>2. ASSUME NEW p \in Procs, Running(p)', ~Forks PROVE Running(p)
  BY <1>2 DEF Kills, Reaps, Stays, Die, Struck, Reap, Running, Awake
<1>3. ~Forks => holding' \subseteq holding
  BY DEF Kills, Reaps, Stays
<1> QED
  BY <1>1, <1>2, <1>3 DEF Forks, Holders, RunningProcs

LEMMA StepOutput ==
  ASSUME TypeOK, PlaceInv, FamilyInv, OutputInv, Next, Forks \/ Kills \/ Reaps \/ Stays
  PROVE  OutputInv'
<1> DEFINE Ended == pc = "verdict" \/ result = "success"
<1> USE DEF Leave, Goto
<1>1. CASE Drain
  BY <1>1, NobodyHolds DEF Drain, OutputInv, supVars, procVars, TypeOK
<1>2. ASSUME NEW p \in Procs, Write(p) PROVE OutputInv'
  <2>1. ~Ended /\ ~Ended'
    BY <1>2 DEF Write, OutputInv, supVars
  <2> QED
    BY <1>2, <2>1, BoundAssumption DEF Write, OutputInv, TypeOK
<1>3. CASE UNCHANGED outVars
  <2>1. Ended' => Ended \/ EndOfOutput
    <3>0. GiveUp => (Ended' => Ended)
      BY DEF GiveUp
    <3>1. (\E p \in Procs : Process(p)) \/ Drain => (Ended' => Ended)
      BY <1>3 DEF Process, Exec, Redirect, Detach, Exit, ParentReaps, Write, Fork, Drain, supVars
    <3>2. Poll \/ TerminateAdoptedChildren => (Ended' => Ended)
      BY <3>0 DEF Poll, PollExited, PollTimeout, PollOverflow, TerminateAdoptedChildren, ListProcesses, Look, KillAdopted, ReapAdopted
    <3>3. \A was \in BOOLEAN : GroupGone(was) => (Ended' => Ended)
      BY DEF GroupGone
    <3>4. TerminateTree => (Ended' => Ended)
      BY <3>0, <3>3 DEF TerminateTree, Term, TermWaited, TermTimeout, RootSurvived, Group, GroupWaited,
                     GroupTermTimeout, GroupSurvived
    <3>5. Join => (Ended' => Ended \/ EndOfOutput)
      BY DEF Join, TypeOK, Failures
    <3>6. Verdict => Ended
      BY DEF Verdict
    <3> QED
      BY <3>1, <3>2, <3>4, <3>5, <3>6 DEF Next, Supervise
  <2>2. Ended' => Holders' = {} /\ unread' = 0
    BY <1>3, <2>1, NobodyHolds DEF OutputInv, EndOfOutput, outVars
  <2>3. result' = "success" => result = "success" \/ read <= Limit
    <3>1. Verdict => (result' = "success" => read <= Limit)
      BY BoundAssumption DEF Verdict, TypeOK
    <3>2. (\E p \in Procs : Process(p)) \/ Drain => UNCHANGED result
      BY DEF Process, Exec, Redirect, Detach, Exit, ParentReaps, Write, Fork, Drain, supVars
    <3>0. GiveUp => result' = result \/ result' = "cleanup"
      BY DEF GiveUp
    <3>3. Poll \/ TerminateAdoptedChildren => result' = result \/ result' = "cleanup"
      BY <3>0 DEF Poll, PollExited, PollTimeout, PollOverflow, TerminateAdoptedChildren, ListProcesses, Look, KillAdopted, ReapAdopted
    <3>4. \A was \in BOOLEAN : GroupGone(was) => result' = result \/ result' = "readers"
      BY DEF GroupGone
    <3>5. TerminateTree => result' = result \/ result' \in {"readers", "cleanup"}
      BY <3>0, <3>4 DEF TerminateTree, Term, TermWaited, TermTimeout, RootSurvived, Group, GroupWaited,
                     GroupTermTimeout, GroupSurvived
    <3>6. Join => result' = result \/ result' \in Failures
      BY DEF Join, TypeOK
    <3> QED
      BY <3>1, <3>2, <3>3, <3>5, <3>6 DEF Next, Supervise, Failures
  <2> QED
    BY <1>3, <2>2, <2>3 DEF OutputInv, outVars
<1>4. Drain \/ (\E p \in Procs : Write(p)) \/ UNCHANGED outVars
  <2>1. (\E p \in Procs : Process(p)) => (\E p \in Procs : Write(p)) \/ UNCHANGED outVars
    BY DEF Process, Exec, Redirect, Detach, Exit, ParentReaps, Fork
  <2>2. Poll \/ TerminateAdoptedChildren \/ Join \/ Verdict => UNCHANGED outVars
    BY DEF Poll, PollExited, PollTimeout, PollOverflow, TerminateAdoptedChildren, ListProcesses, Look, KillAdopted, ReapAdopted, Join, Verdict
  <2>3. TerminateTree => UNCHANGED outVars
    BY DEF TerminateTree, Term, TermWaited, TermTimeout, RootSurvived, Group, GroupWaited,
           GroupTermTimeout, GroupSurvived
  <2> QED
    BY <2>1, <2>2, <2>3 DEF Next, Supervise
<1> QED
  BY <1>1, <1>2, <1>3, <1>4

-----------------------------------------------------------------------------
(***************************************************************************)
(* The command's process group.                                            *)
(***************************************************************************)
\* A process joins the group when a member forks it, and in no other way.
LEMMA GroupStep ==
  ASSUME Next
  PROVE  \/ group' \subseteq group
         \/ \E p \in group \cap RunningProcs, child \in Descendants :
              group' = group \cup {child} /\ Fork(p, child)
<1>1. ASSUME NEW p \in Procs, NEW child \in Descendants, Fork(p, child), ~(group' \subseteq group)
      PROVE  p \in group \cap RunningProcs /\ group' = group \cup {child}
  BY <1>1 DEF Fork, RunningProcs, Running
<1>2. \A p \in Procs : Exec(p) \/ Redirect(p) \/ Detach(p) \/ Exit(p) \/ ParentReaps(p) \/ Write(p) => group' \subseteq group
  BY DEF Exec, Redirect, Detach, Exit, ParentReaps, Write, procVars
<1>3. Drain \/ Poll \/ Join \/ Verdict => group' \subseteq group
  BY DEF Drain, Poll, PollExited, PollTimeout, PollOverflow, Join, Verdict, procVars
<1>4. TerminateTree \/ TerminateAdoptedChildren => group' \subseteq group
  BY DEF TerminateTree, Term, TermWaited, TermTimeout, RootSurvived, Group, GroupWaited, GroupTermTimeout,
         GroupSurvived, TerminateAdoptedChildren, ListProcesses, Look, KillAdopted, ReapAdopted, procVars
<1> QED
  BY <1>1, <1>2, <1>3, <1>4 DEF Next, Supervise, Process

\* The supervisor passes on from a group that is gone, or gives up.
LEMMA ClearStep ==
  ASSUME TypeOK, PlaceInv, Next, Cleared', ~Cleared
  PROVE  group' = group /\ \A p \in group : ~Running(p)'
<1>0. ~GiveUp
  BY DEF GiveUp, Cleared
<1>1. (\E p \in Procs : Process(p)) \/ Drain => (Cleared' <=> Cleared)
  BY DEF Process, Exec, Redirect, Detach, Exit, ParentReaps, Write, Fork, Drain, supVars, Cleared
<1>2. ~(Poll \/ Term \/ TermWaited \/ TermTimeout \/ RootSurvived \/ GroupTermTimeout \/ GroupSurvived)
  BY <1>0 DEF Poll, PollExited, PollTimeout, PollOverflow, Term, TermWaited, TermTimeout, RootSurvived,
     GroupTermTimeout, GroupSurvived, Leave, Goto, Cleared
<1>3. ~(TerminateAdoptedChildren \/ Verdict)
  BY DEF TerminateAdoptedChildren, ListProcesses, Look, KillAdopted, ReapAdopted, Verdict, Cleared
<1>4. ~Join
  BY DEF Join, Leave, Goto, Cleared
<1>5. CASE Group \/ GroupWaited
  <2>1. ~GroupExists /\ UNCHANGED <<state, group>>
    BY <1>5 DEF Group, GroupWaited, Goto, Cleared, procVars
  <2> QED
    BY <2>1 DEF GroupExists, Exists, Running, Awake
<1> QED
  BY <1>1, <1>2, <1>3, <1>4, <1>5 DEF Next, Supervise, TerminateTree

LEMMA StepGroup ==
  ASSUME TypeOK, PlaceInv, FamilyInv, GroupInv, Next, Forks \/ Kills \/ Reaps \/ Stays
  PROVE  GroupInv'
<1>1. Born \subseteq Born' /\ \A p \in Born : Running(p)' => Running(p)
  BY Onward
<1>2. CASE group' \subseteq group
  <2>1. group' \subseteq Born'
    BY <1>1, <1>2 DEF GroupInv
  <2>2. CASE Cleared' /\ ~Cleared
    BY <2>1, <2>2, ClearStep DEF GroupInv, RunningProcs
  <2>3. CASE Cleared' /\ Cleared
    BY <1>1, <1>2, <2>1, <2>3 DEF GroupInv, RunningProcs, Born
  <2> QED
    BY <2>1, <2>2, <2>3 DEF GroupInv
<1>3. ASSUME NEW p \in group \cap RunningProcs, NEW child \in Descendants,
             group' = group \cup {child}, Fork(p, child)
      PROVE  GroupInv'
  <2>1. ~Cleared /\ ~Cleared'
    BY <1>3 DEF Fork, supVars, GroupInv, Cleared
  <2>2. child \in Born'
    <3>1. state'[child] = "running" /\ child \in Procs
      BY <1>3 DEF Fork, TypeOK, Procs
    <3> QED
      BY <3>1 DEF Born
  <2> QED
    BY <1>1, <1>3, <2>1, <2>2 DEF GroupInv
<1> QED
  BY <1>2, <1>3, GroupStep

-----------------------------------------------------------------------------
(***************************************************************************)
(* The theorems.                                                           *)
(***************************************************************************)
LEMMA InitInv == Init => Inv
<1> SUFFICES ASSUME Init PROVE Inv
  OBVIOUS
<1>1. Born = {Root} /\ Root \in Procs /\ Supervisor \notin Procs
  BY RootFacts DEF Init, Born
<1>2. TypeOK
  <2>1. 0 \in 0..MaxOutput
    BY BoundAssumption
  <2> QED
    BY <1>1, <2>1, PlaceFacts DEF Init, TypeOK
<1>3. PlaceInv /\ OutputInv /\ ScanInv
  BY BoundAssumption DEF Init, PlaceInv, OutputInv, ScanInv, Clean
<1>4. FamilyInv /\ AncestryInv /\ GroupInv
  BY <1>1 DEF Init, FamilyInv, AncestryInv, Running, Awake, GroupInv, Cleared
<1> QED
  BY <1>2, <1>3, <1>4 DEF Inv

LEMMA StepInv == Inv /\ [Next]_vars => Inv'
<1> SUFFICES ASSUME Inv, [Next]_vars PROVE Inv'
  OBVIOUS
<1>1. CASE UNCHANGED vars
  BY <1>1 DEF vars, procVars, idVars, outVars, supVars, scanVars, Inv, TypeOK, PlaceInv, FamilyInv,
     AncestryInv, ScanInv, Covered, NoneLost, TaggedProcs, OutputInv, Clean, GroupInv, Cleared, Born,
     Holders, RunningProcs, Running, Awake
<1>2. CASE Next
  <2>1. Forks \/ Kills \/ Reaps \/ Stays
    BY <1>2, ProcessStep DEF Inv
  <2>2. TypeOK'
    BY <1>2, ProcessTypeOK, SupervisorTypeOK DEF Next, Inv
  <2>3. PlaceInv' /\ FamilyInv' /\ AncestryInv'
    BY <1>2, <2>1, StepPlace, StepFamily, StepAncestry DEF Inv
  <2>4. ScanInv' /\ OutputInv' /\ GroupInv'
    BY <1>2, <2>1, StepScan, StepOutput, StepGroup DEF Inv
  <2> QED
    BY <2>2, <2>3, <2>4 DEF Inv
<1> QED
  BY <1>1, <1>2

\* The inductive invariant holds of every behaviour, fair or not.
THEOREM Inductive == Safety => []Inv
<1>1. Init => Inv
  BY InitInv
<1>2. Inv /\ [Next]_vars => Inv'
  BY StepInv
<1> QED
  BY <1>1, <1>2, PTL DEF Safety

\* Every variable keeps its type: the supervisor only ever pursues, kills and reaps
\* processes that ran when it listed /proc, never Root a second time.
THEOREM TypeCorrect == Spec => []TypeOK
<1>1. Inv => TypeOK
  BY DEF Inv
<1> QED
  BY <1>1, Inductive, PTL DEF Spec

\* However _run ends, except with a report that the cleanup failed, the command's process
\* group has died.  It returns success over a running process with the run identifier only
\* if one of the listed that have forked with the identifier has died since or given it up;
\* whatever the processes are, however many, and however they fork, exec, detach, ignore
\* signals and outlive their parents.  For were all of those still running with the
\* identifier, the tagged of the listed would have no parent but one another.
THEOREM NothingElseIsLeft == Spec => []LeftOnlyByTheDying
<1>1. Inv => LeftOnlyByTheDying
  <2>0. Inv /\ result \notin {"none", "cleanup"} => group \cap RunningProcs = {}
    BY DEF Inv, PlaceInv, GroupInv, Cleared
  <2> SUFFICES ASSUME Inv, result = "success", TaggedProcs # {},
                      \A p \in listed \cap forebears : Running(p) /\ p \in tagged
               PROVE  FALSE
    BY <2>0 DEF LeftOnlyByTheDying, TaggedProcs
  <2> DEFINE S == listed \cap TaggedProcs
  <2>1. pc = "done" /\ failure = "none"
    BY DEF Inv, PlaceInv
  <2>2. NoneLost
    BY DEF NoneLost, TaggedProcs, RunningProcs, Inv, TypeOK
  <2>3. Covered /\ unseen = {} /\ victims = {}
    BY <2>1 DEF Inv, ScanInv, Clean
  <2>4. S # {} /\ \A p \in S : parent[p] # Supervisor
    BY <2>2, <2>3 DEF Covered, NoneLost
  <2>5. Root \notin S
    BY <2>1 DEF Inv, PlaceInv, TaggedProcs, RunningProcs
  <2>6. \A p \in S : parent[p] \in listed \cap forebears
    BY <2>4, <2>5 DEF Inv, FamilyInv, TaggedProcs
  <2>7. PICK p \in S : parent[p] \notin S
    BY <2>4 DEF Inv, AncestryInv, FamilyInv
  <2> QED
    BY <2>2, <2>6, <2>7 DEF NoneLost
<1> QED
  BY <1>1, Inductive, PTL DEF Spec

\* A command that _run reports as successful had its output read to the end and
\* kept to the budget, however late the output came.
THEOREM OutputIsRead == Spec => []SuccessIsRead
<1>1. Inv => SuccessIsRead
  BY DEF Inv, OutputInv, SuccessIsRead
<1> QED
  BY <1>1, Inductive, PTL DEF Spec
=============================================================================
