------------------------- MODULE StableRequirements -------------------------
(***************************************************************************)
(* Process adoption and the requirements lock (main in                     *)
(* .process/adopt-process.py): the lock is read once, a private snapshot   *)
(* of it is installed, and what is adopted must be what the checkout still *)
(* holds.  Beside it a developer's tools save the lock: by a new file that *)
(* takes its name, or in place, emptied first and then written block by    *)
(* block.                                                                  *)
(*                                                                         *)
(* The clock is that of the file system's timestamps: any number of writes *)
(* fall on one tick.  A new file gets the lowest inode that is free.  The  *)
(* commands that adoption runs are external: one may fail, and one may     *)
(* alter the snapshot, once.                                               *)
(***************************************************************************)
EXTENDS Naturals, Sequences, FiniteSets, FiniteSetsExt

CONSTANTS
  Inodes,      \* numbers of files
  MaxClock,    \* bound: ticks
  MaxSaves     \* bound: saves by the developer's tools

ASSUME InodesAssumption == Inodes \subseteq Nat /\ IsFiniteSet(Inodes) /\ Cardinality(Inodes) >= 3
ASSUME BoundsAssumption == MaxClock \in Nat /\ MaxSaves \in Nat

VARIABLES
  clock,
  file,       \* the file with the lock's name
  folder,     \* when a name in its directory last changed
  left,       \* the blocks a save in place has not written yet
  saves,
  phase,      \* where main is
  step,       \* where in reading the lock it is
  chain,      \* before_chain
  before,     \* the file as lstat showed it before it was opened
  opened,     \* the file that is read, or the one that was bound
  content,    \* requirements_content
  current,    \* what has been read of the lock
  snapshot,   \* the private snapshot's content
  altered,    \* a command has altered it
  installed,  \* what pip installed from
  attested,   \* what the authority says it was given
  held,       \* what the lock held, from the start of a reading to its end
  unseen      \* it was written within the tick that lstat had shown

fileVars == <<clock, file, folder, left, saves>>
readVars == <<step, chain, before, opened, current>>
mainVars == <<content, snapshot, altered, installed, attested>>
seenVars == <<held, unseen>>
requirementsVars == <<fileVars, phase, readVars, mainVars, seenVars>>

-----------------------------------------------------------------------------
Save(n) == <<<<n, 1>>, <<n, 2>>>>    \* the two blocks of the n-th content
Spoilt == <<<<0, 0>>>>
NoFile == [inode |-> 0, mtime |-> 0, blocks |-> <<>>]
Phases == <<"bind", "first", "snapshot", "venv", "help", "install", "snapshot checked", "source checked",
            "version", "authority", "snapshot rechecked", "source rechecked", "attest", "adopted">>
Reading == {"first", "source checked", "source rechecked"}
Commands == {"venv", "help", "install", "version", "authority"}

PathChain == <<folder, file.inode, file.mtime>>

RequirementsInit ==
  /\ clock = 0
  /\ file = [inode |-> Min(Inodes), mtime |-> 0, blocks |-> Save(0)]
  /\ folder = 0
  /\ left = <<>>
  /\ saves = 0
  /\ phase = "bind"
  /\ step = "start"
  /\ chain = <<0, 0, 0>>
  /\ before = NoFile
  /\ opened = NoFile
  /\ content = <<>>
  /\ current = <<>>
  /\ snapshot = <<>>
  /\ altered = FALSE
  /\ installed = <<>>
  /\ attested = <<>>
  /\ held = {}
  /\ unseen = FALSE

-----------------------------------------------------------------------------
(***************************************************************************)
(* The file system and the developer's tools.                              *)
(***************************************************************************)
Tick ==
  /\ clock < MaxClock
  /\ clock' = clock + 1
  /\ UNCHANGED <<file, folder, left, saves, phase, readVars, mainVars, seenVars>>

Wrote ==
  /\ held' = IF step = "start" THEN held ELSE held \cup {file'.blocks}
  /\ unseen' = (unseen \/ (step # "start" /\ clock = before.mtime))
  /\ UNCHANGED <<clock, phase, step, chain, before, current, mainVars>>

\* A new file takes the lock's name; whoever has the old one open keeps it.
Replace ==
  /\ saves < MaxSaves /\ left = <<>>
  /\ saves' = saves + 1
  /\ file' = [inode |-> Min(Inodes \ {file.inode, opened.inode}), mtime |-> clock, blocks |-> Save(saves')]
  /\ folder' = clock
  /\ UNCHANGED <<left, opened>>
  /\ Wrote

WriteInPlace(blocks) ==
  /\ file' = [file EXCEPT !.mtime = clock, !.blocks = blocks]
  /\ opened' = IF opened.inode = file.inode THEN file' ELSE opened
  /\ UNCHANGED folder
  /\ Wrote

SaveInPlace ==
  /\ saves < MaxSaves /\ left = <<>>
  /\ saves' = saves + 1
  /\ left' = Save(saves')
  /\ WriteInPlace(<<>>)

WriteBlock ==
  /\ left # <<>>
  /\ left' = Tail(left)
  /\ UNCHANGED saves
  /\ WriteInPlace(Append(file.blocks, Head(left)))

-----------------------------------------------------------------------------
(***************************************************************************)
(* Reading the lock: the path before, the file before, the file that was   *)
(* opened, the file after, the path after.                                 *)
(***************************************************************************)
Next1(p) == Phases[1 + CHOOSE i \in DOMAIN Phases : Phases[i] = p]
Refuse == phase' = "refused" /\ step' = "start" /\ opened' = NoFile

\* Two looks at the path that must agree.
Bind ==
  /\ phase = "bind" /\ step = "start"
  /\ chain' = PathChain
  /\ step' = "chain"
  /\ UNCHANGED <<fileVars, phase, before, opened, current, mainVars, seenVars>>

Bound ==
  /\ phase = "bind" /\ step = "chain"
  /\ IF PathChain = chain THEN phase' = Next1(phase) /\ step' = "start" /\ UNCHANGED opened ELSE Refuse
  /\ UNCHANGED <<fileVars, chain, before, current, mainVars, seenVars>>

StartReading ==
  /\ phase \in Reading /\ step = "start"
  /\ chain' = PathChain
  /\ step' = "chain"
  /\ current' = <<>>
  /\ before' = NoFile
  /\ held' = {file.blocks}
  /\ unseen' = FALSE
  /\ UNCHANGED <<fileVars, phase, opened, mainVars>>

Lstat ==
  /\ phase \in Reading /\ step = "chain"
  /\ IF <<file.inode, file.mtime>> = <<chain[2], chain[3]>>
       THEN before' = file /\ step' = "lstat" /\ UNCHANGED <<phase, opened>>
       ELSE Refuse /\ UNCHANGED before
  /\ UNCHANGED <<fileVars, chain, current, mainVars, seenVars>>

Open ==
  /\ step = "lstat"
  /\ IF file.inode = before.inode
       THEN opened' = file /\ step' = "open" /\ UNCHANGED phase
       ELSE Refuse
  /\ UNCHANGED <<fileVars, chain, before, current, mainVars, seenVars>>

\* Mutant: a file that changes is looked at again, and what was read of it is kept.
ReadBlockAgain ==
  /\ step = "open"
  /\ IF Len(current) < Len(opened.blocks)
       THEN current' = Append(current, opened.blocks[Len(current) + 1]) /\ UNCHANGED <<step, opened>>
       ELSE step' = "read" /\ opened' = NoFile /\ UNCHANGED current
  /\ before' = file
  /\ chain' = PathChain
  /\ UNCHANGED <<fileVars, phase, mainVars, seenVars>>

ReadBlock ==
  /\ step = "open"
  /\ IF Len(current) < Len(opened.blocks)
       THEN current' = Append(current, opened.blocks[Len(current) + 1]) /\ UNCHANGED <<step, opened>>
       ELSE step' = "read" /\ opened' = NoFile /\ UNCHANGED current
  /\ UNCHANGED <<fileVars, phase, chain, before, mainVars, seenVars>>

\* Size, time and identity, of what was read and of the file as it is now.
SameAsBefore ==
  /\ Len(current) = Len(before.blocks)
  /\ Len(file.blocks) = Len(before.blocks)
  /\ file.mtime = before.mtime
  /\ file.inode = before.inode

LstatAfter ==
  /\ step = "read"
  /\ IF SameAsBefore THEN step' = "after" /\ UNCHANGED <<phase, opened>> ELSE Refuse
  /\ UNCHANGED <<fileVars, chain, before, current, mainVars, seenVars>>

\* The first reading gives the content, the later ones must find it again.
Unchanged == phase = "first" \/ current = content

ReadDone ==
  /\ step = "after"
  /\ IF PathChain = chain /\ Unchanged THEN phase' = Next1(phase) /\ step' = "start" /\ UNCHANGED opened
                                       ELSE Refuse
  /\ content' = IF phase = "first" THEN current ELSE content
  /\ UNCHANGED <<fileVars, chain, before, current, snapshot, altered, installed, attested, seenVars>>

-----------------------------------------------------------------------------
(***************************************************************************)
(* The snapshot, the commands and the authority's word.                    *)
(***************************************************************************)
Goes(holds) == IF holds THEN phase' = Next1(phase) /\ UNCHANGED <<step, opened>> ELSE Refuse

WriteSnapshot ==
  /\ phase = "snapshot"
  /\ snapshot' = content
  /\ Goes(TRUE)
  /\ UNCHANGED <<fileVars, chain, before, current, content, altered, installed, attested, seenVars>>

Alter ==
  /\ phase \in Commands /\ ~altered
  /\ altered' = TRUE
  /\ snapshot' = Spoilt
  /\ UNCHANGED <<fileVars, phase, readVars, content, installed, attested, seenVars>>

\* venv, pip's help, pip install, the version that is installed.
Command ==
  /\ phase \in Commands \ {"authority"}
  /\ \E succeeds \in BOOLEAN : Goes(succeeds)
  /\ installed' = IF phase = "install" THEN snapshot ELSE installed
  /\ UNCHANGED <<fileVars, chain, before, current, content, snapshot, altered, attested, seenVars>>

\* check is given the checkout's lock, apply the snapshot and the digest it must have.
Authority ==
  /\ phase = "authority"
  /\ \E given \in {file.blocks, snapshot}, succeeds \in BOOLEAN :
       attested' = given /\ Goes(succeeds)
  /\ UNCHANGED <<fileVars, chain, before, current, content, snapshot, altered, installed, seenVars>>

\* Mutant: nobody looks whether the private snapshot is still what was written.
SnapshotTrusted ==
  /\ phase \in {"snapshot checked", "snapshot rechecked"}
  /\ Goes(TRUE)
  /\ UNCHANGED <<fileVars, chain, before, current, mainVars, seenVars>>

SnapshotUnchanged ==
  /\ phase \in {"snapshot checked", "snapshot rechecked"}
  /\ Goes(snapshot = content)
  /\ UNCHANGED <<fileVars, chain, before, current, mainVars, seenVars>>

Attest ==
  /\ phase = "attest"
  /\ Goes(attested = content)
  /\ UNCHANGED <<fileVars, chain, before, current, mainVars, seenVars>>

RequirementsNext ==
  \/ Tick \/ Replace \/ SaveInPlace \/ WriteBlock
  \/ Bind \/ Bound
  \/ StartReading \/ Lstat \/ Open \/ ReadBlock \/ LstatAfter \/ ReadDone
  \/ WriteSnapshot \/ Alter \/ Command \/ Authority \/ SnapshotUnchanged \/ Attest

RequirementsSpec == RequirementsInit /\ [][RequirementsNext]_requirementsVars

-----------------------------------------------------------------------------
(***************************************************************************)
(* Properties.                                                             *)
(***************************************************************************)

\* What a reading accepts is what the lock held at one moment of it, never a mixture
\* of two saves, unless it was written again within the tick of the timestamp it had.
ReadWasHeld ==
  (step = "start" /\ phase \notin {"bind", "first", "refused"}) => (current \in held \/ unseen)

\* An adoption that succeeds has installed from the very content that was read first,
\* the authority was given that content, and the last reading, after the authority had
\* ended, found it again.
AdoptedAsOne ==
  phase = "adopted" => installed = content /\ attested = content /\ current = content
=============================================================================
