--------------------------- MODULE MCReleaseStore ---------------------------
(* Small instances of ReleaseStore for TLC.  Two commands at once and a tree  *)
(* that changes under them are too much for one instance: it has two modes.   *)
EXTENDS ReleaseStore, TLC

VARIABLE mode

MCInit == Init /\ mode \in {"concurrent", "serial"}

\* Commands run at once, all on one revision that stays checked out.
Concurrent == /\ mode = "concurrent"
              /\ tree' = tree /\ axisTree' = axisTree
              /\ \A c \in Commands : revision'[c] \in {tree, NoRevision}

\* One command at a time, while the developer may check out another revision.
Serial == /\ mode = "serial"
          /\ \A c, d \in Commands : pc'[c] # "idle" /\ pc'[d] # "idle" => c = d

MCNext == Next /\ (Concurrent \/ Serial) /\ UNCHANGED mode

MCSpec == MCInit /\ [][MCNext]_<<vars, mode>>

Symmetry == Permutations(Commands) \cup Permutations(Revisions)

\* In serial mode, what a command has returned stays as it was.
SerialReleasedStays == mode = "serial" => ReleasedStays

\* In serial mode, the recorded state is that of a snapshot in the store.
SerialStateNamesSnapshot == mode = "serial" => StateNamesSnapshot
=============================================================================
