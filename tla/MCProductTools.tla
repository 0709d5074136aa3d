---------------------------- MODULE MCProductTools ----------------------------
(***************************************************************************)
(* The product's tools, for model checking: the reading of the             *)
(* requirements lock, the Windows runner, the wait for the end-to-end      *)
(* targets and canonical JSON.  They have no state in common: the one      *)
(* whose turn it is runs and the others keep still.  For canonical JSON a  *)
(* turn is one probe: a file, or a value that is to be written.            *)
(***************************************************************************)
EXTENDS StableRequirements, WindowsJob, E2EWait

LOCAL INSTANCE CanonicalJson

VARIABLES turn, probe

Sequences(set, lengths) == UNION {[1..n -> set] : n \in lengths}

Characters == {"a", "mark", "quote", "newline", "slash", "escape", "space", "high", "low"}
Chars == {[char |-> c, form |-> f] : c \in Characters, f \in {"raw", "short", "UPPER", "lower"}}
Numbers == {"zero", "minus zero", "one", "half", "beyond"}

StringTrees == {[kind |-> "string", chars |-> c] : c \in Sequences(Chars, 0..2)}
NumberTrees == [kind : {"number"}, number : Numbers, form : {"plain", "exponent"}]
LeafTrees == NumberTrees \cup {[kind |-> "null"]} \cup [kind : {"boolean"}, truth : BOOLEAN]
Names == {<<[char |-> c, form |-> "raw"]>> : c \in {"a", "1", "2"}} \cup {<<[char |-> "a", form |-> "lower"]>>}
Members == Names \X {[kind |-> "number", number |-> n, form |-> "plain"] : n \in {"zero", "one"}}
ObjectTrees == {[kind |-> "object", entries |-> e] : e \in Sequences(Members, 0..3)}
NestedTrees == {[kind |-> "array", items |-> <<t, o>>] :
                  t \in LeafTrees, o \in {p \in ObjectTrees : Len(p.entries) = 2}}

Files ==
  {[bom |-> FALSE, end |-> "lf", spaced |-> FALSE, tree |-> t] :
     t \in StringTrees \cup LeafTrees \cup ObjectTrees \cup NestedTrees}
  \cup [bom : BOOLEAN, end : {"none", "lf", "crlf", "two"}, spaced : BOOLEAN, tree : LeafTrees]

Strings == {[kind |-> "string", text |-> t] : t \in Sequences(Characters, 0..3)}
\* What is packaged was read from accepted files, which hold no minus zero.
Leaves == [kind : {"number"}, number : Numbers \ {"minus zero"}] \cup [kind : {"boolean"}, truth : BOOLEAN]
Values ==
  Strings \cup Leaves
  \cup {[kind |-> "array", items |-> <<s, l>>] : s \in {s \in Strings : Len(s.text) = 2}, l \in Leaves}
  \cup {[kind |-> "object", entries |-> <<<<s.text, l>>>>] : s \in {s \in Strings : Len(s.text) = 2}, l \in Leaves}

MCInit ==
  /\ RequirementsInit /\ JobInit /\ WaitInit
  /\ \/ turn \in {"requirements", "job", "wait"} /\ probe = <<>>
     \/ turn = "file" /\ probe \in Files
     \/ turn = "value" /\ probe \in Values

MCNext ==
  /\ UNCHANGED <<turn, probe>>
  /\ \/ turn = "requirements" /\ RequirementsNext /\ UNCHANGED <<jobVars, waitVars>>
     \/ turn = "job" /\ JobNext /\ UNCHANGED <<requirementsVars, waitVars>>
     \/ turn = "wait" /\ WaitNext /\ UNCHANGED <<requirementsVars, jobVars>>

MCSpec == MCInit /\ [][MCNext]_<<turn, probe, requirementsVars, jobVars, waitVars>>

\* A file in UTF-8 that is accepted as canonical says one thing to every reader, a string
\* has one text that is accepted, and whatever may be packaged is written so that the
\* same code accepts it and reads it back.
CanonicalTextsAgree ==
  /\ turn = "file" => EveryReaderAgrees(probe) /\ OneTextIsAccepted(probe)
  /\ turn = "value" => WrittenIsRead(probe)
=============================================================================
