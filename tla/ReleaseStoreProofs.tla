------------------------- MODULE ReleaseStoreProofs -------------------------
(***************************************************************************)
(* What ReleaseStore guarantees for every number of commands, revisions    *)
(* and keys.  Inv is the inductive invariant of commands that run at once: *)
(* a key can be made only where nothing is signed yet, and the key a       *)
(* command has read stays where it is while the command runs.              *)
(***************************************************************************)
EXTENDS MCReleaseStore, TLAPS

Making == {"openKey", "fillKey"}
Preparing == {"newIdentity", "noKey"} \cup Making
Writing == {"check", "open", "fill", "compare", "openState", "fillState"}

\* What a command at each place was called as, and that it knows its revision.
PhaseOf(c) ==
  /\ pc[c] \in Preparing \cup {"oldIdentity", "readKey", "openState", "fillState"} =>
       command[c] = "release"
  /\ pc[c] \in {"build"} \cup Writing =>
       \/ command[c] = "release" /\ signer[c] \in LocalKeys
       \/ command[c] = "publish" /\ signer[c] = PublisherKey
  /\ pc[c] \in {"readState", "readPackage"} =>
       command[c] \in {"passive", "axis-e2e", "recover-topology"}
  /\ pc[c] = "invoke" => command[c] \in {"release", "recover-topology"}
  /\ pc[c] \notin {"idle", "invoke"} => revision[c] \in Revisions
PhaseInv == \A c \in Commands : PhaseOf(c)

\* What a command has built, or has read of the state.
BuiltOf(c) ==
  /\ pc[c] \in Writing =>
       /\ built[c] \in Envelope
       /\ built[c].version = IF Development(c) THEN revision[c] ELSE Stable
       /\ built[c].revision = revision[c]
       /\ built[c].signer = signer[c]
  /\ pc[c] \in {"idle", "readState"} => built[c] = NoBuild
  /\ pc[c] = "readPackage" => built[c] \in State \cup {NoBuild}
BuiltInv == \A c \in Commands : BuiltOf(c)

\* The key a release signs and deploys with is still that of the store.
Signing(c) == command[c] = "release" /\ pc[c] \in {"build", "invoke"} \cup Writing
SignerInv == \A c \in Commands : Signing(c) => Written(keyFile) /\ signer[c] = keyFile

\* One command at most fills the key file, and until then it is torn.
FillInv ==
  /\ \A c \in Commands : pc[c] = "fillKey" => keyFile = Torn
  /\ \A c, d \in Commands : pc[c] = "fillKey" /\ pc[d] = "fillKey" => c = d

\* Where a key is about to be made nothing is signed, and the artifacts of a
\* deployment, if there is one, were lost.
MakingInv ==
  \A c \in Commands :
    pc[c] \in Making /\ ~Written(keyFile) =>
      /\ \A v \in Revisions : ~Written(artifact[v])
      /\ deployed # NoKey => "store" \in lost

\* Unless the marker was lost, a deployment is recorded as ours, and nobody who
\* may make a key has missed it.
MarkerInv ==
  /\ deployed # NoKey /\ "marker" \notin lost => topology = "own"
  /\ \A c \in Commands :
       pc[c] \in Preparing /\ ~Written(keyFile) /\ deployed # NoKey => "marker" \in lost

\* Unless the store was lost, a deployment has left an artifact in it, as has every
\* release that has come far enough.
StoredInv ==
  /\ deployed # NoKey /\ "store" \notin lost => ~MayMakeKey
  /\ \A c \in Commands :
       /\ command[c] = "release"
       /\ pc[c] \in {"fill", "compare", "openState", "fillState", "invoke"}
       => ~MayMakeKey

\* The store has the key of the deployment, unless both of its traces were lost.
IdentityInv ==
  deployed # NoKey /\ Written(keyFile) => keyFile = deployed \/ lost = {"marker", "store"}

KeyInv == SignerInv /\ FillInv /\ MakingInv
DeployedInv == MarkerInv /\ StoredInv /\ IdentityInv
LocalInv == TypeOK /\ PhaseInv /\ BuiltInv
Inv == LocalInv /\ KeyInv /\ SnapshotsVerify /\ DeployedInv

CommandStep(c) == PrepareStep(c) \/ BuildStep(c) \/ ReadStep(c) \/ Deploy(c) \/ Stop(c)
WorldStep == Checkout \/ LoseKey \/ LoseStore \/ RestoreKey \/ LoseMarker \/ Reset \/ AxisChanges

-----------------------------------------------------------------------------
(***************************************************************************)
(* Types.                                                                  *)
(***************************************************************************)
\* Membership facts that spare the proofs the enumerations.
LEMMA PlaceFacts ==
  /\ "idle" \in Places /\ "newIdentity" \in Places /\ "oldIdentity" \in Places
  /\ "noKey" \in Places /\ "openKey" \in Places /\ "fillKey" \in Places
  /\ "readKey" \in Places /\ "build" \in Places /\ "check" \in Places
  /\ "open" \in Places /\ "fill" \in Places /\ "compare" \in Places
  /\ "openState" \in Places /\ "fillState" \in Places /\ "readState" \in Places
  /\ "readPackage" \in Places /\ "invoke" \in Places
  BY DEF Places

LEMMA KindFacts ==
  /\ "none" \in Kinds /\ "release" \in Kinds /\ "publish" \in Kinds
  /\ "passive" \in Kinds /\ "axis-e2e" \in Kinds /\ "recover-topology" \in Kinds
  BY DEF Kinds

\* A step of a command changes the variables of other commands nowhere.
LEMMA Others ==
  ASSUME TypeOK, NEW c \in Commands, CommandStep(c), NEW d \in Commands, d # c
  PROVE  /\ pc'[d] = pc[d]
         /\ command'[d] = command[d]
         /\ revision'[d] = revision[d]
         /\ signer'[d] = signer[d]
         /\ built'[d] = built[d]
<1> DEFINE Same == /\ pc'[d] = pc[d]
                   /\ command'[d] = command[d]
                   /\ revision'[d] = revision[d]
                   /\ signer'[d] = signer[d]
                   /\ built'[d] = built[d]
<1>0. /\ pc \in [Commands -> Places]
      /\ command \in [Commands -> Kinds]
      /\ revision \in [Commands -> Revisions \cup {NoRevision}]
      /\ signer \in [Commands -> LocalKeys \cup {NoKey, PublisherKey}]
      /\ built \in [Commands -> Envelope \cup State \cup {NoBuild}]
  BY DEF TypeOK
<1>1. End(c) => Same
  BY <1>0 DEF End, Goto
<1>2. \A e : Return(c, e) => Same
  BY <1>0, <1>1 DEF Return, Goto
<1>3. Fail(c) => Same
  BY <1>1 DEF Fail
<1>4. \A place : Goto(c, place) => pc'[d] = pc[d]
  BY <1>0 DEF Goto
<1> HIDE DEF Same
<1>5. UNCHANGED working /\ (UNCHANGED pc \/ \E place : Goto(c, place)) => Same
  BY <1>4 DEF working, Same
<1>6. Prepare(c) => Same
  BY <1>0, <1>4 DEF Prepare, Same
<1>7. FindKey(c) => Same
  BY <1>3, <1>5 DEF FindKey
<1>8. NoKeyYet(c) \/ OpenKey(c) \/ FillKey(c) => Same
  BY <1>3, <1>5 DEF NoKeyYet, OpenKey, FillKey
<1>9. ReadKey(c) \/ BuildStable(c) \/ Build(c) => Same
  BY <1>0, <1>3, <1>4 DEF ReadKey, BuildStable, Build, Same
<1>10. Check(c) \/ Open(c) \/ OpenState(c) => Same
  BY <1>5 DEF Check, Open, OpenState
<1>11. Fill(c) \/ Compare(c) \/ FillState(c) => Same
  BY <1>2, <1>3, <1>5 DEF Fill, Compare, FillState
<1>12. Inspect(c) \/ ReadState(c) => Same
  BY <1>0, <1>3, <1>4 DEF Inspect, ReadState, Same
<1>13. ReadPackage(c) \/ Deploy(c) \/ Stop(c) => Same
  BY <1>1, <1>2, <1>3 DEF ReadPackage, Deploy, Stop
<1> QED
  BY <1>6, <1>7, <1>8, <1>9, <1>10, <1>11, <1>12, <1>13 DEF CommandStep, PrepareStep, BuildStep, ReadStep, Same

\* How a command ends, and what it takes along to Axis's script.
LEMMA EndFacts ==
  ASSUME TypeOK, NEW c \in Commands, End(c)
  PROVE  /\ pc'[c] = "idle"
         /\ command'[c] = "none"
         /\ pc' \in [Commands -> Places]
         /\ command' \in [Commands -> Kinds]
         /\ revision' \in [Commands -> Revisions \cup {NoRevision}]
         /\ signer' \in [Commands -> LocalKeys \cup {NoKey, PublisherKey}]
         /\ built' \in [Commands -> Envelope \cup State \cup {NoBuild}]
  BY PlaceFacts, KindFacts DEF End, Goto, TypeOK

LEMMA ReturnFacts ==
  ASSUME TypeOK, NEW c \in Commands, NEW e \in Envelope, Return(c, e)
  PROVE  /\ \/ pc'[c] = "idle"
            \/ /\ pc'[c] = "invoke"
               /\ command'[c] = command[c]
               /\ command[c] \in {"release", "recover-topology"}
               /\ signer'[c] = e.signer
         /\ released' = released \cup {e}
         /\ UNCHANGED <<tree, topology, deployed, axisTree, lost, keysMade>>
         /\ pc' \in [Commands -> Places]
         /\ command' \in [Commands -> Kinds]
         /\ revision' \in [Commands -> Revisions \cup {NoRevision}]
         /\ signer' \in [Commands -> LocalKeys \cup {NoKey, PublisherKey}]
         /\ built' \in [Commands -> Envelope \cup State \cup {NoBuild}]
<1>1. CASE command[c] \in {"release", "recover-topology"}
  <2>1. e.signer \in LocalKeys \cup {NoKey, PublisherKey}
    BY DEF Envelope
  <2> QED
    BY <1>1, <2>1, PlaceFacts DEF Return, Goto, TypeOK, world, axis
<1>2. CASE command[c] \notin {"release", "recover-topology"}
  BY <1>2, EndFacts DEF Return, world, axis
<1> QED
  BY <1>1, <1>2

\* A key file or artifact that is written holds a key, or an envelope.
LEMMA WrittenFacts ==
  ASSUME TypeOK
  PROVE  /\ Written(keyFile) => keyFile \in LocalKeys
         /\ \A v \in Versions : Written(artifact[v]) => artifact[v] \in Envelope
         /\ Written(stateFile) => stateFile \in State
         /\ ~Written(Absent) /\ ~Written(Torn)
  BY DEF TypeOK, Written

\* The package a command has looked up and returns.
LEMMA PackageFacts ==
  ASSUME LocalInv, NEW c \in Commands, ReadPackage(c)
  PROVE  \/ Fail(c)
         \/ \E e \in Envelope : /\ Return(c, e)
                                /\ UNCHANGED store
                                /\ e = artifact[e.version]
<1> DEFINE v == IF built[c] = NoBuild THEN Stable ELSE built[c].revision
           e == artifact[v]
<1>1. built[c] \in State \cup {NoBuild}
  BY DEF LocalInv, BuiltInv, BuiltOf, ReadPackage
<1>2. v \in Versions
  BY <1>1 DEF State, Versions
<1>3. Fail(c) \/ (Written(e) /\ Identifies(built[c], e) /\ Return(c, e) /\ UNCHANGED store)
  BY DEF ReadPackage
<1>4. Written(e) /\ Identifies(built[c], e) => e \in Envelope /\ e.version = v
  BY <1>2, WrittenFacts DEF LocalInv, Identifies
<1> QED
  BY <1>3, <1>4

-----------------------------------------------------------------------------
(***************************************************************************)
(* A step of a command keeps the types, and what is known of each place.   *)
(***************************************************************************)
LEMMA InitLocal == Init => LocalInv
<1> SUFFICES ASSUME Init PROVE LocalInv
  OBVIOUS
<1>1. TypeOK
  BY PlaceFacts, KindFacts, BoundAssumption DEF Init, TypeOK, NoRevision, Topologies
<1>2. PhaseInv /\ BuiltInv
  BY DEF Init, PhaseInv, PhaseOf, BuiltInv, BuiltOf, Preparing, Making, Writing
<1> QED
  BY <1>1, <1>2 DEF LocalInv

\* The variables of the commands.
LEMMA StepLocals ==
  ASSUME LocalInv, NEW c \in Commands, CommandStep(c)
  PROVE  /\ pc' \in [Commands -> Places]
         /\ command' \in [Commands -> Kinds]
         /\ revision' \in [Commands -> Revisions \cup {NoRevision}]
         /\ signer' \in [Commands -> LocalKeys \cup {NoKey, PublisherKey}]
         /\ built' \in [Commands -> Envelope \cup State \cup {NoBuild}]
         /\ PhaseOf(c)' /\ BuiltOf(c)'
<1> DEFINE Typed == /\ pc' \in [Commands -> Places]
                    /\ command' \in [Commands -> Kinds]
                    /\ revision' \in [Commands -> Revisions \cup {NoRevision}]
                    /\ signer' \in [Commands -> LocalKeys \cup {NoKey, PublisherKey}]
                    /\ built' \in [Commands -> Envelope \cup State \cup {NoBuild}]
           Known == PhaseOf(c)' /\ BuiltOf(c)'
<1>0. /\ pc \in [Commands -> Places]
      /\ command \in [Commands -> Kinds]
      /\ revision \in [Commands -> Revisions \cup {NoRevision}]
      /\ signer \in [Commands -> LocalKeys \cup {NoKey, PublisherKey}]
      /\ built \in [Commands -> Envelope \cup State \cup {NoBuild}]
      /\ tree \in Revisions
      /\ PhaseOf(c) /\ BuiltOf(c)
      /\ TypeOK
  BY DEF LocalInv, TypeOK, PhaseInv, BuiltInv
<1>1. ASSUME End(c) PROVE Typed /\ Known
  <2>1. built'[c] = NoBuild
    BY <1>0, <1>1 DEF End
  <2> QED
    BY <1>0, <1>1, <2>1, EndFacts DEF PhaseOf, BuiltOf, Preparing, Making, Writing
<1>2. Fail(c) => Typed /\ Known
  BY <1>1 DEF Fail
<1>3. ASSUME NEW e \in Envelope, Return(c, e) PROVE Typed /\ Known
  <2>1. CASE pc'[c] = "invoke"
    BY <1>0, <1>3, <2>1, ReturnFacts DEF PhaseOf, BuiltOf, Preparing, Making, Writing
  <2>2. CASE ~(pc'[c] = "invoke")
    <3>1. End(c)
      BY <1>0, <1>3, <2>2, PlaceFacts DEF Return, Goto
    <3> QED
      BY <1>1, <3>1
  <2> QED
    BY <2>1, <2>2
<1> USE PlaceFacts, KindFacts DEF Goto
<1>4. CASE Prepare(c)
  <2>1. Typed
    BY <1>0, <1>4 DEF Prepare, Head
  <2>2. Known
    BY <1>0, <1>4 DEF Prepare, Head, PhaseOf, BuiltOf, Preparing, Making, Writing
  <2> QED
    BY <2>1, <2>2
<1>5. CASE FindKey(c)
  BY <1>0, <1>2, <1>5 DEF FindKey, working, PhaseOf, BuiltOf, Preparing, Making, Writing
<1>6. CASE NoKeyYet(c) \/ OpenKey(c) \/ FillKey(c)
  BY <1>0, <1>2, <1>6 DEF NoKeyYet, OpenKey, FillKey, working, PhaseOf, BuiltOf, Preparing, Making, Writing
<1>7. CASE ReadKey(c)
  <2>1. CASE Written(keyFile)
    <3>1. keyFile \in LocalKeys
      BY <1>0, <2>1, WrittenFacts
    <3>2. Typed
      BY <1>0, <1>7, <2>1, <3>1 DEF ReadKey
    <3>3. Known
      BY <1>0, <1>7, <2>1, <3>1 DEF ReadKey, PhaseOf, BuiltOf, Preparing, Making, Writing
    <3> QED
      BY <3>2, <3>3
  <2>2. CASE ~Written(keyFile)
    BY <1>2, <1>7, <2>2 DEF ReadKey
  <2> QED
    BY <2>1, <2>2
<1>8. CASE BuildStable(c)
  <2>1. PICK r \in Revisions : revision' = [revision EXCEPT ![c] = r]
    BY <1>8 DEF BuildStable
  <2>2. Typed
    BY <1>0, <1>8, <2>1 DEF BuildStable
  <2>3. Known
    BY <1>0, <1>8, <2>1 DEF BuildStable, PhaseOf, BuiltOf, Preparing, Making, Writing
  <2> QED
    BY <2>2, <2>3
<1>9. CASE Build(c)
  <2>1. revision[c] \in Revisions /\ signer[c] \in LocalKeys \cup {PublisherKey}
    BY <1>0, <1>9 DEF Build, PhaseOf
  <2>2. Built(c) \in Envelope
    BY <1>0, <2>1 DEF Built, Envelope, Versions
  <2>3. Typed
    BY <1>0, <1>9, <2>2 DEF Build
  <2>4. Known
    BY <1>0, <1>9, <2>2 DEF Build, Built, Development, PhaseOf, BuiltOf, Preparing, Making, Writing
  <2> QED
    BY <2>3, <2>4
<1>10. CASE Check(c) \/ Open(c) \/ OpenState(c)
  BY <1>0, <1>2, <1>10 DEF Check, Open, OpenState, working, Development, PhaseOf, BuiltOf, Preparing, Making, Writing
<1>11. CASE Fill(c) \/ Compare(c) \/ FillState(c)
  <2>1. built[c] \in Envelope
    BY <1>0, <1>11 DEF Fill, Compare, FillState, BuiltOf, Writing
  <2>2. \/ Fail(c)
        \/ Return(c, built[c])
        \/ Development(c) /\ pc[c] \in Writing /\ Goto(c, "openState") /\ UNCHANGED working
    BY <1>11 DEF Fill, Compare, FillState, Writing
  <2>3. CASE Development(c) /\ pc[c] \in Writing /\ Goto(c, "openState") /\ UNCHANGED working
    BY <1>0, <2>3 DEF working, Development, PhaseOf, BuiltOf, Preparing, Making, Writing
  <2> QED
    BY <1>2, <1>3, <2>1, <2>2, <2>3
<1>12. CASE Inspect(c)
  <2>1. Typed
    BY <1>0, <1>12 DEF Inspect
  <2>2. Known
    BY <1>0, <1>12 DEF Inspect, PhaseOf, BuiltOf, Preparing, Making, Writing
  <2> QED
    BY <2>1, <2>2
<1>13. CASE ReadState(c)
  <2>1. stateFile = Torn \/ stateFile = Absent \/ stateFile \in State
    BY <1>0 DEF TypeOK
  <2>2. Fail(c) \/ built' = built \/ (stateFile \in State /\ built' = [built EXCEPT ![c] = stateFile])
    BY <1>13, <2>1 DEF ReadState
  <2>3. Fail(c) \/ (pc' = [pc EXCEPT ![c] = "readPackage"] /\ UNCHANGED <<command, revision, signer>>)
    BY <1>13 DEF ReadState
  <2>4. pc[c] = "readState"
    BY <1>13 DEF ReadState
  <2>5. ASSUME ~Fail(c) PROVE Typed
    BY <1>0, <2>2, <2>3, <2>5
  <2>6. ASSUME ~Fail(c) PROVE Known
    BY <1>0, <2>2, <2>3, <2>4, <2>6 DEF PhaseOf, BuiltOf, Preparing, Making, Writing
  <2> QED
    BY <1>2, <2>5, <2>6
<1>14. CASE ReadPackage(c)
  BY <1>0, <1>2, <1>3, <1>14, PackageFacts
<1>15. CASE Deploy(c) \/ Stop(c)
  BY <1>1, <1>2, <1>15 DEF Deploy, Stop
<1> QED
  BY <1>4, <1>5, <1>6, <1>7, <1>8, <1>9, <1>10, <1>11, <1>12, <1>13, <1>14, <1>15 DEF CommandStep, PrepareStep, BuildStep, ReadStep

-----------------------------------------------------------------------------
(***************************************************************************)
(* What the step of a command does to the store and to the deployment.     *)
(***************************************************************************)
\* Only two steps touch the key file: one makes it, one fills it.
LEMMA KeyStep ==
  ASSUME TypeOK, NEW c \in Commands, CommandStep(c)
  PROVE  \/ UNCHANGED <<keyFile, keysMade>> /\ pc'[c] # "fillKey"
         \/ /\ pc[c] = "openKey" /\ pc'[c] = "fillKey"
            /\ keyFile = Absent /\ keyFile' = Torn
            /\ UNCHANGED <<artifact, deployed, lost, topology, keysMade>>
         \/ /\ pc[c] = "fillKey" /\ pc'[c] = "readKey"
            /\ keyFile' = keysMade' /\ keysMade' \in LocalKeys
            /\ UNCHANGED <<artifact, deployed, lost, topology>>
<1>1. pc \in [Commands -> Places] /\ keysMade \in 0..MaxKeys
  BY DEF TypeOK
<1>2. CASE OpenKey(c)
  BY <1>1, <1>2 DEF OpenKey, Goto, world, axis
<1>3. CASE FillKey(c)
  BY <1>1, <1>3, BoundAssumption DEF FillKey, Goto, world, axis, LocalKeys
<1>4. End(c) => pc'[c] # "fillKey"
  BY <1>1 DEF End, Goto
<1>5. \A e : Return(c, e) => pc'[c] # "fillKey"
  BY <1>1, <1>4 DEF Return, Goto
<1>6. PrepareStep(c) => \/ OpenKey(c) \/ FillKey(c)
                        \/ UNCHANGED <<keyFile, keysMade>> /\ pc'[c] # "fillKey"
  BY <1>1, <1>4, <1>5 DEF PrepareStep, Prepare, FindKey, NoKeyYet, ReadKey, OpenState, FillState, Goto,
                          Return, Fail, store
<1>7. BuildStep(c) => UNCHANGED <<keyFile, keysMade>> /\ pc'[c] # "fillKey"
  BY <1>1, <1>4, <1>5 DEF BuildStep, BuildStable, Build, Check, Open, Fill, Compare, Goto, Return, Fail, store
<1>8. ReadStep(c) \/ Deploy(c) \/ Stop(c) => UNCHANGED <<keyFile, keysMade>> /\ pc'[c] # "fillKey"
  BY <1>1, <1>4, <1>5 DEF ReadStep, Inspect, ReadState, ReadPackage, Deploy, Stop, Goto, Return, Fail, store
<1> QED
  BY <1>2, <1>3, <1>6, <1>7, <1>8 DEF CommandStep

\* Only two steps touch an artifact, that of the version the command has built.
LEMMA ArtifactStep ==
  ASSUME TypeOK, NEW c \in Commands, CommandStep(c)
  PROVE  \/ UNCHANGED artifact
         \/ /\ pc[c] = "open" /\ pc'[c] = "fill" /\ SetFile(c, Torn)
            /\ UNCHANGED <<keyFile, deployed, lost, topology, released, stateFile>>
            /\ UNCHANGED working
         \/ /\ pc[c] = "fill" /\ SetFile(c, built[c])
            /\ UNCHANGED <<keyFile, deployed, lost, topology, stateFile>>
            /\ \/ /\ pc'[c] = "openState" /\ Development(c)
                  /\ UNCHANGED released /\ UNCHANGED working
               \/ ~Development(c) /\ Return(c, built[c])
<1>1. pc \in [Commands -> Places]
  BY DEF TypeOK
<1>2. CASE Open(c)
  BY <1>1, <1>2 DEF Open, Goto, world, axis
<1>3. CASE Fill(c)
  BY <1>1, <1>3 DEF Fill, Goto, Return, world, axis
<1>4. BuildStep(c) => Open(c) \/ Fill(c) \/ UNCHANGED artifact
  BY DEF BuildStep, BuildStable, Build, Check, Compare, Fail, store
<1>5. PrepareStep(c) \/ ReadStep(c) \/ Deploy(c) \/ Stop(c) => UNCHANGED artifact
  BY DEF PrepareStep, Prepare, FindKey, NoKeyYet, OpenKey, FillKey, ReadKey, OpenState, FillState, ReadStep,
         Inspect, ReadState, ReadPackage, Deploy, Stop, Fail, store
<1> QED
  BY <1>2, <1>3, <1>4, <1>5 DEF CommandStep

\* Only the last step of a command touches the deployment; the tree and Axis are
\* the developer's.
LEMMA DeploymentStep ==
  ASSUME NEW c \in Commands, CommandStep(c)
  PROVE  /\ UNCHANGED <<tree, axisTree>>
         /\ Deploy(c) \/ UNCHANGED <<topology, deployed, lost>>
<1>1. Deploy(c) => UNCHANGED <<tree, axisTree>>
  BY DEF Deploy
<1>2. PrepareStep(c) => UNCHANGED world
  BY DEF PrepareStep, Prepare, FindKey, NoKeyYet, OpenKey, FillKey, ReadKey, OpenState, FillState, Return, Fail
<1>3. BuildStep(c) => UNCHANGED world
  BY DEF BuildStep, BuildStable, Build, Check, Open, Fill, Compare, Return, Fail
<1>4. ReadStep(c) \/ Stop(c) => UNCHANGED world
  BY DEF ReadStep, Inspect, ReadState, ReadPackage, Stop, Return, Fail
<1> QED
  BY <1>1, <1>2, <1>3, <1>4 DEF CommandStep, world, axis

\* What a command records, and what it returns.
LEMMA RecordStep ==
  ASSUME LocalInv, NEW c \in Commands, CommandStep(c)
  PROVE  /\ \/ UNCHANGED stateFile
            \/ stateFile' = Torn
            \/ /\ pc[c] = "fillState"
               /\ stateFile' = [revision |-> built[c].revision, tree |-> built[c].tree]
         /\ \/ UNCHANGED released
            \/ /\ pc[c] \in {"fill", "compare", "fillState"}
               /\ pc[c] = "compare" => Reusable(c) /\ UNCHANGED artifact
               /\ pc[c] = "fillState" => UNCHANGED artifact
               /\ pc[c] = "fill" => SetFile(c, built[c])
               /\ released' = released \cup {built[c]}
            \/ \E e \in Envelope : /\ e = artifact[e.version]
                                   /\ UNCHANGED artifact
                                   /\ released' = released \cup {e}
<1>1. CASE PrepareStep(c)
  BY <1>1 DEF PrepareStep, Prepare, FindKey, NoKeyYet, OpenKey, FillKey, ReadKey, OpenState, FillState, Return,
              Fail, store
<1>2. CASE BuildStep(c)
  BY <1>2 DEF BuildStep, BuildStable, Build, Check, Open, Fill, Compare, Return, Fail, store
<1>3. CASE ReadPackage(c)
  BY <1>3, PackageFacts DEF Return, Fail, store
<1>4. CASE Inspect(c) \/ ReadState(c) \/ Deploy(c) \/ Stop(c)
  BY <1>4 DEF Inspect, ReadState, Deploy, Stop, Fail, store
<1> QED
  BY <1>1, <1>2, <1>3, <1>4 DEF CommandStep, ReadStep

\* A step of a command keeps the types and what is known of the places.
LEMMA StepLocal ==
  ASSUME LocalInv, SignerInv, NEW c \in Commands, CommandStep(c)
  PROVE  LocalInv'
<1>0. TypeOK /\ PhaseInv /\ BuiltInv
  BY DEF LocalInv
<1>1. keyFile' \in LocalKeys \cup {Absent, Torn} /\ keysMade' \in 0..MaxKeys
  BY <1>0, KeyStep, BoundAssumption DEF TypeOK, LocalKeys
<1>2. pc[c] \in Writing => built[c] \in Envelope
  BY <1>0 DEF BuiltInv, BuiltOf
<1>3. artifact' \in [Versions -> Envelope \cup {Absent, Torn}]
  BY <1>0, <1>2, ArtifactStep DEF TypeOK, SetFile, Writing
<1>4. stateFile' \in State \cup {Absent, Torn} /\ released' \subseteq Envelope
  BY <1>0, <1>2, RecordStep DEF TypeOK, Writing, State, Envelope
<1>5. /\ tree' \in Revisions /\ axisTree' \in Revisions
      /\ topology' \in Topologies /\ deployed' \in LocalKeys \cup {NoKey}
      /\ lost' \subseteq {"marker", "store"}
  <2>1. CASE Deploy(c)
    <3>1. command[c] = "release" => signer[c] \in LocalKeys
      BY <1>0, <2>1, WrittenFacts DEF SignerInv, Signing, Deploy
    <3> QED
      BY <1>0, <2>1, <3>1 DEF Deploy, TypeOK, Topologies
  <2> QED
    BY <1>0, <2>1, DeploymentStep DEF TypeOK
<1>6. TypeOK'
  BY <1>1, <1>3, <1>4, <1>5, StepLocals DEF TypeOK
<1>7. \A d \in Commands : PhaseOf(d)' /\ BuiltOf(d)'
  BY <1>0, StepLocals, Others DEF PhaseInv, PhaseOf, BuiltInv, BuiltOf, Development
<1> QED
  BY <1>6, <1>7 DEF LocalInv, PhaseInv, BuiltInv

-----------------------------------------------------------------------------
(***************************************************************************)
(* Making keys and signing with them.                                      *)
(***************************************************************************)
\* How a command comes to the places where it may make a key.
LEMMA PreparingStep ==
  ASSUME LocalInv, NEW c \in Commands, CommandStep(c), pc'[c] \in Preparing
  PROVE  \/ pc'[c] = "newIdentity" /\ topology = "none" /\ UNCHANGED <<store, world>>
         \/ pc[c] = "newIdentity" /\ pc'[c] = "noKey" /\ UNCHANGED <<store, world>>
         \/ pc[c] = "noKey" /\ pc'[c] = "openKey" /\ MayMakeKey /\ UNCHANGED <<store, world>>
         \/ pc[c] = "openKey" /\ pc'[c] = "fillKey"
<1>1. pc \in [Commands -> Places]
  BY DEF LocalInv, TypeOK
<1>2. End(c) => pc'[c] = "idle"
  BY EndFacts DEF LocalInv
<1>3. \A e : Return(c, e) => pc'[c] \in {"idle", "invoke"}
  BY <1>1, <1>2 DEF Return, Goto
<1> USE DEF Goto, Preparing, Making
<1>4. CASE Prepare(c) \/ FindKey(c) \/ NoKeyYet(c)
  BY <1>1, <1>2, <1>4 DEF Prepare, FindKey, NoKeyYet, Fail
<1>5. CASE OpenKey(c)
  BY <1>1, <1>5 DEF OpenKey
<1>6. FillKey(c) \/ ReadKey(c) \/ OpenState(c) \/ FillState(c) => pc'[c] \notin Preparing
  BY <1>1, <1>2, <1>3 DEF FillKey, ReadKey, OpenState, FillState, Fail
<1>7. BuildStep(c) => pc'[c] \notin Preparing
  BY <1>1, <1>2, <1>3 DEF BuildStep, BuildStable, Build, Check, Open, Fill, Compare, Fail
<1>8. ReadStep(c) \/ Deploy(c) \/ Stop(c) => pc'[c] \notin Preparing
  BY <1>1, <1>2, <1>3 DEF ReadStep, Inspect, ReadState, ReadPackage, Deploy, Stop, Fail
<1> QED
  BY <1>4, <1>5, <1>6, <1>7, <1>8 DEF CommandStep, PrepareStep

\* A command signs with the key it has just read, or goes on with the one it has.
LEMMA SigningStep ==
  ASSUME LocalInv, NEW c \in Commands, CommandStep(c), Signing(c)'
  PROVE  /\ UNCHANGED keyFile
         /\ \/ Written(keyFile) /\ signer'[c] = keyFile
            \/ Signing(c) /\ signer'[c] = signer[c]
<1>0. /\ pc \in [Commands -> Places] /\ command \in [Commands -> Kinds]
      /\ signer \in [Commands -> LocalKeys \cup {NoKey, PublisherKey}]
      /\ TypeOK /\ PhaseOf(c) /\ BuiltOf(c)
  BY DEF LocalInv, TypeOK, PhaseInv, BuiltInv
<1>1. ~End(c)
  BY <1>0, EndFacts DEF Signing
<1>2. ~Fail(c)
  BY <1>1 DEF Fail
<1>3. ASSUME Return(c, built[c]), pc[c] \in Writing, command'[c] = "release"
      PROVE  Signing(c) /\ signer'[c] = signer[c]
  <2>1. built[c] \in Envelope /\ built[c].signer = signer[c]
    BY <1>0, <1>3 DEF BuiltOf
  <2>2. pc'[c] # "idle"
    BY DEF Signing, Writing
  <2> QED
    BY <1>3, <2>1, <2>2, <1>0, ReturnFacts DEF Signing
<1> USE DEF Goto, Signing, Writing
<1>4. CASE PrepareStep(c)
  <2>1. CASE ReadKey(c)
    BY <1>0, <1>2, <2>1 DEF ReadKey, store
  <2>2. CASE OpenState(c)
    BY <1>0, <2>2 DEF OpenState, working, PhaseOf
  <2>3. CASE FillState(c)
    BY <1>0, <1>3, <2>3 DEF FillState
  <2>4. ~(Prepare(c) \/ FindKey(c) \/ NoKeyYet(c) \/ OpenKey(c) \/ FillKey(c))
    BY <1>0, <1>2 DEF Prepare, FindKey, NoKeyYet, OpenKey, FillKey
  <2> QED
    BY <1>4, <2>1, <2>2, <2>3, <2>4 DEF PrepareStep
<1>5. CASE BuildStep(c)
  <2>1. CASE Build(c) \/ Check(c) \/ Open(c)
    BY <1>0, <2>1 DEF Build, Check, Open, working, store
  <2>2. CASE Fill(c)
    BY <1>0, <1>3, <2>2 DEF Fill, working
  <2>3. CASE Compare(c)
    BY <1>0, <1>2, <1>3, <2>3 DEF Compare, working, store
  <2>4. ~BuildStable(c)
    BY <1>0 DEF BuildStable
  <2> QED
    BY <1>5, <2>1, <2>2, <2>3, <2>4 DEF BuildStep
<1>6. CASE ReadStep(c)
  <2>1. ~Inspect(c) /\ ~ReadState(c)
    BY <1>0, <1>2 DEF Inspect, ReadState
  <2>2. ~ReadPackage(c)
    <3>1. SUFFICES ASSUME NEW e \in Envelope, Return(c, e), ReadPackage(c) PROVE FALSE
      BY <1>2, PackageFacts
    <3>2. command'[c] = command[c] /\ command[c] # "release"
      BY <1>0, <3>1, ReturnFacts DEF ReadPackage, PhaseOf
    <3> QED
      BY <3>2
  <2> QED
    BY <1>6, <2>1, <2>2 DEF ReadStep
<1>7. ~Deploy(c) /\ ~Stop(c)
  BY <1>1, <1>2 DEF Deploy, Stop
<1> QED
  BY <1>4, <1>5, <1>6, <1>7 DEF CommandStep

\* The key file is filled only from the torn file of the command that fills it.
LEMMA StepKey ==
  ASSUME LocalInv, KeyInv, SnapshotsVerify, StoredInv, NEW c \in Commands, CommandStep(c)
  PROVE  KeyInv' /\ SnapshotsVerify'
<1>0. TypeOK /\ PhaseOf(c) /\ BuiltOf(c) /\ SignerInv /\ FillInv /\ MakingInv
  BY DEF LocalInv, PhaseInv, BuiltInv, KeyInv
<1>1. Written(keyFile) => UNCHANGED keyFile
  BY <1>0, KeyStep, WrittenFacts DEF FillInv
<1>2. SignerInv'
  <2> SUFFICES ASSUME NEW d \in Commands, Signing(d)'
               PROVE  Written(keyFile)' /\ signer'[d] = keyFile'
    BY DEF SignerInv
  <2>1. CASE d = c
    BY <1>0, <2>1, SigningStep DEF SignerInv, Written
  <2>2. CASE d # c
    BY <1>0, <1>1, <2>2, Others DEF SignerInv, Signing, Written
  <2> QED
    BY <2>1, <2>2
<1>3. FillInv'
  BY <1>0, KeyStep, Others, ContentAssumption DEF FillInv
<1>4. ASSUME NEW v \in Revisions, Written(artifact[v])'
      PROVE  \/ artifact'[v] = artifact[v]
             \/ Written(keyFile) /\ artifact'[v].signer = keyFile
  <2>1. CASE UNCHANGED artifact
    BY <2>1
  <2>2. CASE SetFile(c, Torn)
    BY <1>0, <1>4, <2>2 DEF SetFile, Written, TypeOK
  <2>3. CASE pc[c] = "fill" /\ SetFile(c, built[c])
    <3>1. CASE v = built[c].version
      <4>1. command[c] = "release" /\ built[c].signer = signer[c]
        BY <1>0, <2>3, <3>1, StableAssumption DEF BuiltOf, Development, Writing
      <4>2. Written(keyFile) /\ signer[c] = keyFile
        BY <1>0, <2>3, <4>1 DEF SignerInv, Signing, Writing
      <4>3. artifact'[v] = built[c]
        BY <1>0, <2>3, <3>1 DEF SetFile, TypeOK, Versions
      <4> QED
        BY <4>1, <4>2, <4>3
    <3>2. CASE v # built[c].version
      BY <1>0, <2>3, <3>2 DEF SetFile, TypeOK, Versions
    <3> QED
      BY <3>1, <3>2
  <2> QED
    BY <1>0, <2>1, <2>2, <2>3, ArtifactStep
<1>5. ~Written(keyFile) => UNCHANGED <<deployed, lost>>
  <2>1. Deploy(c) /\ command[c] = "release" => Written(keyFile)
    BY <1>0 DEF Deploy, SignerInv, Signing
  <2> QED
    BY <2>1, DeploymentStep DEF Deploy
<1>6. MakingInv'
  <2> SUFFICES ASSUME NEW d \in Commands, pc'[d] \in Making, ~Written(keyFile)'
               PROVE  /\ \A v \in Revisions : ~Written(artifact[v])'
                      /\ deployed' # NoKey => "store" \in lost'
    BY DEF MakingInv
  <2>1. ~Written(keyFile)
    BY <1>1
  <2>2. /\ \A v \in Revisions : ~Written(artifact[v])
        /\ deployed # NoKey => "store" \in lost
    <3>1. CASE pc[d] \in Making
      BY <1>0, <2>1, <3>1 DEF MakingInv
    <3>2. CASE pc[d] \notin Making
      <4>1. d = c
        BY <1>0, <3>2, Others
      <4>2. MayMakeKey
        BY <3>2, <4>1, PreparingStep DEF Making, Preparing
      <4> QED
        BY <4>2 DEF MayMakeKey, StoredInv, Written, Versions
    <3> QED
      BY <3>1, <3>2
  <2> QED
    BY <1>4, <1>5, <2>1, <2>2 DEF Written
<1>7. SnapshotsVerify'
  <2> SUFFICES ASSUME Written(keyFile)', NEW v \in Revisions, Written(artifact[v])'
               PROVE  artifact'[v].signer = keyFile'
    BY DEF SnapshotsVerify
  <2>1. CASE Written(keyFile)
    BY <1>1, <1>4, <2>1 DEF SnapshotsVerify, Written
  <2>2. CASE ~Written(keyFile)
    <3>1. pc[c] = "fillKey" /\ UNCHANGED artifact
      BY <1>0, <2>2, KeyStep, WrittenFacts DEF Written
    <3> QED
      BY <1>0, <2>2, <3>1 DEF MakingInv, Making, Written
  <2> QED
    BY <2>1, <2>2
<1> QED
  BY <1>2, <1>3, <1>6, <1>7 DEF KeyInv

-----------------------------------------------------------------------------
(***************************************************************************)
(* Keeping the identity of a deployment.                                   *)
(***************************************************************************)
\* An artifact that is there stays there, or is truncated or written anew.
LEMMA ArtifactsStay ==
  ASSUME LocalInv, NEW c \in Commands, CommandStep(c), ~MayMakeKey
  PROVE  ~MayMakeKey'
<1>0. TypeOK /\ BuiltOf(c)
  BY DEF LocalInv, BuiltInv
<1>1. PICK v \in Versions : artifact[v] # Absent
  BY DEF MayMakeKey
<1>2. pc[c] = "fill" => built[c] # Absent
  BY <1>0, ContentAssumption DEF BuiltOf, Writing
<1>3. artifact'[v] # Absent
  BY <1>0, <1>1, <1>2, ArtifactStep, ContentAssumption DEF SetFile, TypeOK
<1> QED
  BY <1>3 DEF MayMakeKey

\* A release that has come to its artifact has left one in the store.
LEMMA Leaving ==
  ASSUME LocalInv, StoredInv, NEW c \in Commands, CommandStep(c), command'[c] = "release",
         pc'[c] \in {"fill", "compare", "openState", "fillState", "invoke"}
  PROVE  ~MayMakeKey'
<1>0. /\ pc \in [Commands -> Places] /\ command \in [Commands -> Kinds]
      /\ artifact \in [Versions -> Envelope \cup {Absent, Torn}]
      /\ TypeOK /\ PhaseOf(c) /\ BuiltOf(c)
  BY DEF LocalInv, TypeOK, PhaseInv, BuiltInv
<1>1. ~Fail(c) /\ ~End(c)
  BY <1>0, EndFacts DEF Fail
<1>2. \A e \in Envelope : Return(c, e) => command[c] = "release"
  BY <1>0, <1>1, ReturnFacts
<1> DEFINE Far == {"fill", "compare", "openState", "fillState", "invoke"}
<1>3. CASE command[c] = "release" /\ pc[c] \in Far
  <2>1. ~MayMakeKey
    BY <1>3 DEF StoredInv
  <2> QED
    BY <2>1, ArtifactsStay
<1> USE DEF Goto
<1>4. CASE Open(c)
  <2>1. built[c].version \in Versions
    BY <1>0, <1>4 DEF Open, BuiltOf, Writing, Envelope
  <2>2. artifact'[built[c].version] = Torn
    BY <1>0, <1>4, <2>1 DEF Open, SetFile
  <2> QED
    BY <2>1, <2>2, ContentAssumption DEF MayMakeKey
<1>5. CASE Check(c)
  <2>1. built[c].version \in Versions /\ File(c) # Absent /\ UNCHANGED artifact
    BY <1>0, <1>5 DEF Check, BuiltOf, Writing, Envelope, store
  <2> QED
    BY <2>1 DEF MayMakeKey, File
<1>6. CASE PrepareStep(c)
  <2>1. OpenState(c) \/ FillState(c)
    BY <1>0, <1>1, <1>6 DEF PrepareStep, Prepare, FindKey, NoKeyYet, OpenKey, FillKey, ReadKey
  <2> QED
    BY <1>0, <1>3, <2>1 DEF OpenState, FillState, PhaseOf
<1>7. CASE BuildStep(c)
  <2>1. Check(c) \/ Open(c) \/ Fill(c) \/ Compare(c)
    BY <1>0, <1>1, <1>7 DEF BuildStep, BuildStable, Build
  <2>2. built[c] \in Envelope \/ Check(c) \/ Open(c)
    BY <1>0, <2>1 DEF Fill, Compare, BuiltOf, Writing
  <2>3. CASE Fill(c) \/ Compare(c)
    <3>1. command[c] = "release"
      BY <1>0, <1>1, <1>2, <2>2, <2>3 DEF Fill, Compare, Development, Check, Open
    <3> QED
      BY <1>3, <2>3, <3>1 DEF Fill, Compare
  <2> QED
    BY <1>4, <1>5, <2>1, <2>3
<1>8. CASE ReadStep(c)
  <2>1. ReadPackage(c)
    BY <1>0, <1>1, <1>8 DEF ReadStep, Inspect, ReadState
  <2>2. command[c] = "release"
    BY <1>1, <1>2, <2>1, PackageFacts
  <2> QED
    BY <1>0, <2>1, <2>2 DEF ReadPackage, PhaseOf
<1>9. ~Deploy(c) /\ ~Stop(c)
  BY <1>1 DEF Deploy, Stop
<1> QED
  BY <1>6, <1>7, <1>8, <1>9 DEF CommandStep

LEMMA StepDeployed ==
  ASSUME Inv, NEW c \in Commands, CommandStep(c)
  PROVE  DeployedInv'
<1>0. /\ LocalInv /\ TypeOK /\ PhaseOf(c) /\ BuiltOf(c)
      /\ SignerInv /\ FillInv /\ MakingInv /\ MarkerInv /\ StoredInv /\ IdentityInv
  BY DEF Inv, LocalInv, PhaseInv, BuiltInv, KeyInv, DeployedInv
<1>1. Written(keyFile) => UNCHANGED keyFile
  BY <1>0, KeyStep, WrittenFacts DEF FillInv
<1>2. \/ UNCHANGED <<topology, deployed, lost>>
      \/ Deploy(c) /\ command[c] # "release" /\ UNCHANGED <<deployed, lost>> /\ topology' = "own"
      \/ /\ Deploy(c) /\ command[c] = "release" /\ UNCHANGED store
         /\ topology' = "own" /\ deployed' = keyFile /\ lost' = {}
         /\ Written(keyFile) /\ pc[c] = "invoke"
  <2>1. Deploy(c) /\ command[c] = "release" => Written(keyFile) /\ signer[c] = keyFile
    BY <1>0 DEF Deploy, SignerInv, Signing
  <2> QED
    BY <2>1, DeploymentStep DEF Deploy
<1>3. MarkerInv'
  <2>1. (deployed # NoKey /\ "marker" \notin lost => topology = "own")'
    BY <1>0, <1>2 DEF MarkerInv
  <2>2. ASSUME NEW d \in Commands, pc'[d] \in Preparing, ~Written(keyFile)', deployed' # NoKey
        PROVE  "marker" \in lost'
    <3>1. ~Written(keyFile) /\ UNCHANGED <<deployed, lost>>
      BY <1>1, <1>2, <2>2 DEF Written
    <3>2. CASE pc[d] \in Preparing
      BY <1>0, <2>2, <3>1, <3>2 DEF MarkerInv
    <3>3. CASE pc[d] \notin Preparing
      <4>1. d = c
        BY <1>0, <2>2, <3>3, Others
      <4>2. topology = "none"
        BY <1>0, <2>2, <3>3, <4>1, PreparingStep DEF Preparing, Making
      <4> QED
        BY <1>0, <2>2, <3>1, <4>2 DEF MarkerInv
    <3> QED
      BY <3>2, <3>3
  <2> QED
    BY <2>1, <2>2 DEF MarkerInv
<1>4. StoredInv'
  <2>1. (deployed # NoKey /\ "store" \notin lost => ~MayMakeKey)'
    <3>1. CASE UNCHANGED <<deployed, lost>>
      BY <1>0, <3>1, ArtifactsStay DEF StoredInv
    <3>2. CASE command[c] = "release" /\ pc[c] = "invoke"
      BY <1>0, <3>2, ArtifactsStay DEF StoredInv
    <3> QED
      BY <1>2, <3>1, <3>2
  <2>2. ASSUME NEW d \in Commands, command'[d] = "release",
               pc'[d] \in {"fill", "compare", "openState", "fillState", "invoke"}
        PROVE  ~MayMakeKey'
    <3>1. CASE d = c
      BY <1>0, <2>2, <3>1, Leaving
    <3>2. CASE d # c
      BY <1>0, <2>2, <3>2, Others, ArtifactsStay DEF StoredInv
    <3> QED
      BY <3>1, <3>2
  <2> QED
    BY <2>1, <2>2 DEF StoredInv
<1>5. IdentityInv'
  <2> SUFFICES ASSUME deployed' # NoKey, Written(keyFile)'
               PROVE  keyFile' = deployed' \/ lost' = {"marker", "store"}
    BY DEF IdentityInv
  <2>1. CASE Written(keyFile)
    BY <1>0, <1>1, <1>2, <2>1 DEF IdentityInv, store
  <2>2. CASE ~Written(keyFile)
    <3>1. pc[c] = "fillKey" /\ UNCHANGED <<deployed, lost>>
      BY <1>0, <2>2, KeyStep, WrittenFacts DEF Written
    <3>2. "store" \in lost /\ "marker" \in lost
      BY <1>0, <2>2, <3>1 DEF MakingInv, MarkerInv, Making, Preparing
    <3> QED
      BY <1>0, <3>1, <3>2 DEF TypeOK
  <2> QED
    BY <2>1, <2>2
<1> QED
  BY <1>3, <1>4, <1>5 DEF DeployedInv

-----------------------------------------------------------------------------
(***************************************************************************)
(* What is done to the store and the deployment from outside.              *)
(***************************************************************************)
LEMMA WorldLocal == LocalInv /\ WorldStep => LocalInv'
<1> SUFFICES ASSUME LocalInv, WorldStep PROVE LocalInv'
  OBVIOUS
<1>1. UNCHANGED <<pc, working>>
  BY DEF WorldStep, Checkout, LoseKey, LoseStore, RestoreKey, LoseMarker, Reset, AxisChanges
<1>2. PhaseInv' /\ BuiltInv'
  BY <1>1 DEF LocalInv, working, PhaseInv, PhaseOf, BuiltInv, BuiltOf, Development
<1>3. TypeOK'
  <2>0. TypeOK
    BY DEF LocalInv
  <2>1. CASE Checkout \/ LoseKey \/ AxisChanges
    BY <2>0, <2>1 DEF Checkout, LoseKey, AxisChanges, TypeOK, store, working, axis, world
  <2>2. CASE LoseStore
    BY <2>0, <2>2 DEF LoseStore, TypeOK, working
  <2>3. CASE RestoreKey \/ LoseMarker \/ Reset
    BY <2>0, <2>3 DEF RestoreKey, LoseMarker, Reset, TypeOK, Topologies, store, working, axis, world
  <2> QED
    BY <2>1, <2>2, <2>3 DEF WorldStep
<1> QED
  BY <1>2, <1>3 DEF LocalInv

LEMMA WorldKeeps == Inv /\ WorldStep => KeyInv' /\ SnapshotsVerify' /\ DeployedInv'
<1> SUFFICES ASSUME Inv, WorldStep PROVE KeyInv' /\ SnapshotsVerify' /\ DeployedInv'
  OBVIOUS
<1> USE DEF KeyInv, DeployedInv, SignerInv, Signing, FillInv, MakingInv, MarkerInv, StoredInv,
            IdentityInv, SnapshotsVerify, Written, MayMakeKey
<1>0. TypeOK /\ KeyInv /\ DeployedInv /\ SnapshotsVerify
  BY DEF Inv, LocalInv
<1>1. CASE Checkout \/ AxisChanges
  BY <1>0, <1>1 DEF Checkout, AxisChanges, store, working, axis
<1>2. CASE LoseKey
  <2>1. \A c \in Commands : pc'[c] = "idle"
    BY <1>2 DEF LoseKey, Quiet
  <2> QED
    BY <1>0, <1>2, <2>1 DEF LoseKey, working, world, axis, Making, Preparing, Writing
<1>3. CASE LoseStore
  <2>1. \A c \in Commands : pc'[c] = "idle"
    BY <1>3 DEF LoseStore, Quiet
  <2>2. keyFile' = Absent /\ \A v \in Versions : artifact'[v] = Absent
    BY <1>3 DEF LoseStore
  <2>3. /\ UNCHANGED <<topology, deployed>>
        /\ deployed # NoKey => lost' = lost \cup {"store"}
    BY <1>3 DEF LoseStore
  <2>4. Revisions \subseteq Versions
    BY DEF Versions
  <2> QED
    BY <1>0, <2>1, <2>2, <2>3, <2>4 DEF Making, Preparing, Writing
<1>4. CASE RestoreKey
  <2>1. keyFile' = deployed /\ deployed \in LocalKeys /\ keyFile = Absent
    BY <1>0, <1>4 DEF RestoreKey, TypeOK
  <2>2. deployed \notin {Absent, Torn}
    BY <2>1, ContentAssumption
  <2> QED
    BY <1>0, <1>4, <2>1, <2>2, ContentAssumption DEF RestoreKey, working, world, axis
<1>5. CASE LoseMarker
  BY <1>0, <1>5 DEF LoseMarker, store, working
<1>6. CASE Reset
  BY <1>0, <1>6 DEF Reset, store, working
<1> QED
  BY <1>1, <1>2, <1>3, <1>4, <1>5, <1>6 DEF WorldStep

-----------------------------------------------------------------------------
(***************************************************************************)
(* Inv is inductive.                                                       *)
(***************************************************************************)
LEMMA NextInv == Inv /\ [Next]_vars => Inv'
<1> SUFFICES ASSUME Inv, [Next]_vars PROVE Inv'
  OBVIOUS
<1>1. ASSUME NEW c \in Commands, CommandStep(c) PROVE Inv'
  BY <1>1, StepLocal, StepKey, StepDeployed DEF Inv, KeyInv, DeployedInv
<1>2. CASE WorldStep
  BY <1>2, WorldLocal, WorldKeeps DEF Inv
<1>3. CASE UNCHANGED vars
  BY <1>3 DEF vars, store, world, axis, working, Inv, LocalInv, TypeOK, PhaseInv, PhaseOf, BuiltInv, BuiltOf, Development,
              KeyInv, DeployedInv, SignerInv, Signing, FillInv, MakingInv, MarkerInv, StoredInv, IdentityInv,
              SnapshotsVerify, Written, MayMakeKey
<1> QED
  BY <1>1, <1>2, <1>3 DEF Next, CommandStep, WorldStep

LEMMA InitInv == Init => Inv
<1> SUFFICES ASSUME Init PROVE Inv
  OBVIOUS
<1>1. KeyInv /\ SnapshotsVerify /\ DeployedInv
  BY DEF Init, KeyInv, DeployedInv, SignerInv, Signing, FillInv, MakingInv, MarkerInv, StoredInv, IdentityInv,
         SnapshotsVerify, Written, Making, Preparing, Writing
<1> QED
  BY <1>1, InitLocal DEF Inv

THEOREM Inductive == Spec => []Inv
  BY InitInv, NextInv, PTL DEF Spec

\* SnapshotsVerify: prepareSolutionRelease never gives the store a second signing
\* key while it has snapshots, however many commands run at once.
THEOREM OneIdentity == Spec => []SnapshotsVerify
<1>1. Inv => SnapshotsVerify
  BY DEF Inv
<1> QED
  BY <1>1, Inductive, PTL

\* IdentityKept: a deployment keeps its publisher's key unless the store and the
\* marker of the deployment were both lost.
THEOREM DeploymentKeepsIdentity == Spec => IdentityKept
<1>1. Inv /\ [Next]_vars =>
        [deployed # NoKey /\ deployed' \notin {NoKey, deployed} => lost = {"marker", "store"}]_vars
  <2> SUFFICES ASSUME Inv, Next, deployed # NoKey, deployed' \notin {NoKey, deployed}
               PROVE  lost = {"marker", "store"}
    OBVIOUS
  <2>1. ~WorldStep
    BY DEF WorldStep, Checkout, LoseKey, LoseStore, RestoreKey, LoseMarker, Reset, AxisChanges, world, axis
  <2>2. PICK c \in Commands : CommandStep(c)
    BY <2>1 DEF Next, CommandStep, WorldStep
  <2>3. Deploy(c) /\ command[c] = "release" /\ deployed' = signer[c]
    BY <2>2, DeploymentStep DEF Deploy
  <2>4. Written(keyFile) /\ signer[c] = keyFile
    BY <2>3 DEF Deploy, Inv, KeyInv, SignerInv, Signing
  <2> QED
    BY <2>3, <2>4 DEF Inv, DeployedInv, IdentityInv
<1> QED
  BY <1>1, Inductive, PTL DEF Spec, IdentityKept

-----------------------------------------------------------------------------
(***************************************************************************)
(* One command at a time.  SerialInv is what the artifact of the command   *)
(* that runs is known to be, and what that keeps.                          *)
(***************************************************************************)
Alone == \A c, d \in Commands : pc[c] # "idle" /\ pc[d] # "idle" => c = d

\* Only a file that was missing is truncated, and only a torn one is written.
FileOf(c) ==
  /\ pc[c] = "open" => File(c) = Absent
  /\ pc[c] = "fill" => File(c) = Torn
  /\ pc[c] \in {"openState", "fillState"} => File(c) = built[c]

SerialInv ==
  mode = "serial" =>
    Alone /\ (\A c \in Commands : FileOf(c)) /\ ReleasedStays /\ StateNamesSnapshot

\* What the command that runs knows of its artifact.
LEMMA FileStep ==
  ASSUME LocalInv, NEW c \in Commands, FileOf(c), CommandStep(c)
  PROVE  FileOf(c)'
<1>0. /\ pc \in [Commands -> Places]
      /\ artifact \in [Versions -> Envelope \cup {Absent, Torn}]
      /\ TypeOK /\ BuiltOf(c)
  BY DEF LocalInv, TypeOK, BuiltInv
<1>1. End(c) => pc'[c] = "idle"
  BY <1>0, EndFacts
<1>2. \A e : Return(c, e) => pc'[c] \in {"idle", "invoke"}
  BY <1>0, <1>1 DEF Return, Goto
<1>3. pc[c] \in Writing => built[c].version \in Versions
  BY <1>0 DEF BuiltOf, Envelope
<1> USE DEF Goto, File, SetFile, Writing
<1>4. CASE PrepareStep(c)
  <2>1. CASE OpenState(c)
    BY <1>0, <2>1 DEF OpenState, FileOf, working
  <2>2. ~OpenState(c) => pc'[c] \notin {"open", "fill", "openState", "fillState"}
    BY <1>0, <1>1, <1>2, <1>4 DEF PrepareStep, Prepare, FindKey, NoKeyYet, OpenKey, FillKey, ReadKey, FillState, Fail
  <2> QED
    BY <2>1, <2>2 DEF FileOf
<1>5. CASE Check(c)
  BY <1>0, <1>3, <1>5 DEF Check, FileOf, working, store
<1>6. CASE Open(c)
  BY <1>0, <1>3, <1>6 DEF Open, FileOf, working
<1>7. CASE Fill(c)
  BY <1>0, <1>2, <1>3, <1>7 DEF Fill, FileOf, working
<1>8. CASE Compare(c)
  BY <1>0, <1>1, <1>2, <1>3, <1>8 DEF Compare, Reusable, Fail, FileOf, working, store
<1>9. CASE BuildStable(c) \/ Build(c)
  BY <1>0, <1>9 DEF BuildStable, Build, FileOf
<1>10. CASE ReadStep(c) \/ Deploy(c) \/ Stop(c)
  BY <1>0, <1>1, <1>2, <1>10 DEF ReadStep, Inspect, ReadState, ReadPackage, Deploy, Stop, Fail, FileOf
<1> QED
  BY <1>4, <1>5, <1>6, <1>7, <1>8, <1>9, <1>10 DEF CommandStep, BuildStep

\* A command that finds its file missing, and then torn, overwrites nothing.
LEMMA NothingOverwritten ==
  ASSUME LocalInv, NEW c \in Commands, FileOf(c), CommandStep(c),
         NEW v \in Versions, Written(artifact[v])
  PROVE  artifact'[v] = artifact[v]
<1>0. TypeOK
  BY DEF LocalInv
<1>1. pc[c] \in {"open", "fill"} => ~Written(File(c))
  BY <1>0, WrittenFacts DEF FileOf
<1> QED
  BY <1>0, <1>1, ArtifactStep DEF File, SetFile, TypeOK

LEMMA SerialStep ==
  ASSUME LocalInv, LocalInv', Alone, \A c \in Commands : FileOf(c), ReleasedStays, StateNamesSnapshot,
         NEW c \in Commands, CommandStep(c)
  PROVE  (\A d \in Commands : FileOf(d)') /\ ReleasedStays' /\ StateNamesSnapshot'
<1>0. /\ TypeOK /\ TypeOK' /\ BuiltOf(c) /\ FileOf(c) /\ PhaseOf(c)
      /\ artifact \in [Versions -> Envelope \cup {Absent, Torn}]
      /\ released \subseteq Envelope
  BY DEF LocalInv, TypeOK, BuiltInv, PhaseInv
<1>1. ASSUME NEW d \in Commands PROVE FileOf(d)'
  <2>1. CASE d = c
    BY <1>0, <2>1, FileStep
  <2>2. CASE d # c /\ pc[d] = "idle"
    BY <1>0, <2>2, Others DEF FileOf
  <2>3. CASE d # c /\ pc[d] # "idle"
    <3>1. pc[c] = "idle"
      BY <2>3 DEF Alone
    <3>2. UNCHANGED artifact
      BY <1>0, <3>1, ArtifactStep
    <3> QED
      BY <1>0, <2>3, <3>2, Others DEF FileOf, File
  <2> QED
    BY <2>1, <2>2, <2>3
<1>2. \A e \in Envelope : e.version \in Versions /\ Written(e)
  BY ContentAssumption DEF Envelope, Written
<1>3. ReleasedStays'
  <2>1. ASSUME NEW e \in released PROVE artifact'[e.version] = e
    <3>1. e \in Envelope /\ artifact[e.version] = e
      BY <1>0 DEF ReleasedStays
    <3> QED
      BY <1>0, <1>2, <3>1, NothingOverwritten
  <2>2. ASSUME pc[c] \in {"fill", "compare", "fillState"},
               pc[c] = "compare" => Reusable(c) /\ UNCHANGED artifact,
               pc[c] = "fillState" => UNCHANGED artifact,
               pc[c] = "fill" => SetFile(c, built[c])
        PROVE  artifact'[built[c].version] = built[c]
    <3>1. built[c].version \in Versions
      BY <1>0, <2>2 DEF BuiltOf, Writing, Envelope
    <3> QED
      BY <1>0, <2>2, <3>1 DEF FileOf, File, Reusable, SetFile
  <2>3. ASSUME NEW e \in Envelope, e = artifact[e.version], UNCHANGED artifact
        PROVE  artifact'[e.version] = e
    BY <2>3
  <2> QED
    BY <2>1, <2>2, <2>3, RecordStep DEF ReleasedStays
<1>4. StateNamesSnapshot'
  <2> SUFFICES ASSUME Written(stateFile)'
               PROVE  LET e == artifact'[stateFile'.revision]
                      IN  Written(e) /\ e.revision = stateFile'.revision /\ e.tree = stateFile'.tree
    BY DEF StateNamesSnapshot, Written
  <2>1. CASE UNCHANGED stateFile
    <3>1. Written(stateFile) /\ stateFile \in State
      BY <1>0, <2>1, WrittenFacts DEF Written
    <3>2. stateFile.revision \in Versions
      BY <3>1 DEF State, Versions
    <3>3. /\ Written(artifact[stateFile.revision])
          /\ artifact[stateFile.revision].revision = stateFile.revision
          /\ artifact[stateFile.revision].tree = stateFile.tree
      BY <3>1 DEF StateNamesSnapshot
    <3>4. artifact'[stateFile.revision] = artifact[stateFile.revision]
      BY <1>0, <3>2, <3>3, NothingOverwritten
    <3> QED
      BY <2>1, <3>3, <3>4
  <2>2. CASE /\ pc[c] = "fillState"
             /\ stateFile' = [revision |-> built[c].revision, tree |-> built[c].tree]
    <3>1. /\ built[c] \in Envelope
          /\ built[c].version = built[c].revision
          /\ artifact[built[c].version] = built[c]
      BY <1>0, <2>2 DEF BuiltOf, PhaseOf, FileOf, File, Development, Writing
    <3>2. UNCHANGED artifact
      BY <1>0, <2>2, ArtifactStep
    <3> QED
      BY <1>2, <2>2, <3>1, <3>2
  <2> QED
    BY <1>0, <2>1, <2>2, RecordStep, WrittenFacts DEF Written
<1> QED
  BY <1>1, <1>3, <1>4

LEMMA SerialWorld ==
  ASSUME \A c \in Commands : FileOf(c), ReleasedStays, StateNamesSnapshot, WorldStep
  PROVE  (\A c \in Commands : FileOf(c)') /\ ReleasedStays' /\ StateNamesSnapshot'
<1>1. CASE LoseStore
  <2>1. \A c \in Commands : pc'[c] = "idle"
    BY <1>1 DEF LoseStore, Quiet
  <2> QED
    BY <1>1, <2>1 DEF LoseStore, FileOf, ReleasedStays, StateNamesSnapshot, Written
<1>2. CASE UNCHANGED <<artifact, stateFile, released, pc, built>>
  BY <1>2 DEF FileOf, File, ReleasedStays, StateNamesSnapshot, Written
<1>3. LoseStore \/ UNCHANGED <<artifact, stateFile, released, pc, built>>
  BY DEF WorldStep, Checkout, LoseKey, RestoreKey, LoseMarker, Reset, AxisChanges, store, working
<1> QED
  BY <1>1, <1>2, <1>3

THEOREM SerialInductive == MCSpec => [](Inv /\ SerialInv)
<1>1. MCInit => Inv /\ SerialInv
  <2>1. Init => Alone /\ (\A c \in Commands : FileOf(c)) /\ ReleasedStays /\ StateNamesSnapshot
    BY DEF Init, Alone, FileOf, ReleasedStays, StateNamesSnapshot, Written
  <2> QED
    BY <2>1, InitInv DEF MCInit, SerialInv
<1>2. Inv /\ SerialInv /\ [MCNext]_<<vars, mode>> => (Inv /\ SerialInv)'
  <2> SUFFICES ASSUME Inv, SerialInv, [MCNext]_<<vars, mode>> PROVE Inv' /\ SerialInv'
    OBVIOUS
  <2>1. Inv'
    BY NextInv DEF MCNext
  <2>2. SerialInv'
    <3> SUFFICES ASSUME mode' = "serial"
                 PROVE  Alone' /\ (\A c \in Commands : FileOf(c)') /\ ReleasedStays' /\ StateNamesSnapshot'
      BY DEF SerialInv
    <3>1. mode = "serial"
      BY DEF MCNext
    <3>2. Alone /\ (\A c \in Commands : FileOf(c)) /\ ReleasedStays /\ StateNamesSnapshot
      BY <3>1 DEF SerialInv
    <3>3. CASE MCNext
      <4>1. Next /\ Alone'
        BY <3>1, <3>3 DEF MCNext, Concurrent, Serial, Alone
      <4> QED
        BY <2>1, <3>2, <4>1, SerialStep, SerialWorld DEF Next, CommandStep, WorldStep, Inv
    <3>4. CASE UNCHANGED <<vars, mode>>
      BY <3>2, <3>4 DEF vars, store, working, Alone, FileOf, File, ReleasedStays, StateNamesSnapshot, Written
    <3> QED
      BY <3>3, <3>4
  <2> QED
    BY <2>1, <2>2
<1> QED
  BY <1>1, <1>2, PTL DEF MCSpec

\* SerialReleasedStays: as long as commands take turns, writeImmutableSolutionArtifact
\* leaves every envelope that was returned as it was.
THEOREM ReleasesStay == MCSpec => []SerialReleasedStays
<1>1. SerialInv => SerialReleasedStays
  BY DEF SerialInv, SerialReleasedStays
<1> QED
  BY <1>1, SerialInductive, PTL

\* SerialStateNamesSnapshot: as long as commands take turns, the recorded state is
\* that of a snapshot in the store, wherever one stopped.
THEOREM StateIsOfSnapshot == MCSpec => []SerialStateNamesSnapshot
<1>1. SerialInv => SerialStateNamesSnapshot
  BY DEF SerialInv, SerialStateNamesSnapshot
<1> QED
  BY <1>1, SerialInductive, PTL

=============================================================================
