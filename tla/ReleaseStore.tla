---------------------------- MODULE ReleaseStore ----------------------------
(***************************************************************************)
(* The release store: the directory .axis-solution, in which the local     *)
(* development commands (scripts/local-dev.mjs) and the release build      *)
(* (scripts/build-solution.mjs) keep the signing key, one immutable        *)
(* artifact per solution version, and the state of local development.      *)
(*                                                                         *)
(* Commands are operating-system processes that may run at once and stop   *)
(* anywhere.  A file that is opened for writing is torn until its bytes    *)
(* are written.  The working tree is checked out at one revision at a      *)
(* time; a payload is the revision it names and the tree it was read from, *)
(* and no two revisions have the same openapi.json.                        *)
(*                                                                         *)
(* A development command ends by running Axis's own script, which deploys  *)
(* the product with its publisher's key and records the topology, that is, *)
(* whose compose overlays the local deployment of Axis was made from.      *)
(***************************************************************************)
EXTENDS Integers

CONSTANTS
  Commands,      \* processes
  Revisions,     \* source revisions
  Stable,        \* the version in solution/release.json
  PublisherKey,  \* the key of AXIS_SOLUTION_SIGNING_KEY_FILE
  Absent,        \* the content of a file that does not exist
  Torn,          \* the content of a file that was opened and not written
  MaxKeys        \* bound: generated keys

ASSUME StableAssumption == Stable \notin Revisions
ASSUME BoundAssumption == MaxKeys \in Nat

VARIABLES
  keyFile,    \* release-key.pem
  artifact,   \* the .dsse.json file of each version
  stateFile,  \* local-development.json
  tree,       \* the revision that is checked out
  keysMade,   \* how many keys were generated
  pc,         \* where each command is
  command,    \* what each command was called as
  revision,   \* the source revision each command works for
  signer,     \* the key each command has read
  built,      \* the envelope each command has built, or the state it has read
  released,   \* history: the envelopes that commands have returned
  topology,   \* local-dev-topology.json of Axis: whose overlays it records
  deployed,   \* the publisher's key of the product in the local deployment
  axisTree,   \* the revision whose openapi.json is that of Axis
  lost        \* history: what was lost since a release was last deployed

store == <<keyFile, artifact, stateFile>>
working == <<command, revision, signer, built>>
axis == <<topology, deployed, axisTree, lost>>
\* What the steps of a command leave alone, the last one excepted.
world == <<tree, axis>>
vars == <<store, world, keysMade, pc, working, released>>

-----------------------------------------------------------------------------
LocalKeys == 1..MaxKeys
NoKey == 0

\* developmentSolutionVersion: a snapshot's version is derived from its revision.
Versions == Revisions \cup {Stable}
Envelope == [version : Versions, revision : Revisions, tree : Revisions,
             signer : LocalKeys \cup {PublisherKey}]
State == [revision : Revisions, tree : Revisions]

\* A file that is missing or torn is told from every content.
ASSUME ContentAssumption ==
  Absent # Torn /\ {Absent, Torn} \cap (LocalKeys \cup Envelope \cup State) = {}

NoBuild == [version |-> Stable]
NoRevision == Stable

Topologies == {"none", "own", "other"}
Places == {"idle", "newIdentity", "oldIdentity", "noKey", "openKey", "fillKey", "readKey", "build", "check", "open",
           "fill", "compare", "openState", "fillState", "readState", "readPackage", "invoke"}

\* "release" stands for up, recreate, reset-all and e2e, "passive" for down, status
\* and logs, "publish" for build:solution.
Kinds == {"none", "release", "publish", "passive", "axis-e2e", "recover-topology"}

Written(content) == content \notin {Absent, Torn}
Goto(c, place) == pc' = [pc EXCEPT ![c] = place]

Init ==
  /\ keyFile = Absent
  /\ artifact = [v \in Versions |-> Absent]
  /\ stateFile = Absent
  /\ tree \in Revisions
  /\ keysMade = 0
  /\ pc = [c \in Commands |-> "idle"]
  /\ command = [c \in Commands |-> "none"]
  /\ revision = [c \in Commands |-> NoRevision]
  /\ signer = [c \in Commands |-> NoKey]
  /\ built = [c \in Commands |-> NoBuild]
  /\ released = {}
  /\ topology = "none"
  /\ deployed = NoKey
  /\ axisTree \in Revisions
  /\ lost = {}

\* The command ends: it throws, is killed, or is done.
End(c) ==
  /\ Goto(c, "idle")
  /\ command' = [command EXCEPT ![c] = "none"]
  /\ revision' = [revision EXCEPT ![c] = NoRevision]
  /\ signer' = [signer EXCEPT ![c] = NoKey]
  /\ built' = [built EXCEPT ![c] = NoBuild]

Fail(c) == End(c) /\ UNCHANGED <<store, world, keysMade, released>>

\* The environment of Axis's script is complete, with e for its package.  What the
\* script does for a passive command and for axis-e2e changes nothing here.
Return(c, e) ==
  /\ released' = released \cup {e}
  /\ IF command[c] \in {"release", "recover-topology"}
       THEN /\ Goto(c, "invoke")
            /\ signer' = [signer EXCEPT ![c] = e.signer]
            /\ built' = [built EXCEPT ![c] = NoBuild]
            /\ revision' = [revision EXCEPT ![c] = NoRevision]
            /\ UNCHANGED command
       ELSE End(c)
  /\ UNCHANGED <<world, keysMade>>

\* The wrapper does not touch a deployment that is recorded as another's.
OursOrNone == topology # "other"

\* Axis's script has deployed and records the topology as ours.  A release command
\* installs the package with its key; a recovery installs none.
Deploy(c) ==
  /\ pc[c] = "invoke"
  /\ OursOrNone
  /\ topology' = "own"
  /\ IF command[c] = "release"
       THEN deployed' = signer[c] /\ lost' = {}
       ELSE UNCHANGED <<deployed, lost>>
  /\ End(c)
  /\ UNCHANGED <<store, tree, axisTree, keysMade, released>>

-----------------------------------------------------------------------------
(***************************************************************************)
(* up, recreate, reset-all, e2e: prepareSolutionRelease.                   *)
(***************************************************************************)
\* assertAxisOpenApiCompatibility: the product's openapi.json is that of Axis.
Compatible == tree = axisTree

\* resolveSourceRevision: the revision is HEAD, with its inputs committed.
Head == tree

\* Mutant: the release is prepared alike whether a deployment is recorded or not.
PrepareAlike(c) ==
  /\ pc[c] = "idle"
  /\ Compatible
  /\ OursOrNone
  /\ command' = [command EXCEPT ![c] = "release"]
  /\ revision' = [revision EXCEPT ![c] = Head]
  /\ Goto(c, "newIdentity")
  /\ UNCHANGED <<store, world, keysMade, signer, built, released>>

\* A new identity is allowed where no deployment is recorded.
Prepare(c) ==
  /\ pc[c] = "idle"
  /\ Compatible
  /\ OursOrNone
  /\ command' = [command EXCEPT ![c] = "release"]
  /\ revision' = [revision EXCEPT ![c] = Head]
  /\ Goto(c, IF topology = "none" THEN "newIdentity" ELSE "oldIdentity")
  /\ UNCHANGED <<store, world, keysMade, signer, built, released>>

FindKey(c) ==
  \/ /\ pc[c] \in {"newIdentity", "oldIdentity"}
     /\ keyFile # Absent
     /\ Goto(c, "readKey")
     /\ UNCHANGED <<store, world, keysMade, working, released>>
  \/ /\ pc[c] = "newIdentity"
     /\ keyFile = Absent
     /\ Goto(c, "noKey")
     /\ UNCHANGED <<store, world, keysMade, working, released>>
  \/ /\ pc[c] = "oldIdentity"
     /\ keyFile = Absent
     /\ Fail(c)

\* A key is made only where there is no artifact either.
MayMakeKey == \A v \in Versions : artifact[v] = Absent

NoKeyYet(c) ==
  /\ pc[c] = "noKey"
  /\ \/ /\ MayMakeKey
        /\ Goto(c, "openKey")
        /\ UNCHANGED <<store, world, keysMade, working, released>>
     \/ Fail(c)

\* Mutant: the key file is opened without the exclusive flag.
OpenKeyOver(c) ==
  /\ pc[c] = "openKey"
  /\ keyFile' = Torn
  /\ Goto(c, "fillKey")
  /\ UNCHANGED <<artifact, stateFile, world, keysMade, working, released>>

\* Flag wx: the file is made here, or another command has made it.
OpenKey(c) ==
  /\ pc[c] = "openKey"
  /\ IF keyFile = Absent
       THEN keyFile' = Torn /\ Goto(c, "fillKey")
       ELSE UNCHANGED keyFile /\ Goto(c, "readKey")
  /\ UNCHANGED <<artifact, stateFile, world, keysMade, working, released>>

FillKey(c) ==
  /\ pc[c] = "fillKey"
  /\ keysMade < MaxKeys
  /\ keysMade' = keysMade + 1
  /\ keyFile' = keysMade'
  /\ Goto(c, "readKey")
  /\ UNCHANGED <<artifact, stateFile, world, working, released>>

\* A torn key file is no key: createPublicKey throws.
ReadKey(c) ==
  /\ pc[c] = "readKey"
  /\ IF Written(keyFile)
       THEN /\ signer' = [signer EXCEPT ![c] = keyFile]
            /\ Goto(c, "build")
            /\ UNCHANGED <<store, world, keysMade, command, revision, built, released>>
       ELSE Fail(c)

\* build:solution works for the revision it is told, with the publisher's key.
BuildStable(c) ==
  /\ pc[c] = "idle"
  /\ command' = [command EXCEPT ![c] = "publish"]
  /\ revision' \in {[revision EXCEPT ![c] = r] : r \in Revisions}
  /\ signer' = [signer EXCEPT ![c] = PublisherKey]
  /\ Goto(c, "build")
  /\ UNCHANGED <<store, world, keysMade, built, released>>

Development(c) == command[c] = "release"

\* The sources are read now, from what is checked out now.
Built(c) == [version |-> IF Development(c) THEN revision[c] ELSE Stable,
             revision |-> revision[c], tree |-> tree, signer |-> signer[c]]

\* Mutant: the state is recorded before the artifact is written.
BuildRecords(c) ==
  /\ pc[c] = "build"
  /\ built' = [built EXCEPT ![c] = Built(c)]
  /\ stateFile' = IF Development(c) THEN [revision |-> revision[c], tree |-> tree]
                                    ELSE stateFile
  /\ Goto(c, "check")
  /\ UNCHANGED <<keyFile, artifact, world, keysMade, command, revision, signer, released>>

Build(c) ==
  /\ pc[c] = "build"
  /\ built' = [built EXCEPT ![c] = Built(c)]
  /\ Goto(c, "check")
  /\ UNCHANGED <<store, world, keysMade, command, revision, signer, released>>

-----------------------------------------------------------------------------
(***************************************************************************)
(* writeImmutableSolutionArtifact.                                         *)
(***************************************************************************)
File(c) == artifact[built[c].version]
SetFile(c, content) == artifact' = [artifact EXCEPT ![built[c].version] = content]

\* Mutant: the artifact is written whether there is one or not.
CheckNothing(c) ==
  /\ pc[c] = "check"
  /\ Goto(c, "open")
  /\ UNCHANGED <<store, world, keysMade, working, released>>

Check(c) ==
  /\ pc[c] = "check"
  /\ Goto(c, IF File(c) = Absent THEN "open" ELSE "compare")
  /\ UNCHANGED <<store, world, keysMade, working, released>>

\* The file is truncated, whatever it holds by now.
Open(c) ==
  /\ pc[c] = "open"
  /\ SetFile(c, Torn)
  /\ Goto(c, "fill")
  /\ UNCHANGED <<keyFile, stateFile, world, keysMade, working, released>>

Fill(c) ==
  /\ pc[c] = "fill"
  /\ SetFile(c, built[c])
  /\ UNCHANGED <<keyFile, stateFile>>
  /\ IF Development(c)
       THEN Goto(c, "openState") /\ UNCHANGED <<world, keysMade, working, released>>
       ELSE Return(c, built[c])

\* isReusableSolutionEnvelope: the same payload, verified with this key; another
\* signature of it will do.
Reusable(c) == File(c) = built[c]

Compare(c) ==
  /\ pc[c] = "compare"
  /\ CASE ~Reusable(c) -> Fail(c)
       [] Reusable(c) /\ Development(c) ->
            Goto(c, "openState") /\ UNCHANGED <<store, world, keysMade, working, released>>
       [] OTHER -> UNCHANGED store /\ Return(c, built[c])

OpenState(c) ==
  /\ pc[c] = "openState"
  /\ stateFile' = Torn
  /\ Goto(c, "fillState")
  /\ UNCHANGED <<keyFile, artifact, world, keysMade, working, released>>

FillState(c) ==
  /\ pc[c] = "fillState"
  /\ stateFile' = [revision |-> built[c].revision, tree |-> built[c].tree]
  /\ Return(c, built[c])
  /\ UNCHANGED <<keyFile, artifact>>

-----------------------------------------------------------------------------
(***************************************************************************)
(* status, logs, down, axis-e2e, recover-topology:                         *)
(* readExistingSolutionReleaseEnvironment.                                 *)
(***************************************************************************)
\* axis-e2e wants the package of the openapi.json it has just compared, kept as
\* its revision; recover-topology compares none, and a passive command does not
\* ask whose the deployment is.
Inspect(c) ==
  /\ pc[c] = "idle"
  /\ keyFile # Absent
  /\ \E kind \in {"passive", "axis-e2e", "recover-topology"} :
       /\ kind = "axis-e2e" => Compatible
       /\ kind # "passive" => OursOrNone
       /\ command' = [command EXCEPT ![c] = kind]
  /\ revision' = [revision EXCEPT ![c] = tree]
  /\ Goto(c, "readState")
  /\ UNCHANGED <<store, world, keysMade, signer, built, released>>

\* Without a state file the stable version is meant.
ReadState(c) ==
  /\ pc[c] = "readState"
  /\ IF stateFile = Torn
       THEN Fail(c)
       ELSE /\ built' = IF stateFile = Absent THEN built ELSE [built EXCEPT ![c] = stateFile]
            /\ Goto(c, "readPackage")
            /\ UNCHANGED <<store, world, keysMade, command, revision, signer, released>>

\* The payload has the version meant and what the state recorded of it.
Identifies(wanted, e) ==
  IF wanted = NoBuild
    THEN e.version = Stable
    ELSE e.version = wanted.revision /\ e.revision = wanted.revision /\ e.tree = wanted.tree

ReadPackage(c) ==
  LET e == artifact[IF built[c] = NoBuild THEN Stable ELSE built[c].revision]
  IN  /\ pc[c] = "readPackage"
      /\ IF /\ Written(keyFile)
            /\ Written(e)
            /\ e.signer = keyFile
            /\ Identifies(built[c], e)
            /\ command[c] = "axis-e2e" => e.tree = revision[c]
           THEN Return(c, e) /\ UNCHANGED store
           ELSE Fail(c)

-----------------------------------------------------------------------------
Stop(c) == pc[c] # "idle" /\ Fail(c)

Quiet == \A c \in Commands : pc[c] = "idle"

\* The developer checks out another revision.
Checkout ==
  /\ tree' \in Revisions \ {tree}
  /\ UNCHANGED <<store, axis, keysMade, pc, working, released>>

\* The developer loses the key, or removes a torn one.
LoseKey ==
  /\ Quiet
  /\ keyFile # Absent
  /\ keyFile' = Absent
  /\ UNCHANGED <<artifact, stateFile, world, keysMade, pc, working, released>>

\* The whole ignored directory is removed, as git clean does.
LoseStore ==
  /\ Quiet
  /\ keyFile' = Absent
  /\ artifact' = [v \in Versions |-> Absent]
  /\ stateFile' = Absent
  /\ released' = {}
  /\ lost' = IF deployed = NoKey THEN {} ELSE lost \cup {"store"}
  /\ UNCHANGED <<tree, topology, deployed, axisTree, keysMade, pc, working>>

\* The developer restores the key of the deployment and of the store.
RestoreKey ==
  /\ keyFile = Absent
  /\ deployed # NoKey
  /\ \A v \in Revisions : Written(artifact[v]) => artifact[v].signer = deployed
  /\ keyFile' = deployed
  /\ UNCHANGED <<artifact, stateFile, world, keysMade, pc, working, released>>

\* Axis's marker of our deployment is lost.
LoseMarker ==
  /\ topology = "own"
  /\ topology' = "none"
  /\ lost' = lost \cup {"marker"}
  /\ UNCHANGED <<store, tree, deployed, axisTree, keysMade, pc, working, released>>

\* All local data of Axis is reset, and another wrapper may deploy then.
Reset ==
  /\ topology' \in {"none", "other"}
  /\ deployed' = NoKey
  /\ lost' = {}
  /\ UNCHANGED <<store, tree, axisTree, keysMade, pc, working, released>>

\* Axis moves on to another openapi.json.
AxisChanges ==
  /\ axisTree' \in Revisions \ {axisTree}
  /\ UNCHANGED <<store, tree, topology, deployed, lost, keysMade, pc, working, released>>

PrepareStep(c) ==
  Prepare(c) \/ FindKey(c) \/ NoKeyYet(c) \/ OpenKey(c) \/ FillKey(c) \/ ReadKey(c) \/ OpenState(c) \/ FillState(c)
BuildStep(c) == BuildStable(c) \/ Build(c) \/ Check(c) \/ Open(c) \/ Fill(c) \/ Compare(c)
ReadStep(c) == Inspect(c) \/ ReadState(c) \/ ReadPackage(c)

Next ==
  \/ \E c \in Commands : PrepareStep(c) \/ BuildStep(c) \/ ReadStep(c) \/ Deploy(c) \/ Stop(c)
  \/ Checkout
  \/ LoseKey \/ LoseStore \/ RestoreKey
  \/ LoseMarker \/ Reset \/ AxisChanges

Spec == Init /\ [][Next]_vars

-----------------------------------------------------------------------------
(***************************************************************************)
(* Properties.                                                             *)
(***************************************************************************)
TypeOK ==
  /\ keyFile \in LocalKeys \cup {Absent, Torn}
  /\ artifact \in [Versions -> Envelope \cup {Absent, Torn}]
  /\ stateFile \in State \cup {Absent, Torn}
  /\ tree \in Revisions
  /\ keysMade \in 0..MaxKeys
  /\ pc \in [Commands -> Places]
  /\ command \in [Commands -> Kinds]
  /\ revision \in [Commands -> Revisions \cup {NoRevision}]
  /\ signer \in [Commands -> LocalKeys \cup {NoKey, PublisherKey}]
  /\ built \in [Commands -> Envelope \cup State \cup {NoBuild}]
  /\ released \subseteq Envelope
  /\ topology \in Topologies
  /\ deployed \in LocalKeys \cup {NoKey}
  /\ axisTree \in Revisions
  /\ lost \subseteq {"marker", "store"}

\* Commands that run at once, and a developer who loses the key, never get a second
\* identity into the store: every snapshot verifies with the key that is there.
SnapshotsVerify ==
  Written(keyFile) =>
    \A v \in Revisions : Written(artifact[v]) => artifact[v].signer = keyFile

\* A deployment keeps the publisher's key it was made with, whoever deploys again and
\* whatever is lost, until all its data is reset: only when the store and Axis's marker
\* were both lost may a command have taken it for no deployment.
IdentityKept ==
  [][deployed # NoKey /\ deployed' \notin {NoKey, deployed} => lost = {"marker", "store"}]_vars

\* What a command has returned stays in the store as it was, through later commands
\* that build something else under its version, crashes and checkouts.  (One
\* command at a time.)
ReleasedStays == \A e \in released : artifact[e.version] = e

\* The recorded state is that of a snapshot in the store, wherever a command
\* stopped.  (One command at a time.)
StateNamesSnapshot ==
  Written(stateFile) =>
    LET e == artifact[stateFile.revision]
    IN  Written(e) /\ e.revision = stateFile.revision /\ e.tree = stateFile.tree

-----------------------------------------------------------------------------
\* README.md: "refuses changed payload bytes under a version that already exists".
\* No two commands return different payloads of one version.
ChangedPayloadIsRefused ==
  \A d, e \in released :
    d.version = e.version => d.revision = e.revision /\ d.tree = e.tree
=============================================================================
