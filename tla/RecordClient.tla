---------------------------- MODULE RecordClient ----------------------------
(***************************************************************************)
(* The record client (src/api.ts) and the form that drives it              *)
(* (src/App.tsx): creating a draft under an idempotency key, saving and    *)
(* submitting it under its expected revision, and reading it back when a   *)
(* response is lost.                                                       *)
(*                                                                         *)
(* A call is one press of a button, until its promise settles; the buttons *)
(* stay enabled, so calls overlap.  The BFF and the record service behind  *)
(* it are one service: a request may be answered, refused, or lost, and    *)
(* one that was given up may still be carried out later.  The service      *)
(* keeps every revision of a record, and names a record by the idempotency *)
(* key that created it.                                                    *)
(***************************************************************************)
EXTENDS Integers, Sequences, FiniteSets

CONSTANTS
  Calls,        \* button presses that may be in flight at once
  Creators,     \* those of them that create drafts
  Submitters,   \* those of them that submit the draft on the screen
  Values,       \* what the form can hold
  Valid,        \* the values the product's rules let through
  Foreign,      \* the values other editors of the record write
  MaxKeys,      \* bound: idempotency keys, and so records
  MaxRevision,  \* bound: the service takes a record to this revision
  MaxLate       \* bound: requests given up and still on their way

ASSUME CallsAssumption == Creators \subseteq Calls /\ Submitters \subseteq Calls
ASSUME ValuesAssumption == Valid \subseteq Values /\ Foreign \subseteq Values
ASSUME BoundAssumption == MaxKeys \in Nat /\ MaxRevision \in Nat \ {0} /\ MaxLate \in Nat

VARIABLES
  log,       \* the service: the revisions of each record, oldest first
  late,      \* requests the client gave up that are still on their way
  pc,        \* where each call is
  job,       \* the record, revision and values each call works on
  reply,     \* the answer on its way to each call
  key,       \* createIdempotencyKey
  lastKey,   \* how many keys randomUUID has made
  screen,    \* record: what the form shows
  form,      \* values: what the form holds
  alert,     \* error: what the form says went wrong
  lostKeys,  \* history: keys of the creates whose response was lost
  shown      \* history: records the form has shown

service == <<log, late>>
creation == <<key, lastKey>>
page == <<screen, form, alert>>
history == <<lostKeys, shown>>
vars == <<service, pc, job, reply, creation, page, history>>

-----------------------------------------------------------------------------
Keys == 1..MaxKeys
NoKey == 0

\* A revision of a record, with the values its author had in the form.
Version == [status : {"Draft", "Submitted"}, values : Values, entered : Values]
Record == [id : Keys, revision : 1..MaxRevision, status : {"Draft", "Submitted"},
           values : Values]
None == [id |-> NoKey]

\* The request a call has in flight at each place.
Op == [creating |-> "create", saving |-> "save", checkingSave |-> "read",
       submitting |-> "submit", checkingSubmit |-> "read", resubmitting |-> "submit"]
Places == DOMAIN Op \cup {"idle"}

Job == [id : Keys, revision : 0..MaxRevision, values : Values]
Request == [op : {"create", "save", "submit"}, job : Job]
Message(c) == [op |-> Op[pc[c]], job |-> job[c]]

Init ==
  /\ log = [k \in Keys |-> <<>>]
  /\ late = {}
  /\ pc = [c \in Calls |-> "idle"]
  /\ job = [c \in Calls |-> None]
  /\ reply = [c \in Calls |-> None]
  /\ key = NoKey
  /\ lastKey = 0
  /\ screen = None
  /\ form \in Values
  /\ alert = "none"
  /\ lostKeys = {}
  /\ shown = {}

-----------------------------------------------------------------------------
(***************************************************************************)
(* The record service.                                                     *)
(***************************************************************************)
Revision(k) == Len(log[k])
Latest(k) == log[k][Revision(k)]
Canonical(k) == [id |-> k, revision |-> Revision(k),
                 status |-> Latest(k).status, values |-> Latest(k).values]

\* A change is made only to the revision it expects, and never to a submitted record.
Expected(j) == Revision(j.id) > 0 /\ Revision(j.id) = j.revision
Changeable(k) == Revision(k) \in 1..MaxRevision - 1 /\ Latest(k).status = "Draft"

Append1(k, status, values, entered) ==
  log' = [log EXCEPT ![k] =
            Append(@, [status |-> status, values |-> values, entered |-> entered])]

\* One record per key.
CarryOutCreate(j) ==
  IF Revision(j.id) = 0 THEN Append1(j.id, "Draft", j.values, j.values) ELSE UNCHANGED log

CarryOutSave(j) ==
  Expected(j) /\ Changeable(j.id) /\ Append1(j.id, "Draft", j.values, j.values)

\* Values the rules refuse leave the record a draft.
CarryOutSubmit(j) ==
  /\ Expected(j)
  /\ Changeable(j.id)
  /\ IF Latest(j.id).values \in Valid
       THEN Append1(j.id, "Submitted", Latest(j.id).values, j.values)
       ELSE UNCHANGED log

CarryOut(m) ==
  CASE m.op = "create" -> CarryOutCreate(m.job)
    [] m.op = "save" -> CarryOutSave(m.job)
    [] m.op = "submit" -> CarryOutSubmit(m.job)
    [] m.op = "read" -> Revision(m.job.id) > 0 /\ UNCHANGED log

\* A request is carried out and answered with the record.
Answer(c) ==
  /\ pc[c] # "idle"
  /\ reply[c] = None
  /\ CarryOut(Message(c))
  /\ \E k \in {job[c].id} : reply' = [reply EXCEPT ![c] = Canonical(k)']
  /\ UNCHANGED <<late, pc, job, creation, page, history>>

\* A request nobody waits for any more is carried out, or refused or dropped.
CarryOutLate(m) ==
  /\ CarryOut(m)
  /\ late' = late \ {m}
  /\ UNCHANGED <<pc, job, reply, creation, page, history>>

DropLate(m) ==
  /\ late' = late \ {m}
  /\ UNCHANGED <<log, pc, job, reply, creation, page, history>>

\* Another editor works on the record.
OtherSave(k) ==
  /\ Changeable(k)
  /\ \E v \in Foreign : Append1(k, "Draft", v, v)
  /\ UNCHANGED <<late, pc, job, reply, creation, page, history>>

OtherSubmit(k) ==
  /\ Changeable(k)
  /\ Foreign # {}
  /\ Latest(k).values \in Valid
  /\ Append1(k, "Submitted", Latest(k).values, Latest(k).values)
  /\ UNCHANGED <<late, pc, job, reply, creation, page, history>>

-----------------------------------------------------------------------------
(***************************************************************************)
(* How a request of the client ends, and what the call does then.          *)
(***************************************************************************)
At(c, place) == pc[c] = place
Answered(c) == reply[c] # None

\* The request is over for the call; unless it was answered, it may yet be
\* carried out.
GivenUp(c) ==
  \/ UNCHANGED late
  \/ /\ reply[c] = None
     /\ Op[pc[c]] # "read"
     /\ Cardinality(late) < MaxLate
     /\ late' = late \cup {Message(c)}

Continue(c, place) ==
  /\ pc' = [pc EXCEPT ![c] = place]
  /\ reply' = [reply EXCEPT ![c] = None]

Settle(c) == Continue(c, "idle") /\ job' = [job EXCEPT ![c] = None]

\* The call throws, whether its request was refused (an ApiError with a status),
\* lost (status 0) or answered with something that is not a record of the product.
Throw(c) ==
  /\ Settle(c)
  /\ alert' = "failed"
  /\ UNCHANGED <<log, creation, screen, form, shown>>

\* The form shows what the service answered.
Show(c) ==
  /\ Settle(c)
  /\ screen' = reply[c]
  /\ shown' = shown \cup {reply[c].id}
  /\ UNCHANGED <<service, form, lostKeys>>

-----------------------------------------------------------------------------
(***************************************************************************)
(* Create draft.                                                           *)
(***************************************************************************)
Create(c) ==
  /\ c \in Creators
  /\ At(c, "idle")
  /\ IF key = NoKey
       THEN lastKey < MaxKeys /\ lastKey' = lastKey + 1 /\ key' = lastKey'
       ELSE UNCHANGED creation
  /\ pc' = [pc EXCEPT ![c] = "creating"]
  /\ job' = [job EXCEPT ![c] = [id |-> key', revision |-> 0, values |-> form]]
  /\ alert' = "none"
  /\ UNCHANGED <<service, reply, screen, form, history>>

Created(c) ==
  /\ At(c, "creating")
  /\ Answered(c)
  /\ Show(c)
  /\ key' = NoKey
  /\ UNCHANGED <<lastKey, alert>>

\* Mutant: the key is cleared in a finally block.
CreateLostClears(c) ==
  /\ At(c, "creating")
  /\ GivenUp(c)
  /\ Settle(c)
  /\ alert' = "failed"
  /\ key' = NoKey
  /\ lostKeys' = lostKeys \cup {job[c].id}
  /\ UNCHANGED <<log, lastKey, screen, form, shown>>

CreateLost(c) ==
  /\ At(c, "creating")
  /\ GivenUp(c)
  /\ Throw(c)
  /\ lostKeys' = lostKeys \cup {job[c].id}

CreateRefused(c) ==
  /\ At(c, "creating")
  /\ GivenUp(c)
  /\ Throw(c)
  /\ UNCHANGED lostKeys

\* The user changes the form; there is one only for a draft.
Edit ==
  /\ screen # None
  /\ screen.status = "Draft"
  /\ form' \in Values \ {form}
  /\ UNCHANGED <<service, pc, job, reply, creation, screen, alert, history>>

-----------------------------------------------------------------------------
(***************************************************************************)
(* Submit application: save the form over the revision on the screen, then *)
(* submit the revision that gave.                                          *)
(***************************************************************************)
Submit(c) ==
  /\ c \in Submitters
  /\ At(c, "idle")
  /\ screen # None
  /\ screen.status = "Draft"
  /\ pc' = [pc EXCEPT ![c] = "saving"]
  /\ job' = [job EXCEPT ![c] =
               [id |-> screen.id, revision |-> screen.revision, values |-> form]]
  /\ alert' = "none"
  /\ UNCHANGED <<service, reply, creation, screen, form, history>>

SubmitSaved(c) ==
  /\ Continue(c, "submitting")
  /\ job' = [job EXCEPT ![c].revision = reply[c].revision]
  /\ UNCHANGED <<service, creation, page, history>>

Saved(c) == At(c, "saving") /\ Answered(c) /\ SubmitSaved(c)

\* The response is lost: read the record back.
SaveLost(c) ==
  /\ At(c, "saving")
  /\ GivenUp(c)
  /\ Continue(c, "checkingSave")
  /\ UNCHANGED <<log, job, creation, page, history>>

\* Mutant: any newer revision will do.
SaveTookNewer(c) == reply[c].revision > job[c].revision

\* The read-back shows the save: a later revision with the same values.
SaveTook(c) == reply[c].revision > job[c].revision /\ reply[c].values = job[c].values

SaveConfirmed(c) ==
  At(c, "checkingSave") /\ Answered(c) /\ SaveTook(c) /\ SubmitSaved(c)

SaveNotConfirmed(c) ==
  /\ At(c, "checkingSave")
  /\ Answered(c)
  /\ ~SaveTook(c)
  /\ Throw(c)
  /\ UNCHANGED <<late, lostKeys>>

\* Mutant: the record is not shown when the rules refused it.
ShowResultIfSubmitted(c) ==
  /\ Settle(c)
  /\ IF reply[c].status = "Submitted"
       THEN screen' = reply[c] /\ UNCHANGED alert
       ELSE UNCHANGED screen /\ alert' = "mismatch"
  /\ UNCHANGED <<service, creation, form, history>>

\* The result of the submission; a draft still is one the rules refused.
ShowResult(c) ==
  /\ Show(c)
  /\ alert' = IF reply[c].status = "Submitted" THEN alert ELSE "mismatch"
  /\ UNCHANGED creation

Submitted(c) ==
  pc[c] \in {"submitting", "resubmitting"} /\ Answered(c) /\ ShowResult(c)

\* Mutant: the second submission is read back, too.
SubmitLostAgain(c) ==
  /\ pc[c] \in {"submitting", "resubmitting"}
  /\ GivenUp(c)
  /\ Continue(c, "checkingSubmit")
  /\ UNCHANGED <<log, job, creation, page, history>>

SubmitLost(c) ==
  /\ At(c, "submitting")
  /\ GivenUp(c)
  /\ Continue(c, "checkingSubmit")
  /\ UNCHANGED <<log, job, creation, page, history>>

SubmitConfirmed(c) ==
  /\ At(c, "checkingSubmit")
  /\ Answered(c)
  /\ reply[c].status = "Submitted"
  /\ ShowResult(c)

\* Nothing has happened to the record: submit it once more.
Resubmit(c) ==
  /\ At(c, "checkingSubmit")
  /\ Answered(c)
  /\ reply[c].status = "Draft"
  /\ reply[c].revision = job[c].revision
  /\ Continue(c, "resubmitting")
  /\ UNCHANGED <<service, job, creation, page, history>>

SubmitOvertaken(c) ==
  /\ At(c, "checkingSubmit")
  /\ Answered(c)
  /\ reply[c].status = "Draft"
  /\ reply[c].revision # job[c].revision
  /\ Throw(c)
  /\ UNCHANGED <<late, lostKeys>>

\* Every other request that fails: a save or a submission that is refused, a
\* read-back that is refused or lost, a second submission that is refused or lost.
Fails(c) ==
  /\ pc[c] \notin {"idle", "creating"}
  /\ GivenUp(c)
  /\ Throw(c)
  /\ UNCHANGED lostKeys

CreateStep(c) == Created(c) \/ CreateLost(c) \/ CreateRefused(c)
SaveStep(c) == Saved(c) \/ SaveLost(c) \/ SaveConfirmed(c) \/ SaveNotConfirmed(c)
SubmitStep(c) ==
  Submitted(c) \/ SubmitLost(c) \/ SubmitConfirmed(c) \/ Resubmit(c) \/ SubmitOvertaken(c)
Reaction(c) == CreateStep(c) \/ SaveStep(c) \/ SubmitStep(c) \/ Fails(c)
CallStep(c) == Answer(c) \/ Reaction(c)

Next ==
  \/ \E c \in Calls : Create(c) \/ Submit(c) \/ CallStep(c)
  \/ Edit
  \/ \E m \in late : CarryOutLate(m) \/ DropLate(m)
  \/ \E k \in Keys : OtherSave(k) \/ OtherSubmit(k)

\* An answer that is on its way arrives, or its connection fails, and the call
\* goes on.  Nothing is asked of a request that is not answered: no fetch of the
\* client has a timeout or a signal, and the service may keep one for ever.
Fairness == \A c \in Calls : WF_vars(Answered(c) /\ Reaction(c))

Safety == Init /\ [][Next]_vars
Spec == Safety /\ Fairness

-----------------------------------------------------------------------------
(***************************************************************************)
(* Properties.                                                             *)
(***************************************************************************)
TypeOK ==
  /\ log \in [Keys -> Seq(Version)]
  /\ \A k \in Keys : Revision(k) <= MaxRevision
  /\ late \subseteq Request
  /\ pc \in [Calls -> Places]
  /\ job \in [Calls -> Job \cup {None}]
  /\ reply \in [Calls -> Record \cup {None}]
  /\ key \in Keys \cup {NoKey}
  /\ lastKey \in Keys \cup {NoKey}
  /\ screen \in Record \cup {None}
  /\ form \in Values
  /\ alert \in {"none", "failed", "mismatch"}
  /\ lostKeys \subseteq Keys
  /\ shown \subseteq Keys

\* What is submitted is what the user had entered when the button was pressed,
\* through lost responses, read-backs, retries, late requests and other editors.
SubmitsWhatWasEntered ==
  \A k \in Keys : \A i \in 1..Revision(k) :
    log[k][i].status = "Submitted" => log[k][i].entered = log[k][i].values

\* No draft is orphaned by a lost response: every record the client has created
\* has been shown, or is the one the next create will be answered with.
NoOrphanDraft == \A k \in Keys : Revision(k) > 0 => k \in shown \cup {key}

\* When all is quiet, the form shows its record as it is, unless it also shows
\* an error: neither a late result nor a late request leaves it stale in silence.
\* It is current after the rules refuse a submission, too, so that the user can
\* correct the values and submit again.  (No other editor, and no submissions or
\* creates that overlap their own kind.)
ScreenIsCurrent ==
  /\ screen # None
  /\ \A c \in Calls : At(c, "idle")
  /\ late = {}
  /\ alert # "failed"
  => screen = Canonical(screen.id)

\* A press of a button comes to an end, unless one of its fetches is never
\* answered and never fails: then the call stays at that fetch.  It never goes
\* round for ever between a submission and the read-back of its loss, and no
\* answer leaves it without a way on.
EveryCallReturns ==
  \A c \in Calls :
    \/ []<>At(c, "idle")
    \/ \E place \in DOMAIN Op : <>[](At(c, place) /\ ~Answered(c))

-----------------------------------------------------------------------------
\* api.test.ts: "reuses one create idempotency key after a lost response and
\* rotates after canonical success".  A key whose response was lost is the one
\* the next create uses, until its record has been returned.
LostKeyIsReused == lostKeys \subseteq shown \cup {key}
=============================================================================
