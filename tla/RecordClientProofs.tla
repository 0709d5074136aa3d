------------------------- MODULE RecordClientProofs -------------------------
(***************************************************************************)
(* What RecordClient guarantees for any number of calls, records, late     *)
(* requests and other editors.  Inv is the inductive invariant behind what *)
(* is submitted; AloneInv extends it for calls that do not overlap their   *)
(* own kind.                                                               *)
(***************************************************************************)
EXTENDS RecordClient, TLAPS

Saves == {"saving", "checkingSave"}
Submissions == {"submitting", "checkingSubmit", "resubmitting"}

\* The revision a job names holds the job's values.
Holds(j) == j.revision \in 1..Revision(j.id) /\ log[j.id][j.revision].values = j.values
StillHolds(j) == j.revision \in 1..Len(log'[j.id]) /\ log'[j.id][j.revision].values = j.values

\* A call that waits has a job; only one that waits has a reply, about its record.
CallInv ==
  \A c \in Calls :
    /\ pc[c] # "idle" => job[c] \in Job
    /\ Answered(c) => /\ pc[c] # "idle"
                      /\ reply[c].id = job[c].id
                      /\ Holds(reply[c])
    /\ At(c, "saving") /\ Answered(c) => SaveTook(c)

\* A submission, answered or not, and late ones, too, names a revision with the
\* values the user had entered.
SubmitInv ==
  /\ \A c \in Calls : pc[c] \in Submissions => Holds(job[c])
  /\ \A m \in late : m.op = "submit" => Holds(m.job)

Inv == TypeOK /\ CallInv /\ SubmitInv /\ SubmitsWhatWasEntered

-----------------------------------------------------------------------------
(***************************************************************************)
(* Calls that do not overlap their own kind, and no other editor.          *)
(***************************************************************************)
CreatesAlone == \A c, d \in Calls : At(c, "creating") /\ At(d, "creating") => c = d

\* No key is made while a create under an older one is under way: creates may overlap
\* under one key.
CreatesInTime == key # NoKey => \A c \in Calls : At(c, "creating") => job[c].id = key

InSubmission(c) == pc[c] \in Saves \cup Submissions
SubmitsAlone == \A c, d \in Calls : InSubmission(c) /\ InSubmission(d) => c = d

\* A create is under the key, which has not been shown; it, and every other request,
\* may also be about a record that was.
KeyInv ==
  /\ key \notin shown
  /\ \A k \in Keys : lastKey < k => k \notin shown /\ k # key
  /\ \A c \in Calls : /\ At(c, "creating") => job[c].id \in shown \cup {key}
                      /\ InSubmission(c) => job[c].id \in shown
  /\ \A m \in late : m.job.id \in shown \/ (m.job.id = key /\ m.op = "create")
  /\ screen # None => screen.id \in shown

\* A request on its way that can change nothing any more.
Dead(m) ==
  CASE m.op = "create" -> Revision(m.job.id) > 0
    [] m.op = "save" -> ~(Expected(m.job) /\ Changeable(m.job.id))
    [] m.op = "submit" -> ~(Expected(m.job) /\ Changeable(m.job.id)) \/ Latest(m.job.id).values \notin Valid
Settled(k) == \A m \in late : m.job.id = k => Dead(m)

\* A save on its way is not for a later revision than the form shows, nor than the
\* submission in progress saves, and for an earlier one than it submits.
LateSaveInv ==
  /\ \A m \in late : m.op = "save" =>
       /\ screen # None /\ screen.id = m.job.id => m.job.revision <= screen.revision
       /\ \A c \in Calls : InSubmission(c) /\ job[c].id = m.job.id =>
            /\ m.job.revision <= job[c].revision
            /\ pc[c] \in Submissions => m.job.revision < job[c].revision
  /\ \A c \in Calls :
       pc[c] \in Saves /\ screen # None /\ screen.id = job[c].id => job[c].revision <= screen.revision

\* What a call is about to show is the record as it is: its draft, a submitted record
\* or a draft that the rules refuse.
AnswerInv ==
  \A c \in Calls : Answered(c) =>
    /\ At(c, "creating") \/ reply[c].status = "Submitted" => reply[c] = Canonical(job[c].id)
    /\ pc[c] \in {"submitting", "resubmitting"} /\ reply[c].status = "Draft" =>
         /\ reply[c] = Canonical(job[c].id)
         /\ reply[c].revision = job[c].revision
         /\ reply[c].values \notin Valid

\* What the form shows is the record as it is and will be, once all calls have come
\* to an end, the last of them without an error.
ScreenInv ==
  (\A c \in Calls : At(c, "idle")) /\ screen # None /\ alert # "failed" =>
    screen = Canonical(screen.id) /\ Settled(screen.id)

\* Creates that do not overlap are all under the key.
UnderKeyInv == \A c \in Calls : At(c, "creating") => job[c].id = key

CreateInv == KeyInv /\ NoOrphanDraft /\ LostKeyIsReused
AloneInv == UnderKeyInv /\ LateSaveInv /\ AnswerInv /\ ScreenInv

-----------------------------------------------------------------------------
(***************************************************************************)
(* Facts about the data.                                                   *)
(***************************************************************************)
LEMMA OpFacts ==
  /\ Places = {"creating", "saving", "checkingSave", "submitting", "checkingSubmit", "resubmitting", "idle"}
  /\ Op["creating"] = "create" /\ Op["saving"] = "save" /\ Op["checkingSave"] = "read"
  /\ Op["submitting"] = "submit" /\ Op["checkingSubmit"] = "read" /\ Op["resubmitting"] = "submit"
  BY DEF Places, Op

LEMMA NoneFacts ==
  /\ NoKey \notin Keys
  /\ None \notin Record
  /\ None \notin Job
  BY DEF NoKey, Keys, None, Record, Job

\* The log of a record grows by one revision, unless the record was submitted; a
\* submitted revision holds what was entered.
GoodVersion(e) == e \in Version /\ (e.status = "Submitted" => e.entered = e.values)
Grown(k, e) ==
  /\ Revision(k) < MaxRevision
  /\ Revision(k) = 0 \/ Latest(k).status = "Draft"
  /\ log' = [log EXCEPT ![k] = Append(@, e)]
LogStep == UNCHANGED log \/ \E k \in Keys : \E e : GoodVersion(e) /\ Grown(k, e)

LEMMA LogKept ==
  ASSUME TypeOK, LogStep
  PROVE  /\ log' \in [Keys -> Seq(Version)]
         /\ \A k \in Keys : /\ Len(log[k]) <= Len(log'[k])
                            /\ Len(log'[k]) <= MaxRevision
                            /\ \A i \in 1..Len(log[k]) : log'[k][i] = log[k][i]
                            /\ Len(log[k]) > 0 /\ log[k][Len(log[k])].status = "Submitted" => log'[k] = log[k]
<1>1. CASE UNCHANGED log
  BY <1>1 DEF TypeOK, Revision
<1>2. ASSUME NEW k \in Keys, NEW e, GoodVersion(e), Grown(k, e)
      PROVE  /\ log' \in [Keys -> Seq(Version)]
             /\ \A q \in Keys : /\ Len(log[q]) <= Len(log'[q])
                                /\ Len(log'[q]) <= MaxRevision
                                /\ \A i \in 1..Len(log[q]) : log'[q][i] = log[q][i]
                                /\ Len(log[q]) > 0 /\ log[q][Len(log[q])].status = "Submitted" => log'[q] = log[q]
  <2>1. log[k] \in Seq(Version) /\ e \in Version /\ Len(log[k]) \in Nat /\ Len(log[k]) < MaxRevision
    BY <1>2 DEF TypeOK, GoodVersion, Grown, Revision
  <2>2. /\ Append(log[k], e) \in Seq(Version)
        /\ Len(Append(log[k], e)) = Len(log[k]) + 1
        /\ \A i \in 1..Len(log[k]) : Append(log[k], e)[i] = log[k][i]
    BY <2>1
  <2>3. log' = [log EXCEPT ![k] = Append(log[k], e)]
    BY <1>2 DEF Grown
  <2>4. \A q \in Keys \ {k} : log'[q] = log[q] /\ Len(log[q]) \in Nat
    BY <2>3 DEF TypeOK
  <2>5. log'[k] = Append(log[k], e)
    BY <2>3 DEF TypeOK
  <2>6. Len(log[k]) > 0 => log[k][Len(log[k])].status # "Submitted"
    BY <1>2 DEF Grown, Revision, Latest
  <2>7. \A q \in Keys : Len(log[q]) <= MaxRevision
    BY DEF TypeOK, Revision
  <2>8. log' \in [Keys -> Seq(Version)]
    BY <2>2, <2>3 DEF TypeOK
  <2>9. ASSUME NEW q \in Keys
        PROVE  /\ Len(log[q]) <= Len(log'[q])
               /\ Len(log'[q]) <= MaxRevision
               /\ \A i \in 1..Len(log[q]) : log'[q][i] = log[q][i]
               /\ Len(log[q]) > 0 /\ log[q][Len(log[q])].status = "Submitted" => log'[q] = log[q]
    <3>1. CASE q = k
      BY <2>1, <2>2, <2>5, <2>6, <3>1, BoundAssumption
    <3>2. CASE q # k
      <4>1. log'[q] = log[q] /\ Len(log[q]) \in Nat /\ Len(log[q]) <= MaxRevision
        BY <2>4, <2>7, <3>2
      <4> QED
        BY <4>1
    <3> QED
      BY <3>1, <3>2
  <2> QED
    BY <2>8, <2>9
<1> QED
  BY <1>1, <1>2 DEF LogStep

\* What a revision held, it holds; what was submitted, was entered.
LEMMA HoldsKept ==
  ASSUME TypeOK, LogStep, NEW j, j.id \in Keys, Holds(j)
  PROVE  StillHolds(j)
<1>1. j.revision \in 1..Len(log[j.id]) /\ log[j.id][j.revision].values = j.values
  BY DEF Holds, Revision
<1>2. Len(log[j.id]) \in Nat /\ Len(log'[j.id]) \in Nat
  BY LogKept DEF TypeOK
<1> QED
  BY <1>1, <1>2, LogKept DEF StillHolds

LEMMA SubmitsKept ==
  ASSUME TypeOK, SubmitsWhatWasEntered, LogStep
  PROVE  SubmitsWhatWasEntered'
<1>1. CASE UNCHANGED log
  BY <1>1 DEF SubmitsWhatWasEntered, Revision
<1>2. ASSUME NEW k \in Keys, NEW e, GoodVersion(e), Grown(k, e) PROVE SubmitsWhatWasEntered'
  <2>1. log[k] \in Seq(Version) /\ log'[k] = Append(log[k], e) /\ \A q \in Keys \ {k} : log'[q] = log[q]
    BY <1>2 DEF TypeOK, Grown
  <2>2. \A i \in 1..Len(log'[k]) : log'[k][i].status = "Submitted" => log'[k][i].entered = log'[k][i].values
    BY <1>2, <2>1 DEF SubmitsWhatWasEntered, GoodVersion, Revision
  <2>3. \A q \in Keys : \A i \in 1..Len(log'[q]) :
          log'[q][i].status = "Submitted" => log'[q][i].entered = log'[q][i].values
    BY <2>1, <2>2 DEF SubmitsWhatWasEntered, Revision
  <2> QED
    BY <2>3 DEF SubmitsWhatWasEntered, Revision
<1> QED
  BY <1>1, <1>2 DEF LogStep

\* A request that is carried out, and the record it is answered with.
LEMMA CarriedOut ==
  ASSUME TypeOK, NEW m, m.op \in {"create", "save", "submit", "read"}, m.job \in Job,
         m.op = "submit" => Holds(m.job), CarryOut(m)
  PROVE  /\ LogStep
         /\ Len(log'[m.job.id]) > 0
         /\ m.op = "save" => /\ Len(log'[m.job.id]) > m.job.revision
                             /\ log'[m.job.id][Len(log'[m.job.id])].values = m.job.values
<1> DEFINE k == m.job.id
<1>1. /\ k \in Keys /\ m.job.values \in Values /\ m.job.revision \in Nat
      /\ log[k] \in Seq(Version) /\ Len(log[k]) \in Nat
  BY BoundAssumption DEF Job, TypeOK
<1>2. ASSUME NEW e, log' = [log EXCEPT ![k] = Append(@, e)]
      PROVE  Len(log'[k]) = Len(log[k]) + 1 /\ log'[k][Len(log'[k])] = e
  <2>1. log'[k] = Append(log[k], e)
    BY <1>1, <1>2 DEF TypeOK
  <2> QED
    BY <1>1, <2>1
<1> HIDE DEF k
<1>3. CASE m.op = "create"
  <2>1. CarryOutCreate(m.job)
    BY <1>3 DEF CarryOut
  <2>2. CASE Len(log[k]) > 0
    BY <1>3, <2>1, <2>2 DEF CarryOutCreate, Revision, LogStep, k
  <2>3. CASE Len(log[k]) = 0
    <3> DEFINE e == [status |-> "Draft", values |-> m.job.values, entered |-> m.job.values]
    <3>1. GoodVersion(e)
      BY <1>1 DEF GoodVersion, Version
    <3>2. log' = [log EXCEPT ![k] = Append(@, e)]
      BY <2>1, <2>3 DEF CarryOutCreate, Append1, Revision, k
    <3> HIDE DEF e
    <3>3. Grown(k, e)
      BY <2>3, <3>2, BoundAssumption DEF Grown, Revision
    <3>4. LogStep
      BY <1>1, <3>1, <3>3 DEF LogStep
    <3>5. Len(log'[k]) = Len(log[k]) + 1
      BY <1>2, <3>2
    <3>6. Len(log'[k]) > 0
      BY <1>1, <3>5
    <3> QED
      BY <1>3, <3>4, <3>6 DEF k
  <2> QED
    BY <1>1, <2>2, <2>3
<1>4. CASE m.op = "save"
  <2> DEFINE e == [status |-> "Draft", values |-> m.job.values, entered |-> m.job.values]
  <2>1. /\ Len(log[k]) = m.job.revision /\ Len(log[k]) \in 1..MaxRevision - 1
        /\ Latest(k).status = "Draft"
        /\ log' = [log EXCEPT ![k] = Append(@, e)]
    BY <1>4 DEF CarryOut, CarryOutSave, Expected, Changeable, Append1, Revision, k
  <2>2. GoodVersion(e) /\ e.values = m.job.values
    BY <1>1 DEF GoodVersion, Version
  <2> HIDE DEF e
  <2>3. Grown(k, e)
    BY <2>1, BoundAssumption DEF Grown, Revision
  <2>4. LogStep
    BY <1>1, <2>2, <2>3 DEF LogStep
  <2>5. Len(log'[k]) = Len(log[k]) + 1 /\ log'[k][Len(log'[k])] = e
    BY <1>2, <2>1
  <2>6. Len(log'[k]) > 0 /\ Len(log'[k]) > m.job.revision
    BY <1>1, <2>1, <2>5
  <2> QED
    BY <2>2, <2>4, <2>5, <2>6 DEF k
<1>5. CASE m.op = "submit"
  <2>1. /\ Len(log[k]) = m.job.revision /\ Len(log[k]) \in 1..MaxRevision - 1
        /\ Latest(k).status = "Draft" /\ CarryOutSubmit(m.job)
    BY <1>5 DEF CarryOut, CarryOutSubmit, Expected, Changeable, Revision, k
  <2>2. CASE UNCHANGED log
    BY <1>5, <2>1, <2>2 DEF LogStep, k
  <2>3. CASE ~UNCHANGED log
    <3> DEFINE e == [status |-> "Submitted", values |-> Latest(k).values, entered |-> m.job.values]
    <3>1. log' = [log EXCEPT ![k] = Append(@, e)]
      BY <2>1, <2>3 DEF CarryOutSubmit, Append1, k
    <3>2. Latest(k).values = m.job.values
      BY <1>5, <2>1 DEF Holds, Latest, Revision, k
    <3>3. GoodVersion(e)
      BY <1>1, <3>2 DEF GoodVersion, Version
    <3> HIDE DEF e
    <3>4. Grown(k, e)
      BY <2>1, <3>1, BoundAssumption DEF Grown, Revision
    <3> QED
      BY <1>1, <1>2, <1>5, <2>1, <3>1, <3>3, <3>4 DEF LogStep, k
  <2> QED
    BY <2>2, <2>3
<1>6. CASE m.op = "read"
  BY <1>6 DEF CarryOut, Revision, LogStep
<1> QED
  BY <1>3, <1>4, <1>5, <1>6

-----------------------------------------------------------------------------
(***************************************************************************)
(* What the steps of a call have in common.                                *)
(***************************************************************************)
\* The request of a call that waits is one of the client's.
LEMMA MessageFacts ==
  ASSUME TypeOK, CallInv, SubmitInv, NEW c \in Calls, pc[c] # "idle"
  PROVE  /\ Message(c).op = Op[pc[c]] /\ Message(c).job = job[c] /\ job[c] \in Job
         /\ Message(c).op \in {"create", "save", "submit", "read"}
         /\ Message(c).op # "read" => Message(c) \in Request
         /\ Message(c).op = "submit" => Holds(job[c])
<1>1. pc[c] \in Places /\ job[c] \in Job
  BY DEF TypeOK, CallInv
<1>2. Message(c).op = Op[pc[c]] /\ Message(c).job = job[c]
  BY DEF Message
<1>3. Op[pc[c]] = "submit" => pc[c] \in Submissions
  BY <1>1, OpFacts DEF Submissions
<1>4. Op[pc[c]] \in {"create", "save", "submit", "read"}
  BY <1>1, OpFacts
<1>5. Message(c).op # "read" => Message(c) \in Request
  BY <1>1, <1>2, <1>4 DEF Message, Request
<1> QED
  BY <1>1, <1>2, <1>3, <1>4, <1>5 DEF SubmitInv

LateStep(c) == GivenUp(c) \/ UNCHANGED late

\* A late request is one the client gave up.
LEMMA LateKept ==
  ASSUME TypeOK, CallInv, SubmitInv, NEW c \in Calls, pc[c] # "idle", UNCHANGED log, LateStep(c)
  PROVE  late' \subseteq Request /\ \A m \in late' : m.op = "submit" => Holds(m.job)'
<1>1. late' \subseteq late \cup {Message(c)} /\ (Message(c) \in late' => Message(c) \in late \/ Message(c).op # "read")
  BY MessageFacts DEF LateStep, GivenUp
<1>2. late' \subseteq Request
  BY <1>1, MessageFacts DEF TypeOK
<1>3. ASSUME NEW m \in late', m.op = "submit" PROVE Holds(m.job)
  BY <1>1, <1>3, MessageFacts DEF SubmitInv
<1>4. \A j : Holds(j) => Holds(j)'
  BY DEF Holds, Revision
<1> QED
  BY <1>2, <1>3, <1>4

\* The call comes to an end.
LEMMA CallSettles ==
  ASSUME TypeOK, CallInv, SubmitInv, NEW c \in Calls, pc[c] # "idle",
         UNCHANGED log, LateStep(c), Settle(c)
  PROVE  /\ pc' \in [Calls -> Places] /\ job' \in [Calls -> Job \cup {None}]
         /\ reply' \in [Calls -> Record \cup {None}] /\ late' \subseteq Request
         /\ CallInv' /\ SubmitInv'
<1>1. /\ pc' = [pc EXCEPT ![c] = "idle"] /\ reply' = [reply EXCEPT ![c] = None]
      /\ job' = [job EXCEPT ![c] = None] /\ log' = log
  BY DEF Settle, Continue
<1>2. /\ pc' \in [Calls -> Places] /\ job' \in [Calls -> Job \cup {None}]
      /\ reply' \in [Calls -> Record \cup {None}]
  BY <1>1, OpFacts DEF TypeOK
<1>3. pc'[c] = "idle" /\ reply'[c] = None
  BY <1>1 DEF TypeOK
<1>4. \A d \in Calls \ {c} : pc'[d] = pc[d] /\ job'[d] = job[d] /\ reply'[d] = reply[d]
  BY <1>1 DEF TypeOK
<1>5. CallInv'
  BY <1>1, <1>3, <1>4 DEF CallInv, At, Answered, SaveTook, Holds, Revision
<1>6. \A d \in Calls : pc'[d] \in Submissions => d # c
  BY <1>3 DEF Submissions
<1>7. \A d \in Calls : pc'[d] \in Submissions => Holds(job[d]) /\ job'[d] = job[d]
  BY <1>4, <1>6 DEF SubmitInv
<1>8. SubmitInv'
  BY <1>1, <1>7, LateKept DEF SubmitInv, Holds, Revision
<1> QED
  BY <1>2, <1>5, <1>8, LateKept

\* The call sends its next request.
LEMMA CallContinues ==
  ASSUME TypeOK, CallInv, SubmitInv, NEW c \in Calls, pc[c] # "idle",
         UNCHANGED log, LateStep(c), NEW place \in Places, place # "idle", Continue(c, place),
         NEW j \in Job, job' = [job EXCEPT ![c] = j], place \in Submissions => Holds(j)
  PROVE  /\ pc' \in [Calls -> Places] /\ job' \in [Calls -> Job \cup {None}]
         /\ reply' \in [Calls -> Record \cup {None}] /\ late' \subseteq Request
         /\ CallInv' /\ SubmitInv'
<1>1. pc' = [pc EXCEPT ![c] = place] /\ reply' = [reply EXCEPT ![c] = None] /\ log' = log
  BY DEF Continue
<1>2. /\ pc' \in [Calls -> Places] /\ job' \in [Calls -> Job \cup {None}]
      /\ reply' \in [Calls -> Record \cup {None}]
  BY <1>1 DEF TypeOK
<1>3. pc'[c] = place /\ reply'[c] = None /\ job'[c] = j
  BY <1>1 DEF TypeOK
<1>4. \A d \in Calls \ {c} : pc'[d] = pc[d] /\ job'[d] = job[d] /\ reply'[d] = reply[d]
  BY <1>1 DEF TypeOK
<1>5. CallInv'
  BY <1>1, <1>3, <1>4 DEF CallInv, At, Answered, SaveTook, Holds, Revision
<1>6. \A d \in Calls : pc'[d] \in Submissions => Holds(job'[d])
  BY <1>3, <1>4 DEF SubmitInv
<1>7. SubmitInv'
  BY <1>1, <1>6, LateKept DEF SubmitInv, Holds, Revision
<1> QED
  BY <1>2, <1>5, <1>7, LateKept

-----------------------------------------------------------------------------
(***************************************************************************)
(* The inductive invariant.                                                *)
(***************************************************************************)
LEMMA InitInv == Init => Inv
<1> SUFFICES ASSUME Init PROVE Inv
  OBVIOUS
<1>1. \A k \in Keys : log[k] = <<>> /\ Len(log[k]) = 0
  BY DEF Init
<1>2. TypeOK
  <2>1. log \in [Keys -> Seq(Version)] /\ \A k \in Keys : Len(log[k]) <= MaxRevision
    BY <1>1, BoundAssumption DEF Init
  <2>2. pc \in [Calls -> Places]
    BY OpFacts DEF Init
  <2> QED
    BY <2>1, <2>2 DEF Init, TypeOK, Revision, NoKey
<1>3. CallInv /\ SubmitInv
  BY DEF Init, CallInv, SubmitInv, At, Answered, Submissions
<1>4. SubmitsWhatWasEntered
  BY <1>1 DEF SubmitsWhatWasEntered, Revision
<1> QED
  BY <1>2, <1>3, <1>4 DEF Inv

\* The service, whoever it works for.
LEMMA ServiceLog ==
  ASSUME Inv
  PROVE  /\ \A c \in Calls : Answer(c) => LogStep
         /\ \A m \in late : CarryOutLate(m) \/ DropLate(m) => LogStep
         /\ \A k \in Keys : OtherSave(k) \/ OtherSubmit(k) => LogStep
<1>1. ASSUME NEW c \in Calls, Answer(c) PROVE LogStep
  <2>1. CarryOut(Message(c)) /\ pc[c] # "idle"
    BY <1>1 DEF Answer
  <2> QED
    BY <2>1, MessageFacts, CarriedOut DEF Inv
<1>2. ASSUME NEW m \in late, CarryOutLate(m) PROVE LogStep
  <2>1. m.op \in {"create", "save", "submit"} /\ m.job \in Job /\ (m.op = "submit" => Holds(m.job))
    BY DEF Inv, TypeOK, Request, SubmitInv
  <2> QED
    BY <1>2, <2>1, CarriedOut DEF CarryOutLate, Inv
<1>3. \A m : DropLate(m) => LogStep
  BY DEF DropLate, LogStep
<1>4. ASSUME NEW k \in Keys, OtherSave(k) \/ OtherSubmit(k) PROVE LogStep
  <2>1. PICK e : /\ e.entered = e.values /\ e.values \in Values
                 /\ e = [status |-> e.status, values |-> e.values, entered |-> e.entered]
                 /\ e.status \in {"Draft", "Submitted"}
                 /\ log' = [log EXCEPT ![k] = Append(@, e)]
    <3>1. CASE OtherSave(k)
      <4>1. PICK v \in Foreign : Append1(k, "Draft", v, v)
        BY <3>1 DEF OtherSave
      <4> DEFINE e == [status |-> "Draft", values |-> v, entered |-> v]
      <4>2. log' = [log EXCEPT ![k] = Append(@, e)]
        BY <4>1 DEF Append1
      <4>3. v \in Values
        BY ValuesAssumption
      <4> QED
        BY <4>2, <4>3
    <3>2. CASE OtherSubmit(k)
      <4> DEFINE v == Latest(k).values
                 e == [status |-> "Submitted", values |-> v, entered |-> v]
      <4>1. log' = [log EXCEPT ![k] = Append(@, e)]
        BY <3>2 DEF OtherSubmit, Append1
      <4>2. v \in Values
        BY <3>2, ValuesAssumption DEF OtherSubmit
      <4> QED
        BY <4>1, <4>2
    <3> QED
      BY <1>4, <3>1, <3>2
  <2>2. GoodVersion(e)
    BY <2>1 DEF GoodVersion, Version
  <2>3. Revision(k) \in 1..MaxRevision - 1 /\ Latest(k).status = "Draft"
    BY <1>4 DEF OtherSave, OtherSubmit, Changeable
  <2>4. Grown(k, e)
    BY <2>1, <2>3, BoundAssumption DEF Grown
  <2> QED
    BY <2>2, <2>4 DEF LogStep
<1> QED
  BY <1>1, <1>2, <1>3, <1>4

\* Whatever happens to the log, the calls keep what they have.
LEMMA CallsKept ==
  ASSUME Inv, LogStep, UNCHANGED <<pc, job, reply>>, late' \subseteq late
  PROVE  CallInv' /\ SubmitInv'
<1>1. ASSUME NEW c \in Calls
      PROVE  /\ Answered(c) => StillHolds(reply[c])
             /\ pc[c] \in Submissions => StillHolds(job[c])
  <2>1. /\ pc[c] \in Submissions => job[c].id \in Keys /\ Holds(job[c])
        /\ Answered(c) => reply[c].id \in Keys /\ Holds(reply[c])
    BY DEF Inv, TypeOK, CallInv, SubmitInv, Answered, Submissions, Job, Record
  <2> QED
    BY <2>1, HoldsKept DEF Inv
<1>2. CallInv'
  BY <1>1 DEF Inv, CallInv, At, Answered, SaveTook, Holds, StillHolds, Revision
<1>3. \A m \in late : m.op = "submit" => StillHolds(m.job)
  BY HoldsKept DEF Inv, SubmitInv, TypeOK, Request, Job
<1>4. SubmitInv'
  BY <1>1, <1>3 DEF SubmitInv, Holds, StillHolds, Revision
<1> QED
  BY <1>2, <1>4

\* A request is answered with the record it has made.
LEMMA AnswerStep ==
  ASSUME Inv, NEW c \in Calls, Answer(c)
  PROVE  /\ reply' \in [Calls -> Record \cup {None}]
         /\ CallInv' /\ SubmitInv'
<1> DEFINE k == job[c].id
           r == [id |-> k, revision |-> Len(log'[k]),
                 status |-> log'[k][Len(log'[k])].status, values |-> log'[k][Len(log'[k])].values]
<1>1. /\ pc[c] # "idle" /\ CarryOut(Message(c)) /\ UNCHANGED <<pc, job, late>>
      /\ reply' = [reply EXCEPT ![c] = r]
  BY DEF Answer, Canonical, Latest, Revision
<1>2. /\ LogStep /\ job[c] \in Job /\ Len(log'[k]) > 0
      /\ pc[c] = "saving" => r.revision > job[c].revision /\ r.values = job[c].values
  <2>1. pc[c] = "saving" => Message(c).op = "save"
    BY <1>1, MessageFacts, OpFacts DEF Inv
  <2> QED
    BY <1>1, <2>1, MessageFacts, CarriedOut DEF Inv
<1>3. /\ k \in Keys /\ log'[k] \in Seq(Version) /\ Len(log'[k]) \in 1..MaxRevision
      /\ log'[k][Len(log'[k])] \in Version
  <2>1. k \in Keys /\ log'[k] \in Seq(Version) /\ Len(log'[k]) <= MaxRevision
    BY <1>2, LogKept DEF Inv, Job
  <2>2. Len(log'[k]) \in Nat /\ Len(log'[k]) > 0
    BY <1>2, <2>1
  <2> QED
    BY <2>1, <2>2, BoundAssumption
<1>4. r \in Record
  BY <1>3 DEF Record, Version
<1>5. r.id = k /\ StillHolds(r)
  BY <1>3 DEF StillHolds
<1> HIDE DEF r
<1>6. reply' \in [Calls -> Record \cup {None}] /\ reply'[c] = r
  BY <1>1, <1>4 DEF Inv, TypeOK
<1>7. \A d \in Calls \ {c} : reply'[d] = reply[d]
  BY <1>1 DEF Inv, TypeOK
<1>8. ASSUME NEW d \in Calls
      PROVE  /\ pc[d] # "idle" => job[d] \in Job
             /\ reply'[d] # None => /\ pc[d] # "idle"
                                   /\ reply'[d].id = job[d].id
                                   /\ StillHolds(reply'[d])
             /\ pc[d] = "saving" /\ reply'[d] # None =>
                  reply'[d].revision > job[d].revision /\ reply'[d].values = job[d].values
  <2>1. CASE d = c
    BY <1>1, <1>2, <1>5, <1>6, <2>1
  <2>2. CASE d # c
    <3>1. Answered(d) => reply[d].id \in Keys
      BY DEF Inv, TypeOK, Answered, Record
    <3>2. Answered(d) => StillHolds(reply[d])
      BY <1>2, <3>1, HoldsKept DEF Inv, CallInv
    <3> QED
      BY <1>7, <2>2, <3>2 DEF Inv, CallInv, Answered, At, SaveTook
  <2> QED
    BY <2>1, <2>2
<1>9. CallInv'
  BY <1>1, <1>8 DEF CallInv, Answered, At, SaveTook, Holds, StillHolds, Revision
<1>10. \A d \in Calls : pc[d] \in Submissions => job[d].id \in Keys /\ Holds(job[d])
  BY DEF Inv, SubmitInv, CallInv, Submissions, Job
<1>11. \A m \in late : m.job.id \in Keys
  BY DEF Inv, TypeOK, Request, Job
<1>12. SubmitInv'
  BY <1>1, <1>2, <1>10, <1>11, HoldsKept DEF Inv, SubmitInv, Holds, StillHolds, Revision
<1> QED
  BY <1>6, <1>9, <1>12

\* A call begins.
LEMMA BeginStep ==
  ASSUME Inv, NEW c \in Calls, Create(c) \/ Submit(c)
  PROVE  /\ pc' \in [Calls -> Places] /\ job' \in [Calls -> Job \cup {None}]
         /\ key' \in Keys \cup {NoKey} /\ lastKey' \in Keys \cup {NoKey}
         /\ CallInv' /\ SubmitInv'
<1>1. /\ At(c, "idle") /\ ~Answered(c) /\ UNCHANGED <<log, late, reply>>
      /\ form \in Values /\ key \in Keys \cup {NoKey} /\ lastKey \in Keys \cup {NoKey}
  BY DEF Create, Submit, service, Inv, CallInv, TypeOK, At
<1>2. PICK place \in {"creating", "saving"}, j \in Job :
        pc' = [pc EXCEPT ![c] = place] /\ job' = [job EXCEPT ![c] = j]
  <2>1. CASE Create(c)
    <3>1. key' \in Keys
      BY <1>1, <2>1, BoundAssumption DEF Create, Keys, NoKey, creation
    <3>2. [id |-> key', revision |-> 0, values |-> form] \in Job
      BY <1>1, <3>1, BoundAssumption DEF Job
    <3> QED
      BY <2>1, <3>2 DEF Create
  <2>2. CASE Submit(c)
    <3>1. screen \in Record
      BY <2>2 DEF Submit, Inv, TypeOK
    <3>2. [id |-> screen.id, revision |-> screen.revision, values |-> form] \in Job
      BY <1>1, <3>1, BoundAssumption DEF Job, Record
    <3> QED
      BY <2>2, <3>2 DEF Submit
  <2> QED
    BY <2>1, <2>2
<1>3. pc' \in [Calls -> Places] /\ job' \in [Calls -> Job \cup {None}]
  BY <1>2, OpFacts DEF Inv, TypeOK
<1>4. key' \in Keys \cup {NoKey} /\ lastKey' \in Keys \cup {NoKey}
  BY <1>1, BoundAssumption DEF Create, Submit, creation, Keys, NoKey
<1>5. pc'[c] = place /\ job'[c] = j
  BY <1>2 DEF Inv, TypeOK
<1>6. \A d \in Calls \ {c} : pc'[d] = pc[d] /\ job'[d] = job[d]
  BY <1>2 DEF Inv, TypeOK
<1>7. CallInv'
  BY <1>1, <1>5, <1>6 DEF Inv, CallInv, At, Answered, SaveTook, Holds, Revision
<1>8. SubmitInv'
  BY <1>1, <1>5, <1>6 DEF Inv, SubmitInv, Submissions, Holds, Revision
<1> QED
  BY <1>3, <1>4, <1>7, <1>8

\* A call that waits comes to an end, or sends its next request.
Ends(c) ==
  Created(c) \/ CreateLost(c) \/ CreateRefused(c) \/ SaveNotConfirmed(c) \/ Submitted(c)
  \/ SubmitConfirmed(c) \/ SubmitOvertaken(c) \/ Fails(c)
GoesOn(c) == Saved(c) \/ SaveLost(c) \/ SaveConfirmed(c) \/ SubmitLost(c) \/ Resubmit(c)

LEMMA CallSteps ==
  ASSUME NEW c \in Calls, CallStep(c)
  PROVE  Answer(c) \/ Ends(c) \/ GoesOn(c)
  BY DEF CallStep, Reaction, CreateStep, SaveStep, SubmitStep, Ends, GoesOn

LEMMA EndStep ==
  ASSUME Inv, NEW c \in Calls, Ends(c)
  PROVE  /\ pc[c] # "idle" /\ UNCHANGED log /\ LateStep(c) /\ Settle(c)
         /\ UNCHANGED <<form, lastKey>> /\ key' \in {key, NoKey}
         /\ \/ Throw(c) /\ UNCHANGED shown
            \/ /\ Answered(c) /\ screen' = reply[c] /\ shown' = shown \cup {reply[c].id}
               /\ alert' \in {alert, "mismatch"} /\ UNCHANGED late
         /\ lostKeys' \subseteq lostKeys \cup {job[c].id}
  BY DEF Ends, Created, CreateLost, CreateRefused, SaveNotConfirmed, Submitted, SubmitConfirmed,
     SubmitOvertaken, Fails, ShowResult, Show, Throw, At, LateStep, service, creation

LEMMA GoOnStep ==
  ASSUME Inv, NEW c \in Calls, GoesOn(c)
  PROVE  /\ pc[c] # "idle" /\ UNCHANGED <<log, creation, page, history>> /\ LateStep(c)
         /\ \E place \in Places \ {"idle"}, j \in Job :
              /\ Continue(c, place) /\ job' = [job EXCEPT ![c] = j]
              /\ place \in Submissions => Holds(j)
<1>1. job[c] \in Job \/ At(c, "idle")
  BY DEF Inv, CallInv, At
<1>2. CASE Saved(c) \/ SaveConfirmed(c)
  <2>1. /\ Answered(c) /\ SaveTook(c) /\ SubmitSaved(c) /\ pc[c] # "idle"
    BY <1>2 DEF Saved, SaveConfirmed, Inv, CallInv, At
  <2> DEFINE j == [job[c] EXCEPT !.revision = reply[c].revision]
  <2>2. job[c] \in Job /\ reply[c] \in Record /\ reply[c].id = job[c].id /\ Holds(reply[c])
    BY <2>1 DEF Inv, CallInv, TypeOK, Answered
  <2>3. j \in Job /\ j.id = job[c].id /\ j.revision = reply[c].revision /\ j.values = job[c].values
    BY <2>2, BoundAssumption DEF Job, Record
  <2>4. job' = [job EXCEPT ![c] = j] /\ Continue(c, "submitting")
    BY <2>1 DEF SubmitSaved
  <2>5. Holds(j)
    BY <2>1, <2>2, <2>3 DEF Holds, SaveTook
  <2> HIDE DEF j
  <2> QED
    BY <2>1, <2>3, <2>4, <2>5, OpFacts DEF SubmitSaved, LateStep, service
<1>3. CASE SaveLost(c) \/ SubmitLost(c) \/ Resubmit(c)
  <2>1. /\ pc[c] # "idle" /\ UNCHANGED <<log, job, creation, page, history>> /\ LateStep(c)
    BY <1>3 DEF SaveLost, SubmitLost, Resubmit, At, LateStep, service
  <2>2. job[c] \in Job /\ job' = [job EXCEPT ![c] = job[c]]
    BY <1>1, <2>1 DEF Inv, TypeOK, At
  <2>3. pc[c] \in {"submitting", "checkingSubmit"} => Holds(job[c])
    BY DEF Inv, SubmitInv, Submissions
  <2>4. \/ Continue(c, "checkingSave")
        \/ Continue(c, "checkingSubmit") /\ pc[c] = "submitting"
        \/ Continue(c, "resubmitting") /\ pc[c] = "checkingSubmit"
    BY <1>3 DEF SaveLost, SubmitLost, Resubmit, At
  <2>5. "checkingSave" \notin Submissions
    BY DEF Submissions
  <2> QED
    BY <2>1, <2>2, <2>3, <2>4, <2>5, OpFacts
<1> QED
  BY <1>2, <1>3 DEF GoesOn

\* Every step keeps the invariant, and the log as it was or longer by one revision.
LEMMA StepInv == Inv /\ Next => Inv' /\ LogStep
<1> SUFFICES ASSUME Inv, Next PROVE Inv' /\ LogStep
  OBVIOUS
<1>1. ASSUME LogStep, CallInv', SubmitInv', late' \subseteq Request,
             pc' \in [Calls -> Places], job' \in [Calls -> Job \cup {None}],
             reply' \in [Calls -> Record \cup {None}],
             key' \in Keys \cup {NoKey}, lastKey' \in Keys \cup {NoKey},
             screen' \in Record \cup {None}, form' \in Values,
             alert' \in {"none", "failed", "mismatch"}, lostKeys' \subseteq Keys, shown' \subseteq Keys
      PROVE  Inv' /\ LogStep
  <2>1. SubmitsWhatWasEntered'
    BY <1>1, SubmitsKept DEF Inv
  <2>2. TypeOK'
    BY <1>1, LogKept DEF Inv, TypeOK, Revision
  <2> QED
    BY <1>1, <2>1, <2>2 DEF Inv
<1> USE DEF page, history, creation, service
<1>2. ASSUME NEW c \in Calls, Create(c) \/ Submit(c) PROVE Inv' /\ LogStep
  <2>1. /\ UNCHANGED <<log, late, reply, screen, form, lostKeys, shown>> /\ alert' = "none"
    BY <1>2 DEF Create, Submit
  <2>2. LogStep
    BY <2>1 DEF LogStep
  <2> QED
    BY <1>1, <1>2, <2>1, <2>2, BeginStep DEF Inv, TypeOK
<1>3. ASSUME NEW c \in Calls, Answer(c) PROVE Inv' /\ LogStep
  <2>1. UNCHANGED <<late, pc, job, key, lastKey, screen, form, alert, lostKeys, shown>>
    BY <1>3 DEF Answer
  <2> QED
    BY <1>1, <1>3, <2>1, AnswerStep, ServiceLog DEF Inv, TypeOK
<1>4. ASSUME NEW c \in Calls, Ends(c) PROVE Inv' /\ LogStep
  <2>1. LogStep
    BY <1>4, EndStep DEF LogStep
  <2>2. /\ pc' \in [Calls -> Places] /\ job' \in [Calls -> Job \cup {None}]
        /\ reply' \in [Calls -> Record \cup {None}] /\ late' \subseteq Request
        /\ CallInv' /\ SubmitInv'
    BY <1>4, EndStep, CallSettles DEF Inv
  <2>3. job[c].id \in Keys /\ (Answered(c) => reply[c] \in Record /\ reply[c].id \in Keys)
    BY <1>4, EndStep DEF Inv, CallInv, Job, Answered, TypeOK, Record
  <2>4. /\ screen' \in Record \cup {None} /\ alert' \in {"none", "failed", "mismatch"}
        /\ shown' \subseteq Keys /\ lostKeys' \subseteq Keys
    BY <1>4, <2>3, EndStep DEF Throw, Inv, TypeOK
  <2> QED
    BY <1>1, <1>4, <2>1, <2>2, <2>4, EndStep DEF Inv, TypeOK
<1>5. ASSUME NEW c \in Calls, GoesOn(c) PROVE Inv' /\ LogStep
  <2>1. LogStep
    BY <1>5, GoOnStep DEF LogStep
  <2>2. /\ pc' \in [Calls -> Places] /\ job' \in [Calls -> Job \cup {None}]
        /\ reply' \in [Calls -> Record \cup {None}] /\ late' \subseteq Request
        /\ CallInv' /\ SubmitInv'
    BY <1>5, GoOnStep, CallContinues DEF Inv
  <2> QED
    BY <1>1, <1>5, <2>1, <2>2, GoOnStep DEF Inv, TypeOK
<1>6. CASE Edit
  <2>1. LogStep /\ UNCHANGED <<late, pc, job, reply, key, lastKey, screen, alert, lostKeys, shown>> /\ form' \in Values
    BY <1>6 DEF Edit, LogStep
  <2> QED
    BY <1>1, <2>1, CallsKept DEF Inv, TypeOK
<1>7. ASSUME LogStep, late' \subseteq late, UNCHANGED <<pc, job, reply, creation, page, history>>
      PROVE  Inv' /\ LogStep
  BY <1>1, <1>7, CallsKept DEF Inv, TypeOK
<1>8. ASSUME NEW m \in late, CarryOutLate(m) \/ DropLate(m) PROVE Inv' /\ LogStep
  BY <1>7, <1>8, ServiceLog DEF CarryOutLate, DropLate
<1>9. ASSUME NEW k \in Keys, OtherSave(k) \/ OtherSubmit(k) PROVE Inv' /\ LogStep
  BY <1>7, <1>9, ServiceLog DEF OtherSave, OtherSubmit
<1> QED
  BY <1>2, <1>3, <1>4, <1>5, <1>6, <1>8, <1>9, CallSteps DEF Next

-----------------------------------------------------------------------------
(***************************************************************************)
(* Creates that do not overlap.                                            *)
(***************************************************************************)
\* A request changes its own record only, and one that creates a record changes
\* none that exists.
LEMMA CarriedOutWhere ==
  ASSUME TypeOK, NEW m, m.op \in {"create", "save", "submit", "read"}, m.job \in Job, CarryOut(m)
  PROVE  /\ \A k \in Keys \ {m.job.id} : log'[k] = log[k]
         /\ m.op = "create" /\ Revision(m.job.id) > 0 => UNCHANGED log
         /\ m.op # "create" => Revision(m.job.id) > 0
         /\ m.op \in {"save", "submit"} /\ ~(Expected(m.job) /\ Changeable(m.job.id)) => UNCHANGED log
         /\ m.op = "submit" /\ Latest(m.job.id).values \notin Valid => UNCHANGED log
<1>1. \A status, values, entered : Append1(m.job.id, status, values, entered) =>
        \A k \in Keys \ {m.job.id} : log'[k] = log[k]
  BY DEF Append1, TypeOK
<1>2. m.job.id \in Keys /\ Len(log[m.job.id]) \in Nat
  BY DEF Job, TypeOK
<1>3. CASE m.op = "create"
  BY <1>1, <1>2, <1>3 DEF CarryOut, CarryOutCreate, Revision
<1>4. CASE m.op = "save"
  BY <1>1, <1>2, <1>4 DEF CarryOut, CarryOutSave, Expected
<1>5. CASE m.op = "submit"
  BY <1>1, <1>2, <1>5 DEF CarryOut, CarryOutSubmit, Expected
<1>6. CASE m.op = "read"
  BY <1>6 DEF CarryOut
<1> QED
  BY <1>3, <1>4, <1>5, <1>6

\* Records the log steps make are shown, or under the key.
LEMMA OrphanKept ==
  ASSUME NoOrphanDraft, LogStep, TypeOK, shown \subseteq shown', key' = key \/ key = NoKey \/ key \in shown',
         \A k \in Keys \ (shown \cup {key}) : log'[k] = log[k]
  PROVE  NoOrphanDraft'
<1>1. ASSUME NEW k \in Keys, Len(log'[k]) > 0 PROVE k \in shown' \cup {key'}
  <2>1. k \in shown \cup {key}
    BY <1>1 DEF NoOrphanDraft, Revision
  <2> QED
    BY <2>1, NoneFacts
<1> QED
  BY <1>1 DEF NoOrphanDraft, Revision

LEMMA InitCreate == Init => CreateInv
  BY NoneFacts DEF Init, CreateInv, KeyInv, NoOrphanDraft, LostKeyIsReused, At, InSubmission, Saves,
     Submissions, Revision, Keys, NoKey

\* A revision of a record is a number, and so is the one a job names.
LEMMA Numbers ==
  ASSUME TypeOK
  PROVE  /\ \A k \in Keys : Len(log[k]) \in Nat
         /\ \A j \in Job : j.id \in Keys /\ j.revision \in Nat
         /\ \A r \in Record : /\ r.id \in Keys /\ r.revision \in Nat
                              /\ r.status \in {"Draft", "Submitted"}
         /\ \A m \in late : m.job \in Job /\ m.op \in {"create", "save", "submit"}
  BY BoundAssumption DEF TypeOK, Job, Record, Request

\* The key is NoKey, or made by randomUUID.
LEMMA StepCreate ==
  ASSUME Inv, CreateInv, CreatesInTime, Next
  PROVE  CreateInv'
<1> USE DEF page, history, creation, service
<1>0. LogStep
  BY StepInv
<1>1. ASSUME NEW c \in Calls, Create(c) PROVE CreateInv'
  <2>1. /\ UNCHANGED <<log, late, reply, screen, shown, lostKeys>>
        /\ pc' = [pc EXCEPT ![c] = "creating"] /\ job'[c].id = key' /\ At(c, "idle")
        /\ \A d \in Calls \ {c} : job'[d] = job[d]
    BY <1>1 DEF Create, Inv, TypeOK
  <2>2. /\ pc'[c] = "creating" /\ \A d \in Calls \ {c} : pc'[d] = pc[d]
    BY <2>1 DEF Inv, TypeOK
  <2>3. \/ key' = key /\ lastKey' = lastKey /\ key # NoKey
        \/ key = NoKey /\ lastKey' = lastKey + 1 /\ key' = lastKey' /\ key' \in Keys
    BY <1>1, BoundAssumption DEF Create, Inv, TypeOK, Keys, NoKey
  <2>4. key' \notin shown /\ \A k \in Keys : lastKey' < k => k \notin shown /\ k # key'
    <3>1. lastKey \in 0..MaxKeys /\ key \in 0..MaxKeys /\ Keys \subseteq Nat
      BY BoundAssumption DEF Inv, TypeOK, Keys, NoKey
    <3>2. CASE key' = key /\ lastKey' = lastKey
      BY <3>2 DEF CreateInv, KeyInv
    <3>3. CASE lastKey' = lastKey + 1 /\ key' = lastKey' /\ key' \in Keys
      <4>1. \A k \in Keys : lastKey' <= k => lastKey < k
        BY <3>1, <3>3
      <4>2. \A k \in Keys : lastKey' < k => lastKey' <= k /\ k # lastKey'
        BY <3>1, <3>3
      <4>3. lastKey' <= lastKey'
        BY <3>1, <3>3
      <4> QED
        BY <3>3, <4>1, <4>2, <4>3 DEF CreateInv, KeyInv
    <3> QED
      BY <2>3, <3>2, <3>3
  <2>5. \A d \in Calls : /\ pc'[d] = "creating" => job'[d].id \in shown \cup {key'}
                         /\ pc'[d] \in Saves \cup Submissions => job'[d].id \in shown
    <3>1. ASSUME NEW d \in Calls \ {c}, pc[d] = "creating", job[d].id = key PROVE key' = key
      <4>1. key \in Keys
        BY <3>1 DEF Inv, CallInv, Job
      <4> QED
        BY <2>3, <4>1, NoneFacts
    <3> QED
      BY <2>1, <2>2, <3>1 DEF CreateInv, KeyInv, At, InSubmission, Saves, Submissions
  <2>6. \A m \in late : m.job.id \in shown \/ (m.job.id = key' /\ m.op = "create")
    BY <2>3, NoneFacts DEF CreateInv, KeyInv, Inv, TypeOK, Request, Job
  <2>7. KeyInv'
    BY <2>1, <2>4, <2>5, <2>6 DEF CreateInv, KeyInv, At, InSubmission
  <2>8. NoOrphanDraft' /\ LostKeyIsReused'
    BY <2>1, <2>3, NoneFacts DEF CreateInv, NoOrphanDraft, LostKeyIsReused, Revision, Inv, TypeOK
  <2> QED
    BY <2>7, <2>8 DEF CreateInv
<1>2. ASSUME NEW c \in Calls, Submit(c) PROVE CreateInv'
  <2>1. /\ UNCHANGED <<log, late, key, lastKey, screen, shown, lostKeys>>
        /\ pc' = [pc EXCEPT ![c] = "saving"] /\ screen # None /\ job'[c].id = screen.id
        /\ \A d \in Calls \ {c} : job'[d] = job[d]
    BY <1>2 DEF Submit, Inv, TypeOK
  <2>2. pc'[c] = "saving" /\ \A d \in Calls \ {c} : pc'[d] = pc[d]
    BY <2>1 DEF Inv, TypeOK
  <2> QED
    BY <2>1, <2>2 DEF CreateInv, KeyInv, NoOrphanDraft, LostKeyIsReused, Revision, At, InSubmission, Saves
<1>3. ASSUME NEW c \in Calls, Answer(c) PROVE CreateInv'
  <2>1. /\ UNCHANGED <<late, pc, job, key, lastKey, screen, shown, lostKeys>>
        /\ CarryOut(Message(c)) /\ pc[c] # "idle"
    BY <1>3 DEF Answer
  <2>2. job[c].id \in shown \cup {key}
    BY <2>1, OpFacts DEF CreateInv, KeyInv, At, InSubmission, Saves, Submissions, Inv, TypeOK
  <2>3. \A k \in Keys \ (shown \cup {key}) : log'[k] = log[k]
    BY <2>1, <2>2, MessageFacts, CarriedOutWhere DEF Inv
  <2>4. NoOrphanDraft'
    BY <1>0, <2>1, <2>3, OrphanKept DEF CreateInv, Inv
  <2> QED
    BY <2>1, <2>4 DEF CreateInv, KeyInv, LostKeyIsReused, At, InSubmission
<1>4. ASSUME NEW c \in Calls, Ends(c) PROVE CreateInv'
  <2>1. /\ pc[c] # "idle" /\ UNCHANGED <<log, lastKey>> /\ LateStep(c) /\ Settle(c)
        /\ pc[c] \in Places
    BY <1>4, EndStep DEF Inv, TypeOK
  <2>2. /\ pc'[c] = "idle" /\ \A d \in Calls \ {c} : pc'[d] = pc[d] /\ job'[d] = job[d]
    BY <2>1 DEF Settle, Continue, Inv, TypeOK
  <2>3. late' \subseteq late \cup {Message(c)} /\ Message(c).op = Op[pc[c]] /\ Message(c).job = job[c]
    BY <2>1 DEF LateStep, GivenUp, Message
  <2>4. /\ At(c, "creating") => job[c].id \in shown \cup {key}
        /\ ~At(c, "creating") => job[c].id \in shown
    BY <2>1, OpFacts DEF CreateInv, KeyInv, At, InSubmission, Saves, Submissions
  <2>5. /\ shown' = shown \/ (Answered(c) /\ shown' = shown \cup {job[c].id})
        /\ screen' = screen \/ (screen'.id = job[c].id /\ shown' = shown \cup {job[c].id})
    BY <1>4, EndStep DEF Throw, Inv, CallInv
  <2>6. CASE At(c, "creating") /\ ~Created(c)
    <3>1. UNCHANGED <<key, screen, shown>> /\ lostKeys' \subseteq lostKeys \cup shown \cup {key}
      BY <1>4, <2>4, <2>6 DEF Ends, CreateLost, CreateRefused, SaveNotConfirmed, Submitted, SubmitConfirmed,
         SubmitOvertaken, Fails, Throw, At
    <3>2. Message(c).op = "create"
      BY <2>3, <2>6, OpFacts DEF At
    <3>3. \A m \in late' : m.job.id \in shown \/ (m.job.id = key /\ m.op = "create")
      BY <2>3, <2>4, <2>6, <3>2 DEF CreateInv, KeyInv
    <3> QED
      BY <2>1, <2>2, <3>1, <3>3 DEF CreateInv, KeyInv, NoOrphanDraft, LostKeyIsReused, Revision, At,
         InSubmission, Saves, Submissions
  <2>7. CASE Created(c)
    <3>1. /\ shown' = shown \cup {job[c].id} /\ key' = NoKey /\ UNCHANGED <<late, lostKeys>>
          /\ screen'.id = job[c].id
      BY <2>7 DEF Created, Show, Inv, CallInv
    <3>2. job[c].id \in Keys /\ shown \subseteq Keys
      BY <2>1, Numbers DEF Inv, CallInv, TypeOK
    <3>3. key \in Keys => key = job[c].id
      BY <2>7, NoneFacts DEF Created, CreatesInTime
    <3>4. \A k \in Keys : lastKey' < k => k \notin shown'
      BY <2>1, <2>4, <2>7, <3>1 DEF CreateInv, KeyInv, Created
    <3>5. shown \cup {key} \subseteq shown' \cup {NoKey}
      BY <3>1, <3>3 DEF Inv, TypeOK
    <3>6. \A d \in Calls \ {c} : At(d, "creating") => job[d].id \in shown'
      <4>1. \A d \in Calls \ {c} : At(d, "creating") => job[d].id \in shown \cup {key} /\ job[d].id # NoKey
        BY Numbers, NoneFacts DEF CreateInv, KeyInv, Inv, CallInv, At
      <4> QED
        BY <3>5, <4>1
    <3>7. \A m \in late : m.job.id \in shown'
      <4>1. \A m \in late : m.job.id \in shown \cup {key} /\ m.job.id # NoKey
        BY Numbers, NoneFacts DEF CreateInv, KeyInv, Inv
      <4> QED
        BY <3>5, <4>1
    <3>8. KeyInv'
      BY <2>2, <3>1, <3>2, <3>4, <3>6, <3>7, NoneFacts DEF CreateInv, KeyInv, At, InSubmission, Saves, Submissions
    <3> QED
      BY <2>1, <3>1, <3>5, <3>8, NoneFacts DEF CreateInv, NoOrphanDraft, LostKeyIsReused, Revision
  <2>8. CASE ~At(c, "creating")
    <3>1. UNCHANGED <<key, lostKeys>>
      BY <1>4, <2>8 DEF Ends, Created, CreateLost, CreateRefused, SaveNotConfirmed, Submitted, SubmitConfirmed,
         SubmitOvertaken, Fails, ShowResult, Show, Throw, At
    <3>2. shown' = shown
      BY <2>4, <2>5, <2>8
    <3>3. \A m \in late' : m.job.id \in shown \/ (m.job.id = key /\ m.op = "create")
      BY <2>3, <2>4, <2>8 DEF CreateInv, KeyInv
    <3>4. screen' # None => screen'.id \in shown
      BY <2>4, <2>5, <2>8 DEF CreateInv, KeyInv
    <3> QED
      BY <2>1, <2>2, <3>1, <3>2, <3>3, <3>4 DEF CreateInv, KeyInv, NoOrphanDraft, LostKeyIsReused, Revision,
         At, InSubmission, Saves, Submissions
  <2> QED
    BY <2>6, <2>7, <2>8 DEF Created
<1>5. ASSUME NEW c \in Calls, GoesOn(c) PROVE CreateInv'
  <2>1. /\ pc[c] \in Saves \cup Submissions /\ pc' = [pc EXCEPT ![c] = pc'[c]]
        /\ pc'[c] \in Saves \cup Submissions /\ job'[c].id = job[c].id
        /\ \A d \in Calls \ {c} : pc'[d] = pc[d] /\ job'[d] = job[d]
    BY <1>5 DEF GoesOn, Saved, SaveLost, SaveConfirmed, SubmitLost, Resubmit, SubmitSaved, Continue, At,
       Saves, Submissions, Inv, TypeOK, CallInv, Job
  <2>2. UNCHANGED <<log, key, lastKey, screen, shown, lostKeys>> /\ LateStep(c)
    BY <1>5, GoOnStep
  <2>3. job[c].id \in shown
    BY <2>1 DEF CreateInv, KeyInv, InSubmission
  <2>4. \A m \in late' : m.job.id \in shown \/ (m.job.id = key /\ m.op = "create")
    BY <2>2, <2>3 DEF LateStep, GivenUp, Message, CreateInv, KeyInv
  <2>5. \A d \in Calls : /\ pc'[d] = "creating" => job'[d].id \in shown \cup {key}
                         /\ pc'[d] \in Saves \cup Submissions => job'[d].id \in shown
    BY <2>1, <2>3 DEF CreateInv, KeyInv, At, InSubmission, Saves, Submissions
  <2> QED
    BY <2>2, <2>4, <2>5 DEF CreateInv, KeyInv, NoOrphanDraft, LostKeyIsReused, Revision, At, InSubmission
<1>6. CASE Edit
  BY <1>6 DEF Edit, CreateInv, KeyInv, NoOrphanDraft, LostKeyIsReused, Revision, At, InSubmission
<1>7. ASSUME late' \subseteq late, UNCHANGED <<pc, job, reply, creation, page, history>>,
             \A k \in Keys \ (shown \cup {key}) : log'[k] = log[k]
      PROVE  CreateInv'
  <2>1. NoOrphanDraft'
    BY <1>0, <1>7, OrphanKept DEF CreateInv, Inv
  <2> QED
    BY <1>7, <2>1 DEF CreateInv, KeyInv, LostKeyIsReused, At, InSubmission
<1>8. ASSUME NEW m \in late, CarryOutLate(m) \/ DropLate(m) PROVE CreateInv'
  <2>1. m.job.id \in shown \cup {key} /\ m.job \in Job /\ m.op \in {"create", "save", "submit", "read"}
    BY DEF CreateInv, KeyInv, Inv, TypeOK, Request
  <2>2. CarryOut(m) => \A k \in Keys \ (shown \cup {key}) : log'[k] = log[k]
    BY <2>1, CarriedOutWhere DEF Inv
  <2> QED
    BY <1>7, <1>8, <2>2 DEF CarryOutLate, DropLate
<1>9. ASSUME NEW k \in Keys, OtherSave(k) \/ OtherSubmit(k) PROVE CreateInv'
  <2>1. Revision(k) > 0
    BY <1>9, BoundAssumption DEF OtherSave, OtherSubmit, Changeable
  <2>2. k \in shown \cup {key}
    BY <2>1 DEF CreateInv, NoOrphanDraft
  <2>3. \A q \in Keys \ {k} : log'[q] = log[q]
    BY <1>9 DEF OtherSave, OtherSubmit, Append1, Inv, TypeOK
  <2> QED
    BY <1>7, <1>9, <2>2, <2>3 DEF OtherSave, OtherSubmit
<1> QED
  BY <1>1, <1>2, <1>3, <1>4, <1>5, <1>6, <1>8, <1>9, CallSteps DEF Next

-----------------------------------------------------------------------------
(***************************************************************************)
(* Calls that do not overlap their own kind, with nobody else at work.     *)
(***************************************************************************)
LEMMA DeadChangesNothing ==
  ASSUME Inv, NEW m \in late, Dead(m), CarryOut(m)
  PROVE  UNCHANGED log
<1>1. m.op \in {"create", "save", "submit"} /\ m.job \in Job
  BY DEF Inv, TypeOK, Request
<1>2. m.op = "create" => Revision(m.job.id) > 0
  BY DEF Dead
<1>3. m.op = "save" => ~(Expected(m.job) /\ Changeable(m.job.id))
  BY DEF Dead
<1>4. m.op = "submit" => ~(Expected(m.job) /\ Changeable(m.job.id)) \/ Latest(m.job.id).values \notin Valid
  BY DEF Dead
<1> QED
  BY <1>1, <1>2, <1>3, <1>4, CarriedOutWhere DEF Inv

\* What a call is about to show without an error.
ToShow(c) ==
  /\ Answered(c)
  /\ \/ At(c, "creating")
     \/ pc[c] \in Submissions /\ reply[c].status = "Submitted"
     \/ pc[c] \in {"submitting", "resubmitting"}

\* It is the record as it is, and nothing on its way can change that.
LEMMA ShownIsSettled ==
  ASSUME Inv, KeyInv, UnderKeyInv, LateSaveInv, AnswerInv, NEW c \in Calls, ToShow(c)
  PROVE  /\ reply[c] = Canonical(job[c].id) /\ reply[c].id = job[c].id
         /\ Settled(job[c].id)
         /\ pc[c] \in Submissions => job[c].revision <= reply[c].revision
<1> DEFINE k == job[c].id
<1>1. /\ job[c] \in Job /\ reply[c] \in Record /\ reply[c].id = k /\ Holds(reply[c])
      /\ k \in Keys /\ Len(log[k]) \in Nat /\ reply[c].status \in {"Draft", "Submitted"}
      /\ job[c].revision \in Nat
  BY Numbers DEF ToShow, Inv, CallInv, TypeOK, Answered
<1>2. reply[c] = Canonical(k)
  BY <1>1 DEF ToShow, AnswerInv
<1>3. reply[c].revision = Revision(k) /\ reply[c].status = Latest(k).status /\ reply[c].values = Latest(k).values
  BY <1>2 DEF Canonical
<1>4. Len(log[k]) > 0
  BY <1>1 DEF Holds, Revision
<1>5. pc[c] \in Submissions => job[c].revision <= reply[c].revision
  BY <1>1, <1>3 DEF Inv, SubmitInv, Holds, Revision
<1>6. ASSUME NEW m \in late, m.job.id = k PROVE Dead(m)
  <2>1. m.op \in {"create", "save", "submit"} /\ m.job.revision \in Nat
    BY Numbers DEF Inv
  <2>2. CASE m.op = "create"
    BY <1>4, <1>6, <2>2 DEF Dead, Revision
  <2>3. CASE m.op # "create" /\ At(c, "creating")
    BY <1>6, <2>3 DEF KeyInv, UnderKeyInv
  <2>4. CASE m.op # "create" /\ reply[c].status = "Submitted"
    <3>1. ~Changeable(k)
      BY <1>3, <2>4 DEF Changeable
    <3> QED
      BY <1>6, <2>1, <2>4, <3>1 DEF Dead
  <2>5. CASE m.op # "create" /\ pc[c] \in {"submitting", "resubmitting"} /\ reply[c].status = "Draft"
    <3>1. /\ reply[c].revision = job[c].revision /\ reply[c].values \notin Valid
          /\ InSubmission(c) /\ pc[c] \in Submissions
      BY <2>5 DEF AnswerInv, ToShow, InSubmission, Submissions
    <3>2. m.op = "submit" => Dead(m)
      BY <1>3, <1>6, <3>1 DEF Dead
    <3>3. m.op = "save" => m.job.revision < Revision(k)
      BY <1>3, <1>6, <3>1 DEF LateSaveInv
    <3>4. m.op = "save" => ~Expected(m.job)
      BY <1>1, <1>6, <2>1, <3>3 DEF Expected, Revision
    <3> QED
      BY <2>1, <2>5, <3>2, <3>4 DEF Dead
  <2> QED
    BY <1>1, <2>1, <2>2, <2>3, <2>4, <2>5 DEF ToShow
<1> QED
  BY <1>1, <1>2, <1>5, <1>6 DEF Settled

LEMMA ShowsToShow ==
  ASSUME Inv, NEW c \in Calls, Ends(c), ~Throw(c)
  PROVE  /\ ToShow(c) /\ screen' = reply[c] /\ UNCHANGED late
         /\ Created(c) \/ pc[c] \in Submissions
  BY DEF Ends, Created, CreateLost, CreateRefused, SaveNotConfirmed, Submitted, SubmitConfirmed,
     SubmitOvertaken, Fails, ShowResult, Show, ToShow, Submissions, At, service

\* Two calls at work work on different records.
LEMMA Apart ==
  ASSUME Inv, KeyInv, UnderKeyInv, CreatesAlone, SubmitsAlone, NEW c \in Calls, NEW d \in Calls, c # d,
         pc[c] # "idle", pc[d] # "idle"
  PROVE  job[c].id # job[d].id
<1>1. /\ At(c, "creating") \/ InSubmission(c)
      /\ At(d, "creating") \/ InSubmission(d)
  BY OpFacts DEF At, InSubmission, Saves, Submissions, Inv, TypeOK
<1> QED
  BY <1>1 DEF KeyInv, UnderKeyInv, CreatesAlone, SubmitsAlone

\* What the end of a call changes, and what sending its next request.
LEMMA EndFrame ==
  ASSUME Inv, NEW c \in Calls, Ends(c)
  PROVE  /\ pc'[c] = "idle" /\ reply'[c] = None /\ UNCHANGED log
         /\ \A d \in Calls \ {c} : pc'[d] = pc[d] /\ job'[d] = job[d] /\ reply'[d] = reply[d]
         /\ \A m \in late' : m \in late \/ (m.job = job[c] /\ m.op = Op[pc[c]])
         /\ Throw(c) => UNCHANGED screen /\ alert' = "failed"
<1>1. UNCHANGED log /\ LateStep(c) /\ Settle(c)
  BY EndStep
<1>2. \A m \in late' : m \in late \/ (m.job = job[c] /\ m.op = Op[pc[c]])
  BY <1>1 DEF LateStep, GivenUp, Message
<1> QED
  BY <1>1, <1>2 DEF Settle, Continue, Throw, Inv, TypeOK

LEMMA GoOnFrame ==
  ASSUME Inv, NEW c \in Calls, GoesOn(c)
  PROVE  /\ pc[c] \in Saves \cup Submissions /\ pc'[c] \in Saves \cup Submissions
         /\ reply'[c] = None /\ UNCHANGED <<log, screen, alert>> /\ job'[c].id = job[c].id
         /\ \A d \in Calls \ {c} : pc'[d] = pc[d] /\ job'[d] = job[d] /\ reply'[d] = reply[d]
         /\ \/ /\ pc[c] \in Saves /\ pc'[c] \in Saves /\ job'[c] = job[c]
               /\ \A m \in late' : m \in late \/ m.job = job[c]
            \/ /\ pc[c] \in Saves /\ pc'[c] \in Submissions /\ UNCHANGED late
               /\ job'[c].revision = reply[c].revision /\ SaveTook(c) /\ Answered(c)
            \/ /\ pc[c] \in Submissions /\ pc'[c] \in Submissions /\ job'[c] = job[c]
               /\ \A m \in late' : m \in late \/ m.op = "submit"
<1> USE DEF Continue, At, Saves, Submissions, Inv, TypeOK
<1>1. UNCHANGED <<log, screen, alert>>
  BY GoOnStep DEF page
<1>2. CASE SaveLost(c)
  BY <1>1, <1>2 DEF SaveLost, GivenUp, Message
<1>3. CASE Saved(c) \/ SaveConfirmed(c)
  <2>1. pc[c] \in Saves /\ SaveTook(c) /\ Answered(c) /\ SubmitSaved(c)
    BY <1>3 DEF Saved, SaveConfirmed, CallInv
  <2>2. job[c] \in Job
    BY <2>1 DEF CallInv
  <2>3. job'[c] = [job[c] EXCEPT !.revision = reply[c].revision]
    BY <2>1 DEF SubmitSaved
  <2>4. job'[c].id = job[c].id /\ job'[c].revision = reply[c].revision
    BY <2>2, <2>3 DEF Job
  <2> QED
    BY <1>1, <2>1, <2>4 DEF SubmitSaved, service
<1>4. CASE SubmitLost(c)
  BY <1>1, <1>4, OpFacts DEF SubmitLost, GivenUp, Message
<1>5. CASE Resubmit(c)
  BY <1>1, <1>5 DEF Resubmit, service
<1> QED
  BY <1>2, <1>3, <1>4, <1>5 DEF GoesOn

\* Steps that leave the calls and the form alone.
Beside == late' \subseteq late /\ UNCHANGED <<pc, job, reply, creation, screen, alert>>
LEMMA BesideSteps ==
  Next => \/ \E c \in Calls : Create(c) \/ Submit(c) \/ Answer(c) \/ Ends(c) \/ GoesOn(c)
          \/ Beside
<1>1. Edit => Beside
  BY DEF Edit, Beside, service
<1>2. \A m \in late : CarryOutLate(m) \/ DropLate(m) => Beside
  BY DEF CarryOutLate, DropLate, Beside, page
<1>3. \A k \in Keys : OtherSave(k) \/ OtherSubmit(k) => Beside
  BY DEF OtherSave, OtherSubmit, Beside, page
<1> QED
  BY <1>1, <1>2, <1>3, CallSteps DEF Next

\* A create that is alone is under the key, and so is the next.
LEMMA StepUnderKey ==
  ASSUME Inv, UnderKeyInv, CreatesAlone, Next
  PROVE  UnderKeyInv'
<1> USE DEF At
<1>1. ASSUME NEW c \in Calls, Create(c) PROVE UnderKeyInv'
  <2>1. /\ job'[c].id = key' /\ \A d \in Calls \ {c} : pc'[d] = pc[d] /\ job'[d] = job[d]
        /\ key # NoKey => key' = key
    BY <1>1 DEF Create, creation, Inv, TypeOK
  <2>2. \A d \in Calls : pc[d] = "creating" => key # NoKey
    BY Numbers, NoneFacts DEF UnderKeyInv, Inv, CallInv
  <2> QED
    BY <2>1, <2>2 DEF UnderKeyInv
<1>2. ASSUME NEW c \in Calls, Submit(c) \/ GoesOn(c) PROVE UnderKeyInv'
  <2>1. pc'[c] # "creating" /\ UNCHANGED key /\ \A d \in Calls \ {c} : pc'[d] = pc[d] /\ job'[d] = job[d]
    <3>1. CASE Submit(c)
      BY <3>1 DEF Submit, creation, Inv, TypeOK
    <3>2. CASE GoesOn(c)
      BY <3>2, GoOnFrame, GoOnStep DEF Saves, Submissions, creation
    <3> QED
      BY <1>2, <3>1, <3>2
  <2> QED
    BY <2>1 DEF UnderKeyInv
<1>3. ASSUME NEW c \in Calls, Ends(c) PROVE UnderKeyInv'
  <2>1. pc'[c] = "idle" /\ \A d \in Calls \ {c} : pc'[d] = pc[d] /\ job'[d] = job[d]
    BY <1>3, EndFrame
  <2>2. pc[c] = "creating" \/ UNCHANGED key
    BY <1>3 DEF Ends, Created, CreateLost, CreateRefused, SaveNotConfirmed, Submitted, SubmitConfirmed,
       SubmitOvertaken, Fails, ShowResult, Show, Throw, creation
  <2> QED
    BY <2>1, <2>2 DEF UnderKeyInv, CreatesAlone
<1>4. CASE (\E c \in Calls : Answer(c)) \/ Beside
  BY <1>4 DEF Answer, Beside, creation, UnderKeyInv
<1> QED
  BY <1>1, <1>2, <1>3, <1>4, BesideSteps

LEMMA StepLateSave ==
  ASSUME Inv, KeyInv, UnderKeyInv, LateSaveInv, AnswerInv, SubmitsAlone, Next
  PROVE  LateSaveInv'
<1>0. \A m \in late : m.op = "save" => m.job.id \in shown
  BY DEF KeyInv
<1>1. ASSUME NEW c \in Calls, Create(c) PROVE LateSaveInv'
  <2>1. /\ pc'[c] = "creating" /\ UNCHANGED <<late, screen>>
        /\ \A d \in Calls \ {c} : pc'[d] = pc[d] /\ job'[d] = job[d]
    BY <1>1 DEF Create, service, Inv, TypeOK
  <2> QED
    BY <2>1 DEF LateSaveInv, InSubmission, Saves, Submissions
<1>2. ASSUME NEW c \in Calls, Submit(c) PROVE LateSaveInv'
  <2>1. /\ pc'[c] = "saving" /\ UNCHANGED <<late, screen>> /\ screen # None
        /\ job'[c].id = screen.id /\ job'[c].revision = screen.revision
        /\ \A d \in Calls \ {c} : pc'[d] = pc[d] /\ job'[d] = job[d]
    BY <1>2 DEF Submit, service, Inv, TypeOK
  <2>2. screen.revision <= screen.revision
    BY <2>1, Numbers DEF Inv, TypeOK
  <2> QED
    BY <2>1, <2>2 DEF LateSaveInv, InSubmission, Saves, Submissions
<1>3. ASSUME NEW c \in Calls, Answer(c) PROVE LateSaveInv'
  BY <1>3 DEF Answer, page, LateSaveInv, InSubmission
<1>4. ASSUME NEW c \in Calls, Ends(c) PROVE LateSaveInv'
  <2>1. CASE Throw(c)
    <3>1. \A d \in Calls : pc'[d] \in Saves \cup Submissions =>
            d # c /\ pc'[d] = pc[d] /\ job'[d] = job[d] /\ InSubmission(d)
      BY <1>4, EndFrame DEF InSubmission, Saves, Submissions
    <3>2. ASSUME NEW m \in late', m \notin late, m.op = "save"
          PROVE  m.job = job[c] /\ pc[c] = "saving"
      <4>1. m.job = job[c] /\ Op[pc[c]] = "save" /\ pc[c] \in Places
        BY <1>4, <3>2, EndFrame, EndStep DEF Inv, TypeOK
      <4>2. pc[c] # "idle"
        BY <1>4, EndStep
      <4> QED
        BY <4>1, <4>2, OpFacts
    <3>3. ASSUME NEW m \in late', m \notin late, m.op = "save", NEW d \in Calls, d # c
          PROVE  ~InSubmission(d)
      BY <3>2, <3>3 DEF SubmitsAlone, InSubmission, Saves
    <3>4. ASSUME NEW m \in late', m \notin late, m.op = "save", screen # None, screen.id = m.job.id
          PROVE  m.job.revision <= screen.revision
      BY <3>2, <3>4 DEF LateSaveInv, Saves
    <3> QED
      BY <2>1, <1>4, <3>1, <3>3, <3>4, EndFrame DEF LateSaveInv, InSubmission, Saves
  <2>2. CASE ~Throw(c)
    <3>1. ToShow(c) /\ screen' = reply[c] /\ UNCHANGED late /\ reply[c].id = job[c].id
      BY <1>4, <2>2, ShowsToShow DEF Inv, CallInv, ToShow
    <3>2. CASE At(c, "creating")
      <4>1. screen'.id \notin shown
        BY <3>1, <3>2 DEF KeyInv, UnderKeyInv
      <4>2. \A d \in Calls : InSubmission(d)' => d # c /\ pc'[d] = pc[d] /\ job'[d] = job[d] /\ job[d].id \in shown
        BY <1>4, EndFrame DEF InSubmission, Saves, Submissions, KeyInv
      <4> QED
        BY <1>0, <3>1, <4>1, <4>2 DEF LateSaveInv, InSubmission
    <3>3. CASE pc[c] \in Submissions
      <4>1. \A d \in Calls : ~InSubmission(d)'
        BY <1>4, <3>3, EndFrame DEF SubmitsAlone, InSubmission, Saves, Submissions
      <4>2. job[c].revision <= reply[c].revision
        BY <3>1, <3>3, ShownIsSettled
      <4>3. ASSUME NEW m \in late, m.op = "save", reply[c].id = m.job.id PROVE m.job.revision <= reply[c].revision
        <5>1. m.job.revision < job[c].revision
          BY <3>1, <3>3, <4>3 DEF LateSaveInv, InSubmission
        <5>2. m.job.revision \in Nat /\ job[c].revision \in Nat /\ reply[c].revision \in Nat
          BY <3>1, Numbers DEF Inv, CallInv, ToShow, Answered, TypeOK
        <5> QED
          BY <4>2, <5>1, <5>2
      <4> QED
        BY <3>1, <4>1, <4>3 DEF LateSaveInv, InSubmission
    <3> QED
      BY <1>4, <2>2, <3>2, <3>3, ShowsToShow DEF Created
  <2> QED
    BY <2>1, <2>2
<1>5. ASSUME NEW c \in Calls, GoesOn(c) PROVE LateSaveInv'
  <2>1. /\ job'[c].id = job[c].id /\ UNCHANGED screen
        /\ \A d \in Calls \ {c} : pc'[d] = pc[d] /\ job'[d] = job[d] /\ ~InSubmission(d)
        /\ InSubmission(c) /\ job[c] \in Job
    BY <1>5, GoOnFrame, GoOnStep DEF SubmitsAlone, InSubmission, Inv, CallInv
  <2>2. \A d \in Calls \ {c} : ~InSubmission(d)'
    BY <2>1 DEF InSubmission
  <2>3. CASE /\ pc[c] \in Saves /\ pc'[c] \in Saves /\ job'[c] = job[c]
             /\ \A m \in late' : m \in late \/ m.job = job[c]
    <3>1. job[c].revision <= job[c].revision /\ pc'[c] \notin Submissions
      BY <2>1, <2>3, Numbers DEF Inv, Saves, Submissions
    <3> QED
      BY <2>1, <2>2, <2>3, <3>1 DEF LateSaveInv, InSubmission
  <2>4. CASE /\ pc[c] \in Saves /\ pc'[c] \in Submissions /\ UNCHANGED late
             /\ job'[c].revision = reply[c].revision /\ SaveTook(c) /\ Answered(c)
    <3>1. /\ job[c].revision < job'[c].revision /\ job[c].revision \in Nat /\ job'[c].revision \in Nat
          /\ pc'[c] \notin Saves
      BY <2>1, <2>4, Numbers DEF Inv, TypeOK, Answered, SaveTook, Saves, Submissions
    <3>2. ASSUME NEW m \in late, m.op = "save", m.job.id = job[c].id PROVE m.job.revision < job'[c].revision
      <4>1. m.job.revision <= job[c].revision /\ m.job.revision \in Nat
        BY <2>1, <3>2, Numbers DEF Inv, LateSaveInv
      <4> QED
        BY <3>1, <4>1
    <3>3. ASSUME NEW m \in late, m.op = "save", m.job.id = job[c].id PROVE m.job.revision <= job'[c].revision
      BY <3>1, <3>2, <3>3, Numbers DEF Inv
    <3> QED
      BY <2>1, <2>2, <2>4, <3>1, <3>2, <3>3 DEF LateSaveInv, InSubmission
  <2>5. CASE /\ pc[c] \in Submissions /\ pc'[c] \in Submissions /\ job'[c] = job[c]
             /\ \A m \in late' : m \in late \/ m.op = "submit"
    <3>1. pc'[c] \notin Saves
      BY <2>5 DEF Saves, Submissions
    <3> QED
      BY <2>1, <2>2, <2>5, <3>1 DEF LateSaveInv, InSubmission
  <2> QED
    BY <1>5, <2>3, <2>4, <2>5, GoOnFrame
<1>6. CASE Beside
  BY <1>6 DEF Beside, LateSaveInv, InSubmission
<1> QED
  BY <1>1, <1>2, <1>3, <1>4, <1>5, <1>6, BesideSteps

\* The record as it is, while nothing happens to it.
LEMMA CanonicalKept ==
  ASSUME NEW k, log'[k] = log[k]
  PROVE  Canonical(k)' = Canonical(k)
  BY DEF Canonical, Revision, Latest

\* A request that is carried out late leaves what a call is about to show as it is.
LEMMA LateLeavesShown ==
  ASSUME Inv, NEW m \in late, CarryOut(m), NEW k \in Keys, Settled(k)
  PROVE  log'[k] = log[k]
<1>1. m.job \in Job /\ m.op \in {"create", "save", "submit", "read"}
  BY Numbers DEF Inv
<1>2. CASE m.job.id = k
  BY <1>2, DeadChangesNothing DEF Settled
<1>3. CASE m.job.id # k
  BY <1>1, <1>3, CarriedOutWhere DEF Inv
<1> QED
  BY <1>2, <1>3

\* What the other calls have to show stays so when a step leaves their records alone.
LEMMA AnswersKept ==
  ASSUME Inv, AnswerInv, NEW d \in Calls, Answered(d),
         pc'[d] = pc[d], job'[d] = job[d], reply'[d] = reply[d],
         ToShow(d) \/ reply[d].status = "Submitted" => log'[job[d].id] = log[job[d].id]
  PROVE  /\ pc'[d] = "creating" \/ reply'[d].status = "Submitted" => reply'[d] = Canonical(job[d].id)'
         /\ pc'[d] \in {"submitting", "resubmitting"} /\ reply'[d].status = "Draft" =>
              /\ reply'[d] = Canonical(job[d].id)'
              /\ reply'[d].revision = job'[d].revision
              /\ reply'[d].values \notin Valid
  BY DEF AnswerInv, At, ToShow, Canonical, Revision, Latest

\* A draft that a submission is answered with is as it was, and the rules refuse it.
LEMMA RefusedDraft ==
  ASSUME Inv, NEW c \in Calls, Answer(c), pc[c] \in {"submitting", "resubmitting"},
         reply'[c].status = "Draft"
  PROVE  reply'[c].revision = job[c].revision /\ reply'[c].values \notin Valid
<1> DEFINE k == job[c].id
<1>1. /\ pc[c] # "idle" /\ CarryOut(Message(c))
      /\ reply' = [reply EXCEPT ![c] = Canonical(k)']
  BY DEF Answer
<1>2. /\ Message(c).op = "submit" /\ Message(c).job = job[c] /\ job[c] \in Job
  BY <1>1, MessageFacts, OpFacts DEF Inv
<1>3. /\ k \in Keys /\ log[k] \in Seq(Version) /\ Expected(job[c]) /\ CarryOutSubmit(job[c])
  BY <1>2, <1>1 DEF CarryOut, CarryOutSubmit, Job, Inv, TypeOK
<1>4. /\ reply'[c].revision = Len(log'[k])
      /\ reply'[c].status = log'[k][Len(log'[k])].status
      /\ reply'[c].values = log'[k][Len(log'[k])].values
  <2>1. /\ reply'[c] = Canonical(k)' /\ job' = job
        /\ Canonical(k)' = [id |-> job'[c].id, revision |-> Len(log'[job'[c].id]),
                            status |-> log'[job'[c].id][Len(log'[job'[c].id])].status,
                            values |-> log'[job'[c].id][Len(log'[job'[c].id])].values]
    BY <1>1 DEF Answer, Canonical, Latest, Revision, Inv, TypeOK
  <2> QED
    BY <2>1
<1>5. CASE Latest(k).values \in Valid
  <2> DEFINE e == [status |-> "Submitted", values |-> Latest(k).values, entered |-> job[c].values]
  <2>1. log' = [log EXCEPT ![k] = Append(@, e)]
    BY <1>3, <1>5 DEF CarryOutSubmit, Append1
  <2>2. e.status = "Submitted"
    OBVIOUS
  <2> HIDE DEF e
  <2>3. log'[k] = Append(log[k], e)
    BY <1>3, <2>1 DEF Inv, TypeOK
  <2>4. log'[k][Len(log'[k])] = e
    BY <1>3, <2>3
  <2> QED
    BY <1>4, <2>2, <2>4
<1>6. CASE Latest(k).values \notin Valid
  <2>1. UNCHANGED log
    BY <1>3, <1>6 DEF CarryOutSubmit
  <2> QED
    BY <1>3, <1>4, <1>6, <2>1 DEF Expected, Latest, Revision
<1> QED
  BY <1>5, <1>6

LEMMA StepAnswer ==
  ASSUME Inv, KeyInv, UnderKeyInv, LateSaveInv, AnswerInv, CreatesAlone, SubmitsAlone, Foreign = {}, Next
  PROVE  AnswerInv'
<1> SUFFICES ASSUME NEW d \in Calls, Answered(d)'
             PROVE  /\ pc'[d] = "creating" \/ reply'[d].status = "Submitted" => reply'[d] = Canonical(job[d].id)'
                    /\ pc'[d] \in {"submitting", "resubmitting"} /\ reply'[d].status = "Draft" =>
                         /\ reply'[d] = Canonical(job[d].id)'
                         /\ reply'[d].revision = job'[d].revision
                         /\ reply'[d].values \notin Valid
  BY DEF AnswerInv, At
<1>1. CASE UNCHANGED log /\ pc'[d] = pc[d] /\ job'[d] = job[d] /\ reply'[d] = reply[d]
  BY <1>1, AnswersKept DEF Answered
<1>2. ASSUME NEW c \in Calls, Create(c) \/ Submit(c) PROVE d # c /\ UNCHANGED log
  <2>1. ~Answered(c) /\ UNCHANGED <<log, reply>>
    BY <1>2 DEF Create, Submit, Inv, CallInv, At, service
  <2> QED
    BY <2>1 DEF Answered
<1>3. ASSUME NEW c \in Calls, Create(c) \/ Submit(c), d # c
      PROVE  pc'[d] = pc[d] /\ job'[d] = job[d] /\ reply'[d] = reply[d]
  BY <1>3 DEF Create, Submit, Inv, TypeOK
<1>4. ASSUME NEW c \in Calls, Ends(c) \/ GoesOn(c)
      PROVE  d # c /\ UNCHANGED log /\ pc'[d] = pc[d] /\ job'[d] = job[d] /\ reply'[d] = reply[d]
  BY <1>4, EndFrame, GoOnFrame DEF Answered
<1>5. CASE Answer(d)
  <2>1. UNCHANGED <<pc, job>> /\ reply'[d] = Canonical(job[d].id)'
    BY <1>5 DEF Answer, Inv, TypeOK
  <2> QED
    BY <1>5, <2>1, RefusedDraft
<1>6. ASSUME NEW c \in Calls, Answer(c), c # d
      PROVE  /\ log'[job[d].id] = log[job[d].id]
             /\ pc'[d] = pc[d] /\ job'[d] = job[d] /\ reply'[d] = reply[d]
  <2>1. /\ UNCHANGED <<pc, job>> /\ reply'[d] = reply[d] /\ pc[c] # "idle" /\ CarryOut(Message(c))
    BY <1>6 DEF Answer, Inv, TypeOK
  <2>2. pc[d] # "idle" /\ job[d].id \in Keys
    BY <2>1, Numbers DEF Inv, CallInv, Answered
  <2>3. job[c].id # job[d].id
    BY <1>6, <2>1, <2>2, Apart
  <2> QED
    BY <2>1, <2>2, <2>3, MessageFacts, CarriedOutWhere DEF Inv
<1>7. ASSUME NEW m \in late, CarryOutLate(m)
      PROVE  /\ UNCHANGED <<pc, job, reply>>
             /\ ToShow(d) \/ reply[d].status = "Submitted" => log'[job[d].id] = log[job[d].id]
  <2>1. UNCHANGED <<pc, job, reply>> /\ CarryOut(m)
    BY <1>7 DEF CarryOutLate
  <2>2. Answered(d) /\ job[d].id \in Keys /\ Holds(reply[d]) /\ reply[d].id = job[d].id
    BY <2>1, Numbers DEF Inv, CallInv, Answered
  <2>3. CASE ToShow(d)
    BY <2>1, <2>2, <2>3, ShownIsSettled, LateLeavesShown
  <2>4. CASE reply[d].status = "Submitted"
    <3>1. reply[d] = Canonical(job[d].id)
      BY <2>2, <2>4 DEF AnswerInv
    <3>2. log[job[d].id][Len(log[job[d].id])].status = "Submitted" /\ Len(log[job[d].id]) > 0
      BY <2>2, <2>4, <3>1, Numbers DEF Canonical, Latest, Revision, Holds, Inv
    <3>3. LogStep
      BY <1>7, ServiceLog
    <3> QED
      BY <2>1, <2>2, <3>2, <3>3, LogKept DEF Inv
  <2> QED
    BY <2>1, <2>3, <2>4
<1>8. \A k \in Keys : ~OtherSave(k) /\ ~OtherSubmit(k)
  BY DEF OtherSave, OtherSubmit
<1>9. Edit \/ (\E m \in late : DropLate(m)) => UNCHANGED <<log, pc, job, reply>>
  BY DEF Edit, DropLate, service
<1> QED
  <2>1. CASE \E c \in Calls : Create(c) \/ Submit(c)
    BY <1>1, <1>2, <1>3, <2>1
  <2>2. CASE \E c \in Calls : Ends(c) \/ GoesOn(c)
    BY <1>1, <1>4, <2>2
  <2>3. CASE \E c \in Calls : Answer(c)
    <3>1. CASE Answer(d)
      BY <1>5, <3>1
    <3>2. CASE ~Answer(d)
      <4>1. PICK c \in Calls : Answer(c) /\ c # d
        BY <2>3, <3>2
      <4>2. /\ log'[job[d].id] = log[job[d].id] /\ Answered(d)
            /\ pc'[d] = pc[d] /\ job'[d] = job[d] /\ reply'[d] = reply[d]
        BY <1>6, <4>1 DEF Answered
      <4> QED
        BY <4>2, AnswersKept
    <3> QED
      BY <3>1, <3>2
  <2>4. CASE \E m \in late : CarryOutLate(m)
    <3>1. /\ UNCHANGED <<pc, job, reply>> /\ Answered(d)
          /\ ToShow(d) \/ reply[d].status = "Submitted" => log'[job[d].id] = log[job[d].id]
      BY <1>7, <2>4 DEF Answered
    <3> QED
      BY <3>1, AnswersKept
  <2>5. CASE Edit \/ \E m \in late : DropLate(m)
    BY <1>1, <1>9, <2>5
  <2> QED
    BY <1>8, <2>1, <2>2, <2>3, <2>4, <2>5, CallSteps DEF Next

\* What is settled stays so while the record does and no request joins those on
\* their way.
LEMMA SettledKept ==
  ASSUME Inv, NEW k, log'[k] = log[k], late' \subseteq late, Settled(k)
  PROVE  Settled(k)'
<1>1. ASSUME NEW m \in late', m.job.id = k PROVE Dead(m)'
  <2>1. Dead(m) /\ m.op \in {"create", "save", "submit"}
    BY <1>1, Numbers DEF Settled, Inv
  <2> QED
    BY <1>1, <2>1 DEF Dead, Expected, Changeable, Latest, Revision
<1> QED
  BY <1>1 DEF Settled

LEMMA StepScreen ==
  ASSUME Inv, KeyInv, UnderKeyInv, LateSaveInv, AnswerInv, ScreenInv, Foreign = {}, Next
  PROVE  ScreenInv'
<1> SUFFICES ASSUME \A c \in Calls : pc'[c] = "idle", screen' # None, alert' # "failed"
             PROVE  screen' = Canonical(screen.id)' /\ Settled(screen.id)'
  BY DEF ScreenInv, At
<1>1. ASSUME NEW c \in Calls PROVE ~Create(c) /\ ~Submit(c) /\ ~Answer(c) /\ ~GoesOn(c)
  <2>1. pc'[c] = "idle" /\ pc \in [Calls -> Places]
    BY DEF Inv, TypeOK
  <2>2. ~Create(c) /\ ~Submit(c) /\ ~Answer(c)
    BY <2>1 DEF Create, Submit, Answer
  <2>3. ~GoesOn(c)
    BY <2>1, GoOnFrame DEF Saves, Submissions
  <2> QED
    BY <2>2, <2>3
<1>2. ASSUME NEW c \in Calls, Ends(c) PROVE screen' = Canonical(screen.id)' /\ Settled(screen.id)'
  <2>1. ~Throw(c)
    BY <1>2, EndFrame
  <2>2. ToShow(c) /\ screen' = reply[c] /\ UNCHANGED <<late, log>>
    BY <1>2, <2>1, ShowsToShow, EndFrame
  <2>3. reply[c] = Canonical(reply[c].id) /\ Settled(reply[c].id)
    BY <2>2, ShownIsSettled
  <2> QED
    BY <2>2, <2>3 DEF Canonical, Latest, Revision, Settled, Dead, Expected, Changeable
<1>3. ASSUME UNCHANGED <<pc, screen, alert>>, late' \subseteq late, NEW k, k = screen.id,
             ScreenInv => log'[k] = log[k] \/ ~Settled(k)
      PROVE  screen' = Canonical(screen.id)' /\ Settled(screen.id)'
  <2>1. screen = Canonical(k) /\ Settled(k) /\ log'[k] = log[k]
    BY <1>3 DEF ScreenInv, At
  <2>2. Settled(k)'
    BY <1>3, <2>1, SettledKept
  <2> QED
    BY <1>3, <2>1, <2>2 DEF Canonical, Latest, Revision, Settled
<1>4. CASE Edit \/ \E m \in late : DropLate(m)
  BY <1>3, <1>4 DEF Edit, DropLate, page, service
<1>5. ASSUME NEW m \in late, CarryOutLate(m) PROVE screen' = Canonical(screen.id)' /\ Settled(screen.id)'
  <2>1. UNCHANGED <<pc, screen, alert>> /\ late' \subseteq late /\ CarryOut(m)
    BY <1>5 DEF CarryOutLate, page
  <2>2. screen.id \in Keys
    BY <2>1, Numbers DEF Inv, TypeOK
  <2> QED
    BY <1>3, <2>1, <2>2, LateLeavesShown
<1>6. \A k \in Keys : ~OtherSave(k) /\ ~OtherSubmit(k)
  BY DEF OtherSave, OtherSubmit
<1> QED
  BY <1>1, <1>2, <1>4, <1>5, <1>6, CallSteps DEF Next

-----------------------------------------------------------------------------
(***************************************************************************)
(* The theorems.                                                           *)
(***************************************************************************)
\* The inductive invariant holds of every behaviour, fair or not.
THEOREM Inductive == Safety => []Inv
<1>1. Inv /\ UNCHANGED vars => Inv'
  BY DEF vars, service, creation, page, history, Inv, TypeOK, CallInv, SubmitInv, SubmitsWhatWasEntered,
     At, Answered, SaveTook, Holds, Revision
<1>2. Inv /\ [Next]_vars => Inv'
  BY <1>1, StepInv
<1> QED
  BY <1>2, InitInv, PTL DEF Safety

\* Every variable keeps its type: the service never loses a revision, a call that
\* waits works on a record with a key, and the form holds what a form can hold.
THEOREM TypeCorrect == Spec => []TypeOK
<1>1. Inv => TypeOK
  BY DEF Inv
<1> QED
  BY <1>1, Inductive, PTL DEF Spec

\* What is submitted is what the user had entered when the button was pressed, for any
\* number of overlapping submissions and creates, of lost, refused and late requests,
\* and whatever other editors of the record do.
THEOREM WhatIsSubmittedWasEntered == Spec => []SubmitsWhatWasEntered
<1>1. Inv => SubmitsWhatWasEntered
  BY DEF Inv
<1> QED
  BY <1>1, Inductive, PTL DEF Spec

\* As long as no key is made while a create under an older one is under way, every record
\* the client has made was shown or is the one that the next create is answered with, and
\* a key whose response was lost is used again.  Creates that overlap under one key, as
\* of a button pressed twice, make one record.
THEOREM KeyIsKept == Spec /\ []CreatesInTime => [](NoOrphanDraft /\ LostKeyIsReused)
<1>1. CreateInv /\ UNCHANGED vars => CreateInv'
  BY DEF vars, service, creation, page, history, CreateInv, KeyInv, NoOrphanDraft, LostKeyIsReused,
     At, InSubmission, Revision
<1>2. Inv /\ CreateInv /\ CreatesInTime /\ [Next]_vars => CreateInv'
  BY <1>1, StepCreate
<1>3. CreateInv => NoOrphanDraft /\ LostKeyIsReused
  BY DEF CreateInv
<1> QED
  BY <1>2, <1>3, Inductive, InitCreate, PTL DEF Spec, Safety

\* With no other editor, and as long as creates do not overlap creates nor submissions
\* submissions, the form shows its record as it is whenever all is quiet and it shows
\* no error; and nothing late can change the record behind it.
THEOREM FormIsCurrent ==
  ASSUME Foreign = {}
  PROVE  Spec /\ []CreatesAlone /\ []SubmitsAlone => []ScreenIsCurrent
<1> DEFINE Quiet == CreateInv /\ AloneInv
<1>1. Init => Quiet
  BY InitCreate DEF Init, AloneInv, UnderKeyInv, LateSaveInv, AnswerInv, ScreenInv, Saves, Answered, InSubmission, At
<1>2. ASSUME Quiet, UNCHANGED vars PROVE Quiet'
  <2>1. UNCHANGED <<log, late, pc, job, reply, key, lastKey, screen, form, alert, lostKeys, shown>>
    BY <1>2 DEF vars, service, creation, page, history
  <2>2. CreateInv'
    BY <1>2, <2>1 DEF CreateInv, KeyInv, NoOrphanDraft, LostKeyIsReused, At, InSubmission, Revision
  <2>3. LateSaveInv'
    BY <1>2, <2>1 DEF AloneInv, LateSaveInv, InSubmission
  <2>4. AnswerInv'
    BY <1>2, <2>1 DEF AloneInv, AnswerInv, At, Answered, Canonical, Latest, Revision
  <2>5. ScreenInv'
    BY <1>2, <2>1 DEF AloneInv, ScreenInv, At, Settled, Dead, Expected, Changeable, Canonical, Latest, Revision
  <2>6. UnderKeyInv'
    BY <1>2, <2>1 DEF AloneInv, UnderKeyInv, At
  <2> QED
    BY <2>2, <2>3, <2>4, <2>5, <2>6 DEF AloneInv
<1>3. Inv /\ Quiet /\ CreatesAlone /\ SubmitsAlone /\ [Next]_vars => Quiet'
  <2>1. Quiet => CreatesInTime
    BY DEF AloneInv, UnderKeyInv, CreatesInTime
  <2> QED
    BY <1>2, <2>1, StepCreate, StepUnderKey, StepLateSave, StepAnswer, StepScreen DEF CreateInv, AloneInv
<1>4. Quiet => ScreenIsCurrent
  BY DEF AloneInv, ScreenInv, ScreenIsCurrent
<1> QED
  BY <1>1, <1>3, <1>4, Inductive, PTL DEF Spec, Safety
=============================================================================
