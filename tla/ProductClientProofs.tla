------------------------ MODULE ProductClientProofs ------------------------
(***************************************************************************)
(* What the product can rely on when it calls Axis: the gateway and the    *)
(* sessions around one call (ApiRequest), for any set of users, and the    *)
(* interceptors of one request (ClientRequest), for any set of hooks and   *)
(* any number of changes.  ApiInv and HooksInv are the inductive           *)
(* invariants.  What the gateway's allowlist lets through is last.         *)
(***************************************************************************)
EXTENDS MCProductClient, SequenceTheorems, TLAPS

-----------------------------------------------------------------------------
(***************************************************************************)
(* The gateway.                                                            *)
(***************************************************************************)
Methods == UnsafeMethods \cup {"GET"}
Statuses == {200, 204, 400, 401, 404, 409, 500, 502, 503, 504}

\* Axis may have carried the call out, or may yet.
MayBeDone == reached \/ doneFor # Nobody

Answer == [status : Statuses \cup {0}, type : {"none", "application/json"}, length0 : BOOLEAN,
           body : {"empty", "record", "other"}]

ApiTypes ==
  /\ session \in Users \cup {Nobody} /\ asker \in Users \cup {Nobody}
  /\ doneFor \in Users \cup {Nobody}
  /\ operation[1] \in Methods
  /\ server \in {"none", "received", "checking", "forwarding", "answered"}
  /\ client \in {"idle", "sent", "settled"}
  /\ reached \in BOOLEAN /\ (server # "none" => client = "sent")
  /\ answer \in Answer

\* What has passed antiforgery comes from a page of the user whose cookie it carries, and
\* what is still before it has not reached Axis.
PassedInv ==
  /\ server \in {"received", "checking"} => ~MayBeDone
  /\ server \in {"checking", "forwarding"} \/ MayBeDone => (Changing => sender = asker)
  /\ doneFor \in {Nobody, asker}

\* What is answered to a call that Axis has carried out, or may yet.
Told(status) == status \in {200, 500, 502, 503, 504}

AnswerInv ==
  server = "answered" =>
    /\ answer.status \in Statuses
    /\ MayBeDone => Told(answer.status) \/ answer = Bare(204)

ResultInv == client = "settled" /\ MayBeDone => ReadsBack(result) \/ Told(result[2])

ApiInv == ApiTypes /\ PassedInv /\ AnswerInv /\ ResultInv

\* What the BFF answers is an answer.
Untyped == [Json(200, "record") EXCEPT !.type = "none"]
LEMMA AnswerTypes ==
  /\ NoAnswer \in Answer
  /\ \A status \in Statuses : Bare(status) \in Answer /\ Bare(status).status = status
  /\ \A status \in Statuses, body \in {"record", "other"} :
       Json(status, body) \in Answer /\ Json(status, body).status = status
  /\ Untyped \in Answer /\ Untyped.status = 200
<1>1. NoAnswer \in Answer
  BY DEF NoAnswer, Answer
<1>2. \A status \in Statuses : Bare(status) \in Answer /\ Bare(status).status = status
  BY DEF Bare, Answer
<1>3. \A status \in Statuses, body \in {"record", "other"} :
        Json(status, body) \in Answer /\ Json(status, body).status = status
  BY DEF Json, Answer
<1>4. Untyped \in Answer /\ Untyped.status = 200
  <2>1. Json(200, "record") \in Answer /\ Json(200, "record").status = 200
    BY <1>3 DEF Statuses
  <2>2. \A a \in Answer : [a EXCEPT !.type = "none"] \in Answer /\ [a EXCEPT !.type = "none"].status = a.status
    BY DEF Answer
  <2> QED
    BY <2>1, <2>2 DEF Untyped
<1> QED
  BY <1>1, <1>2, <1>3, <1>4

LEMMA InitApi == ApiInit => ApiInv
<1> SUFFICES ASSUME ApiInit PROVE ApiInv
  OBVIOUS
<1>1. ApiTypes
  BY AnswerTypes DEF ApiInit, ApiTypes, Methods
<1>2. ~MayBeDone
  BY DEF ApiInit, MayBeDone
<1>3. PassedInv /\ AnswerInv /\ ResultInv
  BY <1>2 DEF ApiInit, PassedInv, AnswerInv, ResultInv
<1> QED
  BY <1>1, <1>3 DEF ApiInv

\* The page and the browser.
LEMMA PageApi ==
  ASSUME ApiInv, SessionChanges \/ LoadSession \/ Reload \/ Call
  PROVE  ApiInv'
<1> USE DEF pageVars, serverVars
<1>1. CASE SessionChanges \/ LoadSession
  <2>1. /\ session' \in Users \cup {Nobody}
        /\ UNCHANGED <<asker, client, operation, sender, result, server, reached, doneFor, answer>>
    BY <1>1 DEF SessionChanges, LoadSession, ApiInv, ApiTypes
  <2> QED
    BY <2>1 DEF ApiInv, ApiTypes, PassedInv, AnswerInv, ResultInv, MayBeDone, Changing
<1>2. CASE Reload
  <2>1. /\ client' = "idle" /\ server' = "none" /\ answer' = NoAnswer /\ NoAnswer \in Answer
        /\ UNCHANGED <<session, asker, operation, sender, reached, doneFor>>
    BY <1>2, AnswerTypes DEF Reload
  <2> QED
    BY <2>1 DEF ApiInv, ApiTypes, PassedInv, AnswerInv, ResultInv, MayBeDone, Changing
<1>3. CASE Call
  <2>1. /\ client' = "sent" /\ server' = "received" /\ answer' = NoAnswer /\ NoAnswer \in Answer
        /\ asker' = session /\ reached' = FALSE /\ doneFor' = Nobody /\ session' = session
    BY <1>3, AnswerTypes DEF Call
  <2>2. operation'[1] \in Methods
    <3>1. PICK o \in {CreateRecord, GetRecord, SaveRecord, SubmitRecord} : operation'[1] = o[1]
      BY <1>3 DEF Call, Asked
    <3>2. /\ CreateRecord[1] \in Methods /\ GetRecord[1] \in Methods
          /\ SaveRecord[1] \in Methods /\ SubmitRecord[1] \in Methods
      BY DEF CreateRecord, GetRecord, SaveRecord, SubmitRecord, Methods, UnsafeMethods
    <3> QED
      BY <3>1, <3>2
  <2>3. ~MayBeDone'
    BY <2>1 DEF MayBeDone
  <2>4. ApiTypes'
    BY <2>1, <2>2 DEF ApiInv, ApiTypes
  <2> QED
    BY <2>1, <2>3, <2>4 DEF ApiInv, PassedInv, AnswerInv, ResultInv
<1> QED
  BY <1>1, <1>2, <1>3

\* The gateway before Axis has the call.
LEMMA GatewayApi ==
  ASSUME ApiInv, Admit \/ CheckRecord
  PROVE  ApiInv'
<1>1. /\ server \in {"received", "checking"}
      /\ UNCHANGED <<session, asker, client, operation, sender, result, doneFor>>
  BY DEF Admit, CheckRecord, pageVars
<1>2. ~MayBeDone /\ reached = FALSE /\ doneFor = Nobody /\ doneFor' = Nobody
  BY <1>1 DEF ApiInv, PassedInv, MayBeDone, ApiTypes
<1>3. ASSUME NEW status \in Statuses \ {0}, Refuses(status) PROVE ApiInv'
  <2>1. server' = "answered" /\ answer' = Bare(status) /\ reached' = reached
        /\ answer'.status = status /\ answer' \in Answer
    BY <1>3, AnswerTypes DEF Refuses, Answers, Statuses
  <2>2. ~MayBeDone'
    BY <1>2, <2>1 DEF MayBeDone
  <2>3. ApiTypes'
    BY <1>1, <2>1 DEF ApiInv, ApiTypes
  <2> QED
    BY <1>1, <1>2, <1>3, <2>1, <2>2, <2>3 DEF ApiInv, PassedInv, AnswerInv, ResultInv
<1>4. ASSUME Forwards \/ Checks, Changing => sender = asker PROVE ApiInv'
  <2>1. /\ server' \in {"forwarding", "checking"} /\ reached' \in BOOLEAN /\ answer' = answer
        /\ server' = "checking" => reached' = FALSE
    BY <1>2, <1>4 DEF Forwards, Checks
  <2>2. server' = "checking" => ~MayBeDone'
    BY <1>2, <2>1 DEF MayBeDone
  <2>3. ApiTypes'
    BY <1>1, <2>1 DEF ApiInv, ApiTypes
  <2>4. PassedInv'
    BY <1>1, <1>2, <1>4, <2>1, <2>2 DEF ApiInv, PassedInv, Changing
  <2>5. AnswerInv'
    BY <2>1 DEF AnswerInv
  <2>6. ResultInv'
    BY <1>1 DEF ResultInv, ApiInv, ApiTypes
  <2> QED
    BY <2>3, <2>4, <2>5, <2>6 DEF ApiInv
<1>5. CASE Admit
  <2>1. CASE Refuses(401) \/ Refuses(404) \/ Refuses(500)
    BY <1>3, <2>1 DEF Statuses
  <2>2. CASE ~(Refuses(401) \/ Refuses(404) \/ Refuses(500))
    <3>1. (Forwards \/ Checks) /\ ~(operation[1] \in UnsafeMethods /\ sender # asker)
      BY <1>5, <2>2 DEF Admit
    <3>2. Changing => sender = asker
      BY <3>1 DEF ApiInv, ApiTypes, Methods, Changing
    <3> QED
      BY <1>4, <3>1, <3>2
  <2> QED
    BY <2>1, <2>2
<1>6. CASE CheckRecord
  <2>1. CASE Forwards
    BY <1>4, <1>6, <2>1 DEF CheckRecord, ApiInv, PassedInv
  <2>2. CASE Refuses(404) \/ Refuses(500)
    BY <1>3, <2>2 DEF Statuses
  <2> QED
    BY <1>6, <2>1, <2>2 DEF CheckRecord
<1> QED
  BY <1>5, <1>6
\* Axis and what comes between.
LEMMA AxisApi ==
  ASSUME ApiInv, AxisCarriesOut \/ Forwarded \/ ActivityTimeout
  PROVE  ApiInv'
<1> USE DEF pageVars
<1>1. CASE AxisCarriesOut
  <2>1. /\ reached /\ doneFor = Nobody /\ doneFor' = asker
        /\ UNCHANGED <<session, asker, client, operation, sender, result, server, reached, answer>>
    BY <1>1 DEF AxisCarriesOut
  <2>2. MayBeDone /\ MayBeDone'
    BY <2>1 DEF MayBeDone
  <2>3. ApiTypes' /\ PassedInv'
    BY <2>1, <2>2 DEF ApiInv, ApiTypes, PassedInv, Changing
  <2>4. AnswerInv' /\ ResultInv'
    BY <2>1, <2>2 DEF ApiInv, AnswerInv, ResultInv
  <2> QED
    BY <2>3, <2>4 DEF ApiInv
<1>2. CASE Forwarded \/ ActivityTimeout
  <2>1. /\ server = "forwarding" /\ server' = "answered" /\ client = "sent"
        /\ UNCHANGED <<session, asker, client, operation, sender, result, doneFor>>
    BY <1>2 DEF Forwarded, ActivityTimeout, Answers, ApiInv, ApiTypes
  <2> DEFINE Same == reached' \in {reached, FALSE}
             Fine == answer' \in Answer /\ answer'.status \in Statuses
             Right == MayBeDone' => Told(answer'.status) \/ answer' = Bare(204)
  <2>2. Fine /\ Same /\ Right
    <3>1. CASE Same /\ \/ answer' = Json(200, "record") \/ answer' = Json(200, "other")
                       \/ answer' = Json(500, "other")
      <4>1. /\ Json(200, "record") \in Answer /\ Json(200, "record").status = 200
            /\ Json(200, "other") \in Answer /\ Json(200, "other").status = 200
            /\ Json(500, "other") \in Answer /\ Json(500, "other").status = 500
        BY AnswerTypes DEF Statuses
      <4>2. answer' \in Answer /\ answer'.status \in {200, 500}
        BY <3>1, <4>1
      <4>3. Told(answer'.status)
        BY <4>2 DEF Told
      <4> QED
        <5>1. Fine
          BY <4>2 DEF Statuses
        <5> HIDE DEF Fine
        <5> QED
          BY <3>1, <4>3, <5>1
    <3>2. CASE Same /\ \E status \in {502, 503, 504} : answer' = Bare(status)
      <4>1. \A status \in {502, 503, 504} : Bare(status) \in Answer /\ Bare(status).status = status
        BY AnswerTypes DEF Statuses
      <4>2. answer' \in Answer /\ answer'.status \in {502, 503, 504}
        BY <3>2, <4>1
      <4>3. Told(answer'.status)
        BY <4>2 DEF Told
      <4> QED
        <5>1. Fine
          BY <4>2 DEF Statuses
        <5> HIDE DEF Fine
        <5> QED
          BY <3>2, <4>3, <5>1
    <3>3. CASE Same /\ (answer' = Bare(204) \/ answer' = Untyped)
      <4>1. Bare(204) \in Answer /\ Bare(204).status = 204
        BY AnswerTypes DEF Statuses
      <4>2. Fine
        BY <3>3, <4>1, AnswerTypes DEF Statuses
      <4>3. answer' = Untyped => Told(answer'.status)
        BY AnswerTypes DEF Told
      <4> QED
        BY <3>3, <4>2, <4>3
    <3>4. CASE /\ doneFor = Nobody /\ reached' = FALSE
               /\ \E status \in {400, 404, 409} : answer' = Json(status, "other")
      <4>1. ~MayBeDone'
        BY <2>1, <3>4 DEF MayBeDone
      <4>2. Fine
        BY <3>4, AnswerTypes DEF Statuses
      <4> QED
        BY <3>4, <4>1, <4>2
    <3>5. CASE ActivityTimeout
      BY <3>2, <3>5 DEF ActivityTimeout, Answers
    <3>6. CASE Forwarded
      <4> DEFINE Replies == {Json(200, "record"), Json(200, "other"), Bare(204), Untyped}
                 Success == reached' = reached /\ \E reply \in Replies : answer' = reply
                 Refusal == /\ doneFor = Nobody /\ reached' = FALSE
                            /\ \E status \in {400, 404, 409} : answer' = Json(status, "other")
                 Failure == answer' = Json(500, "other") /\ reached' = FALSE
                 Proxy == reached' = reached /\ \E status \in {502, 503} : answer' = Bare(status)
      <4>1. \/ reached' = reached /\ \E reply \in Replies : Answers(reply)
            \/ doneFor = Nobody /\ reached' = FALSE /\ \E status \in {400, 404, 409} : Answers(Json(status, "other"))
            \/ Answers(Json(500, "other")) /\ reached' = FALSE
            \/ reached' = reached /\ \E status \in {502, 503} : Answers(Bare(status))
        BY <3>6 DEF Forwarded, Untyped
      <4>2. Success \/ Refusal \/ Failure \/ Proxy
        BY <4>1 DEF Answers
      <4>3. CASE Success
        BY <3>1, <3>3, <4>3
      <4>4. CASE Refusal
        BY <3>4, <4>4
      <4>5. CASE Failure
        BY <3>1, <4>5
      <4>6. CASE Proxy
        <5> HIDE DEF Fine, Right
        <5>1. Same /\ \E status \in {502, 503, 504} : answer' = Bare(status)
          BY <4>6
        <5> QED
          BY <3>2, <5>1
      <4> HIDE DEF Success, Refusal, Failure, Proxy, Fine, Same, Right
      <4> QED
        BY <4>2, <4>3, <4>4, <4>5, <4>6
    <3> QED
      BY <1>2, <3>5, <3>6
  <2>3. MayBeDone' => MayBeDone
    BY <2>1, <2>2 DEF MayBeDone
  <2>4. ApiTypes' /\ PassedInv' /\ AnswerInv'
    <3>1. ApiTypes'
      BY <2>1, <2>2 DEF ApiInv, ApiTypes
    <3> QED
      BY <2>1, <2>2, <2>3, <3>1 DEF ApiInv, PassedInv, AnswerInv, Changing
  <2>5. ResultInv'
    BY <2>1 DEF ApiInv, ApiTypes, ResultInv
  <2> QED
    BY <2>4, <2>5 DEF ApiInv
<1> QED
  BY <1>1, <1>2

\* What the page makes of an answer keeps its status, and an answer without a body is read
\* back.
LEMMA OutcomeFacts ==
  /\ \A r : Outcome(r)[2] = r.status
  /\ ReadsBack(Outcome(Bare(204)))
<1>1. \A r : Outcome(r)[2] = r.status
  BY DEF Outcome
<1>2. Ok(Bare(204)) /\ NoContent(Bare(204)) /\ Bare(204).type = "none"
  BY DEF Bare, Ok, NoContent
<1>3. Data(Bare(204)) = <<"stream", "empty">>
  BY <1>2 DEF Data, ParsedAs, getParseAs
<1>4. Outcome(Bare(204))[1] = "incompatible"
  BY <1>2, <1>3 DEF Outcome
<1> QED
  BY <1>1, <1>4 DEF ReadsBack

\* The answer comes to the page, or none.
LEMMA DeliverApi ==
  ASSUME ApiInv, Deliver \/ Break
  PROVE  ApiInv'
<1>1. /\ client' = "settled" /\ server' = "none"
      /\ UNCHANGED <<session, asker, operation, sender, reached, doneFor, answer>>
  BY DEF Deliver, Break
<1>2. MayBeDone' = MayBeDone
  BY <1>1 DEF MayBeDone
<1>3. ApiTypes' /\ PassedInv' /\ AnswerInv'
  BY <1>1, <1>2 DEF ApiInv, ApiTypes, PassedInv, AnswerInv, Changing
<1>4. MayBeDone => ReadsBack(result') \/ Told(result'[2])
  <2>1. CASE result' = <<"ApiError", 0>>
    BY <2>1 DEF ReadsBack
  <2>2. CASE result' # <<"ApiError", 0>>
    <3>1. /\ server = "answered"
          /\ result' = Outcome(answer) \/ (~NoContent(answer) /\ result' = Outcome([answer EXCEPT !.body = "cut"]))
      BY <2>2 DEF Deliver, Break
    <3>2. result'[2] = answer.status
      <4>1. [answer EXCEPT !.body = "cut"].status = answer.status
        BY DEF ApiInv, ApiTypes, Answer
      <4> QED
        BY <3>1, <4>1, OutcomeFacts
    <3>3. MayBeDone => Told(answer.status) \/ answer = Bare(204)
      BY <3>1 DEF ApiInv, AnswerInv
    <3>4. answer = Bare(204) => result' = Outcome(Bare(204))
      BY <3>1 DEF NoContent, Bare
    <3> QED
      BY <3>2, <3>3, <3>4, OutcomeFacts
  <2> QED
    BY <2>1, <2>2
<1>5. ResultInv'
  BY <1>1, <1>2, <1>4 DEF ResultInv, ReadsBack
<1> QED
  BY <1>3, <1>5 DEF ApiInv

\* ApiInv is an invariant of a call.
THEOREM ApiInductive == ApiSpec => []ApiInv
<1>1. ApiInv /\ [ApiNext]_apiVars => ApiInv'
  <2> SUFFICES ASSUME ApiInv, [ApiNext]_apiVars PROVE ApiInv'
    OBVIOUS
  <2>1. CASE ApiNext
    BY <2>1, PageApi, GatewayApi, AxisApi, DeliverApi DEF ApiNext
  <2>2. CASE UNCHANGED apiVars
    BY <2>2 DEF apiVars, pageVars, serverVars, ApiInv, ApiTypes, PassedInv, AnswerInv, ResultInv, MayBeDone, Changing
  <2> QED
    BY <2>1, <2>2
<1> QED
  BY <1>1, InitApi, PTL DEF ApiSpec

\* Whoever signs in or out in other tabs, a change is carried out for the user whose page
\* asked for it (antiforgery and the cookie in ApiGatewayEndpoints).
THEOREM ChangesAreTheSenders == ApiSpec => []NoCrossUserChange
<1>1. ApiInv => NoCrossUserChange
  BY DEF ApiInv, PassedInv, MayBeDone, NoCrossUserChange
<1> QED
  BY <1>1, ApiInductive, PTL

\* A call that is refused to the page was not carried out and never will be.
THEOREM RefusedIsNotDone == ApiSpec => []RefusalIsFinal
<1>1. ApiInv => RefusalIsFinal
  <2> SUFFICES ASSUME ApiInv, client = "settled", result[1] = "ApiError", result[2] \in 400..499
               PROVE  doneFor = Nobody /\ ~reached
    BY DEF RefusalIsFinal
  <2>1. ~ReadsBack(result) /\ ~Told(result[2])
    BY DEF ReadsBack, Told
  <2> QED
    BY <2>1 DEF ApiInv, ResultInv, MayBeDone
<1> QED
  BY <1>1, ApiInductive, PTL

\* A page whose save or submission was carried out is told so, reads the record back, or
\* has an answer that tells of no refusal (saveRecord, submitRecord and the gateway).
THEOREM DoneIsTold == ApiSpec => []SilentOnlyAtGateway
<1>1. ApiInv => SilentOnlyAtGateway
  BY DEF ApiInv, ResultInv, MayBeDone, Told, SilentOnlyAtGateway
<1> QED
  BY <1>1, ApiInductive, PTL
-----------------------------------------------------------------------------
(***************************************************************************)
(* The interceptors.                                                       *)
(***************************************************************************)
HookEntries == Hooks \cup {NoHook}

HooksTypes ==
  /\ fns \in [Loops -> Seq(HookEntries)]
  /\ given \subseteq Loops \X Nat \X Hooks
  /\ step \in Loops \cup {"preparing", "fetching", "parsing", "done"}
  /\ position \in Nat \ {0}
  /\ detached \in Seq(HookEntries)
  /\ ran \in Seq(Hooks)
  /\ steady \subseteq Hooks
  /\ answered \in BOOLEAN

\* The place of an id in use holds its hook or null.
IdsInv == \A g \in given : g[2] + 1 \in DOMAIN fns[g[1]] /\ fns[g[1]][g[2] + 1] \in {g[3], NoHook}

\* A hook stands in a list only once.
OnceInv ==
  \A list \in Loops : \A i, j \in DOMAIN fns[list] :
    fns[list][i] = fns[list][j] /\ fns[list][i] # NoHook => i = j

\* The loop has run the hook once, or has not run it.
RanOnce(hook) == \E i \in DOMAIN ran : \A j \in DOMAIN ran : ran[j] = hook <=> j = i
NotRun(hook) == \A i \in DOMAIN ran : ran[i] # hook

\* A hook that has stayed in the list has its place there, and has been run once the loop
\* is past it.
SteadyAt(hook, k) == /\ fns[step][k] = hook
                     /\ k < position => RanOnce(hook)
                     /\ k >= position => NotRun(hook)
SteadyInv ==
  step \in Loops /\ steady # {} =>
    /\ detached = <<>>
    /\ \A hook \in steady : \E k \in DOMAIN fns[step] : SteadyAt(hook, k)

\* A call under way is settled with nothing yet, and fetch answers with a response.
SettledInv ==
  /\ step # "done" => settled = <<"pending">>
  /\ answered => response \in Responses
  /\ ErrorHasItsResponse

HooksInv == HooksTypes /\ IdsInv /\ OnceInv /\ SteadyInv /\ SettledInv

LEMMA InitHooks == RequestInit => HooksInv
<1> SUFFICES ASSUME RequestInit PROVE HooksInv
  OBVIOUS
<1>0. /\ step = "preparing" /\ position = 1 /\ detached = <<>> /\ ran = <<>> /\ steady = {}
      /\ answered = FALSE /\ response = NoResponse /\ settled = <<"pending">>
  BY DEF RequestInit
<1>1. PICK hooks \in [1..2 -> Hooks] :
        /\ hooks[1] # hooks[2]
        /\ fns = [list \in Loops |-> hooks]
        /\ given = {<<list, id, hooks[id + 1]>> : list \in Loops, id \in 0..1}
  BY DEF RequestInit
<1>2. hooks \in Seq(Hooks) /\ hooks \in Seq(HookEntries) /\ DOMAIN hooks = 1..2
  <2>1. 2 \in Nat /\ hooks \in [1..2 -> HookEntries]
    BY DEF HookEntries
  <2>2. hooks \in Seq(Hooks)
    BY <2>1, SeqDef
  <2>3. hooks \in Seq(HookEntries)
    BY <2>1, SeqDef
  <2> QED
    BY <2>2, <2>3
<1>3. HooksTypes
  <2>1. given \subseteq Loops \X Nat \X Hooks
    BY <1>1
  <2>2. fns \in [Loops -> Seq(HookEntries)]
    BY <1>1, <1>2
  <2>3. <<>> \in Seq(HookEntries) /\ <<>> \in Seq(Hooks)
    OBVIOUS
  <2> QED
    <3>1. /\ step \in Loops \cup {"preparing", "fetching", "parsing", "done"}
          /\ position \in Nat \ {0} /\ steady \subseteq Hooks
      BY <1>0
    <3>2. answered \in BOOLEAN
      BY <1>0
    <3> QED
      BY <1>0, <2>1, <2>2, <2>3, <3>1, <3>2 DEF HooksTypes
<1>4. IdsInv
  BY <1>1, <1>2 DEF IdsInv
<1>5. OnceInv
  <2> SUFFICES ASSUME NEW i \in 1..2, NEW j \in 1..2, hooks[i] = hooks[j] PROVE i = j
    BY <1>1, <1>2 DEF OnceInv
  <2> QED
    BY <1>1
<1>6. SteadyInv /\ SettledInv
  BY <1>0 DEF SteadyInv, SettledInv, ErrorHasItsResponse, Loops
<1> QED
  BY <1>3, <1>4, <1>5, <1>6 DEF HooksInv

\* A list with one entry placed at k, in place of the one there or behind the last.
Placed(list, seq, k, entry) ==
  /\ list \in Loops /\ seq \in Seq(HookEntries) /\ entry \in HookEntries
  /\ k \in DOMAIN seq /\ seq[k] = entry
  /\ DOMAIN fns[list] \subseteq DOMAIN seq
  /\ \A i \in DOMAIN seq \ {k} : i \in DOMAIN fns[list] /\ seq[i] = fns[list][i]
  /\ entry = NoHook \/ entry \notin InList(list)
  /\ fns' = [fns EXCEPT ![list] = seq]

LEMMA PlacedFacts ==
  ASSUME HooksTypes, NEW list, NEW seq, NEW k, NEW entry, Placed(list, seq, k, entry)
  PROVE  /\ fns' \in [Loops -> Seq(HookEntries)]
         /\ fns'[list] = seq
         /\ \A other \in Loops \ {list} : fns'[other] = fns[other]
BY DEF HooksTypes, Placed

\* Placing a hook that is not in the list keeps every hook's place the only one.
LEMMA PlacedOnce ==
  ASSUME HooksTypes, OnceInv, NEW list, NEW seq, NEW k, NEW entry, Placed(list, seq, k, entry)
  PROVE  OnceInv'
<1> SUFFICES ASSUME NEW other \in Loops, NEW i \in DOMAIN fns'[other], NEW j \in DOMAIN fns'[other],
                    fns'[other][i] = fns'[other][j], fns'[other][i] # NoHook
             PROVE  i = j
  BY DEF OnceInv
<1>1. CASE other # list
  BY <1>1, PlacedFacts DEF OnceInv
<1>2. CASE other = list
  <2>1. fns'[other] = seq
    BY <1>2, PlacedFacts
  <2>2. \A n \in DOMAIN fns[list] : fns[list][n] # NoHook => fns[list][n] \in InList(list)
    BY DEF InList, ToSet
  <2>3. CASE i # k /\ j # k
    BY <1>2, <2>1, <2>3 DEF Placed, OnceInv
  <2>4. CASE i = k /\ j # k
    BY <2>1, <2>2, <2>4 DEF Placed
  <2>5. CASE i # k /\ j = k
    BY <2>1, <2>2, <2>5 DEF Placed
  <2> QED
    BY <2>3, <2>4, <2>5
<1> QED
  BY <1>1, <1>2

\* The loop's steady hooks keep their places, but for the one whose place is taken.
LEMMA PlacedSteady ==
  ASSUME HooksTypes, SteadyInv, NEW list, NEW seq, NEW k, NEW entry, Placed(list, seq, k, entry),
         UNCHANGED <<step, position, ran, detached>>, steady' \subseteq steady,
         step = list /\ k \in DOMAIN fns[list] => fns[list][k] \notin steady'
  PROVE  SteadyInv'
<1> SUFFICES ASSUME step \in Loops, NEW hook \in steady'
             PROVE  detached = <<>> /\ \E n \in DOMAIN fns'[step] : SteadyAt(hook, n)'
  BY DEF SteadyInv
<1>1. detached = <<>>
  BY DEF SteadyInv
<1>2. PICK n \in DOMAIN fns[step] : SteadyAt(hook, n)
  BY DEF SteadyInv
<1>3. n \in DOMAIN fns'[step] /\ fns'[step][n] = fns[step][n]
  BY <1>2, PlacedFacts DEF Placed, SteadyAt
<1>4. SteadyAt(hook, n)'
  BY <1>2, <1>3 DEF SteadyAt, RanOnce, NotRun
<1> QED
  BY <1>1, <1>3, <1>4

\* What a change of the lists leaves alone.
LEMMA ChangeFacts ==
  ASSUME HooksInv, NEW list \in Loops, Change(list)
  PROVE  /\ UNCHANGED <<step, position, ran>>
         /\ SettledInv'
BY DEF HooksInv, Change, SettledInv, ErrorHasItsResponse

LEMMA UseHooks ==
  ASSUME HooksInv, NEW list \in Loops, NEW hook \in Hooks, Use(list, hook)
  PROVE  HooksInv'
<1> DEFINE seq == Append(fns[list], hook)
           k == Len(fns[list]) + 1
<1>1. HooksTypes /\ fns[list] \in Seq(HookEntries) /\ hook \in HookEntries /\ hook # NoHook
  BY RequestAssumption DEF HooksInv, HooksTypes, HookEntries
<1>2. /\ seq \in Seq(HookEntries) /\ DOMAIN seq = 1..k /\ DOMAIN fns[list] = 1..(k - 1) /\ k \in Nat
      /\ seq[k] = hook /\ \A i \in 1..(k - 1) : seq[i] = fns[list][i]
  BY <1>1
<1>3. Placed(list, seq, k, hook)
  BY <1>1, <1>2 DEF Placed, Use
<1>4. OnceInv' /\ SteadyInv'
  <2>1. k \notin DOMAIN fns[list]
    BY <1>2
  <2>2. UNCHANGED <<step, position, ran, detached, steady>>
    BY DEF Use, Change
  <2> HIDE DEF seq, k
  <2> QED
    BY <1>1, <1>3, <2>1, <2>2, PlacedOnce, PlacedSteady DEF HooksInv
<1>5. given' = given \cup {<<list, k - 1, hook>>} /\ k - 1 \in Nat /\ k - 1 + 1 = k
  BY <1>2 DEF Use
<1>6. HooksTypes'
  <2>1. fns' \in [Loops -> Seq(HookEntries)]
    BY <1>1, <1>3, PlacedFacts
  <2> QED
    BY <1>1, <1>5, <2>1 DEF HooksTypes, Use, Change
<1>7. IdsInv'
  <2> SUFFICES ASSUME NEW g \in given'
               PROVE  g[2] + 1 \in DOMAIN fns'[g[1]] /\ fns'[g[1]][g[2] + 1] \in {g[3], NoHook}
    BY DEF IdsInv
  <2>1. fns'[list] = seq /\ \A other \in Loops \ {list} : fns'[other] = fns[other]
    BY <1>1, <1>3, PlacedFacts
  <2>2. CASE g = <<list, k - 1, hook>>
    BY <1>2, <1>5, <2>1, <2>2
  <2>3. CASE g \in given
    <3>1. /\ g[1] \in Loops /\ g[2] + 1 \in DOMAIN fns[g[1]]
          /\ fns[g[1]][g[2] + 1] \in {g[3], NoHook}
      BY <1>1, <2>3 DEF HooksInv, IdsInv, HooksTypes
    <3>2. CASE g[1] = list
      <4>1. g[2] + 1 \in 1..(k - 1)
        BY <1>2, <3>1, <3>2
      <4> QED
        BY <1>2, <2>1, <3>1, <3>2, <4>1
    <3>3. CASE g[1] # list
      BY <2>1, <3>1, <3>3
    <3> QED
      BY <3>2, <3>3
  <2> QED
    BY <1>5, <2>2, <2>3
<1>8. SettledInv'
  BY ChangeFacts DEF Use
<1> QED
  BY <1>4, <1>6, <1>7, <1>8 DEF HooksInv

\* The place of an id that names a hook is put to another use.
LEMMA EntryPlaced ==
  ASSUME HooksInv, NEW list \in Loops, NEW id \in Nat, NEW entry \in HookEntries,
         Change(list), Names(list, id), entry = NoHook \/ entry \notin InList(list),
         fns' = [fns EXCEPT ![list][id + 1] = entry],
         steady' = (IF step = list THEN steady \ {fns[list][id + 1]} ELSE steady),
         UNCHANGED detached
  PROVE  /\ fns' \in [Loops -> Seq(HookEntries)]
         /\ DOMAIN fns'[list] = DOMAIN fns[list] /\ fns'[list][id + 1] = entry
         /\ \A i \in DOMAIN fns[list] \ {id + 1} : fns'[list][i] = fns[list][i]
         /\ \A other \in Loops \ {list} : fns'[other] = fns[other]
         /\ id + 1 \in DOMAIN fns[list]
         /\ OnceInv' /\ SteadyInv'
<1> DEFINE seq == [fns[list] EXCEPT ![id + 1] = entry]
           k == id + 1
<1>1. HooksTypes /\ fns[list] \in Seq(HookEntries)
  BY DEF HooksInv, HooksTypes
<1>2. k \in DOMAIN fns[list]
  BY <1>1 DEF Names
<1>3. /\ seq \in Seq(HookEntries) /\ DOMAIN seq = DOMAIN fns[list] /\ seq[k] = entry
      /\ \A i \in DOMAIN fns[list] \ {k} : seq[i] = fns[list][i]
  BY <1>1, <1>2
<1>4. fns' = [fns EXCEPT ![list] = seq]
  OBVIOUS
<1>5. Placed(list, seq, k, entry)
  BY <1>2, <1>3, <1>4 DEF Placed
<1>6. UNCHANGED <<step, position, ran, detached>> /\ steady' \subseteq steady
  BY DEF Change
<1>7. step = list => fns[list][k] \notin steady'
  OBVIOUS
<1> HIDE DEF seq, k
<1>8. OnceInv' /\ SteadyInv'
  BY <1>1, <1>5, <1>6, <1>7, PlacedOnce, PlacedSteady DEF HooksInv
<1>9. /\ fns' \in [Loops -> Seq(HookEntries)] /\ fns'[list] = seq
      /\ \A other \in Loops \ {list} : fns'[other] = fns[other]
  BY <1>1, <1>5, PlacedFacts
<1> QED
  BY <1>2, <1>3, <1>8, <1>9 DEF k

LEMMA EjectHooks ==
  ASSUME HooksInv, NEW list \in Loops, NEW id \in Nat, Eject(list, id)
  PROVE  HooksInv'
<1>1. /\ Change(list) /\ Names(list, id) /\ fns' = [fns EXCEPT ![list][id + 1] = NoHook]
      /\ steady' = (IF step = list THEN steady \ {fns[list][id + 1]} ELSE steady)
      /\ UNCHANGED <<given, detached>> /\ NoHook \in HookEntries
  BY DEF Eject, HookEntries
<1>2. /\ fns' \in [Loops -> Seq(HookEntries)]
      /\ DOMAIN fns'[list] = DOMAIN fns[list] /\ fns'[list][id + 1] = NoHook
      /\ \A i \in DOMAIN fns[list] \ {id + 1} : fns'[list][i] = fns[list][i]
      /\ \A other \in Loops \ {list} : fns'[other] = fns[other]
      /\ OnceInv' /\ SteadyInv'
  BY <1>1, EntryPlaced
<1>3. HooksTypes'
  BY <1>1, <1>2 DEF HooksInv, HooksTypes, Change
<1>4. IdsInv'
  <2> SUFFICES ASSUME NEW g \in given
               PROVE  g[2] + 1 \in DOMAIN fns'[g[1]] /\ fns'[g[1]][g[2] + 1] \in {g[3], NoHook}
    BY <1>1 DEF IdsInv
  <2>1. g[1] \in Loops /\ g[2] + 1 \in DOMAIN fns[g[1]] /\ fns[g[1]][g[2] + 1] \in {g[3], NoHook}
    BY DEF HooksInv, IdsInv, HooksTypes
  <2>2. CASE g[1] = list /\ g[2] + 1 = id + 1
    BY <1>2, <2>1, <2>2
  <2>3. CASE g[1] = list /\ g[2] + 1 # id + 1
    BY <1>2, <2>1, <2>3
  <2>4. CASE g[1] # list
    BY <1>2, <2>1, <2>4
  <2> QED
    BY <2>2, <2>3, <2>4
<1>5. SettledInv'
  BY <1>1, ChangeFacts
<1> QED
  BY <1>2, <1>3, <1>4, <1>5 DEF HooksInv

LEMMA UpdateHooks ==
  ASSUME HooksInv, NEW list \in Loops, NEW id \in Nat, NEW hook \in Hooks, Update(list, id, hook)
  PROVE  HooksInv'
<1>1. /\ Change(list) /\ Names(list, id) /\ fns' = [fns EXCEPT ![list][id + 1] = hook]
      /\ steady' = (IF step = list THEN steady \ {fns[list][id + 1]} ELSE steady)
      /\ UNCHANGED detached /\ hook \in HookEntries /\ hook \notin InList(list)
      /\ given' = {g \in given : g[1] # list \/ g[2] # id} \cup {<<list, id, hook>>}
  BY DEF Update, HookEntries
<1>2. /\ fns' \in [Loops -> Seq(HookEntries)]
      /\ DOMAIN fns'[list] = DOMAIN fns[list] /\ fns'[list][id + 1] = hook
      /\ \A i \in DOMAIN fns[list] \ {id + 1} : fns'[list][i] = fns[list][i]
      /\ \A other \in Loops \ {list} : fns'[other] = fns[other]
      /\ id + 1 \in DOMAIN fns[list] /\ OnceInv' /\ SteadyInv'
  BY <1>1, EntryPlaced
<1>3. HooksTypes'
  BY <1>1, <1>2 DEF HooksInv, HooksTypes, Change
<1>4. IdsInv'
  <2> SUFFICES ASSUME NEW g \in given'
               PROVE  g[2] + 1 \in DOMAIN fns'[g[1]] /\ fns'[g[1]][g[2] + 1] \in {g[3], NoHook}
    BY DEF IdsInv
  <2>1. CASE g = <<list, id, hook>>
    BY <1>2, <2>1
  <2>2. CASE g \in given /\ (g[1] # list \/ g[2] # id)
    <3>1. /\ g[1] \in Loops /\ g[2] \in Nat
          /\ g[2] + 1 \in DOMAIN fns[g[1]] /\ fns[g[1]][g[2] + 1] \in {g[3], NoHook}
      BY <2>2 DEF HooksInv, IdsInv, HooksTypes
    <3>2. CASE g[1] = list
      <4>1. g[2] + 1 # id + 1
        BY <2>2, <3>1, <3>2
      <4> QED
        BY <1>2, <3>1, <3>2, <4>1
    <3>3. CASE g[1] # list
      BY <1>2, <3>1, <3>3
    <3> QED
      BY <3>2, <3>3
  <2> QED
    BY <1>1, <2>1, <2>2
<1>5. SettledInv'
  BY <1>1, ChangeFacts
<1> QED
  BY <1>2, <1>3, <1>4, <1>5 DEF HooksInv

LEMMA ClearHooks ==
  ASSUME HooksInv, NEW list \in Loops, Clear(list)
  PROVE  HooksInv'
<1>1. /\ fns[list] \in Seq(HookEntries) /\ fns' \in [Loops -> Seq(HookEntries)]
      /\ fns'[list] = <<>> /\ \A other \in Loops \ {list} : fns'[other] = fns[other]
      /\ given' = {g \in given : g[1] # list} /\ UNCHANGED <<step, position, ran>>
      /\ step = list => steady' = {}
      /\ step # list => UNCHANGED <<steady, detached>>
  BY DEF Clear, Change, HooksInv, HooksTypes
<1>2. HooksTypes'
  BY <1>1 DEF Clear, Change, HooksInv, HooksTypes
<1>3. IdsInv'
  BY <1>1 DEF HooksInv, HooksTypes, IdsInv
<1>4. OnceInv'
  <2> SUFFICES ASSUME NEW other \in Loops, NEW i \in DOMAIN fns'[other], NEW j \in DOMAIN fns'[other],
                      fns'[other][i] = fns'[other][j], fns'[other][i] # NoHook
               PROVE  i = j
    BY DEF OnceInv
  <2>1. other # list
    BY <1>1
  <2> QED
    BY <1>1, <2>1 DEF HooksInv, OnceInv
<1>5. SteadyInv'
  BY <1>1 DEF HooksInv, SteadyInv, SteadyAt, RanOnce, NotRun
<1>6. SettledInv'
  BY ChangeFacts DEF Clear
<1> QED
  BY <1>2, <1>3, <1>4, <1>5, <1>6 DEF HooksInv

\* A loop begins with every hook in its list, and none has been run.
LEMMA EnterHooks ==
  ASSUME HooksInv, NEW list \in Loops, Enter(list), UNCHANGED <<fns, given>>,
         answered' \in BOOLEAN, SettledInv'
  PROVE  HooksInv'
<1>1. InList(list) \subseteq Hooks
  BY DEF InList, ToSet, HooksInv, HooksTypes, HookEntries
<1>2. HooksTypes'
  BY <1>1 DEF Enter, HooksInv, HooksTypes
<1>3. SteadyInv'
  <2> SUFFICES ASSUME NEW hook \in steady' PROVE \E n \in DOMAIN fns'[step'] : SteadyAt(hook, n)'
    BY DEF SteadyInv, Enter
  <2>1. PICK n \in DOMAIN fns[list] : fns[list][n] = hook
    BY DEF Enter, InList, ToSet
  <2>2. n >= 1
    BY <2>1 DEF HooksInv, HooksTypes
  <2>3. NotRun(hook)' /\ position' = 1 /\ n \in Nat
    BY <2>1 DEF Enter, NotRun, HooksInv, HooksTypes
  <2>4. SteadyAt(hook, n)'
    BY <2>1, <2>2, <2>3 DEF Enter, SteadyAt
  <2> QED
    BY <2>1, <2>4 DEF Enter
<1>4. IdsInv' /\ OnceInv'
  BY DEF HooksInv, IdsInv, OnceInv
<1> QED
  BY <1>2, <1>3, <1>4 DEF HooksInv

\* A step outside the loops leaves the lists alone, and nothing is steady.
LEMMA LeaveHooks ==
  ASSUME HooksInv, UNCHANGED <<fns, given, position, detached, ran, steady, answered>>,
         step' \in {"preparing", "fetching", "parsing", "done"}, SettledInv'
  PROVE  HooksInv'
<1>1. HooksTypes' /\ SteadyInv'
  BY DEF HooksInv, HooksTypes, SteadyInv, Loops
<1>2. IdsInv' /\ OnceInv'
  BY DEF HooksInv, IdsInv, OnceInv
<1> QED
  BY <1>1, <1>2 DEF HooksInv

LEMMA RunHookHooks ==
  ASSUME HooksInv, RunHook
  PROVE  HooksInv'
<1>1. /\ step \in Loops /\ position' = position + 1 /\ position \in 1..Len(Array)
      /\ UNCHANGED <<fns, given, step, detached, steady, answered, response, settled>>
      /\ Array \in Seq(HookEntries)
  BY DEF RunHook, Array, HooksInv, HooksTypes
<1>2. ran' \in Seq(Hooks) /\ ran' = (IF Array[position] = NoHook THEN ran ELSE Append(ran, Array[position]))
  BY <1>1 DEF RunHook, HooksInv, HooksTypes, HookEntries
<1>3. HooksTypes'
  BY <1>1, <1>2 DEF HooksInv, HooksTypes
<1>4. ASSUME NEW hook \in steady
      PROVE  detached = <<>> /\ \E n \in DOMAIN fns[step] : SteadyAt(hook, n)'
  <2>1. detached = <<>> /\ Array = fns[step] /\ hook # NoHook
    BY <1>1, <1>4, RequestAssumption DEF HooksInv, HooksTypes, SteadyInv, Array
  <2>2. PICK n \in DOMAIN fns[step] : SteadyAt(hook, n)
    BY <1>1, <1>4 DEF HooksInv, SteadyInv
  <2>3. n \in Nat /\ position \in Nat /\ position \in DOMAIN fns[step]
    BY <1>1, <2>1, <2>2 DEF HooksInv, HooksTypes
  <2>4. CASE n = position
    <3>1. NotRun(hook) /\ ran' = Append(ran, hook)
      BY <1>2, <2>1, <2>2, <2>3, <2>4 DEF SteadyAt
    <3>2. RanOnce(hook)'
      <4>1. /\ Len(ran) \in Nat /\ DOMAIN ran' = 1..(Len(ran) + 1) /\ ran'[Len(ran) + 1] = hook
            /\ \A i \in 1..Len(ran) : ran'[i] = ran[i] /\ ran[i] # hook
        BY <3>1 DEF HooksInv, HooksTypes, NotRun
      <4>2. Len(ran) + 1 \in DOMAIN ran' /\ \A j \in DOMAIN ran' : ran'[j] = hook <=> j = Len(ran) + 1
        BY <4>1
      <4> QED
        BY <4>2 DEF RanOnce
    <3> QED
      BY <1>1, <2>1, <2>2, <2>3, <2>4, <3>2 DEF SteadyAt
  <2>5. CASE n # position
    <3>1. Array[position] # hook
      BY <2>1, <2>2, <2>3, <2>5, <1>1 DEF HooksInv, OnceInv, SteadyAt
    <3>2. CASE n < position
      <4>1. RanOnce(hook)
        BY <2>2, <3>2 DEF SteadyAt
      <4>2. RanOnce(hook)'
        <5>1. CASE ran' = ran
          BY <4>1, <5>1 DEF RanOnce
        <5>2. CASE ran' = Append(ran, Array[position]) /\ Array[position] \in Hooks
          <6>1. PICK i \in DOMAIN ran : \A j \in DOMAIN ran : ran[j] = hook <=> j = i
            BY <4>1 DEF RanOnce
          <6>2. /\ Len(ran) \in Nat /\ DOMAIN ran = 1..Len(ran) /\ DOMAIN ran' = 1..(Len(ran) + 1)
                /\ ran'[Len(ran) + 1] = Array[position] /\ \A j \in DOMAIN ran : ran'[j] = ran[j]
            BY <5>2 DEF HooksInv, HooksTypes
          <6>3. i \in DOMAIN ran' /\ \A j \in DOMAIN ran' : ran'[j] = hook <=> j = i
            BY <3>1, <6>1, <6>2
          <6> QED
            BY <6>3 DEF RanOnce
        <5> QED
          BY <1>1, <1>2, <5>1, <5>2 DEF HookEntries
      <4> QED
        BY <1>1, <2>1, <2>2, <2>3, <3>2, <4>2 DEF SteadyAt
    <3>3. CASE n > position
      <4>1. NotRun(hook)
        BY <2>2, <2>3, <3>3 DEF SteadyAt
      <4>2. NotRun(hook)'
        BY <1>2, <3>1, <4>1 DEF NotRun, HooksInv, HooksTypes
      <4> QED
        BY <1>1, <2>1, <2>2, <2>3, <3>3, <4>2 DEF SteadyAt
    <3> QED
      BY <2>3, <2>5, <3>2, <3>3
  <2> QED
    BY <2>4, <2>5
<1>5. SteadyInv'
  BY <1>1, <1>4 DEF SteadyInv
<1>6. IdsInv' /\ OnceInv' /\ SettledInv'
  BY <1>1 DEF HooksInv, IdsInv, OnceInv, SettledInv, ErrorHasItsResponse
<1> QED
  BY <1>3, <1>5, <1>6 DEF HooksInv

\* The steps of the call: a loop begins, or none runs.
LEMMA CallHooks ==
  ASSUME HooksInv, Prepare \/ HookThrows \/ LoopEnds \/ Fetched \/ Parse
  PROVE  HooksInv'
<1>1. step # "done" /\ settled = <<"pending">> /\ answered \in BOOLEAN /\ (answered => response \in Responses)
  BY DEF Prepare, HookThrows, LoopEnds, Fetched, Parse, HooksInv, HooksTypes, SettledInv, Loops
<1>2. UNCHANGED <<fns, given>>
  BY DEF Prepare, HookThrows, LoopEnds, Fetched, Parse
<1>3. ASSUME NEW list \in Loops, Enter(list), settled' = settled,
             answered' \in BOOLEAN, answered' => response' \in Responses
      PROVE  HooksInv'
  <2>1. SettledInv'
    BY <1>1, <1>3 DEF SettledInv, ErrorHasItsResponse
  <2> QED
    BY <1>2, <1>3, <2>1, EnterHooks
<1>4. ASSUME step' \in {"preparing", "fetching", "parsing", "done"}, step' # "done" => settled' = settled,
             UNCHANGED <<position, detached, ran, steady, answered, response>>,
             answered => settled' # <<"error", NoResponse>>
      PROVE  HooksInv'
  <2>1. SettledInv'
    BY <1>1, <1>4 DEF SettledInv, ErrorHasItsResponse
  <2> QED
    BY <1>2, <1>4, <2>1, LeaveHooks
<1>5. CASE Prepare
  BY <1>1, <1>3, <1>5 DEF Prepare, Loops
<1>6. CASE HookThrows
  BY <1>1, <1>3, <1>4, <1>6 DEF HookThrows, Loops
<1>7. CASE LoopEnds
  <2>1. /\ UNCHANGED <<position, detached, ran, steady, answered, response>>
        /\ step' \in {"preparing", "fetching", "parsing", "done"}
        /\ step' # "done" => settled' = settled
        /\ settled' \in {settled, <<"error", response>>}
    BY <1>7 DEF LoopEnds, Loops
  <2>2. answered => settled' # <<"error", NoResponse>>
    BY <1>1, <2>1, RequestAssumption
  <2> QED
    BY <1>4, <2>1, <2>2
<1>8. CASE Fetched
  <2>1. CASE response' \in Responses /\ answered' = TRUE /\ Enter("response") /\ settled' = settled
    BY <1>3, <2>1 DEF Loops
  <2>2. CASE UNCHANGED <<answered, response, settled>> /\ Enter("error")
    BY <1>1, <1>3, <2>2 DEF Loops
  <2> QED
    BY <1>8, <2>1, <2>2 DEF Fetched
<1>9. CASE Parse
  <2>1. CASE step' = "done" /\ settled' = <<"data", Data(response)>> /\ UNCHANGED <<position, detached, ran, steady>>
    BY <1>4, <1>9, <2>1 DEF Parse
  <2>2. CASE Enter("error") /\ UNCHANGED settled
    BY <1>1, <1>3, <1>9, <2>2 DEF Parse, Loops
  <2> QED
    BY <1>9, <2>1, <2>2 DEF Parse
<1> QED
  BY <1>5, <1>6, <1>7, <1>8, <1>9

\* HooksInv is an invariant of a call.
THEOREM HooksInductive == RequestSpec => []HooksInv
<1>1. HooksInv /\ [RequestNext]_requestVars => HooksInv'
  <2> SUFFICES ASSUME HooksInv, [RequestNext]_requestVars PROVE HooksInv'
    OBVIOUS
  <2>1. CASE Prepare \/ RunHook \/ HookThrows \/ LoopEnds \/ Fetched \/ Parse
    BY <2>1, RunHookHooks, CallHooks
  <2>2. CASE \E list \in Loops :
                \/ Clear(list)
                \/ \E hook \in Hooks : Use(list, hook)
                \/ \E id \in 0..(Len(fns[list]) - 1) :
                     Eject(list, id) \/ \E hook \in Hooks : Update(list, id, hook)
    <3>1. \A list \in Loops : \A id \in 0..(Len(fns[list]) - 1) : id \in Nat
      BY DEF HooksInv, HooksTypes
    <3> QED
      BY <2>2, <3>1, ClearHooks, UseHooks, EjectHooks, UpdateHooks
  <2>3. CASE UNCHANGED requestVars
    <3>1. UNCHANGED <<fns, given, step, position, detached, ran, steady, answered, response, settled>>
      BY <2>3 DEF requestVars, callVars
    <3> QED
      BY <3>1 DEF HooksInv, HooksTypes, IdsInv, OnceInv, SteadyInv, SteadyAt, RanOnce, NotRun,
                  SettledInv, ErrorHasItsResponse
  <2> QED
    BY <2>1, <2>2, <2>3 DEF RequestNext
<1> QED
  BY <1>1, InitHooks, PTL DEF RequestSpec

\* Whatever is added, replaced and ejected meanwhile, a hook that stays in the list is run
\* once by the loop (the loops over interceptors.request.fns and the others).
THEOREM SteadyHooksAreRun == RequestSpec => []SteadyHooksRun
<1>1. HooksInv => SteadyHooksRun
  <2> SUFFICES ASSUME HooksInv, step \in Loops, position > Len(Array), NEW hook \in steady
               PROVE  RanOnce(hook)
    BY DEF SteadyHooksRun, RanOnce
  <2>1. Array = fns[step] /\ \E n \in DOMAIN fns[step] : SteadyAt(hook, n)
    BY DEF HooksInv, SteadyInv, Array
  <2>2. \A n \in DOMAIN fns[step] : n < position
    BY <2>1 DEF HooksInv, HooksTypes
  <2> QED
    BY <2>1, <2>2 DEF SteadyAt
<1> QED
  BY <1>1, HooksInductive, PTL

\* An id names the hook it was last given for, or none, until its list is cleared
\* (getInterceptorIndex).
THEOREM IdsKeepTheirHook == RequestSpec => []IdsNameTheirHook
<1>1. HooksInv => IdsNameTheirHook
  BY DEF HooksInv, IdsInv, IdsNameTheirHook, Names
<1> QED
  BY <1>1, HooksInductive, PTL

\* A call that fails after fetch has answered reports the answer (the catch of request).
THEOREM ErrorsKeepTheResponse == RequestSpec => []ErrorHasItsResponse
<1>1. HooksInv => ErrorHasItsResponse
  BY DEF HooksInv, SettledInv
<1> QED
  BY <1>1, HooksInductive, PTL

-----------------------------------------------------------------------------
(***************************************************************************)
(* The allowlist.  Of the operations the generated client offers, those on *)
(* records alone have a path that begins as the gateway's patterns do;     *)
(* these are filled in and compared one by one.                            *)
(***************************************************************************)

\* Tuples as functions.
LEMMA Tuples ==
  /\ \A m, p : <<m, p>>[2] = p
  /\ \A a, b, c : /\ <<a>>[1] = a
                  /\ <<a, b>>[1] = a /\ <<a, b>>[2] = b
                  /\ <<a, b, c>>[1] = a /\ <<a, b, c>>[2] = b /\ <<a, b, c>>[3] = c
OBVIOUS

LEMMA TupleDomains ==
  \A a, b, c : /\ DOMAIN <<a>> = 1..1 /\ DOMAIN <<a, b>> = 1..2 /\ DOMAIN <<a, b, c>> = 1..3
OBVIOUS

LEMMA TuplesAreFunctions ==
  /\ \A a : <<a>> = [i \in 1..1 |-> a]
  /\ \A a, b : <<a, b>> = [i \in 1..2 |-> IF i = 1 THEN a ELSE b]
  /\ \A a, b, c : <<a, b, c>> = [i \in 1..3 |-> IF i = 1 THEN a ELSE IF i = 2 THEN b ELSE c]
OBVIOUS

LEMMA PathsDiffer ==
  \A a, b, c, d, e, f :
    /\ <<a>> # <<b, c>> /\ <<a>> # <<b, c, d>> /\ <<a, b>> # <<c, d, e>>
    /\ <<a, b>> = <<c, d>> <=> (a = c /\ b = d)
    /\ <<a, b, c>> = <<d, e, f>> <=> (a = d /\ b = e /\ c = f)
OBVIOUS

LEMMA OtherFirst == \A p, a, b, c : p[1] # a => p # <<a, b>> /\ p # <<a, b, c>>
OBVIOUS

LEMMA PlacesToThree ==
  /\ \A i \in 1..1 : i = 1
  /\ \A i \in 1..2 : i = 1 \/ i = 2
  /\ \A i \in 1..3 : i = 1 \/ i = 2 \/ i = 3
  /\ 2 # 1 /\ 3 # 1 /\ 3 # 2
OBVIOUS

\* A path that begins with a segment of its own, neither that of the records nor a
\* parameter.
Elsewhere(path) == 1 \in DOMAIN path /\ path[1] \notin {"business-object-records", "{}"}

LEMMA FirstInDomain ==
  /\ \A a : 1 \in DOMAIN <<a>>
  /\ \A a, b : 1 \in DOMAIN <<a, b>>
  /\ \A a, b, c : 1 \in DOMAIN <<a, b, c>>
  /\ \A a, b, c, d : 1 \in DOMAIN <<a, b, c, d>>
  /\ \A a, b, c, d, e : 1 \in DOMAIN <<a, b, c, d, e>>
OBVIOUS

LEMMA ElsewhereByFirst ==
  \A a : a # "business-object-records" /\ a # "{}" =>
    /\ Elsewhere(<<a>>)
    /\ \A b : Elsewhere(<<a, b>>)
    /\ \A b, c : Elsewhere(<<a, b, c>>)
    /\ \A b, c, d : Elsewhere(<<a, b, c, d>>)
    /\ \A b, c, d, e : Elsewhere(<<a, b, c, d, e>>)
<1>1. /\ \A a : <<a>>[1] = a
      /\ \A a, b : <<a, b>>[1] = a
      /\ \A a, b, c : <<a, b, c>>[1] = a
      /\ \A a, b, c, d : <<a, b, c, d>>[1] = a
      /\ \A a, b, c, d, e : <<a, b, c, d, e>>[1] = a
  OBVIOUS
<1> QED
  BY <1>1, FirstInDomain, Zenon DEF Elsewhere

\* Rules have a prefix and texts behind it.
RuleWords == {"rules", "actions", "expression-language", "condition", "project", "guide"}

LEMMA ShortTexts ==
  \A S : /\ <<>> \in Seq(S)
         /\ \A a \in S : <<a>> \in Seq(S)
         /\ \A a \in S, b \in S : <<a, b>> \in Seq(S)
OBVIOUS

LEMMA RuleTexts ==
  /\ <<>> \in Seq(RuleWords)
  /\ <<"actions">> \in Seq(RuleWords)
  /\ <<"expression-language">> \in Seq(RuleWords)
  /\ <<"condition", "project">> \in Seq(RuleWords)
  /\ <<"expression-language", "guide">> \in Seq(RuleWords)
<1>1. /\ "actions" \in RuleWords /\ "expression-language" \in RuleWords
      /\ "condition" \in RuleWords /\ "project" \in RuleWords /\ "guide" \in RuleWords
  BY DEF RuleWords
<1> QED
  BY <1>1, ShortTexts, Zenon

LEMMA RulePathsElsewhere ==
  ASSUME NEW rest \in Seq(RuleWords)
  PROVE  Elsewhere(<<"rules">> \o rest)
<1>1. <<"rules">> \in Seq(RuleWords)
  BY ShortTexts DEF RuleWords
<1>2. Len(<<"rules">>) = 1
  OBVIOUS
<1>3. <<"rules">>[1] = "rules"
  OBVIOUS
<1>4. /\ Len(<<"rules">> \o rest) = Len(<<"rules">>) + Len(rest)
      /\ <<"rules">> \o rest \in Seq(RuleWords)
      /\ \A i \in 1..Len(<<"rules">>) : (<<"rules">> \o rest)[i] = <<"rules">>[i]
  BY <1>1, ConcatProperties
<1>5. DOMAIN (<<"rules">> \o rest) = 1..Len(<<"rules">> \o rest)
  BY <1>4
<1>6. Len(rest) \in Nat
  OBVIOUS
<1>7. 1 \in DOMAIN (<<"rules">> \o rest)
  BY <1>2, <1>4, <1>5, <1>6
<1>8. (<<"rules">> \o rest)[1] = "rules"
  BY <1>2, <1>3, <1>4
<1> QED
  BY <1>7, <1>8, Zenon DEF Elsewhere

\* Every operation that is not on records begins elsewhere.
LEMMA OthersBeginElsewhere == \A o \in Operations : o \in RecordOperations \/ Elsewhere(o[2])
<1> SUFFICES ASSUME NEW o \in Operations, o \notin RecordOperations PROVE Elsewhere(o[2])
  OBVIOUS
<1>1. o \in RoleOperations => \E m, p : o = <<m, p>> /\ Elsewhere(p)
  BY ElsewhereByFirst, ZenonT(30) DEF RoleOperations
<1>2. o \in DefinitionOperations => \E m, p : o = <<m, p>> /\ Elsewhere(p)
  BY ElsewhereByFirst, ZenonT(30) DEF DefinitionOperations
<1>3. o \in AccountOperations => \E m, p : o = <<m, p>> /\ Elsewhere(p)
  BY ElsewhereByFirst, ZenonT(30) DEF AccountOperations
<1>4. o \in WorkspaceOperations => \E m, p : o = <<m, p>> /\ Elsewhere(p)
  BY ElsewhereByFirst, ZenonT(30) DEF WorkspaceOperations
<1>5. o \in ServiceIdentityOperations => \E m, p : o = <<m, p>> /\ Elsewhere(p)
  BY ElsewhereByFirst, ZenonT(30) DEF ServiceIdentityOperations
<1>6. o \in RuleOperations => \E m, p : o = <<m, p>> /\ Elsewhere(p)
  BY ElsewhereByFirst, RulePathsElsewhere, RuleTexts, ZenonT(30) DEF RuleOperations
<1>7. o \in RuleVersionOperations => \E m, p : o = <<m, p>> /\ Elsewhere(p)
  BY ElsewhereByFirst, ZenonT(30) DEF RuleVersionOperations
<1>8. o \in RuleBindingOperations => \E m, p : o = <<m, p>> /\ Elsewhere(p)
  BY ElsewhereByFirst, ZenonT(30) DEF RuleBindingOperations
<1>9. o \in SolutionOperations => \E m, p : o = <<m, p>> /\ Elsewhere(p)
  BY ElsewhereByFirst, ZenonT(30) DEF SolutionOperations
<1>10. PICK m, p : o = <<m, p>> /\ Elsewhere(p)
  BY <1>1, <1>2, <1>3, <1>4, <1>5, <1>6, <1>7, <1>8, <1>9, Zenon DEF Operations
<1>11. o[2] = p
  BY <1>10, Tuples, Zenon
<1> QED
  BY <1>10, <1>11, Zenon

\* Such a path passes by no pattern, whatever it is filled in with.
LEMMA ElsewhereIsRefused ==
  ASSUME NEW o, NEW v, Elsewhere(o[2])
  PROVE  /\ \A m : ~IsAllowed(m, Filled(o, v))
         /\ ~NamesRecord(Filled(o, v))
         /\ o \notin {CreateRecord, GetRecord, SaveRecord, SubmitRecord}
<1>1. Filled(o, v)[1] = o[2][1]
  BY Zenon DEF Filled, Elsewhere
<1>2. Filled(o, v)[1] # "business-object-records"
  BY <1>1, Zenon DEF Elsewhere
<1>3. \A b, c : /\ Filled(o, v) # <<"business-object-records", b>>
                /\ Filled(o, v) # <<"business-object-records", b, c>>
  BY <1>2, OtherFirst, Zenon
<1>4. \A x \in {CreateRecord, GetRecord, SaveRecord, SubmitRecord} : x[2][1] = "business-object-records"
  <2>1. CreateRecord[2][1] = "business-object-records"
    BY DEF CreateRecord
  <2>2. GetRecord[2][1] = "business-object-records"
    BY DEF GetRecord
  <2>3. SaveRecord[2][1] = "business-object-records"
    BY DEF SaveRecord
  <2>4. SubmitRecord[2][1] = "business-object-records"
    BY DEF SubmitRecord
  <2> QED
    BY <2>1, <2>2, <2>3, <2>4, Zenon
<1>5. o \notin {CreateRecord, GetRecord, SaveRecord, SubmitRecord}
  BY <1>4, Zenon DEF Elsewhere
<1> QED
  BY <1>3, <1>5, Zenon DEF IsAllowed, NamesRecord, IsRecordPath, IsRecordSubmitPath

\* The paths of the operations on records, filled in.
LEMMA FilledOne == ASSUME NEW m, NEW v, NEW a, a # "{}" PROVE Filled(<<m, <<a>>>>, v) = <<a>>
<1> DEFINE path == <<a>>
<1>1. <<m, path>>[2] = path /\ DOMAIN path = 1..1 /\ path[1] = a
  BY Tuples, TupleDomains, Zenon
<1> HIDE DEF path
<1>2. Filled(<<m, path>>, v) = [i \in 1..1 |-> IF path[i] = "{}" THEN v ELSE path[i]]
  BY <1>1, Zenon DEF Filled
<1>3. \A i \in 1..1 : (IF path[i] = "{}" THEN v ELSE path[i]) = a
  BY <1>1, PlacesToThree, Zenon
<1>4. [i \in 1..1 |-> IF path[i] = "{}" THEN v ELSE path[i]] = [i \in 1..1 |-> a]
  BY ONLY <1>3
<1>5. <<a>> = [i \in 1..1 |-> a]
  BY ONLY TuplesAreFunctions
<1> QED
  BY ONLY <1>2, <1>4, <1>5, Zenon DEF path

LEMMA FilledTwo == ASSUME NEW m, NEW v, NEW a, a # "{}" PROVE Filled(<<m, <<a, "{}">>>>, v) = <<a, v>>
<1> DEFINE path == <<a, "{}">>
<1>1. <<m, path>>[2] = path /\ DOMAIN path = 1..2 /\ path[1] = a /\ path[2] = "{}"
  BY Tuples, TupleDomains, Zenon
<1> HIDE DEF path
<1>2. Filled(<<m, path>>, v) = [i \in 1..2 |-> IF path[i] = "{}" THEN v ELSE path[i]]
  BY <1>1, Zenon DEF Filled
<1>3. \A i \in 1..2 : (IF path[i] = "{}" THEN v ELSE path[i]) = IF i = 1 THEN a ELSE v
  BY <1>1, PlacesToThree, Zenon
<1>4. [i \in 1..2 |-> IF path[i] = "{}" THEN v ELSE path[i]] = [i \in 1..2 |-> IF i = 1 THEN a ELSE v]
  BY ONLY <1>3
<1>5. <<a, v>> = [i \in 1..2 |-> IF i = 1 THEN a ELSE v]
  BY ONLY TuplesAreFunctions
<1> QED
  BY ONLY <1>2, <1>4, <1>5, Zenon DEF path

LEMMA FilledSubmit == ASSUME NEW v PROVE Filled(SubmitRecord, v) = <<"business-object-records", v, "submit">>
<1> DEFINE a == "business-object-records"
           c == "submit"
           path == <<a, "{}", c>>
<1>1. a # "{}" /\ c # "{}"
  OBVIOUS
<1>2. SubmitRecord[2] = path
  BY DEF SubmitRecord
<1>3. path[1] = a /\ path[2] = "{}" /\ path[3] = c
  BY Tuples, Zenon
<1>4. DOMAIN path = 1..3
  BY ONLY TupleDomains
<1> HIDE DEF path, a, c
<1>5. Filled(SubmitRecord, v) = [i \in 1..3 |-> IF path[i] = "{}" THEN v ELSE path[i]]
  BY <1>2, <1>4, Zenon DEF Filled
<1>6. \A i \in 1..3 : (IF path[i] = "{}" THEN v ELSE path[i]) = IF i = 1 THEN a ELSE IF i = 2 THEN v ELSE c
  <2>1. (IF path[1] = "{}" THEN v ELSE path[1]) = a
    BY <1>1, <1>3, Zenon
  <2>2. (IF path[2] = "{}" THEN v ELSE path[2]) = v
    BY <1>3, Zenon
  <2>3. (IF path[3] = "{}" THEN v ELSE path[3]) = c
    BY <1>1, <1>3, Zenon
  <2> QED
    BY ONLY <2>1, <2>2, <2>3, PlacesToThree, Zenon
<1>7. [i \in 1..3 |-> IF path[i] = "{}" THEN v ELSE path[i]]
        = [i \in 1..3 |-> IF i = 1 THEN a ELSE IF i = 2 THEN v ELSE c]
  BY ONLY <1>6
<1>8. <<a, v, c>> = [i \in 1..3 |-> IF i = 1 THEN a ELSE IF i = 2 THEN v ELSE c]
  BY ONLY TuplesAreFunctions
<1> QED
  BY ONLY <1>5, <1>7, <1>8, Zenon DEF a, c

LEMMA FilledRecords ==
  ASSUME NEW v
  PROVE  /\ Filled(ListRecords, v) = <<"business-object-records">>
         /\ Filled(CreateRecord, v) = <<"business-object-records", v>>
         /\ Filled(GetRecord, v) = <<"business-object-records", v>>
         /\ Filled(SaveRecord, v) = <<"business-object-records", v>>
         /\ Filled(SubmitRecord, v) = <<"business-object-records", v, "submit">>
<1>1. "business-object-records" # "{}" /\ "submit" # "{}"
  OBVIOUS
<1>2. \A m : Filled(<<m, <<"business-object-records">>>>, v) = <<"business-object-records">>
  BY <1>1, FilledOne, Zenon
<1>3. \A m : Filled(<<m, <<"business-object-records", "{}">>>>, v) = <<"business-object-records", v>>
  BY <1>1, FilledTwo, Zenon
<1> QED
  BY <1>2, <1>3, FilledSubmit, Zenon DEF ListRecords, CreateRecord, GetRecord, SaveRecord

\* What OnlyRecordOperationsPass says of one operation and one value.
OnlyRecordPasses(o, v) ==
  LET path == Filled(o, v)
      ofRecord == v = Uuid /\ o \in {GetRecord, SaveRecord, SubmitRecord}
  IN  /\ IsAllowed(o[1], path) <=> ofRecord \/ (o = CreateRecord /\ v = ProductKey)
      /\ IsAllowed(o[1], path) => (NamesRecord(path) <=> ofRecord)

LEMMA RecordOperationsAllowed ==
  ASSUME NEW v, NEW o \in RecordOperations
  PROVE  OnlyRecordPasses(o, v)
<1> DEFINE r == "business-object-records"
<1>1. /\ ListRecords[1] = "GET" /\ CreateRecord[1] = "POST" /\ GetRecord[1] = "GET" /\ SaveRecord[1] = "PUT"
      /\ SubmitRecord[1] = "POST"
  BY DEF ListRecords, CreateRecord, GetRecord, SaveRecord, SubmitRecord
<1>2. /\ CreateRecord \notin {ListRecords, GetRecord, SaveRecord, SubmitRecord}
      /\ ListRecords \notin {GetRecord, SaveRecord, SubmitRecord}
  BY <1>1, PathsDiffer DEF ListRecords, CreateRecord, GetRecord, SaveRecord, SubmitRecord
<1>3. \A m : ~IsAllowed(m, <<r>>)
  BY PathsDiffer, Zenon DEF IsAllowed, IsRecordPath, IsRecordSubmitPath
<1>4. /\ ~NamesRecord(<<r, v>>) <=> v # Uuid
      /\ NamesRecord(<<r, v, "submit">>) <=> v = Uuid
  BY PathsDiffer, Zenon DEF NamesRecord, IsRecordPath, IsRecordSubmitPath
<1>5. /\ IsAllowed("POST", <<r, v>>) <=> v = ProductKey
      /\ IsAllowed("GET", <<r, v>>) <=> v = Uuid
      /\ IsAllowed("PUT", <<r, v>>) <=> v = Uuid
  BY PathsDiffer, Zenon DEF IsAllowed, IsRecordPath, IsRecordSubmitPath
<1>6. IsAllowed("POST", <<r, v, "submit">>) <=> v = Uuid
  BY PathsDiffer, Zenon DEF IsAllowed, IsRecordPath, IsRecordSubmitPath
<1> HIDE DEF r
<1>7. /\ Filled(ListRecords, v) = <<r>>
      /\ Filled(CreateRecord, v) = <<r, v>> /\ Filled(GetRecord, v) = <<r, v>> /\ Filled(SaveRecord, v) = <<r, v>>
      /\ Filled(SubmitRecord, v) = <<r, v, "submit">>
  BY FilledRecords, Zenon DEF r
<1>8. OnlyRecordPasses(ListRecords, v)
  BY <1>1, <1>2, <1>3, <1>7, Zenon DEF OnlyRecordPasses
<1>9. OnlyRecordPasses(CreateRecord, v)
  BY KeyAssumption, <1>1, <1>2, <1>4, <1>5, <1>7, Zenon DEF OnlyRecordPasses
<1>10. OnlyRecordPasses(GetRecord, v)
  BY <1>1, <1>2, <1>4, <1>5, <1>7, Zenon DEF OnlyRecordPasses
<1>11. OnlyRecordPasses(SaveRecord, v)
  BY <1>1, <1>2, <1>4, <1>5, <1>7, Zenon DEF OnlyRecordPasses
<1>12. OnlyRecordPasses(SubmitRecord, v)
  BY <1>1, <1>2, <1>4, <1>6, <1>7, Zenon DEF OnlyRecordPasses
<1> QED
  BY <1>8, <1>9, <1>10, <1>11, <1>12, Zenon DEF RecordOperations

\* Of everything the generated client can ask Axis for, the gateway lets through the
\* product's four operations on records, each with the value it is for (IsAllowed and
\* TryGetRecordId of the gateway).
THEOREM RecordOperationsPass == MCSpec => []OnlyRecordOperationsPass
<1> DEFINE Inv == turn = "operation" => probe \in OperationProbes
<1>1. MCInit => Inv
  BY DEF MCInit, Probes
<1>2. Inv /\ [MCNext]_<<turn, probe, streamVars, requestVars, apiVars>> => Inv'
  BY DEF MCNext
<1>3. Inv => OnlyRecordOperationsPass
  <2> SUFFICES ASSUME probe \in OperationProbes PROVE OnlyRecordPasses(probe[1], probe[2])
    BY Zenon DEF OnlyRecordOperationsPass, OnlyRecordPasses
  <2>1. PICK o \in Operations, v \in {ProductKey, Uuid, OtherText} : probe = <<o, v>>
    BY DEF OperationProbes
  <2>2. probe[1] = o /\ probe[2] = v
    BY <2>1, Tuples, Zenon
  <2>3. CASE o \in RecordOperations
    BY <2>2, <2>3, RecordOperationsAllowed, Zenon
  <2>4. CASE Elsewhere(o[2])
    BY <2>2, <2>4, ElsewhereIsRefused, Zenon DEF OnlyRecordPasses
  <2> QED
    BY <2>3, <2>4, OthersBeginElsewhere, Zenon
<1> QED
  BY <1>1, <1>2, <1>3, PTL DEF MCSpec
=============================================================================
