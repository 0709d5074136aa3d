----------------------------- MODULE ApiRequest -----------------------------
(***************************************************************************)
(* One call of the page, from the generated client through the BFF's API   *)
(* gateway to Axis and back, while the browser's session changes under it: *)
(* another tab signs out or in as somebody else, the session expires, the  *)
(* page is reloaded.                                                       *)
(*                                                                         *)
(* The page keeps the session it loaded, and its antiforgery token, until  *)
(* it is loaded again.  The token is the user's; the cookie that goes with *)
(* a request is the browser's, at the time it is sent.                     *)
(*                                                                         *)
(* Axis, the proxy that forwards to it and the network are known by what   *)
(* the code expects of them.                                               *)
(***************************************************************************)
EXTENDS Integers, Sequences, ClientMessage, ClientOperations

CONSTANTS
  Users,       \* who may sign in
  Nobody,      \* no session
  ProductKey,  \* ProductObjectKey, "loan_application"
  Uuid,        \* an id GuidPattern matches
  OtherText    \* a text that is neither

ASSUME UserAssumption == Nobody \notin Users

\* GuidPattern does not match the key.
ASSUME KeyAssumption == Uuid # ProductKey

VARIABLES
  session,    \* the user the browser's cookie signs in, or Nobody
  page,       \* the session the page has loaded: a user, Nobody, or "none"
  client,     \* where the call is in the page: "idle", "sent" or "settled"
  operation,  \* the operation and its path
  sender,     \* history: the user of the token the request carries
  asker,      \* the user of the cookie the request carries
  server,     \* where the call is in the BFF
  reached,    \* whether Axis has the call before it and may carry it out
  doneFor,    \* history: the user Axis carried the call out for, or Nobody
  answer,     \* what the BFF answers
  result      \* what the page's call ends with

pageVars == <<page, client, operation, sender, result>>
serverVars == <<server, reached, doneFor, answer>>
apiVars == <<session, asker, pageVars, serverVars>>

-----------------------------------------------------------------------------
(***************************************************************************)
(* What the gateway lets through.                                          *)
(***************************************************************************)
IsRecordPath(path) == path = <<"business-object-records", Uuid>>
IsRecordSubmitPath(path) == path = <<"business-object-records", Uuid, "submit">>

\* Mutant: any method passes on a record's paths.
IsAllowedAnyMethod(method, path) ==
  \/ method = "POST" /\ path = <<"business-object-records", ProductKey>>
  \/ IsRecordPath(path) \/ IsRecordSubmitPath(path)

IsAllowed(method, path) ==
  \/ method = "POST" /\ path = <<"business-object-records", ProductKey>>
  \/ method \in {"GET", "PUT"} /\ IsRecordPath(path)
  \/ method = "POST" /\ IsRecordSubmitPath(path)

\* TryGetRecordId
NamesRecord(path) == IsRecordPath(path) \/ IsRecordSubmitPath(path)

\* Mutant: PUT is not on the list.
UnsafeButPut == {"POST", "PATCH", "DELETE"}

UnsafeMethods == {"POST", "PUT", "PATCH", "DELETE"}
SafeMethods == {"GET", "HEAD", "OPTIONS", "TRACE"}

-----------------------------------------------------------------------------
(***************************************************************************)
(* The client's end.                                                       *)
(***************************************************************************)
NoAnswer == [status |-> 0, type |-> "none", length0 |-> FALSE, body |-> "empty"]
Bare(status) == [status |-> status, type |-> "none", length0 |-> TRUE, body |-> "empty"]
Json(status, body) ==
  [status |-> status, type |-> "application/json", length0 |-> FALSE, body |-> body]

\* unwrap and record: a record, a plain error where the data are no record of the
\* product, an ApiError with the status otherwise.
Outcome(response) ==
  IF Ok(response) /\ Data(response) # <<"throws">>
    THEN <<IF Data(response) = <<"json", "record">> THEN "record" ELSE "incompatible", response.status>>
    ELSE <<"ApiError", response.status>>

\* Mutant: only a call without a response is read back.
ReadsBackLost(outcome) == outcome = <<"ApiError", 0>>

\* What saveRecord and submitRecord read the record back for.
ReadsBack(outcome) == outcome[1] = "incompatible" \/ outcome = <<"ApiError", 0>>

-----------------------------------------------------------------------------
ApiInit ==
  /\ session \in Users \cup {Nobody}
  /\ page = "none"
  /\ client = "idle"
  /\ operation = <<"GET", <<>>>>
  /\ sender = Nobody
  /\ asker = Nobody
  /\ server = "none"
  /\ reached = FALSE
  /\ doneFor = Nobody
  /\ answer = NoAnswer
  /\ result = <<"none", 0>>

\* The cookie changes: another tab signs in or out, or the session ends.
SessionChanges ==
  /\ session' \in (Users \cup {Nobody}) \ {session}
  /\ UNCHANGED <<asker, pageVars, serverVars>>

\* getBrowserSession, once the page is loaded.
LoadSession ==
  /\ page = "none"
  /\ page' = session
  /\ UNCHANGED <<session, asker, client, operation, sender, result, serverVars>>

\* The page is loaded anew and leaves its call; the BFF gives up what it has not
\* forwarded yet (RequestAborted), and Axis may have been reached or not.
Reload ==
  /\ page # "none"
  /\ page' = "none"
  /\ client' = "idle"
  /\ server' = "none"
  /\ answer' = NoAnswer
  /\ UNCHANGED <<session, asker, operation, sender, reached, doneFor, result>>

\* The operations the page knows, on a record or on the product.
Asked == {<<CreateRecord[1], Filled(CreateRecord, ProductKey)>>}
         \cup {<<o[1], Filled(o, Uuid)>> : o \in {GetRecord, SaveRecord, SubmitRecord}}

\* A signed-in page calls: an unsafe method carries the page's token.
Call ==
  /\ page \in Users
  /\ client # "sent"
  /\ client' = "sent"
  /\ operation' \in Asked
  /\ sender' = IF operation'[1] \in SafeMethods THEN Nobody ELSE page
  /\ asker' = session
  /\ server' = "received"
  /\ reached' = FALSE
  /\ doneFor' = Nobody
  /\ answer' = NoAnswer
  /\ result' = <<"none", 0>>
  /\ UNCHANGED <<session, page>>

-----------------------------------------------------------------------------
(***************************************************************************)
(* The gateway.                                                            *)
(***************************************************************************)
Answers(response) == server' = "answered" /\ answer' = response

\* The BFF's own refusals, before Axis has the call.
Refuses(status) == Answers(Bare(status)) /\ UNCHANGED reached

Forwards == server' = "forwarding" /\ reached' = TRUE /\ UNCHANGED answer
Checks == server' = "checking" /\ UNCHANGED <<reached, answer>>

\* Mutant: the record is checked while the call is on its way.
AdmitChecksBeside ==
  /\ server = "received"
  /\ asker # Nobody
  /\ operation[1] \in UnsafeMethods => sender = asker
  /\ server' = IF NamesRecord(operation[2]) THEN "checking" ELSE "forwarding"
  /\ reached' = TRUE
  /\ UNCHANGED <<session, asker, pageVars, doneFor, answer>>

\* RequireAuthorization, the allowlist, antiforgery, the access token, in this order.
\* An antiforgery failure and a failure to get the token are exceptions.
Admit ==
  /\ server = "received"
  /\ CASE asker = Nobody -> Refuses(401)
       [] asker # Nobody /\ ~IsAllowed(operation[1], operation[2]) -> Refuses(404)
       [] asker # Nobody /\ IsAllowed(operation[1], operation[2]) ->
            IF operation[1] \in UnsafeMethods /\ sender # asker
              THEN Refuses(500)
              ELSE \/ Refuses(401) \/ Refuses(500)
                   \/ IF NamesRecord(operation[2]) THEN Checks ELSE Forwards
  /\ UNCHANGED <<session, asker, pageVars, doneFor>>

\* IsProductRecordAsync: the record is the product's, it is not or cannot be seen, or
\* the call to Axis throws.  Nothing limits how long Axis takes.
CheckRecord ==
  /\ server = "checking"
  /\ Forwards \/ Refuses(404) \/ Refuses(500)
  /\ UNCHANGED <<session, asker, pageVars, doneFor>>

\* Axis carries the call out for the user whose access token it comes with, also after
\* the BFF has given it up.
AxisCarriesOut ==
  /\ reached
  /\ doneFor = Nobody
  /\ doneFor' = asker
  /\ UNCHANGED <<session, asker, pageVars, server, reached, answer>>

\* What Axis answers: a success to what it has carried out, a refusal to what it has
\* not and will not, an error to either; and what a proxy answers in its place.
Forwarded ==
  /\ server = "forwarding"
  /\ \/ /\ doneFor # Nobody
        /\ \E response \in {Json(200, "record"), Json(200, "other"), Bare(204),
                            [Json(200, "record") EXCEPT !.type = "none"]} : Answers(response)
        /\ UNCHANGED reached
     \/ /\ doneFor = Nobody
        /\ \E status \in {400, 404, 409} : Answers(Json(status, "other"))
        /\ reached' = FALSE
     \/ Answers(Json(500, "other")) /\ reached' = FALSE
     \/ /\ \E status \in {502, 503} : Answers(Bare(status))
        /\ UNCHANGED reached
  /\ UNCHANGED <<session, asker, pageVars, doneFor>>

\* Mutant: the time limit is on an answer that has begun.
LimitOnceAnswering ==
  /\ server = "forwarding"
  /\ doneFor # Nobody
  /\ Answers(Bare(504))
  /\ UNCHANGED <<session, asker, pageVars, reached, doneFor>>

\* ActivityTimeout: 504, whatever Axis has done and will do.
ActivityTimeout ==
  /\ server = "forwarding"
  /\ Answers(Bare(504))
  /\ UNCHANGED <<session, asker, pageVars, reached, doneFor>>

\* The answer arrives, is cut off in its body, or is lost.
Deliver ==
  /\ client = "sent"
  /\ server = "answered"
  /\ client' = "settled"
  /\ server' = "none"
  /\ \/ result' = Outcome(answer)
     \/ ~NoContent(answer) /\ result' = Outcome([answer EXCEPT !.body = "cut"])
     \/ result' = <<"ApiError", 0>>
  /\ UNCHANGED <<session, asker, page, operation, sender, reached, doneFor, answer>>

\* The connection breaks before there is an answer.
Break ==
  /\ client = "sent"
  /\ server # "answered"
  /\ client' = "settled"
  /\ server' = "none"
  /\ result' = <<"ApiError", 0>>
  /\ UNCHANGED <<session, asker, page, operation, sender, reached, doneFor, answer>>

ApiNext == \/ SessionChanges \/ LoadSession \/ Reload \/ Call
           \/ Admit \/ CheckRecord \/ AxisCarriesOut \/ Forwarded \/ ActivityTimeout
           \/ Deliver \/ Break

ApiSpec == ApiInit /\ [][ApiNext]_apiVars

\* The BFF and the network go on; Axis need not answer, and the time limit is the
\* proxy's.
ApiFairness == /\ WF_apiVars(Admit)
               /\ WF_apiVars(ActivityTimeout)
               /\ WF_apiVars(Deliver)

-----------------------------------------------------------------------------
(***************************************************************************)
(* Properties.                                                             *)
(***************************************************************************)
Changing == operation[1] # "GET"

\* Whatever the other tabs do, a change that a page asks for is carried out for the
\* user whose session the page shows, or not at all.
NoCrossUserChange == Changing /\ doneFor # Nobody => doneFor = sender

\* A call that is refused to the page has not been carried out, and will not be.
RefusalIsFinal ==
  client = "settled" /\ result[1] = "ApiError" /\ result[2] \in 400..499 =>
    doneFor = Nobody /\ ~reached

\* A page whose save or submission was carried out is told so or reads the record
\* back; what else it may be told is an error of the server or the proxy, or a success
\* whose body was cut off.
SilentOnlyAtGateway ==
  client = "settled" /\ Changing /\ NamesRecord(operation[2]) /\ doneFor # Nobody =>
    \/ result[1] = "record" \/ ReadsBack(result)
    \/ result[2] \in {200, 500, 502, 503, 504}

\* A call settles, unless Axis keeps the BFF waiting in the check of the record.
CallSettles == client = "sent" ~> (client # "sent" \/ [](server = "checking"))
=============================================================================
