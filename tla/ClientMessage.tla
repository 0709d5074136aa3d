---------------------------- MODULE ClientMessage ----------------------------
(***************************************************************************)
(* What the generated client makes of its options before a request is sent *)
(* (the headers it merges, the credentials it adds, the body it writes)    *)
(* and of the response's headers afterwards (how its body is read).        *)
(*                                                                         *)
(* Headers are a function from the names that are set to the sequence of   *)
(* the values under each.  An entry of an option is a pair of a name and a *)
(* record of a kind and the values it stands for.                          *)
(***************************************************************************)
LOCAL INSTANCE Naturals
LOCAL INSTANCE Sequences
LOCAL INSTANCE SequencesExt
LOCAL INSTANCE TLC

CONSTANT EndsWith  \* the pairs of names of which the first ends with the second

-----------------------------------------------------------------------------
(***************************************************************************)
(* Headers and configurations.                                             *)
(***************************************************************************)
Without(headers, name) == [n \in DOMAIN headers \ {name} |-> headers[n]]
AppendTo(headers, name, value) ==
  (name :> (IF name \in DOMAIN headers THEN Append(headers[name], value) ELSE <<value>>)) @@ headers

\* One entry: null takes the header away, an array adds its items to it, undefined
\* leaves it, and anything else sets it (an object as JSON).
Entered(headers, entry) ==
  CASE entry[2].kind = "null"      -> Without(headers, entry[1])
    [] entry[2].kind = "undefined" -> headers
    [] entry[2].kind = "array"     ->
         FoldLeft(LAMBDA h, item : AppendTo(h, entry[1], item), headers, entry[2].values)
    [] OTHER                       -> (entry[1] :> entry[2].values) @@ headers

mergeHeaders(all) == FoldLeft(Entered, <<>>, FlattenSeq(all))

\* The entries of a Headers object: one for each name, its values in one text.
headersEntries(headers) ==
  LET names == SetToSeq(DOMAIN headers)
  IN  [i \in 1..Len(names) |-> <<names[i], [kind |-> "text", values |-> headers[names[i]]]>>]

\* One configuration on another: the headers are merged, what the other defines goes
\* first, and one slash at the end of the base URL (a text) is dropped.
mergeConfigs(a, b) ==
  LET config == b @@ a
      slashed == config.baseUrl # <<>> /\ Last(config.baseUrl) = <<"/">>
  IN  [baseUrl |-> IF slashed THEN Front(config.baseUrl) ELSE config.baseUrl,
       headers |-> headersEntries(mergeHeaders(<<a.headers, b.headers>>))]

-----------------------------------------------------------------------------
(***************************************************************************)
(* Credentials.  A scheme is a record [name, in, scheme]; its name may be  *)
(* missing, as it is in every operation of sdk.gen.ts.  Options are a      *)
(* record of the headers, the query and the cookies (the Cookie header,    *)
(* pair by pair).                                                          *)
(***************************************************************************)
NoName == "-"
NoToken == "-"

\* Mutant: the parameters of the query are not asked.
ExistsInHeaders(options, name) ==
  name # NoName /\ (name \in DOMAIN options.headers \/ \E c \in options.cookies : <<c[1], name>> \in EndsWith)

\* What JavaScript takes for true: no empty text (a zero stands like one).
IsTruthy(value) == value # ""

\* A header, a parameter that says something, or a cookie has the name.  A cookie is
\* found by its text: one whose name ends with the name is taken for it.
checkForExistence(options, name) ==
  /\ name # NoName
  /\ \/ name \in DOMAIN options.headers
     \/ name \in DOMAIN options.query /\ IsTruthy(options.query[name])
     \/ \E c \in options.cookies : <<c[1], name>> \in EndsWith

getAuthToken(auth, token) == IF auth.scheme = "none" THEN token ELSE <<auth.scheme, token>>

\* One scheme after the other, unless the name is taken or there is no token.  A scheme
\* without a name is never taken: it sets Authorization, whoever has set it before.
setAuthParams(options, security, token) ==
  LET Step(o, auth) ==
        LET name == IF auth.name = NoName THEN "Authorization" ELSE auth.name
            value == getAuthToken(auth, token)
        IN  IF checkForExistence(o, auth.name) \/ token = NoToken
              THEN o
              ELSE CASE auth.in = "query"  -> [o EXCEPT !.query = name :> value @@ @]
                     [] auth.in = "cookie" -> [o EXCEPT !.cookies = @ \cup {<<name, value>>}]
                     [] OTHER              -> [o EXCEPT !.headers = name :> value @@ @]
  IN  FoldLeft(Step, options, security)

-----------------------------------------------------------------------------
(***************************************************************************)
(* Bodies.  A body is "undefined", "function" (which JSON has no text for, *)
(* and which has no entries), "" (the empty text), "{}" (an object without *)
(* entries) or a value; what a serializer makes of it is a pair of both,   *)
(* "" or "undefined".                                                      *)
(***************************************************************************)
bodySerializer(serializer, body) ==
  CASE serializer = "json" /\ body = "function" -> <<"undefined">>
    [] serializer = "search" /\ body # "value"  -> <<"">>
    [] OTHER                                    -> <<serializer, body>>

\* opts.serializedBody
SerializedBody(serializer, body) ==
  IF body # "undefined" /\ serializer # "none" THEN bodySerializer(serializer, body)
                                               ELSE <<"undefined">>

\* What is sent, "null" or "undefined" where there is nothing to send.
getValidRequestBody(serializer, body) ==
  IF body = "undefined" \/ serializer = "none" THEN <<body>>
  ELSE IF SerializedBody(serializer, body) \in {<<"undefined">>, <<"">>} THEN <<"null">>
  ELSE SerializedBody(serializer, body)

\* Without a body, or with one that is serialized to an empty text, the request has no
\* Content-Type; with one that JSON has no text for it keeps it.
KeepsContentType(serializer, body) ==
  body # "undefined" /\ SerializedBody(serializer, body) # <<"">>

-----------------------------------------------------------------------------
(***************************************************************************)
(* Responses.  A response is a record of its status, its type, whether its *)
(* Content-Length is 0, and its body: "record" (a record's JSON), "other"  *)
(* (some other JSON), "garbage" (no JSON), "empty", "cut" (the connection  *)
(* breaks while it is read).                                               *)
(***************************************************************************)
getParseAs(type) ==
  CASE type = "none"                                                -> "stream"
    [] type \in {"application/json", "application/problem+json"}    -> "json"
    [] type = "multipart/form-data"                                 -> "formData"
    [] type \in {"application/octet-stream", "image/png"}           -> "blob"
    [] type \in {"text/html", "text/plain"}                         -> "text"
    [] OTHER                                                        -> "undefined"

\* parseAs 'auto', and 'json' where the type says nothing.
ParsedAs(type) == IF getParseAs(type) = "undefined" THEN "json" ELSE getParseAs(type)

Ok(response) == response.status \in 200..299
NoContent(response) == response.status = 204 \/ response.length0

\* The data of a successful response, as a pair of its form and its content; a body
\* that cannot be read or is no JSON throws.
Data(response) ==
  LET form == ParsedAs(response.type)
      broken == \/ response.body = "cut" \/ form = "formData"
                \/ form = "json" /\ response.body = "garbage"
  IN  IF NoContent(response) THEN <<form, "empty">>
      ELSE IF form # "stream" /\ broken THEN <<"throws">> ELSE <<form, response.body>>
=============================================================================
