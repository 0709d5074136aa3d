--------------------------- MODULE MCProductClient ---------------------------
(***************************************************************************)
(* The generated client and the product's use of it, for model checking:   *)
(* the part whose turn it is runs, the others keep still.  The parts have  *)
(* no state in common, so their states add up.  For the operators that     *)
(* only compute, a turn is one probe: a case of their arguments.           *)
(***************************************************************************)
EXTENDS EventStream, ClientRequest, ApiRequest, ClientUrl, TLC

VARIABLES turn, probe

SomeResponses ==
  {[status |-> 200, type |-> "application/json", length0 |-> FALSE, body |-> body] :
     body \in {"record", "garbage", "cut"}}
  \cup {[status |-> status, type |-> "none", length0 |-> TRUE, body |-> "empty"] : status \in {204, 404}}

-----------------------------------------------------------------------------
(***************************************************************************)
(* The probes.                                                             *)
(***************************************************************************)
Text(text) == [kind |-> "text", text |-> text]
Items(items) == [kind |-> "array", items |-> items]
Entries(entries) == [kind |-> "object", entries |-> entries]
Absent == [kind |-> "absent"]

A == Chars(<<"a">>)
B == Chars(<<"b">>)
Plain == {A, Spelled(Null), Chars(<<"a", "/", "b">>), Chars(<<",">>), Chars(<<"&", "=">>), Chars(<<";", "|">>)}
Awkward == {<<>>, Dot, DotDot, Chars(<<"?", " ">>)}
Missing == {Null, Undefined}

Lists(texts) == UNION {[1..n -> texts] : n \in 1..2}
Objects(texts) == {<<<<A, v>>>> : v \in texts} \cup {<<<<A, v[1]>>, <<B, v[2]>>>> : v \in [1..2 -> texts]}

\* A path with a placeholder of every style and a plain one behind it, or one that is
\* the same.
PathProbes ==
  LET Values(style, explode) ==
        LET texts == IF style = "label" /\ explode THEN Plain ELSE Plain \cup Awkward
        IN  {Text(t) : t \in texts} \cup {Items(t) : t \in Lists(texts \cup Missing)}
            \cup {Entries(o) : o \in Objects(texts \cup Missing)}
  IN  UNION {{[first |-> Placeholder("p", style, explode), value |-> v, second |-> second, base |-> base] :
                v \in Values(style, explode), second \in {"p", "q"}, base \in {<<"h">>, <<"h", "/">>}} :
             style \in {"simple", "label", "matrix"}, explode \in BOOLEAN}

QueryProbes ==
  LET Styles == {DefaultArray} \cup {[DefaultArray EXCEPT !.style = s, !.explode = FALSE] :
                                       s \in {"form", "pipeDelimited", "spaceDelimited"}}
      Texts(o) == Missing \cup Plain \cup (IF o.style = "spaceDelimited" THEN {<<>>} ELSE Awkward)
  IN  UNION {{[array |-> o, object |-> object, first |-> v, second |-> w] :
                v \in {Absent} \cup {Items(t) : t \in Lists(Texts(o))} \cup {Entries(e) : e \in Objects(Texts(o))},
                w \in {Absent, Text(B), Text(Chars(<<"&", "=">>))},
                object \in {DefaultObject, [DefaultObject EXCEPT !.style = "form", !.explode = FALSE]}} :
             o \in Styles}

HeaderProbes ==
  LET Entry == [kind : {"null", "undefined"}, values : {<<>>}] \cup [kind : {"text"}, values : {<<"v">>, <<"w">>}]
               \cup [kind : {"array"}, values : {<<"v">>, <<"w", "v">>}]
      List == {<<>>} \cup {<<<<"x", e>>>> : e \in Entry} \cup {<<<<"x", e>>, <<"y", f>>>> : e \in Entry, f \in Entry}
  IN  {[defaults |-> d, set |-> s, own |-> o] :
         d \in {<<>>, <<<<"x", [kind |-> "text", values |-> <<"d">>]>>>>}, s \in List, o \in List}

BodyProbes ==
  [serializer : {"json", "search", "form", "none"}, body : {"undefined", "function", "", "{}", "value"}]

CookieNames == {"sid", "id", "key"}
Ending == {<<n, n>> : n \in CookieNames} \cup {<<"sid", "id">>}
AuthProbes ==
  LET Scheme == {[name |-> NoName, in |-> "header", scheme |-> "bearer"], [name |-> "id", in |-> "cookie", scheme |-> "none"]}
                \cup [name : {"key"}, in : {"header", "query", "cookie"}, scheme : {"none"}]
  IN  {[security |-> s, token |-> t,
        options |-> [headers |-> h, query |-> q, cookies |-> c]] :
         s \in UNION {[1..n -> Scheme] : n \in 1..2}, t \in {NoToken, "token"},
         h \in {<<>>, [key |-> "mine"], [Authorization |-> "mine"]}, q \in {<<>>, [key |-> "mine"], [key |-> ""]},
         c \in SUBSET {<<"sid", "mine">>, <<"id", "mine">>}}

OperationProbes == Operations \X {ProductKey, Uuid, OtherText}

Probes(what) ==
  CASE what = "path" -> PathProbes      [] what = "query" -> QueryProbes
    [] what = "headers" -> HeaderProbes [] what = "body" -> BodyProbes
    [] what = "auth" -> AuthProbes      [] what = "operation" -> OperationProbes

-----------------------------------------------------------------------------
StreamStill == ending = LF /\ ~limited
RequestStill == LET hooks == CHOOSE h \in [1..2 -> Hooks] : h[1] # h[2]
                IN  fns = [list \in Loops |-> hooks]
ApiStill == session = Nobody

MCInit ==
  /\ StreamInit /\ RequestInit /\ ApiInit
  /\ \/ turn = "stream" /\ probe = <<>> /\ RequestStill /\ ApiStill
     \/ turn = "request" /\ probe = <<>> /\ StreamStill /\ ApiStill
     \/ turn = "api" /\ probe = <<>> /\ StreamStill /\ RequestStill
     \/ /\ turn \in {"path", "query", "headers", "body", "auth", "operation"}
        /\ probe \in Probes(turn)
        /\ StreamStill /\ RequestStill /\ ApiStill

MCNext ==
  /\ UNCHANGED <<turn, probe>>
  /\ \/ turn = "stream" /\ StreamNext /\ UNCHANGED <<requestVars, apiVars>>
     \/ turn = "request" /\ RequestNext /\ UNCHANGED <<streamVars, apiVars>>
     \/ turn = "api" /\ ApiNext /\ UNCHANGED <<streamVars, requestVars>>

MCSpec ==
  /\ MCInit
  /\ [][MCNext]_<<turn, probe, streamVars, requestVars, apiVars>>
  /\ turn = "stream" => StreamFairness
  /\ turn = "api" => ApiFairness

-----------------------------------------------------------------------------
(***************************************************************************)
(* Properties of the operators.                                            *)
(***************************************************************************)

\* The texts of a list as they are written: a missing one is spelled out where it is
\* written by its value alone, and left out where it has a name of its own.
ItemsWritten(items, named) ==
  IF named THEN SelectSeq(items, LAMBDA t : ~IsMissing(t)) ELSE Each(items, Spelled)
EntriesWritten(entries, named) ==
  IF named THEN SelectSeq(entries, LAMBDA e : ~IsMissing(e[2]))
           ELSE Each(entries, LAMBDA e : <<e[1], Spelled(e[2])>>)

\* A path that is filled in has the segments it was written with, no value adds one,
\* and a server that knows the styles reads every value as it was given, null and
\* undefined as they are written.  The exception is a value whose segment is "." or
\* "..", such as a text of one or two dots, or an empty text as a label: the URL
\* that is requested has another path, and fewer segments.
PathReadsBack ==
  turn = "path" =>
    LET p == probe.first
        second == IF probe.second = "p" THEN p ELSE Placeholder("q", "simple", FALSE)
        base == mergeConfigs([baseUrl |-> <<>>, headers |-> <<>>],
                             [baseUrl |-> Chars(probe.base), headers |-> <<>>]).baseUrl
        url == getUrl(base, <<<<"a">>, <<"/">>, p, <<"/">>, second>>,
                      [p |-> probe.value, q |-> Text(Chars(<<"/", "q">>))], <<>>)
        segments == SplitAt(RequestUrl(url), Chars(<<"/">>))
        Meant(v) == CASE v.kind = "text"  -> <<v.text>>
                      [] v.kind = "array" -> ItemsWritten(v.items, p[3] = "matrix" /\ p[4])
                      [] OTHER            -> FlattenSeq(EntriesWritten(v.entries, p[4]))
    IN  IF Replacement(p, probe.value) \in DotSegments
          THEN Len(segments) < 4
          ELSE /\ Len(segments) = 4
               /\ SegmentRead(p, probe.value.kind, segments[3]) = Meant(probe.value)
               /\ IF probe.second = "p" THEN segments[4] = segments[3]
                                        ELSE Decoded(segments[4]) = Chars(<<"/", "q">>)

\* A server that knows the styles reads from a query the parameters that were given,
\* and no others.  null and undefined are not there, but for those in an array or an
\* object that is not exploded: they read as the texts "null" and "undefined".
QueryReadsBack ==
  turn = "query" =>
    LET separator == IF probe.array.explode THEN Chars(<<",">>) ELSE separatorArrayNoExplode(probe.array.style)
        Meant(name, v) ==
          CASE v.kind = "absent" -> <<>>
            [] v.kind = "text"   -> <<<<name, <<v.text>>>>>>
            [] v.kind = "array" /\ ~probe.array.explode -> <<<<name, ItemsWritten(v.items, FALSE)>>>>
            [] v.kind = "array" /\ probe.array.explode ->
                 Each(ItemsWritten(v.items, TRUE), LAMBDA t : <<name, <<t>>>>)
            [] v.kind = "object" /\ probe.object.explode ->
                 Each(EntriesWritten(v.entries, TRUE),
                      LAMBDA e : <<name \o Chars(<<"[">>) \o e[1] \o Chars(<<"]">>), <<e[2]>>>>)
            [] v.kind = "object" /\ ~probe.object.explode ->
                 <<<<name, FlattenSeq(EntriesWritten(v.entries, FALSE))>>>>
        query == <<<<Chars(<<"p">>), probe.first>>, <<Chars(<<"q">>), probe.second>>>>
        url == getUrl(Chars(<<"h">>), Chars(<<"/">>), [p |-> Absent],
                      createQuerySerializer(probe.array, probe.object, query))
        asked == SplitAt(RequestUrl(url), Chars(<<"?">>))
        ReadPair(pair) == <<pair[1], Each(SplitAt(pair[2], IF pair[1] = Chars(<<"p">>) /\ probe.first.kind = "array"
                                                          THEN separator ELSE Chars(<<",">>)), Decoded)>>
    IN  Each(QueryRead(IF Len(asked) = 1 THEN <<>> ELSE asked[2]), ReadPair)
          = Meant(Chars(<<"p">>), probe.first) \o Meant(Chars(<<"q">>), probe.second)

\* Headers that are merged as they come, by the client's configuration, by setConfig
\* and by a request, are those that would be merged at once.
MergedStepwise ==
  turn = "headers" =>
    LET Config(entries) == [baseUrl |-> <<>>, headers |-> entries]
        merged == mergeConfigs(mergeConfigs(Config(<<>>), Config(probe.defaults)), Config(probe.set))
    IN  mergeHeaders(<<merged.headers, probe.own>>) = mergeHeaders(<<probe.defaults, probe.set, probe.own>>)

\* A request with a body keeps the type it was given, and one without a body has none.
\* The exception is a body that JSON has no text for: it is not sent, and its type is.
BodyHasItsType ==
  turn = "body" =>
    LET hasBody == getValidRequestBody(probe.serializer, probe.body) \notin {<<"undefined">>, <<"null">>}
        hasNoText == probe.serializer = "json" /\ probe.body = "function"
    IN  KeepsContentType(probe.serializer, probe.body) <=> hasBody \/ hasNoText

\* What the caller set is kept: every header and cookie, and every parameter of the
\* query that is not empty.  The exception is the caller's own Authorization under a
\* scheme without a name, as all operations of the client have it: with a token the
\* scheme replaces it.  A scheme with a name and a token finds its credential in the
\* request, or a cookie it takes for its own.
CredentialsKept ==
  turn = "auth" =>
    LET before == probe.options
        after == setAuthParams(before, probe.security, probe.token)
        names == {probe.security[i].name : i \in DOMAIN probe.security}
        replaced == IF NoName \in names /\ probe.token # NoToken THEN {"Authorization"} ELSE {}
    IN  /\ \A n \in DOMAIN before.headers \ replaced : after.headers[n] = before.headers[n]
        /\ \A n \in replaced : after.headers[n] = getAuthToken([scheme |-> "bearer"], probe.token)
        /\ \A n \in DOMAIN before.query : IsTruthy(before.query[n]) => after.query[n] = before.query[n]
        /\ before.cookies \subseteq after.cookies
        /\ probe.token # NoToken =>
             \A n \in names \ {NoName} :
               \/ n \in DOMAIN after.headers
               \/ n \in DOMAIN after.query /\ IsTruthy(after.query[n])
               \/ \E c \in after.cookies : <<c[1], n>> \in EndsWith

\* What is encoded into a URL reads back: the path and the query.
UrlReadsBack == PathReadsBack /\ QueryReadsBack

\* What the caller has set goes out with the request: the headers, however they were
\* merged, the type of the body and the caller's own credentials, with the exceptions
\* that BodyHasItsType and CredentialsKept name.
CallerHeadersKept == MergedStepwise /\ BodyHasItsType /\ CredentialsKept

\* Of everything the generated client can ask Axis for, however it is filled in, the
\* gateway lets through creating a record of the product and reading, saving and
\* submitting one; and those that name a record are checked to be the product's.
OnlyRecordOperationsPass ==
  turn = "operation" =>
    LET path == Filled(probe[1], probe[2])
        ofRecord == probe[2] = Uuid /\ probe[1] \in {GetRecord, SaveRecord, SubmitRecord}
    IN  /\ IsAllowed(probe[1][1], path) <=> ofRecord \/ (probe[1] = CreateRecord /\ probe[2] = ProductKey)
        /\ IsAllowed(probe[1][1], path) => (NamesRecord(path) <=> ofRecord)
=============================================================================
