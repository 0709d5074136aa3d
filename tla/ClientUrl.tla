------------------------------ MODULE ClientUrl ------------------------------
(***************************************************************************)
(* How the generated client writes a URL: the parameters of a path by the  *)
(* style their placeholder names (defaultPathSerializer), those of a query *)
(* (createQuerySerializer), both put together (getUrl), and the URL that   *)
(* the browser makes of the text (RequestUrl).                             *)
(*                                                                         *)
(* A text is a sequence of atoms: <<c>> for a character c, <<"%", c>> for  *)
(* its percent-encoding, <<"{", name, style, explode>> for a placeholder.  *)
(* A value is a record with a kind: "absent" (null or undefined), "text",  *)
(* "array" (its items are texts, null or undefined) or "object" (its       *)
(* entries are pairs of a key and a text, null or undefined).  What a      *)
(* server makes of a URL is at the end: it is what the values are compared *)
(* with.                                                                   *)
(***************************************************************************)
LOCAL INSTANCE Naturals
LOCAL INSTANCE Sequences
LOCAL INSTANCE SequencesExt

Each(s, Op(_)) == [i \in 1..Len(s) |-> Op(s[i])]
Chars(s) == Each(s, LAMBDA c : <<c>>)
Reserved == {<<c>> : c \in {"/", ",", ";", "&", "=", "|", " ", "?", "{", "["}}

\* null and undefined where a text is expected; neither is the text that spells it.
Null == <<<<"null">>>>
Undefined == <<<<"undefined">>>>
IsMissing(value) == value \in {Null, Undefined}

\* String(value), which is what encodeURIComponent encodes.
Spelled(value) ==
  CASE value = Null      -> Chars(<<"n", "u", "l", "l">>)
    [] value = Undefined -> Chars(<<"u", "n", "d", "e", "f", "i", "n", "e", "d">>)
    [] OTHER             -> value

\* Mutant: the delimiters of a URL are left as they are.
encodeURI(value) ==
  Each(Spelled(value), LAMBDA atom : IF atom = <<" ">> THEN <<"%", " ">> ELSE atom)

encodeURIComponent(value) ==
  Each(Spelled(value), LAMBDA atom : IF atom \in Reserved THEN <<"%", atom[1]>> ELSE atom)

\* A value that is not encoded is written by Array.join: nothing, if it is missing.
Raw(allowReserved, value) ==
  CASE ~allowReserved   -> encodeURIComponent(value)
    [] IsMissing(value) -> <<>>
    [] OTHER            -> value

Join(parts, separator) ==
  IF parts = <<>> THEN <<>>
  ELSE FoldLeft(LAMBDA t, part : t \o separator \o part, Head(parts), Tail(parts))

-----------------------------------------------------------------------------
(***************************************************************************)
(* Parameters.  An option is a record [style, explode, allowReserved].     *)
(***************************************************************************)
separatorExplode(style) ==
  CASE style = "label"  -> Chars(<<".">>)
    [] style = "matrix" -> Chars(<<";">>)
    [] style = "simple" -> Chars(<<",">>)
    [] OTHER            -> Chars(<<"&">>)

separatorArrayNoExplode(style) ==
  CASE style = "pipeDelimited"  -> Chars(<<"|">>)
    [] style = "spaceDelimited" -> <<<<"%", " ">>>>
    [] OTHER                    -> Chars(<<",">>)

\* What comes before the values of a parameter whose values are joined in one.
Lead(style, name) ==
  CASE style = "label"  -> Chars(<<".">>)
    [] style = "matrix" -> Chars(<<";">>) \o name \o Chars(<<"=">>)
    [] style = "simple" -> <<>>
    [] OTHER            -> name \o Chars(<<"=">>)

serializePrimitiveParam(name, allowReserved, value) ==
  IF IsMissing(value) THEN <<>> ELSE name \o Chars(<<"=">>) \o Raw(allowReserved, value)

\* Exploded, the separator of label and matrix comes first as well.
Exploded(style, parts) ==
  LET separator == separatorExplode(style)
  IN  (IF style \in {"label", "matrix"} THEN separator ELSE <<>>) \o Join(parts, separator)

serializeArrayParam(name, o, items) ==
  LET Value(v) == Raw(o.allowReserved, v)
      Part(v) == IF o.style \in {"label", "simple"}
                   THEN Value(v)
                   ELSE serializePrimitiveParam(name, o.allowReserved, v)
  IN  IF o.explode
        THEN Exploded(o.style, Each(items, Part))
        ELSE Lead(o.style, name) \o Join(Each(items, Value), separatorArrayNoExplode(o.style))

\* A deep object is always exploded, under name[key].
serializeObjectParam(name, o, entries) ==
  LET Name(key) == IF o.style = "deepObject"
                     THEN name \o Chars(<<"[">>) \o key \o Chars(<<"]">>)
                     ELSE key
      Part(e) == serializePrimitiveParam(Name(e[1]), o.allowReserved, e[2])
      Pair(e) == <<e[1], Raw(o.allowReserved, e[2])>>
  IN  IF o.style # "deepObject" /\ ~o.explode
        THEN Lead(o.style, name) \o Join(FlattenSeq(Each(entries, Pair)), Chars(<<",">>))
        ELSE Exploded(o.style, Each(entries, Part))

-----------------------------------------------------------------------------
(***************************************************************************)
(* Paths.                                                                  *)
(***************************************************************************)
Placeholder(name, style, explode) == <<"{", name, style, explode>>
IsPlaceholder(atom) == Len(atom) = 4

\* The text a placeholder gives way to.
Replacement(p, value) ==
  LET name == Chars(<<p[2]>>)
      o == [style |-> p[3], explode |-> p[4], allowReserved |-> FALSE]
  IN  CASE value.kind = "array"  -> serializeArrayParam(name, o, value.items)
        [] value.kind = "object" -> serializeObjectParam(name, o, value.entries)
        [] OTHER ->
             IF p[3] = "matrix"
               THEN Chars(<<";">>) \o serializePrimitiveParam(name, FALSE, value.text)
               ELSE encodeURIComponent((IF p[3] = "label" THEN Chars(<<".">>) ELSE <<>>)
                                       \o value.text)

\* String.replace: the first occurrence, if there is one.
ReplaceFirstAtom(url, match, text) ==
  IF \A i \in 1..Len(url) : url[i] # match THEN url
  ELSE LET i == CHOOSE i \in 1..Len(url) : url[i] = match /\ \A j \in 1..(i - 1) : url[j] # match
       IN  SubSeq(url, 1, i - 1) \o text \o SubSeq(url, i + 1, Len(url))

\* The placeholders in turn, each in the text the ones before it have left; one
\* without a value stays as it is.
defaultPathSerializer(url, path) ==
  FoldLeft(LAMBDA u, match : IF path[match[2]].kind = "absent" THEN u
                             ELSE ReplaceFirstAtom(u, match, Replacement(match, path[match[2]])),
           url, SelectSeq(url, IsPlaceholder))

-----------------------------------------------------------------------------
(***************************************************************************)
(* Queries: pairs of a name and a value, and the options of an array and   *)
(* of an object.                                                           *)
(***************************************************************************)
createQuerySerializer(arrayOption, objectOption, query) ==
  LET Part(q) ==
        CASE q[2].kind = "absent" -> <<>>
          [] q[2].kind = "array"  -> serializeArrayParam(q[1], arrayOption, q[2].items)
          [] q[2].kind = "object" -> serializeObjectParam(q[1], objectOption, q[2].entries)
          [] q[2].kind = "text"   -> serializePrimitiveParam(q[1], arrayOption.allowReserved, q[2].text)
  IN  Join(SelectSeq(Each(query, Part), LAMBDA text : text # <<>>), Chars(<<"&">>))

\* defaultQuerySerializer
DefaultArray == [style |-> "form", explode |-> TRUE, allowReserved |-> FALSE]
DefaultObject == [style |-> "deepObject", explode |-> TRUE, allowReserved |-> FALSE]

getUrl(baseUrl, url, path, search) ==
  LET slash == IF url # <<>> /\ Head(url) = <<"/">> THEN <<>> ELSE Chars(<<"/">>)
      asked == IF search # <<>> /\ Head(search) = <<"?">> THEN Tail(search) ELSE search
  IN  defaultPathSerializer(baseUrl \o slash \o url, path)
      \o (IF asked = <<>> THEN <<>> ELSE Chars(<<"?">>) \o asked)

-----------------------------------------------------------------------------
(***************************************************************************)
(* new Request(url) parses the text as a URL.                              *)
(***************************************************************************)
\* The parts between the separators; an empty text has one empty part.
SplitAt(text, separator) ==
  FoldLeft(LAMBDA parts, atom : IF <<atom>> = separator
                                  THEN Append(parts, <<>>)
                                  ELSE Append(Front(parts), Append(Last(parts), atom)),
           <<<<>>>>, text)

\* A text without its first n atoms.
From(text, n) == SubSeq(text, n + 1, Len(text))

Dot == Chars(<<".">>)
DotDot == Chars(<<".", ".">>)
DotSegments == {Dot, DotDot}

\* "." is left out, and ".." takes the segment before it away, but not the origin,
\* which is the first part; at the end either leaves an empty segment.
WithoutDots(segments) ==
  LET Step(path, segment) ==
        CASE segment = Dot    -> path
          [] segment = DotDot -> IF Len(path) > 1 THEN Front(path) ELSE path
          [] OTHER            -> Append(path, segment)
      path == FoldLeft(Step, <<Head(segments)>>, Tail(segments))
  IN  IF Last(segments) \in DotSegments THEN Append(path, <<>>) ELSE path

RequestUrl(url) ==
  LET path == Head(SplitAt(url, Chars(<<"?">>)))
  IN  Join(WithoutDots(SplitAt(path, Chars(<<"/">>))), Chars(<<"/">>)) \o From(url, Len(path))

-----------------------------------------------------------------------------
(***************************************************************************)
(* The reader: what a server that knows the style makes of a text.         *)
(***************************************************************************)
Decoded(text) == Each(text, LAMBDA atom : IF Len(atom) = 2 THEN <<atom[2]>> ELSE atom)

\* The name and the value of a part, still encoded.
Named(part) ==
  LET at == CHOOSE i \in 0..Len(part) :
              /\ i > 0 => part[i] = <<"=">>
              /\ \A j \in 1..Len(part) : part[j] = <<"=">> => 0 < i /\ i <= j
  IN  IF at = 0 THEN <<part, <<>>>>
      ELSE <<SubSeq(part, 1, at - 1), SubSeq(part, at + 1, Len(part))>>

\* The pairs of names and values of a query, still encoded.
QueryRead(search) ==
  Each(SelectSeq(SplitAt(search, Chars(<<"&">>)), LAMBDA part : part # <<>>), Named)

\* The value of a placeholder's segment, as a sequence of texts: the items of an
\* array, keys and values of an object in turn.  Where every part has a name, an
\* empty part is none.
SegmentRead(p, kind, segment) ==
  LET style == p[3]
      explode == p[4]
      lead == IF explode THEN Len(Exploded(style, <<>>)) ELSE Len(Lead(style, Chars(<<p[2]>>)))
      separator == IF explode THEN separatorExplode(style) ELSE Chars(<<",">>)
      parts == SplitAt(From(segment, lead), separator)
      named == Each(SelectSeq(parts, LAMBDA part : part # <<>>), Named)
  IN  CASE kind = "text" ->
             <<Decoded(From(segment, Len(Lead(style, Chars(<<p[2]>>)))))>>
        [] kind = "array" /\ explode /\ style = "matrix" -> Each(named, LAMBDA n : Decoded(n[2]))
        [] kind = "object" /\ explode -> FlattenSeq(Each(named, LAMBDA n : <<n[1], Decoded(n[2])>>))
        [] OTHER -> Each(parts, Decoded)
=============================================================================
