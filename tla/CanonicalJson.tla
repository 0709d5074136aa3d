---------------------------- MODULE CanonicalJson ----------------------------
(***************************************************************************)
(* The canonical JSON of solution sources and payloads                     *)
(* (scripts/build-solution.mjs).  A text is the tree of what its writer    *)
(* chose: the form of every character, the order of the members, members   *)
(* of the same name; a value is what JSON.parse makes of it.  A raw half   *)
(* of a surrogate pair stands for bytes that are not UTF-8.                *)
(***************************************************************************)
EXTENDS Naturals, Sequences, SequencesExt

\* Characters, as far as the code tells them apart.
Shorts == {"quote", "newline"}       \* those with an escape of their own, and encodeString's
Slash == {"slash"}                   \* it has one too, which encodeString does not use
Controls == {"escape"}               \* the other control characters
Spaces == {"space", "newline"}
IntegerKeys == <<<<"1">>, <<"2">>>>  \* names that are array indices, in their order

-----------------------------------------------------------------------------
(***************************************************************************)
(* JSON.parse.                                                             *)
(***************************************************************************)
Paired(text, i) ==
  \/ text[i] = "high" /\ i < Len(text) /\ text[i + 1] = "low"
  \/ text[i] = "low" /\ i > 1 /\ text[i - 1] = "high"

Text(chars) == [i \in DOMAIN chars |-> chars[i].char]

\* UTF-8 has no half of a pair: where a file has the bytes of one, or any others that
\* are not UTF-8, readFile puts the replacement character.
WholePair(chars, i) ==
  /\ Paired(Text(chars), i)
  /\ chars[IF chars[i].char = "high" THEN i + 1 ELSE i - 1].form = "raw"
DecodedText(chars) ==
  [i \in DOMAIN chars |->
     IF chars[i].form = "raw" /\ chars[i].char \in {"high", "low"} /\ ~WholePair(chars, i)
       THEN [char |-> "replacement", form |-> "raw"] ELSE chars[i]]

RECURSIVE Decoded(_)
Decoded(tree) ==
  CASE tree.kind = "string" -> [tree EXCEPT !.chars = DecodedText(@)]
    [] tree.kind = "array"  -> [tree EXCEPT !.items = [i \in DOMAIN @ |-> Decoded(@[i])]]
    [] tree.kind = "object" ->
         [tree EXCEPT !.entries = [i \in DOMAIN @ |-> <<DecodedText(@[i][1]), Decoded(@[i][2])>>]]
    [] OTHER                -> tree

\* Control characters and quotes are escaped.
IsStringText(chars) ==
  \A i \in DOMAIN chars : /\ chars[i].form = "short" => chars[i].char \in Shorts \cup Slash
                          /\ chars[i].form = "raw" => chars[i].char \notin Shorts \cup Controls

\* JSON.parse takes the text.
RECURSIVE IsJson(_)
IsJson(tree) ==
  CASE tree.kind = "string" -> IsStringText(tree.chars)
    [] tree.kind = "array"  -> \A i \in DOMAIN tree.items : IsJson(tree.items[i])
    [] tree.kind = "object" -> \A i \in DOMAIN tree.entries : IsStringText(tree.entries[i][1]) /\ IsJson(tree.entries[i][2])
    [] OTHER                -> TRUE

Keys(entries) == {entries[i][1] : i \in DOMAIN entries}
LastOf(entries, key) == entries[Max({i \in DOMAIN entries : entries[i][1] = key})][2]

\* The last member of a name counts, in the place of the first; indices come first.
ObjectOf(entries) ==
  LET firsts == SelectSeq([i \in DOMAIN entries |-> i],
                          LAMBDA i : \A j \in 1..(i - 1) : entries[j][1] # entries[i][1])
      keys == [n \in DOMAIN firsts |-> entries[firsts[n]][1]]
      order == SelectSeq(IntegerKeys, LAMBDA k : k \in Keys(entries))
               \o SelectSeq(keys, LAMBDA k : k \notin ToSet(IntegerKeys))
  IN  [n \in DOMAIN order |-> <<order[n], LastOf(entries, order[n])>>]

RECURSIVE Parse(_)
Parse(tree) ==
  CASE tree.kind = "string" -> [kind |-> "string", text |-> Text(tree.chars)]
    [] tree.kind = "number" -> [kind |-> "number", number |-> tree.number]
    [] tree.kind = "array"  -> [kind |-> "array", items |-> [i \in DOMAIN tree.items |-> Parse(tree.items[i])]]
    [] tree.kind = "object" ->
         [kind |-> "object",
          entries |-> ObjectOf([i \in DOMAIN tree.entries |->
                                  <<Text(tree.entries[i][1]), Parse(tree.entries[i][2])>>])]
    [] OTHER                -> tree

-----------------------------------------------------------------------------
(***************************************************************************)
(* What is canonical.                                                      *)
(***************************************************************************)
IsTrimmed(text) == text = <<>> \/ {Head(text), Last(text)} \cap Spaces = {}
IsComposed(text) == \A i \in 2..Len(text) : ~(text[i] = "mark" /\ text[i - 1] = "a")
InspectedText(text) == IsTrimmed(text) /\ IsComposed(text)

RECURSIVE inspectCanonical(_)
inspectCanonical(value) ==
  CASE value.kind = "null"    -> FALSE
    [] value.kind = "string"  -> InspectedText(value.text)
    [] value.kind = "number"  -> value.number \notin {"half", "beyond"}
    [] value.kind = "boolean" -> TRUE
    [] value.kind = "array"   -> \A i \in DOMAIN value.items : inspectCanonical(value.items[i])
    [] value.kind = "object"  -> \A i \in DOMAIN value.entries : /\ InspectedText(value.entries[i][1])
                                                                 /\ inspectCanonical(value.entries[i][2])

Form(text, i) ==
  CASE text[i] \in Shorts                              -> "short"
    [] text[i] \in Controls                            -> "UPPER"
    [] text[i] \in {"high", "low"} /\ ~Paired(text, i) -> "lower"
    [] OTHER                                           -> "raw"

encodeString(text) == [i \in DOMAIN text |-> [char |-> text[i], form |-> Form(text, i)]]

\* JSON.stringify writes a number one way, and no sign for zero.
StringifiedNumber(number) ==
  [kind |-> "number", number |-> IF number = "minus zero" THEN "zero" ELSE number, form |-> "plain"]

RECURSIVE canonicalJson(_)
canonicalJson(value) ==
  CASE value.kind = "string" -> [kind |-> "string", chars |-> encodeString(value.text)]
    [] value.kind = "number" -> StringifiedNumber(value.number)
    [] value.kind = "array"  ->
         [kind |-> "array", items |-> [i \in DOMAIN value.items |-> canonicalJson(value.items[i])]]
    [] value.kind = "object" ->
         [kind |-> "object",
          entries |-> [i \in DOMAIN value.entries |->
                         <<encodeString(value.entries[i][1]), canonicalJson(value.entries[i][2])>>]]
    [] OTHER                 -> value

\* Mutant: the text is not compared with the canonical one of its value.
IsInspectedFile(raw) ==
  /\ ~raw.bom
  /\ raw.end \in {"none", "lf"}
  /\ ~raw.spaced
  /\ LET tree == Decoded(raw.tree) IN IsJson(tree) /\ inspectCanonical(Parse(tree))

\* A file: a byte order mark, space between the tokens, its tree, the end of its line.
IsCanonicalFile(raw) ==
  /\ ~raw.bom
  /\ raw.end \in {"none", "lf"}
  /\ LET tree == Decoded(raw.tree)
     IN  /\ IsJson(tree)
         /\ inspectCanonical(Parse(tree))
         /\ ~raw.spaced /\ canonicalJson(Parse(tree)) = tree

-----------------------------------------------------------------------------
\* A tree that says the same to every reader of JSON: one that takes the first member
\* of a name, one that keeps the order of the text, one that has a sign for zero or
\* knows no halves.
RECURSIVE SaysOneThing(_)
SaysOneThing(tree) ==
  CASE tree.kind = "string" -> IsTrimmed(Text(tree.chars)) /\ IsComposed(Text(tree.chars))
    [] tree.kind = "number" -> <<tree.number, tree.form>> \in {"zero", "one"} \X {"plain"}
    [] tree.kind = "array"  -> \A i \in DOMAIN tree.items : SaysOneThing(tree.items[i])
    [] tree.kind = "object" ->
         /\ \A i, j \in DOMAIN tree.entries : i # j => Text(tree.entries[i][1]) # Text(tree.entries[j][1])
         /\ [i \in DOMAIN tree.entries |-> Text(tree.entries[i][1])]
              = LET entries == Parse(tree).entries IN [i \in DOMAIN entries |-> entries[i][1]]
         /\ \A i \in DOMAIN tree.entries : SaysOneThing(tree.entries[i][2])
    [] tree.kind = "boolean" -> TRUE
    [] tree.kind = "null"    -> FALSE

\* What a file in UTF-8 that is accepted says is what it says to any reader of JSON, at
\* every depth.  (A file that is not UTF-8 may be accepted as well, as the text that
\* was decoded; other readers refuse it.)
EveryReaderAgrees(raw) ==
  Decoded(raw.tree) = raw.tree /\ IsCanonicalFile(raw) => SaysOneThing(raw.tree)

\* The string that an accepted file holds has no other text that is accepted.
OneTextIsAccepted(raw) ==
  raw.tree.kind = "string" /\ Decoded(raw.tree) = raw.tree /\ IsCanonicalFile(raw) =>
    \A form \in [DOMAIN raw.tree.chars -> {"raw", "short", "UPPER", "lower"}] :
      LET other == [kind |-> "string",
                    chars |-> [i \in DOMAIN form |-> [char |-> raw.tree.chars[i].char, form |-> form[i]]]]
      IN  Decoded(other) = other /\ IsCanonicalFile([raw EXCEPT !.tree = other]) => other = raw.tree

\* Every value that may be packaged is written as a text that is JSON, that reads back as
\* that value, and that the same code accepts as canonical.
WrittenIsRead(value) ==
  inspectCanonical(value) =>
    LET tree == canonicalJson(value)
    IN  /\ Decoded(tree) = tree /\ IsJson(tree)
        /\ Parse(tree) = value
        /\ IsCanonicalFile([bom |-> FALSE, end |-> "lf", spaced |-> FALSE, tree |-> tree])
=============================================================================
