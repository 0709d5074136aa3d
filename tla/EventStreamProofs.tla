------------------------- MODULE EventStreamProofs -------------------------
(***************************************************************************)
(* What the generated client's reader of events delivers, for any number   *)
(* of events, any limit of attempts, chunks cut anywhere and connections   *)
(* that break anywhere.  StreamInv is the inductive invariant: what is     *)
(* still to be handled is in order, behind what was delivered, and each    *)
(* piece of data has its id before it; where lines end with LF it is       *)
(* exactly the text after the last id.                                     *)
(***************************************************************************)
EXTENDS EventStream, SequenceTheorems, WellFoundedInduction, TLAPS

\* The symbols a text is made of.
EventLines == ({"id"} \X (1..Events) \X {0}) \cup ({"data"} \X (1..Events) \X {1, 2})
Symbols == {LF, CRLF} \cup EventLines
IsLine(x) == x[1] \in {"id", "data"}

StreamTypes ==
  /\ ending \in {LF, CRLF} /\ lastId \in 0..Events
  /\ buffer \in Seq({LF} \cup EventLines) /\ wire \in Seq(Symbols)
  /\ delivered \in Seq(UNION {[D -> EventLines] : D \in SUBSET Nat})

\* The lines of one text come before those of another, or in their order.
AllBefore(s, t) ==
  \A i \in DOMAIN s, j \in DOMAIN t : IsLine(s[i]) /\ IsLine(t[j]) => Before(s[i], t[j])
InOrder(s) == \A i, j \in DOMAIN s : i < j /\ IsLine(s[i]) /\ IsLine(s[j]) => Before(s[i], s[j])

\* What is still to be handled is in order, and its ids are new.
OrderInv ==
  stream = "reading" =>
    /\ InOrder(buffer) /\ InOrder(wire) /\ AllBefore(buffer, wire)
    /\ \A i \in DOMAIN buffer : buffer[i][1] = "id" => lastId < buffer[i][2]
    /\ \A i \in DOMAIN wire : wire[i][1] = "id" => lastId < wire[i][2]

\* Data comes behind the id of its event.
Names(s, j, n) == \E i \in DOMAIN s : i < j /\ s[i] = IdLine(n)
NamedInv ==
  stream = "reading" =>
    /\ \A j \in DOMAIN buffer :
         buffer[j][1] = "data" => buffer[j][2] <= lastId \/ Names(buffer, j, buffer[j][2])
    /\ \A j \in DOMAIN wire :
         wire[j][1] = "data" => \/ wire[j][2] <= lastId
                                \/ Names(wire, j, wire[j][2])
                                \/ \E i \in DOMAIN buffer : buffer[i] = IdLine(wire[j][2])

\* What was delivered is of an event that was handled, and comes before what is to be.
DeliveredInv ==
  /\ NothingTwice
  /\ \A i \in DOMAIN delivered :
       /\ \A p \in DOMAIN delivered[i] : delivered[i][p][1] = "data" /\ delivered[i][p][2] <= lastId
       /\ stream = "reading" => AllBefore(delivered[i], buffer) /\ AllBefore(delivered[i], wire)

\* With LF, buffer and wire are the text after the last id.
Exact ==
  /\ Len(buffer) + Len(wire) = 7 * (Events - lastId)
  /\ \A i \in DOMAIN buffer : buffer[i] = SentAfter(lastId)[i]
  /\ \A i \in DOMAIN wire : wire[i] = SentAfter(lastId)[Len(buffer) + i]
EachWhole ==
  /\ \A n \in (1..lastId) \ rejected : \E i \in DOMAIN delivered : IsWhole(delivered[i], n)
  /\ \A i \in DOMAIN delivered : \E n \in (1..lastId) \ rejected : IsWhole(delivered[i], n)
ExactInv ==
  ending = LF =>
    /\ stream = "reading" => Exact
    /\ EachWhole
    /\ rejected \subseteq 1..lastId

StreamInv == StreamTypes /\ OrderInv /\ NamedInv /\ DeliveredInv /\ ExactInv

-----------------------------------------------------------------------------
(***************************************************************************)
(* Facts about the symbols, numbers and texts.                             *)
(***************************************************************************)
LEMMA SymbolFacts ==
  /\ LF # CRLF /\ LF[1] \notin {"id", "data"} /\ CRLF[1] \notin {"id", "data"}
  /\ \A n : IdLine(n)[1] = "id" /\ IdLine(n)[2] = n /\ IdLine(n)[3] = 0
  /\ \A n, part : DataLine(n, part)[1] = "data" /\ DataLine(n, part)[2] = n /\ DataLine(n, part)[3] = part
  /\ \A x \in EventLines : x[1] \in {"id", "data"} /\ x[2] \in 1..Events /\ x[3] \in 0..2
  /\ \A x \in EventLines : x[1] = "id" => x = IdLine(x[2])
  /\ \A n \in 1..Events : /\ IdLine(n) \in EventLines
                          /\ DataLine(n, 1) \in EventLines /\ DataLine(n, 2) \in EventLines
BY AttemptAssumption DEF LF, CRLF, IdLine, DataLine, EventLines

LEMMA EventNumbers == \A x \in EventLines : x[2] \in Nat /\ x[3] \in Nat /\ IsLine(x)
<1> SUFFICES ASSUME NEW x \in EventLines PROVE x[2] \in Nat /\ x[3] \in Nat /\ IsLine(x)
  OBVIOUS
<1>1. x[1] \in {"id", "data"} /\ x[2] \in 1..Events /\ x[3] \in 0..2
  BY SymbolFacts
<1> QED
  BY <1>1, AttemptAssumption DEF IsLine

\* A set of numbers has a least one, and a bounded one a greatest.
LEMMA LeastNumber ==
  ASSUME NEW S, S \subseteq Nat, S # {}
  PROVE  \E n \in S : \A m \in S : n <= m
<1> DEFINE R == OpToRel(<, Nat)
<1>1. PICK n \in S : \A m \in S : <<m, n>> \notin R
  <2> HIDE DEF R
  <2>1. IsWellFoundedOn(R, Nat)
    BY NatLessThanWellFounded DEF R
  <2> QED
    BY <2>1, WFMin
<1>2. ASSUME NEW m \in S PROVE n <= m
  <2>1. ~(<<m, n>>[1] < <<m, n>>[2]) /\ m \in Nat /\ n \in Nat
    BY <1>1 DEF OpToRel
  <2> QED
    BY <2>1
<1> QED
  BY <1>2

LEMMA GreatestNumber ==
  ASSUME NEW k \in Nat, NEW S, S \subseteq 1..k, S # {}
  PROVE  \E n \in S : \A m \in S : m <= n
<1> DEFINE T == {k - n : n \in S}
<1>1. T \subseteq Nat /\ T # {}
  OBVIOUS
<1>2. PICK t \in T : \A u \in T : t <= u
  <2> HIDE DEF T
  <2> QED
    BY <1>1, LeastNumber
<1>3. PICK n \in S : t = k - n
  OBVIOUS
<1>4. \A m \in S : m <= n
  <2> TAKE m \in S
  <2>1. t <= k - m
    BY <1>2
  <2> QED
    BY <2>1, <1>3
<1> QED
  BY <1>4

\* What the buffer is cut into at its first blank line.
LEMMA CutFacts ==
  ASSUME buffer \in Seq({LF} \cup EventLines), BlankLines(buffer) # {}
  PROVE  /\ FirstBlank \in BlankLines(buffer) /\ \A j \in BlankLines(buffer) : FirstBlank <= j
         /\ Lines \in Seq({LF} \cup EventLines) /\ Len(Lines) = FirstBlank - 1
         /\ \A i \in 1..(FirstBlank - 1) : Lines[i] = buffer[i]
         /\ Rest \in Seq({LF} \cup EventLines) /\ Len(Rest) = Len(buffer) - FirstBlank - 1
         /\ \A i \in 1..(Len(buffer) - FirstBlank - 1) : Rest[i] = buffer[FirstBlank + 1 + i]
<1>1. BlankLines(buffer) \subseteq 1..(Len(buffer) - 1) /\ Len(buffer) \in Nat
  BY DEF BlankLines
<1>2. \E n \in BlankLines(buffer) : \A m \in BlankLines(buffer) : n <= m
  BY <1>1, LeastNumber
<1>3. FirstBlank \in BlankLines(buffer) /\ \A j \in BlankLines(buffer) : FirstBlank <= j
  BY <1>2 DEF FirstBlank
<1>4. FirstBlank \in 1..(Len(buffer) - 1)
  BY <1>1, <1>3
<1> HIDE DEF FirstBlank
<1> QED
  BY <1>1, <1>3, <1>4 DEF Lines, Rest

\* The text after an id, symbol by symbol.
LEMMA SentFacts ==
  ASSUME NEW id \in 0..Events, NEW p \in 1..(7 * (Events - id))
  PROVE  \E n \in (id + 1)..Events, r \in 1..7 :
           p = 7 * (n - id - 1) + r /\ SentAfter(id)[p] = Sent(n)[r]
<1>1. id \in Nat /\ Events \in Nat /\ p \in Nat /\ p >= 1
  BY AttemptAssumption
<1> DEFINE d == (p - 1) \div 7
           r == (p - 1) % 7
<1>2. p - 1 = 7 * d + r /\ d \in Nat /\ r \in 0..6
  BY <1>1
<1>3. SentAfter(id)[p] = Sent(id + 1 + d)[1 + r]
  BY DEF SentAfter
<1> HIDE DEF d, r
<1>4. d < Events - id
  BY <1>1, <1>2
<1>5. id + 1 + d \in (id + 1)..Events /\ 1 + r \in 1..7 /\ p = 7 * ((id + 1 + d) - id - 1) + (1 + r)
  BY <1>1, <1>2, <1>4
<1> QED
  BY <1>3, <1>5

LEMMA SentAt ==
  ASSUME NEW id \in 0..Events, NEW n \in (id + 1)..Events, NEW r \in 1..7
  PROVE  /\ 7 * (n - id - 1) + r \in 1..(7 * (Events - id))
         /\ SentAfter(id)[7 * (n - id - 1) + r] = Sent(n)[r]
<1>1. id \in Nat /\ Events \in Nat /\ n \in Nat /\ id + 1 <= n /\ n <= Events
  BY AttemptAssumption
<1> DEFINE p == 7 * (n - id - 1) + r
<1>2. p \in 1..(7 * (Events - id))
  BY <1>1
<1>3. PICK m \in (id + 1)..Events, s \in 1..7 : p = 7 * (m - id - 1) + s /\ SentAfter(id)[p] = Sent(m)[s]
  BY <1>2, SentFacts
<1>4. m = n /\ s = r
  BY <1>1, <1>3
<1> QED
  BY <1>2, <1>3, <1>4

\* The symbols of an event.
LEMMA EventFacts ==
  ASSUME ending \in {LF, CRLF}, NEW n \in 1..Events, NEW r \in 1..7
  PROVE  /\ Sent(n)[r] \in Symbols
         /\ r = 1 => Sent(n)[r] = IdLine(n)
         /\ r = 3 => Sent(n)[r] = DataLine(n, 1)
         /\ r = 5 => Sent(n)[r] = DataLine(n, 2)
         /\ r \notin {1, 3, 5} => Sent(n)[r] = ending
<1>1. IdLine(n) \in Symbols /\ DataLine(n, 1) \in Symbols /\ DataLine(n, 2) \in Symbols /\ ending \in Symbols
  BY SymbolFacts DEF Symbols
<1>2. /\ Sent(n)[1] = IdLine(n) /\ Sent(n)[2] = ending /\ Sent(n)[3] = DataLine(n, 1)
      /\ Sent(n)[4] = ending /\ Sent(n)[5] = DataLine(n, 2) /\ Sent(n)[6] = ending /\ Sent(n)[7] = ending
  BY DEF Sent
<1>3. r = 1 \/ r = 2 \/ r = 3 \/ r = 4 \/ r = 5 \/ r = 6 \/ r = 7
  OBVIOUS
<1> QED
  BY <1>1, <1>2, <1>3

-----------------------------------------------------------------------------
(***************************************************************************)
(* Every step keeps the invariant.                                         *)
(***************************************************************************)
LEMMA StreamStarts == StreamInit => StreamInv
<1> SUFFICES ASSUME StreamInit PROVE StreamInv
  OBVIOUS
<1>1. Len(delivered) = 0 /\ DOMAIN delivered = {}
  BY DEF StreamInit
<1>2. StreamTypes
  BY AttemptAssumption DEF StreamInit, StreamTypes
<1>3. OrderInv /\ NamedInv
  BY DEF StreamInit, OrderInv, NamedInv
<1>4. DeliveredInv /\ ExactInv
  BY <1>1 DEF StreamInit, DeliveredInv, NothingTwice, ExactInv, EachWhole
<1> QED
  BY <1>2, <1>3, <1>4 DEF StreamInv

\* A connection has the events after the last id to hand over.
LEMMA TextInOrder ==
  ASSUME ending \in {LF, CRLF}, lastId \in 0..Events
  PROVE  /\ SentAfter(lastId) \in Seq(Symbols) /\ Len(SentAfter(lastId)) = 7 * (Events - lastId)
         /\ InOrder(SentAfter(lastId))
         /\ \A p \in DOMAIN SentAfter(lastId) :
              IsLine(SentAfter(lastId)[p]) => lastId < SentAfter(lastId)[p][2]
         /\ \A p \in DOMAIN SentAfter(lastId) :
              SentAfter(lastId)[p][1] = "data" => Names(SentAfter(lastId), p, SentAfter(lastId)[p][2])
<1> DEFINE text == SentAfter(lastId)
           long == 7 * (Events - lastId)
<1>1. long \in Nat /\ lastId \in Nat /\ Events \in Nat
  BY AttemptAssumption
<1>2. DOMAIN text = 1..long
  BY DEF SentAfter
<1>3. ASSUME NEW p \in 1..long
      PROVE  \E n \in (lastId + 1)..Events, r \in 1..7 :
               p = 7 * (n - lastId - 1) + r /\ text[p] = Sent(n)[r] /\ n \in 1..Events
  <2>1. PICK n \in (lastId + 1)..Events, r \in 1..7 : p = 7 * (n - lastId - 1) + r /\ text[p] = Sent(n)[r]
    BY <1>3, SentFacts
  <2>2. n \in 1..Events
    BY <1>1
  <2> HIDE DEF text
  <2> QED
    BY <2>1, <2>2
<1>4. \A p \in 1..long : text[p] \in Symbols
  BY <1>3, EventFacts
<1>5. text \in Seq(Symbols) /\ Len(text) = long
  <2>1. text = [p \in 1..long |-> text[p]]
    BY DEF SentAfter
  <2> HIDE DEF text, long
  <2>2. text \in [1..long -> Symbols]
    BY <2>1, <1>4
  <2> QED
    BY <1>1, <2>2, SeqDef
<1>6. ASSUME NEW p \in 1..long, NEW n \in (lastId + 1)..Events, NEW r \in 1..7, n \in 1..Events,
             p = 7 * (n - lastId - 1) + r, text[p] = Sent(n)[r], IsLine(text[p])
      PROVE  /\ r \in {1, 3, 5} /\ text[p][2] = n /\ text[p][3] = (r - 1) \div 2
             /\ text[p][1] = "data" => r # 1
  <2>1. r \in {1, 3, 5}
    BY <1>6, EventFacts, SymbolFacts DEF IsLine
  <2>2. CASE r = 1
    BY <1>6, <2>2, EventFacts, SymbolFacts
  <2>3. CASE r = 3
    BY <1>6, <2>3, EventFacts, SymbolFacts
  <2>4. CASE r = 5
    BY <1>6, <2>4, EventFacts, SymbolFacts
  <2> QED
    BY <2>1, <2>2, <2>3, <2>4
<1>7. InOrder(text)
  <2> SUFFICES ASSUME NEW p \in 1..long, NEW q \in 1..long, p < q, IsLine(text[p]), IsLine(text[q])
               PROVE  Before(text[p], text[q])
    BY <1>2 DEF InOrder
  <2>1. PICK n \in (lastId + 1)..Events, r \in 1..7 :
          p = 7 * (n - lastId - 1) + r /\ text[p] = Sent(n)[r] /\ n \in 1..Events
    BY <1>3
  <2>2. PICK m \in (lastId + 1)..Events, s \in 1..7 :
          q = 7 * (m - lastId - 1) + s /\ text[q] = Sent(m)[s] /\ m \in 1..Events
    BY <1>3
  <2>3. n < m \/ (n = m /\ r < s)
    BY <1>1, <2>1, <2>2
  <2>4. r \in {1, 3, 5} /\ text[p][2] = n /\ text[p][3] = (r - 1) \div 2
    BY <1>6, <2>1
  <2>5. s \in {1, 3, 5} /\ text[q][2] = m /\ text[q][3] = (s - 1) \div 2
    BY <1>6, <2>2
  <2> HIDE DEF text
  <2> QED
    BY <2>3, <2>4, <2>5 DEF Before
<1>8. ASSUME NEW p \in 1..long, IsLine(text[p])
      PROVE  lastId < text[p][2] /\ (text[p][1] = "data" => Names(text, p, text[p][2]))
  <2>1. PICK n \in (lastId + 1)..Events, r \in 1..7 :
          p = 7 * (n - lastId - 1) + r /\ text[p] = Sent(n)[r] /\ n \in 1..Events
    BY <1>3
  <2>2. text[p][2] = n /\ (text[p][1] = "data" => r # 1)
    BY <1>6, <1>8, <2>1
  <2> DEFINE q == 7 * (n - lastId - 1) + 1
  <2>3. q \in 1..long /\ text[q] = Sent(n)[1]
    BY SentAt
  <2>4. text[q] = IdLine(n)
    BY <2>1, <2>3, EventFacts
  <2>5. r # 1 => q < p
    BY <1>1, <2>1
  <2>6. lastId < n
    BY <1>1
  <2> HIDE DEF text, q
  <2>7. text[p][1] = "data" => Names(text, p, text[p][2])
    BY <1>2, <2>2, <2>3, <2>4, <2>5 DEF Names
  <2> QED
    BY <2>2, <2>6, <2>7
<1>9. \A p \in DOMAIN text : IsLine(text[p]) => lastId < text[p][2]
  BY <1>2, <1>8
<1>10. \A p \in DOMAIN text : text[p][1] = "data" => Names(text, p, text[p][2])
  BY <1>2, <1>8 DEF IsLine
<1> QED
  BY <1>5, <1>7, <1>9, <1>10

LEMMA RespondsKeeps == StreamInv /\ Responds => StreamInv'
<1> SUFFICES ASSUME StreamInv, Responds PROVE StreamInv'
  OBVIOUS
<1> USE DEF StreamInv
<1>1. /\ ending' = ending /\ lastId' = lastId /\ delivered' = delivered /\ rejected' = rejected
      /\ buffer' = <<>> /\ wire' = SentAfter(lastId)
  BY DEF Responds, scenario
<1>2. ending \in {LF, CRLF} /\ lastId \in 0..Events /\ lastId \in Nat /\ Events \in Nat
  BY AttemptAssumption DEF StreamTypes
<1> DEFINE text == SentAfter(lastId)
<1>3. /\ text \in Seq(Symbols) /\ Len(text) = 7 * (Events - lastId) /\ InOrder(text)
      /\ \A p \in DOMAIN text : IsLine(text[p]) => lastId < text[p][2]
      /\ \A p \in DOMAIN text : text[p][1] = "data" => Names(text, p, text[p][2])
  BY <1>2, TextInOrder
<1>4. buffer' \in Seq({LF} \cup EventLines) /\ DOMAIN buffer' = {} /\ Len(buffer') = 0
  BY <1>1
<1> HIDE DEF text
<1>5. SentAfter(lastId) = text /\ wire' = text
  BY <1>1 DEF text
<1>6. StreamTypes'
  BY <1>1, <1>3, <1>4, <1>5 DEF StreamTypes, LF, CRLF, Symbols, EventLines
<1>7. OrderInv'
  <2>1. \A p \in DOMAIN text : text[p][1] = "id" => lastId < text[p][2]
    BY <1>3 DEF IsLine
  <2> QED
    BY <1>1, <1>3, <1>4, <1>5, <2>1 DEF OrderInv, InOrder, AllBefore
<1>8. NamedInv'
  <2>1. \A p \in DOMAIN text : text[p][1] = "data" => Names(text, p, text[p][2])
    BY <1>3
  <2> QED
    BY <1>1, <1>4, <1>5, <2>1 DEF NamedInv, Names
<1>9. DeliveredInv'
  <2>1. ASSUME NEW i \in DOMAIN delivered, NEW p \in DOMAIN delivered[i],
               NEW q \in DOMAIN text, IsLine(text[q])
        PROVE  Before(delivered[i][p], text[q])
    <3>1. delivered[i][p][2] <= lastId
      BY DEF DeliveredInv
    <3>2. delivered[i] \in UNION {[D -> EventLines] : D \in SUBSET Nat}
      BY DEF StreamTypes
    <3>3. delivered[i][p] \in EventLines
      BY <3>2
    <3>4. delivered[i][p][2] \in Nat
      BY <3>3, EventNumbers
    <3>5. lastId < text[q][2]
      BY <1>3, <2>1
    <3>6. text[q] \in EventLines
      BY <1>3, <2>1, SymbolFacts DEF Symbols, IsLine
    <3>7. text[q][2] \in Nat
      BY <3>6, EventNumbers
    <3> QED
      BY <1>2, <3>1, <3>4, <3>5, <3>7 DEF Before
  <2>2. \A i \in DOMAIN delivered : AllBefore(delivered[i], text)
    BY <2>1 DEF AllBefore
  <2>3. \A i \in DOMAIN delivered : AllBefore(delivered[i], buffer')
    BY <1>4 DEF AllBefore
  <2>4. NothingTwice'
    BY <1>1 DEF DeliveredInv, NothingTwice
  <2> QED
    BY <1>1, <1>5, <2>2, <2>3, <2>4 DEF DeliveredInv, AllBefore
<1>10. ExactInv'
  <2>1. (ending = LF)' => Exact'
    <3> SUFFICES ASSUME (ending = LF)' PROVE Exact'
      OBVIOUS
    <3>1. SentAfter(lastId)' = text
      BY <1>1 DEF text, SentAfter, Sent, IdLine, DataLine
    <3>2. \A i \in DOMAIN wire' : i \in Nat
      BY <1>3, <1>5
    <3> QED
      BY <1>1, <1>3, <1>4, <1>5, <3>1, <3>2 DEF Exact
  <2>2. EachWhole <=> EachWhole'
    BY <1>1 DEF EachWhole, IsWhole, DataLine
  <2> QED
    BY <1>1, <2>1, <2>2 DEF ExactInv, LF
<1> QED
  BY <1>6, <1>7, <1>8, <1>9, <1>10

\* Where the elements of a concatenation stand.
LEMMA ConcatPlaces ==
  ASSUME NEW S, NEW s \in Seq(S), NEW t \in Seq(S)
  PROVE  /\ s \o t \in Seq(S) /\ Len(s \o t) = Len(s) + Len(t)
         /\ \A i \in 1..Len(s) : (s \o t)[i] = s[i]
         /\ \A i \in 1..Len(t) : (s \o t)[Len(s) + i] = t[i]
<1> DEFINE u == s \o t
<1>1. Len(s) \in Nat /\ Len(t) \in Nat
  OBVIOUS
<1>2. /\ u \in Seq(S) /\ Len(u) = Len(s) + Len(t)
      /\ \A i \in 1..(Len(s) + Len(t)) : u[i] = IF i <= Len(s) THEN s[i] ELSE t[i - Len(s)]
  BY ConcatProperties
<1> HIDE DEF u
<1>3. \A i \in 1..Len(s) : u[i] = s[i]
  BY <1>1, <1>2
<1>4. ASSUME NEW i \in 1..Len(t) PROVE u[Len(s) + i] = t[i]
  <2>1. Len(s) + i \in 1..(Len(s) + Len(t)) /\ ~(Len(s) + i <= Len(s)) /\ (Len(s) + i) - Len(s) = i
    BY <1>1
  <2> QED
    BY <1>2, <2>1
<1> QED
  BY <1>2, <1>3, <1>4 DEF u

\* The chunk takes n symbols to the buffer, and c of them leave the wire: a line end
\* that is cut leaves its LF there.
Moves(n, c) ==
  /\ c = n \/ (c = n - 1 /\ wire[n] = CRLF)
  /\ buffer' \in Seq({LF} \cup EventLines) /\ Len(buffer') = Len(buffer) + n
  /\ \A i \in 1..Len(buffer) : buffer'[i] = buffer[i]
  /\ \A i \in 1..n : buffer'[Len(buffer) + i] = IF wire[i] = CRLF THEN LF ELSE wire[i]
  /\ wire' \in Seq(Symbols) /\ Len(wire') = Len(wire) - c
  /\ \A j \in 1..(Len(wire) - c) : wire'[j] = IF j + c = n THEN LF ELSE wire[j + c]

LEMMA ReadMoves ==
  ASSUME StreamTypes, Read
  PROVE  \E n \in 1..Len(wire), c \in Nat : Moves(n, c)
<1>1. PICK n \in 1..Len(wire) :
        /\ buffer' = buffer \o Normalised(SubSeq(wire, 1, n))
        /\ \/ wire' = SubSeq(wire, n + 1, Len(wire))
           \/ wire[n] = CRLF /\ wire' = <<LF>> \o SubSeq(wire, n + 1, Len(wire))
  BY DEF Read
<1>2. /\ buffer \in Seq({LF} \cup EventLines) /\ Len(buffer) \in Nat
      /\ wire \in Seq(Symbols) /\ Len(wire) \in Nat /\ n \in Nat
  BY DEF StreamTypes
<1> DEFINE chunk == SubSeq(wire, 1, n)
           left == SubSeq(wire, n + 1, Len(wire))
<1>3. chunk \in Seq(Symbols) /\ Len(chunk) = n /\ \A i \in 1..n : chunk[i] = wire[i]
  BY <1>2
<1>4. left \in Seq(Symbols) /\ Len(left) = Len(wire) - n /\ \A j \in 1..(Len(wire) - n) : left[j] = wire[j + n]
  BY <1>2
<1> HIDE DEF chunk, left
<1>5. /\ Normalised(chunk) \in Seq({LF} \cup EventLines) /\ Len(Normalised(chunk)) = n
      /\ \A i \in 1..n : Normalised(chunk)[i] = IF wire[i] = CRLF THEN LF ELSE wire[i]
  <2>1. Normalised(chunk) = [i \in 1..n |-> IF chunk[i] = CRLF THEN LF ELSE chunk[i]]
    BY <1>2, <1>3 DEF Normalised
  <2>2. \A i \in 1..n : chunk[i] \in Symbols
    BY <1>2, <1>3
  <2>3. Normalised(chunk) \in [1..n -> {LF} \cup EventLines]
    BY <2>1, <2>2 DEF Symbols
  <2> HIDE DEF Normalised
  <2>4. Normalised(chunk) \in Seq({LF} \cup EventLines)
    BY <1>2, <2>3, SeqDef
  <2> QED
    BY <1>2, <1>3, <2>1, <2>3, <2>4
<1> HIDE DEF Normalised
<1>6. buffer' = buffer \o Normalised(chunk)
  BY <1>1 DEF chunk
<1>7. /\ buffer' \in Seq({LF} \cup EventLines) /\ Len(buffer') = Len(buffer) + n
      /\ \A i \in 1..Len(buffer) : buffer'[i] = buffer[i]
      /\ \A i \in 1..n : buffer'[Len(buffer) + i] = Normalised(chunk)[i]
  <2> DEFINE added == Normalised(chunk)
  <2>1. added \in Seq({LF} \cup EventLines) /\ Len(added) = n /\ buffer' = buffer \o added
    BY <1>5, <1>6
  <2> HIDE DEF added
  <2>2. /\ buffer \o added \in Seq({LF} \cup EventLines) /\ Len(buffer \o added) = Len(buffer) + Len(added)
        /\ \A i \in 1..Len(buffer) : (buffer \o added)[i] = buffer[i]
        /\ \A i \in 1..Len(added) : (buffer \o added)[Len(buffer) + i] = added[i]
    <3>1. buffer \in Seq({LF} \cup EventLines) /\ added \in Seq({LF} \cup EventLines)
      BY <1>2, <2>1
    <3> QED
      BY <3>1, ConcatPlaces
  <2> QED
    BY <2>1, <2>2 DEF added
<1>8. CASE wire' = left
  <2>1. /\ wire' \in Seq(Symbols) /\ Len(wire') = Len(wire) - n
        /\ \A j \in 1..(Len(wire) - n) : j + n # n /\ wire'[j] = wire[j + n]
    BY <1>2, <1>4, <1>8
  <2>2. Moves(n, n)
    BY <1>2, <1>5, <1>7, <2>1 DEF Moves
  <2> QED
    BY <1>2, <2>2
<1>9. CASE wire[n] = CRLF /\ wire' = <<LF>> \o left
  <2> DEFINE one == <<LF>>
  <2>1. one \in Seq(Symbols) /\ Len(one) = 1 /\ one[1] = LF
    BY DEF Symbols
  <2> HIDE DEF one
  <2>a. wire' = one \o left
    BY <1>9 DEF one
  <2>2. /\ wire' \in Seq(Symbols) /\ Len(wire') = 1 + Len(left) /\ wire'[1] = LF
        /\ \A j \in 1..Len(left) : wire'[1 + j] = left[j]
    <3>1. /\ one \o left \in Seq(Symbols) /\ Len(one \o left) = Len(one) + Len(left)
          /\ \A i \in 1..Len(one) : (one \o left)[i] = one[i]
          /\ \A i \in 1..Len(left) : (one \o left)[Len(one) + i] = left[i]
      <4>1. one \in Seq(Symbols) /\ left \in Seq(Symbols)
        BY <1>4, <2>1
      <4> QED
        BY <4>1, ConcatPlaces
    <3> QED
      BY <2>1, <2>a, <3>1
  <2>3. n - 1 \in Nat /\ Len(wire') = Len(wire) - (n - 1)
    BY <1>2, <1>4, <2>2
  <2>4. ASSUME NEW j \in 1..(Len(wire) - (n - 1))
        PROVE  wire'[j] = IF j + (n - 1) = n THEN LF ELSE wire[j + (n - 1)]
    <3>1. CASE j = 1
      BY <1>2, <2>2, <3>1
    <3>2. CASE j # 1
      <4>1. j - 1 \in 1..Len(left) /\ 1 + (j - 1) = j /\ j + (n - 1) # n /\ (j - 1) + n = j + (n - 1)
        BY <1>2, <1>4, <3>2
      <4>2. wire'[1 + (j - 1)] = left[j - 1] /\ left[j - 1] = wire[(j - 1) + n]
        BY <1>4, <2>2, <4>1
      <4> QED
        BY <4>1, <4>2
    <3> QED
      BY <3>1, <3>2
  <2>5. Moves(n, n - 1)
    BY <1>5, <1>7, <1>9, <2>2, <2>3, <2>4 DEF Moves
  <2> QED
    BY <2>3, <2>5
<1> QED
  BY <1>1, <1>8, <1>9 DEF left

\* Nothing in a text with LF can be cut.
LEMMA LfIsWhole ==
  ASSUME ending = LF, NEW id \in 0..Events, NEW p \in 1..(7 * (Events - id))
  PROVE  SentAfter(id)[p] # CRLF
<1>1. PICK n \in (id + 1)..Events, r \in 1..7 : SentAfter(id)[p] = Sent(n)[r]
  BY SentFacts
<1>2. n \in 1..Events
  BY AttemptAssumption
<1> QED
  BY <1>1, <1>2, EventFacts, SymbolFacts

LEMMA ReadKeeps == StreamInv /\ Read => StreamInv'
<1> SUFFICES ASSUME StreamInv, Read PROVE StreamInv'
  OBVIOUS
<1> USE DEF StreamInv
<1>1. /\ ending' = ending /\ lastId' = lastId /\ delivered' = delivered /\ rejected' = rejected
      /\ stream' = stream /\ stream = "reading"
  BY DEF Read, scenario
<1>2. PICK n \in 1..Len(wire), c \in Nat : Moves(n, c)
  BY ReadMoves
<1> DEFINE k == Len(buffer)
<1>3. /\ buffer \in Seq({LF} \cup EventLines) /\ k \in Nat /\ DOMAIN buffer = 1..k
      /\ wire \in Seq(Symbols) /\ Len(wire) \in Nat /\ DOMAIN wire = 1..Len(wire)
      /\ n \in Nat /\ n >= 1 /\ n <= Len(wire)
      /\ ending \in {LF, CRLF} /\ lastId \in 0..Events
  BY DEF StreamTypes
<1>4. (c = n \/ c = n - 1) /\ c <= n /\ c >= n - 1
  BY <1>2, <1>3 DEF Moves
<1>5. DOMAIN buffer' = 1..(k + n) /\ DOMAIN wire' = 1..(Len(wire) - c)
  BY <1>2 DEF Moves
<1> HIDE DEF k
<1>6. /\ \A i \in 1..k : buffer'[i] = buffer[i]
      /\ \A i \in 1..n : wire[i] # CRLF => buffer'[k + i] = wire[i]
  BY <1>2 DEF Moves, k
<1>7. \A j \in 1..(Len(wire) - c) : j + c # n => wire'[j] = wire[j + c]
  BY <1>2 DEF Moves
\* Where the lines of the new texts come from.
<1>8. ASSUME NEW i \in DOMAIN buffer', IsLine(buffer'[i])
      PROVE  \/ i \in 1..k /\ buffer'[i] = buffer[i]
             \/ i > k /\ i - k \in 1..n /\ buffer'[i] = wire[i - k]
  <2>1. CASE i <= k
    BY <1>3, <1>5, <1>6, <2>1
  <2>2. CASE ~(i <= k)
    <3>1. i - k \in 1..n /\ k + (i - k) = i /\ i > k
      BY <1>3, <1>5, <2>2
    <3>2. buffer'[i] = IF wire[i - k] = CRLF THEN LF ELSE wire[i - k]
      BY <1>2, <3>1 DEF Moves, k
    <3>3. buffer'[i] # LF
      BY <1>8, SymbolFacts DEF IsLine
    <3> QED
      BY <3>1, <3>2, <3>3
  <2> QED
    BY <2>1, <2>2
<1>9. ASSUME NEW j \in DOMAIN wire', IsLine(wire'[j])
      PROVE  j + c \in DOMAIN wire /\ j + c > n /\ wire'[j] = wire[j + c]
  <2>1. wire'[j] # LF
    BY <1>9, SymbolFacts DEF IsLine
  <2>2. wire'[j] = IF j + c = n THEN LF ELSE wire[j + c]
    BY <1>2, <1>5 DEF Moves
  <2>3. j + c # n
    BY <2>1, <2>2
  <2>4. j \in 1..(Len(wire) - c)
    BY <1>5
  <2>5. j + c \in 1..Len(wire) /\ j + c > n
    BY <1>3, <1>4, <2>3, <2>4
  <2> QED
    BY <1>3, <2>2, <2>3, <2>5
<1>10. StreamTypes'
  BY <1>1, <1>2 DEF StreamTypes, Moves, LF, CRLF, Symbols, EventLines
<1>11. InOrder(buffer) /\ InOrder(wire) /\ AllBefore(buffer, wire)
  BY <1>1 DEF OrderInv
<1>12. OrderInv'
  <2>1. ASSUME NEW i \in DOMAIN buffer', NEW j \in DOMAIN buffer', i < j,
               IsLine(buffer'[i]), IsLine(buffer'[j])
        PROVE  Before(buffer'[i], buffer'[j])
    <3>1. CASE j \in 1..k /\ buffer'[j] = buffer[j]
      <4>1. i \in 1..k /\ buffer'[i] = buffer[i]
        BY <1>3, <1>5, <1>6, <2>1, <3>1
      <4> QED
        BY <1>3, <1>11, <2>1, <3>1, <4>1 DEF InOrder
    <3>2. CASE j > k /\ j - k \in 1..n /\ buffer'[j] = wire[j - k]
      <4>1. j - k \in DOMAIN wire
        BY <1>3, <3>2
      <4>2. CASE i \in 1..k /\ buffer'[i] = buffer[i]
        BY <1>3, <1>11, <2>1, <3>2, <4>1, <4>2 DEF AllBefore
      <4>3. CASE i > k /\ i - k \in 1..n /\ buffer'[i] = wire[i - k]
        <5>1. i - k \in DOMAIN wire /\ i - k < j - k
          BY <1>3, <1>5, <2>1, <4>3
        <5> QED
          BY <1>11, <2>1, <3>2, <4>1, <4>3, <5>1 DEF InOrder
      <4> QED
        BY <1>8, <2>1, <4>2, <4>3
    <3> QED
      BY <1>8, <2>1, <3>1, <3>2
  <2>2. ASSUME NEW i \in DOMAIN wire', NEW j \in DOMAIN wire', i < j,
               IsLine(wire'[i]), IsLine(wire'[j])
        PROVE  Before(wire'[i], wire'[j])
    <3>1. i + c < j + c
      BY <1>4, <1>5, <2>2
    <3> QED
      BY <1>9, <1>11, <2>2, <3>1 DEF InOrder
  <2>3. ASSUME NEW i \in DOMAIN buffer', NEW j \in DOMAIN wire', IsLine(buffer'[i]), IsLine(wire'[j])
        PROVE  Before(buffer'[i], wire'[j])
    <3>1. j + c \in DOMAIN wire /\ j + c > n /\ wire'[j] = wire[j + c]
      BY <1>9, <2>3
    <3>2. CASE i \in 1..k /\ buffer'[i] = buffer[i]
      BY <1>3, <1>11, <2>3, <3>1, <3>2 DEF AllBefore
    <3>3. CASE i > k /\ i - k \in 1..n /\ buffer'[i] = wire[i - k]
      <4>1. i - k \in DOMAIN wire /\ i - k < j + c
        BY <1>3, <3>1, <3>3
      <4> QED
        BY <1>11, <2>3, <3>1, <3>3, <4>1 DEF InOrder
    <3> QED
      BY <1>8, <2>3, <3>2, <3>3
  <2>4. ASSUME NEW i \in DOMAIN buffer', buffer'[i][1] = "id" PROVE lastId < buffer'[i][2]
    <3>1. IsLine(buffer'[i])
      BY <2>4 DEF IsLine
    <3>2. CASE i \in 1..k /\ buffer'[i] = buffer[i]
      BY <1>1, <1>3, <2>4, <3>2 DEF OrderInv
    <3>3. CASE i > k /\ i - k \in 1..n /\ buffer'[i] = wire[i - k]
      <4>1. i - k \in DOMAIN wire
        BY <1>3, <3>3
      <4> QED
        BY <1>1, <2>4, <3>3, <4>1 DEF OrderInv
    <3> QED
      BY <1>8, <3>1, <3>2, <3>3
  <2>5. ASSUME NEW j \in DOMAIN wire', wire'[j][1] = "id" PROVE lastId < wire'[j][2]
    <3>1. j + c \in DOMAIN wire /\ wire'[j] = wire[j + c]
      BY <1>9, <2>5 DEF IsLine
    <3> QED
      BY <1>1, <2>5, <3>1 DEF OrderInv
  <2> QED
    BY <1>1, <2>1, <2>2, <2>3, <2>4, <2>5 DEF OrderInv, InOrder, AllBefore
<1>13. NamedInv'
  <2>1. ASSUME NEW i \in DOMAIN wire, NEW m, wire[i] = IdLine(m), i <= n
        PROVE  k + i \in DOMAIN buffer' /\ buffer'[k + i] = IdLine(m)
    <3>1. wire[i] # CRLF
      BY <2>1, SymbolFacts
    <3>2. i \in 1..n /\ k + i \in 1..(k + n)
      BY <1>3, <2>1
    <3> QED
      BY <1>5, <1>6, <2>1, <3>1, <3>2
  <2>2. ASSUME NEW j \in DOMAIN buffer', buffer'[j][1] = "data"
        PROVE  buffer'[j][2] <= lastId \/ \E i \in DOMAIN buffer' : i < j /\ buffer'[i] = IdLine(buffer'[j][2])
    <3> DEFINE m == buffer'[j][2]
    <3>1. CASE j \in 1..k /\ buffer'[j] = buffer[j]
      <4>1. m <= lastId \/ Names(buffer, j, m)
        BY <1>1, <1>3, <2>2, <3>1 DEF NamedInv
      <4>2. ASSUME NEW i \in DOMAIN buffer, i < j, buffer[i] = IdLine(m)
            PROVE  i \in DOMAIN buffer' /\ buffer'[i] = IdLine(m)
        <5>1. i \in 1..k /\ i \in 1..(k + n)
          BY <1>3
        <5> QED
          BY <1>5, <1>6, <4>2, <5>1
      <4> QED
        BY <4>1, <4>2 DEF Names
    <3>2. CASE j > k /\ j - k \in 1..n /\ buffer'[j] = wire[j - k]
      <4>1. j - k \in DOMAIN wire
        BY <1>3, <3>2
      <4>2. m <= lastId \/ Names(wire, j - k, m) \/ \E i \in DOMAIN buffer : buffer[i] = IdLine(m)
        BY <1>1, <2>2, <3>2, <4>1 DEF NamedInv
      <4>3. CASE Names(wire, j - k, m)
        <5>1. PICK i \in DOMAIN wire : i < j - k /\ wire[i] = IdLine(m)
          BY <4>3 DEF Names
        <5>2. i <= n /\ k + i < j
          BY <1>3, <1>5, <3>2, <5>1
        <5>3. k + i \in DOMAIN buffer' /\ buffer'[k + i] = IdLine(m)
          BY <2>1, <5>1, <5>2
        <5> QED
          BY <5>2, <5>3 DEF Names
      <4>4. CASE \E i \in DOMAIN buffer : buffer[i] = IdLine(m)
        <5>1. PICK i \in DOMAIN buffer : buffer[i] = IdLine(m)
          BY <4>4
        <5>2. i \in 1..k /\ i \in 1..(k + n) /\ i < j
          BY <1>3, <3>2, <1>5
        <5> QED
          BY <1>5, <1>6, <5>1, <5>2 DEF Names
      <4> QED
        BY <4>2, <4>3, <4>4
    <3>3. IsLine(buffer'[j])
      BY <2>2 DEF IsLine
    <3> QED
      BY <1>8, <3>1, <3>2, <3>3
  <2>3. ASSUME NEW j \in DOMAIN wire', wire'[j][1] = "data"
        PROVE  \/ wire'[j][2] <= lastId
               \/ \E i \in DOMAIN wire' : i < j /\ wire'[i] = IdLine(wire'[j][2])
               \/ \E i \in DOMAIN buffer' : buffer'[i] = IdLine(wire'[j][2])
    <3> DEFINE m == wire'[j][2]
    <3>1. j + c \in DOMAIN wire /\ j + c > n /\ wire'[j] = wire[j + c]
      BY <1>9, <2>3 DEF IsLine
    <3>2. m <= lastId \/ Names(wire, j + c, m) \/ \E i \in DOMAIN buffer : buffer[i] = IdLine(m)
      BY <1>1, <2>3, <3>1 DEF NamedInv
    <3>3. CASE Names(wire, j + c, m)
      <4>1. PICK i \in DOMAIN wire : i < j + c /\ wire[i] = IdLine(m)
        BY <3>3 DEF Names
      <4>2. CASE i <= n
        BY <2>1, <4>1, <4>2
      <4>3. CASE ~(i <= n)
        <5>a. /\ i \in 1..Len(wire) /\ j \in 1..(Len(wire) - c) /\ n \in Nat /\ c \in Nat
              /\ Len(wire) \in Nat /\ c <= n /\ i < j + c /\ n < i
          BY <1>3, <1>4, <1>5, <4>1, <4>3
        <5>1. i - c \in 1..(Len(wire) - c) /\ (i - c) + c = i /\ i # n /\ i - c < j
          BY <5>a
        <5>2. wire'[i - c] = IdLine(m)
          BY <1>7, <4>1, <5>1
        <5> QED
          BY <1>5, <5>1, <5>2 DEF Names
      <4> QED
        BY <4>2, <4>3
    <3>4. CASE \E i \in DOMAIN buffer : buffer[i] = IdLine(m)
      <4>1. PICK i \in DOMAIN buffer : buffer[i] = IdLine(m)
        BY <3>4
      <4>2. i \in 1..k /\ i \in 1..(k + n)
        BY <1>3
      <4> QED
        BY <1>5, <1>6, <4>1, <4>2
    <3> QED
      BY <3>2, <3>3, <3>4
  <2> QED
    BY <1>1, <2>2, <2>3 DEF NamedInv, Names, IdLine
<1>14. DeliveredInv'
  <2>1. ASSUME NEW d, AllBefore(d, buffer), AllBefore(d, wire) PROVE AllBefore(d, buffer)' /\ AllBefore(d, wire)'
    <3>1. ASSUME NEW p \in DOMAIN d, NEW i \in DOMAIN buffer', IsLine(d[p]), IsLine(buffer'[i])
          PROVE  Before(d[p], buffer'[i])
      <4>1. CASE i \in 1..k /\ buffer'[i] = buffer[i]
        BY <1>3, <2>1, <3>1, <4>1 DEF AllBefore
      <4>2. CASE i > k /\ i - k \in 1..n /\ buffer'[i] = wire[i - k]
        <5>1. i - k \in DOMAIN wire
          BY <1>3, <4>2
        <5> QED
          BY <2>1, <3>1, <4>2, <5>1 DEF AllBefore
      <4> QED
        BY <1>8, <3>1, <4>1, <4>2
    <3>2. ASSUME NEW p \in DOMAIN d, NEW j \in DOMAIN wire', IsLine(d[p]), IsLine(wire'[j])
          PROVE  Before(d[p], wire'[j])
      BY <1>9, <2>1, <3>2 DEF AllBefore
    <3> QED
      BY <3>1, <3>2 DEF AllBefore
  <2>2. ASSUME NEW i \in DOMAIN delivered
        PROVE  AllBefore(delivered[i], buffer') /\ AllBefore(delivered[i], wire')
    <3>1. AllBefore(delivered[i], buffer) /\ AllBefore(delivered[i], wire)
      BY <1>1 DEF DeliveredInv
    <3> QED
      BY <2>1, <3>1
  <2>3. NothingTwice'
    BY <1>1 DEF DeliveredInv, NothingTwice
  <2> QED
    BY <1>1, <2>2, <2>3 DEF DeliveredInv
<1>15. ExactInv'
  <2>1. (ending = LF)' => Exact'
    <3> SUFFICES ASSUME ending = LF PROVE Exact'
      BY <1>1 DEF LF
    <3>1. Exact
      BY <1>1 DEF ExactInv
    <3> DEFINE text == SentAfter(lastId)
    <3>2. SentAfter(lastId)' = text
      BY <1>1 DEF SentAfter, Sent, IdLine, DataLine
    <3>3. ASSUME NEW i \in 1..Len(wire) PROVE wire[i] = text[k + i] /\ wire[i] # CRLF
      <4>1. wire[i] = text[k + i] /\ k + Len(wire) = 7 * (Events - lastId)
        BY <1>3, <3>1 DEF Exact, k
      <4>2. k + i \in 1..(7 * (Events - lastId))
        BY <1>3, <4>1
      <4> QED
        BY <1>3, <4>1, <4>2, LfIsWhole
    <3>4. c = n
      BY <1>2, <3>3 DEF Moves
    <3> HIDE DEF text
    <3>5. \A i \in 1..k : buffer[i] = text[i]
      BY <1>3, <3>1 DEF Exact, text
    <3>6. ASSUME NEW i \in DOMAIN buffer' PROVE buffer'[i] = text[i]
      <4>1. CASE i <= k
        BY <1>3, <1>5, <1>6, <3>5, <4>1
      <4>2. CASE ~(i <= k)
        <5>1. i - k \in 1..n /\ i - k \in 1..Len(wire) /\ k + (i - k) = i
          BY <1>3, <1>5, <4>2
        <5> QED
          BY <1>6, <3>3, <5>1
      <4> QED
        BY <4>1, <4>2
    <3>7. Len(buffer') = k + n /\ Len(wire') = Len(wire) - n
      BY <1>2, <3>4 DEF Moves, k
    <3>8. ASSUME NEW j \in DOMAIN wire' PROVE wire'[j] = text[(k + n) + j]
      <4>1. j + n \in 1..Len(wire) /\ j + n # n /\ k + (j + n) = (k + n) + j /\ j \in 1..(Len(wire) - n)
        BY <1>3, <1>5, <3>4
      <4> QED
        BY <1>7, <3>3, <3>4, <4>1
    <3>9. (k + n) + (Len(wire) - n) = 7 * (Events - lastId)
      BY <1>3, <3>1 DEF Exact, k
    <3> QED
      BY <1>1, <3>2, <3>6, <3>7, <3>8, <3>9 DEF Exact
  <2>2. EachWhole <=> EachWhole'
    BY <1>1 DEF EachWhole, IsWhole, DataLine
  <2> QED
    BY <1>1, <2>1, <2>2 DEF ExactInv, LF
<1> QED
  BY <1>10, <1>12, <1>13, <1>14, <1>15

\* A step that leaves the texts alone, or ends the reading of them.
LEMMA QuietStepKeeps ==
  ASSUME StreamInv,
         UNCHANGED <<ending, wire, buffer, lastId, delivered, rejected>>,
         stream' = "reading" => stream = "reading"
  PROVE  StreamInv'
<1> USE DEF StreamInv
<1>1. StreamTypes'
  BY DEF StreamTypes, LF, CRLF, Symbols, EventLines
<1>2. OrderInv'
  BY DEF OrderInv, InOrder, AllBefore
<1>3. NamedInv'
  BY DEF NamedInv, Names, IdLine
<1>4. DeliveredInv'
  BY DEF DeliveredInv, NothingTwice, AllBefore
<1>5. ExactInv'
  <2>1. SentAfter(lastId)' = SentAfter(lastId)
    BY DEF SentAfter, Sent, IdLine, DataLine
  <2>2. Exact => Exact'
    BY <2>1 DEF Exact
  <2>3. EachWhole <=> EachWhole'
    BY DEF EachWhole, IsWhole, DataLine
  <2> QED
    BY <2>2, <2>3 DEF ExactInv, LF
<1> QED
  BY <1>1, <1>2, <1>3, <1>4, <1>5

\* The last id of the lines is new, and none of the lines is of a later event.
LEMMA HandledId ==
  ASSUME StreamInv, Handle
  PROVE  /\ lastId' \in 0..Events /\ lastId <= lastId'
         /\ \A i \in 1..(FirstBlank - 1) : IsLine(buffer[i]) => buffer[i][2] <= lastId'
         /\ \A i \in DOMAIN buffer : i > FirstBlank /\ buffer[i][1] = "id" => lastId' < buffer[i][2]
         /\ \A i \in DOMAIN wire : wire[i][1] = "id" => lastId' < wire[i][2]
<1> USE DEF StreamInv
<1> DEFINE f == FirstBlank
           ids == Places(Lines, "id")
<1>1. stream = "reading" /\ BlankLines(buffer) # {} /\ lastId' = IdOf(Lines)
  BY DEF Handle
<1>2. /\ buffer \in Seq({LF} \cup EventLines) /\ Len(buffer) \in Nat /\ DOMAIN buffer = 1..Len(buffer)
      /\ wire \in Seq(Symbols) /\ lastId \in 0..Events /\ lastId \in Nat /\ Events \in Nat
  BY AttemptAssumption DEF StreamTypes
<1>3. /\ f \in 1..(Len(buffer) - 1) /\ Lines \in Seq({LF} \cup EventLines) /\ Len(Lines) = f - 1
      /\ \A i \in 1..(f - 1) : Lines[i] = buffer[i]
  BY <1>1, <1>2, CutFacts DEF BlankLines
<1> HIDE DEF f
<1>4. DOMAIN Lines = 1..(f - 1) /\ f \in Nat
  BY <1>2, <1>3
<1>5. ids \subseteq 1..(f - 1) /\ \A i \in 1..(f - 1) : i \in ids <=> buffer[i][1] = "id"
  BY <1>3, <1>4 DEF Places
<1>6. /\ InOrder(buffer) /\ AllBefore(buffer, wire)
      /\ \A i \in DOMAIN buffer : buffer[i][1] = "id" => lastId < buffer[i][2]
      /\ \A i \in DOMAIN wire : wire[i][1] = "id" => lastId < wire[i][2]
  BY <1>1 DEF OrderInv
<1>7. ASSUME NEW x \in {LF} \cup EventLines, IsLine(x)
      PROVE  x \in EventLines /\ x[2] \in 1..Events /\ x[3] \in Nat /\ (x[1] = "id" => x[3] = 0)
  <2>1. x \in EventLines
    BY <1>7, SymbolFacts DEF IsLine
  <2> QED
    BY <2>1, SymbolFacts, EventNumbers
<1>8. \A i \in 1..(f - 1) : i \in DOMAIN buffer /\ buffer[i] \in {LF} \cup EventLines
  BY <1>2, <1>3
<1>9. CASE ids = {}
  <2>1. lastId' = lastId
    BY <1>1, <1>9 DEF IdOf
  <2>2. ASSUME NEW i \in 1..(f - 1), IsLine(buffer[i]) PROVE buffer[i][2] <= lastId
    <3>1. buffer[i][1] # "id"
      BY <1>5, <1>9
    <3>2. buffer[i][1] = "data"
      BY <2>2, <3>1 DEF IsLine
    <3>3. buffer[i][2] <= lastId \/ Names(buffer, i, buffer[i][2])
      BY <1>1, <1>8, <3>2 DEF NamedInv
    <3>4. ASSUME NEW j \in DOMAIN buffer, j < i, buffer[j] = IdLine(buffer[i][2]) PROVE FALSE
      <4>1. j \in 1..(f - 1)
        BY <1>2, <1>4, <3>4
      <4> QED
        BY <1>5, <1>9, <3>4, <4>1, SymbolFacts
    <3> QED
      BY <3>3, <3>4 DEF Names
  <2> QED
    BY <1>2, <1>6, <2>1, <2>2 DEF f
<1>10. CASE ids # {}
  <2>1. \E i \in ids : \A j \in ids : j <= i
    <3>1. f - 1 \in Nat
      BY <1>3, <1>4
    <3> HIDE DEF ids
    <3> QED
      BY <1>5, <1>10, <3>1, GreatestNumber
  <2> DEFINE last == CHOOSE i \in ids : \A j \in ids : j <= i
  <2>2. last \in ids /\ \A j \in ids : j <= last
    <3> HIDE DEF ids
    <3> QED
      BY <2>1
  <2>3. lastId' = Lines[last][2]
    BY <1>1, <1>10 DEF IdOf
  <2> HIDE DEF last, ids
  <2>4. last \in 1..(f - 1) /\ lastId' = buffer[last][2] /\ buffer[last][1] = "id" /\ last \in DOMAIN buffer
    BY <1>3, <1>5, <1>8, <2>2, <2>3
  <2>5. /\ IsLine(buffer[last]) /\ buffer[last][2] \in 1..Events /\ buffer[last][3] = 0
        /\ lastId < buffer[last][2]
    BY <1>6, <1>7, <1>8, <2>4 DEF IsLine
  <2>6. lastId' \in 0..Events /\ lastId <= lastId' /\ lastId' \in Nat
    BY <1>2, <2>4, <2>5
  <2>7. ASSUME NEW i \in 1..(f - 1), buffer[i][1] = "id" PROVE buffer[i][2] <= lastId'
    <3>1. i \in ids /\ i <= last /\ IsLine(buffer[i])
      BY <1>5, <2>2, <2>7 DEF IsLine
    <3>2. CASE i = last
      BY <2>4, <2>5, <2>6, <3>2
    <3>3. CASE i < last
      <4>1. Before(buffer[i], buffer[last])
        BY <1>6, <1>8, <2>4, <2>5, <3>1, <3>3 DEF InOrder
      <4>2. buffer[i][2] \in 1..Events
        BY <1>7, <1>8, <3>1
      <4> QED
        BY <2>4, <2>5, <4>1, <4>2 DEF Before
    <3> QED
      BY <2>4, <3>1, <3>2, <3>3
  <2>8. ASSUME NEW i \in 1..(f - 1), IsLine(buffer[i]) PROVE buffer[i][2] <= lastId'
    <3>1. buffer[i][2] \in 1..Events
      BY <1>7, <1>8, <2>8
    <3>2. CASE buffer[i][1] = "data"
      <4>1. buffer[i][2] <= lastId \/ Names(buffer, i, buffer[i][2])
        BY <1>1, <1>8, <3>2 DEF NamedInv
      <4>2. ASSUME NEW j \in DOMAIN buffer, j < i, buffer[j] = IdLine(buffer[i][2])
            PROVE  buffer[i][2] <= lastId'
        <5>1. j \in 1..(f - 1)
          BY <1>2, <1>4, <4>2
        <5> QED
          BY <2>7, <4>2, <5>1, SymbolFacts
      <4>3. buffer[i][2] <= lastId => buffer[i][2] <= lastId'
        BY <1>2, <2>6, <3>1
      <4> QED
        BY <4>1, <4>2, <4>3 DEF Names
    <3> QED
      BY <2>7, <2>8, <3>2 DEF IsLine
  <2>9. ASSUME NEW i \in DOMAIN buffer, i > f, buffer[i][1] = "id" PROVE lastId' < buffer[i][2]
    <3>1. last < i
      BY <1>2, <1>4, <2>4, <2>9
    <3>2. Before(buffer[last], buffer[i])
      BY <1>6, <2>4, <2>5, <2>9, <3>1 DEF InOrder, IsLine
    <3>3. buffer[i] \in {LF} \cup EventLines /\ IsLine(buffer[i])
      BY <1>2, <2>9 DEF IsLine
    <3>4. buffer[i][2] \in 1..Events /\ buffer[i][3] = 0
      BY <1>7, <2>9, <3>3
    <3> QED
      BY <2>4, <2>5, <3>2, <3>4 DEF Before
  <2>10. ASSUME NEW i \in DOMAIN wire, wire[i][1] = "id" PROVE lastId' < wire[i][2]
    <3>1. Before(buffer[last], wire[i])
      BY <1>6, <2>4, <2>5, <2>10 DEF AllBefore, IsLine
    <3>2. wire[i] \in Symbols /\ IsLine(wire[i])
      BY <1>2, <2>10 DEF IsLine
    <3>3. wire[i] \in {LF} \cup EventLines
      BY <3>2, SymbolFacts DEF Symbols, IsLine
    <3>4. wire[i][2] \in 1..Events /\ wire[i][3] = 0
      BY <1>7, <2>10, <3>2, <3>3
    <3> QED
      BY <2>4, <2>5, <3>1, <3>4 DEF Before
  <2> QED
    BY <2>6, <2>8, <2>9, <2>10 DEF f
<1> QED
  BY <1>9, <1>10

\* The text after an event is the text that a server sends after its id.
LEMMA NextText ==
  ASSUME NEW id \in 0..Events, id < Events, NEW p \in 1..(7 * (Events - id - 1))
  PROVE  SentAfter(id)[7 + p] = SentAfter(id + 1)[p]
<1>1. Events \in Nat /\ id \in Nat /\ id + 1 \in 0..Events /\ p \in 1..(7 * (Events - (id + 1)))
  BY AttemptAssumption
<1>2. PICK n \in ((id + 1) + 1)..Events, r \in 1..7 :
        p = 7 * (n - (id + 1) - 1) + r /\ SentAfter(id + 1)[p] = Sent(n)[r]
  BY <1>1, SentFacts
<1>3. n \in (id + 1)..Events /\ 7 + p = 7 * (n - id - 1) + r
  BY <1>1, <1>2
<1> QED
  BY <1>2, <1>3, SentAt

\* With LF, the first event in the buffer is the one after the last id, and whole.
LEMMA HandledWhole ==
  ASSUME StreamInv, Handle, ending = LF
  PROVE  /\ lastId < Events /\ FirstBlank = 6 /\ lastId' = lastId + 1
         /\ IsWhole(DataOf(Lines), lastId + 1) /\ DOMAIN DataOf(Lines) # {}
<1> USE DEF StreamInv
<1>1. stream = "reading" /\ BlankLines(buffer) # {} /\ lastId' = IdOf(Lines) /\ Exact
  BY DEF Handle, ExactInv
<1>2. /\ buffer \in Seq({LF} \cup EventLines) /\ Len(buffer) \in Nat /\ DOMAIN buffer = 1..Len(buffer)
      /\ Len(wire) \in Nat /\ lastId \in 0..Events /\ lastId \in Nat /\ Events \in Nat
  BY AttemptAssumption DEF StreamTypes
<1>3. /\ FirstBlank \in BlankLines(buffer) /\ \A j \in BlankLines(buffer) : FirstBlank <= j
      /\ Len(Lines) = FirstBlank - 1 /\ Lines \in Seq({LF} \cup EventLines)
      /\ \A i \in 1..(FirstBlank - 1) : Lines[i] = buffer[i]
  BY <1>1, <1>2, CutFacts
<1>4. FirstBlank \in 1..(Len(buffer) - 1) /\ buffer[FirstBlank] = LF /\ buffer[FirstBlank + 1] = LF
  BY <1>3 DEF BlankLines
<1> HIDE DEF FirstBlank
<1>5. Len(buffer) + Len(wire) = 7 * (Events - lastId) /\ \A i \in 1..Len(buffer) : buffer[i] = SentAfter(lastId)[i]
  BY <1>1, <1>2 DEF Exact
<1>6. lastId < Events /\ lastId + 1 \in 1..Events /\ lastId + 1 \in (lastId + 1)..Events
  BY <1>2, <1>4, <1>5
<1> DEFINE n == lastId + 1
<1>7. ASSUME NEW r \in 1..7, r <= Len(buffer) PROVE buffer[r] = Sent(n)[r]
  <2>1. 7 * (n - lastId - 1) + r = r
    BY <1>2
  <2>2. SentAfter(lastId)[r] = Sent(n)[r]
    BY <1>2, <1>6, <2>1, SentAt
  <2>3. r \in 1..Len(buffer)
    BY <1>2, <1>7
  <2> QED
    BY <1>5, <2>2, <2>3
<1>8. \A r \in 1..7 : r <= Len(buffer) => (buffer[r] = LF <=> r \notin {1, 3, 5})
  <2> TAKE r \in 1..7
  <2> HAVE r <= Len(buffer)
  <2>1. buffer[r] = Sent(n)[r]
    BY <1>7
  <2>2. CASE r \in {1, 3, 5}
    BY <1>6, <2>1, <2>2, EventFacts, SymbolFacts
  <2>3. CASE r \notin {1, 3, 5}
    BY <1>6, <2>1, <2>3, EventFacts
  <2> QED
    BY <2>2, <2>3
<1>9. FirstBlank >= 6
  <2> SUFFICES ASSUME ~(FirstBlank >= 6) PROVE FALSE
    OBVIOUS
  <2>1. FirstBlank \in 1..7 /\ FirstBlank + 1 \in 1..7 /\ FirstBlank <= Len(buffer) /\ FirstBlank + 1 <= Len(buffer)
    BY <1>2, <1>4
  <2>2. FirstBlank \notin {1, 3, 5} /\ FirstBlank + 1 \notin {1, 3, 5}
    BY <1>4, <1>8, <2>1
  <2> QED
    BY <2>1, <2>2
<1>10. FirstBlank = 6
  <2>1. 6 \in 1..(Len(buffer) - 1) /\ 6 \in 1..7 /\ 7 \in 1..7 /\ 6 <= Len(buffer) /\ 7 <= Len(buffer)
    BY <1>2, <1>4, <1>9
  <2>2. buffer[6] = LF /\ buffer[6 + 1] = LF
    BY <1>8, <2>1
  <2>3. 6 \in BlankLines(buffer)
    BY <2>1, <2>2 DEF BlankLines
  <2> QED
    BY <1>3, <1>4, <1>9, <2>3
<1>11. Len(buffer) >= 7 /\ DOMAIN Lines = 1..5
  BY <1>2, <1>3, <1>4, <1>10
<1>12. \A i \in 1..5 : Lines[i] = Sent(n)[i]
  BY <1>3, <1>7, <1>10, <1>11
<1> HIDE DEF n
<1>13. /\ Lines[1] = IdLine(n) /\ Lines[2] = LF /\ Lines[3] = DataLine(n, 1)
       /\ Lines[4] = LF /\ Lines[5] = DataLine(n, 2)
  <2>1. n \in 1..Events
    BY <1>6 DEF n
  <2> QED
    BY <1>12, <2>1, EventFacts
<1>14. /\ Lines[1][1] = "id" /\ Lines[1][2] = n /\ Lines[2][1] = "LF" /\ Lines[3][1] = "data"
       /\ Lines[4][1] = "LF" /\ Lines[5][1] = "data"
  BY <1>13 DEF IdLine, DataLine, LF
<1>15. Places(Lines, "id") = {1} /\ Places(Lines, "data") = {3, 5}
  <2>1. \A i \in 1..5 : i = 1 \/ i = 2 \/ i = 3 \/ i = 4 \/ i = 5
    OBVIOUS
  <2> QED
    BY <1>11, <1>14, <2>1 DEF Places
<1>16. lastId' = n
  <2>1. (CHOOSE i \in {1} : \A j \in {1} : j <= i) = 1
    OBVIOUS
  <2> QED
    BY <1>1, <1>14, <1>15, <2>1 DEF IdOf
<1>17. DOMAIN DataOf(Lines) = {3, 5} /\ DataOf(Lines)[3] = DataLine(n, 1) /\ DataOf(Lines)[5] = DataLine(n, 2)
  BY <1>13, <1>15 DEF DataOf
<1>18. IsWhole(DataOf(Lines), n)
  BY <1>17 DEF IsWhole
<1> QED
  BY <1>6, <1>10, <1>16, <1>17, <1>18 DEF n

LEMMA HandleKeeps == StreamInv /\ Handle => StreamInv'
<1> SUFFICES ASSUME StreamInv, Handle PROVE StreamInv'
  OBVIOUS
<1> USE DEF StreamInv
<1> DEFINE f == FirstBlank
           data == DataOf(Lines)
<1>1. /\ stream = "reading" /\ BlankLines(buffer) # {} /\ buffer' = Rest
      /\ ending' = ending /\ wire' = wire
  BY DEF Handle, scenario
<1>2. \/ DOMAIN data = {} /\ delivered' = delivered /\ rejected' = rejected
      \/ delivered' = Append(delivered, data) /\ rejected' = rejected
      \/ delivered' = delivered /\ rejected' = rejected \cup {lastId'} /\ stream' # "reading"
  BY DEF Handle, Caught
<1>3. /\ buffer \in Seq({LF} \cup EventLines) /\ Len(buffer) \in Nat /\ DOMAIN buffer = 1..Len(buffer)
      /\ wire \in Seq(Symbols) /\ lastId \in 0..Events /\ lastId \in Nat /\ Events \in Nat
      /\ ending \in {LF, CRLF}
  BY AttemptAssumption DEF StreamTypes
<1>4. /\ f \in BlankLines(buffer) /\ Lines \in Seq({LF} \cup EventLines) /\ Len(Lines) = f - 1
      /\ \A i \in 1..(f - 1) : Lines[i] = buffer[i]
      /\ Rest \in Seq({LF} \cup EventLines) /\ Len(Rest) = Len(buffer) - f - 1
      /\ \A i \in 1..(Len(buffer) - f - 1) : Rest[i] = buffer[f + 1 + i]
  BY <1>1, <1>3, CutFacts
<1>5. /\ lastId' \in 0..Events /\ lastId <= lastId'
      /\ \A i \in 1..(f - 1) : IsLine(buffer[i]) => buffer[i][2] <= lastId'
      /\ \A i \in DOMAIN buffer : i > f /\ buffer[i][1] = "id" => lastId' < buffer[i][2]
      /\ \A i \in DOMAIN wire : wire[i][1] = "id" => lastId' < wire[i][2]
  BY HandledId
<1> HIDE DEF f
<1>6. f \in 1..(Len(buffer) - 1) /\ f \in Nat /\ buffer[f] = LF /\ buffer[f + 1] = LF
  BY <1>3, <1>4 DEF BlankLines
<1>7. DOMAIN Lines = 1..(f - 1) /\ DOMAIN Rest = 1..(Len(buffer) - f - 1)
  BY <1>3, <1>4, <1>6
<1>8. lastId' \in Nat
  BY <1>3, <1>5
<1>9. ASSUME NEW i \in DOMAIN Rest
      PROVE  f + 1 + i \in DOMAIN buffer /\ f + 1 + i > f /\ Rest[i] = buffer[f + 1 + i]
  <2>1. i \in 1..(Len(buffer) - f - 1) /\ f \in Nat /\ Len(buffer) \in Nat
    BY <1>3, <1>6, <1>7
  <2>2. f + 1 + i \in 1..Len(buffer) /\ f + 1 + i > f
    BY <2>1
  <2> QED
    BY <1>3, <1>4, <2>1, <2>2
<1>10. /\ InOrder(buffer) /\ InOrder(wire) /\ AllBefore(buffer, wire)
  BY <1>1 DEF OrderInv
\* The data that is handed over.
<1>11. /\ DOMAIN data \subseteq 1..(f - 1)
       /\ \A p \in DOMAIN data : data[p] = buffer[p] /\ data[p][1] = "data"
  BY <1>4, <1>7 DEF DataOf, Places
<1>12. \A p \in DOMAIN data : p \in DOMAIN buffer /\ p \in Nat /\ p < f /\ IsLine(data[p])
  BY <1>3, <1>6, <1>11 DEF IsLine
<1>13. data \in UNION {[D -> EventLines] : D \in SUBSET Nat}
  <2>1. \A p \in DOMAIN data : data[p] \in EventLines
    BY <1>3, <1>11, <1>12, SymbolFacts
  <2>2. data = [p \in DOMAIN data |-> data[p]]
    BY DEF DataOf
  <2> HIDE DEF data
  <2>3. data \in [DOMAIN data -> EventLines] /\ DOMAIN data \in SUBSET Nat
    BY <1>12, <2>1, <2>2
  <2> QED
    BY <2>3
<1> HIDE DEF data
<1>14. delivered \in Seq(UNION {[D -> EventLines] : D \in SUBSET Nat}) /\ Len(delivered) \in Nat
  BY DEF StreamTypes
<1>15. StreamTypes'
  <2>1. delivered' \in Seq(UNION {[D -> EventLines] : D \in SUBSET Nat})
    BY <1>2, <1>13, <1>14
  <2> QED
    BY <1>1, <1>3, <1>4, <1>5, <2>1 DEF StreamTypes, LF, CRLF, Symbols, EventLines
<1>16. OrderInv'
  <2>1. ASSUME NEW i \in DOMAIN Rest, NEW j \in DOMAIN Rest, i < j, IsLine(Rest[i]), IsLine(Rest[j])
        PROVE  Before(Rest[i], Rest[j])
    <3>1. f + 1 + i < f + 1 + j
      BY <1>3, <1>6, <1>7, <2>1
    <3> QED
      BY <1>9, <1>10, <2>1, <3>1 DEF InOrder
  <2>2. AllBefore(Rest, wire)
    BY <1>9, <1>10 DEF AllBefore
  <2>3. \A i \in DOMAIN Rest : Rest[i][1] = "id" => lastId' < Rest[i][2]
    BY <1>5, <1>9
  <2> QED
    BY <1>1, <1>5, <1>10, <2>1, <2>2, <2>3 DEF OrderInv, InOrder, AllBefore
<1>17. NamedInv'
  \* An id in the buffer was handled or is still there.
  <2>1. ASSUME NEW i \in DOMAIN buffer, NEW m \in Nat, buffer[i] = IdLine(m)
        PROVE  m <= lastId' \/ (i - f - 1 \in DOMAIN Rest /\ Rest[i - f - 1] = IdLine(m))
    <3>1. CASE i < f
      <4>1. i \in 1..(f - 1)
        BY <1>3, <1>6, <3>1
      <4> QED
        BY <1>5, <2>1, <4>1, SymbolFacts DEF IsLine
    <3>2. CASE i > f + 1
      <4>1. i - f - 1 \in DOMAIN Rest /\ f + 1 + (i - f - 1) = i
        <5>1. i \in 1..Len(buffer) /\ f \in Nat /\ Len(buffer) \in Nat
          BY <1>3, <1>6
        <5>2. i - f - 1 \in 1..(Len(buffer) - f - 1) /\ f + 1 + (i - f - 1) = i
          BY <3>2, <5>1
        <5> QED
          BY <1>7, <5>2
      <4> QED
        BY <1>9, <2>1, <4>1
    <3>3. i # f /\ i # f + 1
      BY <1>6, <2>1, SymbolFacts
    <3>4. i \in Nat
      BY <1>3
    <3> QED
      BY <1>6, <3>1, <3>2, <3>3, <3>4
  <2>2. ASSUME NEW j \in DOMAIN Rest, Rest[j][1] = "data"
        PROVE  Rest[j][2] <= lastId' \/ \E i \in DOMAIN Rest : i < j /\ Rest[i] = IdLine(Rest[j][2])
    <3> DEFINE m == Rest[j][2]
    <3>1. f + 1 + j \in DOMAIN buffer /\ Rest[j] = buffer[f + 1 + j]
      BY <1>9
    <3>2. Rest[j] \in EventLines
      BY <1>3, <2>2, <3>1, SymbolFacts
    <3>3. m \in Nat
      BY <3>2, EventNumbers
    <3>4. m <= lastId \/ Names(buffer, f + 1 + j, m)
      BY <1>1, <2>2, <3>1 DEF NamedInv
    <3> HIDE DEF m
    <3>5. m <= lastId => m <= lastId'
      BY <1>3, <1>5, <1>8, <3>3
    <3>6. ASSUME NEW i \in DOMAIN buffer, i < f + 1 + j, buffer[i] = IdLine(m)
          PROVE  m <= lastId' \/ \E k \in DOMAIN Rest : k < j /\ Rest[k] = IdLine(m)
      <4>1. i - f - 1 < j
        BY <1>3, <1>6, <1>7, <3>6
      <4> QED
        BY <2>1, <3>3, <3>6, <4>1
    <3> QED
      BY <3>4, <3>5, <3>6 DEF Names, m
  <2>3. ASSUME NEW j \in DOMAIN wire, wire[j][1] = "data"
        PROVE  \/ wire[j][2] <= lastId'
               \/ Names(wire, j, wire[j][2])
               \/ \E i \in DOMAIN Rest : Rest[i] = IdLine(wire[j][2])
    <3> DEFINE m == wire[j][2]
    <3>1. wire[j] \in EventLines
      BY <1>3, <2>3, SymbolFacts DEF Symbols
    <3>2. m \in Nat
      BY <3>1, EventNumbers
    <3>3. m <= lastId \/ Names(wire, j, m) \/ \E i \in DOMAIN buffer : buffer[i] = IdLine(m)
      BY <1>1, <2>3 DEF NamedInv
    <3> HIDE DEF m
    <3>4. m <= lastId => m <= lastId'
      BY <1>3, <1>5, <1>8, <3>2
    <3> QED
      BY <2>1, <3>2, <3>3, <3>4 DEF m
  <2> QED
    BY <1>1, <2>2, <2>3 DEF NamedInv, Names, IdLine
<1>18. DeliveredInv'
  <2>1. ASSUME NEW i \in DOMAIN delivered
        PROVE  /\ \A p \in DOMAIN delivered[i] : delivered[i][p][1] = "data" /\ delivered[i][p][2] <= lastId'
               /\ AllBefore(delivered[i], Rest) /\ AllBefore(delivered[i], wire)
               /\ \A p \in DOMAIN delivered[i], q \in DOMAIN data : Before(delivered[i][p], data[q])
    <3>1. \A p \in DOMAIN delivered[i] : delivered[i][p][1] = "data" /\ delivered[i][p][2] <= lastId
      BY DEF DeliveredInv
    <3>2. AllBefore(delivered[i], buffer) /\ AllBefore(delivered[i], wire)
      BY <1>1 DEF DeliveredInv
    <3>3. \A p \in DOMAIN delivered[i] : delivered[i][p] \in EventLines
      <4>1. delivered[i] \in UNION {[D -> EventLines] : D \in SUBSET Nat}
        BY <1>14
      <4> QED
        BY <4>1
    <3>4. \A p \in DOMAIN delivered[i] : delivered[i][p][2] \in Nat /\ IsLine(delivered[i][p])
      BY <3>3, EventNumbers
    <3>5. \A p \in DOMAIN delivered[i] : delivered[i][p][2] <= lastId'
      BY <1>3, <1>5, <1>8, <3>1, <3>4
    <3>6. AllBefore(delivered[i], Rest)
      BY <1>9, <3>2 DEF AllBefore
    <3>7. \A p \in DOMAIN delivered[i], q \in DOMAIN data : Before(delivered[i][p], data[q])
      BY <1>11, <1>12, <3>2, <3>4 DEF AllBefore
    <3> QED
      BY <3>1, <3>2, <3>5, <3>6, <3>7
  <2>2. /\ \A p \in DOMAIN data : data[p][1] = "data" /\ data[p][2] <= lastId'
        /\ AllBefore(data, Rest) /\ AllBefore(data, wire)
        /\ \A p, q \in DOMAIN data : p < q => Before(data[p], data[q])
    <3>1. \A p \in DOMAIN data : data[p][1] = "data" /\ data[p][2] <= lastId'
      BY <1>5, <1>11, <1>12
    <3>2. ASSUME NEW p \in DOMAIN data, NEW j \in DOMAIN Rest, IsLine(Rest[j]) PROVE Before(data[p], Rest[j])
      <4>1. p < f + 1 + j
        BY <1>6, <1>7, <1>12
      <4> QED
        BY <1>9, <1>10, <1>11, <1>12, <3>2, <4>1 DEF InOrder
    <3>3. AllBefore(data, wire)
      BY <1>10, <1>11, <1>12 DEF AllBefore
    <3>4. \A p, q \in DOMAIN data : p < q => Before(data[p], data[q])
      BY <1>10, <1>11, <1>12 DEF InOrder
    <3> QED
      BY <3>1, <3>2, <3>3, <3>4 DEF AllBefore
  <2>3. NothingTwice
    BY DEF DeliveredInv
  <2>4. CASE delivered' = delivered
    <3>1. NothingTwice'
      BY <2>3, <2>4 DEF NothingTwice
    <3> QED
      BY <1>1, <2>1, <2>4, <3>1 DEF DeliveredInv, AllBefore
  <2>5. CASE delivered' = Append(delivered, data)
    <3> DEFINE k == Len(delivered)
    <3>1. /\ k \in Nat /\ DOMAIN delivered' = 1..(k + 1) /\ delivered'[k + 1] = data
          /\ \A i \in 1..k : i \in DOMAIN delivered /\ delivered'[i] = delivered[i]
      BY <1>13, <1>14, <2>5
    <3> HIDE DEF k
    <3>2. \A i \in 1..(k + 1) : i = k + 1 \/ i \in 1..k
      BY <3>1
    <3>3. ASSUME NEW i \in 1..(k + 1), NEW j \in 1..(k + 1),
                 NEW p \in DOMAIN delivered'[i], NEW q \in DOMAIN delivered'[j],
                 i < j \/ (i = j /\ p < q)
          PROVE  Before(delivered'[i][p], delivered'[j][q])
      <4>1. CASE i \in 1..k /\ j \in 1..k
        BY <2>3, <3>1, <3>3, <4>1 DEF NothingTwice
      <4>2. CASE i \in 1..k /\ j = k + 1
        BY <2>1, <3>1, <3>3, <4>2
      <4>3. CASE i = k + 1
        <5>1. j = k + 1 /\ p < q
          BY <3>1, <3>3, <4>3
        <5> QED
          BY <2>2, <3>1, <3>3, <4>3, <5>1
      <4> QED
        BY <3>2, <4>1, <4>2, <4>3
    <3>4. NothingTwice'
      BY <3>1, <3>3 DEF NothingTwice, Before
    <3>5. ASSUME NEW i \in 1..(k + 1)
          PROVE  /\ \A p \in DOMAIN delivered'[i] : delivered'[i][p][1] = "data" /\ delivered'[i][p][2] <= lastId'
                 /\ AllBefore(delivered'[i], Rest) /\ AllBefore(delivered'[i], wire)
      <4>1. CASE i \in 1..k
        BY <2>1, <3>1, <4>1
      <4>2. CASE i = k + 1
        BY <2>2, <3>1, <4>2
      <4> QED
        BY <3>2, <4>1, <4>2
    <3> QED
      BY <1>1, <3>1, <3>4, <3>5 DEF DeliveredInv, AllBefore
  <2> QED
    BY <1>2, <2>4, <2>5
<1>19. ExactInv'
  <2> SUFFICES ASSUME (ending = LF)' PROVE (stream = "reading" => Exact)' /\ EachWhole' /\ (rejected \subseteq 1..lastId)'
    BY DEF ExactInv
  <2>1. ending = LF
    BY <1>1 DEF LF
  <2>2. /\ lastId < Events /\ f = 6 /\ lastId' = lastId + 1
        /\ IsWhole(data, lastId + 1) /\ DOMAIN data # {}
    BY <2>1, HandledWhole DEF f, data
  <2>3. Exact /\ EachWhole /\ rejected \subseteq 1..lastId
    BY <1>1, <2>1 DEF ExactInv
  <2>4. 1..lastId' = (1..lastId) \cup {lastId'} /\ lastId' \notin 1..lastId
    BY <1>3, <2>2
  <2>5. Exact'
    <3>1. SentAfter(lastId)' = SentAfter(lastId + 1)
      BY <1>1, <2>2 DEF SentAfter, Sent, IdLine, DataLine
    <3>2. Len(buffer) + Len(wire) = 7 * (Events - lastId) /\ Len(wire) \in Nat /\ DOMAIN wire = 1..Len(wire)
      BY <1>3, <2>3 DEF Exact
    <3>3. Len(Rest) = Len(buffer) - 7 /\ Len(Rest) \in Nat /\ DOMAIN Rest = 1..(Len(buffer) - 7)
      BY <1>3, <1>4, <1>6, <1>7, <2>2
    <3>4. Len(Rest) + Len(wire) = 7 * (Events - lastId - 1)
      BY <1>3, <3>2, <3>3
    <3>5. ASSUME NEW i \in 1..(Len(buffer) - 7) PROVE Rest[i] = SentAfter(lastId + 1)[i]
      <4>1. /\ i \in 1..(7 * (Events - lastId - 1)) /\ 7 + i \in DOMAIN buffer /\ f + 1 + i = 7 + i
            /\ i \in DOMAIN Rest
        BY <1>3, <2>2, <3>2, <3>3
      <4>2. buffer[7 + i] = SentAfter(lastId)[7 + i]
        BY <2>3, <4>1 DEF Exact
      <4>3. SentAfter(lastId)[7 + i] = SentAfter(lastId + 1)[i]
        BY <1>3, <2>2, <4>1, NextText
      <4> QED
        BY <1>9, <4>1, <4>2, <4>3
    <3>6. ASSUME NEW i \in 1..Len(wire) PROVE wire[i] = SentAfter(lastId + 1)[Len(Rest) + i]
      <4>1. /\ Len(Rest) + i \in 1..(7 * (Events - lastId - 1))
            /\ Len(buffer) + i = 7 + (Len(Rest) + i)
        BY <1>3, <3>2, <3>3, <3>4
      <4>2. wire[i] = SentAfter(lastId)[Len(buffer) + i]
        BY <2>3, <3>2 DEF Exact
      <4>3. SentAfter(lastId)[7 + (Len(Rest) + i)] = SentAfter(lastId + 1)[Len(Rest) + i]
        BY <1>3, <2>2, <4>1, NextText
      <4> QED
        BY <4>1, <4>2, <4>3
    <3>7. Events - lastId - 1 = Events - (lastId + 1)
      BY <1>3
    <3> QED
      BY <1>1, <2>2, <3>1, <3>2, <3>3, <3>4, <3>5, <3>6, <3>7 DEF Exact
  <2>6. EachWhole' /\ rejected' \subseteq 1..lastId'
    <3>1. IsWhole(data, lastId')
      BY <2>2
    <3>2. CASE delivered' = Append(delivered, data) /\ rejected' = rejected
      <4> DEFINE k == Len(delivered)
      <4>1. /\ k \in Nat /\ DOMAIN delivered' = 1..(k + 1) /\ delivered'[k + 1] = data
            /\ DOMAIN delivered = 1..k /\ \A i \in 1..k : delivered'[i] = delivered[i]
        BY <1>13, <1>14, <3>2
      <4> HIDE DEF k
      <4>2. (\A i \in 1..(k + 1) : i = k + 1 \/ i \in 1..k) /\ k + 1 \in 1..(k + 1) /\ 1..k \subseteq 1..(k + 1)
        BY <4>1
      <4>3. lastId' \in (1..lastId') \ rejected'
        BY <2>3, <2>4, <3>2
      <4>4. \A n \in (1..lastId') \ rejected' : n = lastId' \/ n \in (1..lastId) \ rejected
        BY <2>4, <3>2
      <4>5. (1..lastId) \ rejected \subseteq (1..lastId') \ rejected'
        BY <2>4, <3>2
      <4>6. ASSUME NEW n \in (1..lastId') \ rejected' PROVE \E i \in 1..(k + 1) : IsWhole(delivered'[i], n)
        <5>1. CASE n = lastId'
          BY <3>1, <4>1, <4>2, <5>1
        <5>2. CASE n \in (1..lastId) \ rejected
          <6>1. PICK i \in 1..k : IsWhole(delivered[i], n)
            BY <2>3, <4>1, <5>2 DEF EachWhole
          <6> QED
            BY <4>1, <4>2, <6>1
        <5> QED
          BY <4>4, <5>1, <5>2
      <4>7. ASSUME NEW i \in 1..(k + 1) PROVE \E n \in (1..lastId') \ rejected' : IsWhole(delivered'[i], n)
        <5>1. CASE i = k + 1
          BY <3>1, <4>1, <4>3, <5>1
        <5>2. CASE i \in 1..k
          <6>1. PICK n \in (1..lastId) \ rejected : IsWhole(delivered[i], n)
            BY <2>3, <4>1, <5>2 DEF EachWhole
          <6> QED
            BY <4>1, <4>5, <5>2, <6>1
        <5> QED
          BY <4>2, <5>1, <5>2
      <4>8. EachWhole'
        BY <4>1, <4>6, <4>7 DEF EachWhole, IsWhole, DataLine
      <4> QED
        BY <2>3, <2>4, <3>2, <4>8
    <3>3. CASE delivered' = delivered /\ rejected' = rejected \cup {lastId'}
      <4>1. (1..lastId') \ rejected' = (1..lastId) \ rejected
        BY <2>4, <3>3
      <4>2. EachWhole'
        <5>1. \A n \in (1..lastId') \ rejected' : \E i \in DOMAIN delivered' : IsWhole(delivered'[i], n)
          BY <2>3, <3>3, <4>1 DEF EachWhole
        <5>2. \A i \in DOMAIN delivered' : \E n \in (1..lastId') \ rejected' : IsWhole(delivered'[i], n)
          BY <2>3, <3>3, <4>1 DEF EachWhole
        <5> QED
          BY <5>1, <5>2 DEF EachWhole, IsWhole, DataLine
      <4> QED
        BY <2>3, <2>4, <3>3, <4>2
    <3> QED
      BY <1>2, <2>2, <3>2, <3>3
  <2> QED
    BY <2>5, <2>6
<1> QED
  BY <1>15, <1>16, <1>17, <1>18, <1>19

LEMMA StreamKeeps == StreamInv /\ [StreamNext]_streamVars => StreamInv'
<1> SUFFICES ASSUME StreamInv, [StreamNext]_streamVars PROVE StreamInv'
  OBVIOUS
<1>1. CASE Responds
  BY <1>1, RespondsKeeps
<1>2. CASE Read
  BY <1>2, ReadKeeps
<1>3. CASE Handle
  BY <1>3, HandleKeeps
<1>4. CASE Connect \/ FetchFails \/ Wake \/ ReadEnds \/ Abort \/ UNCHANGED streamVars
  <2>1. UNCHANGED <<ending, wire, buffer, lastId, delivered, rejected>>
    BY <1>4 DEF Connect, FetchFails, Wake, ReadEnds, Abort, streamVars, scenario
  <2>2. stream' = "reading" => stream = "reading"
    BY <1>4 DEF Connect, FetchFails, Wake, ReadEnds, Abort, Caught, streamVars
  <2> QED
    BY <2>1, <2>2, QuietStepKeeps
<1> QED
  BY <1>1, <1>2, <1>3, <1>4 DEF StreamNext

\* An event stream delivers what the server has sent: with LF each event up to the last
\* id once, whole and in order, unless the validator refused it; with CR LF no data
\* twice and none out of order.  Any number of events, cut and interrupted anywhere.
THEOREM EventsAreDelivered == StreamInit /\ [][StreamNext]_streamVars => []DeliveredExactly
<1>1. StreamInv => DeliveredExactly
  BY DEF StreamInv, ExactInv, EachWhole, DeliveredInv, DeliveredExactly
<1> QED
  BY <1>1, StreamStarts, StreamKeeps, PTL
=============================================================================
