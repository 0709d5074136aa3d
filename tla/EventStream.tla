---------------------------- MODULE EventStream ----------------------------
(***************************************************************************)
(* The generated client's reader of server-sent events (createSseClient).  *)
(*                                                                         *)
(* A server numbers its events from 1 and sends each as lines: its id and  *)
(* two lines of data.  A line ends with LF or with CR LF, and a connection *)
(* hands the text over in chunks that may be cut anywhere.  After a        *)
(* failure the client connects again, and the server goes on after the     *)
(* event that Last-Event-ID names.  How long a pause lasts is left out.    *)
(*                                                                         *)
(* The text is a sequence of symbols: the lines and their ends.  A line    *)
(* and an LF are each whole or missing; a CR LF may be cut in two.  The    *)
(* consumer of the generator goes on pulling until it leaves.              *)
(***************************************************************************)
EXTENDS Integers, Sequences, FiniteSets

CONSTANTS
  Events,       \* how many events the server has
  MaxAttempts,  \* sseMaxRetryAttempts, where it is defined
  MostAttempts  \* bound: where it is not, connections are counted up to here

ASSUME AttemptAssumption == Events \in Nat /\ MaxAttempts \in 1..MostAttempts

VARIABLES
  ending,     \* how the server ends a line
  limited,    \* whether sseMaxRetryAttempts is defined
  stream,     \* where the generator is
  wire,       \* what the connection will still hand over
  buffer,     \* the text that is not handled yet
  lastId,     \* lastEventId; 0 while undefined
  attempt,    \* attempt
  aborted,    \* signal.aborted
  delivered,  \* history: the data handed to the consumer
  rejected    \* history: the events whose data the validator refused

scenario == <<ending, limited>>
streamVars == <<scenario, stream, wire, buffer, lastId, attempt, aborted, delivered, rejected>>

-----------------------------------------------------------------------------
\* A symbol is its kind, the number of its event and, of a line, its place there.
LF == <<"LF", 0, 0>>
CRLF == <<"CR LF", 0, 0>>
IdLine(n) == <<"id", n, 0>>
DataLine(n, part) == <<"data", n, part>>

\* An event on the wire: its lines and an empty one, seven symbols.
Sent(n) == <<IdLine(n), ending, DataLine(n, 1), ending, DataLine(n, 2), ending, ending>>
SentAfter(id) == [p \in 1..(7 * (Events - id)) |-> Sent(id + 1 + ((p - 1) \div 7))[1 + ((p - 1) % 7)]]

StreamInit ==
  /\ ending \in {LF, CRLF}
  /\ limited \in BOOLEAN
  /\ stream = "waiting"
  /\ wire = <<>>
  /\ buffer = <<>>
  /\ lastId = 0
  /\ attempt = 0
  /\ aborted = FALSE
  /\ delivered = <<>>
  /\ rejected = {}

-----------------------------------------------------------------------------
OneMore == attempt' = IF attempt < MostAttempts THEN attempt + 1 ELSE attempt

\* Mutant: the signal is not asked before the client connects.
ConnectRegardless ==
  /\ stream = "waiting"
  /\ stream' = "fetching" /\ OneMore
  /\ UNCHANGED <<scenario, wire, buffer, lastId, aborted, delivered, rejected>>

\* The head of the loop: one more attempt, unless the signal is aborted.
Connect ==
  /\ stream = "waiting"
  /\ \/ aborted /\ stream' = "ended" /\ UNCHANGED attempt
     \/ ~aborted /\ stream' = "fetching" /\ OneMore
  /\ UNCHANGED <<scenario, wire, buffer, lastId, aborted, delivered, rejected>>

\* Mutant: what the last connection left of an event is kept.
RespondsOntoRest ==
  /\ stream = "fetching"
  /\ ~aborted
  /\ stream' = "reading"
  /\ wire' = SentAfter(lastId)
  /\ UNCHANGED <<scenario, buffer, lastId, attempt, aborted, delivered, rejected>>

\* The response arrives: the server goes on after Last-Event-ID, with a new buffer.
Responds ==
  /\ stream = "fetching"
  /\ ~aborted
  /\ stream' = "reading"
  /\ wire' = SentAfter(lastId)
  /\ buffer' = <<>>
  /\ UNCHANGED <<scenario, lastId, attempt, aborted, delivered, rejected>>

\* catch: the last attempt of a limited stream ends it, any other is followed by a
\* pause.
Caught == stream' = IF limited /\ attempt >= MaxAttempts THEN "ended" ELSE "sleeping"

\* fetch fails or is aborted, or the status is no success.
FetchFails ==
  /\ stream = "fetching"
  /\ Caught
  /\ UNCHANGED <<scenario, wire, buffer, lastId, attempt, aborted, delivered, rejected>>

\* The pause is not interrupted by the signal.
Wake ==
  /\ stream = "sleeping"
  /\ stream' = "waiting"
  /\ UNCHANGED <<scenario, wire, buffer, lastId, attempt, aborted, delivered, rejected>>

-----------------------------------------------------------------------------
\* CR LF and CR become LF.
Normalised(s) == [i \in DOMAIN s |-> IF s[i] = CRLF THEN LF ELSE s[i]]

BlankLines(s) == {i \in 1..(Len(s) - 1) : s[i] = LF /\ s[i + 1] = LF}

\* The first event of the text that is complete, and the text after it.
FirstBlank == CHOOSE i \in BlankLines(buffer) : \A j \in BlankLines(buffer) : i <= j
Lines == SubSeq(buffer, 1, FirstBlank - 1)
Rest == SubSeq(buffer, FirstBlank + 2, Len(buffer))

\* reader.read: some more text, once the complete events are handled.  Of the last CR
\* LF it may bring the CR alone: that ends the line, and the LF to come, another one.
Read ==
  /\ stream = "reading"
  /\ ~aborted
  /\ BlankLines(buffer) = {}
  /\ \E n \in 1..Len(wire) :
       /\ buffer' = buffer \o Normalised(SubSeq(wire, 1, n))
       /\ \/ wire' = SubSeq(wire, n + 1, Len(wire))
          \/ wire[n] = CRLF /\ wire' = <<LF>> \o SubSeq(wire, n + 1, Len(wire))
  /\ UNCHANGED <<scenario, stream, lastId, attempt, aborted, delivered, rejected>>

\* The connection is closed by the server or breaks, or the signal cancels it: a
\* stream that is closed properly is at its end.
ReadEnds ==
  /\ stream = "reading"
  /\ BlankLines(buffer) = {}
  /\ stream' = "ended" \/ Caught
  /\ UNCHANGED <<scenario, wire, buffer, lastId, attempt, aborted, delivered, rejected>>

\* Where a kind of line is among the lines of an event.
Places(lines, kind) == {i \in DOMAIN lines : lines[i][1] = kind}

\* The last id of the lines, and their data with its places.
IdOf(lines) ==
  LET ids == Places(lines, "id")
  IN  IF ids = {} THEN lastId ELSE lines[CHOOSE i \in ids : \A j \in ids : j <= i][2]
DataOf(lines) == [i \in Places(lines, "data") |-> lines[i]]

\* Both lines of data make a JSON text, one alone does not: only the former is
\* shown to the validator.
IsJson(data) == Cardinality(DOMAIN data) = 2

\* A complete event: its id is kept, its data validated and yielded, also when the
\* signal has been aborted meanwhile.  The consumer may leave at the yield, and a
\* validator that throws ends the connection.
Handle ==
  LET data == DataOf(Lines)
  IN  /\ stream = "reading"
      /\ BlankLines(buffer) # {}
      /\ buffer' = Rest
      /\ lastId' = IdOf(Lines)
      /\ \/ /\ DOMAIN data = {}
            /\ UNCHANGED <<stream, delivered, rejected>>
         \/ /\ DOMAIN data # {}
            /\ stream' \in {"reading", "ended"}
            /\ delivered' = Append(delivered, data)
            /\ UNCHANGED rejected
         \/ /\ IsJson(data)
            /\ Caught
            /\ rejected' = rejected \cup {lastId'}
            /\ UNCHANGED delivered
      /\ UNCHANGED <<scenario, wire, attempt, aborted>>

\* The caller aborts the signal.
Abort ==
  /\ stream # "ended"
  /\ ~aborted
  /\ aborted' = TRUE
  /\ UNCHANGED <<scenario, stream, wire, buffer, lastId, attempt, delivered, rejected>>

StreamNext == \/ Connect \/ Responds \/ FetchFails \/ Wake
              \/ Read \/ ReadEnds \/ Handle
              \/ Abort

\* A pause and a fetch end, the consumer pulls, and a cancelled reader answers.
\* Nothing else makes a server send or a connection end.
StreamFairness == /\ WF_streamVars(Connect)
                  /\ WF_streamVars(Responds \/ FetchFails)
                  /\ WF_streamVars(Wake)
                  /\ WF_streamVars(Handle)
                  /\ WF_streamVars(aborted /\ ReadEnds)

-----------------------------------------------------------------------------
(***************************************************************************)
(* Properties.                                                             *)
(***************************************************************************)

Before(x, y) == x[2] < y[2] \/ (x[2] = y[2] /\ x[3] < y[3])

\* No data comes twice and none out of order.
NothingTwice ==
  \A i, j \in DOMAIN delivered :
    \A p \in DOMAIN delivered[i], q \in DOMAIN delivered[j] :
      i < j \/ (i = j /\ p < q) => Before(delivered[i][p], delivered[j][q])

\* Both lines of an event's data, in their order, and nothing else.
IsWhole(data, n) ==
  \E p, q \in DOMAIN data : /\ p < q /\ DOMAIN data = {p, q}
                           /\ data[p] = DataLine(n, 1) /\ data[q] = DataLine(n, 2)

\* However the text is cut into chunks and the connections break, a server that
\* ends its lines with LF has each event up to the last id delivered once, whole and
\* in order, those the validator refused excepted.  With CR LF an event may be lost or
\* come in two halves, but no data comes twice and none out of order.
DeliveredExactly ==
  /\ ending = LF =>
       /\ \A n \in (1..lastId) \ rejected : \E i \in DOMAIN delivered : IsWhole(delivered[i], n)
       /\ \A i \in DOMAIN delivered : \E n \in (1..lastId) \ rejected : IsWhole(delivered[i], n)
  /\ NothingTwice

\* A stream whose signal is aborted ends, wherever the abort finds it.
AbortEnds == aborted ~> stream = "ended"
=============================================================================
