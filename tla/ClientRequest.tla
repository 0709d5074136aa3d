---------------------------- MODULE ClientRequest ----------------------------
(***************************************************************************)
(* One call of the generated client (request of createClient), while the   *)
(* interceptors it runs are added, replaced, ejected and cleared.          *)
(*                                                                         *)
(* The call awaits its preparation, every interceptor, the fetch and the   *)
(* body; the rest of the program runs meanwhile.  Each of the three lists  *)
(* is an array whose ejected entries are null, and a loop over a list runs *)
(* on the array as it is at every turn; clear() puts another array in its  *)
(* place and leaves the old one to the loop.  A hook stands in a list only *)
(* once.                                                                   *)
(***************************************************************************)
EXTENDS Integers, Sequences, SequencesExt, ClientMessage

CONSTANTS
  Hooks,       \* the interceptors a caller may add
  NoHook,      \* null
  NoResponse,  \* undefined
  Responses,   \* what the server may answer
  MaxChanges   \* bound: changes of the lists

ASSUME RequestAssumption == NoHook \notin Hooks /\ NoResponse \notin Responses /\ MaxChanges \in Nat

Loops == {"request", "response", "error"}

VARIABLES
  fns,       \* the lists: interceptors.request.fns and so on
  given,     \* history: <<list, id, hook>> for the ids callers hold, the last hook each was given
  changes,   \* history: how often a list was changed
  step,      \* where the call is: a list's name while its loop runs
  position,  \* the loop's index
  detached,  \* history: the array the loop is left with, once its list was cleared
  ran,       \* history: the hooks the loop has run, in order
  steady,    \* history: the hooks that have been in the list since the loop began
  answered,  \* history: whether fetch has answered
  response,  \* response
  settled     \* what the promise is settled with

callVars == <<step, position, detached, ran, steady, answered, response, settled>>
requestVars == <<fns, given, changes, callVars>>

InList(list) == ToSet(fns[list]) \ {NoHook}

RequestInit ==
  /\ \E hooks \in {h \in [1..2 -> Hooks] : h[1] # h[2]} :
       /\ fns = [list \in Loops |-> hooks]
       /\ given = {<<list, id, hooks[id + 1]>> : list \in Loops, id \in 0..1}
  /\ changes = 0
  /\ step = "preparing"
  /\ position = 1
  /\ detached = <<>>
  /\ ran = <<>>
  /\ steady = {}
  /\ answered = FALSE
  /\ response = NoResponse
  /\ settled = <<"pending">>

-----------------------------------------------------------------------------
(***************************************************************************)
(* The lists.                                                              *)
(***************************************************************************)
Change(list) ==
  /\ changes < MaxChanges
  /\ changes' = changes + 1
  /\ UNCHANGED <<step, position, ran, answered, response, settled>>

\* Mutant: an ejected entry's place, and so its id, is used again.
UseFree(list, hook) ==
  LET free == SelectInSeq(fns[list], LAMBDA fn : fn = NoHook)
      id == IF free = 0 THEN Len(fns[list]) ELSE free - 1
  IN  /\ Change(list)
      /\ hook \notin InList(list)
      /\ fns' = [fns EXCEPT ![list] = IF free = 0 THEN Append(@, hook) ELSE [@ EXCEPT ![free] = hook]]
      /\ given' = given \cup {<<list, id, hook>>}
      /\ UNCHANGED <<detached, steady>>

\* use: the hook is added at the end, the id is its index.
Use(list, hook) ==
  /\ Change(list)
  /\ hook \notin InList(list)
  /\ fns' = [fns EXCEPT ![list] = Append(@, hook)]
  /\ given' = given \cup {<<list, Len(fns[list]), hook>>}
  /\ UNCHANGED <<detached, steady>>

\* getInterceptorIndex of an id: the id, where a hook stands at its index.
Names(list, id) == id < Len(fns[list]) /\ fns[list][id + 1] # NoHook

\* Mutant: the entry is taken out of the array.
EjectSplices(list, id) ==
  /\ Change(list)
  /\ Names(list, id)
  /\ fns' = [fns EXCEPT ![list] = SubSeq(@, 1, id) \o SubSeq(@, id + 2, Len(@))]
  /\ steady' = IF step = list THEN steady \ {fns[list][id + 1]} ELSE steady
  /\ UNCHANGED <<given, detached>>

\* eject: null takes the hook's place.
Eject(list, id) ==
  /\ Change(list)
  /\ Names(list, id)
  /\ fns' = [fns EXCEPT ![list][id + 1] = NoHook]
  /\ steady' = IF step = list THEN steady \ {fns[list][id + 1]} ELSE steady
  /\ UNCHANGED <<given, detached>>

\* update: another hook takes the place, and the id names it now.
Update(list, id, hook) ==
  /\ Change(list)
  /\ Names(list, id)
  /\ hook \notin InList(list)
  /\ fns' = [fns EXCEPT ![list][id + 1] = hook]
  /\ given' = {g \in given : g[1] # list \/ g[2] # id} \cup {<<list, id, hook>>}
  /\ steady' = IF step = list THEN steady \ {fns[list][id + 1]} ELSE steady
  /\ UNCHANGED detached

\* clear: a new array.  The ids that callers hold name nothing of theirs any more.
Clear(list) ==
  /\ Change(list)
  /\ fns[list] # <<>>
  /\ fns' = [fns EXCEPT ![list] = <<>>]
  /\ given' = {g \in given : g[1] # list}
  /\ detached' = IF step = list /\ detached = <<>> THEN fns[list] ELSE detached
  /\ steady' = IF step = list THEN {} ELSE steady

-----------------------------------------------------------------------------
(***************************************************************************)
(* The call.                                                               *)
(***************************************************************************)
\* The array the loop runs on.
Array == IF detached = <<>> THEN fns[step] ELSE detached

Enter(list) ==
  /\ step' = list
  /\ position' = 1
  /\ detached' = <<>>
  /\ ran' = <<>>
  /\ steady' = InList(list)

\* beforeRequest: credentials, validator, serializer, URL.  Each may throw.
Prepare ==
  /\ step = "preparing"
  /\ Enter("request") \/ Enter("error")
  /\ UNCHANGED <<fns, given, changes, answered, response, settled>>

\* One turn of a loop: null is passed over, a hook is awaited.
RunHook ==
  /\ step \in Loops
  /\ position <= Len(Array)
  /\ position' = position + 1
  /\ ran' = IF Array[position] = NoHook THEN ran ELSE Append(ran, Array[position])
  /\ UNCHANGED <<fns, given, changes, step, detached, steady, answered, response, settled>>

\* A hook throws: a loop of the error list is not inside the try.
HookThrows ==
  /\ step \in Loops
  /\ position <= Len(Array)
  /\ Array[position] # NoHook
  /\ IF step = "error"
       THEN /\ step' = "done"
            /\ settled' = <<"rejected">>
            /\ UNCHANGED <<position, detached, ran, steady>>
       ELSE Enter("error") /\ UNCHANGED settled
  /\ UNCHANGED <<fns, given, changes, answered, response>>

\* A loop ends.  After the last one the promise has the error and the response, if
\* there was one.
LoopEnds ==
  /\ step \in Loops
  /\ position > Len(Array)
  /\ step' = CASE step = "request" -> "fetching" [] step = "response" -> "parsing" [] step = "error" -> "done"
  /\ settled' = IF step = "error" THEN <<"error", response>> ELSE settled
  /\ UNCHANGED <<fns, given, changes, position, detached, ran, steady, answered, response>>

\* Mutant: the fetch throws where the status is no success.
FetchThrowsRefusal ==
  /\ step = "fetching"
  /\ \/ /\ \E answer \in Responses :
             IF Ok(answer) THEN response' = answer /\ Enter("response")
                           ELSE UNCHANGED response /\ Enter("error")
        /\ answered' = TRUE
     \/ UNCHANGED <<answered, response>> /\ Enter("error")
  /\ UNCHANGED <<fns, given, changes, settled>>

\* fetch answers or fails.
Fetched ==
  /\ step = "fetching"
  /\ \/ response' \in Responses /\ answered' = TRUE /\ Enter("response")
     \/ UNCHANGED <<answered, response>> /\ Enter("error")
  /\ UNCHANGED <<fns, given, changes, settled>>

\* The body is read, validated and transformed: data, where the status is a success
\* and nothing throws.
Parse ==
  /\ step = "parsing"
  /\ \/ /\ Ok(response)
        /\ Data(response) # <<"throws">>
        /\ step' = "done"
        /\ settled' = <<"data", Data(response)>>
        /\ UNCHANGED <<position, detached, ran, steady>>
     \/ /\ \/ ~Ok(response)
           \/ Data(response)[1] \in {"json", "throws"} /\ ~NoContent(response)
        /\ Enter("error")
        /\ UNCHANGED settled
  /\ UNCHANGED <<fns, given, changes, answered, response>>

RequestNext == \/ Prepare \/ RunHook \/ HookThrows \/ LoopEnds \/ Fetched \/ Parse
               \/ \E list \in Loops :
                    \/ Clear(list)
                    \/ \E hook \in Hooks : Use(list, hook)
                    \/ \E id \in 0..(Len(fns[list]) - 1) :
                         Eject(list, id) \/ \E hook \in Hooks : Update(list, id, hook)

RequestSpec == RequestInit /\ [][RequestNext]_requestVars

-----------------------------------------------------------------------------
(***************************************************************************)
(* Properties.                                                             *)
(***************************************************************************)

\* Whatever is added, replaced and ejected while a loop runs, a hook that was in the
\* list when the loop began and has stayed there is run once when it ends.
SteadyHooksRun ==
  step \in Loops /\ position > Len(Array) =>
    \A hook \in steady : \E i \in DOMAIN ran : \A j \in DOMAIN ran : ran[j] = hook <=> j = i

\* Until its list is cleared, an id that a caller holds names the hook it was last
\* given for, or none.
IdsNameTheirHook ==
  \A g \in given : Names(g[1], g[2]) => fns[g[1]][g[2] + 1] = g[3]

\* A failed call whose fetch has answered reports the answer: the application reads
\* back what it has no status of.
ErrorHasItsResponse == answered => settled # <<"error", NoResponse>>
=============================================================================
