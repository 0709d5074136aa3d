--------------------------- MODULE LimitedSessions ---------------------------
(***************************************************************************)
(* What a store of browser sessions promises.  A session is begun by a     *)
(* login and may be taken over by another; it is there only while the      *)
(* login it is of has some of its absolute lifetime left, however often it *)
(* is renewed, and once it has ended, by logout or in time, its identifier *)
(* names no session again.  A login comes once.                            *)
(***************************************************************************)
EXTENDS Naturals

CONSTANTS SessionIds, Logins, NoLogin, AbsoluteLifetime

VARIABLES
  owner,  \* the login each session is of, or NoLogin where there is no session
  used,   \* the identifiers that have named a session
  left,   \* what is left of the absolute lifetime of each login
  spare   \* the logins that may still come

sessionVars == <<owner, used, left, spare>>

Init ==
  /\ owner = [k \in SessionIds |-> NoLogin]
  /\ used = {}
  /\ left = [l \in Logins |-> 0]
  /\ spare = Logins

\* A login comes, or comes no more.
LogIn(l) ==
  /\ l \in spare
  /\ spare' = spare \ {l}
  /\ left' \in {left, [left EXCEPT ![l] = AbsoluteLifetime]}
  /\ UNCHANGED <<owner, used>>

Begin(k, l) ==
  /\ k \notin used
  /\ left[l] > 0
  /\ owner' = [owner EXCEPT ![k] = l]
  /\ used' = used \cup {k}
  /\ UNCHANGED <<left, spare>>

\* A session there is goes over to a login, also to one it was of before.
TakeOver(k, l) ==
  /\ owner[k] # NoLogin
  /\ left[l] > 0
  /\ owner' = [owner EXCEPT ![k] = l]
  /\ UNCHANGED <<used, left, spare>>

Finish(k) ==
  /\ owner' = [owner EXCEPT ![k] = NoLogin]
  /\ UNCHANGED <<used, left, spare>>

\* A tick: sessions may end, and those whose login has nothing left do.
Pass ==
  /\ left' = [l \in Logins |-> IF left[l] > 0 THEN left[l] - 1 ELSE 0]
  /\ \E kept \in SUBSET {k \in SessionIds : owner[k] # NoLogin /\ left[owner[k]] > 1} :
       owner' = [k \in SessionIds |-> IF k \in kept THEN owner[k] ELSE NoLogin]
  /\ UNCHANGED <<used, spare>>

Next == \/ Pass
        \/ \E l \in Logins : LogIn(l) \/ \E k \in SessionIds : Begin(k, l) \/ TakeOver(k, l)
        \/ \E k \in SessionIds : Finish(k)

Spec == Init /\ [][Next]_sessionVars
=============================================================================
