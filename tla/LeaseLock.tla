----------------------------- MODULE LeaseLock -----------------------------
(***************************************************************************)
(* What a lock with a lifetime promises: at any time one client at most    *)
(* holds it, and only holders are entitled to be inside the region it      *)
(* guards.  A client may leave the region and keep the lock (it died, or   *)
(* its release was lost); then only the lapse of the lifetime frees it.    *)
(* A client whose lifetime has lapsed is no longer entitled, whatever it   *)
(* goes on doing.                                                          *)
(***************************************************************************)
CONSTANTS Clients, Nobody

VARIABLES holder,    \* the client the lock is granted to, or Nobody
          entitled   \* the clients inside the region within their lifetime

lockVars == <<holder, entitled>>

Init == holder = Nobody /\ entitled = {}

Take(c) == /\ holder = Nobody
           /\ holder' = c
           /\ entitled' = {c}

\* The grant arrives at nobody: the client has gone.
TakeUnseen(c) == /\ holder = Nobody
                 /\ holder' = c
                 /\ UNCHANGED entitled

Release(c) == /\ holder = c
              /\ holder' = Nobody
              /\ entitled' = entitled \ {c}

Die(c) == /\ c \in entitled
          /\ entitled' = entitled \ {c}
          /\ UNCHANGED holder

Lapse == /\ holder # Nobody
         /\ holder' = Nobody
         /\ entitled' = {}

Next == Lapse \/ \E c \in Clients : Take(c) \/ TakeUnseen(c) \/ Release(c) \/ Die(c)

Spec == Init /\ [][Next]_lockVars
=============================================================================
