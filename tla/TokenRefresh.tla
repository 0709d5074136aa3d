---------------------------- MODULE TokenRefresh ----------------------------
(***************************************************************************)
(* Serialising the refresh of one browser session's tokens over Redis:     *)
(* RedisTokenConcurrencyControl.ExecuteWithConcurrencyControlAsync, called *)
(* by concurrent requests that may run on different instances of the BFF.  *)
(*                                                                         *)
(* The session id is fixed, so there is one lock key.  A result key is     *)
(* (session, fingerprint of the refresh token): here, the refresh token.   *)
(* Refresh tokens are numbered by generation: the provider accepts exactly *)
(* one of them, and redeeming generation t yields generation t + 1.        *)
(*                                                                         *)
(* Time is counted in ticks.  Redis's time-to-live of a key and the wait   *)
(* deadline of a call are modelled by the ticks they have left, which is   *)
(* what the program compares: no clock value is bounded.                   *)
(*                                                                         *)
(* A member of Calls is a request slot.  When a request has ended its slot *)
(* may serve another one, so contention need not stop.  The owner GUID of  *)
(* a request is its slot: at most one request of a slot is ever inside the *)
(* critical section, and a lock leaked by an earlier one is gone before a  *)
(* later one can acquire.                                                  *)
(***************************************************************************)
EXTENDS Integers

CONSTANTS
  Calls,           \* concurrent requests of the session, on any instance
  NoCall,          \* the owner of a lock nobody holds
  LockLifetime,    \* LockLifetime, 30 s, in ticks
  ResultLifetime,  \* ResultLifetime, 30 s, in ticks
  WaitLimit,       \* the 15 s after which a waiter gives up, in ticks
  MaxRotations     \* bound: the provider rotates the token this many times

ASSUME NoCallAssumption == NoCall \notin Calls
ASSUME LifetimeAssumption == /\ LockLifetime \in Nat \ {0}
                             /\ ResultLifetime \in Nat \ {0}
                             /\ WaitLimit \in Nat
ASSUME RotationAssumption == MaxRotations \in Nat

VARIABLES
  lock,      \* the Redis lock key: its owner and its time-to-live
  results,   \* the Redis result keys, by the refresh token they are for
  provider,  \* the refresh token the identity provider accepts
  ticket,    \* the refresh token in the session's Redis ticket
  pc,        \* where each request is
  key,       \* the refresh token each request read from the ticket
  wait,      \* ticks left before each waiter's deadline
  got,       \* the token each request obtained, or NoToken
  signedIn,  \* the requests that stored a new ticket themselves
  lease,     \* history: ticks left of the lock lifetime each call was granted
  fate,      \* history: what became of each redeemed refresh token
  slidingDue \* the session has come to the second half of an idle window, in
             \* which the cookie handler renews the ticket with each response

redisVars == <<lock, results, ticket>>
callVars == <<pc, key, wait, got, signedIn, lease>>
coreVars == <<redisVars, provider, callVars, fate>>
vars == <<coreVars, slidingDue>>

-----------------------------------------------------------------------------
Tokens == 0..MaxRotations
NoToken == -1

\* The places inside the try block of lines 46 to 64, and its finally block.
CriticalSection == {"checking", "redeeming", "storing", "caching", "releasing"}
Places == {"idle", "arrived", "acquiring", "responding"} \cup CriticalSection

\* "pending": redeemed, the new token not yet in the ticket; "stored": in the
\* ticket, not yet in the result cache; "cached" and "late": in the cache,
\* written inside and after the lease; "lost" and "uncached": the redeemer
\* ended before it stored, or before it cached.
Fates == {"unspent", "pending", "stored", "cached", "late", "lost", "uncached"}

Free == [owner |-> NoCall, ttl |-> 0]
NoResult == [token |-> 0, ttl |-> 0]

LockHeld == lock.ttl > 0

\* Mutant: the fingerprint is left out of the result key.
ResultKeyPerSession(token) == 0

\* The Redis key a call's result is kept under: one per refresh token.
ResultKey(token) == token
Cached(c) == results[ResultKey(key[c])].ttl > 0

Inside(c) == pc[c] \in CriticalSection
Goto(c, place) == pc' = [pc EXCEPT ![c] = place]
Got(c, token) == got' = [got EXCEPT ![c] = token]

Init ==
  /\ lock = Free
  /\ results = [t \in Tokens |-> NoResult]
  /\ provider = 0
  /\ ticket = 0
  /\ pc = [c \in Calls |-> "idle"]
  /\ key = [c \in Calls |-> 0]
  /\ wait = [c \in Calls |-> 0]
  /\ got = [c \in Calls |-> NoToken]
  /\ signedIn = {}
  /\ lease = [c \in Calls |-> 0]
  /\ fate = [t \in Tokens |-> "unspent"]
  /\ slidingDue = FALSE

-----------------------------------------------------------------------------
(***************************************************************************)
(* The caller: the cookie handler reads the ticket once per request, and   *)
(* the token manager hands its refresh token to the concurrency control.   *)
(***************************************************************************)
ReadTicket(c) ==
  /\ pc[c] = "idle"
  /\ Goto(c, "arrived")
  /\ key' = [key EXCEPT ![c] = ticket]
  /\ Got(c, NoToken)
  /\ signedIn' = signedIn \ {c}
  /\ UNCHANGED <<redisVars, provider, wait, lease, fate>>

\* The call computes its keys and its deadline and starts to poll the lock.
Enter(c) ==
  /\ pc[c] = "arrived"
  /\ Goto(c, "acquiring")
  /\ wait' = [wait EXCEPT ![c] = WaitLimit]
  /\ UNCHANGED <<redisVars, provider, key, got, signedIn, lease, fate>>

Grant(c) == lock' = [owner |-> c, ttl |-> LockLifetime]

\* Mutant: SET without NX.
AcquireWithoutNX(c) ==
  /\ pc[c] = "acquiring"
  /\ Grant(c)
  /\ lease' = [lease EXCEPT ![c] = LockLifetime]
  /\ wait' = [wait EXCEPT ![c] = 0]
  /\ Goto(c, "checking")
  /\ UNCHANGED <<results, ticket, provider, key, got, signedIn, fate>>

\* SET lockKey owner NX with the lock lifetime succeeds.
Acquire(c) ==
  /\ pc[c] = "acquiring"
  /\ ~LockHeld
  /\ Grant(c)
  /\ lease' = [lease EXCEPT ![c] = LockLifetime]
  /\ wait' = [wait EXCEPT ![c] = 0]
  /\ Goto(c, "checking")
  /\ UNCHANGED <<results, ticket, provider, key, got, signedIn, fate>>

\* SET NX succeeds at Redis, but the cancelled WaitAsync throws before the try
\* block is entered: nothing releases the lock but its lifetime.
AcquireCancelled(c) ==
  /\ pc[c] = "acquiring"
  /\ ~LockHeld
  /\ Grant(c)
  /\ wait' = [wait EXCEPT ![c] = 0]
  /\ Goto(c, "responding")
  /\ UNCHANGED <<results, ticket, provider, key, got, signedIn, lease, fate>>

\* Mutant: a waiter that gives up breaks the lock.
GiveUpBreakingLock(c) ==
  /\ pc[c] = "acquiring"
  /\ LockHeld
  /\ wait[c] = 0
  /\ lock' = Free
  /\ Goto(c, "responding")
  /\ UNCHANGED <<results, ticket, provider, key, wait, got, signedIn, lease, fate>>

\* Mutant: the deadline is computed anew in every round of the loop.
GiveUpNever(c) ==
  /\ pc[c] = "acquiring"
  /\ LockHeld
  /\ wait[c] = 0
  /\ wait' = [wait EXCEPT ![c] = WaitLimit]
  /\ UNCHANGED <<redisVars, provider, pc, key, got, signedIn, lease, fate>>

\* SET NX fails: throw TimeoutException at the deadline.  Before it, the call
\* sleeps 50 ms and tries again, which changes nothing.
GiveUp(c) ==
  /\ pc[c] = "acquiring"
  /\ LockHeld
  /\ wait[c] = 0
  /\ Goto(c, "responding")
  /\ UNCHANGED <<redisVars, provider, key, wait, got, signedIn, lease, fate>>

\* The poll or the sleep is cancelled with the request.
WaitCancelled(c) ==
  /\ pc[c] = "acquiring"
  /\ wait' = [wait EXCEPT ![c] = 0]
  /\ Goto(c, "responding")
  /\ UNCHANGED <<redisVars, provider, key, got, signedIn, lease, fate>>

-----------------------------------------------------------------------------
\* A live result for the same refresh token is returned as it is.
CheckHit(c) ==
  /\ pc[c] = "checking"
  /\ Cached(c)
  /\ Got(c, results[ResultKey(key[c])].token)
  /\ Goto(c, "releasing")
  /\ UNCHANGED <<redisVars, provider, key, wait, signedIn, lease, fate>>

\* Mutant: the result is not looked up again once the lock is held.
CheckMissAlways(c) ==
  /\ pc[c] = "checking"
  /\ Goto(c, "redeeming")
  /\ UNCHANGED <<redisVars, provider, key, wait, got, signedIn, lease, fate>>

CheckMiss(c) ==
  /\ pc[c] = "checking"
  /\ ~Cached(c)
  /\ Goto(c, "redeeming")
  /\ UNCHANGED <<redisVars, provider, key, wait, got, signedIn, lease, fate>>

(***************************************************************************)
(* tokenRetriever, the token manager's callback: it redeems the refresh    *)
(* token at the provider and, when that succeeds, stores the new tokens in *)
(* the session's ticket.                                                   *)
(***************************************************************************)
Redeem(c) ==
  /\ pc[c] = "redeeming"
  /\ key[c] = provider
  /\ provider < MaxRotations
  /\ provider' = provider + 1
  /\ fate' = [fate EXCEPT ![key[c]] = "pending"]
  /\ Goto(c, "storing")
  /\ UNCHANGED <<redisVars, key, wait, got, signedIn, lease>>

\* Mutant: a result that did not succeed is cached too.
RedeemFailsCached(c) ==
  /\ pc[c] = "redeeming"
  /\ results' = [results EXCEPT ![ResultKey(key[c])] =
                   [token |-> NoToken, ttl |-> ResultLifetime]]
  /\ Goto(c, "releasing")
  /\ UNCHANGED <<lock, ticket, provider, key, wait, got, signedIn, lease, fate>>

\* The provider refuses a consumed token, or cannot be reached at all: the
\* retriever returns a result that did not succeed.
RedeemFails(c) ==
  /\ pc[c] = "redeeming"
  /\ Goto(c, "releasing")
  /\ UNCHANGED <<redisVars, provider, key, wait, got, signedIn, lease, fate>>

\* Mutant: the rotated token never reaches the ticket.
StoreTicketSkipped(c) ==
  /\ pc[c] = "storing"
  /\ signedIn' = signedIn \cup {c}
  /\ fate' = [fate EXCEPT ![key[c]] = "stored"]
  /\ Goto(c, "caching")
  /\ UNCHANGED <<redisVars, provider, key, wait, got, lease>>

StoreTicket(c) ==
  /\ pc[c] = "storing"
  /\ ticket' = key[c] + 1
  /\ signedIn' = signedIn \cup {c}
  /\ fate' = [fate EXCEPT ![key[c]] = "stored"]
  /\ Goto(c, "caching")
  /\ UNCHANGED <<lock, results, provider, key, wait, got, lease>>

-----------------------------------------------------------------------------
\* The result of a successful refresh is cached for ResultLifetime.
CacheResult(c) ==
  /\ pc[c] = "caching"
  /\ results' = [results EXCEPT ![ResultKey(key[c])] =
                   [token |-> key[c] + 1, ttl |-> ResultLifetime]]
  /\ Got(c, key[c] + 1)
  /\ fate' = [fate EXCEPT ![key[c]] = IF lease[c] > 0 THEN "cached" ELSE "late"]
  /\ Goto(c, "releasing")
  /\ UNCHANGED <<lock, ticket, provider, key, wait, signedIn, lease>>

\* What is left behind by a call that ends where it is.
Abandoned(c) == [fate EXCEPT ![key[c]] = CASE pc[c] = "storing" -> "lost"
                                           [] pc[c] = "caching" -> "uncached"
                                           [] OTHER -> @]

\* An await inside the try block throws: cancellation, a Redis error, a result
\* that cannot be unprotected, a provider's answer that was lost.  The finally
\* block still runs.
Throw(c) ==
  /\ pc[c] \in CriticalSection \ {"releasing"}
  /\ fate' = Abandoned(c)
  /\ Goto(c, "releasing")
  /\ UNCHANGED <<redisVars, provider, key, wait, got, signedIn, lease>>

OwnsLock(c) == LockHeld /\ lock.owner = c

\* Mutant: the finally block deletes the lock whoever owns it.
ReleaseAnyLock(c) ==
  /\ pc[c] = "releasing"
  /\ lock' = Free
  /\ lease' = [lease EXCEPT ![c] = 0]
  /\ Goto(c, "responding")
  /\ UNCHANGED <<results, ticket, provider, key, wait, got, signedIn, fate>>

\* The finally block deletes the lock, in one script, if it is the caller's.
Release(c) ==
  /\ pc[c] = "releasing"
  /\ lock' = IF OwnsLock(c) THEN Free ELSE lock
  /\ lease' = [lease EXCEPT ![c] = 0]
  /\ Goto(c, "responding")
  /\ UNCHANGED <<results, ticket, provider, key, wait, got, signedIn, fate>>

\* The response starts.  The cookie handler renews the ticket it has read when
\* sliding is due, unless the request signed in again; the renewal may fail.
Respond(c) ==
  /\ pc[c] = "responding"
  /\ \/ slidingDue /\ c \notin signedIn /\ ticket' = key[c]
     \/ UNCHANGED ticket
  /\ Goto(c, "idle")
  /\ UNCHANGED <<lock, results, provider, key, wait, got, signedIn, lease, fate>>

\* The instance stops, or cannot reach Redis to run the finally block.
Crash(c) ==
  /\ pc[c] # "idle"
  /\ fate' = Abandoned(c)
  /\ lease' = [lease EXCEPT ![c] = 0]
  /\ wait' = [wait EXCEPT ![c] = 0]
  /\ Goto(c, "idle")
  /\ UNCHANGED <<redisVars, provider, key, got, signedIn>>

-----------------------------------------------------------------------------
OneLess(n) == IF n > 0 THEN n - 1 ELSE 0

AgeLock == IF lock.ttl > 1 THEN [lock EXCEPT !.ttl = @ - 1] ELSE Free
AgeResult(r) == IF r.ttl > 1 THEN [r EXCEPT !.ttl = @ - 1] ELSE NoResult

Tick ==
  /\ lock' = AgeLock
  /\ results' = [t \in Tokens |-> AgeResult(results[t])]
  /\ wait' = [c \in Calls |-> OneLess(wait[c])]
  /\ lease' = [c \in Calls |-> OneLess(lease[c])]
  /\ UNCHANGED <<ticket, provider, pc, key, got, signedIn, fate>>

\* The steps a request takes once it holds the lock.
Proceed(c) == \/ CheckHit(c) \/ CheckMiss(c)
              \/ Redeem(c) \/ RedeemFails(c) \/ StoreTicket(c) \/ CacheResult(c)
              \/ Throw(c) \/ Release(c)

Await(c) == Acquire(c) \/ GiveUp(c)

Step(c) == \/ ReadTicket(c) \/ Enter(c)
           \/ Await(c) \/ AcquireCancelled(c) \/ WaitCancelled(c)
           \/ Proceed(c) \/ Respond(c)
           \/ Crash(c)

\* Half of the idle window has passed without a renewal.
HalfWindow == ~slidingDue /\ slidingDue' = TRUE /\ UNCHANGED coreVars

Next == \/ (Tick \/ \E c \in Calls : Step(c)) /\ UNCHANGED slidingDue
        \/ HalfWindow

\* Redis time passes; a polling call polls; every await inside the critical
\* section ends, by an answer, a transport timeout or a cancellation; a response
\* is sent.  Nothing makes a request arrive.
Fairness ==
  /\ WF_coreVars(Tick)
  /\ \A c \in Calls : /\ WF_coreVars(Enter(c))
                      /\ WF_coreVars(Await(c))
                      /\ WF_coreVars(Proceed(c))
                      /\ WF_coreVars(Respond(c))

Safety == Init /\ [][Next]_vars
Spec == Safety /\ Fairness

-----------------------------------------------------------------------------
(***************************************************************************)
(* Properties.                                                             *)
(***************************************************************************)

TypeOK ==
  /\ lock \in [owner : Calls \cup {NoCall}, ttl : 0..LockLifetime]
  /\ results \in [Tokens -> [token : Tokens, ttl : 0..ResultLifetime]]
  /\ provider \in Tokens
  /\ ticket \in Tokens
  /\ pc \in [Calls -> Places]
  /\ key \in [Calls -> Tokens]
  /\ wait \in [Calls -> 0..WaitLimit]
  /\ got \in [Calls -> Tokens \cup {NoToken}]
  /\ signedIn \in SUBSET Calls
  /\ lease \in [Calls -> 0..LockLifetime]
  /\ fate \in [Tokens -> Fates]
  /\ slidingDue \in BOOLEAN

\* Two requests are inside the critical section at once only if one of them has
\* stayed longer than the lock lifetime it was granted.
LeaseMutualExclusion ==
  \A c, d \in Calls :
    c # d /\ Inside(c) /\ Inside(d) => lease[c] = 0 \/ lease[d] = 0

\* A request only ever obtains the token that follows the one it read: never
\* the very token it came to replace, never another rotation's result.
ServesSuccessor ==
  \A c \in Calls : got[c] # NoToken => got[c] = key[c] + 1

\* A request presents a refresh token that is already spent only when the result
\* of spending it was lost or has expired, or somebody outlived the lock.
SpentTokenHasExcuse ==
  \A c \in Calls :
    pc[c] = "redeeming" /\ key[c] # provider =>
      \/ lease[c] = 0
      \/ fate[key[c]] \in {"lost", "uncached", "late"}
      \/ fate[key[c]] = "cached" /\ ~Cached(c)
      \/ \E d \in Calls : /\ pc[d] \in {"storing", "caching"}
                          /\ key[d] = key[c]
                          /\ lease[d] = 0

\* Until a sliding renewal is due, the ticket holds the token the provider
\* accepts, but for the moment between the rotation and the renewal of the
\* ticket, or for ever when the redeemer ended in that moment.
TicketTracksProvider ==
  slidingDue \/ \/ ticket = provider
                \/ ticket + 1 = provider /\ fate[ticket] \in {"pending", "lost"}

\* The lock key changes hands only through being free: a live lock is deleted
\* by its owner leaving the critical section or runs out, it is never replaced
\* nor deleted by another call, and its lifetime is never extended.
OnlyOwnerUnlocks ==
  [][LockHeld /\ lock' # lock =>
       \/ lock' = Free /\ pc[lock.owner] = "releasing"
                       /\ pc'[lock.owner] = "responding"
       \/ lock' = AgeLock /\ pc' = pc]_vars

\* The protocol implements a lock with a lifetime: the holder is the owner of the
\* live Redis key, the entitled are the calls inside within their lease.
Lease == INSTANCE LeaseLock WITH
           Clients <- Calls, Nobody <- NoCall,
           holder <- lock.owner,
           entitled <- {c \in Calls : Inside(c) /\ lease[c] > 0}

\* Every behaviour of the Redis protocol is one of the abstract lease lock.
ImplementsLeaseLock == Lease!Spec

\* A request that has read the ticket ends, however long others keep the lock.
EveryRequestEnds ==
  \A c \in Calls : pc[c] \in Places \ {"idle"} ~> pc[c] = "idle"

=============================================================================
