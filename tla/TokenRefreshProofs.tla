------------------------- MODULE TokenRefreshProofs -------------------------
(***************************************************************************)
(* What TokenRefresh guarantees for every number of requests and every     *)
(* lifetime.  Inv is the inductive invariant; its parts are proved in the  *)
(* order in which they lean on each other.                                 *)
(***************************************************************************)
EXTENDS TokenRefresh, TLAPS

\* A call that has redeemed its token moved the provider past it.
SpentInv ==
  \A c \in Calls : pc[c] \in {"storing", "caching"} => key[c] < provider

\* The lock record is owned by a call exactly while it is live.
LockInv == lock.owner = NoCall <=> lock.ttl = 0

\* A call inside the critical section within its lease owns the lock, for as
\* long as its lease lasts.
LeaseInv ==
  \A c \in Calls :
    Inside(c) /\ lease[c] > 0 => lock.owner = c /\ lock.ttl = lease[c]

\* What is cached for a refresh token is the token that follows it.
CacheInv == \A t \in Tokens : results[t].ttl > 0 => results[t].token = t + 1

\* Exactly the tokens before the provider's are spent, and nobody holds a later
\* one.
GenerationInv ==
  /\ \A t \in Tokens : fate[t] = "unspent" <=> t >= provider
  /\ ticket <= provider
  /\ \A c \in Calls : key[c] <= provider

\* A spent token whose result is under way has one call, and one only, that is
\* bringing it in.
RedeemerInv ==
  /\ \A c \in Calls : /\ pc[c] = "storing" => fate[key[c]] = "pending"
                      /\ pc[c] = "caching" => fate[key[c]] = "stored"
  /\ \A c, d \in Calls : /\ pc[c] \in {"storing", "caching"}
                         /\ pc[d] \in {"storing", "caching"}
                         /\ key[c] = key[d]
                         => c = d
  /\ \A t \in Tokens :
       fate[t] \in {"pending", "stored"} =>
         \E c \in Calls : pc[c] \in {"storing", "caching"} /\ key[c] = t

\* A call about to redeem within its lease has missed the cache for good: no
\* other call can fill it meanwhile.
MissInv ==
  \A c \in Calls :
    pc[c] = "redeeming" /\ lease[c] > 0 /\ fate[key[c]] = "cached" =>
      results[key[c]].ttl = 0

\* Without sliding renewals the ticket only moves forward: nobody reads past it,
\* and no rotation before it is still under way or was lost.
ForwardInv ==
  ~slidingDue =>
    /\ \A c \in Calls : key[c] <= ticket
    /\ \A t \in Tokens : fate[t] \in {"pending", "lost"} => t >= ticket

\* Membership facts that spare the proofs the enumerations.
LEMMA PlaceFacts ==
  /\ "idle" \in Places /\ "arrived" \in Places /\ "acquiring" \in Places
  /\ "responding" \in Places /\ "checking" \in Places /\ "redeeming" \in Places
  /\ "storing" \in Places /\ "caching" \in Places /\ "releasing" \in Places
  BY DEF Places, CriticalSection

LEMMA FateFacts ==
  /\ "unspent" \in Fates /\ "pending" \in Fates /\ "stored" \in Fates
  /\ "cached" \in Fates /\ "late" \in Fates
  /\ "lost" \in Fates /\ "uncached" \in Fates
  BY DEF Fates

\* Tokens is a finite initial segment of the naturals.
LEMMA TokenFacts ==
  /\ 0 \in Tokens
  /\ \A t \in Tokens : t \in Nat
  /\ \A t, u \in Tokens : t < u => t + 1 \in Tokens
  /\ \A t \in Tokens : t < MaxRotations => t + 1 \in Tokens
  BY RotationAssumption DEF Tokens

(***************************************************************************)
(* Type correctness.                                                       *)
(***************************************************************************)
LEMMA InitTypeOK == Init => TypeOK /\ SpentInv
<1> SUFFICES ASSUME Init PROVE TypeOK /\ SpentInv
  OBVIOUS
<1>1. lock \in [owner : Calls \cup {NoCall}, ttl : 0..LockLifetime]
  BY LifetimeAssumption DEF Init, Free
<1>2. results \in [Tokens -> [token : Tokens, ttl : 0..ResultLifetime]]
  BY LifetimeAssumption, TokenFacts DEF Init, NoResult
<1>3. /\ provider \in Tokens /\ ticket \in Tokens /\ slidingDue \in BOOLEAN
      /\ signedIn \in SUBSET Calls /\ SpentInv
  BY TokenFacts DEF Init, SpentInv
<1>4. pc \in [Calls -> Places] /\ fate \in [Tokens -> Fates]
  BY PlaceFacts, FateFacts DEF Init
<1>5. key \in [Calls -> Tokens] /\ got \in [Calls -> Tokens \cup {NoToken}]
  BY TokenFacts DEF Init
<1>6. wait \in [Calls -> 0..WaitLimit] /\ lease \in [Calls -> 0..LockLifetime]
  BY LifetimeAssumption DEF Init
<1> QED
  BY <1>1, <1>2, <1>3, <1>4, <1>5, <1>6 DEF TypeOK

\* Every step keeps every variable in its range.
LEMMA NextTypeOK == TypeOK /\ SpentInv /\ [Next]_vars => TypeOK'
<1> SUFFICES ASSUME TypeOK, SpentInv, [Next]_vars PROVE TypeOK'
  OBVIOUS
<1>0. slidingDue' \in BOOLEAN
  BY DEF TypeOK, Next, HalfWindow, vars
<1> USE <1>0, PlaceFacts, FateFacts DEF TypeOK, Goto, redisVars
<1>1. CASE Tick
  <2>1. lock' \in [owner : Calls \cup {NoCall}, ttl : 0..LockLifetime]
    <3>1. Free \in [owner : Calls \cup {NoCall}, ttl : 0..LockLifetime]
      BY LifetimeAssumption DEF Free
    <3>2. CASE lock.ttl > 1
      <4>1. lock' = [lock EXCEPT !.ttl = lock.ttl - 1]
        BY <1>1, <3>2 DEF Tick, AgeLock
      <4>2. lock.ttl - 1 \in 0..LockLifetime
        BY <3>2, LifetimeAssumption
      <4> QED
        BY <4>1, <4>2
    <3>3. CASE ~(lock.ttl > 1)
      BY <1>1, <3>1, <3>3 DEF Tick, AgeLock
    <3> QED
      BY <3>2, <3>3
  <2>2. results' \in [Tokens -> [token : Tokens, ttl : 0..ResultLifetime]]
    <3>1. \A r \in [token : Tokens, ttl : 0..ResultLifetime] :
            AgeResult(r) \in [token : Tokens, ttl : 0..ResultLifetime]
      BY LifetimeAssumption, TokenFacts DEF AgeResult, NoResult
    <3> QED
      BY <1>1, <3>1 DEF Tick
  <2>3. wait' \in [Calls -> 0..WaitLimit] /\ lease' \in [Calls -> 0..LockLifetime]
    BY <1>1, LifetimeAssumption DEF Tick, OneLess
  <2> QED
    BY <1>1, <2>1, <2>2, <2>3 DEF Tick
<1>2. ASSUME NEW c \in Calls, Step(c) PROVE TypeOK'
  <2>1. CASE ReadTicket(c)
    BY <2>1 DEF ReadTicket, Got
  <2>2. CASE Enter(c)
    BY <2>2, LifetimeAssumption DEF Enter
  <2>3. CASE Acquire(c)
    BY <2>3, LifetimeAssumption DEF Acquire, Grant
  <2>4. CASE GiveUp(c)
    BY <2>4 DEF GiveUp
  <2>5. CASE AcquireCancelled(c)
    BY <2>5, LifetimeAssumption DEF AcquireCancelled, Grant
  <2>6. CASE WaitCancelled(c)
    BY <2>6, LifetimeAssumption DEF WaitCancelled
  <2>7. CASE CheckHit(c)
    BY <2>7 DEF CheckHit, Got, ResultKey
  <2>8. CASE CheckMiss(c)
    BY <2>8 DEF CheckMiss
  <2>9. CASE Redeem(c)
    BY <2>9, TokenFacts DEF Redeem
  <2>10. CASE RedeemFails(c)
    BY <2>10 DEF RedeemFails
  <2>11. CASE StoreTicket(c)
    BY <2>11, TokenFacts DEF StoreTicket, SpentInv
  <2>12. CASE CacheResult(c)
    <3>1. key[c] + 1 \in Tokens
      BY <2>12, TokenFacts DEF CacheResult, SpentInv
    <3> QED
      BY <2>12, <3>1, LifetimeAssumption DEF CacheResult, Got, ResultKey
  <2>13. CASE Throw(c)
    BY <2>13 DEF Throw, Abandoned
  <2>14. CASE Release(c)
    BY <2>14, LifetimeAssumption DEF Release, Free
  <2>15. CASE Respond(c)
    BY <2>15 DEF Respond
  <2>16. CASE Crash(c)
    BY <2>16, LifetimeAssumption DEF Crash, Abandoned
  <2> QED
    BY <1>2, <2>1, <2>2, <2>3, <2>4, <2>5, <2>6, <2>7, <2>8, <2>9, <2>10,
       <2>11, <2>12, <2>13, <2>14, <2>15, <2>16 DEF Step, Await, Proceed
<1>3. CASE UNCHANGED coreVars
  BY <1>3 DEF coreVars, callVars
<1> QED
  BY <1>1, <1>2, <1>3 DEF Next, HalfWindow, vars

(***************************************************************************)
(* The lock and the leases.                                                *)
(***************************************************************************)
LEMMA InitLease == Init => LockInv /\ LeaseInv
  BY DEF Init, LockInv, LeaseInv, Free, Inside, CriticalSection

\* A redeemer's token stays behind the provider, which never goes back.
LEMMA NextSpent == TypeOK /\ SpentInv /\ [Next]_vars => SpentInv'
<1> SUFFICES ASSUME TypeOK, SpentInv, [Next]_vars PROVE SpentInv'
  OBVIOUS
<1> USE TokenFacts DEF TypeOK, SpentInv, Goto, redisVars
<1>1. CASE Tick
  BY <1>1 DEF Tick
<1>2. ASSUME NEW c \in Calls, Step(c) PROVE SpentInv'
  <2>1. CASE ReadTicket(c)
    BY <2>1 DEF ReadTicket
  <2>2. CASE Redeem(c)
    <3>1. \A d \in Calls : key'[d] = key[d] /\ key[d] \in Nat
      BY <2>2 DEF Redeem
    <3>2. provider \in Nat /\ provider' = provider + 1 /\ key[c] = provider
      BY <2>2 DEF Redeem
    <3>3. \A d \in Calls : d # c => pc'[d] = pc[d]
      BY <2>2 DEF Redeem
    <3> QED
      BY <3>1, <3>2, <3>3
  <2>3. CASE StoreTicket(c)
    BY <2>3 DEF StoreTicket
  <2>4. CASE Enter(c) \/ Await(c) \/ AcquireCancelled(c) \/ WaitCancelled(c)
    BY <2>4 DEF Enter, Await, Acquire, GiveUp, AcquireCancelled, WaitCancelled
  <2>5. CASE CheckHit(c) \/ CheckMiss(c) \/ RedeemFails(c)
    BY <2>5 DEF CheckHit, CheckMiss, RedeemFails
  <2>6. CASE CacheResult(c) \/ Throw(c) \/ Release(c) \/ Respond(c) \/ Crash(c)
    BY <2>6 DEF CacheResult, Throw, Release, Respond, Crash
  <2> QED
    BY <1>2, <2>1, <2>2, <2>3, <2>4, <2>5, <2>6 DEF Step, Proceed
<1>3. CASE UNCHANGED coreVars
  BY <1>3 DEF coreVars, callVars
<1> QED
  BY <1>1, <1>2, <1>3 DEF Next, HalfWindow, vars

\* A live lock has an owner, a free one has none.
LEMMA NextLock == TypeOK /\ LockInv /\ [Next]_vars => LockInv'
<1> SUFFICES ASSUME TypeOK, LockInv, [Next]_vars PROVE LockInv'
  OBVIOUS
<1> USE NoCallAssumption, LifetimeAssumption DEF TypeOK, LockInv, Free, redisVars
<1>1. CASE Tick
  <2>1. CASE lock.ttl > 1
    <3>1. lock' = [lock EXCEPT !.ttl = lock.ttl - 1]
      BY <1>1, <2>1 DEF Tick, AgeLock
    <3>2. lock'.ttl # 0 /\ lock'.owner = lock.owner
      BY <2>1, <3>1
    <3> QED
      BY <2>1, <3>2
  <2>2. CASE ~(lock.ttl > 1)
    BY <1>1, <2>2 DEF Tick, AgeLock
  <2> QED
    BY <2>1, <2>2
<1>2. ASSUME NEW c \in Calls, Step(c) PROVE LockInv'
  <2>1. CASE Acquire(c) \/ AcquireCancelled(c)
    BY <2>1 DEF Acquire, AcquireCancelled, Grant
  <2>2. CASE Release(c)
    BY <2>2 DEF Release
  <2>3. CASE ReadTicket(c) \/ Enter(c) \/ GiveUp(c) \/ WaitCancelled(c)
    BY <2>3 DEF ReadTicket, Enter, GiveUp, WaitCancelled
  <2>4. CASE CheckHit(c) \/ CheckMiss(c) \/ Redeem(c) \/ RedeemFails(c)
    BY <2>4 DEF CheckHit, CheckMiss, Redeem, RedeemFails
  <2>5. CASE StoreTicket(c) \/ CacheResult(c) \/ Throw(c) \/ Respond(c) \/ Crash(c)
    BY <2>5 DEF StoreTicket, CacheResult, Throw, Respond, Crash
  <2> QED
    BY <1>2, <2>1, <2>2, <2>3, <2>4, <2>5 DEF Step, Await, Proceed
<1>3. CASE UNCHANGED coreVars
  BY <1>3 DEF coreVars
<1> QED
  BY <1>1, <1>2, <1>3 DEF Next, HalfWindow, vars

\* A lease and the lock it was granted run down together; nobody else's step
\* touches the lock before they have.
LEMMA NextLease == TypeOK /\ LockInv /\ LeaseInv /\ [Next]_vars => LeaseInv'
<1> SUFFICES ASSUME TypeOK, LockInv, LeaseInv, [Next]_vars PROVE LeaseInv'
  OBVIOUS
<1> USE NoCallAssumption, LifetimeAssumption
    DEF TypeOK, LockInv, LeaseInv, Inside, CriticalSection, Goto, redisVars
<1>1. CASE Tick
  BY <1>1 DEF Tick, AgeLock, OneLess
<1>2. ASSUME NEW c \in Calls, Step(c) PROVE LeaseInv'
  <2>1. CASE Acquire(c)
    BY <2>1 DEF Acquire, Grant, LockHeld
  <2>2. CASE AcquireCancelled(c)
    BY <2>2 DEF AcquireCancelled, Grant, LockHeld
  <2>3. CASE Release(c)
    BY <2>3 DEF Release, OwnsLock
  <2>4. CASE Crash(c)
    BY <2>4 DEF Crash
  <2>5. CASE ReadTicket(c) \/ Enter(c) \/ GiveUp(c) \/ WaitCancelled(c)
    BY <2>5 DEF ReadTicket, Enter, GiveUp, WaitCancelled
  <2>6. CASE CheckHit(c) \/ CheckMiss(c) \/ Redeem(c) \/ RedeemFails(c)
    BY <2>6 DEF CheckHit, CheckMiss, Redeem, RedeemFails
  <2>7. CASE StoreTicket(c) \/ CacheResult(c) \/ Throw(c) \/ Respond(c)
    BY <2>7 DEF StoreTicket, CacheResult, Throw, Respond
  <2> QED
    BY <1>2, <2>1, <2>2, <2>3, <2>4, <2>5, <2>6, <2>7 DEF Step, Await, Proceed
<1>3. CASE UNCHANGED coreVars
  BY <1>3 DEF coreVars, callVars
<1> QED
  BY <1>1, <1>2, <1>3 DEF Next, HalfWindow, vars

\* Two owners of one lock would be one call.
LEMMA LeaseExcludes == TypeOK /\ LeaseInv => LeaseMutualExclusion
<1> SUFFICES ASSUME TypeOK, LeaseInv, NEW c \in Calls, NEW d \in Calls,
                    c # d, Inside(c), Inside(d), lease[c] # 0, lease[d] # 0
             PROVE  FALSE
  BY DEF LeaseMutualExclusion
<1> QED
  BY DEF LeaseInv, TypeOK

(***************************************************************************)
(* The result cache.                                                       *)
(***************************************************************************)

\* Results are only ever written for the token that was redeemed.
LEMMA NextCache ==
  TypeOK /\ SpentInv /\ CacheInv /\ ServesSuccessor /\ [Next]_vars
    => CacheInv' /\ ServesSuccessor'
<1> SUFFICES ASSUME TypeOK, SpentInv, CacheInv, ServesSuccessor, [Next]_vars
             PROVE  CacheInv' /\ ServesSuccessor'
  OBVIOUS
<1> USE TokenFacts, LifetimeAssumption
    DEF TypeOK, CacheInv, ServesSuccessor, ResultKey, Got, redisVars
<1>1. CASE Tick
  BY <1>1 DEF Tick, AgeResult, NoResult
<1>2. ASSUME NEW c \in Calls, Step(c) PROVE CacheInv' /\ ServesSuccessor'
  <2>1. CASE ReadTicket(c)
    BY <2>1 DEF ReadTicket
  <2>2. CASE CheckHit(c)
    BY <2>2 DEF CheckHit, Cached
  <2>3. CASE CacheResult(c)
    BY <2>3 DEF CacheResult
  <2>4. CASE Enter(c) \/ Await(c) \/ AcquireCancelled(c) \/ WaitCancelled(c)
    BY <2>4 DEF Enter, Await, Acquire, GiveUp, AcquireCancelled, WaitCancelled
  <2>5. CASE CheckMiss(c) \/ Redeem(c) \/ RedeemFails(c) \/ StoreTicket(c)
    BY <2>5 DEF CheckMiss, Redeem, RedeemFails, StoreTicket
  <2>6. CASE Throw(c) \/ Release(c) \/ Respond(c) \/ Crash(c)
    BY <2>6 DEF Throw, Release, Respond, Crash
  <2> QED
    BY <1>2, <2>1, <2>2, <2>3, <2>4, <2>5, <2>6 DEF Step, Proceed
<1>3. CASE UNCHANGED coreVars
  BY <1>3 DEF coreVars, callVars
<1> QED
  BY <1>1, <1>2, <1>3 DEF Next, HalfWindow, vars

(***************************************************************************)
(* The generations of the refresh token.                                   *)
(***************************************************************************)

\* Spending is what moves a token behind the provider.
LEMMA NextGeneration ==
  TypeOK /\ SpentInv /\ GenerationInv /\ [Next]_vars => GenerationInv'
<1> SUFFICES ASSUME TypeOK, SpentInv, GenerationInv, [Next]_vars
             PROVE  GenerationInv'
  OBVIOUS
<1>0. /\ \A t \in Tokens : t \in Nat
      /\ provider \in Nat /\ ticket \in Nat
      /\ \A c \in Calls : key[c] \in Tokens /\ key[c] \in Nat
  BY TokenFacts DEF TypeOK
<1> USE <1>0 DEF TypeOK, GenerationInv, SpentInv, redisVars
<1>1. CASE Tick
  BY <1>1 DEF Tick
<1>2. ASSUME NEW c \in Calls, Step(c) PROVE GenerationInv'
  <2>1. CASE ReadTicket(c)
    BY <2>1 DEF ReadTicket
  <2>2. CASE Redeem(c)
    <3>1. provider \in Nat /\ provider' = provider + 1 /\ key[c] = provider
      BY <2>2 DEF Redeem
    <3>2. fate' = [fate EXCEPT ![provider] = "pending"] /\ UNCHANGED <<ticket, key>>
      BY <2>2, <3>1 DEF Redeem
    <3>3. \A t \in Tokens : fate'[t] = "unspent" <=> t >= provider'
      BY <3>1, <3>2
    <3> QED
      BY <3>1, <3>2, <3>3
  <2>3. CASE StoreTicket(c)
    <3>1. key[c] < provider /\ fate[key[c]] # "unspent"
      BY <2>3 DEF StoreTicket
    <3>2. ticket' = key[c] + 1 /\ UNCHANGED <<provider, key>>
      BY <2>3 DEF StoreTicket
    <3>3. fate' = [fate EXCEPT ![key[c]] = "stored"]
      BY <2>3 DEF StoreTicket
    <3> QED
      BY <3>1, <3>2, <3>3
  <2>4. CASE CacheResult(c)
    <3>1. key[c] < provider
      BY <2>4 DEF CacheResult
    <3>2. UNCHANGED <<provider, key, ticket>>
      BY <2>4 DEF CacheResult
    <3>3. \/ fate' = [fate EXCEPT ![key[c]] = "cached"]
          \/ fate' = [fate EXCEPT ![key[c]] = "late"]
      BY <2>4 DEF CacheResult
    <3> QED
      BY <3>1, <3>2, <3>3
  <2>5. CASE Throw(c)
    BY <2>5 DEF Throw, Abandoned
  <2>6. CASE Crash(c)
    BY <2>6 DEF Crash, Abandoned
  <2>7. CASE Respond(c)
    BY <2>7 DEF Respond
  <2>8. CASE Enter(c) \/ Await(c) \/ AcquireCancelled(c) \/ WaitCancelled(c)
    BY <2>8 DEF Enter, Await, Acquire, GiveUp, AcquireCancelled, WaitCancelled
  <2>9. CASE CheckHit(c) \/ CheckMiss(c) \/ RedeemFails(c) \/ Release(c)
    BY <2>9 DEF CheckHit, CheckMiss, RedeemFails, Release
  <2> QED
    BY <1>2, <2>1, <2>2, <2>3, <2>4, <2>5, <2>6, <2>7, <2>8, <2>9 DEF Step, Proceed
<1>3. CASE UNCHANGED coreVars
  BY <1>3 DEF coreVars, callVars
<1> QED
  BY <1>1, <1>2, <1>3 DEF Next, HalfWindow, vars

(***************************************************************************)
(* Each spent token has one redeemer.                                      *)
(***************************************************************************)

\* Nobody but the redeemer of a token decides its fate.
LEMMA NextRedeemer ==
  TypeOK /\ SpentInv /\ GenerationInv /\ RedeemerInv /\ [Next]_vars => RedeemerInv'
<1> SUFFICES ASSUME TypeOK, SpentInv, GenerationInv, RedeemerInv, [Next]_vars
             PROVE  RedeemerInv'
  OBVIOUS
<1>0. /\ \A t \in Tokens : t \in Nat
      /\ provider \in Nat
      /\ \A c \in Calls : key[c] \in Tokens /\ key[c] \in Nat
  BY TokenFacts DEF TypeOK
<1>1. CASE Tick
  BY <1>1 DEF Tick, RedeemerInv
<1>2. ASSUME NEW c \in Calls, Step(c) PROVE RedeemerInv'
  <2> USE <1>0 DEF TypeOK, RedeemerInv, Goto, redisVars
  <2>1. CASE Redeem(c)
    <3>1. /\ key[c] = provider
          /\ fate' = [fate EXCEPT ![key[c]] = "pending"]
          /\ pc[c] = "redeeming" /\ pc' = [pc EXCEPT ![c] = "storing"]
          /\ key' = key
      BY <2>1 DEF Redeem
    <3>2. \A d \in Calls : pc[d] \in {"storing", "caching"} => key[d] # key[c]
      BY <3>1 DEF SpentInv
    <3> QED
      BY <3>1, <3>2
  <2>2. CASE StoreTicket(c)
    <3>1. /\ fate' = [fate EXCEPT ![key[c]] = "stored"]
          /\ pc[c] = "storing" /\ pc' = [pc EXCEPT ![c] = "caching"]
          /\ key' = key
      BY <2>2 DEF StoreTicket
    <3> QED
      BY <3>1
  <2>3. CASE CacheResult(c)
    <3>1. /\ \/ fate' = [fate EXCEPT ![key[c]] = "cached"]
             \/ fate' = [fate EXCEPT ![key[c]] = "late"]
          /\ pc[c] = "caching" /\ pc' = [pc EXCEPT ![c] = "releasing"]
          /\ key' = key
      BY <2>3 DEF CacheResult
    <3>2. /\ pc'[c] = "releasing" /\ \A d \in Calls \ {c} : pc'[d] = pc[d]
          /\ fate'[key[c]] \notin {"pending", "stored"}
          /\ \A t \in Tokens \ {key[c]} : fate'[t] = fate[t]
      BY <3>1
    <3>3. \A d \in Calls \ {c} : pc[d] \in {"storing", "caching"} => key[d] # key[c]
      BY <3>1
    <3> QED
      BY <3>1, <3>2, <3>3
  <2>4. CASE Throw(c)
    BY <2>4 DEF Throw, Abandoned, CriticalSection
  <2>5. CASE Crash(c)
    BY <2>5 DEF Crash, Abandoned
  <2>a. ASSUME /\ pc[c] \notin {"storing", "caching"}
                /\ fate' = fate
                /\ pc'[c] \notin {"storing", "caching"}
                /\ \A d \in Calls \ {c} : pc'[d] = pc[d] /\ key'[d] = key[d]
         PROVE  RedeemerInv'
    <3>1. \A d \in Calls : pc'[d] \in {"storing", "caching"} =>
            d # c /\ pc'[d] = pc[d] /\ key'[d] = key[d]
      BY <2>a
    <3>2. \A d \in Calls : pc[d] \in {"storing", "caching"} =>
            d # c /\ pc'[d] = pc[d] /\ key'[d] = key[d]
      BY <2>a
    <3> QED
      BY <2>a, <3>1, <3>2
  <2>6. CASE ReadTicket(c)
    <3>1. /\ pc[c] \notin {"storing", "caching"} /\ fate' = fate
          /\ pc' = [pc EXCEPT ![c] = "arrived"] /\ key' = [key EXCEPT ![c] = ticket]
      BY <2>6 DEF ReadTicket
    <3> QED
      BY <2>a, <3>1
  <2>7. CASE \/ Enter(c) \/ Await(c) \/ AcquireCancelled(c) \/ WaitCancelled(c)
             \/ CheckHit(c) \/ CheckMiss(c)
             \/ RedeemFails(c) \/ Release(c) \/ Respond(c)
    <3>1. /\ pc[c] \notin {"storing", "caching"} /\ fate' = fate /\ key' = key
          /\ \E p \in Places \ {"storing", "caching"} : pc' = [pc EXCEPT ![c] = p]
      <4>1. CASE Enter(c) \/ AcquireCancelled(c) \/ WaitCancelled(c)
        BY <4>1, PlaceFacts DEF Enter, AcquireCancelled, WaitCancelled
      <4>2. CASE Await(c)
        BY <4>2, PlaceFacts DEF Await, Acquire, GiveUp
      <4>3. CASE CheckHit(c) \/ CheckMiss(c)
        BY <4>3, PlaceFacts DEF CheckHit, CheckMiss
      <4>4. CASE RedeemFails(c) \/ Release(c) \/ Respond(c)
        BY <4>4, PlaceFacts DEF RedeemFails, Release, Respond
      <4> QED
        BY <2>7, <4>1, <4>2, <4>3, <4>4
    <3> QED
      BY <2>a, <3>1
  <2> QED
    BY <1>2, <2>1, <2>2, <2>3, <2>4, <2>5, <2>6, <2>7 DEF Step, Proceed
<1>3. CASE UNCHANGED coreVars
  BY <1>3 DEF coreVars, callVars, RedeemerInv
<1> QED
  BY <1>1, <1>2, <1>3 DEF Next, HalfWindow, vars

\* Filling the cache within the lease needs the lock the other call holds.
LEMMA NextMiss ==
  TypeOK /\ LeaseMutualExclusion /\ MissInv /\ RedeemerInv /\ [Next]_vars => MissInv'
<1> SUFFICES ASSUME TypeOK, LeaseMutualExclusion, MissInv, RedeemerInv, [Next]_vars
             PROVE  MissInv'
  OBVIOUS
<1>0. /\ \A c \in Calls : /\ key[c] \in Tokens
                          /\ lease[c] \in Nat
                          /\ results[key[c]].ttl \in Nat
      /\ \A c \in Calls : ~(lease[c] > 0) => lease[c] = 0
  BY LifetimeAssumption DEF TypeOK
<1> USE <1>0 DEF TypeOK, MissInv, Goto, redisVars
<1>1. CASE Tick
  BY <1>1 DEF Tick, OneLess, AgeResult, NoResult
<1>2. ASSUME NEW c \in Calls, Step(c) PROVE MissInv'
  <2>1. CASE CheckMiss(c)
    BY <2>1 DEF CheckMiss, Cached, ResultKey
  <2>2. CASE CacheResult(c)
    <3>1. \A d \in Calls : d # c /\ pc[d] = "redeeming" /\ lease[d] > 0 => lease[c] = 0
      BY <2>2 DEF CacheResult, LeaseMutualExclusion, Inside, CriticalSection
    <3>2. /\ fate' = [fate EXCEPT ![key[c]] = IF lease[c] > 0 THEN "cached" ELSE "late"]
          /\ pc' = [pc EXCEPT ![c] = "releasing"]
          /\ UNCHANGED <<key, lease>>
          /\ \A t \in Tokens : t # key[c] => results'[t] = results[t]
      BY <2>2 DEF CacheResult, ResultKey
    <3> QED
      BY <3>1, <3>2
  <2>3. CASE Acquire(c)
    BY <2>3 DEF Acquire
  <2>4. CASE Redeem(c)
    BY <2>4 DEF Redeem
  <2>5. CASE StoreTicket(c)
    BY <2>5 DEF StoreTicket
  <2>6. CASE Throw(c)
    BY <2>6 DEF Throw, Abandoned
  <2>7. CASE Crash(c)
    BY <2>7 DEF Crash, Abandoned
  <2>8. CASE ReadTicket(c)
    BY <2>8 DEF ReadTicket
  <2>9. CASE Enter(c) \/ GiveUp(c) \/ AcquireCancelled(c) \/ WaitCancelled(c)
    BY <2>9 DEF Enter, GiveUp, AcquireCancelled, WaitCancelled
  <2>10. CASE CheckHit(c) \/ RedeemFails(c)
    BY <2>10 DEF CheckHit, RedeemFails
  <2>11. CASE Release(c) \/ Respond(c)
    BY <2>11 DEF Release, Respond
  <2> QED
    BY <1>2, <2>1, <2>2, <2>3, <2>4, <2>5, <2>6, <2>7, <2>8, <2>9, <2>10, <2>11
    DEF Step, Await, Proceed
<1>3. CASE UNCHANGED coreVars
  BY <1>3 DEF coreVars, callVars
<1> QED
  BY <1>1, <1>2, <1>3 DEF Next, HalfWindow, vars

\* A spent token in the hands of a call within its lease: its redeemer is gone
\* and left no result, or the result expired, or the redeemer overstayed.
LEMMA Excuse ==
  TypeOK /\ GenerationInv /\ RedeemerInv /\ MissInv /\ LeaseMutualExclusion
    => SpentTokenHasExcuse
<1> SUFFICES ASSUME TypeOK, GenerationInv, RedeemerInv, MissInv, LeaseMutualExclusion,
                    NEW c \in Calls, pc[c] = "redeeming", key[c] # provider,
                    lease[c] # 0,
                    fate[key[c]] \notin {"lost", "uncached", "late"},
                    ~(fate[key[c]] = "cached" /\ ~Cached(c))
             PROVE  \E d \in Calls : /\ pc[d] \in {"storing", "caching"}
                                    /\ key[d] = key[c]
                                    /\ lease[d] = 0
  BY DEF SpentTokenHasExcuse
<1>1. /\ key[c] \in Tokens /\ key[c] \in Nat /\ provider \in Nat
      /\ lease[c] \in Nat /\ lease[c] > 0 /\ fate[key[c]] \in Fates
  <2>1. lease[c] \in 0..LockLifetime
    BY DEF TypeOK
  <2>2. key[c] \in Tokens /\ provider \in Tokens /\ fate[key[c]] \in Fates
    BY DEF TypeOK
  <2> QED
    BY <2>1, <2>2, TokenFacts, LifetimeAssumption
<1>2. fate[key[c]] # "unspent"
  <2>1. key[c] <= provider
    BY DEF GenerationInv
  <2>2. ~(key[c] >= provider)
    BY <1>1, <2>1
  <2> QED
    BY <1>1, <2>2 DEF GenerationInv
<1>3. fate[key[c]] # "cached"
  BY <1>1 DEF MissInv, Cached, ResultKey
<1>4. fate[key[c]] \in {"pending", "stored"}
  BY <1>1, <1>2, <1>3 DEF Fates
<1>5. PICK d \in Calls : pc[d] \in {"storing", "caching"} /\ key[d] = key[c]
  BY <1>1, <1>4 DEF RedeemerInv
<1>6. lease[d] = 0
  BY <1>5 DEF LeaseMutualExclusion, Inside, CriticalSection
<1> QED
  BY <1>5, <1>6

(***************************************************************************)
(* Without sliding renewals the ticket follows the provider.               *)
(***************************************************************************)

\* Once a sliding renewal was due, the ticket may be behind for good.
LEMMA SlidingStaysDue == [Next]_vars /\ slidingDue => slidingDue'
  BY DEF Next, HalfWindow, vars

\* Only the redeemer of the ticket's own token can be about to write it.
LEMMA NextForward ==
  /\ TypeOK /\ SpentInv /\ GenerationInv /\ RedeemerInv
  /\ ForwardInv /\ TicketTracksProvider /\ [Next]_vars
  => ForwardInv' /\ TicketTracksProvider'
<1> DEFINE Follows ==
             /\ \A c \in Calls : key[c] <= ticket
             /\ \A t \in Tokens : fate[t] \in {"pending", "lost"} => t >= ticket
             /\ \/ ticket = provider
                \/ ticket + 1 = provider /\ fate[ticket] \in {"pending", "lost"}
<1> SUFFICES ASSUME TypeOK, SpentInv, GenerationInv, RedeemerInv, Follows, [Next]_vars,
                    ~slidingDue
             PROVE  Follows'
  BY SlidingStaysDue DEF ForwardInv, TicketTracksProvider
<1>0. /\ \A t \in Tokens : t \in Nat
      /\ provider \in Nat /\ ticket \in Nat /\ ticket \in Tokens
      /\ \A c \in Calls : key[c] \in Tokens /\ key[c] \in Nat
      /\ key \in [Calls -> Tokens] /\ fate \in [Tokens -> Fates]
  BY TokenFacts DEF TypeOK
<1> USE <1>0 DEF redisVars
<1>1. CASE Tick
  BY <1>1 DEF Tick
<1>2. ASSUME NEW c \in Calls, Step(c) PROVE Follows'
  <2>1. CASE Redeem(c)
    <3>1. /\ key[c] = provider /\ provider' = provider + 1
          /\ fate' = [fate EXCEPT ![key[c]] = "pending"]
          /\ UNCHANGED <<key, ticket>>
      BY <2>1 DEF Redeem
    <3>2. ticket = provider
      BY <3>1 DEF GenerationInv
    <3> QED
      BY <3>1, <3>2
  <2>2. CASE StoreTicket(c)
    <3>1. /\ pc[c] = "storing" /\ ticket' = key[c] + 1
          /\ fate' = [fate EXCEPT ![key[c]] = "stored"]
          /\ UNCHANGED <<key, provider>>
      BY <2>2 DEF StoreTicket
    <3>2. key[c] < provider /\ fate[key[c]] = "pending"
      BY <3>1 DEF SpentInv, RedeemerInv
    <3>3. ticket = key[c] /\ provider = ticket + 1
      <4>1. key[c] >= ticket
        BY <3>2
      <4>2. ticket = provider \/ ticket + 1 = provider
        OBVIOUS
      <4> QED
        BY <3>2, <4>1, <4>2
    <3>4. ASSUME NEW t \in Tokens, fate[t] \in {"pending", "lost"}
          PROVE  t = key[c]
      <4>1. ~(t >= provider)
        <5>1. fate[t] # "unspent"
          BY <3>4
        <5> QED
          BY <5>1 DEF GenerationInv
      <4>2. t >= ticket
        BY <3>4
      <4> QED
        BY <3>3, <4>1, <4>2
    <3>5. \A t \in Tokens : fate'[t] \notin {"pending", "lost"}
      BY <3>1, <3>4
    <3>6. \A d \in Calls : key[d] <= ticket'
      BY <3>1, <3>3
    <3> QED
      BY <3>1, <3>3, <3>5, <3>6
  <2>3. CASE Throw(c)
    BY <2>3 DEF Throw, Abandoned, RedeemerInv
  <2>4. CASE Crash(c)
    BY <2>4 DEF Crash, Abandoned, RedeemerInv
  <2>5. CASE CacheResult(c)
    <3>1. /\ pc[c] = "caching"
          /\ \/ fate' = [fate EXCEPT ![key[c]] = "cached"]
             \/ fate' = [fate EXCEPT ![key[c]] = "late"]
          /\ UNCHANGED <<key, provider, ticket>>
      BY <2>5 DEF CacheResult
    <3>2. fate[key[c]] = "stored"
      BY <3>1 DEF RedeemerInv
    <3> QED
      BY <3>1, <3>2
  <2>6. CASE ReadTicket(c)
    BY <2>6 DEF ReadTicket
  <2>7. CASE Enter(c) \/ Await(c) \/ AcquireCancelled(c) \/ WaitCancelled(c)
    BY <2>7 DEF Enter, Await, Acquire, GiveUp, AcquireCancelled, WaitCancelled
  <2>8. CASE CheckHit(c) \/ CheckMiss(c) \/ RedeemFails(c)
    BY <2>8 DEF CheckHit, CheckMiss, RedeemFails
  <2>9. CASE Release(c) \/ Respond(c)
    BY <2>9 DEF Release, Respond
  <2> QED
    BY <1>2, <2>1, <2>2, <2>3, <2>4, <2>5, <2>6, <2>7, <2>8, <2>9 DEF Step, Proceed
<1>3. CASE UNCHANGED coreVars
  BY <1>3 DEF coreVars, callVars
<1> QED
  BY <1>1, <1>2, <1>3 DEF Next, HalfWindow, vars

(***************************************************************************)
(* The inductive invariant and the theorems.                               *)
(***************************************************************************)
Inv ==
  /\ TypeOK /\ SpentInv
  /\ LockInv /\ LeaseInv
  /\ CacheInv /\ ServesSuccessor
  /\ GenerationInv /\ RedeemerInv /\ MissInv
  /\ ForwardInv /\ TicketTracksProvider

LEMMA InitInv == Init => Inv
<1> SUFFICES ASSUME Init PROVE Inv
  OBVIOUS
<1>1. TypeOK /\ SpentInv /\ LockInv /\ LeaseInv
  BY InitTypeOK, InitLease
<1>2. CacheInv /\ ServesSuccessor
  BY DEF Init, CacheInv, ServesSuccessor, NoResult
<1>3. GenerationInv
  BY TokenFacts DEF Init, GenerationInv
<1>4. RedeemerInv /\ MissInv
  BY DEF Init, RedeemerInv, MissInv
<1>5. ForwardInv /\ TicketTracksProvider
  BY DEF Init, ForwardInv, TicketTracksProvider
<1> QED
  BY <1>1, <1>2, <1>3, <1>4, <1>5 DEF Inv

\* Every step keeps the inductive invariant.
LEMMA NextInv == Inv /\ [Next]_vars => Inv'
  BY NextTypeOK, NextSpent, NextLock, NextLease, NextCache, NextGeneration,
     NextRedeemer, NextMiss, NextForward, LeaseExcludes
  DEF Inv

\* The inductive invariant holds throughout.
THEOREM Invariance == Safety => []Inv
  BY InitInv, NextInv, PTL DEF Safety

\* Every variable keeps to its type in every behaviour.
THEOREM TypeCorrect == Safety => []TypeOK
<1>1. Inv => TypeOK
  BY DEF Inv
<1> QED
  BY <1>1, Invariance, PTL

\* Whatever the number of requests, two are inside the critical section at once
\* only if one of them outlived the lock it was granted.
THEOREM MutualExclusion == Safety => []LeaseMutualExclusion
<1>1. Inv => LeaseMutualExclusion
  BY LeaseExcludes DEF Inv
<1> QED
  BY <1>1, Invariance, PTL

\* A request obtains the successor of the refresh token it read, or nothing.
THEOREM Successor == Safety => []ServesSuccessor
<1>1. Inv => ServesSuccessor
  BY DEF Inv
<1> QED
  BY <1>1, Invariance, PTL

\* A spent refresh token is presented again only after a lost or an expired
\* result, or a call that outlived the lock.
THEOREM SpentTokens == Safety => []SpentTokenHasExcuse
<1>1. Inv => SpentTokenHasExcuse
  BY LeaseExcludes, Excuse DEF Inv
<1> QED
  BY <1>1, Invariance, PTL

\* Without sliding renewals the ticket is behind the provider only while a call
\* is bringing the rotated token in, or after that call was lost.
THEOREM TicketTracks == Safety => []TicketTracksProvider
<1>1. Inv => TicketTracksProvider
  BY DEF Inv
<1> QED
  BY <1>1, Invariance, PTL

(***************************************************************************)
(* Who may change a live lock.                                             *)
(***************************************************************************)
UnlockStep ==
  LockHeld /\ lock' # lock =>
    \/ lock' = Free /\ pc[lock.owner] = "releasing" /\ pc'[lock.owner] = "responding"
    \/ lock' = AgeLock /\ pc' = pc

LEMMA OnlyOwnerStep == TypeOK /\ [Next]_vars => UnlockStep
<1> SUFFICES ASSUME TypeOK, [Next]_vars PROVE UnlockStep
  OBVIOUS
<1> USE DEF UnlockStep, Goto, redisVars
<1>1. CASE Tick
  BY <1>1 DEF Tick
<1>2. ASSUME NEW c \in Calls, Step(c) PROVE UnlockStep
  <2>1. CASE Release(c)
    BY <2>1 DEF Release, OwnsLock, TypeOK
  <2>2. CASE ReadTicket(c) \/ Enter(c) \/ Await(c) \/ AcquireCancelled(c)
    BY <2>2 DEF ReadTicket, Enter, Await, Acquire, GiveUp, AcquireCancelled
  <2>3. CASE CheckHit(c) \/ CheckMiss(c) \/ Redeem(c) \/ RedeemFails(c)
    BY <2>3 DEF CheckHit, CheckMiss, Redeem, RedeemFails
  <2>4. CASE StoreTicket(c) \/ CacheResult(c) \/ Throw(c)
    BY <2>4 DEF StoreTicket, CacheResult, Throw
  <2>5. CASE WaitCancelled(c) \/ Respond(c) \/ Crash(c)
    BY <2>5 DEF WaitCancelled, Respond, Crash
  <2> QED
    BY <1>2, <2>1, <2>2, <2>3, <2>4, <2>5 DEF Step, Proceed
<1>3. CASE UNCHANGED coreVars
  BY <1>3 DEF coreVars
<1> QED
  BY <1>1, <1>2, <1>3 DEF Next, HalfWindow, vars

\* A live lock is deleted by its owner or runs out; nobody else touches it.
THEOREM OwnerUnlocks == Safety => OnlyOwnerUnlocks
<1>1. TypeOK /\ [Next]_vars => [UnlockStep]_vars
  BY OnlyOwnerStep
<1> QED
  BY <1>1, TypeCorrect, PTL DEF Safety, OnlyOwnerUnlocks, UnlockStep

(***************************************************************************)
(* The protocol implements the lease lock.                                 *)
(***************************************************************************)
Entitled == {c \in Calls : Inside(c) /\ lease[c] > 0}

\* A call's step leaves the entitled alone when it moves no call across the
\* border of the critical section and touches no lease.
LEMMA SameEntitled ==
  ASSUME TypeOK, NEW c \in Calls, NEW place,
         pc' = [pc EXCEPT ![c] = place], lease' = lease,
         Inside(c) <=> place \in CriticalSection
  PROVE  Entitled' = Entitled
<1>1. \A d \in Calls : Inside(d)' <=> Inside(d)
  BY DEF Inside, TypeOK
<1> QED
  BY <1>1 DEF Entitled

\* Nobody but the owner of the live lock is entitled.
LEMMA EntitledOwns ==
  TypeOK /\ LeaseInv => \A c \in Entitled : lock.owner = c /\ lock.ttl = lease[c]
  BY DEF LeaseInv, Entitled

\* Every step of the protocol is a step of the lease lock, or leaves it alone.
LEMMA LeaseStep ==
  TypeOK /\ LockInv /\ LeaseInv /\ [Next]_vars => [Lease!Next]_(Lease!lockVars)
<1> SUFFICES ASSUME TypeOK, LockInv, LeaseInv, [Next]_vars
             PROVE  [Lease!Next]_(Lease!lockVars)
  OBVIOUS
<1> DEFINE Stays == lock'.owner = lock.owner /\ Entitled' = Entitled
<1>s. Stays => [Lease!Next]_(Lease!lockVars)
  BY DEF Lease!lockVars, Entitled
<1>1. CASE Tick
  <2>1. UNCHANGED pc /\ lock' = AgeLock /\ lease' = [c \in Calls |-> OneLess(lease[c])]
    BY <1>1 DEF Tick
  <2>2. \A c \in Calls : lease[c] \in Nat /\ lock.ttl \in Nat
    BY LifetimeAssumption DEF TypeOK
  <2>3. CASE lock.ttl > 1
    <3>1. lock'.owner = lock.owner
      BY <2>1, <2>3 DEF AgeLock, TypeOK
    <3>2. \A c \in Calls : Inside(c) => (lease'[c] > 0 <=> lease[c] > 0)
      BY <2>1, <2>2, <2>3 DEF OneLess, LeaseInv
    <3>3. Entitled' = Entitled
      BY <2>1, <3>2 DEF Entitled, Inside
    <3> QED
      BY <3>1, <3>3, <1>s
  <2>4. CASE lock.ttl = 1
    <3>1. lock'.owner = NoCall /\ lock.owner # NoCall
      BY <2>1, <2>4 DEF AgeLock, Free, LockInv
    <3>2. Entitled' = {}
      BY <2>1, <2>2, <2>4 DEF Entitled, Inside, OneLess, LeaseInv
    <3>3. Lease!Lapse
      BY <3>1, <3>2 DEF Lease!Lapse, Entitled
    <3> QED
      BY <3>3 DEF Lease!Next
  <2>5. CASE lock.ttl = 0
    <3>1. lock'.owner = lock.owner
      BY <2>1, <2>5 DEF AgeLock, Free, LockInv
    <3>2. Entitled = {} /\ Entitled' = {}
      BY <2>1, <2>2, <2>5 DEF Entitled, Inside, OneLess, LeaseInv
    <3> QED
      BY <3>1, <3>2, <1>s
  <2>6. lock.ttl > 1 \/ lock.ttl = 1 \/ lock.ttl = 0
    BY LifetimeAssumption DEF TypeOK
  <2> QED
    BY <2>3, <2>4, <2>5, <2>6
<1>2. ASSUME NEW c \in Calls, Step(c) PROVE [Lease!Next]_(Lease!lockVars)
  <2>0. \A d \in Calls : d \in Entitled => lock.owner = d /\ lock.ttl > 0
    BY DEF Entitled, LeaseInv
  <2>1. CASE Acquire(c)
    <3>1. lock.owner = NoCall /\ lock'.owner = c
      BY <2>1, LifetimeAssumption DEF Acquire, Grant, LockHeld, LockInv, TypeOK
    <3>2. Entitled = {}
      BY <2>0, <3>1, NoCallAssumption DEF Entitled
    <3>3. /\ pc' = [pc EXCEPT ![c] = "checking"]
          /\ lease' = [lease EXCEPT ![c] = LockLifetime]
      BY <2>1 DEF Acquire, Goto
    <3>4. Entitled' = {c}
      <4>1. Inside(c)' /\ lease'[c] > 0
        BY <3>3, LifetimeAssumption DEF Inside, CriticalSection, TypeOK
      <4>2. \A d \in Calls : d # c => (Inside(d)' <=> Inside(d)) /\ lease'[d] = lease[d]
        BY <3>3 DEF Inside, TypeOK
      <4> QED
        BY <3>2, <4>1, <4>2 DEF Entitled
    <3>5. Lease!Take(c)
      BY <3>1, <3>4 DEF Lease!Take, Entitled
    <3> QED
      BY <3>5 DEF Lease!Next
  <2>2. CASE AcquireCancelled(c)
    <3>1. lock.owner = NoCall /\ lock'.owner = c
      BY <2>2, LifetimeAssumption DEF AcquireCancelled, Grant, LockHeld, LockInv, TypeOK
    <3>2. Entitled' = Entitled
      BY <2>2, SameEntitled DEF AcquireCancelled, Goto, Inside, CriticalSection
    <3>3. Lease!TakeUnseen(c)
      BY <3>1, <3>2 DEF Lease!TakeUnseen, Entitled
    <3> QED
      BY <3>3 DEF Lease!Next
  <2>3. CASE Release(c) \/ Crash(c)
    <3>1. Entitled' = Entitled \ {c}
      <4>1. ~(Inside(c)' /\ lease'[c] > 0)
        BY <2>3 DEF Release, Crash, Goto, Inside, CriticalSection, TypeOK
      <4>2. \A d \in Calls : d # c => (Inside(d)' <=> Inside(d)) /\ lease'[d] = lease[d]
        BY <2>3 DEF Release, Crash, Goto, Inside, TypeOK
      <4> QED
        BY <4>1, <4>2 DEF Entitled
    <3>2. CASE lock'.owner = lock.owner
      <4>1. CASE c \in Entitled
        <5>1. Lease!Die(c)
          BY <3>1, <3>2, <4>1 DEF Lease!Die, Entitled
        <5> QED
          BY <5>1 DEF Lease!Next
      <4>2. CASE c \notin Entitled
        BY <3>1, <3>2, <4>2, <1>s
      <4> QED
        BY <4>1, <4>2
    <3>3. CASE lock'.owner # lock.owner
      <4>1. lock.owner = c /\ lock'.owner = NoCall
        BY <2>3, <3>3 DEF Release, Crash, OwnsLock, Free, redisVars
      <4>2. Lease!Release(c)
        BY <3>1, <4>1 DEF Lease!Release, Entitled
      <4> QED
        BY <4>2 DEF Lease!Next
    <3> QED
      BY <3>2, <3>3
  <2>4. ASSUME \/ ReadTicket(c) \/ Enter(c) \/ GiveUp(c) \/ WaitCancelled(c) \/ Respond(c)
        PROVE  Stays
    <3>1. PICK place \in Places :
            /\ pc' = [pc EXCEPT ![c] = place]
            /\ ~Inside(c) /\ place \notin CriticalSection
            /\ lease' = lease /\ lock' = lock
      BY <2>4 DEF ReadTicket, Enter, GiveUp, WaitCancelled, Respond, Goto, redisVars,
                  Inside, CriticalSection, Places
    <3> QED
      BY <3>1, SameEntitled
  <2>5. ASSUME \/ CheckHit(c) \/ CheckMiss(c) \/ Redeem(c) \/ RedeemFails(c)
               \/ StoreTicket(c) \/ CacheResult(c) \/ Throw(c)
        PROVE  Stays
    <3>1. PICK place \in CriticalSection :
            /\ pc' = [pc EXCEPT ![c] = place]
            /\ Inside(c)
            /\ lease' = lease /\ lock' = lock
      BY <2>5 DEF CheckHit, CheckMiss, Redeem, RedeemFails, StoreTicket, CacheResult,
                  Throw, Goto, redisVars, Inside, CriticalSection
    <3> QED
      BY <3>1, SameEntitled
  <2> QED
    BY <1>2, <1>s, <2>1, <2>2, <2>3, <2>4, <2>5 DEF Step, Await, Proceed
<1>3. CASE UNCHANGED coreVars
  BY <1>3 DEF coreVars, callVars, redisVars, Lease!lockVars, Inside
<1> QED
  BY <1>1, <1>2, <1>3 DEF Next, HalfWindow, vars

\* The Redis protocol, with its leaks, crashes and overstays, implements a lock
\* with a lifetime.
THEOREM LeaseLockImplemented == Safety => ImplementsLeaseLock
<1>1. Init => Lease!Init
  BY DEF Init, Lease!Init, Free
<1>2. Inv /\ [Next]_vars => [Lease!Next]_(Lease!lockVars)
  BY LeaseStep DEF Inv
<1> QED
  BY <1>1, <1>2, Invariance, PTL DEF Safety, ImplementsLeaseLock, Lease!Spec
=============================================================================
