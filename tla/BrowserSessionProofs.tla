------------------------ MODULE BrowserSessionProofs ------------------------
(***************************************************************************)
(* What BrowserSession guarantees for every number of requests and         *)
(* sessions, any lifetimes and any number of logins.  Inv is the inductive *)
(* invariant: a session is bounded by its login because every copy of a    *)
(* ticket that may yet be written back is.                                 *)
(***************************************************************************)
EXTENDS BrowserSession, TLAPS

\* What is left of a ticket's absolute lifetime is at most what is left of that of
\* the login it is from; a ticket of no login has none left.
Bounded(t) == t.abs > 0 => t.login \in Tokens /\ t.abs <= life[t.login]

\* A request that has redeemed its refresh token had one.
RedeemedInv == \A r \in Requests : pc[r] = "storing" => copy[r].token \in Tokens

\* The copies that requests hold, and may write back, are bounded.
CopyInv == \A r \in Requests : Bounded(copy[r])

\* So are the tickets in the store, and an entry ends with its ticket at the latest.
StoreInv ==
  \A k \in SessionIds :
    Live(k) => Bounded(store[k].ticket) /\ store[k].ttl <= store[k].ticket.abs

Inv == TypeOK /\ RedeemedInv /\ CopyInv /\ StoreInv

-----------------------------------------------------------------------------
(***************************************************************************)
(* Tickets and entries.                                                    *)
(***************************************************************************)
\* Membership facts that spare the proofs the enumeration.
LEMMA PlaceFacts ==
  /\ "idle" \in Places /\ "read" \in Places /\ "accepted" \in Places
  /\ "storing" \in Places /\ "revoking" \in Places /\ "removing" \in Places
  /\ "signingIn" \in Places /\ "responding" \in Places
  BY DEF Places

\* No ticket is a ticket without a lifetime, and no entry is an entry.
LEMMA NoTicketFacts ==
  /\ NoTicket \in Ticket
  /\ NoTicket.abs = 0
  /\ NoEntry \in [ticket : Ticket, ttl : 0..IdleLifetime]
  /\ NoEntry.ttl = 0
  BY LifetimeAssumption DEF NoTicket, NoEntry, Ticket, NoToken

\* A ticket issued at sign-in.
LEMMA IssueFacts ==
  ASSUME NEW t \in Tokens
  PROVE  /\ Issue(t) \in Ticket
         /\ Issue(t).login = t
         /\ Issue(t).abs = AbsoluteLifetime
  BY LifetimeAssumption DEF Issue, Ticket

\* A renewal keeps the login and the absolute expiry.
LEMMA RenewedFacts ==
  ASSUME NEW t \in Ticket, NEW u \in Tokens \cup {NoToken}
  PROVE  /\ Renewed(t) \in Ticket
         /\ Renewed(t).login = t.login
         /\ Renewed(t).abs = t.abs
         /\ [Renewed(t) EXCEPT !.token = u] \in Ticket
         /\ [Renewed(t) EXCEPT !.token = u].login = t.login
         /\ [Renewed(t) EXCEPT !.token = u].abs = t.abs
<1>1. Renewed(t) \in Ticket /\ Renewed(t).login = t.login /\ Renewed(t).abs = t.abs
  BY LifetimeAssumption DEF Renewed, Ticket
<1>2. \A s \in Ticket : /\ [s EXCEPT !.token = u] \in Ticket
                        /\ [s EXCEPT !.token = u].login = s.login
                        /\ [s EXCEPT !.token = u].abs = s.abs
  BY DEF Ticket
<1> DEFINE renewed == Renewed(t)
<1>3. renewed \in Ticket /\ renewed.login = t.login /\ renewed.abs = t.abs
  BY <1>1
<1> HIDE DEF renewed
<1>4. /\ [renewed EXCEPT !.token = u] \in Ticket
      /\ [renewed EXCEPT !.token = u].login = t.login
      /\ [renewed EXCEPT !.token = u].abs = t.abs
  BY <1>2, <1>3
<1> QED
  BY <1>3, <1>4 DEF renewed

\* A tick takes one from each expiry that has any left.
LEMMA AgeFacts ==
  ASSUME NEW t \in Ticket
  PROVE  /\ Age(t) \in Ticket
         /\ Age(t).login = t.login
         /\ Age(t).token = t.token
         /\ Age(t).abs = OneLess(t.abs)
<1> DEFINE i == OneLess(t.idle)
           a == OneLess(t.abs)
<1>1. i \in 0..IdleLifetime /\ a \in 0..AbsoluteLifetime
  BY LifetimeAssumption DEF OneLess, Ticket
<1>2. Age(t) = [t EXCEPT !.idle = i, !.abs = a]
  BY DEF Age
<1> HIDE DEF i, a
<1>3. /\ Age(t) \in Ticket
      /\ Age(t).login = t.login
      /\ Age(t).token = t.token
      /\ Age(t).abs = a
  BY <1>1, <1>2 DEF Ticket
<1> QED
  BY <1>3 DEF a

\* The entry of a ticket ends with the nearer of its expiries.
LEMMA EntryFacts ==
  ASSUME NEW t \in Ticket
  PROVE  /\ Entry(t) \in [ticket : Ticket, ttl : 0..IdleLifetime]
         /\ Entry(t).ticket = t
         /\ Entry(t).ttl = RemainingLifetime(t)
         /\ Entry(t).ttl <= t.abs
  BY LifetimeAssumption DEF Entry, RemainingLifetime, Ticket

\* A tick shortens an entry or ends it.
LEMMA AgeEntryFacts ==
  ASSUME NEW e \in [ticket : Ticket, ttl : 0..IdleLifetime]
  PROVE  /\ AgeEntry(e) \in [ticket : Ticket, ttl : 0..IdleLifetime]
         /\ AgeEntry(e).ttl > 0 => /\ AgeEntry(e).ticket = Age(e.ticket)
                                   /\ AgeEntry(e).ttl = e.ttl - 1
                                   /\ e.ttl > 1
<1>1. CASE e.ttl > 1
  <2>1. AgeEntry(e) = [ticket |-> Age(e.ticket), ttl |-> e.ttl - 1]
    BY <1>1 DEF AgeEntry
  <2>2. e.ttl - 1 \in 0..IdleLifetime
    BY <1>1, LifetimeAssumption
  <2>3. Age(e.ticket) \in Ticket
    BY AgeFacts
  <2> QED
    BY <1>1, <2>1, <2>2, <2>3
<1>2. CASE ~(e.ttl > 1)
  BY <1>2, NoTicketFacts DEF AgeEntry
<1> QED
  BY <1>1, <1>2

-----------------------------------------------------------------------------
(***************************************************************************)
(* What the steps do to the store and to the copies.                       *)
(***************************************************************************)
\* An entry is emptied.
Removes == \E k \in SessionIds : store' = [store EXCEPT ![k] = NoEntry]

\* The entry of a ticket is written, one with the login and the absolute expiry of
\* the copy the request holds, over a live entry or under a new identifier.
WritesCopy(r) ==
  \E k \in SessionIds, t \in Ticket :
    /\ store' = [store EXCEPT ![k] = Entry(t)]
    /\ t.login = copy[r].login
    /\ t.abs = copy[r].abs
    /\ Live(k) \/ k \notin known

\* Outside the sessions an update of the store changes nothing.
LEMMA NoSessionUpdate ==
  ASSUME TypeOK, NEW e
  PROVE  [store EXCEPT ![NoSession] = e] = store
  BY NoSessionAssumption DEF TypeOK

\* Every step of a request leaves the store alone, removes an entry, or writes one
\* from its copy of the ticket.
LEMMA StoreStep ==
  ASSUME TypeOK, NEW r \in Requests, Step(r)
  PROVE  UNCHANGED store \/ Removes \/ WritesCopy(r)
<1> USE DEF Removes
<1>0. /\ copy[r] \in Ticket
      /\ fresh[r] \in Tokens \cup {NoToken}
      /\ session[r] \in SessionIds \cup {NoSession}
  BY DEF TypeOK
<1>1. CASE SignIn(r)
  <2>1. CASE StoreNew(r)
    BY <1>0, <2>1 DEF StoreNew, WritesCopy
  <2>2. CASE StoreOver(r)
    BY <1>0, <2>2 DEF StoreOver, CanRenew, WritesCopy
  <2>3. CASE TokenValidated(r) \/ StoreCollides(r) \/ SignInFails(r)
    BY <2>3 DEF TokenValidated, StoreCollides, SignInFails
  <2> QED
    BY <1>1, <2>1, <2>2, <2>3 DEF SignIn
<1>2. CASE Authenticate(r)
  BY <1>2 DEF Authenticate, Retrieve, RetrieveUnreadable, Validate, Reject
<1>3. CASE Serve(r)
  <2>1. CASE StoreTicket(r)
    <3> DEFINE renewed == [Renewed(copy[r]) EXCEPT !.token = fresh[r]]
    <3>1. /\ renewed \in Ticket
          /\ renewed.login = copy[r].login
          /\ renewed.abs = copy[r].abs
      BY <1>0, RenewedFacts
    <3>2. \/ UNCHANGED store
          \/ Live(session[r]) /\ store' = [store EXCEPT ![session[r]] = Entry(renewed)]
      BY <2>1 DEF StoreTicket, CanRenew
    <3> HIDE DEF renewed
    <3> QED
      BY <1>0, <3>1, <3>2, NoSessionUpdate DEF WritesCopy
  <2>2. CASE Pass(r) \/ UseCached(r) \/ Redeem(r) \/ RedeemFails(r)
    BY <2>2 DEF Pass, UseCached, Redeem, RedeemFails
  <2> QED
    BY <1>3, <2>1, <2>2 DEF Serve
<1>4. CASE LogOut(r)
  <2>1. CASE Remove(r)
    BY <1>0, <2>1, NoSessionUpdate DEF Remove
  <2>2. CASE Logout(r) \/ Revoke(r) \/ RevokeFails(r)
    BY <2>2 DEF Logout, Revoke, RevokeFails
  <2> QED
    BY <1>4, <2>1, <2>2 DEF LogOut
<1>5. CASE Respond(r)
  <2>1. /\ Renewed(copy[r]) \in Ticket
        /\ Renewed(copy[r]).login = copy[r].login
        /\ Renewed(copy[r]).abs = copy[r].abs
    BY <1>0, RenewedFacts
  <2>2. \/ UNCHANGED store
        \/ /\ Live(session[r])
           /\ store' = [store EXCEPT ![session[r]] = Entry(Renewed(copy[r]))]
    BY <1>5 DEF Respond, CanRenew
  <2> QED
    BY <1>0, <2>1, <2>2, NoSessionUpdate DEF WritesCopy
<1>6. CASE Abort(r)
  BY <1>6 DEF Abort
<1> QED
  BY <1>1, <1>2, <1>3, <1>4, <1>5, <1>6 DEF Step

\* Every step of a request leaves the other copies alone; its own becomes no
\* ticket, that of a live session, or one issued for a new login.
LEMMA CopyStep ==
  ASSUME TypeOK, NEW r \in Requests, Step(r)
  PROVE  \E t \in Ticket :
           /\ copy' = [copy EXCEPT ![r] = t]
           /\ \/ t \in {copy[r], NoTicket} /\ UNCHANGED life
              \/ \E k \in SessionIds : Live(k) /\ t = store[k].ticket /\ UNCHANGED life
              \/ /\ issued + 1 \in Tokens
                 /\ t = Issue(issued + 1)
                 /\ life' = [life EXCEPT ![issued + 1] = AbsoluteLifetime]
<1>0. /\ copy[r] \in Ticket
      /\ copy \in [Requests -> Ticket]
      /\ \A k \in SessionIds : store[k].ticket \in Ticket
      /\ issued \in 0..MaxTokens
      /\ NoTicket \in Ticket
  BY NoTicketFacts DEF TypeOK
<1>1. copy' = copy => copy' = [copy EXCEPT ![r] = copy[r]]
  BY <1>0
<1>2. CASE TokenValidated(r)
  <2>1. issued + 1 \in Tokens
    BY <1>0, <1>2, BoundAssumption DEF TokenValidated, Tokens
  <2>2. Issue(issued + 1) \in Ticket
    BY <2>1, IssueFacts
  <2> QED
    BY <1>2, <2>1, <2>2 DEF TokenValidated
<1>3. CASE Retrieve(r)
  BY <1>0, <1>3 DEF Retrieve, historyVars
<1>4. CASE copy' = copy /\ life' = life
  BY <1>0, <1>1, <1>4
<1>5. CASE End(r) /\ life' = life
  BY <1>0, <1>5 DEF End
<1>6. SignIn(r) => TokenValidated(r) \/ (copy' = copy /\ life' = life) \/ (End(r) /\ life' = life)
  BY DEF SignIn, StoreNew, StoreCollides, StoreOver, SignInFails, historyVars
<1>7. Authenticate(r) => Retrieve(r) \/ (copy' = copy /\ life' = life)
  BY DEF Authenticate, RetrieveUnreadable, Validate, Reject, requestVars, historyVars
<1>8. Serve(r) => copy' = copy /\ life' = life
  BY DEF Serve, Pass, UseCached, Redeem, RedeemFails, StoreTicket, requestVars, historyVars
<1>9. LogOut(r) => (copy' = copy /\ life' = life) \/ (End(r) /\ life' = life)
  BY DEF LogOut, Logout, Revoke, RevokeFails, Remove, requestVars, historyVars
<1>10. Respond(r) \/ Abort(r) => End(r) /\ life' = life
  BY DEF Respond, Abort, historyVars
<1> QED
  BY <1>2, <1>3, <1>4, <1>5, <1>6, <1>7, <1>8, <1>9, <1>10 DEF Step

-----------------------------------------------------------------------------
(***************************************************************************)
(* Type correctness.                                                       *)
(***************************************************************************)
LEMMA InitTypeOK == Init => TypeOK /\ RedeemedInv
<1> SUFFICES ASSUME Init PROVE TypeOK /\ RedeemedInv
  OBVIOUS
<1>1. /\ store \in [SessionIds -> [ticket : Ticket, ttl : 0..IdleLifetime]]
      /\ copy \in [Requests -> Ticket]
  BY NoTicketFacts DEF Init
<1>2. pc \in [Requests -> Places] /\ RedeemedInv
  BY PlaceFacts DEF Init, RedeemedInv
<1>3. /\ issued \in 0..MaxTokens
      /\ life \in [Tokens -> 0..AbsoluteLifetime]
      /\ attempts \in [Requests -> 0..MaxAttempts - 1]
  BY LifetimeAssumption, BoundAssumption DEF Init
<1> QED
  BY <1>1, <1>2, <1>3 DEF Init, TypeOK

\* Steps of a request keep the rest of what they change in its range.
LEMMA StepTypeOK ==
  ASSUME TypeOK, RedeemedInv, NEW r \in Requests, Step(r)
  PROVE  TypeOK' /\ RedeemedInv'
<1> DEFINE Control == /\ pc' \in [Requests -> Places]
                      /\ session' \in [Requests -> SessionIds \cup {NoSession}]
                      /\ fresh' \in [Requests -> Tokens \cup {NoToken}]
                      /\ sliding' \in SUBSET Requests
                      /\ attempts' \in [Requests -> 0..MaxAttempts - 1]
           Provider == /\ issued' \in 0..MaxTokens
                       /\ usable' \in SUBSET Tokens
                       /\ cached' \in SUBSET Tokens
                       /\ known' \in SUBSET SessionIds
<1>1. store' \in [SessionIds -> [ticket : Ticket, ttl : 0..IdleLifetime]]
  <2>1. \A t \in Ticket : Entry(t) \in [ticket : Ticket, ttl : 0..IdleLifetime]
    BY EntryFacts
  <2> QED
    BY <2>1, StoreStep, NoTicketFacts DEF TypeOK, Removes, WritesCopy
<1>2. copy' \in [Requests -> Ticket] /\ life' \in [Tokens -> 0..AbsoluteLifetime]
  BY CopyStep, LifetimeAssumption DEF TypeOK
<1>3. issued + 1 \in Tokens \/ ~(issued < MaxTokens)
  BY BoundAssumption DEF TypeOK, Tokens
<1>4. Control
  <2> USE PlaceFacts DEF Goto
  <2>0. /\ pc \in [Requests -> Places]
        /\ session \in [Requests -> SessionIds \cup {NoSession}]
        /\ fresh \in [Requests -> Tokens \cup {NoToken}]
        /\ sliding \in SUBSET Requests
        /\ attempts \in [Requests -> 0..MaxAttempts - 1]
    BY DEF TypeOK
  <2>1. CASE End(r)
    <3>1. 0 \in 0..MaxAttempts - 1
      BY BoundAssumption
    <3> QED
      BY <2>0, <2>1, <3>1 DEF End
  <2>2. CASE SignIn(r)
    <3>1. CASE TokenValidated(r)
      BY <2>0, <3>1 DEF TokenValidated
    <3>2. CASE StoreCollides(r)
      <4>1. attempts[r] + 1 < MaxAttempts => attempts[r] + 1 \in 0..MaxAttempts - 1
        BY <2>0, BoundAssumption
      <4> QED
        BY <2>0, <2>1, <3>2, <4>1 DEF StoreCollides
    <3> QED
      BY <2>1, <2>2, <3>1, <3>2 DEF SignIn, StoreNew, StoreOver, SignInFails
  <2>3. CASE Authenticate(r)
    BY <2>0, <2>3 DEF Authenticate, Retrieve, RetrieveUnreadable, Validate, Reject, requestVars
  <2>4. CASE Serve(r)
    BY <1>3, <2>0, <2>4 DEF Serve, Pass, UseCached, Redeem, RedeemFails, StoreTicket, requestVars
  <2>5. CASE LogOut(r)
    BY <2>0, <2>1, <2>5 DEF LogOut, Logout, Revoke, RevokeFails, Remove, requestVars
  <2> QED
    BY <2>1, <2>2, <2>3, <2>4, <2>5 DEF Step, Respond, Abort
<1>5. Provider
  <2>0. /\ issued \in 0..MaxTokens
        /\ usable \in SUBSET Tokens
        /\ cached \in SUBSET Tokens
        /\ known \in SUBSET SessionIds
    BY DEF TypeOK
  <2>1. issued < MaxTokens => issued + 1 \in 0..MaxTokens
    BY <2>0, BoundAssumption
  <2>2. CASE SignIn(r)
    BY <1>3, <2>0, <2>1, <2>2 DEF SignIn, TokenValidated, StoreNew, StoreCollides, StoreOver, SignInFails, providerVars, historyVars
  <2>3. CASE Authenticate(r)
    BY <2>0, <2>3 DEF Authenticate, Retrieve, RetrieveUnreadable, Validate, Reject, providerVars, historyVars
  <2>4. CASE Redeem(r)
    BY <1>3, <2>0, <2>1, <2>4 DEF Redeem, historyVars
  <2>5. CASE StoreTicket(r)
    BY <2>0, <2>5 DEF StoreTicket, historyVars, RedeemedInv
  <2>6. CASE Serve(r)
    BY <2>0, <2>4, <2>5, <2>6 DEF Serve, Pass, UseCached, RedeemFails, providerVars, historyVars
  <2>7. CASE LogOut(r)
    BY <2>0, <2>7 DEF LogOut, Logout, Revoke, RevokeFails, Remove, providerVars, historyVars
  <2> QED
    BY <2>0, <2>2, <2>3, <2>6, <2>7 DEF Step, Respond, Abort, providerVars, historyVars
<1>6. RedeemedInv'
  <2>1. \A q \in Requests : q # r => pc'[q] = pc[q] /\ copy'[q] = copy[q]
    <3>1. \A q \in Requests : q # r => copy'[q] = copy[q]
      BY CopyStep DEF TypeOK
    <3>2. UNCHANGED pc \/ \E place \in Places : Goto(r, place)
      <4> USE PlaceFacts
      <4>1. SignIn(r) => UNCHANGED pc \/ Goto(r, "signingIn") \/ Goto(r, "idle")
        BY DEF SignIn, TokenValidated, StoreNew, StoreCollides, StoreOver, SignInFails, End
      <4>2. Authenticate(r) => UNCHANGED pc \/ \E place \in Places : Goto(r, place)
        BY DEF Authenticate, Retrieve, RetrieveUnreadable, Validate, Reject
      <4>3. Serve(r) => Goto(r, "responding") \/ Goto(r, "storing")
        BY DEF Serve, Pass, UseCached, Redeem, RedeemFails, StoreTicket
      <4>4. LogOut(r) => \E place \in Places : Goto(r, place)
        BY DEF LogOut, Logout, Revoke, RevokeFails, Remove, End
      <4>5. Respond(r) \/ Abort(r) => Goto(r, "idle")
        BY DEF Respond, Abort, End
      <4> QED
        BY <4>1, <4>2, <4>3, <4>4, <4>5 DEF Step
    <3>3. \A q \in Requests : q # r => pc'[q] = pc[q]
      BY <3>2 DEF TypeOK, Goto
    <3> QED
      BY <3>1, <3>3
  <2>2. pc'[r] = "storing" => copy'[r].token \in Tokens
    <3> USE DEF Goto, TypeOK
    <3>1. End(r) => pc'[r] # "storing"
      BY DEF End
    <3>2. SignIn(r) => pc'[r] # "storing"
      BY <3>1 DEF SignIn, TokenValidated, StoreNew, StoreCollides, StoreOver, SignInFails
    <3>3. Authenticate(r) => pc'[r] # "storing" \/ RetrieveUnreadable(r)
      BY DEF Authenticate, Retrieve, Validate, Reject
    <3>4. RetrieveUnreadable(r) => pc'[r] # "storing"
      BY DEF RetrieveUnreadable
    <3>5. Serve(r) => pc'[r] # "storing" \/ (copy[r].token \in Tokens /\ UNCHANGED copy)
      BY DEF Serve, Pass, UseCached, Redeem, RedeemFails, StoreTicket, requestVars
    <3>6. LogOut(r) => pc'[r] # "storing"
      BY <3>1 DEF LogOut, Logout, Revoke, RevokeFails, Remove
    <3> QED
      BY <3>1, <3>2, <3>3, <3>4, <3>5, <3>6 DEF Step, Respond, Abort
  <2> QED
    BY <2>1, <2>2 DEF RedeemedInv
<1> QED
  BY <1>1, <1>2, <1>4, <1>5, <1>6 DEF TypeOK

\* So does the passing of time, and the expiry of a cached result.
LEMMA NextTypeOK == TypeOK /\ RedeemedInv /\ [Next]_vars => TypeOK' /\ RedeemedInv'
<1> SUFFICES ASSUME TypeOK, RedeemedInv, [Next]_vars PROVE TypeOK' /\ RedeemedInv'
  OBVIOUS
<1>1. CASE Tick
  <2>1. store' \in [SessionIds -> [ticket : Ticket, ttl : 0..IdleLifetime]]
    BY <1>1, AgeEntryFacts DEF Tick, TypeOK
  <2>2. /\ copy' \in [Requests -> Ticket]
        /\ \A r \in Requests : copy'[r].token = copy[r].token
    BY <1>1, AgeFacts DEF Tick, TypeOK
  <2>3. life' \in [Tokens -> 0..AbsoluteLifetime]
    BY <1>1, LifetimeAssumption DEF Tick, TypeOK, OneLess
  <2> QED
    BY <1>1, <2>1, <2>2, <2>3 DEF Tick, TypeOK, RedeemedInv, providerVars
<1>2. CASE ResultExpires
  BY <1>2 DEF ResultExpires, TypeOK, RedeemedInv, requestVars, historyVars
<1>3. CASE \E r \in Requests : Step(r)
  BY <1>3, StepTypeOK
<1>4. CASE UNCHANGED vars
  BY <1>4 DEF vars, providerVars, requestVars, historyVars, TypeOK, RedeemedInv
<1> QED
  BY <1>1, <1>2, <1>3, <1>4 DEF Next

-----------------------------------------------------------------------------
(***************************************************************************)
(* The absolute lifetime.                                                  *)
(***************************************************************************)
\* Whatever a request does, no login has less lifetime left after it.
LEMMA LifeKept ==
  ASSUME TypeOK, NEW r \in Requests, Step(r), NEW t \in Ticket, Bounded(t)
  PROVE  Bounded(t)'
<1>1. \A u \in Tokens : life'[u] \in Nat /\ life[u] \in Nat /\ life[u] <= life'[u]
  BY CopyStep, LifetimeAssumption DEF TypeOK
<1> QED
  BY <1>1 DEF Bounded, Ticket

\* Every step of a request keeps the copies and the entries bounded: what it writes
\* back, it holds a bounded copy of.
LEMMA StepBounded ==
  ASSUME Inv, NEW r \in Requests, Step(r)
  PROVE  CopyInv' /\ StoreInv'
<1> USE DEF Inv
<1>1. CopyInv'
  <2>1. PICK t \in Ticket :
          /\ copy' = [copy EXCEPT ![r] = t]
          /\ \/ t \in {copy[r], NoTicket} /\ UNCHANGED life
             \/ \E k \in SessionIds : Live(k) /\ t = store[k].ticket /\ UNCHANGED life
             \/ /\ issued + 1 \in Tokens
                /\ t = Issue(issued + 1)
                /\ life' = [life EXCEPT ![issued + 1] = AbsoluteLifetime]
    BY CopyStep
  <2>2. Bounded(t)'
    <3>1. CASE t \in {copy[r], NoTicket} /\ UNCHANGED life
      BY <3>1, NoTicketFacts DEF CopyInv, Bounded
    <3>2. CASE \E k \in SessionIds : Live(k) /\ t = store[k].ticket /\ UNCHANGED life
      BY <3>2 DEF StoreInv, Bounded
    <3>3. CASE /\ issued + 1 \in Tokens
               /\ t = Issue(issued + 1)
               /\ life' = [life EXCEPT ![issued + 1] = AbsoluteLifetime]
      BY <3>3, IssueFacts, LifetimeAssumption DEF Bounded, TypeOK
    <3> QED
      BY <2>1, <3>1, <3>2, <3>3
  <2>3. \A q \in Requests : q # r => Bounded(copy[q])'
    BY <2>1, LifeKept DEF CopyInv, TypeOK, Bounded
  <2> QED
    BY <2>1, <2>2, <2>3 DEF CopyInv, TypeOK, Bounded
<1>2. StoreInv'
  <2>0. ASSUME NEW k \in SessionIds, store'[k] = store[k], Live(k)
        PROVE  Bounded(store[k].ticket)' /\ store'[k].ttl <= store'[k].ticket.abs
    BY <2>0, LifeKept DEF StoreInv, TypeOK, Bounded
  <2>1. CASE UNCHANGED store
    BY <2>0, <2>1 DEF StoreInv, Live
  <2>2. CASE Removes
    BY <2>0, <2>2, NoTicketFacts DEF StoreInv, Live, Removes, TypeOK
  <2>3. CASE WritesCopy(r)
    <3>1. PICK k \in SessionIds, t \in Ticket :
            /\ store' = [store EXCEPT ![k] = Entry(t)]
            /\ t.login = copy[r].login
            /\ t.abs = copy[r].abs
      BY <2>3 DEF WritesCopy
    <3>2. Bounded(t)
      BY <3>1 DEF CopyInv, Bounded
    <3>3. Bounded(t)'
      BY <3>2, LifeKept
    <3>4. store'[k].ticket = t /\ store'[k].ttl <= t.abs
      BY <3>1, EntryFacts DEF TypeOK
    <3>5. \A j \in SessionIds : j # k => store'[j] = store[j]
      BY <3>1 DEF TypeOK
    <3>6. \A j \in SessionIds : j # k /\ Live(j)' =>
            Bounded(store[j].ticket)' /\ store'[j].ttl <= store'[j].ticket.abs
      BY <2>0, <3>5 DEF Live
    <3>7. Bounded(store[k].ticket)'
      BY <3>3, <3>4 DEF Bounded
    <3> QED
      BY <3>4, <3>6, <3>7 DEF StoreInv
  <2> QED
    BY <2>1, <2>2, <2>3, StoreStep
<1> QED
  BY <1>1, <1>2

\* Time passes alike for copies, entries and logins.
LEMMA TickBounded == Inv /\ Tick => CopyInv' /\ StoreInv'
<1> SUFFICES ASSUME Inv, Tick PROVE CopyInv' /\ StoreInv'
  OBVIOUS
<1> USE DEF Inv
<1>1. ASSUME NEW t \in Ticket, Bounded(t)
      PROVE  Age(t).abs > 0 => Age(t).login \in Tokens /\ Age(t).abs <= life'[Age(t).login]
  <2>1. Age(t).login = t.login /\ Age(t).abs = OneLess(t.abs) /\ t.abs \in 0..AbsoluteLifetime
    BY AgeFacts DEF Ticket
  <2>2. \A u \in Tokens : life[u] \in 0..AbsoluteLifetime /\ life'[u] = OneLess(life[u])
    BY DEF Tick, TypeOK
  <2> QED
    BY <1>1, <2>1, <2>2, LifetimeAssumption DEF Bounded, OneLess
<1>2. CopyInv'
  <2>1. \A r \in Requests : copy[r] \in Ticket /\ copy'[r] = Age(copy[r])
    BY DEF Tick, TypeOK
  <2> QED
    BY <1>1, <2>1 DEF CopyInv, Bounded
<1>3. StoreInv'
  <2> SUFFICES ASSUME NEW k \in SessionIds, Live(k)'
               PROVE  Bounded(store[k].ticket)' /\ store'[k].ttl <= store'[k].ticket.abs
    BY DEF StoreInv
  <2>1. store'[k] = AgeEntry(store[k]) /\ store[k] \in [ticket : Ticket, ttl : 0..IdleLifetime]
    BY DEF Tick, TypeOK
  <2>2. /\ store'[k].ticket = Age(store[k].ticket)
        /\ store'[k].ttl = store[k].ttl - 1
        /\ store[k].ttl > 1
    BY <2>1, AgeEntryFacts DEF Live
  <2>3. /\ store[k].ticket \in Ticket
        /\ Bounded(store[k].ticket)
        /\ store[k].ttl <= store[k].ticket.abs
        /\ store[k].ttl \in 0..IdleLifetime
    BY <2>1, <2>2, LifetimeAssumption DEF StoreInv, Live
  <2>4. store'[k].ticket.abs = OneLess(store[k].ticket.abs)
        /\ store[k].ticket.abs \in 0..AbsoluteLifetime
    BY <2>2, <2>3, AgeFacts DEF Ticket
  <2>5. store'[k].ttl <= store'[k].ticket.abs
    BY <2>2, <2>3, <2>4, LifetimeAssumption DEF OneLess
  <2> QED
    BY <1>1, <2>2, <2>3, <2>5 DEF Bounded
<1> QED
  BY <1>2, <1>3

\* Inv is inductive.
THEOREM Inductive == Safety => []Inv
<1>1. Init => Inv
  BY InitTypeOK, NoTicketFacts DEF Init, Inv, CopyInv, StoreInv, Bounded, Live
<1>2. Inv /\ [Next]_vars => Inv'
  <2> SUFFICES ASSUME Inv, [Next]_vars PROVE Inv'
    OBVIOUS
  <2>1. TypeOK' /\ RedeemedInv'
    BY NextTypeOK DEF Inv
  <2>2. CopyInv' /\ StoreInv'
    <3>1. CASE ResultExpires
      BY <3>1 DEF ResultExpires, requestVars, historyVars, Inv, CopyInv, StoreInv, Bounded, Live
    <3>2. CASE UNCHANGED vars
      BY <3>2 DEF vars, requestVars, historyVars, Inv, CopyInv, StoreInv, Bounded, Live
    <3> QED
      BY <3>1, <3>2, StepBounded, TickBounded DEF Next
  <2> QED
    BY <2>1, <2>2 DEF Inv
<1> QED
  BY <1>1, <1>2, PTL DEF Safety

\* TypeOK: every variable keeps to its type.
THEOREM TypeCorrect == Spec => []TypeOK
<1>1. Inv => TypeOK
  BY DEF Inv
<1> QED
  BY <1>1, Inductive, PTL DEF Spec

\* WithinAbsolute: no session outlives the absolute lifetime of the login its
\* ticket is from, however often RedisTicketStore renews it.
THEOREM AbsoluteLifetimeHolds == Spec => []WithinAbsolute
<1>1. Inv => WithinAbsolute
  <2> SUFFICES ASSUME Inv, NEW k \in SessionIds, Live(k)
               PROVE  store[k].ttl <= life[store[k].ticket.login]
    BY DEF WithinAbsolute
  <2>1. /\ store[k].ttl \in 0..IdleLifetime
        /\ store[k].ticket \in Ticket
        /\ Bounded(store[k].ticket)
        /\ store[k].ttl <= store[k].ticket.abs
    BY DEF Inv, StoreInv, TypeOK
  <2>2. store[k].ticket.abs \in 0..AbsoluteLifetime
    BY <2>1 DEF Ticket
  <2>3. \A u \in Tokens : life[u] \in 0..AbsoluteLifetime
    BY DEF Inv, TypeOK
  <2> QED
    BY <2>1, <2>2, <2>3, LifetimeAssumption DEF Live, Bounded
<1> QED
  BY <1>1, Inductive, PTL DEF Spec

\* EndedStaysEnded: RenewAsync writes with When.Exists and StoreAsync under a new
\* identifier, so no request brings a session back.
THEOREM SessionsStayEnded == Spec => EndedStaysEnded
<1>1. Inv /\ [Next]_vars => [\A k \in known : ~Live(k) => ~Live(k)']_vars
  <2> SUFFICES ASSUME Inv, Next, NEW k \in known, ~Live(k) PROVE ~Live(k)'
    BY DEF vars
  <2>0. k \in SessionIds /\ store[k] \in [ticket : Ticket, ttl : 0..IdleLifetime]
    BY DEF Inv, TypeOK
  <2>1. CASE Tick
    <3>1. store'[k] = AgeEntry(store[k])
      BY <2>0, <2>1 DEF Tick
    <3>2. ~(store'[k].ttl > 0)
      BY <2>0, <3>1, AgeEntryFacts, LifetimeAssumption DEF Live
    <3> QED
      BY <3>2 DEF Live
  <2>2. CASE ResultExpires
    BY <2>2 DEF ResultExpires, Live
  <2>3. CASE \E r \in Requests : Step(r)
    BY <2>0, <2>3, StoreStep, NoTicketFacts DEF Inv, TypeOK, Live, Removes, WritesCopy
  <2> QED
    BY <2>1, <2>2, <2>3 DEF Next
<1> QED
  BY <1>1, Inductive, PTL DEF Spec, Safety, EndedStaysEnded

-----------------------------------------------------------------------------
(***************************************************************************)
(* The refinement of LimitedSessions.                                      *)
(***************************************************************************)
\* The login of the session k names, as ImplementsSessions has it.
Owner(k) == IF Live(k) THEN store[k].ticket.login ELSE NoToken
Owners == [k \in SessionIds |-> Owner(k)]

\* A bounded ticket with some lifetime left is written under an identifier that names a
\* session or never did.
WritesBounded ==
  \E k \in SessionIds, t \in Ticket :
    /\ store' = [store EXCEPT ![k] = Entry(t)]
    /\ Bounded(t) /\ RemainingLifetime(t) > 0
    /\ \/ Live(k) /\ UNCHANGED known
       \/ k \notin known /\ known' = known \cup {k}

\* What the steps of a request do to what the abstract sessions see.
LEMMA StepEffect ==
  ASSUME Inv, NEW r \in Requests, Step(r)
  PROVE  \/ UNCHANGED <<store, issued, known, life>>
         \/ /\ issued < MaxTokens /\ issued' = issued + 1
            /\ life' \in {life, [life EXCEPT ![issued + 1] = AbsoluteLifetime]}
            /\ UNCHANGED <<store, known>>
         \/ Removes /\ UNCHANGED <<issued, known, life>>
         \/ WritesBounded /\ UNCHANGED <<issued, life>>
<1>0. /\ TypeOK /\ copy[r] \in Ticket /\ Bounded(copy[r])
      /\ fresh[r] \in Tokens \cup {NoToken}
      /\ session[r] \in SessionIds \cup {NoSession}
  BY DEF Inv, TypeOK, CopyInv
<1>1. CASE SignIn(r)
  <2>1. CASE StoreNew(r)
    BY <1>0, <2>1 DEF StoreNew, WritesBounded, providerVars
  <2>2. CASE StoreOver(r)
    BY <1>0, <2>2 DEF StoreOver, CanRenew, WritesBounded, providerVars, historyVars
  <2>3. CASE TokenValidated(r)
    BY <2>3 DEF TokenValidated
  <2>4. CASE StoreCollides(r) \/ SignInFails(r)
    BY <2>4 DEF StoreCollides, SignInFails, providerVars, historyVars
  <2> QED
    BY <1>1, <2>1, <2>2, <2>3, <2>4 DEF SignIn
<1>2. CASE Authenticate(r)
  BY <1>2 DEF Authenticate, Retrieve, RetrieveUnreadable, Validate, Reject, Removes, providerVars, historyVars
<1>3. CASE Serve(r)
  <2>1. CASE StoreTicket(r)
    <3> DEFINE renewed == [Renewed(copy[r]) EXCEPT !.token = fresh[r]]
    <3>1. renewed \in Ticket /\ renewed.login = copy[r].login /\ renewed.abs = copy[r].abs
      BY <1>0, RenewedFacts
    <3>2. /\ \/ UNCHANGED store
             \/ /\ Live(session[r]) /\ RemainingLifetime(renewed) > 0
                /\ store' = [store EXCEPT ![session[r]] = Entry(renewed)]
          /\ UNCHANGED <<issued, known, life>>
      BY <2>1 DEF StoreTicket, CanRenew, historyVars
    <3>3. Bounded(renewed)
      BY <1>0, <3>1 DEF Bounded
    <3> HIDE DEF renewed
    <3> QED
      BY <1>0, <3>1, <3>2, <3>3, NoSessionUpdate DEF WritesBounded
  <2>2. CASE Redeem(r)
    BY <2>2 DEF Redeem, historyVars
  <2>3. CASE Pass(r) \/ UseCached(r) \/ RedeemFails(r)
    BY <2>3 DEF Pass, UseCached, RedeemFails, providerVars, historyVars
  <2> QED
    BY <1>3, <2>1, <2>2, <2>3 DEF Serve
<1>4. CASE LogOut(r)
  <2>1. CASE Remove(r)
    BY <1>0, <2>1, NoSessionUpdate DEF Remove, Removes, providerVars, historyVars
  <2>2. CASE Logout(r) \/ Revoke(r) \/ RevokeFails(r)
    BY <2>2 DEF Logout, Revoke, RevokeFails, providerVars, historyVars
  <2> QED
    BY <1>4, <2>1, <2>2 DEF LogOut
<1>5. CASE Respond(r)
  <2> DEFINE renewed == Renewed(copy[r])
  <2>1. renewed \in Ticket /\ renewed.login = copy[r].login /\ renewed.abs = copy[r].abs
    BY <1>0, RenewedFacts
  <2>2. /\ \/ UNCHANGED store
           \/ /\ Live(session[r]) /\ RemainingLifetime(renewed) > 0
              /\ store' = [store EXCEPT ![session[r]] = Entry(renewed)]
        /\ UNCHANGED <<issued, known, life>>
    BY <1>5 DEF Respond, CanRenew, providerVars, historyVars
  <2>3. Bounded(renewed)
    BY <1>0, <2>1 DEF Bounded
  <2> HIDE DEF renewed
  <2> QED
    BY <1>0, <2>1, <2>2, <2>3, NoSessionUpdate DEF WritesBounded
<1>6. CASE Abort(r)
  BY <1>6 DEF Abort, providerVars, historyVars
<1> QED
  BY <1>1, <1>2, <1>3, <1>4, <1>5, <1>6 DEF Step

\* A session there is belongs to a login with some lifetime left.
LEMMA LiveIsOwned ==
  ASSUME Inv, NEW k \in SessionIds, Live(k)
  PROVE  /\ Owner(k) = store[k].ticket.login /\ Owner(k) \in Tokens
         /\ store[k].ttl <= life[Owner(k)]
<1>1. /\ store[k].ticket \in Ticket /\ Bounded(store[k].ticket)
      /\ store[k].ttl \in 0..IdleLifetime /\ store[k].ttl <= store[k].ticket.abs
  BY DEF Inv, StoreInv, TypeOK
<1>2. store[k].ticket.abs \in 0..AbsoluteLifetime
  BY <1>1 DEF Ticket
<1>3. store[k].ticket.abs > 0
  BY <1>1, <1>2, LifetimeAssumption DEF Live
<1>4. \A u \in Tokens : life[u] \in 0..AbsoluteLifetime
  BY DEF Inv, TypeOK
<1>5. Owner(k) = store[k].ticket.login
  BY DEF Owner
<1> QED
  BY <1>1, <1>2, <1>3, <1>4, <1>5, LifetimeAssumption DEF Bounded

LEMMA SessionStep ==
  ASSUME Inv, Inv', [Next]_vars
  PROVE  [Sessions!Next]_(Sessions!sessionVars)
<1> DEFINE Spare == (issued + 1)..MaxTokens
<1>0. /\ issued \in 0..MaxTokens /\ MaxTokens \in Nat
      /\ store \in [SessionIds -> [ticket : Ticket, ttl : 0..IdleLifetime]]
      /\ life \in [Tokens -> 0..AbsoluteLifetime]
  BY BoundAssumption DEF Inv, TypeOK
<1>e. ASSUME UNCHANGED store PROVE Owners' = Owners
  BY <1>e DEF Owners, Owner, Live
<1>s. ASSUME Owners' = Owners, UNCHANGED <<issued, known, life>>
      PROVE  [Sessions!Next]_(Sessions!sessionVars)
  BY <1>s DEF Sessions!sessionVars, Owners, Owner
<1>1. CASE Tick
  <2>1. /\ store' = [k \in SessionIds |-> AgeEntry(store[k])]
        /\ life' = [t \in Tokens |-> OneLess(life[t])]
        /\ UNCHANGED <<issued, known>>
    BY <1>1 DEF Tick, providerVars
  <2> DEFINE kept == {k \in SessionIds : Live(k)'}
  <2>2. \A k \in kept : Owners[k] # NoToken /\ life[Owners[k]] > 1 /\ Owner(k)' = Owners[k]
    <3> SUFFICES ASSUME NEW k \in SessionIds, Live(k)'
                 PROVE  Owner(k) # NoToken /\ life[Owner(k)] > 1 /\ Owner(k)' = Owner(k)
      BY DEF Owners
    <3>1. /\ store'[k].ticket = Age(store[k].ticket) /\ store[k].ttl > 1
      BY <1>0, <2>1, AgeEntryFacts DEF Live
    <3>2. store[k].ttl \in Nat /\ Live(k) /\ store[k].ticket \in Ticket
      BY <1>0, <3>1, LifetimeAssumption DEF Live
    <3>3. Owner(k) \in Tokens /\ store[k].ttl <= life[Owner(k)] /\ Owner(k) = store[k].ticket.login
      BY <3>2, LiveIsOwned
    <3>4. Owner(k)' = store[k].ticket.login
      BY <3>1, <3>2, AgeFacts DEF Owner
    <3>5. life[Owner(k)] \in Nat
      BY <1>0, <3>3, LifetimeAssumption
    <3> QED
      BY <3>1, <3>2, <3>3, <3>4, <3>5 DEF Tokens, NoToken
  <2>3. Owners' = [k \in SessionIds |-> IF k \in kept THEN Owners[k] ELSE NoToken]
    BY <2>2 DEF Owners, Owner
  <2>4. kept \in SUBSET {k \in SessionIds : Owners[k] # NoToken /\ life[Owners[k]] > 1}
    BY <2>2
  <2>5. life' = [t \in Tokens |-> IF life[t] > 0 THEN life[t] - 1 ELSE 0]
    BY <2>1 DEF OneLess
  <2> HIDE DEF kept
  <2>6. Sessions!Pass
    BY <2>1, <2>3, <2>4, <2>5 DEF Sessions!Pass, Owners, Owner
  <2> QED
    BY <2>6 DEF Sessions!Next
<1>2. ASSUME NEW r \in Requests, Step(r) PROVE [Sessions!Next]_(Sessions!sessionVars)
  <2>1. CASE UNCHANGED <<store, issued, known, life>>
    BY <1>e, <1>s, <2>1
  <2>2. CASE /\ issued < MaxTokens /\ issued' = issued + 1
             /\ life' \in {life, [life EXCEPT ![issued + 1] = AbsoluteLifetime]}
             /\ UNCHANGED <<store, known>>
    <3>1. issued + 1 \in Tokens /\ issued + 1 \in Spare /\ Spare' = Spare \ {issued + 1}
      BY <1>0, <2>2 DEF Tokens
    <3>2. Owners' = Owners
      BY <1>e, <2>2
    <3>3. Sessions!LogIn(issued + 1)
      BY <2>2, <3>1, <3>2 DEF Sessions!LogIn, Owners, Owner
    <3> QED
      BY <3>1, <3>3 DEF Sessions!Next
  <2>3. CASE Removes /\ UNCHANGED <<issued, known, life>>
    <3>1. PICK k \in SessionIds : store' = [store EXCEPT ![k] = NoEntry]
      BY <2>3 DEF Removes
    <3>2. Owner(k)' = NoToken /\ \A j \in SessionIds : j # k => Owner(j)' = Owner(j)
      BY <1>0, <3>1, NoTicketFacts DEF Owner, Live
    <3>3. Owners' = [Owners EXCEPT ![k] = NoToken]
      BY <3>2 DEF Owners
    <3>4. Sessions!Finish(k)
      BY <2>3, <3>3 DEF Sessions!Finish, Owners, Owner
    <3> QED
      BY <3>4 DEF Sessions!Next
  <2>4. CASE WritesBounded /\ UNCHANGED <<issued, life>>
    <3>1. PICK k \in SessionIds, t \in Ticket :
            /\ store' = [store EXCEPT ![k] = Entry(t)]
            /\ Bounded(t) /\ RemainingLifetime(t) > 0
            /\ \/ Live(k) /\ UNCHANGED known
               \/ k \notin known /\ known' = known \cup {k}
      BY <2>4 DEF WritesBounded
    <3>2. t.abs \in Nat /\ t.idle \in Nat
      BY LifetimeAssumption DEF Ticket
    <3>3. t.abs > 0
      BY <3>1, <3>2 DEF RemainingLifetime
    <3>4. t.login \in Tokens /\ life[t.login] > 0
      <4>1. t.login \in Tokens /\ t.abs <= life[t.login]
        BY <3>1, <3>3 DEF Bounded
      <4>2. life[t.login] \in Nat
        BY <1>0, <4>1, LifetimeAssumption
      <4> QED
        BY <3>2, <3>3, <4>1, <4>2
    <3>5. store'[k] = Entry(t) /\ \A j \in SessionIds : j # k => store'[j] = store[j]
      BY <1>0, <3>1
    <3>6. Owner(k)' = t.login
      BY <3>1, <3>5, EntryFacts DEF Owner, Live
    <3>7. \A j \in SessionIds : j # k => Owner(j)' = Owner(j)
      BY <3>5 DEF Owner, Live
    <3>8. Owners' = [Owners EXCEPT ![k] = t.login]
      BY <3>6, <3>7 DEF Owners
    <3>9. CASE Live(k) /\ UNCHANGED known
      <4>1. Owners[k] # NoToken
        BY <3>9, LiveIsOwned DEF Owners, Tokens, NoToken
      <4>2. Sessions!TakeOver(k, t.login)
        BY <2>4, <3>4, <3>8, <3>9, <4>1 DEF Sessions!TakeOver, Owners, Owner
      <4> QED
        BY <3>4, <4>2 DEF Sessions!Next
    <3>10. CASE k \notin known /\ known' = known \cup {k}
      <4>1. Sessions!Begin(k, t.login)
        BY <2>4, <3>4, <3>8, <3>10 DEF Sessions!Begin, Owners, Owner
      <4> QED
        BY <3>4, <4>1 DEF Sessions!Next
    <3> QED
      BY <3>1, <3>9, <3>10
  <2> QED
    BY <1>2, <2>1, <2>2, <2>3, <2>4, StepEffect
<1>3. CASE ResultExpires \/ UNCHANGED vars
  BY <1>3, <1>e, <1>s DEF ResultExpires, requestVars, historyVars, vars, providerVars
<1> QED
  BY <1>1, <1>2, <1>3 DEF Next

\* ImplementsSessions: whatever requests hold of old tickets, the sessions in the store
\* are sessions bounded by their logins (RedisTicketStore with the cookie handler).
THEOREM SessionsImplemented == Spec => ImplementsSessions
<1>1. Init => Sessions!Init
  <2> SUFFICES ASSUME Init PROVE Sessions!Init
    OBVIOUS
  <2>1. \A k \in SessionIds : ~Live(k)
    BY NoTicketFacts DEF Init, Live
  <2>2. (issued + 1)..MaxTokens = Tokens
    BY BoundAssumption DEF Init, Tokens
  <2> QED
    BY <2>1, <2>2 DEF Init, Sessions!Init
<1>2. Inv /\ Inv' /\ [Next]_vars => [Sessions!Next]_(Sessions!sessionVars)
  BY SessionStep
<1> QED
  BY <1>1, <1>2, Inductive, PTL DEF Spec, Safety, ImplementsSessions, Sessions!Spec
=============================================================================
