--------------------------- MODULE BrowserSession ---------------------------
(***************************************************************************)
(* Browser sessions: the tickets RedisTicketStore keeps, the cookie and    *)
(* OpenID Connect events of Program.cs that create, validate, renew and    *)
(* remove them, and logout.                                                *)
(*                                                                         *)
(* A ticket holds the login it came from, a refresh token, and the ticks   *)
(* left to its idle expiry (ExpiresUtc) and to its absolute expiry; the    *)
(* Redis entry has a time-to-live besides.  A request works on the copy of *)
(* the ticket it read.  Refresh tokens are numbered in the order the       *)
(* provider issues them, and a login is named by its first token.          *)
(*                                                                         *)
(* Refreshes of one login run one at a time, which TokenRefresh shows of   *)
(* calls that stay within their lease; the result cache is the set of the  *)
(* spent tokens whose result it still holds.                               *)
(***************************************************************************)
EXTENDS Integers

CONSTANTS
  Requests,          \* concurrent requests, on any instance
  SessionIds,        \* the random 32-byte identifiers
  NoSession,         \* the identifier of a request that has no session
  IdleLifetime,      \* settings.IdleLifetime, in ticks
  AbsoluteLifetime,  \* settings.AbsoluteLifetime, in ticks
  MaxTokens,         \* bound: the provider issues this many refresh tokens
  MaxAttempts        \* StoreAsync tries this many identifiers

ASSUME NoSessionAssumption == NoSession \notin SessionIds
ASSUME LifetimeAssumption == /\ IdleLifetime \in Nat \ {0}
                             /\ AbsoluteLifetime \in Nat \ {0}
ASSUME BoundAssumption == MaxTokens \in Nat /\ MaxAttempts \in Nat \ {0}

VARIABLES
  store,     \* the Redis entries
  issued,    \* how many refresh tokens the provider has issued
  usable,    \* the refresh tokens the provider accepts
  cached,    \* spent tokens whose refresh result is in the result cache
  pc,        \* where each request is
  session,   \* the session identifiers of the requests, once they have one
  copy,      \* the ticket each request read, or is about to store
  fresh,     \* the refresh token each request has just obtained
  sliding,   \* the requests whose response is to renew the ticket
  attempts,  \* the identifiers each sign-in has tried in vain
  known,     \* history: session identifiers that were ever stored
  life       \* history: ticks left of the absolute lifetime of each login

providerVars == <<issued, usable, cached>>
requestVars == <<session, copy, fresh, attempts>>
historyVars == <<known, life>>
vars == <<store, providerVars, pc, requestVars, sliding, historyVars>>

-----------------------------------------------------------------------------
Tokens == 1..MaxTokens
NoToken == 0

Ticket == [login : Tokens \cup {NoToken}, token : Tokens \cup {NoToken},
           idle : 0..IdleLifetime, abs : 0..AbsoluteLifetime]
NoTicket == [login |-> NoToken, token |-> NoToken, idle |-> 0, abs |-> 0]
NoEntry == [ticket |-> NoTicket, ttl |-> 0]

Places == {"idle", "read", "accepted", "storing", "revoking", "removing",
           "signingIn", "responding"}

Live(k) == store[k].ttl > 0
Goto(r, place) == pc' = [pc EXCEPT ![r] = place]

\* Mutant: the absolute expiry does not count.
RemainingIdle(t) == t.idle

\* What is left up to the nearer of the two expiries.
RemainingLifetime(t) == IF t.abs < t.idle THEN t.abs ELSE t.idle

Entry(t) == [ticket |-> t, ttl |-> RemainingLifetime(t)]

\* Mutant: the SET is made without When.Exists.
CanRenewAnything(k, t) == RemainingLifetime(t) > 0

\* RenewAsync writes only over an entry that exists, and only a ticket with some
\* lifetime left; otherwise it throws.
CanRenew(k, t) == RemainingLifetime(t) > 0 /\ Live(k)

\* A ticket issued anew, and the ticket of a renewal: the idle window starts
\* again, the absolute expiry stays.
Issue(token) == [login |-> token, token |-> token,
                 idle |-> IdleLifetime, abs |-> AbsoluteLifetime]
Renewed(t) == [t EXCEPT !.idle = IdleLifetime]

\* The cookie handler renews once more of the idle window has gone by than is left.
SlidingDue(t) == t.idle < IdleLifetime - t.idle

Init ==
  /\ store = [k \in SessionIds |-> NoEntry]
  /\ issued = 0
  /\ usable = {}
  /\ cached = {}
  /\ pc = [r \in Requests |-> "idle"]
  /\ session = [r \in Requests |-> NoSession]
  /\ copy = [r \in Requests |-> NoTicket]
  /\ fresh = [r \in Requests |-> NoToken]
  /\ sliding = {}
  /\ attempts = [r \in Requests |-> 0]
  /\ known = {}
  /\ life = [t \in Tokens |-> 0]

\* A request that has ended carries nothing over to the next one.
End(r) ==
  /\ Goto(r, "idle")
  /\ session' = [session EXCEPT ![r] = NoSession]
  /\ copy' = [copy EXCEPT ![r] = NoTicket]
  /\ fresh' = [fresh EXCEPT ![r] = NoToken]
  /\ attempts' = [attempts EXCEPT ![r] = 0]
  /\ sliding' = sliding \ {r}

-----------------------------------------------------------------------------
(***************************************************************************)
(* Sign-in: the provider's callback issues a ticket.  A request whose      *)
(* cookie names a live session writes over that session's ticket, any      *)
(* other stores a new session.                                             *)
(***************************************************************************)
TokenValidated(r) ==
  /\ pc[r] = "idle"
  /\ issued < MaxTokens
  /\ issued' = issued + 1
  /\ usable' = usable \cup {issued + 1}
  /\ copy' = [copy EXCEPT ![r] = Issue(issued + 1)]
  /\ life' = [life EXCEPT ![issued + 1] = AbsoluteLifetime]
  /\ \/ UNCHANGED session
     \/ \E k \in SessionIds : Live(k) /\ session' = [session EXCEPT ![r] = k]
  /\ Goto(r, "signingIn")
  /\ UNCHANGED <<store, cached, fresh, sliding, attempts, known>>

\* StoreAsync: SET with When.NotExists under a random identifier succeeds.
StoreNew(r) ==
  /\ pc[r] = "signingIn"
  /\ session[r] = NoSession
  /\ RemainingLifetime(copy[r]) > 0
  /\ \E k \in SessionIds \ known :
       /\ store' = [store EXCEPT ![k] = Entry(copy[r])]
       /\ known' = known \cup {k}
  /\ End(r)
  /\ UNCHANGED <<providerVars, life>>

\* The identifier is taken: try another one, or throw after the last attempt.
StoreCollides(r) ==
  /\ pc[r] = "signingIn"
  /\ session[r] = NoSession
  /\ \E k \in SessionIds : Live(k)
  /\ \/ /\ attempts[r] + 1 < MaxAttempts
        /\ attempts' = [attempts EXCEPT ![r] = @ + 1]
        /\ UNCHANGED <<pc, session, copy, fresh, sliding>>
     \/ attempts[r] + 1 = MaxAttempts /\ End(r)
  /\ UNCHANGED <<store, providerVars, historyVars>>

StoreOver(r) ==
  /\ pc[r] = "signingIn"
  /\ session[r] # NoSession
  /\ CanRenew(session[r], copy[r])
  /\ store' = [store EXCEPT ![session[r]] = Entry(copy[r])]
  /\ End(r)
  /\ UNCHANGED <<providerVars, historyVars>>

\* The sign-in throws: the session it was to write over has gone, the ticket
\* has expired, or the request is aborted.
SignInFails(r) ==
  /\ pc[r] = "signingIn"
  /\ End(r)
  /\ UNCHANGED <<store, providerVars, historyVars>>

-----------------------------------------------------------------------------
(***************************************************************************)
(* An ordinary request: the ticket is retrieved, sliding is decided, and   *)
(* the principal is validated.                                             *)
(***************************************************************************)
Retrieve(r) ==
  /\ pc[r] = "idle"
  /\ \E k \in SessionIds :
       /\ Live(k)
       /\ session' = [session EXCEPT ![r] = k]
       /\ copy' = [copy EXCEPT ![r] = store[k].ticket]
       /\ sliding' = IF SlidingDue(store[k].ticket) THEN sliding \cup {r} ELSE sliding
  /\ Goto(r, "read")
  /\ UNCHANGED <<store, providerVars, fresh, attempts, historyVars>>

\* The payload cannot be unprotected any more: the entry is removed and the
\* request is anonymous.
RetrieveUnreadable(r) ==
  /\ pc[r] = "idle"
  /\ \E k \in SessionIds : Live(k) /\ store' = [store EXCEPT ![k] = NoEntry]
  /\ UNCHANGED <<providerVars, pc, requestVars, sliding, historyVars>>

Validate(r) ==
  /\ pc[r] = "read"
  /\ copy[r].abs > 0
  /\ Goto(r, "accepted")
  /\ UNCHANGED <<store, providerVars, requestVars, sliding, historyVars>>

Reject(r) ==
  /\ pc[r] = "read"
  /\ copy[r].abs = 0
  /\ Goto(r, "responding")
  /\ UNCHANGED <<store, providerVars, requestVars, sliding, historyVars>>

\* No refresh is due, or the request is refused before one.
Pass(r) ==
  /\ pc[r] = "accepted"
  /\ Goto(r, "responding")
  /\ UNCHANGED <<store, providerVars, requestVars, sliding, historyVars>>

-----------------------------------------------------------------------------
(***************************************************************************)
(* Refreshing the access token.                                            *)
(***************************************************************************)
UseCached(r) ==
  /\ pc[r] = "accepted"
  /\ copy[r].token \in cached
  /\ Goto(r, "responding")
  /\ UNCHANGED <<store, providerVars, requestVars, sliding, historyVars>>

Refreshing(login) == \E r \in Requests : pc[r] = "storing" /\ copy[r].login = login

Redeem(r) ==
  /\ pc[r] = "accepted"
  /\ copy[r].token \in usable \ cached
  /\ ~Refreshing(copy[r].login)
  /\ issued < MaxTokens
  /\ issued' = issued + 1
  /\ usable' = (usable \ {copy[r].token}) \cup {issued + 1}
  /\ fresh' = [fresh EXCEPT ![r] = issued + 1]
  /\ Goto(r, "storing")
  /\ UNCHANGED <<store, cached, session, copy, sliding, attempts, historyVars>>

\* The provider refuses the token or is out of reach: 401.
RedeemFails(r) ==
  /\ pc[r] = "accepted"
  /\ copy[r].token \notin cached
  /\ ~Refreshing(copy[r].login)
  /\ Goto(r, "responding")
  /\ UNCHANGED <<store, providerVars, requestVars, sliding, historyVars>>

\* Signing in again with the new token renews the entry; the response will not
\* slide.  The result is cached once that has succeeded.  The renewal may throw.
StoreTicket(r) ==
  LET renewed == [Renewed(copy[r]) EXCEPT !.token = fresh[r]]
  IN  /\ pc[r] = "storing"
      /\ sliding' = sliding \ {r}
      /\ \/ /\ CanRenew(session[r], renewed)
            /\ store' = [store EXCEPT ![session[r]] = Entry(renewed)]
            /\ cached' = cached \cup {copy[r].token}
         \/ UNCHANGED <<store, cached>>
      /\ Goto(r, "responding")
      /\ UNCHANGED <<issued, usable, requestVars, historyVars>>

\* A result lives for 30 seconds, less than a tick.
ResultExpires ==
  /\ \E t \in cached : cached' = cached \ {t}
  /\ UNCHANGED <<store, issued, usable, pc, requestVars, sliding, historyVars>>

-----------------------------------------------------------------------------
(***************************************************************************)
(* Logout: revoke the refresh token of the ticket, whatever comes of it    *)
(* sign out, which removes the entry.                                      *)
(***************************************************************************)
Logout(r) ==
  /\ pc[r] = "accepted"
  /\ Goto(r, "revoking")
  /\ UNCHANGED <<store, providerVars, requestVars, sliding, historyVars>>

Revoke(r) ==
  /\ pc[r] = "revoking"
  /\ usable' = usable \ {copy[r].token}
  /\ Goto(r, "removing")
  /\ UNCHANGED <<store, issued, cached, requestVars, sliding, historyVars>>

\* The failure is logged and swallowed.
RevokeFails(r) ==
  /\ pc[r] = "revoking"
  /\ Goto(r, "removing")
  /\ UNCHANGED <<store, providerVars, requestVars, sliding, historyVars>>

Remove(r) ==
  /\ pc[r] = "removing"
  /\ store' = [store EXCEPT ![session[r]] = NoEntry]
  /\ End(r)
  /\ UNCHANGED <<providerVars, historyVars>>

-----------------------------------------------------------------------------
\* The response starts; if sliding is due the copy of the ticket is renewed,
\* unless that throws or is aborted.
Respond(r) ==
  /\ pc[r] = "responding"
  /\ \/ /\ r \in sliding
        /\ CanRenew(session[r], Renewed(copy[r]))
        /\ store' = [store EXCEPT ![session[r]] = Entry(Renewed(copy[r]))]
     \/ UNCHANGED store
  /\ End(r)
  /\ UNCHANGED <<providerVars, historyVars>>

\* The instance stops or the client goes away: the request ends where it is.
Abort(r) ==
  /\ pc[r] # "idle"
  /\ End(r)
  /\ UNCHANGED <<store, providerVars, historyVars>>

OneLess(n) == IF n > 0 THEN n - 1 ELSE 0
Age(t) == [t EXCEPT !.idle = OneLess(@), !.abs = OneLess(@)]
AgeEntry(e) == IF e.ttl > 1 THEN [ticket |-> Age(e.ticket), ttl |-> e.ttl - 1] ELSE NoEntry

Tick ==
  /\ store' = [k \in SessionIds |-> AgeEntry(store[k])]
  /\ copy' = [r \in Requests |-> Age(copy[r])]
  /\ life' = [t \in Tokens |-> OneLess(life[t])]
  /\ UNCHANGED <<providerVars, pc, session, fresh, sliding, attempts, known>>

SignIn(r) == TokenValidated(r) \/ StoreNew(r) \/ StoreCollides(r) \/ StoreOver(r) \/ SignInFails(r)
Authenticate(r) == Retrieve(r) \/ RetrieveUnreadable(r) \/ Validate(r) \/ Reject(r)
Serve(r) == Pass(r) \/ UseCached(r) \/ Redeem(r) \/ RedeemFails(r) \/ StoreTicket(r)
LogOut(r) == Logout(r) \/ Revoke(r) \/ RevokeFails(r) \/ Remove(r)
Step(r) == SignIn(r) \/ Authenticate(r) \/ Serve(r) \/ LogOut(r) \/ Respond(r) \/ Abort(r)

Next == Tick \/ ResultExpires \/ \E r \in Requests : Step(r)

\* Redis time passes.
Fairness == WF_vars(Tick)

Safety == Init /\ [][Next]_vars
Spec == Safety /\ Fairness

-----------------------------------------------------------------------------
(***************************************************************************)
(* Properties.                                                             *)
(***************************************************************************)
TypeOK ==
  /\ store \in [SessionIds -> [ticket : Ticket,
                               ttl : 0..IdleLifetime]]
  /\ issued \in 0..MaxTokens
  /\ usable \in SUBSET Tokens
  /\ cached \in SUBSET Tokens
  /\ pc \in [Requests -> Places]
  /\ session \in [Requests -> SessionIds \cup {NoSession}]
  /\ copy \in [Requests -> Ticket]
  /\ fresh \in [Requests -> Tokens \cup {NoToken}]
  /\ sliding \in SUBSET Requests
  /\ attempts \in [Requests -> 0..MaxAttempts - 1]
  /\ known \in SUBSET SessionIds
  /\ life \in [Tokens -> 0..AbsoluteLifetime]

\* No session outlives the absolute lifetime of the login its ticket is from,
\* however often it is renewed, refreshed or written back.
WithinAbsolute ==
  \A k \in SessionIds : Live(k) => store[k].ttl <= life[store[k].ticket.login]

\* A session that was removed or has expired does not come back, whatever
\* renewals, refreshes and sign-ins that had read it are still in flight.
EndedStaysEnded ==
  [][\A k \in known : ~Live(k) => ~Live(k)']_vars

\* Every session ends, even one that is used all the time and whose requests are
\* already rejected: rejected requests slide, too.
EverySessionEnds == \A k \in SessionIds : Live(k) ~> ~Live(k)

\* The abstract session: what the owner of a live entry is, and the identifiers, lifetimes
\* and logins that go with it.
Sessions == INSTANCE LimitedSessions WITH
  Logins <- Tokens, NoLogin <- NoToken,
  owner <- [k \in SessionIds |-> IF Live(k) THEN store[k].ticket.login ELSE NoToken],
  used <- known, left <- life, spare <- (issued + 1)..MaxTokens

\* Tickets that are renewed, refreshed, taken over by a login and written back from old
\* copies are sessions bounded by their logins, none of which comes back.
ImplementsSessions == Sessions!Spec

-----------------------------------------------------------------------------
\* README.md: "Redis-serialized refresh concurrency across product instances".
\* What a refresh has stored in a login's ticket is not undone by a request that
\* ran beside it.
RefreshIsNotUndone ==
  [][\A k \in SessionIds :
       Live(k) /\ Live(k)' /\ store'[k].ticket.login = store[k].ticket.login
         => store'[k].ticket.token >= store[k].ticket.token]_vars
=============================================================================
