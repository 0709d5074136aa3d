# Axis reference product: specifications and proofs

TLA+ models of the code in this repository, the TLC runs that check them and the
theorems TLAPS proves about them. `PROJECT.json` lists the components, the runs
with their properties, for every property a plausible bug that breaks it
(`mutants`), the source lines of every definition (`map`), the disagreements
between code and documentation met on the way (`findings`), and the hazards the
properties are for (`hazards`).

To run: `tlc -config TokenRefresh.cfg MCTokenRefresh.tla` and likewise for the
other runs of section 3; `tlapm TokenRefreshProofs.tla` and likewise for the
other `…Proofs` modules of section 4.

## 1. Inventory

The repository is a browser product for an external platform ("Axis"): a React
application, its own ASP.NET Core backend-for-frontend (BFF), and the scripts
that build the product's solution release, run local development and adopt the
engineering process.

| Part | Source | State it keeps | Operations | What is hard | What makes it correct | Status |
| --- | --- | --- | --- | --- | --- | --- |
| Token refresh concurrency control | `server/…/RedisTokenConcurrencyControl.cs` | Redis lock key, result keys | `ExecuteWithConcurrencyControlAsync` | the lock's lifetime against an unbounded refresh; cancellation at every await; a crash with the lock; a result that expires | exclusion within leases; nobody else's lock is deleted; a spent token is not presented again without cause; waiters end | `TokenRefresh`, `LeaseLock`; `TokenRefreshProofs` |
| Browser session | `server/…/RedisTicketStore.cs`, `server/…/Program.cs` | Redis ticket, its time-to-live, the two expiries in it | store, renew, retrieve, remove; sign-in, validation, sliding renewal, refresh, logout | logout against writers in flight; old tickets written back; two expiries, one moving | ended sessions stay ended; the absolute lifetime bounds everything; every session ends | `BrowserSession`, `LimitedSessions`; `BrowserSessionProofs` |
| API gateway | `server/…/ApiGatewayMiddleware.cs` | none of its own | allowlist, antiforgery, token, product check, forward | the session changes under the page; Axis, the proxy and the network answer late, in part or not at all | a change is carried out for the user the page shows or not at all; a refusal is final; every call settles | `ApiRequest`; `ProductClientProofs` |
| Session client | `src/auth.ts`, `src/App.tsx` | session and antiforgery token, loaded once | load, send the token with a call | other tabs sign out and in | as above | `ApiRequest` |
| Generated client | `src/api-generated/` | configuration, interceptor lists, event stream position | call, interceptors, event streams, URL, headers, credentials, body | lists that change during a call; chunks cut anywhere; styles and their delimiters | each event once; hooks that stay run once; what is encoded reads back | `ClientRequest`, `EventStream`, `ClientMessage`, `ClientUrl`, `ClientOperations`; `ProductClientProofs` (calls, operations), `EventStreamProofs` |
| Record client and form | `src/api.ts`, `src/App.tsx` | pending idempotency key; record, values and error on screen | create, save, submit, read-back after a lost response | lost responses, late requests, overlapping calls, other editors | what is submitted is what was entered; no orphaned draft; a current screen | `RecordClient`; `RecordClientProofs` |
| Release store | `scripts/local-dev.mjs`, `scripts/build-solution.mjs` | signing key, immutable artifacts, state file | prepare, build, read, write artifact | commands at once, a stop between writes, torn files, a lost key | one identity; a released artifact stays; the state names a stored artifact | `ReleaseStore`; `ReleaseStoreProofs` |
| Command supervisor | `.process/adopt-process.py` `_run` | child processes, output pipes | poll, terminate the tree, terminate adopted children, join the readers, judge | a process tree that changes while it is cleaned up; zombies; late output; held pipes | success means nothing left and everything read; it ends | `CommandSupervisor`; `CommandSupervisorProofs` |
| Requirements snapshot | `.process/adopt-process.py` `main` | private copy of the lock file | stable read, comparison around the installation | the lock is saved while it is read, or between reads | what a reading accepts was held; what is read, installed and attested is one content | `StableRequirements`; `ProductToolsProofs` |
| Windows Job Object runner | `.process/adopt-process-windows-job.py` | job, process, handles, status pipe | run in a job, drain, terminate, release, report | any call fails; the runner is terminated; processes end and start meanwhile | nothing outlives it; success means nothing was terminated; all is given back | `WindowsJob`; `ProductToolsProofs` |
| Release encoding | `scripts/build-solution.mjs` | none | canonical JSON, envelope, verification | one value, several texts | an accepted text says one thing; what is written is accepted | `CanonicalJson`; the envelope in `ReleaseStore` |
| E2E wait | `scripts/wait-for-e2e-targets.mjs` | one deadline | poll each target | the deadline is shared | success means every target answered, or was not asked for want of time | `E2EWait`; `ProductToolsProofs` |
| Local development commands | `scripts/local-dev.mjs` | topology recorded by Axis | check, prepare or read the release, start the Axis command | a store or a marker that is lost | a deployment keeps its identity | `ReleaseStore`; arguments and environment are not modelled |
| Product data, options, transport, health probe, pipeline | see `PROJECT.json` | none or constants | I/O, configuration | – | – | not modelled |

How they interact. The browser calls the BFF only. The BFF reads the session
ticket from Redis on each request; when the access token is due it calls the
concurrency control, which calls back the retriever, which redeems the refresh
token at the provider and renews the ticket; the gateway then checks the record
at Axis and forwards. The record client calls through the generated client. A response may renew the ticket again (sliding). The
record client sees the BFF and Axis as one service that answers, refuses or
loses the response. The scripts share the files of the release store and nothing
else. Adoption (`StableRequirements`) starts commands one after the other, each
under the supervisor (`CommandSupervisor` on Linux, `WindowsJob` on Windows).

## 2. Modules

### TokenRefresh (with LeaseLock and TokenRefreshProofs)

One session, any number of concurrent requests on any number of instances.
`lock` and `results` are the Redis keys with their remaining time-to-live;
`provider` is the refresh token the provider accepts, counted from the first;
`ticket` is the token in the session ticket; `pc`, `key`, `wait`, `got` are the
local state of each call. `lease` (what is left of the lifetime a call was
granted) and `fate` (what became of each spent token) are history: no guard
reads them.

The actions follow `ExecuteWithConcurrencyControlAsync` await by await: `Enter`
(the keys are computed from the token the request has read), `Acquire` (SET NX
with a lifetime), `Await`/`GiveUp` (the 50 ms loop and its deadline),
`AcquireCancelled`/`WaitCancelled` (`WaitAsync(ct)` may throw although the SET
took effect), `CheckHit`/`CheckMiss` (the second look at the cache),
`Redeem`/`RedeemFails`, `StoreTicket`, `CacheResult`, `Release` (the compare and
delete script), and `Abandoned`, `Throw`, `Crash` for leaving early. `ReadTicket`
and `Respond` are the request around it; `Respond` writes the old ticket back
when a sliding renewal is due (`SlidingDue`, the second half of the idle
window). `Tick` is time.

The cached result is a token and the Data Protection around it is left out: it
reads as what was written or not at all. Redis is one server whose operations
are atomic.

`LeaseLock` is the abstract lock with a lifetime: a holder, and the clients
entitled to be inside. `ImplementsLeaseLock` is the refinement, with `holder`
the owner of the live key and `entitled` the calls inside within their lease.

### BrowserSession (with LimitedSessions)

Tickets in `store` with the ticks left to their idle and absolute expiry and the
entry's time-to-live. A request reads a ticket (`Retrieve`), is let in
(`Validate`) or rejected, may refresh (`UseCached`, `Redeem`, `StoreTicket`) or
log out (`Logout`, `Revoke`, `Remove`), and responds (`Respond`, which slides).
A sign-in stores under a fresh identifier with a bounded number of attempts
(`StoreNew`, `StoreCollides`) or over the session it came with (`StoreOver`).
`Abort` is a request that ends anywhere. A request works on the `copy` of the
ticket it read, which is where the interleavings come from. Refreshes of a login
are serial here, which TokenRefresh shows of calls that keep to their lease.

`LimitedSessions` is what the store promises without saying how: a session has
an owner, the login it is of, is there only while that login has some of its
absolute lifetime left, and once ended is not begun again under its identifier.
`ImplementsSessions` is the refinement: the owner is the login of the ticket in
a live entry, the rest are `known`, `life` and the logins not yet issued.

### RecordClient

A call is one press of a button until its promise settles. `pc` is the await it
is at, `job` what it works on, `reply` the answer under way. `Answer` is the
service carrying a request out; `GivenUp` is a response that is lost, after
which the request may be in `late` and be carried out later. The read-backs and
the single retry of `api.ts` are actions of their own, with `SaveTook` the
comparison that decides whether a lost save took effect. The service keeps all
revisions in `log`, each with the values its author had in the form (`entered`),
so that a property can compare what was submitted with what was entered.

Assumed of the service (external, from how the client uses it): one record per
idempotency key, which a repeated create returns; a save or a submission is
carried out only at its expected revision; a submitted record is immutable; a
submission the rules refuse answers with the record and changes nothing. A page
reload is not modelled.

### ReleaseStore

The three kinds of file in `.axis-solution`, absent, torn or written, and
commands that run at once. `command` is what each was called as (`Kinds`):
`Prepare` and `Inspect` begin it, with the check of `openapi.json` against
Axis's (`Compatible`) and of the topology Axis has recorded (`OursOrNone`), and
`Deploy` is what Axis's script does at its end. `FindKey` to `ReadKey` is
`prepareSolutionRelease` with the exclusive creation of the key (`OpenKey`,
`FillKey`); `Build` reads the working tree as it is now, `Check`, `Open`,
`Fill`, `Compare` are `writeImmutableSolutionArtifact`; `OpenState`, `FillState`
record the state; `ReadState` and `ReadPackage` are the passive reads. `Stop` is
a command that stops anywhere; `Checkout`, `LoseKey`, `LoseStore` and
`RestoreKey` are the developer, `LoseMarker`, `Reset` and `AxisChanges` Axis.
`deployed` is the publisher's key of the product that Axis runs. Two revisions
never share the digits a snapshot's version is made of; a payload is the
revision it names and the tree it was read from.

### CommandSupervisor

One `_run` on Linux. The processes have a state, a parent, and belong to the
command's group or not, hold the run identifier or not, hold the output or not,
and are the user's or another's (`guarded`). The operating system's rules are
`Fork`, which copies all of that to the child, `Exec`, by which a process leaves
the run identifier behind or becomes another user's at any time, `Redirect`,
`Detach`, `Exit`, `ParentReaps` and `Die` (children of the dead become the
subreaper's). `Signal` ends whom it reaches, but one that sleeps in the kernel
only when it wakes ("dying"). The supervisor polls (`PollExited`, `PollTimeout`,
`PollOverflow`), terminates the tree (`Term` to `GroupSurvived`), lists `/proc`
and looks at each process in turn (`ListProcesses`, `Look`), kills and reaps,
joins the readers and judges (`Verdict`). Whether a time limit is reached is
nondeterministic, but a wait for something that has happened ends. `Refused` is
the EPERM of killpg, given when it may signal none of the group's members; what
`_terminate_posix_group` makes of it and the PermissionErrors nobody catches
(the first killpg of `_terminate_tree`, `os.kill` of an adopted child) both end
the cleanup (`GiveUp`), as do the survivors of the group, of the command and of
the adopted children, and the result is then `"cleanup"`. `forebears` is a
history variable: who has forked while it had the identifier. A diagnostic in
the output is a nondeterministic failure.

### ApiRequest (with ClientMessage and ClientOperations)

One call of the page, from its press to its result. `page` is the session the
page has loaded, `session` the one the browser's cookie stands for: they part
when another tab signs out or in (`SessionChanges`) or the session expires.
`Call` sends the page's token, and the cookie of the moment (`asker`). `Admit`
is the gateway up to the product check with its refusals in their order,
`CheckRecord` the check at Axis, `Forwarded` and `ActivityTimeout` the end of
the forwarded request; `AxisCarriesOut` may come at any moment while Axis has
the call, or never. `Deliver` and `Break` are the network: an answer whole, cut
off in its body, or lost. `ClientOperations` is the list of the 68 operations of
`sdk.gen.ts` with their templates, of which `IsAllowed` lets four through.

### ClientRequest, EventStream, ClientMessage, ClientUrl

`ClientRequest` is `request` of the generated client at its awaits, while the
rest of the program changes the three interceptor lists (`Use`, `Update`,
`Eject`, `Clear`). A loop runs over the array it finds at each turn; `Clear`
leaves it with the old one (`detached`).

`EventStream` is `createSseClient`: the text of a server, events of three lines,
is handed over in chunks cut anywhere (`Read`), put into `buffer` and taken
apart at blank lines (`Handle`), of which `FirstBlank` is the first; `ReadEnds` and `FetchFails` break a connection,
after which the server goes on behind `Last-Event-ID`.

`ClientMessage` (headers, credentials, bodies, responses) and `ClientUrl` (path
and query styles, against a reader that knows the styles) only compute. Between
the text and its reader stands the URL that `new Request` makes of it, which
resolves `.` and `..` segments (`RequestUrl`).

### StableRequirements

The lock's `file` (inode, time, blocks), its `folder`'s time, and a developer's
tools: `Replace` renames a new file over it, `SaveInPlace` empties it and
`WriteBlock` fills it. `clock` is the one timestamps are taken from, and any
number of writes fall on one tick. Reading follows `_read_stable_requirements`:
`StartReading` (the identity of the path), `Lstat`, `Open`, `ReadBlock`,
`LstatAfter`, `ReadDone` (the path again). `Phases` is the order of `main`, with
`Command` and `Authority` the commands, which are external here. `held` and
`unseen` are history.

### WindowsJob

The runner call by call (`CreateJob` to `CloseHandles`), each of which may fail
and goes to the cleanup then; the processes of the job, which start others and
end at any step; `Report`, which writes the status, in part or not at all if the
pipe fails; and the supervisor, which may terminate the runner at any of its
steps (`Forced`) and reads the status when the runner has gone. A process that
was terminated may take for ever to go.

### E2EWait and CanonicalJson

`E2EWait` is the script's loop with `now` in seconds. `CanonicalJson` has a text
as the tree of what its writer chose (the form of each character and number, the
order of members, members of one name), `Decoded` for what `readFile` makes of
bytes that are not UTF-8, `Parse` for what `JSON.parse` makes of the text, and
`inspectCanonical`, `canonicalJson`, `IsCanonicalFile` after the code. What is
compared with the canonical text is the decoded one, so the property is of files
in UTF-8.

### The composing MC modules

`MCProductClient` and `MCProductTools` run several of these modules in one
instance. The parts share no state; `turn` says which one runs, and in its turn
the others keep still. For the operators that only compute, a state is one case
of their arguments (`probe`).

## 3. Runs

| Run | Question | Properties |
| --- | --- | --- |
| `token_refresh` | two requests that keep coming, two rotations, sliding renewals, dead holders | `TypeOK`, `LeaseMutualExclusion`, `ServesSuccessor`, `SpentTokenHasExcuse`, `TicketTracksProvider`, `OnlyOwnerUnlocks`, `ImplementsLeaseLock`, `EveryRequestEnds` |
| `browser_session` | two requests over two identifiers, a session in constant use | `WithinAbsolute`, `ImplementsSessions`, `EverySessionEnds` |
| `record_client` | overlapping submissions, another editor | `SubmitsWhatWasEntered` |
| `record_client_alone` | a create beside a submission, lost and late requests | `NoOrphanDraft`, `ScreenIsCurrent`, `EveryCallReturns` |
| `product_client` | the page's call through the gateway; the generated client's calls, streams and encodings | `NoCrossUserChange`, `RefusalIsFinal`, `SilentOnlyAtGateway`, `CallSettles`, `OnlyRecordOperationsPass`; `SteadyHooksRun`, `IdsNameTheirHook`, `ErrorHasItsResponse`; `DeliveredExactly`, `AbortEnds`; `UrlReadsBack`, `CallerHeadersKept` |
| `release_store` | two commands at once on one revision, or one at a time on two; stops, losses, deployments | `SnapshotsVerify`, `SerialReleasedStays`, `SerialStateNamesSnapshot`, `IdentityKept` |
| `command_supervisor` | a stubborn command and job, a daemon; some exec as another user or without the identifier, or sleep | `LeftOnlyByTheDying`, `SuccessIsRead`, `SupervisorEnds` |
| `product_tools` | adoption beside three saves; the Windows runner; the wait for two targets; canonical JSON | `ReadWasHeld`, `AdoptedAsOne`; `EndedByItself`, `NothingLeftBehind`; `WaitedForAll`; `CanonicalTextsAgree` |

Bounds, and why they are enough:

- Two requests (calls, commands) are what the interleavings of these components
  need: one that holds or has read something and one that changes it. The
  proofs of section 4 cover any number.
- Lifetimes of two or three ticks let every pair of events fall on either side
  of an expiry. The wait limit is shorter than the lock's lifetime, as 15 s is
  than 30 s. The absolute lifetime is longer than the idle one, so a session can
  slide before the absolute expiry stops it.
- Two rotations in `token_refresh` give a token that is spent, one that is
  current and one to come. The two tokens of `browser_session` are two logins,
  or a login and its refresh; what a third would add, a refresh of a login whose
  session another login has taken, overwrites the ticket as a response that
  slides does.
- In `record_client` four revisions are a create, two saves and a submission;
  `record_client_alone` has three revisions and two keys, so that a key may be
  rotated or kept. One late request at a time. The two properties of
  `record_client_alone` do not hold of all calls that overlap their own kind: of
  creates that is a finding, of submissions a hazard in `PROJECT.json`. Which
  creates may overlap is proved (`KeyIsKept`).
- `release_store` has two keys where the code should only ever make one. Two
  commands at once work on one revision; with a checkout that moves under them
  the instance is too large, so a developer who checks out another revision has
  one command at a time (`mode`).
- `product_client`: two users besides nobody; two changes of the interceptor
  lists over three hooks, so that a hook is added and gone, or replaced twice,
  in one loop; two events and at most three connections. The probes hold every
  style with values of one or two items, over characters of every class an
  encoder or a delimiter treats apart.
- `product_tools`: three saves and two ticks put a save into each of the three
  readings, within a tick or over several; three inodes allow a number to come
  back. At most one command alters the snapshot, once: were it altered before
  the installation and restored after it, no look would show it. The Windows job
  has a target and two helpers, one of which may start the other. Texts have two
  characters in every form, values three, objects up to three members of four
  names.
- In `command_supervisor` what exceeds the budget is a second chunk. The command
  and two descendants have the natures that matter between them: stubborn,
  detached, asleep, privileged, without the identifier, and either descendant may
  fork the other. `MaxOutput` bounds the output. The theorem is about any number
  of processes of any nature.

Deadlock is checked in `TokenRefresh`, `BrowserSession` and `ReleaseStore`,
whose systems go on for ever. `RecordClient` stops when its keys are used up and
its record is submitted, the supervisor and the tools when they are done, a
stream and a call of the client when they have ended.

Fairness:

- `TokenRefresh`: time passes, and a call that can take a step of its own takes
  it. The retriever's HTTP call ends because HttpClient limits it; that it may
  take longer than the lock lives is in the model. Nothing is assumed of who
  wins the lock: `EveryRequestEnds` holds because waiting has a deadline.
- `BrowserSession`: time passes. Requests need not.
- `RecordClient`: an answer that is on its way arrives, or its connection fails
  (the gateway's activity limit and the browser see to that, `ApiRequest`), and
  the call takes its next step. Nothing is assumed of a request that is not
  answered: `api.ts` gives its fetches no signal and no timeout, and the product
  check may keep one for ever. `EveryCallReturns` names that case: a call ends,
  or stays for ever at one fetch without an answer. Carrying out a late request
  is not fair.
- `ApiRequest`: the BFF admits or refuses what has reached it, the proxy's
  activity limit passes, the network delivers. Axis need not answer.
- `EventStream`: the pauses and the fetch end, the consumer pulls, and a reader
  that was cancelled answers. No server need send.
- `CommandSupervisor`: the supervisor takes its steps, since all its waits have
  deadlines, and the drain threads read what there is. Of the command and its
  descendants nothing is assumed.

What the runs show that is worth arguing about:

- `SpentTokenHasExcuse` enumerates every way a spent token comes to be presented
  again, and so logged out by a provider that detects reuse: its result was lost
  with the call, could not be cached, came or expired too late, or a lock was
  outlived. No race within the lifetimes is among them.
- `ImplementsSessions` holds because renewals are conditional (`When.Exists`), and
  only sign-ins create. That a session that has ended stays ended
  (`EndedStaysEnded`, proved and not run) is part of it; so is that a renewal, a
  refresh and a response with an old ticket can hand a session only to a login
  that still has time.
- `SubmitsWhatWasEntered` holds through the retry because the retry carries the
  revision of the lost submission.
- `NoCrossUserChange` rests on the antiforgery token being the user's: it holds
  of changes and not of reads, which go out with whoever's cookie is there.
- `SilentOnlyAtGateway` lists what a page may be told although its save or
  submission was carried out: a 5xx, and a success whose body was cut off. The
  client reads back only what it has no status of.
- `CallSettles` has an exception, the check of the record, which has no time
  limit where the forwarded request has one. `EveryCallReturns` has the same one,
  from the page's side: what it rules out is a call that goes round between a
  submission and its read-back, or an answer that leads nowhere.
- `UrlReadsBack` names what does not read back: a value whose segment is `.` or
  `..` asks for another path, and a `null` or `undefined` that is written by its
  value alone, in an array or object that is not exploded, reads as the word.
- `CallerHeadersKept` names what is not kept: the caller's own `Authorization`
  under a scheme without a name, which is how every operation of `sdk.gen.ts` has
  its bearer token; an empty query parameter of a scheme's name; and of a body
  that JSON has no text for only the type goes out.
- `IdentityKept`: the store and Axis's marker must both be lost before a command
  takes a deployment for none and signs with another key.
- `IdsNameTheirHook` ends with `clear`, after which ids name new hooks;
  `DeliveredExactly` is of servers that end lines with LF, since a CR LF that is
  cut in two reads as a blank line; there nothing comes twice or out of order.
- `ReadWasHeld` names the one way a mixture of two saves is taken for the lock:
  a save in place within the tick of the timestamp the file already had, which
  leaves it the size it was.
- `WaitedForAll` says of the wait what it does: a target whose turn comes after
  the deadline is not asked, and the wait succeeds.
- `LeftOnlyByTheDying` is as much as the supervisor gives. If it ends by a
  timeout, too much output, readers that do not end or a verdict, nothing of the
  command's process group runs; if its cleanup fails, because something could not
  be signalled or survived, it says so and never reports success. That a success
  leaves nothing at all is not true. `/proc` is listed once and read entry by
  entry after, and a daemon that forks and exits in between is neither found nor
  is its child; and only direct children with the identifier are looked for, so a
  process that forks a tagged worker and then execs with another environment, or
  as another user, hides it for as long as it lives. The property names both.

### Findings

The runs below end in a violation, which is what they are for. Each quotes what
the repository says; `PROJECT.json` has the lines.

| Run | What the repository says | What the code does |
| --- | --- | --- |
| `refresh_is_not_undone` | refreshes are serialised over Redis | a sliding renewal writes the spent token back over the one a refresh has stored |
| `lost_key_is_reused` | one create key after a lost response | an older create's success clears the key of a newer one |
| `changed_payload_is_refused` | changed bytes under a version are refused | existence is checked before a plain write, so two builds at once both succeed |
| `descendants_are_terminated` | "they were terminated" | children of a killed daemon are adopted after the one look and keep running |

Some behaviours of the code are in the models and not stated as properties.
A refresh that outlasts the 30 s lock runs beside another, which is the
exception in `LeaseMutualExclusion`. A background job that dies after its parent
is a zombie of the supervisor that nobody reaps before the group is asked for,
so `GroupSurvived` is taken with nothing left running; and when a group does
survive, the search for detached descendants is skipped. The event stream's
`attempt` counts all its connections, failed or not, and is never reset. A
command that stops between making the key file and writing it leaves a file
every later command refuses. A snapshot built across a checkout names one
revision and holds another.

`BrowserSession`, `RecordClient`, `ReleaseStore` and `CommandSupervisor` define a
`TypeOK` that no run lists: it is part of the inductive invariants of section 4,
where it is proved. Of `TokenRefresh` it is checked and proved.

## 4. Proofs

The theorems hold for every value of the constants that satisfies the
assumptions below: any number of requests, calls, commands, processes, saves,
hooks and targets, any lifetimes and budgets. Each proof module states an
inductive invariant, proves that `Init` establishes it and every action keeps it
(one lemma per action or group of actions), and derives the properties. Every
invariant was checked with TLC on an instance like that of the component's run
before it was proved; none of the properties is inductive by itself.

| Module | Theorem | States |
| --- | --- | --- |
| `TokenRefreshProofs` | `TypeCorrect` | `TypeOK` |
| | `MutualExclusion` | `LeaseMutualExclusion` |
| | `Successor` | `ServesSuccessor` |
| | `SpentTokens` | `SpentTokenHasExcuse` |
| | `TicketTracks` | `TicketTracksProvider` |
| | `OwnerUnlocks` | `OnlyOwnerUnlocks`, an action property |
| | `LeaseLockImplemented` | `ImplementsLeaseLock`, the refinement |
| `BrowserSessionProofs` | `TypeCorrect` | `TypeOK` |
| | `AbsoluteLifetimeHolds` | `WithinAbsolute` |
| | `SessionsStayEnded` | `EndedStaysEnded`, an action property |
| | `SessionsImplemented` | `ImplementsSessions`, the refinement |
| `RecordClientProofs` | `TypeCorrect` | `TypeOK` |
| | `WhatIsSubmittedWasEntered` | `SubmitsWhatWasEntered` |
| | `KeyIsKept` | `NoOrphanDraft` and `LostKeyIsReused`, while no key is made beside a create under an older one |
| | `FormIsCurrent` | `ScreenIsCurrent`, with no other editor and while no call overlaps its like |
| `ProductClientProofs` | `ChangesAreTheSenders` | `NoCrossUserChange` |
| | `RefusedIsNotDone` | `RefusalIsFinal` |
| | `DoneIsTold` | `SilentOnlyAtGateway` |
| | `SteadyHooksAreRun` | `SteadyHooksRun` |
| | `IdsKeepTheirHook` | `IdsNameTheirHook` |
| | `ErrorsKeepTheResponse` | `ErrorHasItsResponse` |
| | `RecordOperationsPass` | `OnlyRecordOperationsPass` |
| `EventStreamProofs` | `EventsAreDelivered` | `DeliveredExactly` |
| `ReleaseStoreProofs` | `OneIdentity` | `SnapshotsVerify` |
| | `DeploymentKeepsIdentity` | `IdentityKept`, an action property |
| | `ReleasesStay` | `SerialReleasedStays` |
| | `StateIsOfSnapshot` | `SerialStateNamesSnapshot` |
| `CommandSupervisorProofs` | `TypeCorrect` | `TypeOK` |
| | `NothingElseIsLeft` | `LeftOnlyByTheDying` |
| | `OutputIsRead` | `SuccessIsRead` |
| `ProductToolsProofs` | `EndsByItself` | `EndedByItself` |
| | `NothingIsLeft` | `NothingLeftBehind` |
| | `ReadingIsOneVersion` | `ReadWasHeld` |
| | `AdoptionIsOne` | `AdoptedAsOne` |
| | `WaitsForAll` | `WaitedForAll` |

### TokenRefresh

`Inv` (`Invariance`) conjoins the properties with what they rest on, each a
lemma over `[Next]_vars` that uses those before it:

- `LockInv`, `LeaseInv`: the Redis lock and the lease of the call inside run
  down together, so two calls within their leases would both own the lock. That
  excludes them. The compare in the release script is what keeps this true when
  a call whose lock ran out leaves.
- `SpentInv`, `GenerationInv`: exactly the tokens before the provider's are
  spent, and nobody has a later one.
- `CacheInv`: the result of a token is the token after it.
- `RedeemerInv`: a spent token whose result is under way has one call that is
  bringing it in; from it follows that nobody else decides a token's fate.
- `MissInv`: a call that missed the cache within its lease cannot have it filled
  behind its back, because filling needs the lock.
- `ForwardInv`: without sliding renewals the ticket never goes back.

`SpentTokens` then follows by cases on the step that brings a call to redeem
(`Excuse`), `TicketTracks` from `RedeemerInv` and `ForwardInv`; the refinement
maps each action to one of the lease lock's or to a stutter (`LeaseStep`).

### BrowserSession

A session keeps to its login's absolute lifetime although any request may write
an old copy of a ticket back, so the invariant is about the copies: `CopyInv`
says that whatever a request holds is bounded by its login, `StoreInv` that what
is stored is, and that an entry lives no longer than its ticket. `SessionsStayEnded`
is by cases on the writers: renewals are conditional, and a sign-in writes under an
identifier that was never known or over the session it came with, which lives.

The refinement says of every step what it makes of the owners (`StepEffect`): it
changes nothing, brings a login, ends one session, begins one under a fresh identifier, or writes
a copy over a session that is there. What it writes is bounded by the copy's login
(`WritesBounded`, from `CopyInv`), so that login has time left, and the step is
`Begin` or `TakeOver`; a tick ends what has come to its login's end (`SessionStep`).

### RecordClient

`Inv` follows the values a user entered: `CallInv` says that the answer under way
holds values some revision of its record has, `SubmitInv` that every submission,
under way or late, names a revision that holds what was on the form. The service
never changes a revision (`LogKept`), so this survives the retry and the late
requests.

`KeyIsKept` has a hypothesis, `[]CreatesInTime`: no key is made while a create
under an older one is under way. The finding `lost_key_is_reused` is a behaviour
without it, so it cannot be dropped; creates that overlap under one key, as of a
button pressed twice or pressed again after a lost response, are within it. `KeyInv`
keeps the pending key apart from the records shown and says that every request under
way is about the one or the other.

`FormIsCurrent` assumes more, a user who waits for a call before making another of
its kind (`[]CreatesAlone`, `[]SubmitsAlone`) and no other editor (`Foreign = {}`);
the form does not make him wait. A second create of the same key is harmless in the
service, but its answer may show the record as it was before a submission. In
`AloneInv`, `UnderKeyInv` says that a create is under the pending key,
`LateSaveInv` says that a late save is no match for the revision the form has
gone on to, `AnswerInv` that what a call is about to show is the record as it
is, and `ScreenInv` that nothing late can change what a quiet form shows.

### ApiRequest and ClientRequest

`ApiInv`: what has passed antiforgery comes from the page of the user whose
cookie it carries, and what has not has not reached Axis (`PassedInv`); an answer
to a call that Axis has carried out, or may yet, is a success or a 5xx
(`AnswerInv`); and so is what the page was told (`ResultInv`). It speaks of what
Axis may still do, because a call goes on after its answer. The page reads an
answer without a body back (`OutcomeFacts`).

`HooksInv`: a place in a list belongs to the last hook its id was given for
(`IdsInv`), a hook stands in a list once (`OnceInv`), and a hook that has stayed
since the loop began has been run once if the loop is past its place and not at
all otherwise (`SteadyInv`), which holds only of a loop whose array was not
replaced by `clear`. Adding, ejecting and replacing are one lemma (`PlacedSteady`)
about a list in which one entry is placed.

`RecordOperationsPass` goes through the operations by what their paths begin
with: only those of records have the prefix that `IsAllowed` asks for, and of these
each is filled in and compared (`ElsewhereIsRefused`, `RecordOperationsAllowed`).
That listing and creating share a path is why the method matters there.

### EventStream

`StreamInv` is about what has come (`buffer`) and what is to come (`wire`).
`OrderInv` says that both are in order, one before the other, with ids later than
`lastId`; `NamedInv` that data comes behind the id of its event, unless that id was
handled already: a CR LF that is cut in two may halve an event, and its second half
then comes without an id. `DeliveredInv` says that what was delivered lies before
all of it, from which nothing comes twice or out of order, for either line end and
however often the connection is made anew. With LF only, `ExactInv` says more:
buffer and wire are, place by place, the text behind `lastId` (`Exact`), so the
first blank line found is the one after that event, and its lines are the whole of
it.

### ReleaseStore

`Inv` is for commands that run at once. A key is made only where nothing is
signed (`MakingInv`), one command fills it (`FillInv`), and what a command signs
with is the store's key while it runs (`SignerInv`): hence one identity.
`MarkerInv` and `StoredInv` say which trace of a deployment is left after one
loss, which is why only both losses together lose the identity (`IdentityInv`).
`SerialInv` adds, for the instance of the run in which commands take turns, what
the one command knows of the artifact file. That it needs `mode` is the finding
`changed_payload_is_refused`.

### CommandSupervisor

The supervisor's one look at `/proc` is judged against the list it took:
`ScanInv` says that while nothing is lost of the list (`NoneLost`: whoever was on
it and has forked with the identifier still runs with it), whoever runs with the
identifier was listed or descends from somebody who was, and whatever was passed
over has a parent other than the supervisor. `FamilyInv` says that a parent runs
and that the parent of a tagged process has forked with the tag, so it was listed
too, and `AncestryInv` that no process is its own ancestor: the tagged of the
list, none of which is the supervisor's child, would have to be empty. `GroupInv`
says that the group has died by the time the supervisor passes on from it, and
that only a member could add to it; the places a failed cleanup leads to are
excepted (`Cleared`). `PlaceInv` knows that Root has died by then, unless the
cleanup failed. `OutputInv` is about the readers.

### Adoption and the wait

`JobInv` of the Windows runner: whatever runs is in a job that kills on close and
that the runner holds (`RunInv`), what was given is given back on every path
(`BackInv`), and `CleanInv` is what a runner that has met no error knows at each
call, which the status it writes rests on (`StatusInv`).

`LockInv` of the requirements lock: between the two looks at its identity the
file is as it was, or shows a later time, or was written within the tick that the
first look saw (`Still` in `ReadInv`), so a reading that finds the same identity
has read one version. `AdoptInv` carries the content read first through the
phases of `main`.

`WaitInv`: every target behind the current one has answered or was passed over
after the deadline.

### Assumptions

The `ASSUME`s of the modules, which TLC evaluates in every run. Most say that a
value that stands for none is none of the others and that a bound is a natural
number. Those with content: lifetimes are positive (`TokenRefresh`,
`BrowserSession`), a record can have a revision (`RecordClient`), a missing and a
torn file differ from each other and from every content (`ReleaseStore`,
`ContentAssumption`), the helpers of a Windows job are finitely many (the runner
counts them), and a file system has three inode numbers or more
(`StableRequirements`: the file, its replacement and one that is free). An id
that the gateway's pattern for ids matches is not the product's key (`ApiRequest`,
`KeyAssumption`).

### Only model-checked

- All liveness (`EveryRequestEnds`, `EverySessionEnds`, `EveryCallReturns`,
  `CallSettles`, `AbortEnds`, `SupervisorEnds`): the prover has no ENABLED and
  cannot use fairness.
- `UrlReadsBack`, `CallerHeadersKept`: texts and header lists are encoded and
  merged by folds, and what a fold computes for every sequence needs induction
  over data, which the provers here cannot do. `CanonicalTextsAgree` is about a
  recursive reader of trees.
- What a run refutes (section 3, Findings) has no proof, but for
  `LostKeyIsReused` under the hypothesis that repairs it.

## 5. Plan

Done: sections 2 to 4. What remains, most important first:

1. `ScreenIsCurrent` for two submissions of which one has been answered.
2. Abstract specifications with their refinements: an append-only store for
   `ReleaseStore` while commands take turns, a register that is read atomically
   for `StableRequirements`.
3. What may be left running outside the command's process group after each failure
   of the supervisor.

## 6. Not modelled

See the components with status `not_modelled` in `PROJECT.json`: configuration
and pure checks of one value, pure I/O, constants and data. Within the modelled
parts: the Data Protection of what Redis holds, a Redis that fails over and
loses writes, a page reload in `RecordClient`, collisions of the digits of a
snapshot's version, a process that takes the run identifier up again or comes
back from another user, `/proc` listed in more than one piece, `buildClientParams` and
`serializeQueryKeyValue` of the generated client (nothing uses them), its types,
the headers the gateway drops, links and reparse points on the way to the
requirements lock, and interrupts of the Windows runner.
