# Smart Safety Tag: a verification development

TLA+ models of the Smart Safety Tag system (the FastAPI server under `src/server`,
the Expo phone app under `src/client`, the React admin portal under `src/admin`,
the tag firmware under `src/smart-safety-tag-v1`), the TLC runs that check them,
and TLAPS proofs of the main results. `PROJECT.json` ties every definition to the
lines it models (`map`), every property to a run and to a plausible bug that
breaks it (`mutants`), and lists the hazards of the code with the properties that
would show them (`hazards`).

## 1. The system

A protected person carries a tag and a phone. Pressing SOS stores an *emergency*
on the server, which tells the person's *guardians* by push and WebSocket and the
admins by the live SOS feed. Guardians and admins acknowledge, resolve or cancel
it. The server is one asyncio process over PostgreSQL: handlers are coroutines,
each SQL statement is atomic, few of them share a transaction, and any other
handler may run at each `await`.

| component | code | state | operations | module |
|---|---|---|---|---|
| Emergencies | `server/app/emergencies`, `admin/service.py`, migration 005 | `emergencies`, `emergency_events` | create, ack/resolve/cancel, admin override, timeline | `Emergencies` |
| Auth and sessions | `auth/`, `users/`, migration 001 | `users`, `refresh_tokens` | login, refresh, logout, revoke, suspend, reset, delete | `AuthSessions` |
| Guardians | `guardians/`, migration 003 | `guardians` links and their invites | invite, accept/reject/remove, link at registration, admin override | `Guardians` |
| Admin control and audit | `admin/`, migrations 009, 010 | `users.role`, `disabled_at`, `admin_audit_log` | eight account operations | `AdminControl` |
| Phone app session | `client/src/services/api.ts`, `session.ts`, hooks, store | tokens in memory and SecureStore, profile, socket | restore, refresh, login, logout | `ClientSession` |
| Request authorization | `core/deps.py`, `core/security.py` | access tokens (kept nowhere) | decode, load the account, check the role | `Access` |
| Push notifications | `notifications/`, `push_tokens/`, `useServices.ts` | `push_tokens`, the cached FCM bearer | register, unregister, audience, deliver, prune | `PushDelivery` |
| Realtime connections | `websocket/` | sockets per user, admin sockets | handshake, disconnect, send with timeout, broadcast | `Realtime` |
| Admin portal SOS feed | `admin/src/hooks/useSosFeed.tsx` | list of open incidents, socket | fetch, merge an event, reconnect | `SosFeed` |
| Devices, locations | `devices/`, `locations/` | `devices`, `locations` | pair, unpair, edit; submit, latest, purge | `Tracking` |
| Paged lists | `admin/`, `locations/`, `emergencies/` repositories, `DataTable.tsx` | none of its own | COUNT, SELECT, next page | `Listing` |
| Rate limiting | `core/ratelimit.py` | hits per client and scope | check, prune | `RateLimiter` |
| Migrations, start-up | `db/migrate.py`, `db/pool.py`, `main.py` | `schema_migrations`, the pool | run, lifespan, readiness, bootstrap of `ADMIN_EMAILS` | `Startup` |
| Live location sharing | `client/src/hooks/useLiveLocation.ts`, `services/location.ts`, `tasks/locationTask.ts` | one run per commit, the watch, the background updates | start, stop, upload | `LiveLocation` |
| Phone realtime client | `client/src/services/realtime.ts`, `useRealtime` | the socket, the retry timer, `wanted` | connect, disconnect, close, retry | `PhoneRealtime` |
| SOS button; portal session; firmware tests | see section 6 | | | not modelled |

How they interact: an SOS (Emergencies) asks Guardians for its audience, Push for
delivery and Realtime for the events; a suspension or password reset (Admin)
revokes refresh tokens (Auth) and shows in the next request (Access);
registration (Auth) links pending invites (Guardians); deletion of an account
cascades into all tables; the app and the portal are clients of Auth's rotation and of
the realtime events; the start of a server (Startup) promotes the account that Admin
control may demote.

What is hard, and what makes each part correct:

* **Emergencies.** Read-then-update without a row lock: two transitions may act
  on one reading. Commit, event, push and WebSocket are separate steps a restart
  may cut. Correct when the event log always ends at the status and is made of
  allowed moves, nothing returns to active, and what is announced was committed.
* **Auth.** Refresh is *consume, then insert*; logout, revocation, suspension and
  deletion may fall between. Correct when a token is exchanged once, what was
  revoked stays dead, no token outlives its account.
* **Guardians.** Invites to addresses without an account, re-invites, races with
  registration. Correct when nobody is a guardian without having asked to accept.
* **Admin.** Change and audit row are separate statements; the caller's role is
  read once; a password reset does not look whether its account is still there. Correct
  when the trail tells of what was done and its gaps are accounted for, and somebody can
  still administer.
* **Phone session.** Four asynchronous functions share two tokens in two stores
  and the app may be killed at any await. Correct when a received token is never
  replaced by an older one and a signed-out phone keeps no session.
* **Push.** A phone may change hands between the lookup of its token and the post,
  and between the post and the pruning; the bearer expires while a send goes on.
  A logout deletes the token, waits for the server and then drops its user, and a
  registration may be under way all the while. Correct when each token looked up is
  accounted for, only dead ones are pruned, and a stranger sees a push for named reasons
  only.
* **Realtime.** One emit awaits many sockets, which stall and die meanwhile; the
  admin role is read at the handshake. Correct when the two registries agree, a
  dead socket costs nobody else the event, and the emit ends.
* **SOS feed.** A fetched list and a stream of events describe the same incidents
  and overtake each other; the server may forget a socket the page believes in.
  Correct when every wrong row has one of four causes, and the page reconnects.
* **Live location.** Starting asks two permissions and makes four native calls, stopping
  two; React cancels a run that is at any of them and goes on. Correct when what goes up
  while sharing is off, or does not while it is on, has one of the named reasons.
* **Phone realtime.** `ws.close()` and a loss are told later, when another socket may be
  there; token and user change at different moments. Correct when one socket is alive at
  most, it is somebody's, and it comes back after a loss.
* **Access.** An access token outlives the session it came from, the account is
  read before the handler. Correct when who is let in was entitled during the request.
* **Devices, locations.** The check of the owner and the write are separate; a
  position carries its sender's clock. Correct when only the secret stamps
  `last_seen` and a position dated ahead hides newer ones for a bounded time.
* **Lists.** COUNT and SELECT see different tables, pages shift under the walk.
* **Limiter.** Correct when no window, wherever it begins, has too many requests.
* **Start-up.** Overlapping migration jobs, outages, a bootstrap that may fail.
  Correct when each file is applied once, in order, a job that reports success has
  brought the schema of its release, and the listed admin stays one.

## 2. Modules

| module | models | role |
|---|---|---|
| `EmergencyContract` | the promise about one incident's status and trail (`Spec`, and `WeakSpec` for overlapping requests) | abstract |
| `Emergencies` | every handler of emergencies, the admin transitions, guardian and account changes it depends on | implements `EmergencyContract` |
| `SessionContract` | single-use rotation: open, consume, mint, close | abstract |
| `AuthSessions` | login, refresh, logout, suspension, reset, forced logout, deletion | implements `SessionContract` |
| `Guardians` | invite, accept, reject, remove, registration, admin override | detailed |
| `AdminControl` | admin operations on accounts with their audit rows, restart promotion | detailed |
| `ClientSession` | restore, refresh, login, logout of the phone app; the server is what `SessionContract` promises | detailed |
| `RateLimiter`, `Startup`, `PushDelivery`, `Realtime`, `SosFeed`, `Tracking`, `Listing`, `Access`, `LiveLocation`, `PhoneRealtime` | one service each, as in the table above | detailed |
| `MCServices` | the ten services side by side | composition |
| `MCCore`, `MCFair` | `Emergencies`, `Guardians` or `AdminControl`; `Emergencies` or the ten services: one of them runs | compositions for TLC |
| other `MC...` | the history of overlaps, values and symmetry | model checking |
| `EmergenciesProofs`, `AuthSessionsProofs`, `GuardiansProofs`, `AdminControlProofs`, `ClientSessionProofs` | theorems of one core module and, where it has one, of its MC module's history | proofs |
| `ServerProofs`, `TrackingProofs` | theorems of `RateLimiter` and `Startup`; of `Tracking` | proofs |
| `ServicesProofs` | theorems of the other services, and of the ten side by side | proofs |

**State and actions.** Each SQL table is a variable: a function from rows to
records with the columns the properties tell apart. A row that was deleted
has a value of its own ("gone", "removed"), because what is left
after a delete is where the races are. `req` (`task` in `ClientSession`, `call`, `send`,
`emit`, `walk`, `request`, `effect` in the services) maps each slot to where its coroutine waits
and the local variables it carries across that await. One action is the code from one
await to the next: a guard tested in Python on a value read before is tested in the
action where the code tests it, on the remembered value; a condition in a `WHERE` clause
is tested on the table in the action that runs the statement. Blocks under the
connection manager's lock hold no await and are one action. `Restart` empties `req`
(an uncommitted transaction leaves no trace); a migration file and its row in
`schema_migrations` are one transaction and one action. In `ClientSession`, `queue` holds
the SecureStore operations in the order they were asked for, `Kill` drops memory and
queue and starts the app on what is stored.

**Abstractions.** Accounts, tokens and slots are model values; names, addresses,
messages and coordinates are left out. Passwords are a version number. Time is a bounded
counter where a duration matters (the limiter's window, the lives of bearer and access
token, the skew of a position), the order of transaction starts that `created_at` records
(`now()` is the start of the transaction) in `TimelineChains`, and left out elsewhere. The
life of a bearer is counted in the longest time one post may take. A push is its audience,
a WebSocket event its channel and content. JWT cryptography is assumed: only the server
makes tokens. In `Guardians` a person registers at most once. Audit rows of admin overrides
of incidents are in `Emergencies` (`audits`), those of guardian links, devices and positions
are left out. `ClientSession` assumes that SecureStore does not fail and works in order.
FCM, the operating systems and the network are modelled from how the code uses them:
`living` says whether FCM still knows a token, `peer` whether the other end of a socket reads.

**History variables** (`accepted`, `stamped`, `excuse`, `cause`, `outdated`, ...) record what
happened and are read by no guard.

## 3. Runs

Every run finishes within five minutes. Two request slots are what the races of the core
need: each hazard found is an overlap of two handlers, and a third adds no new pair.
Symmetry is used on slots and tokens, which are interchangeable: no property or action
names one. Deadlock is not checked: each bound (requests, restarts, rows, tokens)
lets the system stop, and an idle server is no error.

| run | instance | shows |
|---|---|---|
| `Core` | incidents: owner (who is also the admin), guardian, one incident, updates start below 2 events; links: one owner, one invitee, two rows; admin: two admins, 3 requests, a restart promotes; each with two slots and 1 restart; 1.7M states | under any overlap and a restart: every event is an allowed move, actors were entitled, audits are true, events are announced exactly once, pushes stay in the circle, `WeakSpec` is implemented; consent, links name existing accounts; the trail is true and its gaps are explained. Without overlap: the table of links holds and every invite reaches its account, every change is audited and the trail alone tells the state |
| `EmergenciesRace` | the incidents of `Core` | **violated**: "terminal state cannot change" |
| `AuthConcurrent` | one account, three tokens, two slots, two passwords, 1 restart; 512k | dead stays dead, no orphans, `SessionContract` is implemented; without overlap a suspension and a reset end all sessions |
| `AuthDisableRace` | no restart | **violated**: a login or refresh that overlaps a suspension leaves a usable token |
| `GuardiansStranded` | no restart | **violated**: an invite that overlaps the registration is never linked |
| `AdminLockout` | two requests | **violated**: "prevents last-admin lockout" |
| `ClientSession` | one user, three tokens, 1 kill, 1 failed request; 3.1M | the token kept is dead only for a named reason; without overlap a signed-out phone is clean |
| `ClientColdStart` | no kill, no failure | **violated**: "the session is gone for good" |
| `Services` | incidents with one slot, 4 events, 1 restart, and the ten services, see below, under fairness; 556k | one request at a time: the strict contract, a timeline that chains in `created_at` order, and every stored SOS is announced; the services' properties, below |
| `PushAfterLogout` | one account, one phone, 3 changes on it | **violated**: "so the server does not keep pushing to a now-logged-out user" |
| `SharingRace` | 3 commits, no call throws | **violated**: "Live GPS uploads only while sharing is on" |
| `PhoneSilent` | 3 sockets, 5 sign-ins, refreshes, losses or expiries | **violated**: the session-restored flow "reconnects with a fresh token" |

Bounds of the core: an incident needs two events besides its creation to close twice, the
shortest way to break its rules; three tokens are a login and two rotations, or two
logins and a rotation; two guardian rows are a row and its re-creation after a deletion; three
admin requests are two that overlap and one after them; one restart or kill can
fall at every await, and a second finds a state the first can already produce.

**One at a time.** The models put side by side in `Core` and `Services` share no variable,
so a product would only multiply states. `acting`, `turn` and `running`, chosen by the initial
state, say which part moves; the others stay at rest. The space is the sum of the parts,
each explored in full from all of its initial states. That a service's promises carry over
to the ten side by side is theorem `EachServiceIsWhole`.

| service | instance | properties |
|---|---|---|
| `RateLimiter` | one address and the unknown one, 2 requests per window of 2 ticks, clock to 4, tables pruned above 1 key | `WindowHolds`: a request and the second before it are a window apart, whatever was popped, refused, pruned |
| `Startup` | two jobs, one server, 2 migrations (the second adds the role), 1 cut, 1 outage | `MigrationsHold`: each file once, in order, and a job that ends well has brought its schema; `PromotionHolds` |
| `PushDelivery` | two accounts, two tokens, one send, 4 changes on phones | `SendsAccounted`, `StrangersExplained`, `BearerLasts` |
| `Realtime` | an admin and an owner, two sockets, one emit, 3 moves of peers | `RegistriesExplained`; `EmitsEnd` |
| `SosFeed` | two incidents, a fetch of 1, 2 lapses | `MonitorExplained`; `ServedMonitorReturns` |
| `Tracking` | one person, one tag, one call against the others' effects, skew 1, clock to 2, 2 positions | `StampProvesSecret`, `LatestCatchesUp` |
| `Listing` | 4 keys, pages of 2 (a client may ask for 3), 2 rows that come or go | `WalkExplained` |
| `Access` | one account, one request, tokens that live 2 ticks, clock to 3, 3 changes | `AccessEnds` |
| `LiveLocation` | 4 commits, 1 native call that throws | `SharingExplained` |
| `PhoneRealtime` | 3 sockets at once, 7 sign-ins, sign-outs, refreshes, losses or expiries | `OneLiveSocket`; `LossIsRetried` |

Each instance is the smallest in which its hazard happens: a window with one request in it
and one before it; a file applied by the other job between the read and the loop of the first; a phone that
changes hands between lookup and post and between post and pruning; a socket that stalls while the
other waits; an event that overtakes the list; a tag removed between check and insert, and
a position dated ahead with one behind it; a page that shifts; a token decoded at the last
tick of its life; sharing switched on, off and on again while the first run waits for a
permission; a socket that is let go of and closed late, a second, and one after it.
The four changes in `PushDelivery` are a sign-in, a registration, the start of a logout and
another sign-in. `LiveLocation` begins with the background updates off or, left by an earlier
process, on. The proofs of section 4 do not depend on any of these numbers.

**`overlap`.** Some promises are kept one request at a time and lost when requests
overlap. The MC modules of the core record in `overlap` whether two handlers were ever in
flight at once; a property `Alone...` is the promise on the behaviours where they
were not and nothing restarted. So one run shows both what survives overlap and
what only holds without it, and the violation runs show that the condition is needed.

**Fairness.** Nothing is assumed about clients: no request need ever come.
* `Emergencies`: weak fairness of `Step(r)` for each slot. asyncio resumes a coroutine
  whose awaited call has ended, and each awaited call ends (SQL under
  `command_timeout=30`, `db/pool.py:32`; a push under 15 s, `fcm.py:94`; a
  WebSocket send under `wait_for`, 5 s, `manager.py:55`). `SosIsAnnounced` excuses a
  restart, because the code keeps no outbox.
* `Realtime`: weak fairness of `ServerStep(e)`, for the same two reasons (the event loop, and
  `wait_for` around each send). Peers may stall for ever.
* `PhoneRealtime`: weak fairness of `OnPhoneClose` and `PhoneHandshake` of each socket (a
  WebSocket that ends calls `onclose`, and `ws_endpoint` always accepts or closes) and of
  the retry timer. Users, losses and expiries are bounded, that is, they end. A loss
  (`LossIsRetried`) leads to a connection, an expired token or a refusal.
* `Startup`: none. Nothing in the repository runs a failed migration job again, so no
  property says that a schema arrives.
* `SosFeed`: weak fairness of the timers of connecting and closing, of the delivery of an
  event the handler has committed, and of the answer to a fetch. A page whose socket the
  server dropped without its knowing counts as connected: the code cannot tell.

**Findings** (runs that TLC must find violated, quoted in `PROJECT.json`):
transitions check their table on a row read earlier, so a closed incident can be
closed again with another outcome; a login that read an account before its suspension
stores a token after it; an invite that looked up its address before the registration
committed is not linked; two admins who demote each other leave none; at a cold start the
phone refreshes twice with one token and signs itself out; a push registration under way
during a logout puts back the row the logout deleted; a watch or updates whose start was
at a native call when sharing was turned off begin after the stop and go on uploading; a
token restored at a cold start is not told to the effect that connects, and the 4401 of a
socket the phone has let go of ends the attempts of the next one, so a phone with a user
and a fresh token stays without a socket.

The passing properties next to the last three name the same steps as causes
(`StrangersExplained`, `SharingExplained`, `LossIsRetried`): they say that nothing else
goes wrong. Two more races contradict no sentence of the repository and are kept as
hazards: an acceptance that overwrites the removal it overlaps (`guardians/service.py:83`;
`AloneFollowsRules` says when the table holds), and a stop that ends updates which the next
start has seen and relied on (`undone` in `UpdatesExplained`). So is a password reset of an
account that another admin has just deleted: it answers 200 and is audited
(`admin/service.py:170`; the exception in `TrailIsTrue`).

## 4. Proofs

Each theorem holds for every value of the constants under the assumption named in its
module: any number of accounts, slots, rows, tokens and sockets, and any bound.

A theorem `...OneAtATime` assumes one request slot; a theorem `...Alone` is about the
specification with `overlap` (section 3), for any number of slots, and says what holds in
every state up to which no two handlers overlapped.

* `EmergenciesProofs`. `TypeCorrect`, `LogAlwaysEndsAtStatus`, `EventsAlwaysAllowed`,
  `NeverBackToActive`, `ImplementsWeakContract` need `CallsDecided` (a handler about to
  write carries a target its remembered status allows: this is what a stale reading still
  guarantees) and `FreshIncidents` (the identifier of an incident being created has
  no row yet and no other handler works on it); every step either leaves the record
  alone or is a move of the weak contract. `OnlyEntitledActors`, `AuditsAlwaysTrue` and
  `PushAlwaysInCircle` need `CInv`: what a handler carries past an await was true when it
  read it (`EntitledCalls`, `TrueCalls`), and history only grows, so it still justifies
  the write. `AlwaysAnnouncedOnce` is a count (`Counted`): on each channel the emits made
  and those that handlers still owe add up to the events in the log, as long as nothing
  restarts. `TimelineChainsOneAtATime`, `ImplementsContractOneAtATime` and
  `TerminalIsFinalOneAtATime` need that with one slot a reading is never stale
  (`SerialCalls`): they show that the overlap in `EmergenciesRace` is the only way to close
  an incident twice.
* `AuthSessionsProofs`. `TypeCorrect`, `RotationIsSingleUse`,
  `SessionsHaveOneHolder`, `RevokedSessionsStayDead`, `NoTokenOutlivesItsAccount`,
  `ImplementsContract`. These are not inductive one by one: single use needs
  that an exchanged token is spent (`ParentsSpent`) and that the token a handler has
  consumed and not yet replaced was exchanged by nobody (`Presented`); the refinement needs that each token descends from the
  login that began its session (`Rooted`, `DeadBegan`). Handlers that only lose
  or revoke are treated together (`MilderKeeps`); rotation and insertion singly.
  `SessionsEndAlone`: without overlap what a handler has read of the account is in force
  (`Fresh`), so every usable token is, except those a suspension or reset is about to
  revoke (`UsableInForce`, `Ending`).
* `GuardiansProofs`. `TypeCorrect`, `ConsentHolds`, `LinksNameAccounts`,
  `AcceptedLinksAreLinked`, from `Numbered` (no id is above
  the counter, so none is reused) and `Asked` (an acceptance about to be written was
  asked for, and its row, if it is still there, names its guardian).
  `InvitesReachAccountsAlone` and `RulesFollowedAlone`: without overlap the row and the
  account a handler has read are those it writes about (`Fresh`), and a pending invite of
  an address with an account is linked, or its registration is about to link it (`Reached`,
  `Linking`).
* `AdminControlProofs`. `TypeCorrect`, `TrailAlwaysTrue`, `GapsAlwaysExplained`
  from `Numbering` (a handler has something to report from its statement on), `Owned`
  (what a handler is about to report is its own and not in the trail yet) and
  `MissesExplained` (what found no row is a reset or a forced logout, and the account does
  not come back);
  `NoLockoutOneAtATime`: with one request slot, somebody is always an active admin
  (`StillAdmin`: the caller of the running request is one and is not its target); and
  `TrailIsCompleteAlone`: without overlap every change is in the trail and the trail tells
  the state. What the trail tells of an account is defined by recursion over its entries;
  the invariant (`TrailTold`) carries the recursive equations themselves (`IsReplay`) and
  what their value is at the end of the trail, so an entry more is one step of them and no
  induction over the trail is needed.
* `ClientSessionProofs`. `DeadTokensAlwaysExplained` needs four facts: SecureStore owes each
  task that waits for it exactly one operation (`QueueIsOwed`); every token in sight was
  given out by the server, so a new one differs from all (`AllOwned`); a token still in an
  answer is nowhere else (`Unseen`); and a token whose successor is about to be stored is in
  memory only after a slow read and is not written behind its successor (`Replaced`).
  `SignedOutIsCleanAlone` and `NobodyRefusedAlone` follow the one task that runs from await
  to await (`Phase`): between tasks memory, SecureStore and server agree (`Agree`). A start
  that finds a session has two tasks under way at once, so these two say something of the
  behaviours that start signed out; `ClientColdStart` shows what the others can do.
* `ServerProofs`. Of `RateLimiter`: `LimiterTypeCorrect`, `LimiterWindowHolds`,
  `LimiterRefusesOnlyWhenFull`, `LimiterForgetsTheIdle`. The deque of a client is a suffix of
  all the requests accepted from it, in the order of time, and what is missing from it is
  a window old; that is what popping and pruning keep and what the count relies on.
  Of `Startup`: `StartupTypeCorrect`, `MigrationsAlwaysHold`, `PromotionIsKept`. What is applied is always a prefix, a job's reading of
  it is an older prefix, and a job in its loop is past nothing that is not applied.
* `TrackingProofs`. `OnlyProvenPairsStamp`, `PositionsNameOwnTags`, `LatestIsNotStuck`. The
  invariant adds what a call under way has read (`CallsSettled`: the tag was its caller's,
  and an owner never changes) and the bounds of the two times of a position
  (`FixesBounded`), from which the skew bounds how long a position hides another.
* `ServicesProofs`. Of `Access`, `LetInWereEntitled` (by `Entitled`: what a request under way
  has passed was true when it passed it); of `Realtime`, `RegistriesHold` (by `RoleWasRead`: a
  handshake past its reading still tells the role, or the account changed) and `EverySocketTried`
  (by `SnapshotKept`: tried, todo and rest cover what was due); of `PushDelivery`,
  `TokensAccounted`, `StrangersAreExplained` (by `RowsExplained`: a row is of the
  account on its phone, which is not leaving, or has a cause) and `BearersLast` (by `Orderly`:
  a send has at least the margin left when it begins); of `PhoneRealtime`, `OneSocketIsLive`
  (by `CurrentIsSomebodys`: besides the property, that a connection is wanted only while
  somebody is signed in, so that no timer brings one back); of `LiveLocation`,
  `SharingIsExplained` (by `CommitsInOrder`: every run but the latest is cancelled and only a
  cancelled one is late, and by `UpdatesEnd`, `UpdatesMissed`: what the latest stop or
  start has yet to find out); of `SosFeed`, `MonitorIsExplained` (by `ShownRightly`: what the
  page shows of an incident is right, excused, or about to be put right by an event on its
  way, and by `AnswerIsBehind`: a fetched list is wrong only about what changed while it was
  fetched); of `Listing`, `WalksAreExplained` (by `SeenIsBehind` and `StableIsAhead`: as long
  as nothing was removed or came late, what was seen is before the next page and what was
  there all along is seen or still ahead).
  Of the ten side by side: `ServicesTypeCorrect`; `EachServiceIsWhole`, that a behaviour of
  all has, for each of the ten, its initial state and its steps (safety: the fairness of
  three of them is not in it); and `ServicesKeepPromises`, fifteen safety invariants at once
  under `ServicesSpec`.

Every invariant and action property that a passing run checks is proved, and so are the
refinements of both contracts. Only model-checked: liveness (`SosIsAnnounced`, `EmitsEnd`,
`ServedMonitorReturns`, `LossIsRetried`), which is beyond the prover, and the counterexamples of the violation runs. Only proved, and not repeated in a
run: the type invariants of the core, `LogEndsAtStatus`, `NeverReactivated`, `SingleUse`,
`OneHolder`, `AcceptedIsLinked`, `DeadStopsNobody`, `RefusedOnlyWhenFull`, `OnlyFreshPastTheLimit`, `FixTagIsOwners`, `NobodyRefusedAlone`.

## 5. What is left to do

1. What is left of the failures of SecureStore in `ClientSession` (an operation that throws
   ends its task with the stores in disagreement).
2. The portal's session as a variant of `ClientSession`, and the store's reducer for alerts.
3. Lemmas towards the liveness properties: that each handler's awaits are finitely many is
   visible in the models (each step moves a handler forward) and could be stated as a
   decreasing measure, although the step to liveness itself stays with TLC.

## 6. Not modelled

* **JWT signatures, password hashing, the text of messages, coordinates**: data no property
  tells apart.
* **The phone's list of alerts** (`reducer.ts:59` keeps the first status it gets for an
  alert, in whatever order events and lists come): nothing in the app to compare it with.
* **SOS trigger and history of the phone**: one call behind a busy flag, one list on one screen.
* **Admin portal session**: single-flight refresh with all its state in one place.
* **Dashboard counts and screens**: reads of one statement, rendering.
* **Firmware tests**: bring-up loops that read registers and print; they talk to no other part.
* **Hardware, journal, patent and reference files, and the scripts that draw the boards**:
  no behaviour over time.
* Within modelled parts: a second fetch of the portal's list while one is under way
  (`SosFeed`); rows that a filter moves into or out of a list during a walk (`Listing`); the
  cascade of a deleted account over devices and positions (`Tracking`); rows with the same `created_at` or `recorded_at` in `Listing` (the
  lists have no tie-breaker, so their order may change from page to page); the audit rows of
  guardian, device and position overrides; failures of SecureStore. Three facts have no
  property because nothing in the repository promises otherwise: a link rejected while its
  address had no account is not linked at registration, and its owner can move it back to
  pending with nobody linked (`guardians/service.py:10`); two invites of one address at once make the loser's insert
  fail on the unique key (`guardians/service.py:44`); a restart between a password reset or
  suspension and the revocation leaves the sessions alive (`admin/service.py:170`). The two stores
  of the phone may disagree after a kill (`AppStore.tsx:50`): `ClientSession` reaches the
  state, and nothing promises that it cannot be.

## 7. Checking

`tlc -config <run>.cfg <module>.tla` for a run (module and cfg are in
`PROJECT.json`), `tlapm <module>Proofs.tla` for the proofs.
