# Formal verification of the event-reward platform

TLA+ models of the three NestJS services in this repository (gateway, auth,
event), the TLC configurations that check them on small instances, and theorems
about them that TLAPS checks for every value of the constants. Paths below are
relative to `libs/src/` unless they start with `apps/` or `test/`.

## The system

| Component | State it keeps | Operations that change it | Talks to |
|---|---|---|---|
| `EventService` (`services/event.service.ts`) | MongoDB `events`: status, dates, the array `rewards` | `createEvent`, `addEventReward` | called by the event gateway |
| `RequestService` with `RewardConditionValidatorService` | MongoDB `requests`, `pointtransactions`, `users.balance` | `createRequest` | reads `events`; reads login count and play time in Redis |
| `PlayTimeTrackerService` | Redis `condition:play_time`, `...:session_start`, the lock `lock:playtime:update` | `startSession`, `endSession`, `updateAllActiveSessions` (a timer in every process that imports `CommonModule`) | called by `AuthService` |
| `AuthService` | Redis `auth:token`, `condition:continuous_login:count`, the role permissions | `login`, `logout`, `setRolePermission`, `removeRolePermission`, `refreshToken` (no route leads to it) | `UserService`, `PlayTimeTrackerService` |
| `UserService` | MongoDB `users` | `register`, `updateRole` | - |
| Gateway `ProxyController` | one pending HTTP request per call | forward, answer, time out after 10 s | the auth and event services over TCP |
| Guards (`JwtAuthGuard`, `RolesGuard`, `OwnershipGuard`) | none of their own; per request the progress through them | decide each HTTP request | read the token and the permissions in Redis |
| Gateway `checkHealth` | the test key `health:check:test` in Redis; per call the response it fills in | `GET /api/health` | MongoDB, Redis, and the auth and event services over HTTP |
| Redis server and `scripts/init-redis.sh` | all Redis keys, in memory and in a snapshot on disk | start, background save, death and restart; the shipped permissions are added again after each start | - |
| Message handlers, DTOs, filters, logger, module wiring | none | none | - |

Nothing in the code holds a MongoDB transaction, and the only lock is the one of
the play-time aggregation. Every handler is an `async` function: between two of
its awaits any other call, in the same or another process, can run. So the hard
behaviours are

* overlapping calls that read, wait and write back (claims, `addEventReward`,
  role changes, play time against logout);
* several writes that belong together and are not atomic (balance, ledger and
  request of a claim; token, counter and session of a login), when one of them
  fails or the process crashes in between;
* the gateway's timeout, after which the event service still carries the claim
  out and the client may retry;
* Redis keys and the lock, which expire on their own, and Redis itself, which
  after a restart has forgotten what came after its last snapshot;
* listings that read the documents and their number side by side while claims
  go on, and health checks that share a key and outlast the services they ask.

`PROJECT.json` lists these hazards one by one, at their lines.

What makes the parts correct:

* **claims**: a user is approved for an event at most once and is paid what the
  rewards that the claim read add up to; an approved request has its ledger entry;
  the balance is what was paid; conditions still hold at the payment; every claim
  is answered;
* **events**: a reward is there only because it was added, and stays;
* **play time**: one aggregator at a time, nothing counted twice, an ended
  session stays ended, no call hangs;
* **sessions**: a token in Redis and a running play session go together, and a
  logout leaves neither;
* **accounts**: one account per name, true answers, admins only with the key;
* **gateway**: every request is answered, and "ok" is true;
* **access**: a revoked token gets nobody in, only administrators extend
  permissions, nobody is served on a path that was not granted, and what is
  shipped is there again after every restart of Redis;
* **listings**: no request is seen without its points;
* **health checks**: each verdict was true during the check, and there is one.

## Modules

Each awaited call is one action; code between two awaits is part of the action
before or after it. Local variables that live across an await are state.
Definitions carry the names of the code where they can, and the `map` of
`PROJECT.json` gives the lines of each.

| Module | Models | Variables and actions |
|---|---|---|
| `EventCatalog` | `EventService` | `events`; per call of `addEventReward` its place, arguments and `editDoc`, the array in memory between read and write. `CreateEvent`; `StartEdit`, `ReadForEdit`/`RefuseEdit`, `WriteRewards`, `FailEdit` (a write that throws was carried out or not) |
| `RewardClaim` (extends `EventCatalog`) | `createRequest` and the validator | per claim `pc` and the locals `rewards`, `checked`, `total`, `newBalance`; the stores `balance`, `ledger`, `requests`; `loginCount`, `playMs`. One action per await: `FindEvent`, `FindExisting`, `ValidateCondition` (one iteration), `FindUser`, `UpdateBalance`, `CreateTransaction`, `CreateRequest`, each refusal, `FailClaim`, `Crash`; from the other services `RecordLogin`, `WritePlayTime`, `ExpirePlayTime`, `EditCatalog` |
| `ClaimOnce` | the promise of a claim | a grant happens once per user and event, with its balance, and is then approved; `Void` ends the promise to a user |
| `UndisturbedClaims` (extends `RewardClaim`) | refinement mapping from `RewardClaim` to `ClaimOnce` | `crossed`, `cut`: the users whose claims overlapped, or broke off at a write; for the others `grants` is the ledger plus the claim between its balance and its ledger write |
| `Listings` (extends `UndisturbedClaims`) | the two listings of a user, one after the other, beside the claims | `visit` (whose, which, the reads awaited), `seen`; `BeginListing`, `ReadList`, `FailListing` |
| `ClaimViaGateway` (extends `RewardClaim`) | `POST /api/requests` through the proxy | `http`, `hasty` (who sent a request while one was awaited); `Send`, `Deliver`, `Answer`, `Timeout`, `ServiceStep` |
| `PlayTime` | `PlayTimeTrackerService` in all processes | a clock, `start` and `play` with their expiry, `lock`, one record per call in progress; one action per Redis call, `Tick`, `FailRun`, `FailEnd`, `Crash` (with it the process's calls end, the auth service's `endSession`s too) |
| `AuthSessions` (extends `PlayTime`) | `login` and `logout` around the play sessions | `token`, `loginCount`, the login and logout in each slot; `BeginLogin`, `StoreToken`, `RecordUserLogin`, `SessionStarts`, `BeginLogout`, `SessionEnding`, `SessionEnded`, `DeleteToken`, the failures, `ProcessStops` |
| `Accounts` | `register`, `updateRole` | `users` by `_id`; `Submit`, `LookUpName`, `Insert`, `Duplicate`; `RequestChange`, `FindUserById`, `UpdateRole`, failures (`LoseAnswer`: of an insert that was carried out) |
| `AccessControl` | guards, routes and role permissions, and Redis under them | `token`, `issued` (a number per login), `permissions` per role, the snapshot `saved`, `initialising`, and per HTTP request its place, content and token; `Arrive`, `JwtAuthGuard` (twice), `RolesGuard`, `GuardFails`; behind them `Login`, `Logout`, `ChangePermission`, `Serve`, `ServiceFails`; `Expire`, `Save`, `RestartRedis`, `InitRedis` |
| `HealthCheck` | `GatewayController.checkHealth` | `up`, `ready`, `testKey`, and per call its place and response; one action per await (`Begin`, `Ping`, `SetTestKey`, `GetTestKey`, `HttpAnswer`/`HttpTimeout`), each ending in `Passed` or in `Failed`, its catch block; `GoDown`, `ComeBack`, `NoticeMongo`, `LoseTestKey` |
| `*Proofs` | - | theorems and their lemmas |
| `MC*` | - | model values and small definitions for TLC |

History variables record what properties speak about, and no action reads them in
a guard: `paid`; `online`, `loggedIn`, `cutEnds`, `mixed`; `cutAuth`, `loggedOut`
and the field `alone` of a logout; `overlapped`; `crossed`, `cut`; `hasty`;
`seenUp`, `troubled`. (Of `cutEnds` and `cutAuth` the environment's bound on
failures reads the count.)

Several of them say to whom something happened that the code does not survive:
`overlapped` (an edit was in flight together with another on its event), `crossed`
(two claims of a user were past the look-up at once), `cut` (a claim of the user
broke off at a write), `mixed` (a call looked at the user's session start while
another call was crediting it), `cutEnds` and `cutAuth` (a logout or login of the
user failed or died), `hasty` (the user did not wait for an answer). The runs do all
these things, the properties say what is left of the others' data, and the violated
runs show that the exceptions are needed.

Definitions headed "Mutant" are plausible bugs (a dropped guard, a missing write,
a swapped order); no action uses them. `PROJECT.json` pairs each property with
one that breaks it, so that no property holds for want of behaviour.

### Abstractions that matter

* `status` never changes after `createEvent` writes `DRAFT`: no code does it.
  Events in other states come from the database by hand (`MCSeed`). Claims check
  neither status nor dates, because `createRequest` does not.
* A write that throws has been carried out by then or never will be
  (`StoreRewards`, `AwaitedWrite`, `WriteSum` and the like in the failure actions):
  a lost acknowledgement is modelled, a write that lands after its caller was told
  of the error is not.
* The unique index `{userId, requestId, eventId}` of `requests` contains a fresh
  ULID and refuses nothing, so it is not in the model. The one on `username` is
  (`IndexRefuses`).
* `continuous_login:at` is never written, so `RecordLogin`/`RecordUserLogin`
  always count.
* A token is a key that is present or not in `AuthSessions`, and a number per user
  in `AccessControl`. There, two logins produce different tokens, as they do unless
  both fall in one second (the payload of a token has no other unique part).
* In `AccessControl` a method and a path are a route and the way its ids are spelt:
  as ObjectIds, as the parameters' names (`/api/events/:eventId`, which
  `normalizePathPattern` leaves as it is, so that it equals the permission that is
  shipped), or otherwise (`Literals`). A permission may be any such path, as
  `SetRolePermissionDto` takes any string. A path that names nobody is like one
  that names somebody else. `login` and `logout` are single steps there;
  their awaits are the business of `AuthSessions`. The order of the guards is
  Nest's: `APP_GUARD` (`JwtAuthGuard`), then `useGlobalGuards` (`JwtAuthGuard`
  again, `RolesGuard`), then the route's `OwnershipGuard`. Roles do not change:
  see `MCAccountsRoleChange`.
* One auth process (`Auth`) carries out the logins and logouts, as
  `docker-compose.yml` has it; any number of processes run the timer.
* `SCAN` returns each live key once or twice, in any order, and `RedisService.scan`
  keeps the repetitions. A rejection that leaves `updateAllActiveSessions` is
  unhandled and ends its process.
* Redis loses data only in `AccessControl`, where permissions have no other copy.
  The other modules assume that Redis keeps what it acknowledged until its TTL;
  their calls may still fail. `init-redis.sh` is one step: nothing that is checked
  looks between two of its `SADD`s.
* In `HealthCheck` a service that is up answers `GET` with 200 or not at all
  within three seconds, and one that is down refuses the connection. `ready`
  (Mongoose's `readyState`) follows MongoDB with a delay. The drivers of MongoDB
  and Redis end each of their calls, with an error if not otherwise. The two
  checks of `MCHealthCheck` may belong to one gateway or to two, which then see
  one `readyState`.
* `GET users/:userId/requests` is refused by the proxy's handler for everyone but
  that user (`HandlerAllows`), after the guards.
* In `Listings` documents are counted and not ordered; `find` and
  `countDocuments` each see one moment.
* A name stands for what the schema's `trim` leaves of it.
* Redis TTLs other than the lock's are scaled from a day to a few clock units; a
  key's TTL need only be a positive number for what is checked.

## Runs

| Run | Question | Bounds and why they suffice |
|---|---|---|
| `MCEventCatalogOverlap` | What survives overlapping `addEventReward` calls, refusals, failures, lost acknowledgements and creations? | 3 calls, 3 events (open, absent, cancelled), 2 rewards. Three calls let a write fall between the read and write of another and a third follow it |
| `MCRewardClaimEdits` | Do claims and `addEventReward` mix, do conditions hold at the payment, and is everyone answered? | 2 claims and 2 edits, all overlapping, for an event without rewards at first, 1 failure: a claim may read no reward yet, one, or two, and the list may grow or lose one while it validates; `FairSpec` |
| `MCUndisturbedClaims` | To whom do claims keep the promise of `ClaimOnce`, and what does a reader see meanwhile? | 2 claims of one user, for one event or for two, and 1 of another user; 2 in flight, 1 failure or crash, so that a user's claims overlap or break off while the other user's do not; one visit to both listings at any time; two of the claims come after the login they are paid for (`LoginsFirst`), one may come too early; safety and liveness of the refinement, from the initial states `MCInit` |
| `MCPlayTimeLock` | Does the Redis lock exclude, and does every call end? | 2 processes, 2 calls at once of an update or `endSession`, 1 crash or failed update and 1 failed `endSession`, an `Interval` of 1, a lock TTL of 2, calls of at most 1, a clock to 3: the lock is taken, expires under a crashed holder, and is taken again; `PlayFairSpec` |
| `MCAuthSessions` | Do token, login count and play session stay together, and what does it take to count time twice? | one user, 2 logins and 2 logouts overlapping, 2 of an update and the logouts' `endSession`s at once, a crash, a failed `endSession` and a failed login or logout, of which at most two faults in a behaviour (`FewFaults`; a crash is one and so is each user it catches in a login or logout); a clock to 3, timer and TTLs of 2: a double logout, a logout during an update, and a crash between the two writes of `endSession` all occur. `StillClaimed` stops where nothing is claimed any more: a user in `mixed` whose login or logout was cut off |
| `MCClaimViaGateway` | What holds of claims whatever overlaps, times out, fails or crashes, and what may a client rely on that waits for its answers? | 3 requests of 2 users for an event, who may or may not wait, 2 in the event service at once, each may time out, 1 crash or failure: a retry after a timeout can overtake the claim it repeats, and a third request follows the race |
| `MCAccessControl` | Who gets through the guards while tokens and permissions change and Redis forgets? | 4 requests, enough for an administrator to log in and grant and another user to log in and use the grant; an ADMIN and a USER, 2 logins each, 1 failure or restart, requests of every class but sign-up, ids in every spelling, grants of patterns and of other strings. `VIEW` hides the snapshot once no restart can read it again, which no property sees |
| `MCHealthCheck` | Are the verdicts of a health check true, and does each check end? | 2 overlapping checks, 2 faults, each a service that goes down (and may come back at any time) or a lost test key; `HealthFairSpec` |
| `MCAccounts` | Do overlapping sign-ups and role changes keep accounts sound? | 3 registrations for 2 names, all forms (missing data; admin key absent, wrong, right), 1 role change, 1 failure, which may be a lost answer |
| `MCRewardClaimDouble` | *violated*: a claim that was made cannot be made again (`request.service.spec.ts:182`) | 2 claims at once |
| `MCPlayTimeGhost` | *violated*: `endSession` ends the session (`play-time-tracker.service.spec.ts:28`) | one aggregation beside one `endSession` |
| `MCAccountsRoleChange` | *violated*: an admin changes a user's role (`test/auth.e2e-spec.ts:173`) | one account, one change |

`CHECK_DEADLOCK FALSE` everywhere: calls, failures and the clock are bounded, so
every instance comes to rest.

All bounds are constants: `MaxEdits`, `MaxInFlight`, `MaxCalls` bound what
overlaps; `MaxFailures`, `MaxCrashes`, `MaxFailedEnds`, `MaxFailedAuth`,
`MaxFailedCalls`, `MaxTimeouts` bound faults, and `MaxFaults` of `MCAuthSessions`
their sum; the constraints `StillClaimed` and `LoginsFirst` are named in the table;
`MaxLogins`, `MaxNow`, `MaxRunTime` bound counters, the clock and the
length of an aggregation. `MaxTokens` bounds logins in `AccessControl`, `MaxOutages`
faults in `HealthCheck`. Symmetry is used only for registrations, for the HTTP
requests of `AccessControl` and for the logins and logouts of `MCAuthSessions`,
which are interchangeable slots, and in no run with a liveness property.

### What the violations show

* `createRequest` looks for an existing request and inserts one several awaits
  later: two overlapping claims are both paid and approved. `ApprovalsBounded`
  says how bad it gets: at most as many approvals as claims in flight.
  `TwiceOnlyByOverlap` says that nothing else leads to it, no failure, crash or
  retry, and `PatientApprovedOnce` when it does not happen: as long as nothing
  times out, for users who wait for each answer.
* `updateAllActiveSessions` writes the session start back an await after it read
  it; a logout in between is undone. `LoggedOutStaysOut` says that a logout is final
  otherwise.
* `updateRole` looks for `_id` and then for `userId` with the same value; no value
  is both.

Disagreements without a run of their own: `createRequest` computes the new
balance before another claim's write and overwrites it, so that points are lost
and `balanceAfter` is not the balance (`point-transaction.schema.ts:37`), though
points are never created (`BalanceNotInflated`) and never lost in any other way
(`PointsLostOnlyByOverlap`); `createEvent` accepts equal dates though
its message says "before" (`event.service.ts:22`); overlapping `addEventReward`
calls drop a reward the API calls added (`event.service.ts:52`,
`apps/gateway/src/proxy/proxy.controller.ts:347`; `AddedRewardsStay` for all others); play time gets the cache's
default TTL though `RedisEnum` says FOREVER (`redis/redis.enum.ts:54`); the lock
can expire under an aggregation longer than 80 s (`MaxRunTime < LockTtl` is an
assumption, not something the code enforces); an `endSession` that fails or dies between
its two writes credits the time again when retried (`PlayTimeNotInflated` bounds
it by the number of such calls); two logouts at once, or a logout during an update,
credit the same time twice (the users in `mixed`); a claim whose last write fails, or that outlives
the gateway's timeout, can be paid again on a retry; `OwnershipGuard` says
"Admin and other roles have full access" (`guards/ownership.guard.ts:24`), but
`handleGetUserRequests` refuses them another user's requests
(`apps/gateway/src/proxy/proxy.controller.ts:580`).

### Fairness

* `CatalogFairSpec`, `FairSpec`: weak fairness of each call's own steps. Node's
  event loop resumes a handler when the database has answered; a call that gets
  no answer is one that fails or whose process crashes.
* `PlayFairSpec`: the same for each aggregation and each `endSession`. Neither the
  timer nor any client is assumed to act.
* `ListingFairSpec`: the claims' fairness (`ClaimsGoOn`); the reader may stop at any point.
* `GatewayFairSpec`: only the gateway's own timer (`TimersGoOff`). The event service may do
  nothing at all.
* `HealthFairSpec`: the drivers' calls end, and the three-second timers go off. No
  service has to answer or to come back.

`AccessControl`, `AuthSessions` and `Accounts` state safety only and assume no
fairness.

No action is strongly fair and no failure has to end. `EveryUpdateEnds` says that
every aggregation ends, also one that finds the lock of a process that died; that
aggregation resumes after the lock's TTL is not shown, since the clock is bounded
and nothing makes it go on.

## Proofs

Proved by TLAPS for all values of the constants that satisfy the named
assumptions of the modules (`CatalogAssumption`, `ClaimAssumption`,
`PlayTimeAssumption`, `AccessAssumption`, `HealthAssumption`,
`AccountsAssumption`, `GatewayAssumption`):

| Theorem | Says | Argument |
|---|---|---|
| `CatalogTypeCorrect`, `CatalogInvariant` | types | with: an edit about to write has seen its event, and events are never deleted |
| `NoForeignRewardHolds` | no reward from nowhere, whatever overlaps and whatever acknowledgements are lost | with: what an edit holds in memory is allowed as well (`MemoryAllowed`) |
| `NoRewardTwice` | no reward is applied twice, whatever overlaps | with: one and the same initial list bounds the event and all that edits hold in memory (`LengthBound`): a write replaces the array by one that is longer by one, and counts its edit, also if it throws |
| `AddedRewardsStayHolds` | a reward that was added stays, unless its call was in flight together with another on that event | with: an edit that shares its event with one in flight is in `overlapped` (`OverlapsRecorded`), and every edit about to write has in memory what must stay (`MemoryKeeps`) |
| `TypeCorrect` | types of the claim model | with: the loop index stays inside the rewards while the loop runs (`LoopInBounds`) |
| `BalanceNeverInflated` | `balance <= paid` | with: a balance about to be written is at most `paid` plus the claim's points; other writes only raise `paid` |
| `PaidLoginsHold` | login conditions hold at the payment | the conditions validated so far hold, because the counter only grows |
| `RequestsAreBacked` | every request has its own ledger entry | requests plus claims between the two writes are at most the entries |
| `ApprovalsAreBounded` | at most `MaxInFlight` approvals | requests plus claims past the look-up are at most `MaxInFlight`: a claim gets past it only while there is no request |
| `ApprovalEndsPayment` | no payment after an approval | a claim that is late stays so: requests are not deleted |
| `AmountsAreTheEvents` | an entry's amount is the sum of all the rewards that its claim read | with: a claim's total is the sum of what it has checked, and all of it once the loop is over (`TotalsAreSums`) |
| `ApprovedTwiceOnlyByOverlap`, `LostOnlyByOverlap` | at most one approval, and `balance = paid`, for users not in `crossed`, failures or not | together (`OverlapInv`): a claim past the look-up of such a user is the only one (`Alone`), so it met no request (`FirstAsked`), and nobody writes the balance between its read and its write (`ReadsAreFresh`) |
| `UndisturbedLedgerRuns` | the ledger is a running account for users not in `crossed` or `cut` | with: unless a claim is between its two writes, such a user's balance is the `balanceAfter` of the last entry (`BalanceSettled`); the claim carries that plus its own amount (`CarriedBalances`) |
| `ClaimsGrantOnce` | `RememberedSpec => GrantsOnce`, the refinement of `ClaimOnce`, with `voided` the users in `crossed` or `cut` | `UpdateBalance` is the grant, `CreateRequest` the approval, a step that disturbs users is `Void`, every other step a stutter. With: each entry of an undisturbed user has its request or the claim about to write it (`EntriesAnswered`), so a claim past the look-up meets no grant |
| `ListedArePaid` | `ListedRequestsArePaid` beside claims that overlap, fail and crash | with: all requests of a user and the claims about to write one are at most the user's entries (`UsersBacked`); what the reader was told of requests is at most the entries there are now (`ToldRequests`), which only grow. `ReadersOnlyRead` adds that the claims beside the reader behave as in `Spec` |
| `PlayTypeCorrect` | types; no negative duration | with: session starts are in the past |
| `ShortRunsExclude` | `OneAggregator` if `MaxRunTime < LockTtl` | while a call holds the lock, the lock expires `LockTtl` after the call took it; so a free lock has no holder, and the unconditional `DEL` in `finally` removes only one's own |
| `PlayTimeIsEarned` | `PlayTimeNotInflated`, for any number of calls at once | for each user not in `mixed`, at most one call is crediting the session (`Lone`); what is stored, what is pending since the session's start, and what that call carries add up to at most the time online, times one plus the `endSession`s cut off at their writes (`StoreBounded`, `RunsBounded`, `EndsBounded`) |
| `SessionsEndForGood` | `EndedUnlessMixed`: for such users an ended session stays ended | from the same invariant: once a session of such a user is over, no update is about to write its start (`Out`, `Gone`). `MCPlayTimeGhost` shows that the exception is needed |
| `AuthTypeCorrect`, `AuthImplementsPlay` | types; `AuthSpec => PlaySpec` | every step of a login or logout is one of `PlayNext` or leaves `playVars` alone; so the theorems on `PlaySpec` hold of `AuthSpec` |
| `TokensAreBacked` | `TokenMeansSession`, for any overlap and any failure or crash of other users' calls | with: a token that outlives its session start has a login about to start the session or a logout about to delete the token (`Covered`), and likewise for the count (`Counted`) |
| `LogoutsAreFinal` | `LoggedOutStaysOut`, for any overlap and any failure | a logout that no login overlaps finds no login of its user when it ends the session (`AloneIsAlone`), leaves no session (`EndedBeforeDelete`), then no token, and only a login brings either back (`QuietStays`), since no update of an unmixed user does (`GoneStays`) |
| `AccessTypeCorrect` | types; the stored token was issued, and is the newest or gone unless Redis was restarted | inductive; `EveryStepMoves` lists what a step can do to a request, and the next four rest on it |
| `PermissionsFromAdmins` | only an ADMIN extends permissions | with: who changes permissions was let through to do so, and the request does not change after that (`AdminsManage`); the same holds of the snapshot (`SavedComeFromAdmins`), so a restart brings back nothing else |
| `ShippedReturn` | a shipped permission is missing only if an ADMIN withdrew it | it is stated of an initialised Redis: the script adds all that is shipped whatever the snapshot lacks, and after it only an ADMIN's change removes; withdrawals that were made stay made |
| `ServedWereGranted` | what is served was granted, as `normalizePathPattern` reads the path | with `PermissionsFromAdmins`, and grants that were made stay made (`GrantsLast`) |
| `RevokedStaysOut` | a revoked token stays out | with: a request's token was issued before (`TokensWereIssued`), so a later login stores another one |
| `GatewayImplementsClaims` | `GatewaySpec => Spec`: behind the gateway claims behave as in `RewardClaim` | every step of the gateway is one of `Next` or leaves `vars` alone; so `RequestsBacked`, `ApprovalsBounded`, `BalanceNotInflated` and the others hold there too |
| `GatewayTypeCorrect`, `SuccessTrueAndUnique` | types; "ok" is true, and told once per event to a user not in `hasty` | with `ClientInv`: such a user has one request waiting; a claim answered "ok" has ended approved; while a success is told, a later claim of that user for the event meets its request and does not get to the payment |
| `PatienceSuffices` | no second approval of a user not in `hasty` before the first timeout | with `PatientInv`: without timeouts a running claim is one the gateway waits for, so a patient user has one, and it passes the look-up only while there is no request |
| `AccountsTypeCorrect`, `OneAccount`, `AnswersTrue`, `AdminsHaveTheKey` | the invariants of `Accounts`, for any number of overlapping registrations and role changes | together (`AccountsInv`), with: each account was made by a registration (in `Makers`) that got past the checks with its name and, for an ADMIN, the key (`AccountsHaveMakers`, `FormsChecked`), and an update is about an `_id`, which is no `userId` (`UpdatesNameObjectIds`) |
| `HealthTypeCorrect` | types; the two places where a response notes an error agree | inductive |
| `VerdictsTrue` | what a finished check says was true during it | with: while a call runs, what is up has been seen up and what is down is in trouble, and so is Redis if the test key is gone before it is read (`Evidence`) |

Most of these invariants are not inductive on their own; what follows "with:" is
the strengthening.

`MaxRunTime < LockTtl` is a hypothesis of `ShortRunsExclude` and of no other theorem;
the code does not enforce it. No theorem assumes that calls do not overlap or do
not fail. Where overlap or failure does break something, the theorem says of whom it
holds nevertheless, in terms of the history variables above; the violated runs and the
disagreements show what happens to the others.

The assumptions on constants ask for finite sets of slots (`Edits`, `Claims`, `Runs`,
`Ends`): a slot is one call, and only finitely many are ever in progress. Users,
players, events, processes and tokens are any sets (players and processes non-empty).

Sums are a recursive function (`SumOfFirst`). The one fact about it that is needed,
`SumUnfolds`, rests on `SetInduction`, the induction principle for a set of naturals,
because the library's induction takes an operator.

Where the proofs are: `EventCatalogProofs`, `RewardClaimProofs` (any overlap, any
failure), `UndisturbedClaimsProofs` (the refinement, and the listings),
`ClaimViaGatewayProofs`, `AuthSessionsProofs` (with those about `PlayTime`),
`AccountsProofs`, `AccessControlProofs`, `HealthCheckProofs`.

Only model-checked: everything temporal under fairness, which is beyond the prover
(`EveryEditEnds`, `EveryClaimEnds`, `EveryUpdateEnds`, `EveryRequestAnswered`,
`EveryCheckAnswered`, and `GrantsAreApproved`, the liveness of the refinement).
`ApprovedOnce`, `EndedSessionStaysEnded` and `RoleChangeFindsItsUser` are false;
`TwiceOnlyByOverlap` and `EndedUnlessMixed` are what is true of the first two. Every
other invariant and action property that a run checks is a theorem.

## Not modelled

* What the routes answer, and the gateway's 404 for other paths (it stands behind
  the same guards). In the shipped permissions nobody but an ADMIN has
  `POST /api/auth/logout`; an instance may grant it.
* `refreshToken` (no route), `updateActiveStatus` (no caller), and the finders
  other than the two listings of a user: one read, no state.
* DTOs, filters, logging, module wiring: stateless. What they decide (which processes run the
  timer, the default TTL, that targets and points are at least 1, that the
  service restarts) is built into the models.
* Deletion of users, events or requests: no code does it.

## Plan

Written in this order, most important behaviour first: `EventCatalog`,
`RewardClaim` with `ClaimOnce`, `PlayTime`, `ClaimViaGateway`, `AuthSessions`,
`Accounts`, `AccessControl`, `HealthCheck`, `Listings`. What is left would be:

1. Roles that change in `AccessControl`, should `updateRole` be repaired: a role in
   a token is then older than the user's, and the properties have to say for how
   long.
2. `AccessControl` and `AuthSessions` in one, so that a token's session and its
   permissions are spoken of together.
3. An abstract account of play time that `PlayTime` implements for users not in
   `mixed`, as `ClaimOnce` is for claims.
4. That aggregation resumes after the lock of a dead process expires, with a clock
   that goes on for ever.
