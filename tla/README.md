# cc-relayer in TLA+

cc-relayer is a relay in front of the Claude API. It keeps a pool of OAuth
accounts in Redis, chooses an account for each client request, refreshes its
token, forwards the request under the account's identity, and reacts to what
the upstream answers: it pauses, stops, blocks or marks accounts, retries on
others, and lets a background cleanup bring accounts back.

These modules model the parts of it that share state: several goroutines of
one or more relay processes that read and write the same Redis hashes by single
commands, with no transaction anywhere. All line numbers refer to `src/`.

 1. [The system](#1-the-system)
 2. [The modules](#2-the-modules)
 3. [The runs](#3-the-runs)
 4. [Fairness](#4-fairness)
 5. [The proofs](#5-the-proofs)
 6. [What the code does that its documents do not say](#6-what-the-code-does-that-its-documents-do-not-say)
 7. [What is abstracted or left out](#7-what-is-abstracted-or-left-out)
 8. [Plan](#8-plan)

## 1. The system

| Component | State it keeps | Operations | Correct if |
|---|---|---|---|
| Account store (`account/store.go`, `store/redis.go`) | a hash `claude:account:<id>` per account, the set `claude:account:index` | Create, Get, List, Update, StoreTokens, Delete, ListIDs | a deleted account stays out of the pool; no duplicates |
| Token manager (`account/token.go`) | the token fields; the key `claude:token_refresh_lock:<id>` | EnsureValidToken, ForceRefresh, refresh, markError | one refresh at a time; no refresh token is spent twice or lost; every call ends |
| Rate limit manager (`ratelimit/manager.go`) | 5-hour status, stop, window end, Opus deadline | CaptureHeaders, MarkOpusRateLimited, cleanup (a goroutine with a ticker) | stops and pauses end when, and only when, they are over |
| Relay (`relay/relay.go`) | per request: the retry loop's local variables | Handle, handleUpstreamError, streamResponse | the loop ends; no account is asked twice without cause; sessions stay with their account |
| Scheduler (`scheduler/scheduler.go`) | `lastUsedAt` | Select, isAvailable | an account that is available all the time is found, and not passed over for one of lower priority |
| Session bindings (`store/redis.go`) | hash per session UUID with a TTL | Get, Set, Renew | a session changes its account only for a cause |
| Stainless binding (`identity/stainless.go`) | a string per account, without TTL | BindStainlessHeaders | one fingerprint per account, captured once |
| Admin API (`server/admin.go`) | none | add, list, delete accounts | what was acknowledged is in the pool |
| Cookie OAuth exchange (`account/oauth.go`) | none | CookieOAuth: list the organisations, authorize, exchange the code | a session key stands for one organisation, and a failure leaves nothing behind |
| Identity transformation (`identity/identity.go`) | none; the body is changed in place | Transform, once for each attempt | the limit on cache_control holds; a client's session stays one session of one account |
| Transport pool (`transport/transport.go`) | map from route to transport, under a mutex | GetClient, getTransport, cleanup, Close | an account's requests go through its own proxy |
| Process (`server/server.go`, `cmd/relay/main.go`) | connections (net/http), goroutines | Run, shutdown, main's deferred calls | nothing is closed under a client; it ends when told to |
| Error table, encryption, API key check, configuration | none, or a cache | pure functions | not modelled, see [section 7](#7-what-is-abstracted-or-left-out) |

How they meet:

* A relay request reads the session binding, calls the scheduler, then
  EnsureValidToken, then the upstream; on 401, 403, 429 and 529 it calls
  handleUpstreamError, which writes to the account; on success it writes the
  binding and, when the response ends, `lastUsedAt`.
* A 401 starts a goroutine that calls ForceRefresh with a context of its own.
* The cleanup reads each account and writes to it by what it read, up to four
  commands later.
* The administrator writes tokens without the refresh lock.
* The process has all of these as goroutines of its own; its end waits for the
  requests of clients, up to a limit, and not for background refreshes.
* All of these write the fields `status`, `schedulable` and `overloadedUntil`
  of the same hash. Write errors are mostly dropped, and a client that goes
  away cancels the context of the commands that are still to come.

Hard behaviours, therefore: check-then-write on records that others change;
partial effects (two fields that belong together written by two commands, one
of which is lost); a lock with a TTL whose holder may die; retries that race
with the pauses they themselves write; liveness of accounts (does every account
come back?). `PROJECT.json` lists them as hazards, line by line, with the
properties that look after each.

## 2. The modules

| Module | Models | Extends / instantiates |
|---|---|---|
| `AccountRecord` | the scheduling fields of an account's hash, and each write to them as an operator from record to record; `isAvailable` and the cleanup's conditions | |
| `AccountHealth` | the record under all its writers: requests, background refreshes, the administrator, the cleanup | `AccountRecord` |
| `AccountHealthProofs` | theorems about it | `AccountHealth` |
| `SerialRefresh` | abstract: refreshes of one account, one after the other | |
| `TokenRefresh` | EnsureValidToken, ForceRefresh, the lock, the OAuth server (external) | instantiates `SerialRefresh` |
| `TokenRefreshProofs` | theorems about it, the refinement among them | `TokenRefresh` |
| `RelayRequest` | Handle from the session lookup on: binding with its TTL, selection, retry loop | |
| `RelayRequestProofs` | theorems about it | `RelayRequest` |
| `RequestIdentity` | Transform: system prompt, cache_control blocks, user id, session hash | |
| `RequestIdentityProofs` | theorems about it | `RequestIdentity` |
| `StainlessBinding` | BindStainlessHeaders | |
| `StainlessBindingProofs` | theorems about it | `StainlessBinding` |
| `AccountLife` | abstract: an id enters the pool once and is removed once | |
| `AccountRegistry` | adding accounts by an OAuth exchange and deleting them, with late writes of others | instantiates `AccountLife` |
| `AccountRegistryProofs` | theorems about it, the refinement among them | `AccountRegistry` |
| `TransportPool` | getTransport, its cleanup, Close | |
| `TransportPoolProofs` | theorems about it | `TransportPool` |
| `ServerProcess` | the process around the pool: connections, background refreshes, signal, shutdown, exit | `TransportPool` |
| `ServerProcessProofs` | theorems about it, among them that it implements `TransportPool` | `ServerProcess`, `TransportPoolProofs` |
| `MC_*` | instances for TLC: response sets, proxies, symmetry | the module of the name |

The state and the actions, in the code's terms:

* **`AccountRecord`, `AccountHealth`.** `rec[a]` is the hash of account `a`,
  reduced to the fields the scheduler and the cleanup decide on. One operator
  of `AccountRecord` is one HSET; one action of `AccountHealth` is one Redis
  command. `job[q]` is a goroutine of Handle with the commands its response
  still calls for, in the code's order (`NextWrite`); `sweep` is the cleanup
  goroutine with the record it has read (`snap`) and the commands it has decided
  on by it; `refreshing` are the goroutines a 401 has started.
  `WritesFor` and `Due` are the conditions of `relay.go` and `manager.go`.
  Faults are `LoseWrite` and `LoseSweepStep` (a command Redis refuses),
  `Disconnect` (the request's context is canceled) and `Restart`.
* **`TokenRefresh`.** `pc[p]` is the next command of a caller, `got[p]` the
  token in its hand, `lock` the Redis key with its owner value and TTL.
  `stored` is the token pair with its expiry, `issued` the OAuth server's last
  grant. Fault actions: a SETNX whose reply is lost (`LoseAcquire`), a release,
  an answer or a store that fails (`LoseRelease`, `LoseAnswer`, `LoseStore`),
  a caller that dies or is canceled anywhere (`Abandon`), after which the
  server may still serve its request (`ServeOrphan`).
* **`RelayRequest`.** `req[q]` holds the local variables of Handle:
  `bound` is `sessionBoundAccountID`, `excluded` is `excludeIDs`, `tries` is the
  history the loop counter and `forbidden403Retries` abstract from. `phase` is the
  next command or decision of the handler: the session's look-up and check, the two
  commands of a binding's pipeline, the selection of the bound account, the listing
  of the pool, which reads one account per step, the attempt, and what follows
  the response. Every read may fail, in the same way as the code takes it: a failed
  look-up is no binding; a failed check refuses or unbinds (relay.go:121-134); a
  failed Get of the bound account falls through to the pool (scheduler.go:39-47),
  which the history variable `missed` records; a failed listing of the ids ends in
  503 (scheduler.go:63-66), and an account that List cannot read is left out
  (store.go:127-130), which `unread` records. The code's two ways to a 503 are
  two answers: `unavailable` (the pool has no account left) and `held` (the
  session's account is there, and not available). `binding` is the Redis hash of a
  session, `timeless` the sessions whose hash has no TTL, which the two commands of
  each pipeline leave between them; `Unnamed` is a hash without accountId, which the
  renewal of an expired binding creates. `Change` is no translation of any one
  function: it stands for all the other writers of the records and leaves them
  free, so that what holds here does not depend on how they behave.
* **`RequestIdentity`.** `raw` is the client's body, `sent` what the latest
  attempt made of it. `Attempt` applies Transform to a fresh copy of `raw` under some
  account; `Arrive` takes another body. Bodies are the sequences of
  their content blocks in the order in which the code walks them, reduced to
  their cache_control and to whether they are billing entries; user ids are
  records of the parts that the code's pattern finds.
* **`StainlessBinding`.** `stored` is the Redis string, `req[q]` the headers a
  request came with and those it sends. SETNX and the second read are steps.
* **`AccountRegistry`.** `hash` and `index` as in Redis; `adm[m]` is an admin
  handler, one command per step, the two of each pipeline included. A command
  that writes has a `Result`: it is executed or not, and answered or not, so that one
  that was executed may count as failed; of a pipeline's two commands either may fail
  alone. `late` are accounts another part of the program has read and is about to
  write to: tokens, an error, a ban, its end, or other fields. `CookieOAuth` is the
  exchange of a session key for tokens, in one step, as it does not touch the store.
  `Listing` are the answers of `/api/organizations`; `Choice` are the organisations
  that are the best of one of them. Three things are recorded beside the state:
  `uncertain` are the organisations for which two handlers have searched at the
  same time, or a search could not read a hash; `struck` are the ids whose
  hash a deletion has removed; and the phase "dropped" is "answered" after an update
  that failed and whose error the code drops (admin.go:54, 80).
* **`TransportPool`.** `entries` is the map; `ReuseTransport`/`BuildTransport`
  are the two branches of getTransport, atomic under the mutex; `closed` says
  that main has called Close, after which nothing keeps a background refresh from
  building transports.
* **`ServerProcess`.** `stage` is where main's goroutine is: in Run's select
  ("serving"), in Shutdown ("draining"), before and after the deferred call on
  the pool ("drained", "poolClosed"), or gone. `conn` are net/http's connections:
  one that is idle may begin a request also during a shutdown, until `Drained`
  closes it, and does not keep one afterwards. `running` are the goroutines of
  relay.go:405. Each use of the pool is a step of `TransportPool`.

The operators whose comments begin with "Mutant" are variations of the
definition that follows them and belong to no specification; each is a
plausible bug, and the property it is listed with in `PROJECT.json` fails when
the variation takes the definition's place.

## 3. The runs

Every run explores all the states of its instance. `tlc -workers 2 -config
<run>.cfg MC_<Module>` repeats one.

| Run | Instance | Shows |
|---|---|---|
| `AccountHealth_safety` | 1 account, 2 requests, 10 kinds of responses, clock 0..4 | `TypeOK`; `OnePassIsEnough`: in every state a pass of the cleanup that nobody disturbs puts an account back, unless something of it still runs or it is in a dead end; `PauseEndsOnlyWhenOver`, `StopEndsOnlyWhenOver`: the cleanup ends no pause or stop that was running in the record it has read, and no other writer ends one; `BackOnlyWhenOver`: only a stop or a ban that is over brings an account back into the pool |
| `AccountHealth_liveness` | 1 account, 1 request, 1 lost write or restart, clock 0..6 | `StopsAreLifted`; `AlwaysBackOrDeadEnd`: an account comes back again and again, unless it is in one of three named dead ends |
| `AccountHealth_rejected` | 2 requests, no autoStopOnWarning | **violated**: `RejectedRecovers`, see below |
| `AccountHealth_blocked` | 2 requests, overloads and bans | **violated**: `BlockedRecovers`, see below |
| `TokenRefresh_lock` | 2 callers, the administrator, 1 grant, clock 0..4 | `MutualExclusion`, `OnlyOwnerReleases`; `LockIsFreed`, `CallsEnd` |
| `TokenRefresh_store` | 2 callers, 2 grants, clock 0..5, no administrator | `ResultNotOlder`, `NoTokenBurnt`, `ImplementsSerialRefresh` |
| `RelayRequest_safety` | 1 request at a time, 2 accounts, one of higher priority, up to 4 attempts, codes 200, 401, 403; any read or write fails | `AskedAgainOnlyAfterForbidden`; `BoundTriedFirst`, `BindingMovesForCause`: a session's account is left only for a cause, of which a Get of it that fails is one; `SteadyAccountIsReached`: an account that is available all the time is neither overlooked nor passed over for one of lower priority, unless the request has excluded it or its listing could not read it or the ids; `BindingsExpire`: no binding stays without a TTL unless the command that sets it was lost; `EveryStepCounts`: no step of a handler takes it back; `RequestsEnd` |
| `RelayRequest_forbidden` | 1 request, 2 accounts, 3 attempts, all codes | **violated**: `ForbiddenIsRetried`, see below |
| `RequestIdentity_safety` | 2 accounts, one of them with an account_uuid, up to 2 system and 3 message blocks, limit 2, all kinds of user ids | `CacheControlsLimited`: exactly the excess blocks lose their cache_control, those of the messages first; `SessionKept`: two attempts are one session upstream exactly if account and client session are the same; `SessionIsBound` |
| `StainlessBinding_safety` | 3 requests, 2 headers, 2 values, 1 failing command | `SameIdentity`: what several requests send of the fingerprint has one value |
| `AccountRegistry_safety` | 2 administrators, 2 ids, 2 organisations, listings of up to 3 organisations with up to 2 capabilities, 1 command that fails before or after it was executed | `OneAccountPerOrg`: no duplicates, unless searches overlap or a search cannot read a hash; `SubmittedIsPooled`: an account that was acknowledged is in the pool with tokens until a deletion removes its hash or its id, and has its organisation unless the update that writes it failed; `ImplementsAccountLife`: an id enters the index once and leaves it once |
| `ServerProcess_safety` | 2 connections, 1 background refresh, 3 accounts on 2 routes, 2 transports built, clock 0..2, idle timeout and shutdown limit 1 | `RightRoute`, `KeptWhileRecent` of the pool; `ClosedUnderNobody`: main's deferred calls find no connection open; `CutOnlyAfterLimit`, `SignalEndsProcess` |

Why the bounds are enough:

* *One account in `AccountHealth`.* Records share nothing but the cleanup's
  pass, which handles one account at a time. Two requests and the cleanup
  give every pair of writers, and a third writer: background refreshes and the
  administrator. The durations (1 or 2 ticks) keep the code's order, with the 401 and ban
  pause longer than the others, and a window end that may lie before or after the
  end of a pause. In the liveness run responses are quiet after `Horizon`, and
  `MaxTime` leaves the time for the longest stop (window, truncated start,
  grace) to end.
* *Two callers in `TokenRefresh`*: a holder and a waiter, and after an abandoned
  call or an expired lock a new holder with the old one still on its way to the
  release. With `LockTTL = 2` and `HoldLimit = 1` a release can come after the TTL.
  Two grants give a superseded token. More callers are covered by the proofs.
* *Two accounts, four attempts in `RelayRequest`*: attempts with both accounts, two
  repeated 403s of one account and one of the other, then the last attempt, whose
  code is forwarded. The codes are those that differ for the loop: 403 does not
  exclude, 401 (like 429 and 529) does, 200 ends it; 500 ends it like 200 and, with
  the last attempt's retriable codes, is `forwarded`. One account has the higher
  priority, so that there is one to pass over; the order by last use among equals is
  left free, in the model as in the run, and any candidate of the highest priority
  may be the first. One request at a time finds bindings that earlier ones, renewals
  and expiries have left in any state; that concurrent requests of one session
  respect them too is the theorems' part.
* *Bodies in `RequestIdentity`*: with a limit of 2, five blocks give bodies
  under, at and over the limit, by system blocks alone, by messages alone and by
  both, with billing entries that count before they go. Blocks and user ids do not
  depend on one another, so that bodies have one or the other.
* *Three requests in `StainlessBinding`*: one that captures, one that loses,
  one that comes later, with one command failing in any of them.
* *Two ids in `AccountRegistry`*: ids are not used again, so that two
  submissions can create a duplicate, and one can be deleted while the other is
  found or created. Listings of up to three organisations have a best one before,
  between and after others, ties, and none with "chat".
* *Two connections, two transports in `ServerProcess`*: one request holds up the
  shutdown while another connection is idle, begins a request after the signal,
  or is dropped. Two accounts share a proxy under two users, the third has another port;
  `MaxBuilt` lets each route have its transport, or one of them a second after an
  eviction. An account without a proxy doubles the states and is not in the run:
  direct routes and more of everything are the theorems' part.

The three findings:

* `RejectedRecovers` (README.md:127). After a "rejected" the response
  "allowed" clears `fiveHourAutoStopped` but leaves `schedulable` false; the
  cleanup restores only accounts that are auto-stopped. The response comes from a
  request that was already under way, or an account that was warned and rejected in turn.
* `BlockedRecovers` (manager.go:178). The cleanup clears `overloadedUntil` by
  what it read before a ban was written; unblocking then looks for a deadline
  that is gone, in this pass and in every later one.
* `ForbiddenIsRetried` (relay.go:220). The retry "on the same account" goes
  through the scheduler after handleUpstreamError has paused this account, and
  so never reaches it, unless the cooldown's write was lost.

## 4. Fairness

* `AccountHealth!FairSpec`: the clock advances; the cleanup's ticker fires and
  its goroutine goes on (`manager.go:98-115`); a request that has sent gets an
  answer, as the upstream client has a timeout; its next command is executed or fails;
  a background refresh ends. Nobody is obliged to send a request, to
  submit an account, or to answer "allowed".
* `TokenRefresh!FairSpec`: the clock, and every caller's next step. All
  commands have timeouts, and so has the OAuth call (30 seconds). Faults,
  calls and the administrator have no fairness.
* `RelayRequest!FairSpec`: the next step of a handler that has started, whichever
  way it goes: its commands, the token refresh and the upstream client have timeouts.
  Nothing is asked of the other writers, which may change every account between any
  two steps.
* `ServerProcess!ServerFairSpec`: the clock and main's goroutine: Shutdown gives
  up at its deadline and the deferred calls run. No request is obliged to end, and
  Shutdown need not ever find the connections idle.

All of it is weak fairness on the steps of a goroutine, which the Go scheduler
gives; no strong fairness is used.

## 5. The proofs

TLAPS checks all of the following for every value of the constants that
satisfies the `ASSUME`s of the modules.

**`AccountHealthProofs`.** The inductive invariant is
`HealthInv == TypeOK /\ Busy /\ Known /\ AllDated`.
`TypeOK` alone is inductive only with `Busy` (a job that is not idle has an
account, and a response if it writes); the action properties need `Known` (the
writes the cleanup intends are due by the record it has read, which it read in
the past); `StopCanBeLifted` follows from `AllDated`: every write that stops an
account writes `stoppedAt` in the same command, and no other write erases it.
One lemma per kind of writer says
what a write does to a record (`TokenWrites`, `FiveHourWrite`, `CooldownWrite`,
`RequestWrites`, `SweepWrites`); `Records` says that a step changes a record by
one of these writes only; `Requests`, `Cleanup` and `Counters` do the other
variables. Theorems: `TypeCorrect`, `StopIsDated`, `PauseEnds`, `StopEnds`,
`BackWhenOver`, `OnePass`. `OnePass` is the safety half of the liveness properties of
accounts. It needs, besides the dated stops, that no write makes an account
"created" again (`InUse`), and `PassedFields`, which says of each field what a pass
makes of it. That `Passed`, an operator on one record, is what the cleanup does
by single commands is the lemma `SweepMakesPass`, with `InTurn` as its invariant:
the writes still to come are the last ones of those that are due.

**`TokenRefreshProofs`.** `LockInv` says that whoever is between taking the lock
and its last write under it owns the key, took it at most `HoldLimit` ago, and
that the key expires `LockTTL` after it was taken. With `HoldLimit < LockTTL`
(`RefreshAssumption`) no other caller finds the key gone: this gives
`Exclusion` and `OwnerReleases`, also with the administrator. The assumption is
where the code's 30-second OAuth timeout and 60-second TTL enter: without it
exclusion does not hold, as the mutant `AcquireBriefly` shows. `LockExpires` is the
safety half of `LockIsFreed`: its invariant `Timely` says that a lock's deadline
is never more than the TTL away. `StoreInv` adds that the
generation in hand is the server's last one (`Current`, `InOrder`), which gives
`TokenNotBurnt` and `StoreIsMonotone`; `FromBase` adds that what a call has in
hand is not older than what was stored when it began, which gives
`ResultIsRecent`. `RefreshIsSerial` shows that initial states and steps of `TokenRefresh`
map to initial states and steps, or stutters, of `SerialRefresh`. These
four are about `Spec`: the administrator's write can undo what they say.

**`StainlessBindingProofs`.** `OneIdentity` rests on `BindingInv`: until it is
done a request has in hand nothing but what it came with (`InHand`), and
while there is no fingerprint no request that is done has sent a bound header
(`NoTrace`); so the one that sets the fingerprint contradicts nobody before it,
and everybody after it sends what is stored. `OneCapture` needs no invariant.

**`RelayRequestProofs`.** `RelayInv` is about each request by itself (`JobInv`) and
about the bindings. Of a request: the loop's counter (`Limited`), what is set at
which point of the handler (`Staged`), and two facts on its history: an account that
was tried is excluded, or the attempt was one of the first two 403s (`Sorted`); and
a bound account that is still in the pool was tried first, or could not be read when
it was to be selected (`Bound`). `AskedAgainOnlyAfterForbidden` and
`BoundTriedFirst` follow. A request changes no other's variables, so that the lemmas
(one for each step, `...Job`) are about one request, and the theorems hold for any
number of them. `BindingsExpire` is inductive with `StoreOK`: whoever leaves a
binding without TTL is at the command that gives it one, or has lost it.
`MovesForCause` is the invariant applied to the one step that names a session's
account. `SteadyReached` shows more than an invariant: under the assumption that one
account is always available, a listing in progress has it still to read, or among
its candidates, or has excluded it or failed to read it (`Steady`); so whoever is
turned away had a reason that has to do with this account or with the number of
attempts, and the best candidate is not of lower priority. `LoopEnds` is the safety
half of `RequestsEnd`: `StepsLeft` and the accounts still to be read get smaller
with every step that is not a new attempt (`StepCounts`, from `Closer` and
`FurtherOn`), and attempts are limited, so that with the fairness of the steps the
loop ends. The last conclusion is liveness and stays with TLC.

**`RequestIdentityProofs`.** `IdentityInv`: user id and hash of the latest
attempt are those that the client's body and the attempt's account give, and
nothing of an earlier attempt. `SameSessionSameIdentity` then rests on the shape
of rewritten ids: the account is part of the session's hash, and the client's
session, or "default" for a user id without one, is the other part. `LatestInv` says
that what was sent is what Transform makes of the body; `IdentityTypeCorrect` and
`BlocksLimited` then are facts about bodies of any length. `RemoveCacheControls` and
`Filtered` are defined by counting (a block keeps its cache_control if fewer
blocks than there are to remove come before it), so that the lemmas about them (`Removed`,
`After`, `FilteredAll`, `BothSides`) count, and where the count of one more
block is needed for all, the least block without it is taken: `Induction` states
the induction over the natural numbers as a fact about sets of numbers, from the
existence of a least element (`LeastOf`), and needs no operator as a parameter.

**`AccountRegistryProofs`.** `DeletedStay` rests on `CreatedOnce` (an id that is
being created is neither listed nor deleted, and only one handler creates it) and
`DeletedWasThere` (what is being deleted is listed, or another deletion of it was
faster), and on one lemma about commands that are executed or not, answered or not
(`Commands`, `Writing`). `NoDuplicate` and `AcknowledgedIsThere` rest on `PoolInv`.
`Orderly` says for an organisation whose searches do not overlap and read all they
list: the one handler at work on it has not passed its account in the index, and
once it has found or created one, there is no other. `OneOrg` says that an id
belongs to the organisation of everybody who has worked on it, and `Pooled` follows
an account from its creation to the answer, until a deletion removes its hash or its
id (`Gone`). `EveryIdHasOneLife` is the refinement: of all the steps, only the two
that write the index change the life of an id, and what `CreatedOnce` and
`DeletedWasThere` say of these two makes them steps, or stutters, of `AccountLife`.
`OrderIsImmaterial` is about the choice alone: between two listings of the same
organisations without ties, it is the same.

**`TransportPoolProofs`.** `RouteIsRight`: everything pooled under a key was
built for an account with this key (`Routed`), and accounts with the same key
have the same proxy address (`SameKeySameRoute`; it needs the key of the direct
route to differ from every host and port). `RecentIsKept`: within the idle
timeout after a use the transport is still pooled, dated no earlier than the use
(`Recent`), so that the next user of the route finds the same one, until the
pool is closed.

**`ServerProcessProofs`.** `ServerImplementsPool`: every step of the process is a
step of `TransportPool` or leaves the pool alone, so that the pool's theorems hold
in the process (`ServerRoutes`). `ServerInv` says that after Shutdown returned
without an error all connections are closed (`Quiet`), that the pool is closed only
after that (`ClosedLate`), and that an exit code other than 0 has a cause
(`WithCause`): `NobodyIsClosedUnder`, `CutAfterLimit`.

Five theorems are about properties that no run lists: `StopIsDated`, `DeletedStay`
and `OneCapture` are what `OnePassIsEnough`, `ImplementsAccountLife` and
`SameIdentity` rest on, which the runs check; `LockExpires` is the safety half of
`LockIsFreed`; and `StoreIsMonotone` follows from `ImplementsSerialRefresh`.
`OrderIsImmaterial` is about a choice, not about a behaviour, and
`ServerImplementsPool` carries the pool's theorems over to the process.

Every safety property of the passing runs is proved. TLAPS does not do liveness or
ENABLED: `StopsAreLifted`, `AlwaysBackOrDeadEnd`, `LockIsFreed`, `CallsEnd`,
`RequestsEnd` and `SignalEndsProcess` are model-checked only, and so are the
counterexamples to the three properties that the code violates.

## 6. What the code does that its documents do not say

Modelling showed more than the three findings. These are observations on
behaviour that the models contain, but for `lastUsedAt`; no property contradicts them.

* The last attempt's 429, 529, 401 or 403 is forwarded without being recorded on the
  account (relay.go:213), which the next request may select at once; the table at
  README.md:118-123 makes no such exception.
* A shorter cooldown overwrites a longer one: an overload after a ban cuts the
  ban's pause (relay.go:341, 360; the ban's comment is at relay.go:378).
* After a wait for the lock, token and expiry are read by two commands
  (token.go:95-103): the token returned may be the superseded one, judged
  by the new expiry. `ResultNotOlder` still holds.
* The administrator's tokens are stored without the refresh lock (admin.go:50):
  a refresh under way may overwrite them by older ones.
* Retries leave the session's account (relay.go:157); the refusal to switch in
  mid-conversation (README.md:102) holds for the first attempt.
* It does not hold if one Get fails. When the scheduler cannot read the session's
  account, it takes it for one that is not there and selects from the pool
  (scheduler.go:39-47): the request is sent elsewhere and, on success, its session is
  bound elsewhere, although its account is there and available. When the check
  before that cannot read it (relay.go:121-134), a request of an old session is
  refused, and any other is treated as unbound. `BoundTriedFirst` and
  `BindingMovesForCause` name the first (`missed`) and permit the second, since the
  request then knows of no binding.
* One failing command may turn a request away with 503 although accounts are
  available: the listing of the ids (scheduler.go:63-66), or the read of the only
  available account (store.go:127-130). `SteadyAccountIsReached` says that the failed
  read of one account hides no other.
* A session whose account is paused but active is turned away with 503
  (scheduler.go:44), whether or not other accounts are free.
* `lastUsedAt` is taken from the clock and written by a command some time after
  (relay.go:269-275): of two requests that end at the same time the earlier time may be
  written last, so that an account's last use goes back.
* The cleanup judges by what it read up to four commands before: it may lift a
  5-hour stop that a request has just renewed (manager.go:137), and clear a cooldown
  that has just been written (manager.go:162). `StopEndsOnlyWhenOver` and
  `PauseEndsOnlyWhenOver` permit both, and exclude that anybody else does it.
* `markError` marks an account by what a failed call saw (token.go:203), also if the
  administrator has stored good tokens in the meantime.
* The request that loses the race for the fingerprint also sends headers of its
  own that the fingerprint does not have (stainless.go:52).
* Two submissions of one organisation at the same time create two accounts
  (admin.go:34-82), and so does a search that cannot read the hash of the existing one
  (store.go:127-130); `OneAccountPerOrg` excepts both by name.
* The administrator is told that an account is active also when the update that writes
  its organisation failed, as its error is dropped (admin.go:54, 80). The account works,
  but is not found by its organisation: the next submission creates a second
  one. `SubmittedIsPooled` requires the organisation of the others only.
* An id whose hash was removed while it stayed in the index (the SREM of redis.go:92
  failed) cannot be deleted any more: the handler finds no account and answers 404
  (admin.go:134).
* An HSET that comes after a deletion creates a hash again, outside the index
  (redis.go:81-87); it is never listed or selected from the pool.
* Transports are shared by proxy address, with the credentials of the account
  that came first (transport.go:115-120), where README.md:99 speaks of a transport
  of its own for each account; `RightRoute` is about the address.
* `SelectOptions.SessionHash` is never set: the sticky session of
  README.md:132 is not reached.
* An account unblocked during a 5-hour stop becomes schedulable; only the window
  end, if there is one, keeps it from being selected (scheduler.go:119).
* A renewal of a binding that has just expired leaves a hash without accountId
  until its TTL ends (redis.go:141); an HSET that lands without its EXPIRE leaves
  a binding for ever (redis.go:132). `BindingsExpire` names the second case.
* Ties between organisations make the choice depend on the order in which the
  API lists them (oauth.go:118-133): submitting a user's session key again may then create
  a second account.
* Nothing writes `account_uuid` into an account's extInfo (what admin.go:41
  builds is orgUUID, orgName and email): the account part of every rewritten user id comes
  from the account's own id.
* User ids that do not match the pattern are all rewritten into the session
  "default" of the account, although a session UUID at their end binds them to
  accounts separately.
* Billing entries are removed from system prompts that are lists; one that is a
  string keeps its text.
* The stream of a response that breaks off on the upstream's side counts as a
  complete one (relay.go:304-322): the scanner's error is not looked at.
* When the limit of the shutdown has gone by, or the listener fails, `os.Exit(1)`
  skips the deferred calls (main.go:60-63), and cuts off what is still running. A
  background refresh is cut off by every exit: between the OAuth server's answer and
  StoreTokens this loses the account's refresh token (`NoTokenBurnt` in
  `TokenRefresh`, whose `Abandon` this is). A second signal during the shutdown is
  not read.

## 7. What is abstracted or left out

* Times are small numbers of one unit. RFC 3339 strings hold whole seconds; the
  models compare whole ticks. All `time.Now()` calls of one handler run are taken
  to return the time the response arrived. The cleanup uses one `now` per pass, as
  the code does.
* Tokens are generations: what tells grants apart is their order only.
* In `RelayRequest` the Opus deadline is part of `paused`. API keys bound to an account
  are left out: validateKey never returns one. `lastUsedAt` is left out: the order
  among accounts of one priority is any.
* Redis commands are executed at most once: that the go-redis client sends a command
  again whose reply was lost is not modelled. A SETNX that is repeated finds its own
  key, which is what its lost reply comes to (`LoseAcquire`, and the second read of
  `StainlessBinding`); the other commands repeat what they did.
* Hashes in `RequestIdentity` are what they are made of: two inputs never have
  the same. Text is what the code looks for in it.
* In `ServerProcess` net/http is external: a connection is idle or active, and a
  look of Shutdown at the connections is one step. `WriteTimeout`, which ends a
  response that takes longer than the request timeout, is a request's end like any other.
* What remains of a deleted account's hash is `AccountRegistry`'s subject;
  `RelayRequest` drops deleted accounts from its sets.
* Not modelled, because nothing of it changes state: the dialing of proxies and
  TLS fingerprints (I/O); warmup answers, the header allow-list and the required
  headers (constants and fixed texts); the routes, the health check and the
  telemetry sink; the error table and the sanitising of messages (regular expressions on
  text); API key check and configuration (comparisons with constants).
* Not modelled, because a model would restate a library: key derivation, AES-CBC and
  padding. Tokens are opaque.

## 8. Plan

Done, in this order: the record and its writers with proofs (the part on which every
request depends), the refresh protocol with its abstract specification and proofs,
the retry loop with bindings and their TTL and with its proofs, the stores of
fingerprints and accounts with the OAuth exchange, the transformation of bodies, the
transport pool and the process around it.

What would come next, in order of weight:

1. *Composition of selection and record*: bind `RelayRequest`'s `active` and
   `paused` to `AccountHealth`'s record (`Change` refined by the writers of
   `AccountHealth`), as a refinement of the free environment. What holds under the free
   environment holds under this one; new would be the question how
   many requests reach an account before its first pause is written.
2. *What the last attempt leaves behind* (relay.go:213): how long an account that
   only ever answers last attempts stays in the pool.
3. *The deadline of a 429* (`parseRetryAfter`) and *padding* (crypto.go), as
   algorithms against reference definitions.
