# Specifications of loginid-takehome

TLA+ modules, TLC configurations and TLAPS proofs for the Go services of this
repository. Paths below are relative to the repository's `src/`.

`PROJECT.json` lists the components, the runs, the mutants that show what each
property can catch, the lines each definition models, the findings, the hazards
and the theorems.

## 1. The system

Two binaries. `cmd/api-service` runs in two modes, *issuer* (mints tokens) and
*verifier* (serves profiles), and once more as a batch job (the retention sweep).
`cmd/idp-connector` fronts an identity vendor.

| Component | State | Operations | Talks to |
|---|---|---|---|
| Touch counter, `internal/api/touchcounter.go` | per caller: window start, records touched, budget reserved; time of last sweep | `Reserve`, `Settle` | called by the handlers |
| Profile handlers, `internal/api/handlers.go` | a reservation per request in flight | search, read | rate limiter, touch counter, authorizer, DAO |
| Rate limiter, `internal/api/ratelimit.go` | per caller and scope: minute and count | `Allow` | called by the handlers |
| JWKS cache, `internal/api/jwks.go` | key set, times of last fetch and attempt, failure streak, refetch times of unknown kids | `KeyForKid` | JWT middleware; fetches from the issuer |
| Grant limiter, `internal/api/grantlimiter.go` | per client and per source IP: failures, end of block, alert latch | `Allow`, `RecordFailure`, `RecordSuccess` | token endpoint, connector |
| Token endpoint, `internal/api/tokenhandler.go` | an attempt in flight | `POST /auth/token` | grant limiter, client store |
| Client store, `internal/api/clientstore.go` | table `oauth_client` | `Get`, `UpdateSecretHash`; operators rotate and revoke with SQL | token endpoint |
| Signing key and JWKS endpoint | a key pair for the life of the process | `GET /.well-known/jwks.json` | fetched by the JWKS cache |
| Onboarding, `internal/onboarding` | the cached own token and its expiry | `Token`, `Invalidate`, `VerifyIdentity` | token endpoint, connector |
| Connector, `internal/connector` | a grant limiter, tracked identities, an overflow limiter | `POST /auth`, `POST /identity` | the vendor |
| DAO, `internal/dao` | profiles, credentials, methods, deletion log, in SQLite, PostgreSQL or CockroachDB | CRUD, search, create with credential, `DeleteProfile`, `DeleteExpired`; retry of serialization failures | handlers, sweep |
| Retention sweep, `internal/sweep` | progress through the classes | `Run` | DAO, run store |
| Run store, `internal/sweepstore` | table `retention_sweep_run` | `StartRun`, `FinishRun`, `PruneOlderThan`, `LatestSnapshots` | sweep, `/metrics` |
| Configuration, wiring, model, audit, masking, cursors | none after start | | |

### What is hard here

Every HTTP request is a goroutine; shared state is guarded by short critical
sections, and everything slow (a database call, a fetch, Argon2id) runs
**between** two of them. So the questions are about what happens in between:

- *touch counter*: capacity is checked before the records are known; a request
  may reserve in one window and settle in the next; many exits must release once.
- *JWKS cache*: fetches overlap, fail and end out of order; a key set must not be
  trusted for too long nor distrusted too early; made-up kids cost no signature.
- *grant limiter and token endpoint*: attempts admitted together all fail after
  the block begins; the shifted backoff wraps; the sweep, the alert latch and
  the success path all rewrite entries; a rehash writes after someone else did.
- *onboarding and connector*: an unlocked token refresh against `Invalidate`;
  retries in one component that feed the backoff of the other.
- *DAO and sweep*: transactions that select, then delete; retention classes that
  depend on another table's rows; a crash between the two writes of a run.

What makes each correct:

- touch counter: a bound on what one caller is shown per window, however requests
  overlap; no path burns or doubles a reservation.
- JWKS cache: a bound on how far an answer lags behind the issuer, both ways; a
  bound on fetches forced by unknown kids; no kid starves another.
- grant limiter: blocks stand until they end; guesses per round are bounded; one
  alert per run of failures; with the token endpoint, secrets that were replaced
  stay replaced.
- onboarding and connector: a rejected credential is reported as such; the two
  limits keep each other's promises; tracked identities stay bounded.
- DAO and sweep: no profile is deleted that no longer qualifies, every deletion
  is logged once, an orphan is never made by creation; readers of the run store
  can tell skipped, died and completed runs apart.

## 2. Modules

```
TouchCounter  <-  ProfileAPI  <-  MCProfileAPI                (TLC)
                              <-  ProfileAPIProofs            (TLAPS)
JWKSCache     <-  MCJWKSCache                                 (TLC)
              <-  JWKSCacheProofs                             (TLAPS)
GrantLimiter  <-  TokenEndpoint  <-  MCTokenEndpoint          (TLC)
                                 <-  TokenEndpointProofs      (TLAPS)
GrantLimiter  <=  Connector      <-  MCConnector              (TLC, two instances)
                                 <-  ConnectorProofs          (TLAPS)
PowersOfTwo   <-  GrantLimiter, Connector
              <-  PowersOfTwoProofs  <-  TokenEndpointProofs, ConnectorProofs
Onboarding                                                    (TLC, with liveness)
              <-  OnboardingProofs                            (TLAPS)
ProfileStore  <=  DAO            <-  MCDAO                    (TLC, refinement)
                                 <-  DAOProofs                (TLAPS, refinement)
Sweep         <-  MCSweep                                     (TLC, with liveness)
              <-  SweepProofs                                 (TLAPS)
```

`<-` is EXTENDS, `<=` INSTANCE. `Connector` and `Onboarding` are the two ends of
the same calls: each module takes from the other component what its answers can
be (`Onboarding`: a 429 exactly while a counted failure blocks the caller).
`Sweep` takes from `DAO` that a batch is one atomic step.

Time is an integer that a `Tick` advances; the durations of the code are
constants in ticks. Actions between two ticks take no time. `Connector` and
`Onboarding` keep every time as its distance to now, so their clocks have no
bound. A mutex-protected section is one action. Operators named `X_Something`,
marked *Regression*, are not part of a specification: each is `X` with a
plausible bug, and a mutant of `PROJECT.json` shows that a property notices it.

### TouchCounter and ProfileAPI

| Code | Model |
|---|---|
| `c.windows`, `c.lastSweep`, `c.now()` | `windows`, `lastSweep`, `now` |
| `sweepLocked`, `currentWindow`, `Reserve`, `Settle` | `SweptWindows`, `CurrentWindow`, `Reserve`/`ReserveDenied`, `Settle` |
| a goroutine in a handler, with its `touchReservation` | `req[r]`: where it is, the caller, the size of its reservation |
| `reserveTouches` and the 429 | `ReserveTouches`, `CapExceeded` |
| `Authorize`, the DAO call, any exit by error, cancellation or panic | `Authorize`, `QueryReturns`, `QueryFails` |
| `tr.settle` and the response; the deferred `tr.release` | `SettleAndRespond`, `Release` |

A search reserves its page, a `profile:read:any` one record; both are a request
with a `want` in `1..MaxPage`. `home` and the variables `epoch`, `disclosed` and
`straddled` are history: no guard reads them. A request is a *straddler* when it
settles in a later window than it reserved in. The code gives straddlers no
exact bookkeeping, so the properties say what is promised in spite of them, with
`straddled` as the measure of what they brought; without straddlers it is zero.

- `DisclosureCap`: per window a caller is shown at most `Cap - 1` records, plus
  one request's page, plus the straddlers' budget.
- `NoBudgetLeak`, `InFlightCovered`: what a window has reserved is bounded from
  above and below by what its requests in flight hold.
- `DisclosedIsCounted`: what has been shown in a window is counted in it.

### JWKSCache

| Code | Model |
|---|---|
| `c.keys`, `c.fetchedAt`, `c.lastAttempt`, `c.consecutiveFailures`, `c.unknownKidRetryAt` | `keys`, `fetchedAt`, `lastAttempt`, `failures`, `retryAt` |
| `KeyForKid` up to the first unlock, and its branch | `KeyForKid` |
| `refresh` before and after the fetch | `BeginFetch`, `FetchSucceeds`, `FetchFails` |
| the issuer's answer | `IssuerServes` |
| `enforceStaleness`, `lookupKey` | `EnforceStaleness`, `LookupKey` |
| `reserveUnknownKidRetry` | `ReserveRetry`, `RetryDenied` |
| the request deadline (`NewDeadlineMiddleware`) | the guard of `Tick` |
| the issuer's key rotation | `Publish` |

The issuer's answer and its arrival are two actions, so answers arrive late and
out of order. `since` and the `lag` in an answer are history: how long the
answer has disagreed with what the issuer publishes. `outOfBand` is history
too. `staleAlerted` only guards a log line and is left out. A context that ends
during a fetch is a failed fetch. The model assumes that a request ends with its
deadline; the code enforces that for the fetch (the only step that takes time)
by its context.

- `TrustBound`: a key is never accepted more than `3*TTL + 2*Deadline` after the
  issuer withdrew it. One `Deadline` is the fetch whose answer was already old
  when `fetchedAt` was set, the other the request that checked the age and then
  went on. TLC reaches the bound exactly.
- `RotationBound`: nor is a kid reported unknown that the issuer has published
  for longer than that; a flood of made-up kids does not change this (the run has
  one kid, the theorem any number, and the refusals of a full table with them).
- `OutOfBandBound`, `NoSqueeze`: at most `MaxTracked` extra fetches per
  interval, and a kid is refused its own only for its own recent refetch or a
  full table.
- `TypeOK` also says that lookups happen only in a populated cache.

### GrantLimiter and TokenEndpoint

| Code | Model |
|---|---|
| `byClientID`, `bySourceIP`, `lastSweep` | `byClientID`, `bySourceIP`, `limiterSweep` |
| `Allow` with `sweepLocked` | `Sweep`, `Allowed` |
| `advance`, `RecordFailure` with the alert | `Backoff`, `Advanced`, `RecordFailure` |
| `RecordSuccess` | `RecordSuccess` |
| `oauth_client` | `store`; a hash is the version of the secret it was made from |
| `NewTokenHandler` | `Admit`, `GetClient`, `GrantFails`, `GrantSucceeds`, `Rehash` |
| the runbook's two UPDATE statements | `Rotate`, `Revoke` |

The backoff is computed in two's complement of `Width` bits. `GrantAssumption`
states the numeric condition under which the code's guard against overflow is
sufficient (theorem `BackoffIsCapped`); it holds for 1 s and 5 min in 64-bit
nanoseconds, and TLC evaluates it for the instance. The powers of two are the
recursive function `Pow2` of `PowersOfTwo`, about which the proofs can reason.

- `BlocksStand` (an action property): a block set by a failure is only ever
  extended, until it is over or a grant on that key succeeds.
- `GuessBound`: on any key, failures are at most the number of concurrent
  attempts times the rounds of blocks that fit in the time since the first one,
  although `Allow` and `RecordFailure` are apart.
- `AlertPerCrossing`: exactly one alert per run of failures at the threshold.
- `NoSecretReturns` states what two documents say of the rehash (section 4).

### Connector

| Code | Model |
|---|---|
| the caller's `GrantLimiter`, `underlying`, `overflow` | `caller`, `own`, `overflow`, with the operators of two instances of `GrantLimiter` |
| `trackedAt`, its `lastSweep`, that of `underlying` | `quiet` (ticks since the last activity), `trackSweep`, `ownSweep` |
| a goroutine in `NewAuthHandler` or `NewIdentityHandler` | `req[r]` |
| the caller's `Allow`, the body | `Arrive`, `BadRequest` |
| `identityGateAllow`: `trackOrCheck`, then the bucket's `Allow` | `Gate`, `AllowOwn`/`AllowOverflow` |
| the vendor's answer, or none | `VendorAnswers` |
| `Limiter.RecordSuccess/Failure` | `Record` |
| `identityGateRecord...`: `trackOrCheck`, then the bucket's record | `Check`, `RecordOwn`/`RecordOverflow` |

The one caller is the api-service. The caller's limiter and `overflow` have one
key, so their entry is a variable; a sweep of theirs may drop it once it is over
for `EntryTTL` (`Kept`).
`age` bounds a request by `vendorCallTimeout`. `admitted` is history.

- `BlockedIsTracked`: an identity that its own bucket blocks is tracked, so no
  attempt on it escapes to the shared bucket. Two clocks and two sweeps, one per
  limiter, must agree on this.
- `EntriesBounded`: tracked identities stay within the cap, the live entries of the
  wrapped limiter within **twice** the cap: a key leaves `trackedAt` on its own clock while
  its entry, whose lifetime counts from the end of its block, lives on.
- `RecordedWhereAllowed`: what an own bucket admitted is recorded there, however
  many identities arrive in between.

### Onboarding

| Code | Model |
|---|---|
| `TokenSource.cached`, its `expiresAt` | `cached.tok`, `cached.until` |
| a goroutine in `VerifyIdentity` | `ver[v]`: flow, call, attempt, its copy of the token |
| `Token`: cached, or a fetch without the lock | `CachedToken`, `Fetch`, `Fetched`, `FetchFails` |
| `callAuth`, `callIdentity` and their retry loops | `Succeeded`, `Failed`, `ContextDone` |
| `Invalidate`, the one repetition of the flow | `Reject` |
| the connector: 401 for the token, 429, the vendor's 401, success | `OwnTokenRefused`, `SlowDown`, `VendorRejects`, `VendorAccepts` |
| no connection, timeout, 5xx, unexpected body | `Unreachable`, and `Lost` after an effect |
| a signing key is withdrawn | `Revoke` |

A lost answer after a counted failure is possible (`VendorRejects` with `Lost`):
the retry then counts once more. `OwnTokenRefused` is always possible: the connector's
middleware answers 401 to a token that is expired or revoked, and the same to a good one
when `KeyForKid` fails (a stale cache beside another caller's refetch, no issuer on a cold
start, a new kid whose refetch is denied). `counted` and `unverified` are history: the
failures counted, and the refusals of a good token; after an unanswered call the
verification has no budget to keep.

- `NeverExpired`: what `refreshMargin` is for. Two fetches may end in either order,
  and an older token then replaces a newer one.
- `FailureBudget`: a verification whose calls are all answered is charged at most two
  failures by the connector's limiters, although the whole flow is repeated.
- `RejectionIsEarned`: a 401 is ambiguous, and the second flow is there to tell a refused
  own token from a rejected vendor credential. It absorbs one refusal, whatever others do
  to the shared token in between: who is told of a rejection was rejected by the vendor, but
  for two causes. A token was revoked, or the middleware failed to verify a good token in
  both flows (section 4).
- `RetriesBounded` (an action property): the retry loops and the repetition of the flow
  nest, and share a token that others replace and invalidate. `StepsLeft` is what a
  verification may still do at most; its own steps lessen it, those of others leave it.
- `VerificationEnds` (liveness): every verification ends.

### ProfileStore and DAO

`ProfileStore` is what `internal/dao` promises: each operation takes effect at one
instant between call and return, or not at all (`Apply`, `ApplySweep`, `Refuse`).
`DAO` is the code, statement by statement, on three engines.

| Code | Model |
|---|---|
| `user_profile` with `user_credential` (`ON DELETE CASCADE`), `deletion_log` | `store`, `log` |
| a call and its transaction | `tx[c]`: uncommitted `writes` and log entries, candidates left, attempt |
| the statement of each operation | `InsertProfile`, `InsertBoth`, `UpdateProfile`, `UpsertProfile`, `RemoveProfile`, `EraseProfile`, `InsertCredential`, `RemoveCredential`; `RowMissing` |
| the composites' second statement | `CredentialStatement`, `LogStatement` |
| `DeleteExpired` | `SelectCandidates`, `RemoveCandidate` |
| `withRetry`, `retryLoop`, `isRetryable` | `AfterCommitError`, `StatementRefused` |
| commit: done, refused, or done with the answer lost | `Commit`, `CommitRefused`, `CommitAnswerLost` |
| SQLite's read of what was written | `ReadBack` |

The engines are external. SQLite has one connection, so one transaction at a time;
the two others lock a row from the statement that writes it to the end of the
transaction; CockroachDB may refuse a statement or a commit with 40001, and a
commit validates what was scanned. A row's clocks are `old` or `new` with respect
to its retention cutoff.

The refinement mapping is

```
Store == INSTANCE ProfileStore WITH
  op <- promised,  snapshot <- engine = "postgres"
```

`store` and `log` map to themselves, `promised` maps each `tx[c]`: a call is pending until its commit, and done
from then on. A retried attempt is a stutter, and so is every statement. `snapshot`
weakens the promise for one engine: PostgreSQL evaluates the `EXISTS` of
`DeleteExpired` in the snapshot of its statement (section 4).

- `StoreSpec`: `DAO` implements `ProfileStore!Spec`. In particular no composite is
  seen half done, each erasure is logged exactly once, a drained class is empty at
  the commit, an error of a lost commit answer is never retried into a second effect.
- `RefreshedSurvives` (an action property): a row refreshed between the selection
  of a batch and its own deletion survives the batch, on every engine.

### Sweep

| Code | Model |
|---|---|
| the CronJob: schedule, `Forbid`, starting deadline, active deadline, backoff | `StartJob`, `SkipSlot`, the guard of `Tick`, `PodFailed` |
| `runSweepMode`: start, connect failure, exit code; any death of the process | `Launch`, `Crash`, `Finish` |
| `runClass`: `StartRun`, the batches, `FinishRun` | `RecordStart`, `Batch`, `BatchFails`, `RecordFinish` |
| `retention_sweep_run` | `table`, the newest row of a class first |
| `LatestSnapshots` and the alert rule | `LastFinishedAt`, `NotReportingAlert` |
| other writers of the rows | `Insert`, `Refresh`, `Move` |

`allClasses` are the classes that are swept, in order; a row may be in any of the three. It
changes class in two ways: `Move` is its first credential made or its last one deleted,
`Refresh` is `Update` or `Upsert`, which set `source` with the clock. A direct profile
without credentials that is upserted as a cached one becomes an orphan, due at once on its
old `created_at`. A candidate of a batch may meet either between the selection and the
`DELETE`, whose predicate then spares it (`Candidates`, `Deletes`, `Spared`).
Deletions of profiles by others are left out: they only take rows away.

`since` of a row is history: when a row entered its class (an orphan becomes one with the
deletion of its last credential, on a `created_at` that may be long past).

- `FinishedMeansSwept`, `SuccessMeansSwept`: what a finished row of the run store and
  an exit code of 0 vouch for, while rows are made, refreshed and change class.
- `OldestIsOldest`: the gauge behind `RetentionWindowExceeded` hides no older row.
- `NoFalseSkips`: missed slots are never more than the scheduled times between.
- `BatchesBounded` (an action property): a run only goes forward, and each full batch
  leaves its class fewer rows that are due. With the cutoff fixed, neither time nor new
  rows add to them; a profile that changes class may, by its source or its credentials,
  once for each change.
- `RunEnds` (liveness): so a run ends by itself.

## 3. The passing runs

Each takes at most about three minutes with two workers. Deadlock is checked everywhere but
in `sweep`, whose clock has a bound at which the system may stop.

| Run | Instance | Why that is enough |
|---|---|---|
| `profile_api` | 2 callers, 4 records, 2 requests, cap 2, pages up to 2, window 2, 4 ticks | two rollovers and a sweep; a request of one window next to one of the next; overshoot and straddlers at once |
| `jwks` | 2 callers, 1 kid, all durations 1, 7 ticks | the lag bound is 5 ticks: the run goes past it; a fetch overtaken by a newer one |
| `jwks_flood` | 1 caller, 3 kids, table of 2, interval 2, 3 ticks | more kids than slots; slots expire and are used again |
| `token` | 1 client and the empty id, 2 source IPs, 2 attempts, 3-bit backoff, threshold 2, 3 ticks | the backoff wraps at its third failure; entries are swept and made again; 2 secrets |
| `connector` | 2 requests, 3 identities, room for 1, TTL 4, backoffs up to 2 and 3 ticks | two identities beyond the cap; a slot is swept and taken while a request of its former owner is served |
| `onboarding` | 2 verifications, tokens of 4 ticks of 10 s with a margin of 3, 1 retry per call, 1 revocation | fetches overlap and end in either order; a token is revoked between two calls; good tokens are refused any number of times; the margin is as tight as the code's |
| `dao` | 2 clients, 1 profile, all nine operations, 3 engines, 2 attempts | every pair of operations on the same row, with every loss and refusal of a commit; a full batch and an empty one (batches of several rows are covered by the proofs only) |
| `sweep` | 2 rows in 3 classes, of which 2 are swept with windows 0 (direct) and 1 (orphan), batches of 1, 2 changes of class, a schedule of 1, records kept for 1; up to time 1 with 2 rows, 2 with one, 3 with none | several full batches of the direct class, each beside a writer; a row enters and leaves each swept class in every way while it is swept, also after an earlier run that finished; a third scheduled time after one that was skipped or whose run died, so that missed slots are counted and old records pruned |

Bounds, all in guards: `MaxTime` (clock), `MaxFailures` (the streak counter
saturates; only zero and not zero are told apart in `JWKSCache`, and in `Connector`
the backoff has its maximum by then), `MaxVersion` (rotations), `MaxRevocations`,
`MaxLog` (deletions of an id before it is made again), `MaxMoves` (changes of a profile's
class, with the candidates that are spared), `MaxRowTime` (the clock by the
number of rows: with each row less time passes, and with none the run is about the
schedule and the run table). Two orphans in one run, which need two rows at time 2, are
left to the proofs; the code of a batch is the same for both classes. `sweep` has `BackoffLimit` 0, for the code's 1: a
second pod of a job differs from the first pod of the next only in its time.
Symmetry is used for requests, callers, records, kids, IPs, identities, clients and
profiles, in runs of safety properties none of which picks out a member, never with
liveness.

Fairness. `Onboarding` assumes weak fairness of `Step(v)` for each verification: a
goroutine is scheduled, and the contexts of `TokenCallTimeout` and
`ConnectorCallTimeout` end every call, so each step's outcome comes. Nothing is
assumed of which outcome, of the connector, the vendor, or the end of a block.
`Sweep` assumes weak fairness of `Sweeping`: the process is scheduled and its database
calls return; neither a crash nor a failure has to happen, so `RunEnds` does not
lean on the job's deadline. The other modules promise no progress.

## 4. What the code does that its documents do not say

| Run | Property | Disagreement |
|---|---|---|
| `token_rehash` | `NoSecretReturns` | "the row simply upgrades itself" (`handoff-03-auth.md:31`), "cannot be rehashed back into existence" (`multi-db-strategy.md:482`): a rehash that was overtaken by a rotation restores the old secret. |
| `onboarding_blame` | `RejectionIsGenuine` | the second flow runs "with a freshly-minted one before concluding the vendor credential itself was actually the problem" (`onboarding.go:117-118`), overlapping fetches are "never a correctness bug" (`token.go:150-151`): a fetch from before a revocation may fill the cache again after `Invalidate`, and the second flow fails for the own token too, with a middleware that verifies every good token. |
| `dao_retry` | `SerializationRetried` | "retries only when [...] the failure is a genuine SQLSTATE 40001" (`retry.go:47-50`), "every write goes through a `crdb.ExecuteTx`-style retry wrapper" (`multi-db-strategy.md:494`): `translateError` replaces the `PgError` of a statement before the retry loop sees it, so only a 40001 of begin or commit is retried. |
| `sweep_silent` | `SilenceIsReported` | the alert fires on "the age of the latest non-NULL finished_at", "as does a genuinely dead sweep" (`sweepstore.go:104-114`, `manifests.yaml:973-978`): `/metrics` exports the newest row's `finished_at`, and a run that died leaves it NULL: no series, no alert. |

The properties of the passing runs hold in spite of these, and make room for the
following, which reading the code for the models showed and no run is spent on:

- A reservation settled in a later window is said to lose its bookkeeping
  "harmlessly" (`touchcounter.go:193-194`); the settle subtracts from the new window's
  booking. `NoBudgetLeak` and `InFlightCovered` allow for it (`straddled`).
- "2,000 distinct records per caller per rolling 24h window" (`handoff-03-auth.md:13`):
  the window is fixed, its boundary admits nearly twice the cap.
- `ErrJWKSStale` is also returned beside the first healthy refetch after an idle
  spell (`jwks.go:98-99`), and a cold start within the retry floor returns the plain
  error (`jwks.go:106-109`), audited as a bad token. The connector's middleware then
  answers 401 to the api-service's good token (`jwtmiddleware.go:174-178`): one is absorbed
  by the second flow, but two make `VerifyIdentity` report a rejected vendor credential that
  no one rejected. `RejectionIsEarned` allows for it (`unverified`).
- A user's wrong vendor credential repeats the whole flow (`onboarding.go:157-163`).
  The first rejection blocks the caller for a second or more, so the repetition meets
  429s and may end as `ErrIdentityVerificationUnavailable`, not as the rejection that
  `onboarding.go:29-38` promises. In the model this is `SlowDown` up to the last attempt.
- "Bounded by maxTrackedIdentities" (`identitylimiter.go:218-221`) is twice that for the
  wrapped limiter's entries: hence the factor in `EntriesBounded`.
- On PostgreSQL a credential created between the snapshot of a batch and the deletion
  of its profile is cascaded away with it (`postgres/composite.go:104-110`): hence
  `snapshot` in `ProfileStore`.
- On SQLite a creation whose read-back fails returns an error although the rows exist,
  where `multi-db-strategy.md:275` says neither does (`Forget` in `ProfileStore`); and a
  broken foreign key is `ErrInvalidMethod` there, `ErrInvalidArgument` on PostgreSQL.
- Missed slots count from the completion before, not from its slot
  (`multi-db-strategy.md:338`), so one may be missing: `NoFalseSkips` is one-sided.
- A profile that becomes an orphan long after its creation can raise
  `RetentionWindowExceeded` though no sweep failed.

## 5. What is proved

`ProfileAPIProofs` proves, for all values of the constants under `TouchAssumption`
and `HandlerAssumption` (records and requests are finite sets; cap, window and
page size are positive):

`TypeCorrect`, `DisclosureCapHolds`, `NoBudgetLeakHolds`,
`InFlightCoveredHolds` and `DisclosedIsCountedHolds`, each
`Spec => []P` for the property of that name.

None of the properties but `TypeOK` is inductive alone. The invariant `IInv` adds

- `WindowIsEpoch`: the counter's window and the history's epoch begin together,
  and where the counter has no window the epoch is over. This is where the sweep
  matters: it drops a window only after its epoch is over.
- `HomeReached`: no request in flight reserved in a later epoch than the current,
  so when an epoch begins, nothing is booked in it yet.
- `Ledger`: records shown plus budget in flight fit the bound of `DisclosureCap`
  together. `DisclosureCap` alone says nothing of what is about to be shown.

The admission of a request preserves `Ledger` because `Reserve` tests touched plus
reserved, which by `DisclosedIsCounted` and `InFlightCovered` covers what was
shown and what is booked. An answer moves budget from booked to shown. Budget in
flight is counted as the cardinality of a set of tokens (`Tokens`), so that only
facts about finite sets are needed, and lemmas `TokensOfReserve`, `TokensOfMove`
and `TokensOfEnd` say how each action changes that set.

`JWKSCacheProofs` proves, under `JWKSAssumption` (finitely many kids, positive
durations), `JWKSTypeCorrect`, `TrustBoundHolds`, `RotationBoundHolds`,
`OutOfBandBoundHolds` and `NoSqueezeHolds`, for any callers.

The two bounds on the lag rest on an `IInv` that follows a key set from the issuer
to the answer, one conjunct for each leg:

- `BodyRecent`: a response on its way differs from what is published only in kids
  that changed after its request began; with `Timely`, at most one `Deadline` ago.
- `KeysRecent`: so a cached key set differs only in kids that changed after
  `fetchedAt - Deadline`, also when an older response overwrites a newer one.
- `CheckedFresh`: who looks a kid up began at most `MaxStaleness` after `fetchedAt`,
  and its own time adds the second `Deadline`. `fetchedAt` never goes back, so the
  steps of others keep this.
- `MissedRecently`: a goroutine that is refused the out-of-band refetch answers from
  a lookup it made earlier. The cache may hold the kid by then, so the lag of that
  answer follows from what the goroutine saw and not from the cache.

The limits on out-of-band fetches rest on `TableOK`: the retry table holds exactly
the fetches of the last interval (`Remembered`), and no more than fit (`Capped`).
The bijection between the two gives `OutOfBandBound` its cardinality and turns a
full table, as `reserveUnknownKidRetry` sees it, into that many real fetches.

`TokenEndpointProofs` proves, under `GrantAssumption` and `EndpointAssumption` (finitely
many concurrent attempts), `TokenEndpointTypeCorrect`, `AlertPerCrossingHolds`,
`BlocksStandHolds` and `GuessBoundHolds`. The type only says that a block ends at a natural
number; its bound is `BackoffIsCapped`. `IInv` adds that an entry is
marked as alerted exactly from the threshold on, which the sweep and a success keep
because they drop the mark with the entry.

- `BackoffIsCapped` is what the guard of `advance` is for: in whatever width the shift
  wraps, the backoff doubles from `BaseBackoff` and stays at `MaxBackoff` once there. A
  wrapped positive shift is a multiple of a power of two above the maximum
  (`WrappedMultiple`, `ShiftedValue`). Hence the backoff never decreases
  (`BackoffGrows`).
- `BlocksStand` follows: a failure that overlaps an earlier one blocks from a later
  moment for at least as long, and the sweep drops only what is over.
- `GuessBound` counts failures, but an attempt that was admitted and has not failed yet
  may fail at any moment. `AllPaced` therefore counts these as failures too: on each key,
  once failures plus pending attempts exceed `n` full rounds, the blocks of `n` rounds have
  been waited out (`Waited`). An admission finds the last block over (`PacedAdmit`), which
  was no shorter than that of the round just begun; a failure only turns a pending
  attempt into a counted one (`PacedFailure`).

`ConnectorProofs` proves, under `ConnectorAssumption`, `ConnectorTypeCorrect`,
`BlockedIsTrackedHolds`, `RecordedWhereAllowedHolds` and `EntriesBoundedHolds`. The
assumption that carries
the first three is about durations: tracking outlives a block and a request together. `IInv`
adds `HeldIsTracked` (who relies on a positive answer of `trackOrCheck` has kept its
identity tracked, by its own age at most) and `BlockIsRecent` (the block of a bucket
and the silence of its identity add up to less than that lifetime), so the sweep of
`trackedAt` cannot forget an identity that is blocked or in use.

`EntriesBounded` adds up two sets, and neither bound is inductive: entries are left behind by
identities that were forgotten, while new ones take their slots. `Room` looks ahead: at
whatever moment within the lifetime, if nothing more happens, at most `MaxTracked`
identities will be forgotten and still have an entry (`Lingering(x)`, `TrackTTL - x` ticks
ahead). A whole lifetime ahead these are the identities tracked now, and at once they are the
entries left behind: the two halves of the bound. A tick only brings the moment nearer
(`TickRoom`), and an identity takes a slot only if fewer than `MaxTracked` have one
(`TrackOrCheckRoom`).

`OnboardingProofs` proves, under `OnboardingAssumption`, `OnboardingTypeCorrect`,
`NeverExpiredHolds`, `FailureBudgetHolds`, `RejectionIsEarnedHolds` and
`RetriesBoundedHolds`. `IInv` adds `GoodCache` (a cached expiry
is at most one fetch later than the token's own), `GoodToken` (the token in use
outlasts the calls still ahead, whatever others put in the cache) and `GoodCount`
(each pass of the flow counts one failure at most). `Blameless`, on top of it: while nothing
was revoked every token is good, so that, none being expired, a 401 is the vendor's or a
refusal that `unverified` counts, and a second flow has seen one of the two already
(`Innocent`).
`RetriesBounded` takes one lemma for each way a step changes a verification: a failed call
uses up an attempt (`FailedRank`), an answer ends its retry loop (`SucceededRank`), and a
rejection ends the first of two flows (`AfterRejectionRank`).

`DAOProofs` proves, under `DAOAssumption`, `DAOTypeCorrect`, `StoreSpecHolds` and
`RefreshedSurvivesHolds`: `DAO` implements `ProfileStore` for any profiles, clients,
operations, engines and bounds. Each action has a lemma that it keeps `IInv` and is a
step of `ProfileStore` or a stutter. A transaction takes effect only when it commits,
so `IInv` says what it has written so far and that the committed rows still allow it:

- `OneRow`: the operation applies to the row as committed, and what was written is what
  the promise leaves there, but for the statement a composite still has ahead.
- `SomeRows`: what a batch has deleted qualifies, was logged, and fits the bound; on
  SQLite no candidate has been added since the selection.
- `Isolated`: two open transactions have written different rows, and on SQLite there is
  one at most. This is what lets a commit leave the others' `OneRow` and `SomeRows` alone.

`SweepProofs` proves, under `SweepAssumption`, `SweepTypeCorrect`,
`FinishedMeansSweptHolds`, `SuccessMeansSweptHolds`, `OldestIsOldestHolds`,
`NoFalseSkipsHolds` and `BatchesBoundedHolds`, for any rows, sequence of classes, windows,
batch bound and schedule. The claims are about a past start and rows that others keep
writing; what makes them stable is `Harmless`: a writer makes a row, moves it into its class
now, by its source or its credentials, or sets its clock ahead, and a cutoff in the past
notices none of these (`SweptKept`).
A batch spares a candidate only through such a change (`DeletesEvolve`), so one that was not
full drains its class (`BatchDrains`). `IInv` adds `RunSwept` (which classes a run has swept
so far), `OwnRecord` (the row that it will finish is still its own) and `TableSound` (each
finished row told the truth and still does), and `RunOK`: no process outlives its Job.

`NoFalseSkips` compares `missedSlots`, a quotient, with a number of scheduled times. The
lemma `TimesBetween` counts the multiples of the interval in a gap, by an injection of
`1..n` into them; `Justified` then says of each row that what it reports is at most the
count since the newest finished row before it, which later rows and prunings keep.

`BatchesBounded` compares the rows due before and after a step. What a full batch selected
is deleted, has its clock at now, or is in another class (`BatchForward`, by `SparedType`); a
row made or refreshed within its class is not due at a start in the past, so that a writer
adds at most the row whose class it changes (`WriterForward`). This is where `RunOK` (a run's start is past) is used again.

`PowersOfTwoProofs` is what the proofs about backoffs rest on. A recursive function is a
choice among the functions that satisfy its equation, so that there is one is proved first, from
its finite approximations (`RecursionExists`); then the equation (`Pow2Equation`), and by
induction the type, the sums and the order of the powers. The library's induction theorems
take an operator as a parameter, which the provers cannot instantiate, so each induction is
on a set of numbers and its least counterexample (`AllNaturals`). `Waited` uses the same
lemmas.

Every invariant and action property of the passing runs is thus proved. Only model-checked
are the two liveness properties, `VerificationEnds` and `RunEnds`: fairness and `ENABLED`
are out of the prover's reach. What each rests on is proved: by `RetriesBounded` a
verification takes finitely many steps, and by `BatchesBounded` a sweep does while only
finitely many profiles change class. What TLC adds is that there is always a next one, and
that a fair process takes it. The four violations of section 4 are TLC's.

## 6. Not modelled

- The per-caller rate limiter: a fixed window behind one mutex, with no failure, retry
  or second state to relate it to.
- Reads of the DAO (one statement each), `Credentials().Update` (no retention clock
  depends on what it writes) and the method table, which the code only reads.
- Conversions that no property is about: Argon2id and the PHC format, JWT and
  JWK encoding, masking, cursors, validation and normalisation of strings, and of
  `translateError` all but what the retry loop and the callers tell apart.
- Configuration, the domain model, log lines, and the wiring and manifests outside the
  sweep: no state that changes.
- Several replicas: each in-process component is per process in the code. Several
  callers of the connector: only the api-service has its scope.
- The connector's response floor for `/identity`: timing only.

## 7. What is left

1. The handlers' guard order, with the rate limiter in front of the touch counter.
2. An abstract budget per caller that `ProfileAPI` without straddlers implements, and an
   abstract key oracle of bounded lag for `JWKSCache`.
3. `Connector` and `Onboarding` composed into one specification; today each takes the
   other's answers as free choices within what its own model says.
