----------------------------- MODULE JWKSCache ------------------------------
(***************************************************************************)
(* JWKSCache (internal/api/jwks.go): the verifier's cache of the issuer's  *)
(* signing keys, used by every authenticated request.                      *)
(*                                                                         *)
(* Callers of KeyForKid are request goroutines.  Every critical section of *)
(* c.mu is one action; the fetch runs between two of them without the      *)
(* mutex, so fetches overlap and end in any order.  The issuer publishes   *)
(* and withdraws keys at any time and answers a fetch with what it         *)
(* publishes at that moment; any fetch may also fail.                      *)
(*                                                                         *)
(* A key is its kid: parsing, the RSA arithmetic and the log lines are     *)
(* left out.  Time is counted in ticks; a request, its fetches included,   *)
(* ends within Deadline (deadlineBudget, jwtmiddleware.go).                *)
(***************************************************************************)
EXTENDS Integers, FiniteSets

CONSTANTS
  Caller,       \* concurrent request goroutines
  Kid,          \* key ids: published, withdrawn and made-up ones
  TTL,          \* c.ttl (15 min)
  RetryFloor,   \* jwksMinRefreshRetryInterval (5 s)
  UnknownWait,  \* jwksUnknownKidRefetchInterval (30 s)
  MaxTracked,   \* jwksMaxTrackedUnknownKids (64)
  Deadline,     \* deadlineBudget (5 s)
  MaxFailures,  \* bound: consecutiveFailures is counted up to here
  MaxTime,      \* bound on the clock
  NoKid         \* marks c.keys == nil, on which every lookup misses

ASSUME JWKSAssumption ==
  /\ IsFiniteSet(Kid)
  /\ {TTL, RetryFloor, UnknownWait, MaxTracked, Deadline, MaxFailures} \subseteq Nat \ {0}
  /\ MaxTime \in Nat
  /\ NoKid \notin Kid

NoKeys == {NoKid}

MaxStaleness == 3 * TTL

VARIABLES
  now,          \* the clock c.now() reads
  published,    \* the issuer's key set
  since,        \* history: when the issuer last published or withdrew a kid
  keys,         \* c.keys
  fetchedAt,    \* c.fetchedAt
  lastAttempt,  \* c.lastAttempt
  failures,     \* c.consecutiveFailures
  retryAt,      \* c.unknownKidRetryAt; NoRetry for a kid without an entry
  caller,       \* where each goroutine is
  outOfBand     \* history: kids refetched out of band in the last UnknownWait

issuerVars == <<published, since>>
cacheVars == <<keys, fetchedAt, lastAttempt, failures>>
retryVars == <<retryAt, outOfBand>>
vars == <<now, issuerVars, cacheVars, retryVars, caller>>

LongAgo == -(MaxStaleness + 2 * Deadline + UnknownWait + 1)
NoRetry == LongAgo
Instant == LongAgo..MaxTime

\* retry: the fetch in progress is the out-of-band one.
Working == [pc : {"refresh", "fetch", "stale", "lookup", "reserve"}, kid : Kid,
            began : 0..MaxTime, retry : BOOLEAN]
Served == [pc : {"served"}, kid : Kid, began : 0..MaxTime, retry : BOOLEAN,
           body : SUBSET Kid]
\* lag: how long the answer has disagreed with the issuer's key set.
\* failed: the failure streak the error reports.
Answers == [pc : {"done"}, lag : Nat, failed : 0..MaxFailures,
            result : {"key", "unknown", "ErrJWKSStale", "ErrJWKSUnreachable",
                      "not yet populated"}]
Idle == [pc |-> "idle"]

\* Types, and that a goroutine looks a kid up only in a populated cache.
TypeOK ==
  /\ now \in 0..MaxTime
  /\ published \subseteq Kid
  /\ since \in [Kid -> Instant]
  /\ keys \in (SUBSET Kid) \cup {NoKeys}
  /\ fetchedAt \in Instant
  /\ lastAttempt \in Instant
  /\ failures \in 0..MaxFailures
  /\ retryAt \in [Kid -> Instant]
  /\ outOfBand \subseteq Kid \X (0..MaxTime)
  /\ caller \in [Caller -> {Idle} \cup Working \cup Served \cup Answers]
  /\ \A c \in Caller : caller[c].pc \in {"lookup", "reserve"} => keys # NoKeys

\* fetchedAt and lastAttempt start as Go's zero time.
Init ==
  /\ now = 0
  /\ published \in SUBSET Kid
  /\ since = [k \in Kid |-> LongAgo]
  /\ keys = NoKeys
  /\ fetchedAt = LongAgo
  /\ lastAttempt = LongAgo
  /\ failures = 0
  /\ retryAt = [k \in Kid |-> NoRetry]
  /\ outOfBand = {}
  /\ caller = [c \in Caller |-> Idle]

-----------------------------------------------------------------------------
\* The way a goroutine proceeds.

At(c, pc) == caller[c].pc = pc

Free(c) == caller[c].pc \in {"idle", "done"}

Goto(c, pc) == caller' = [caller EXCEPT ![c] =
  [pc |-> pc, kid |-> @.kid, began |-> @.began, retry |-> @.retry]]

Lag(k, result) ==
  IF \/ result = "key" /\ k \notin published
     \/ result = "unknown" /\ k \in published
  THEN now - since[k]
  ELSE 0

Answer(c, result) == caller' = [caller EXCEPT ![c] =
  [pc |-> "done", lag |-> Lag(@.kid, result),
   failed |-> IF result \in {"key", "unknown"} THEN 0 ELSE failures',
   result |-> result]]

-----------------------------------------------------------------------------
\* KeyForKid: the snapshot under the first lock and the branch on it.

NeedsRefresh == keys = NoKeys \/ now - fetchedAt >= TTL

CanAttempt == now - lastAttempt >= RetryFloor

KeyForKid(c, k) ==
  /\ Free(c)
  /\ caller' = [caller EXCEPT ![c] =
       [kid |-> k, began |-> now, retry |-> FALSE,
        pc |-> IF ~NeedsRefresh THEN "lookup"
               ELSE IF CanAttempt THEN "refresh"
               ELSE "stale"]]
  /\ UNCHANGED <<now, issuerVars, cacheVars, retryVars>>

\* lookupKey; a first miss goes on to the out-of-band refetch.
LookupKey(c) ==
  /\ At(c, "lookup")
  /\ UNCHANGED <<now, issuerVars, cacheVars, retryVars>>
  /\ \/ /\ caller[c].kid \in keys
        /\ Answer(c, "key")
     \/ /\ caller[c].kid \notin keys
        /\ IF caller[c].retry THEN Answer(c, "unknown") ELSE Goto(c, "reserve")

-----------------------------------------------------------------------------
\* refresh: mark the attempt, fetch without the lock, record the outcome.

BeginFetch(c) ==
  /\ At(c, "refresh")
  /\ lastAttempt' = now
  /\ Goto(c, "fetch")
  /\ UNCHANGED <<now, issuerVars, keys, fetchedAt, failures, retryVars>>

IssuerServes(c) ==
  /\ At(c, "fetch")
  /\ caller' = [caller EXCEPT ![c] =
       [pc |-> "served", kid |-> @.kid, began |-> @.began, retry |-> @.retry,
        body |-> published]]
  /\ UNCHANGED <<now, issuerVars, cacheVars, retryVars>>

FetchSucceeds(c) ==
  /\ At(c, "served")
  /\ keys' = caller[c].body
  /\ fetchedAt' = now
  /\ failures' = 0
  /\ Goto(c, "lookup")
  /\ UNCHANGED <<now, issuerVars, lastAttempt, retryVars>>

CountFailure ==
  failures' = IF failures < MaxFailures THEN failures + 1 ELSE MaxFailures

\* Regression: a failed attempt counts as a fresh fetch.
FetchFails_Stamped(c) ==
  /\ caller[c].pc \in {"fetch", "served"}
  /\ CountFailure
  /\ fetchedAt' = now
  /\ IF keys = NoKeys THEN Answer(c, "ErrJWKSUnreachable") ELSE Goto(c, "stale")
  /\ UNCHANGED <<now, issuerVars, keys, lastAttempt, retryVars>>

\* The connection, the status or the body is bad, or the context expired.
FetchFails(c) ==
  /\ caller[c].pc \in {"fetch", "served"}
  /\ CountFailure
  /\ IF keys = NoKeys THEN Answer(c, "ErrJWKSUnreachable") ELSE Goto(c, "stale")
  /\ UNCHANGED <<now, issuerVars, keys, fetchedAt, lastAttempt, retryVars>>

\* Regression: backing off skips the staleness ceiling.
EnforceStaleness_Skipped(c) ==
  /\ At(c, "stale")
  /\ Goto(c, "lookup")
  /\ UNCHANGED <<now, issuerVars, cacheVars, retryVars>>

\* The ceiling on the cache's age; KeyForKid ignores the out-of-band refetch's error.
EnforceStaleness(c) ==
  /\ At(c, "stale")
  /\ UNCHANGED <<now, issuerVars, cacheVars, retryVars>>
  /\ IF caller[c].retry THEN Goto(c, "lookup")
     ELSE IF keys = NoKeys THEN Answer(c, "not yet populated")
     ELSE IF now - fetchedAt > MaxStaleness THEN Answer(c, "ErrJWKSStale")
     ELSE Goto(c, "lookup")

-----------------------------------------------------------------------------
\* reserveUnknownKidRetry: one refetch per kid per UnknownWait, for at most
\* MaxTracked kids at a time.

Tracked(k) == now - retryAt[k] < UnknownWait

TrackedKids == {k \in Kid : Tracked(k)}

\* Regression: one gate for all kids, which any kid's refetch closes.
MayRetry_Global(k) == TrackedKids = {}

\* Regression: no cap on the tracked kids.
MayRetry_Uncapped(k) == ~Tracked(k)

MayRetry(k) == ~Tracked(k) /\ Cardinality(TrackedKids) < MaxTracked

\* Entries the sweep drops; a kid that was refetched lately returns before it.
SweptRetries == [k \in Kid |-> IF Tracked(k) THEN retryAt[k] ELSE NoRetry]

ReserveRetry(c) ==
  LET k == caller[c].kid
  IN  /\ At(c, "reserve")
      /\ MayRetry(k)
      /\ retryAt' = [SweptRetries EXCEPT ![k] = now]
      /\ outOfBand' = outOfBand \cup {<<k, now>>}
      /\ caller' = [caller EXCEPT ![c] =
           [pc |-> "refresh", kid |-> k, began |-> @.began, retry |-> TRUE]]
      /\ UNCHANGED <<now, issuerVars, cacheVars>>

RetryDenied(c) ==
  LET k == caller[c].kid
  IN  /\ At(c, "reserve")
      /\ ~MayRetry(k)
      /\ retryAt' = IF Tracked(k) THEN retryAt ELSE SweptRetries
      /\ Answer(c, "unknown")
      /\ UNCHANGED <<now, issuerVars, cacheVars, outOfBand>>

-----------------------------------------------------------------------------
\* The issuer and the clock.

Publish(k) ==
  /\ published' \in {published \cup {k}, published \ {k}}
  /\ published' # published
  /\ since' = [since EXCEPT ![k] = now]
  /\ UNCHANGED <<now, cacheVars, retryVars, caller>>

\* A request ends by its deadline.
Tick ==
  /\ now < MaxTime
  /\ \A c \in Caller : ~Free(c) => now < caller[c].began + Deadline
  /\ now' = now + 1
  /\ outOfBand' = {f \in outOfBand : now' - f[2] < UnknownWait}
  /\ UNCHANGED <<issuerVars, cacheVars, retryAt, caller>>

Next ==
  \/ \E c \in Caller : \/ \E k \in Kid : KeyForKid(c, k)
                       \/ LookupKey(c)
                       \/ BeginFetch(c)
                       \/ IssuerServes(c)
                       \/ FetchSucceeds(c)
                       \/ FetchFails(c)
                       \/ EnforceStaleness(c)
                       \/ ReserveRetry(c)
                       \/ RetryDenied(c)
  \/ \E k \in Kid : Publish(k)
  \/ Tick

Spec == Init /\ [][Next]_vars

-----------------------------------------------------------------------------

AnswerIs(c, result) == At(c, "done") /\ caller[c].result = result

\* How far behind the issuer an answer may be: the cache is at most MaxStaleness old
\* when it is checked, its fetch took at most Deadline, and so did the request.
LagBound == MaxStaleness + 2 * Deadline

\* The bound on trust in a withdrawn key (jwks.go: "fail open for a bounded window,
\* then fail closed"), whatever the fetches do and in whatever order they end.
TrustBound ==
  \A c \in Caller : AnswerIs(c, "key") => caller[c].lag <= LagBound

\* A key the issuer has published for longer than that is never reported as unknown:
\* a valid token is then not turned away as a bad one, even in a flood of made-up kids.
RotationBound ==
  \A c \in Caller : AnswerIs(c, "unknown") => caller[c].lag <= LagBound

\* Made-up kids force at most MaxTracked out-of-band fetches per UnknownWait
\* (jwks.go: "at most this many extra fetches per jwksUnknownKidRefetchInterval").
OutOfBandBound == Cardinality(outOfBand) <= MaxTracked

\* One kid's refetches never cost another kid its own (jwks.go: "a garbage kid's
\* repeated reservation never blocks a DIFFERENT (real) kid's own reservation"): a
\* kid is denied only if it was refetched lately or the table is full.
NoSqueeze ==
  \A c \in Caller :
    At(c, "reserve") /\ ~MayRetry(caller[c].kid)
      => \/ \E t \in 0..MaxTime : <<caller[c].kid, t>> \in outOfBand
         \/ Cardinality(outOfBand) = MaxTracked

=============================================================================
