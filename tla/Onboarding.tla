----------------------------- MODULE Onboarding -----------------------------
(***************************************************************************)
(* VerifyIdentity of the api-service (internal/onboarding): concurrent     *)
(* verifications that share one TokenSource and call the connector's /auth *)
(* and /identity, with their timeouts and retries.                         *)
(*                                                                         *)
(* The token source's mutex is held only to read and to write the cached   *)
(* token, never during a fetch.  The connector is external here and does   *)
(* what Connector.tla says of it, with the middleware in front of it: it   *)
(* refuses an own token that it does not accept, or that it has at the     *)
(* moment no key to verify with, answers 429 while a failure blocks the    *)
(* caller, and counts every vendor rejection as a failure.  One tick is    *)
(* ten seconds, the timeout of every call; what is shorter, the block of   *)
(* at least one second and the pauses of a quarter of a second, is only    *)
(* ordered.  Every time is kept as its distance to now.                    *)
(***************************************************************************)
EXTENDS Naturals

CONSTANTS
  Verification,         \* goroutines in VerifyIdentity
  Lifetime,             \* expires_in of a token
  RefreshMargin,        \* refreshMargin
  TokenCallTimeout,     \* tokenCallTimeout
  ConnectorCallTimeout, \* connectorCallTimeout
  ConnectorMaxRetries,  \* connectorMaxRetries
  MaxRevocations,       \* bound: early ends of every token issued so far
  None

\* 30 s cover one fetch and both calls of 10 s each.
ASSUME OnboardingAssumption ==
  /\ {Lifetime, RefreshMargin, TokenCallTimeout, ConnectorCallTimeout}
       \subseteq Nat \ {0}
  /\ {ConnectorMaxRetries, MaxRevocations} \subseteq Nat
  /\ RefreshMargin >= TokenCallTimeout + 2 * ConnectorCallTimeout
  /\ Lifetime > RefreshMargin
  /\ None \notin Nat

VARIABLES
  cached,       \* TokenSource: the token, and the distance to its expiry
  revocations,
  blocked,      \* the connector's limiters block this caller
  ver           \* each goroutine's verification

vars == <<cached, revocations, blocked, ver>>

\* left: what the connector will still accept; good: unless it was revoked.
Token == [left : 0..Lifetime, good : BOOLEAN]

Rejected == "ErrVendorCredentialRejected"
Unavailable == "ErrIdentityVerificationUnavailable"

ASSUME NoneAssumption == None \notin Token \cup {Rejected}

Idle == [pc |-> "idle"]
Active ==
  [pc : {"token", "fetching", "call", "done"},
   flow : 1..2,         \* first or second attemptVerifyIdentity
   tok : Token \cup {None},
   call : {"auth", "identity"},
   attempt : 0..ConnectorMaxRetries,
   age : 0..(TokenCallTimeout + ConnectorCallTimeout), \* of the call's context
   counted : (0..3) \cup {None},
     \* history: failures the connector counted, up to 3; None after a call that
     \* was not answered
   unverified : 0..2, \* history: refusals of a token that was to be accepted
   result : {"ok", Rejected, Unavailable, None}]

TypeOK ==
  /\ cached \in [tok : Token, until : 0..Lifetime] \cup {None}
  /\ revocations \in 0..MaxRevocations
  /\ blocked \in BOOLEAN
  /\ ver \in [Verification -> {Idle} \cup Active]

Init ==
  /\ cached = None
  /\ revocations = 0
  /\ blocked = FALSE
  /\ ver = [v \in Verification |-> Idle]

-----------------------------------------------------------------------------
Ended(r, result) ==
  [pc |-> "done", flow |-> 1, tok |-> None, call |-> "auth", attempt |-> 0, age |-> 0,
   counted |-> r.counted, unverified |-> r.unverified, result |-> result]

\* A flow goes on with a new call, which has its own context and attempts.
Stage(r, pc, flow, tok, call) ==
  [pc |-> pc, flow |-> flow, tok |-> tok, call |-> call, attempt |-> 0, age |-> 0,
   counted |-> r.counted, unverified |-> r.unverified, result |-> None]

Calling(r, tok, call) == Stage(r, "call", r.flow, tok, call)

VerifyIdentity(v) ==
  /\ ver[v] = Idle
  /\ ver' = [ver EXCEPT ![v] =
       [pc |-> "token", flow |-> 1, tok |-> None, call |-> "auth", attempt |-> 0,
        age |-> 0, counted |-> 0, unverified |-> 0, result |-> None]]
  /\ UNCHANGED <<cached, revocations, blocked>>

-----------------------------------------------------------------------------
\* TokenSource.Token.

\* Regression: a token is used up to its stated expiry.
Usable_ToExpiry(c) == c # None /\ c.until > 0

Usable(c) == c # None /\ c.until > RefreshMargin

CachedToken(v) ==
  /\ ver[v].pc = "token"
  /\ Usable(cached)
  /\ ver' = [ver EXCEPT ![v] = Calling(@, cached.tok, "auth")]
  /\ UNCHANGED <<cached, revocations, blocked>>

\* FetchToken, from here without the lock: the issuer mints a token,
Fetch(v) ==
  /\ ver[v].pc = "token"
  /\ ~Usable(cached)
  /\ ver' = [ver EXCEPT ![v] =
       Stage(@, "fetching", @.flow, [left |-> Lifetime, good |-> TRUE], "auth")]
  /\ UNCHANGED <<cached, revocations, blocked>>

\* and when it arrives it replaces what is cached, with an expiry counted from then.
Fetched(v) ==
  /\ ver[v].pc = "fetching"
  /\ cached' = [tok |-> ver[v].tok, until |-> Lifetime]
  /\ ver' = [ver EXCEPT ![v] = Calling(@, @.tok, "auth")]
  /\ UNCHANGED <<revocations, blocked>>

FetchFails(v) ==
  /\ ver[v].pc = "fetching"
  /\ ver' = [ver EXCEPT ![v] = Ended([@ EXCEPT !.counted = None], Unavailable)]
  /\ UNCHANGED <<cached, revocations, blocked>>

-----------------------------------------------------------------------------
\* callAuth and callIdentity: the three kinds of answer.

Succeeded(r) == IF r.call = "auth" THEN Calling(r, r.tok, "identity") ELSE Ended(r, "ok")

\* Regression: one attempt more than connectorMaxRetries + 1.
Failed_OneMore(r) ==
  IF r.attempt <= ConnectorMaxRetries THEN [r EXCEPT !.attempt = @ + 1]
  ELSE Ended(r, Unavailable)

\* Any error but a rejection: again, as long as attempts are left.  The pause before
\* an attempt is part of it.
Failed(r) ==
  IF r.attempt < ConnectorMaxRetries THEN [r EXCEPT !.attempt = @ + 1]
  ELSE Ended(r, Unavailable)

\* Regression: the flow is repeated after every rejection.
Repeats_Always(r) == TRUE

\* A first rejection may be one of the own token: the whole flow, exactly once more.
Repeats(r) == r.flow = 1

AfterRejection(r) ==
  IF Repeats(r) THEN Stage(r, "token", 2, None, "auth")
  ELSE Ended(r, Rejected)

\* With Invalidate.
Reject(v, r) ==
  /\ ver' = [ver EXCEPT ![v] = AfterRejection(r)]
  /\ cached' = IF Repeats(r) THEN None ELSE cached

\* The context of the call ends during the pause.
ContextDone(v) ==
  /\ ver[v].pc = "call"
  /\ ver[v].attempt > 0
  /\ ver' = [ver EXCEPT ![v] = Ended([@ EXCEPT !.counted = None], Unavailable)]
  /\ UNCHANGED <<cached, revocations, blocked>>

Return(v) ==
  /\ ver[v].pc = "done"
  /\ ver' = [ver EXCEPT ![v] = Idle]
  /\ UNCHANGED <<cached, revocations, blocked>>

-----------------------------------------------------------------------------
\* The connector, and what becomes of a request to it.

Lost(v, r) ==
  /\ ver' = [ver EXCEPT ![v] = Failed([r EXCEPT !.counted = None])]
  /\ UNCHANGED cached

\* No connection, a timeout, a 5xx or a body that is not the expected one.
Unreachable(v) ==
  /\ ver[v].pc = "call"
  /\ Lost(v, ver[v])
  /\ UNCHANGED <<revocations, blocked>>

Accepted(tok) == tok.left > 0 /\ tok.good

\* 401 of the connector's middleware, before its limiters.  It answers the same to a
\* good token when the lookup of its key fails: a stale cache beside the refetch, no
\* issuer to ask, or a new kid whose refetch is denied.
OwnTokenRefused(v) ==
  LET unverified == [ver[v] EXCEPT !.unverified = IF @ < 2 THEN @ + 1 ELSE @]
  IN  /\ ver[v].pc = "call"
      /\ Reject(v, IF Accepted(ver[v].tok) THEN unverified ELSE ver[v])
      /\ UNCHANGED <<revocations, blocked>>

\* 429, which is no rejection to this client.
SlowDown(v) ==
  /\ ver[v].pc = "call"
  /\ Accepted(ver[v].tok)
  /\ blocked
  /\ ver' = [ver EXCEPT ![v] = Failed(@)]
  /\ UNCHANGED <<cached, revocations, blocked>>

\* The vendor rejects or does not answer the connector: counted, whether or not the
\* 401 arrives.
VendorRejects(v) ==
  LET n == ver[v].counted
      r == [ver[v] EXCEPT !.counted = IF n \in 0..2 THEN n + 1 ELSE n]
  IN  /\ ver[v].pc = "call"
      /\ Accepted(ver[v].tok)
      /\ ~blocked
      /\ blocked' = TRUE
      /\ Reject(v, r) \/ Lost(v, r)
      /\ UNCHANGED revocations

\* A success clears the failures, none of which blocks now.
VendorAccepts(v) ==
  /\ ver[v].pc = "call"
  /\ Accepted(ver[v].tok)
  /\ ~blocked
  /\ \/ ver' = [ver EXCEPT ![v] = Succeeded(@)] /\ UNCHANGED cached
     \/ Lost(v, ver[v])
  /\ UNCHANGED blocked
  /\ UNCHANGED revocations

\* The block is over.
Unblock ==
  /\ blocked
  /\ blocked' = FALSE
  /\ UNCHANGED <<cached, revocations, ver>>

\* Every token issued so far stops being accepted: a signing key is withdrawn.
Withdrawn(tok) == IF tok = None THEN None ELSE [tok EXCEPT !.good = FALSE]

Revoke ==
  /\ revocations < MaxRevocations
  /\ revocations' = revocations + 1
  /\ cached' = IF cached = None THEN None ELSE [cached EXCEPT !.tok = Withdrawn(@)]
  /\ ver' = [v \in Verification |->
       IF ver[v] = Idle THEN Idle ELSE [ver[v] EXCEPT !.tok = Withdrawn(@)]]
  /\ UNCHANGED blocked

-----------------------------------------------------------------------------
\* Time, up to the timeout of each call.

Timeout(r) == IF r.pc = "fetching" THEN TokenCallTimeout ELSE ConnectorCallTimeout

InCall(v) == ver[v].pc \in {"fetching", "call"}

Less(n) == IF n > 0 THEN n - 1 ELSE 0

Older(tok) == IF tok = None THEN None ELSE [tok EXCEPT !.left = Less(@)]

Tick ==
  /\ \A v \in Verification : InCall(v) => ver[v].age < Timeout(ver[v])
  /\ cached' = IF cached = None THEN None
               ELSE [tok |-> Older(cached.tok), until |-> Less(cached.until)]
  /\ ver' = [v \in Verification |->
       IF InCall(v) THEN [ver[v] EXCEPT !.tok = Older(@), !.age = @ + 1] ELSE ver[v]]
  /\ UNCHANGED <<revocations, blocked>>

Step(v) ==
  \/ CachedToken(v)
  \/ Fetch(v)
  \/ Fetched(v)
  \/ FetchFails(v)
  \/ ContextDone(v)
  \/ Unreachable(v)
  \/ OwnTokenRefused(v)
  \/ SlowDown(v)
  \/ VendorRejects(v)
  \/ VendorAccepts(v)
  \/ Return(v)

Next ==
  \/ \E v \in Verification : VerifyIdentity(v) \/ Step(v)
  \/ Unblock
  \/ Revoke
  \/ Tick

\* A goroutine is scheduled, and its context ends every call it makes.
Fairness == \A v \in Verification : WF_vars(Step(v))

Spec == Init /\ [][Next]_vars /\ Fairness

-----------------------------------------------------------------------------
\* refreshMargin (token.go:21-26): whatever a fetch, the retries and the two calls
\* take, and whichever of two fetches ends last, no token that has expired is
\* presented to the connector.
NeverExpired == \A v \in Verification : ver[v].pc = "call" => ver[v].tok.left > 0

\* callAuth (onboarding.go:157-163): a verification whose calls are all answered
\* spends at most two of the failures the connector's limiters allow.
FailureBudget ==
  \A v \in Verification : ver[v] # Idle => ver[v].counted # 3

\* The second flow of VerifyIdentity (onboarding.go:109-125) is there to tell a refused
\* own token from a rejected vendor credential.  It absorbs one refusal, whatever the
\* verifications that share the token do to it in between: one that reports the latter
\* was rejected by the vendor, unless a token was revoked or the middleware failed to
\* verify a good token in each of the two flows.
RejectionIsEarned ==
  \A v \in Verification :
    ver[v].pc = "done" /\ ver[v].result = Rejected /\ ver[v].counted = 0
      => revocations > 0 \/ ver[v].unverified = 2

\* What the documents claim: the second flow runs "with a freshly-minted one before
\* concluding the vendor credential itself was actually the problem" (onboarding.go:117-118),
\* and overlapping fetches are "never a correctness bug" (token.go:150-151).  But for a
\* middleware without keys, that would do; yet a fetch that began before a revocation
\* may fill the cache again after Invalidate.
RejectionIsGenuine ==
  \A v \in Verification :
    ver[v].pc = "done" /\ ver[v].result = Rejected /\ ver[v].unverified = 0
      => ver[v].counted # 0

\* The calls to the connector that a verification may still make, and with them a bound
\* on its steps.
CallsLeft(r) ==
  LET attempts == ConnectorMaxRetries + 1
      laterFlow == IF r.flow = 1 THEN 2 * attempts ELSE 0
  IN  CASE r.pc \in {"token", "fetching"} -> 2 * attempts + laterFlow
        [] r.pc = "call" -> (attempts - r.attempt) + laterFlow
                              + (IF r.call = "auth" THEN attempts ELSE 0)
        [] OTHER -> 0

StepsLeft(r) ==
  IF r = Idle THEN 0
  ELSE 1 + 3 * CallsLeft(r)
         + (CASE r.pc = "token" -> 2 [] r.pc = "fetching" -> 1 [] OTHER -> 0)

\* connectorMaxRetries (onboarding.go:85-87), "never an open-ended retry loop a caller
\* could turn into a self-inflicted flood": whatever the answers, each step of a
\* verification leaves it fewer, and nothing that others do to the token or the
\* connector gives it more.
RetriesBounded ==
  [][\A v \in Verification :
       ver[v] # Idle =>
         /\ StepsLeft(ver'[v]) <= StepsLeft(ver[v])
         /\ Step(v) => StepsLeft(ver'[v]) < StepsLeft(ver[v])]_vars

\* So every verification ends, once its goroutine is scheduled.
VerificationEnds == \A v \in Verification : ver[v] # Idle ~> ver[v] = Idle

=============================================================================
