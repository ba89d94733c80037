-------------------------- MODULE JWKSCacheProofs ---------------------------
(***************************************************************************)
(* Proofs about the JWKS cache: its types, the two bounds on how far an    *)
(* answer lags behind the issuer, and the limits on out-of-band fetches,   *)
(* for any callers, kids and durations.                                    *)
(***************************************************************************)
EXTENDS JWKSCache, FiniteSetTheorems, TLAPS

-----------------------------------------------------------------------------
\* The inductive invariant.

\* The cache and the issuer's history are of the past.
Past == fetchedAt <= now /\ \A k \in Kid : since[k] <= now

Disagree(set, k) == ~(k \in set <=> k \in published)

\* A cached key set differs from the issuer's only in kids that changed after the
\* fetch that brought it had begun.
KeysRecent ==
  keys # NoKeys =>
    \A k \in Kid : Disagree(keys, k) => since[k] >= fetchedAt - Deadline

\* A goroutine in its time.
Timely(c) ==
  ~Free(c) => caller[c].began <= now /\ now <= caller[c].began + Deadline

\* A response on its way differs only in kids that changed since the request began.
BodyRecent(c) ==
  At(c, "served") =>
    \A k \in Kid : Disagree(caller[c].body, k) => since[k] >= caller[c].began

\* A goroutine that got past the staleness ceiling, and all that is out of band.
Checked(c) ==
  At(c, "lookup") \/ At(c, "reserve") \/ (~Free(c) /\ caller[c].retry)

CheckedFresh(c) ==
  Checked(c) => /\ keys # NoKeys
                /\ fetchedAt >= caller[c].began - MaxStaleness

\* The kid a goroutine has missed was not there for long.
MissedRecently(c) ==
  At(c, "reserve") /\ caller[c].kid \in published =>
    since[caller[c].kid] >= caller[c].began - MaxStaleness - Deadline

Bounded(c) ==
  AnswerIs(c, "key") \/ AnswerIs(c, "unknown") => caller[c].lag <= LagBound

CallerOK(c) ==
  /\ Timely(c)
  /\ BodyRecent(c)
  /\ CheckedFresh(c)
  /\ MissedRecently(c)
  /\ Bounded(c)

IInv ==
  /\ TypeOK
  /\ Past
  /\ KeysRecent
  /\ \A c \in Caller : CallerOK(c)

-----------------------------------------------------------------------------
\* The constants and the records.

States == {Idle} \cup Working \cup Served \cup Answers

Steps == {"refresh", "fetch", "stale", "lookup", "reserve"}

Results == {"key", "unknown", "ErrJWKSStale", "ErrJWKSUnreachable", "not yet populated"}

LEMMA Parameters ==
  /\ TTL \in Nat \ {0} /\ RetryFloor \in Nat \ {0} /\ UnknownWait \in Nat \ {0}
  /\ MaxTracked \in Nat \ {0} /\ Deadline \in Nat \ {0} /\ MaxFailures \in Nat \ {0}
  /\ MaxTime \in Nat
  /\ MaxStaleness \in Nat /\ MaxStaleness >= TTL
  /\ LongAgo \in Int /\ LongAgo < -UnknownWait
<1>1. /\ TTL \in Nat \ {0} /\ RetryFloor \in Nat \ {0} /\ UnknownWait \in Nat \ {0}
      /\ MaxTracked \in Nat \ {0} /\ Deadline \in Nat \ {0} /\ MaxFailures \in Nat \ {0}
      /\ MaxTime \in Nat
  BY JWKSAssumption
<1> QED
  BY <1>1 DEF MaxStaleness, LongAgo

\* The values of the time variables.
LEMMA Times ==
  ASSUME TypeOK
  PROVE  /\ now \in Nat /\ now <= MaxTime
         /\ fetchedAt \in Int /\ fetchedAt >= LongAgo
         /\ lastAttempt \in Int
         /\ \A k \in Kid : since[k] \in Int /\ retryAt[k] \in Int
BY Parameters DEF TypeOK, Instant

LEMMA NowIsInstant == ASSUME TypeOK PROVE now \in Instant
BY Parameters DEF TypeOK, Instant

\* What a goroutine at work carries.
LEMMA Fields ==
  ASSUME TypeOK, NEW c \in Caller, ~Free(c)
  PROVE  /\ caller[c].kid \in Kid
         /\ caller[c].began \in 0..MaxTime
         /\ caller[c].retry \in BOOLEAN
         /\ caller[c].pc \in Steps \cup {"served"}
         /\ At(c, "served") => caller[c].body \in SUBSET Kid
<1>1. caller[c] \in {Idle} \cup Working \cup Served \cup Answers
  BY DEF TypeOK
<1>2. CASE caller[c] \in Working
  BY <1>2 DEF Working, At, Steps
<1>3. CASE caller[c] \in Served
  BY <1>3 DEF Served, At, Steps
<1>4. caller[c] # Idle
  BY DEF Free, Idle
<1>5. caller[c] \notin Answers
  BY DEF Free, Answers
<1> QED
  BY <1>1, <1>2, <1>3, <1>4, <1>5

\* The others stay as they are.
Untouched(c) == \A d \in Caller \ {c} : caller'[d] = caller[d]

LEMMA Moves ==
  ASSUME TypeOK, NEW c \in Caller, ~Free(c), NEW pc \in Steps, Goto(c, pc)
  PROVE  /\ caller' \in [Caller -> States]
         /\ caller'[c].pc = pc
         /\ caller'[c].kid = caller[c].kid
         /\ caller'[c].began = caller[c].began
         /\ caller'[c].retry = caller[c].retry
         /\ Untouched(c)
<1> DEFINE new == [pc |-> pc, kid |-> caller[c].kid, began |-> caller[c].began,
                   retry |-> caller[c].retry]
<1>1. new \in Working
  BY Fields DEF Working, Steps
<1>2. caller \in [Caller -> States]
  BY DEF TypeOK, States
<1>3. caller' = [caller EXCEPT ![c] = new]
  BY DEF Goto
<1>4. new \in States
  BY <1>1 DEF States
<1> HIDE DEF new
<1>5. caller' \in [Caller -> States] /\ caller'[c] = new /\ Untouched(c)
  BY <1>2, <1>3, <1>4 DEF Untouched
<1> QED
  BY <1>5 DEF new

LEMMA LagIsNat ==
  ASSUME TypeOK, Past, NEW k \in Kid, NEW result
  PROVE  Lag(k, result) \in Nat
BY Times DEF Past, Lag

LEMMA Replies ==
  ASSUME TypeOK, Past, NEW c \in Caller, ~Free(c), NEW result \in Results,
         Answer(c, result), failures' \in 0..MaxFailures
  PROVE  /\ caller' \in [Caller -> States]
         /\ caller'[c].pc = "done"
         /\ caller'[c].result = result
         /\ caller'[c].lag = Lag(caller[c].kid, result)
         /\ Untouched(c)
<1> DEFINE failed == IF result \in {"key", "unknown"} THEN 0 ELSE failures'
           lag == Lag(caller[c].kid, result)
           new == [pc |-> "done", lag |-> lag, failed |-> failed, result |-> result]
<1>1. failed \in 0..MaxFailures
  BY Parameters
<1>2. lag \in Nat
  BY Fields, LagIsNat
<1>3. caller' = [caller EXCEPT ![c] = new]
  BY DEF Answer
<1> HIDE DEF failed, lag
<1>4. new \in States
  BY <1>1, <1>2 DEF Answers, Results, States
<1>5. caller \in [Caller -> States]
  BY DEF TypeOK, States
<1>6. caller' \in [Caller -> States] /\ caller'[c] = new /\ Untouched(c)
  <2> HIDE DEF new
  <2> QED
    BY <1>3, <1>4, <1>5 DEF Untouched
<1> QED
  BY <1>6 DEF lag

-----------------------------------------------------------------------------
\* Steps of one goroutine.

\* A goroutine that does not move keeps its promise while others use the cache.
LEMMA Others ==
  ASSUME IInv, NEW c \in Caller, Untouched(c), UNCHANGED <<now, issuerVars>>,
         fetchedAt' \in Int, fetchedAt <= fetchedAt',
         keys # NoKeys => keys' # NoKeys,
         NEW d \in Caller \ {c}
  PROVE  CallerOK(d)'
<1>1. caller'[d] = caller[d] /\ now' = now /\ published' = published /\ since' = since
  BY DEF Untouched, issuerVars
<1>2. CallerOK(d) /\ TypeOK
  BY DEF IInv
<1>3. Timely(d)'
  BY <1>1, <1>2 DEF CallerOK, Timely, Free
<1>4. BodyRecent(d)'
  BY <1>1, <1>2 DEF CallerOK, BodyRecent, At, Disagree
<1>5. CheckedFresh(d)'
  <2> SUFFICES ASSUME Checked(d)'
               PROVE  keys' # NoKeys /\ fetchedAt' >= caller[d].began - MaxStaleness
    BY <1>1 DEF CheckedFresh
  <2>1. Checked(d)
    BY <1>1 DEF Checked, At, Free
  <2>2. keys # NoKeys /\ fetchedAt >= caller[d].began - MaxStaleness
    BY <1>2, <2>1 DEF CallerOK, CheckedFresh
  <2>3. caller[d].began \in Int
    BY <1>2, <2>1, Fields DEF Checked, At, Free
  <2> QED
    BY <2>2, <2>3, <1>2, Times, Parameters
<1>6. MissedRecently(d)'
  BY <1>1, <1>2 DEF CallerOK, MissedRecently, At
<1>7. Bounded(d)'
  BY <1>1, <1>2 DEF CallerOK, Bounded, AnswerIs, At
<1> QED
  BY <1>3, <1>4, <1>5, <1>6, <1>7 DEF CallerOK

\* What a step of goroutine c must establish.
LEMMA Assemble ==
  ASSUME IInv, NEW c \in Caller, UNCHANGED <<now, issuerVars>>,
         keys' \in (SUBSET Kid) \cup {NoKeys}, keys # NoKeys => keys' # NoKeys,
         fetchedAt' \in Instant, fetchedAt <= fetchedAt', fetchedAt' <= now,
         lastAttempt' \in Instant, failures' \in 0..MaxFailures,
         retryAt' \in [Kid -> Instant], outOfBand' \subseteq Kid \X (0..MaxTime),
         caller' \in [Caller -> States], Untouched(c),
         KeysRecent', CallerOK(c)'
  PROVE  IInv'
<1>1. fetchedAt' \in Int
  BY Parameters DEF Instant
<1>2. \A d \in Caller : CallerOK(d)'
  BY <1>1, Others
<1>3. Past'
  BY DEF IInv, Past, issuerVars
<1>4. TypeOK'
  <2>1. \A d \in Caller : caller'[d].pc \in {"lookup", "reserve"} => keys' # NoKeys
    BY <1>2 DEF CallerOK, CheckedFresh, Checked, At
  <2>2. now' \in 0..MaxTime /\ published' \subseteq Kid /\ since' \in [Kid -> Instant]
    BY DEF IInv, TypeOK, issuerVars
  <2> QED
    BY <2>1, <2>2 DEF TypeOK, States
<1> QED
  BY <1>2, <1>3, <1>4 DEF IInv

\* The same for a step that only moves c.
LEMMA Local ==
  ASSUME IInv, NEW c \in Caller, UNCHANGED <<now, issuerVars, cacheVars, retryVars>>,
         caller' \in [Caller -> States], Untouched(c), CallerOK(c)'
  PROVE  IInv'
<1>1. /\ keys' = keys /\ fetchedAt' = fetchedAt /\ lastAttempt' = lastAttempt
      /\ failures' = failures /\ retryAt' = retryAt /\ outOfBand' = outOfBand
      /\ UNCHANGED <<now, issuerVars>> /\ published' = published /\ since' = since
  BY DEF cacheVars, retryVars, issuerVars
<1>2. KeysRecent'
  BY <1>1 DEF IInv, KeysRecent, Disagree
<1>3. fetchedAt <= now /\ fetchedAt <= fetchedAt
  BY Times DEF IInv, Past
<1>4. TypeOK
  BY DEF IInv
<1>5. /\ keys' \in (SUBSET Kid) \cup {NoKeys} /\ fetchedAt' \in Instant
      /\ lastAttempt' \in Instant /\ failures' \in 0..MaxFailures
      /\ retryAt' \in [Kid -> Instant] /\ outOfBand' \subseteq Kid \X (0..MaxTime)
  BY <1>1, <1>4 DEF TypeOK
<1> QED
  BY <1>1, <1>2, <1>3, <1>5, Assemble

\* c goes on in its time; only what it goes on to matters.
LEMMA GoingOn ==
  ASSUME IInv, NEW c \in Caller, ~Free(c), now' = now,
         caller'[c].pc \in Steps, caller'[c].began = caller[c].began,
         CheckedFresh(c)', MissedRecently(c)'
  PROVE  CallerOK(c)'
<1>1. Timely(c)'
  BY DEF IInv, CallerOK, Timely
<1>2. BodyRecent(c)' /\ Bounded(c)'
  BY DEF Steps, BodyRecent, Bounded, AnswerIs, At
<1> QED
  BY <1>1, <1>2 DEF CallerOK

\* c has its answer; only how late it is matters.
LEMMA Answering ==
  ASSUME NEW c \in Caller, caller'[c].pc = "done", Bounded(c)'
  PROVE  CallerOK(c)'
BY DEF CallerOK, Timely, BodyRecent, CheckedFresh, Checked, MissedRecently, At, Free

-----------------------------------------------------------------------------
\* One lemma per action.

LEMMA KeyForKidKeeps ==
  ASSUME IInv, NEW c \in Caller, NEW k \in Kid, KeyForKid(c, k)
  PROVE  IInv'
<1> DEFINE pc == IF ~NeedsRefresh THEN "lookup"
                 ELSE IF CanAttempt THEN "refresh"
                 ELSE "stale"
           new == [kid |-> k, began |-> now, retry |-> FALSE, pc |-> pc]
<1>1. TypeOK /\ now \in 0..MaxTime
  BY DEF IInv, TypeOK
<1>2. pc \in Steps
  BY DEF Steps
<1>3. caller' = [caller EXCEPT ![c] = new]
  BY DEF KeyForKid
<1>4. pc = "lookup" => ~NeedsRefresh
  OBVIOUS
<1> HIDE DEF pc
<1>5. new \in States
  BY <1>1, <1>2 DEF Working, Steps, States
<1>6. caller' \in [Caller -> States] /\ caller'[c] = new /\ Untouched(c)
  <2> HIDE DEF new
  <2> QED
    BY <1>1, <1>3, <1>5 DEF Untouched, TypeOK, States
<1>7. UNCHANGED <<now, issuerVars, cacheVars, retryVars>>
  BY DEF KeyForKid
<1>8. CheckedFresh(c)'
  <2>1. caller'[c].pc = pc /\ caller'[c].retry = FALSE /\ caller'[c].began = now
    BY <1>6
  <2>2. keys' = keys /\ fetchedAt' = fetchedAt
    BY <1>7 DEF cacheVars
  <2>3. pc # "reserve"
    BY DEF pc
  <2>4. pc = "lookup" => keys # NoKeys /\ fetchedAt >= now - MaxStaleness
    BY <1>1, <1>4, Times, Parameters DEF NeedsRefresh
  <2> QED
    BY <2>1, <2>2, <2>3, <2>4 DEF CheckedFresh, Checked, At
<1>9. Timely(c)'
  BY <1>1, <1>6, <1>7, Times, Parameters DEF Timely
<1>10. BodyRecent(c)' /\ MissedRecently(c)' /\ Bounded(c)'
  BY <1>2, <1>4, <1>6 DEF BodyRecent, MissedRecently, Bounded, AnswerIs, At, Steps, pc
<1> QED
  BY <1>6, <1>7, <1>8, <1>9, <1>10, Local DEF CallerOK

\* An answer about a kid that changed no earlier than this is within the bound.
LEMMA InTime ==
  ASSUME IInv, NEW c \in Caller, ~Free(c),
         since[caller[c].kid] >= caller[c].began - MaxStaleness - Deadline
  PROVE  now - since[caller[c].kid] <= LagBound
<1>1. TypeOK /\ now <= caller[c].began + Deadline
  BY DEF IInv, CallerOK, Timely
<1>2. caller[c].kid \in Kid /\ caller[c].began \in Int
  BY <1>1, Fields
<1> QED
  BY <1>1, <1>2, Times, Parameters DEF LagBound

LEMMA LagBoundIsNat == LagBound \in Nat
BY Parameters DEF LagBound

\* What the cache says of a kid to a goroutine that got past the ceiling.
LEMMA LookedUp ==
  ASSUME IInv, NEW c \in Caller, At(c, "lookup"), Disagree(keys, caller[c].kid)
  PROVE  since[caller[c].kid] >= caller[c].began - MaxStaleness - Deadline
<1>1. TypeOK /\ ~Free(c)
  BY DEF IInv, At, Free
<1>2. keys # NoKeys /\ fetchedAt >= caller[c].began - MaxStaleness
  BY DEF IInv, CallerOK, CheckedFresh, Checked
<1>3. caller[c].kid \in Kid /\ caller[c].began \in Int
  BY <1>1, Fields
<1>4. since[caller[c].kid] >= fetchedAt - Deadline
  BY <1>2, <1>3 DEF IInv, KeysRecent
<1> QED
  BY <1>1, <1>2, <1>3, <1>4, Times, Parameters

LEMMA LookupKeyKeeps ==
  ASSUME IInv, NEW c \in Caller, LookupKey(c)
  PROVE  IInv'
<1>1. TypeOK /\ Past /\ ~Free(c) /\ At(c, "lookup")
  BY DEF IInv, LookupKey, At, Free
<1>2. UNCHANGED <<now, issuerVars, cacheVars, retryVars>>
  BY DEF LookupKey
<1>3. failures' \in 0..MaxFailures
  BY <1>1, <1>2 DEF TypeOK, cacheVars
<1>4. caller[c].kid \in Kid
  BY <1>1, Fields
<1>5. CASE caller[c].kid \in keys /\ Answer(c, "key")
  <2>1. /\ caller' \in [Caller -> States] /\ caller'[c].pc = "done"
        /\ caller'[c].lag = Lag(caller[c].kid, "key") /\ Untouched(c)
    BY <1>1, <1>3, <1>5, Replies DEF Results
  <2>2. Lag(caller[c].kid, "key") <= LagBound
    BY <1>1, <1>4, <1>5, LookedUp, InTime, LagBoundIsNat DEF Lag, Disagree
  <2>3. Bounded(c)'
    BY <2>1, <2>2, LagBoundIsNat DEF Bounded, LagBound, MaxStaleness
  <2> QED
    BY <1>2, <2>1, <2>3, Answering, Local
<1>6. CASE caller[c].kid \notin keys /\ caller[c].retry /\ Answer(c, "unknown")
  <2>1. /\ caller' \in [Caller -> States] /\ caller'[c].pc = "done"
        /\ caller'[c].lag = Lag(caller[c].kid, "unknown") /\ Untouched(c)
    BY <1>1, <1>3, <1>6, Replies DEF Results
  <2>2. Lag(caller[c].kid, "unknown") <= LagBound
    BY <1>1, <1>4, <1>6, LookedUp, InTime, LagBoundIsNat DEF Lag, Disagree
  <2>3. Bounded(c)'
    BY <2>1, <2>2, LagBoundIsNat DEF Bounded, LagBound, MaxStaleness
  <2> QED
    BY <1>2, <2>1, <2>3, Answering, Local
<1>7. CASE caller[c].kid \notin keys /\ Goto(c, "reserve")
  <2>1. /\ caller' \in [Caller -> States] /\ caller'[c].pc = "reserve"
        /\ caller'[c].kid = caller[c].kid /\ caller'[c].began = caller[c].began
        /\ Untouched(c)
    BY <1>1, <1>7, Moves DEF Steps
  <2>2. CheckedFresh(c)'
    BY <1>1, <1>2, <2>1 DEF IInv, CallerOK, CheckedFresh, Checked, cacheVars
  <2>3. MissedRecently(c)'
    BY <1>1, <1>2, <1>7, <2>1, LookedUp DEF MissedRecently, Disagree, issuerVars
  <2> QED
    BY <1>1, <1>2, <2>1, <2>2, <2>3, GoingOn, Local DEF Steps
<1> QED
  BY <1>5, <1>6, <1>7 DEF LookupKey

LEMMA BeginFetchKeeps ==
  ASSUME IInv, NEW c \in Caller, BeginFetch(c)
  PROVE  IInv'
<1>1. TypeOK /\ ~Free(c)
  BY DEF IInv, BeginFetch, At, Free
<1>2. /\ caller' \in [Caller -> States] /\ caller'[c].pc = "fetch"
      /\ caller'[c].began = caller[c].began /\ caller'[c].retry = caller[c].retry
      /\ Untouched(c)
  BY <1>1, Moves DEF BeginFetch, Steps
<1>3. /\ UNCHANGED <<now, issuerVars>> /\ now' = now /\ published' = published
      /\ since' = since /\ keys' = keys /\ fetchedAt' = fetchedAt
      /\ failures' = failures /\ retryAt' = retryAt /\ outOfBand' = outOfBand
      /\ lastAttempt' = now
  BY DEF BeginFetch, issuerVars, retryVars
<1>4. KeysRecent'
  BY <1>3 DEF IInv, KeysRecent, Disagree
<1>5. CheckedFresh(c)' /\ MissedRecently(c)'
  BY <1>1, <1>2, <1>3
     DEF IInv, CallerOK, CheckedFresh, Checked, MissedRecently, At, Free
<1>6. CallerOK(c)'
  BY <1>1, <1>2, <1>3, <1>5, GoingOn DEF Steps
<1>7. /\ keys' \in (SUBSET Kid) \cup {NoKeys} /\ fetchedAt' \in Instant
      /\ lastAttempt' \in Instant /\ failures' \in 0..MaxFailures
      /\ retryAt' \in [Kid -> Instant] /\ outOfBand' \subseteq Kid \X (0..MaxTime)
  BY <1>1, <1>3, NowIsInstant DEF TypeOK
<1>8. fetchedAt <= fetchedAt' /\ fetchedAt' <= now /\ (keys # NoKeys => keys' # NoKeys)
  BY <1>1, <1>3, Times DEF IInv, Past
<1> QED
  BY <1>2, <1>3, <1>4, <1>6, <1>7, <1>8, Assemble

LEMMA IssuerServesKeeps ==
  ASSUME IInv, NEW c \in Caller, IssuerServes(c)
  PROVE  IInv'
<1> DEFINE new == [pc |-> "served", kid |-> caller[c].kid, began |-> caller[c].began,
                   retry |-> caller[c].retry, body |-> published]
<1>1. TypeOK /\ ~Free(c) /\ caller' = [caller EXCEPT ![c] = new]
  BY DEF IInv, IssuerServes, At, Free
<1>2. UNCHANGED <<now, issuerVars, cacheVars, retryVars>>
  BY DEF IssuerServes
<1>3. new \in States
  <2>1. published \in SUBSET Kid
    BY <1>1 DEF TypeOK
  <2> QED
    BY <1>1, <2>1, Fields DEF Served, States
<1>4. caller' \in [Caller -> States] /\ caller'[c] = new /\ Untouched(c)
  <2> HIDE DEF new
  <2> QED
    BY <1>1, <1>3 DEF Untouched, TypeOK, States
<1>5. Timely(c)'
  BY <1>1, <1>2, <1>4 DEF IInv, CallerOK, Timely
<1>6. BodyRecent(c)'
  BY <1>2, <1>4 DEF BodyRecent, Disagree, issuerVars
<1>7. CheckedFresh(c)'
  BY <1>1, <1>2, <1>4 DEF IInv, CallerOK, CheckedFresh, Checked, At, cacheVars
<1>8. MissedRecently(c)' /\ Bounded(c)'
  BY <1>4 DEF MissedRecently, Bounded, AnswerIs, At
<1> QED
  BY <1>2, <1>4, <1>5, <1>6, <1>7, <1>8, Local DEF CallerOK

LEMMA FetchSucceedsKeeps ==
  ASSUME IInv, NEW c \in Caller, FetchSucceeds(c)
  PROVE  IInv'
<1>1. TypeOK /\ ~Free(c) /\ At(c, "served")
  BY DEF IInv, FetchSucceeds, At, Free
<1>2. /\ caller' \in [Caller -> States] /\ caller'[c].pc = "lookup"
      /\ caller'[c].began = caller[c].began /\ Untouched(c)
  BY <1>1, Moves DEF FetchSucceeds, Steps
<1>3. /\ UNCHANGED <<now, issuerVars>> /\ now' = now /\ published' = published
      /\ since' = since /\ keys' = caller[c].body /\ fetchedAt' = now
      /\ failures' = 0 /\ retryAt' = retryAt /\ outOfBand' = outOfBand
      /\ lastAttempt' = lastAttempt
  BY DEF FetchSucceeds, issuerVars, retryVars
<1>4. caller[c].body \in SUBSET Kid /\ caller[c].began \in Nat
  BY <1>1, Fields, Parameters
<1>5. caller[c].began <= now /\ now <= caller[c].began + Deadline
  BY <1>1 DEF IInv, CallerOK, Timely
<1>6. KeysRecent'
  <2> SUFFICES ASSUME NEW k \in Kid, Disagree(caller[c].body, k)
               PROVE  since[k] >= now - Deadline
    BY <1>3 DEF KeysRecent, Disagree
  <2>1. since[k] >= caller[c].began
    BY <1>1 DEF IInv, CallerOK, BodyRecent
  <2> QED
    BY <2>1, <1>1, <1>4, <1>5, Times, Parameters
<1>7. keys' # NoKeys
  BY <1>3, <1>4, JWKSAssumption DEF NoKeys
<1>8. fetchedAt' >= caller[c].began - MaxStaleness
  BY <1>1, <1>3, <1>4, <1>5, Times, Parameters
<1>9. CheckedFresh(c)' /\ MissedRecently(c)'
  BY <1>2, <1>7, <1>8 DEF CheckedFresh, MissedRecently, At
<1>10. CallerOK(c)'
  BY <1>1, <1>2, <1>3, <1>9, GoingOn DEF Steps
<1>11. /\ keys' \in (SUBSET Kid) \cup {NoKeys} /\ fetchedAt' \in Instant
       /\ lastAttempt' \in Instant /\ failures' \in 0..MaxFailures
       /\ retryAt' \in [Kid -> Instant] /\ outOfBand' \subseteq Kid \X (0..MaxTime)
  BY <1>1, <1>3, <1>4, NowIsInstant, Parameters DEF TypeOK
<1>12. fetchedAt <= fetchedAt' /\ fetchedAt' <= now
  BY <1>1, <1>3, Times DEF IInv, Past
<1> QED
  BY <1>2, <1>3, <1>6, <1>7, <1>10, <1>11, <1>12, Assemble

LEMMA FetchFailsKeeps ==
  ASSUME IInv, NEW c \in Caller, FetchFails(c)
  PROVE  IInv'
<1>1. TypeOK /\ Past /\ ~Free(c)
  BY DEF IInv, FetchFails, Free
<1>2. /\ UNCHANGED <<now, issuerVars>> /\ now' = now /\ published' = published
      /\ since' = since /\ keys' = keys /\ fetchedAt' = fetchedAt
      /\ retryAt' = retryAt /\ outOfBand' = outOfBand /\ lastAttempt' = lastAttempt
  BY DEF FetchFails, issuerVars, retryVars
<1>3. failures' \in 0..MaxFailures
  <2>1. failures \in 0..MaxFailures /\ CountFailure
    BY <1>1 DEF TypeOK, FetchFails
  <2> QED
    BY <2>1, Parameters DEF CountFailure
<1>4. KeysRecent'
  BY <1>2 DEF IInv, KeysRecent, Disagree
<1>5. caller' \in [Caller -> States] /\ Untouched(c) /\ CallerOK(c)'
  <2>1. CASE Answer(c, "ErrJWKSUnreachable")
    <3>1. /\ caller' \in [Caller -> States] /\ caller'[c].pc = "done"
          /\ caller'[c].result = "ErrJWKSUnreachable" /\ Untouched(c)
      BY <1>1, <1>3, <2>1, Replies DEF Results
    <3>2. Bounded(c)'
      BY <3>1 DEF Bounded, AnswerIs
    <3> QED
      BY <3>1, <3>2, Answering
  <2>2. CASE Goto(c, "stale")
    <3>1. /\ caller' \in [Caller -> States] /\ caller'[c].pc = "stale"
          /\ caller'[c].began = caller[c].began /\ caller'[c].retry = caller[c].retry
          /\ Untouched(c)
      BY <1>1, <2>2, Moves DEF Steps
    <3>2. CheckedFresh(c)' /\ MissedRecently(c)'
      BY <1>1, <1>2, <3>1
         DEF IInv, CallerOK, CheckedFresh, Checked, MissedRecently, At, Free
    <3> QED
      BY <1>1, <1>2, <3>1, <3>2, GoingOn DEF Steps
  <2> QED
    BY <2>1, <2>2 DEF FetchFails
<1>6. /\ keys' \in (SUBSET Kid) \cup {NoKeys} /\ fetchedAt' \in Instant
      /\ lastAttempt' \in Instant
      /\ retryAt' \in [Kid -> Instant] /\ outOfBand' \subseteq Kid \X (0..MaxTime)
  BY <1>1, <1>2 DEF TypeOK
<1>7. fetchedAt <= fetchedAt' /\ fetchedAt' <= now /\ (keys # NoKeys => keys' # NoKeys)
  BY <1>1, <1>2, Times DEF Past
<1> QED
  BY <1>2, <1>3, <1>4, <1>5, <1>6, <1>7, Assemble

LEMMA EnforceStalenessKeeps ==
  ASSUME IInv, NEW c \in Caller, EnforceStaleness(c)
  PROVE  IInv'
<1>1. TypeOK /\ Past /\ ~Free(c) /\ At(c, "stale")
  BY DEF IInv, EnforceStaleness, At, Free
<1>2. UNCHANGED <<now, issuerVars, cacheVars, retryVars>>
  BY DEF EnforceStaleness
<1>3. failures' \in 0..MaxFailures
  BY <1>1, <1>2 DEF TypeOK, cacheVars
<1>4. ASSUME NEW result \in Results \ {"key", "unknown"}, Answer(c, result)
      PROVE  IInv'
  <2>1. /\ caller' \in [Caller -> States] /\ caller'[c].pc = "done"
        /\ caller'[c].result = result /\ Untouched(c)
    BY <1>1, <1>3, <1>4, Replies
  <2>2. Bounded(c)'
    BY <2>1 DEF Bounded, AnswerIs
  <2> QED
    BY <1>2, <2>1, <2>2, Answering, Local
<1>5. CASE /\ Goto(c, "lookup")
           /\ \/ caller[c].retry
              \/ keys # NoKeys /\ ~(now - fetchedAt > MaxStaleness)
  <2>1. /\ caller' \in [Caller -> States] /\ caller'[c].pc = "lookup"
        /\ caller'[c].began = caller[c].began /\ Untouched(c)
    BY <1>1, <1>5, Moves DEF Steps
  <2>2. keys # NoKeys /\ fetchedAt >= caller[c].began - MaxStaleness
    <3>1. CASE caller[c].retry
      BY <1>1, <3>1 DEF IInv, CallerOK, CheckedFresh, Checked
    <3>2. CASE keys # NoKeys /\ ~(now - fetchedAt > MaxStaleness)
      <4>1. caller[c].began \in Int /\ caller[c].began <= now
        BY <1>1, Fields DEF IInv, CallerOK, Timely
      <4> QED
        BY <1>1, <3>2, <4>1, Times, Parameters
    <3> QED
      BY <1>5, <3>1, <3>2
  <2>3. CheckedFresh(c)' /\ MissedRecently(c)'
    BY <1>2, <2>1, <2>2 DEF CheckedFresh, MissedRecently, At, cacheVars
  <2> QED
    BY <1>1, <1>2, <2>1, <2>3, GoingOn, Local DEF Steps
<1> QED
  BY <1>4, <1>5 DEF EnforceStaleness, Results

LEMMA SweptTypes ==
  ASSUME TypeOK
  PROVE  SweptRetries \in [Kid -> Instant]
<1>1. NoRetry \in Instant
  BY Parameters DEF NoRetry, Instant
<1> QED
  BY <1>1 DEF TypeOK, SweptRetries

LEMMA ReserveRetryKeeps ==
  ASSUME IInv, NEW c \in Caller, ReserveRetry(c)
  PROVE  IInv'
<1> DEFINE k == caller[c].kid
           new == [pc |-> "refresh", kid |-> k, began |-> caller[c].began, retry |-> TRUE]
<1>1. TypeOK /\ Past /\ ~Free(c) /\ At(c, "reserve")
  BY DEF IInv, ReserveRetry, At, Free
<1>2. k \in Kid /\ new \in States
  BY <1>1, Fields DEF Working, States
<1>3. caller' = [caller EXCEPT ![c] = new]
  BY DEF ReserveRetry
<1>4. caller' \in [Caller -> States] /\ caller'[c] = new /\ Untouched(c)
  <2> HIDE DEF new
  <2> QED
    BY <1>1, <1>2, <1>3 DEF Untouched, TypeOK, States
<1>5. /\ UNCHANGED <<now, issuerVars>> /\ now' = now /\ published' = published
      /\ since' = since /\ keys' = keys /\ fetchedAt' = fetchedAt
      /\ failures' = failures /\ lastAttempt' = lastAttempt
  BY DEF ReserveRetry, issuerVars, cacheVars
<1>6. retryAt' \in [Kid -> Instant]
  BY <1>1, SweptTypes, NowIsInstant DEF ReserveRetry
<1>7. outOfBand' \subseteq Kid \X (0..MaxTime)
  <2>1. outOfBand' = outOfBand \cup {<<k, now>>}
    BY DEF ReserveRetry
  <2> QED
    BY <1>1, <1>2, <2>1 DEF TypeOK
<1>8. KeysRecent'
  BY <1>5 DEF IInv, KeysRecent, Disagree
<1>9. CheckedFresh(c)' /\ MissedRecently(c)'
  BY <1>1, <1>4, <1>5 DEF IInv, CallerOK, CheckedFresh, Checked, MissedRecently, At
<1>10. CallerOK(c)'
  BY <1>1, <1>4, <1>5, <1>9, GoingOn DEF Steps
<1>11. /\ keys' \in (SUBSET Kid) \cup {NoKeys} /\ fetchedAt' \in Instant
       /\ lastAttempt' \in Instant /\ failures' \in 0..MaxFailures
  BY <1>1, <1>5 DEF TypeOK
<1>12. fetchedAt <= fetchedAt' /\ fetchedAt' <= now /\ (keys # NoKeys => keys' # NoKeys)
  BY <1>1, <1>5, Times DEF Past
<1> QED
  BY <1>4, <1>5, <1>6, <1>7, <1>8, <1>10, <1>11, <1>12, Assemble

LEMMA RetryDeniedKeeps ==
  ASSUME IInv, NEW c \in Caller, RetryDenied(c)
  PROVE  IInv'
<1>1. TypeOK /\ Past /\ ~Free(c) /\ At(c, "reserve")
  BY DEF IInv, RetryDenied, At, Free
<1>2. /\ UNCHANGED <<now, issuerVars>> /\ now' = now /\ published' = published
      /\ since' = since /\ keys' = keys /\ fetchedAt' = fetchedAt
      /\ failures' = failures /\ lastAttempt' = lastAttempt /\ outOfBand' = outOfBand
  BY DEF RetryDenied, issuerVars, cacheVars
<1>3. /\ keys' \in (SUBSET Kid) \cup {NoKeys} /\ fetchedAt' \in Instant
      /\ lastAttempt' \in Instant /\ failures' \in 0..MaxFailures
      /\ outOfBand' \subseteq Kid \X (0..MaxTime)
  BY <1>1, <1>2 DEF TypeOK
<1>4. retryAt' \in [Kid -> Instant]
  BY <1>1, SweptTypes DEF RetryDenied, TypeOK
<1>5. /\ caller' \in [Caller -> States] /\ caller'[c].pc = "done"
      /\ caller'[c].lag = Lag(caller[c].kid, "unknown") /\ Untouched(c)
  BY <1>1, <1>3, Replies DEF RetryDenied, Results
<1>6. Lag(caller[c].kid, "unknown") <= LagBound
  <2>1. caller[c].kid \in published =>
          since[caller[c].kid] >= caller[c].began - MaxStaleness - Deadline
    BY <1>1 DEF IInv, CallerOK, MissedRecently
  <2> QED
    BY <1>1, <2>1, InTime, LagBoundIsNat DEF Lag
<1>7. Bounded(c)'
  BY <1>5, <1>6, LagBoundIsNat DEF Bounded, LagBound, MaxStaleness
<1>8. CallerOK(c)'
  BY <1>5, <1>7, Answering
<1>9. KeysRecent'
  BY <1>2 DEF IInv, KeysRecent, Disagree
<1>10. fetchedAt <= fetchedAt' /\ fetchedAt' <= now /\ (keys # NoKeys => keys' # NoKeys)
  BY <1>1, <1>2, Times DEF Past
<1> QED
  BY <1>2, <1>3, <1>4, <1>5, <1>8, <1>9, <1>10, Assemble

-----------------------------------------------------------------------------
\* The issuer and the clock.

LEMMA PublishKeeps ==
  ASSUME IInv, NEW k \in Kid, Publish(k)
  PROVE  IInv'
<1>1. TypeOK /\ Past
  BY DEF IInv
<1>2. /\ now' = now /\ keys' = keys /\ fetchedAt' = fetchedAt /\ caller' = caller
      /\ failures' = failures /\ lastAttempt' = lastAttempt
      /\ retryAt' = retryAt /\ outOfBand' = outOfBand
  BY DEF Publish, cacheVars, retryVars
<1>3. /\ since' \in [Kid -> Instant] /\ since'[k] = now
      /\ \A j \in Kid \ {k} : since'[j] = since[j] /\ (j \in published' <=> j \in published)
      /\ published' \subseteq Kid
  BY <1>1, NowIsInstant DEF Publish, TypeOK
<1>4. TypeOK'
  BY <1>1, <1>2, <1>3 DEF TypeOK, At
<1>5. Past'
  BY <1>1, <1>2, <1>3, Times DEF Past
<1>6. KeysRecent'
  <2> SUFFICES ASSUME keys # NoKeys, NEW j \in Kid, Disagree(keys, j)'
               PROVE  since'[j] >= fetchedAt - Deadline
    BY <1>2 DEF KeysRecent, Disagree
  <2>1. CASE j = k
    BY <2>1, <1>1, <1>3, Times, Parameters DEF Past
  <2>2. CASE j # k
    BY <2>2, <1>2, <1>3 DEF IInv, KeysRecent, Disagree
  <2> QED
    BY <2>1, <2>2
<1>7. ASSUME NEW c \in Caller PROVE CallerOK(c)'
  <2>1. CallerOK(c)
    BY DEF IInv
  <2>2. Timely(c)' /\ CheckedFresh(c)' /\ Bounded(c)'
    BY <1>2, <2>1
       DEF CallerOK, Timely, CheckedFresh, Checked, Bounded, AnswerIs, At, Free
  <2>3. ~Free(c) => caller[c].began <= now /\ caller[c].began \in Int
                    /\ caller[c].kid \in Kid
    BY <1>1, <2>1, Fields DEF CallerOK, Timely
  <2>4. BodyRecent(c)'
    <3> SUFFICES ASSUME At(c, "served"), NEW j \in Kid, Disagree(caller[c].body, j)'
                 PROVE  since'[j] >= caller[c].began
      BY <1>2 DEF BodyRecent, At, Disagree
    <3>1. ~Free(c)
      BY DEF At, Free
    <3>2. CASE j = k
      BY <3>1, <3>2, <2>3, <1>1, <1>3, Times
    <3>3. CASE j # k
      BY <3>3, <2>1, <1>2, <1>3 DEF CallerOK, BodyRecent, Disagree
    <3> QED
      BY <3>2, <3>3
  <2>5. MissedRecently(c)'
    <3> SUFFICES ASSUME At(c, "reserve"), caller[c].kid \in published'
                 PROVE  since'[caller[c].kid] >= caller[c].began - MaxStaleness - Deadline
      BY <1>2 DEF MissedRecently, At
    <3>1. ~Free(c)
      BY DEF At, Free
    <3>2. CASE caller[c].kid = k
      BY <3>1, <3>2, <2>3, <1>1, <1>3, Times, Parameters
    <3>3. CASE caller[c].kid # k
      BY <3>1, <3>3, <2>1, <2>3, <1>3 DEF CallerOK, MissedRecently
    <3> QED
      BY <3>2, <3>3
  <2> QED
    BY <2>2, <2>4, <2>5 DEF CallerOK
<1> QED
  BY <1>4, <1>5, <1>6, <1>7 DEF IInv

LEMMA TickKeeps ==
  ASSUME IInv, Tick
  PROVE  IInv'
<1>1. TypeOK /\ Past
  BY DEF IInv
<1>2. /\ now' = now + 1 /\ now < MaxTime /\ published' = published /\ since' = since
      /\ keys' = keys /\ fetchedAt' = fetchedAt /\ caller' = caller
      /\ failures' = failures /\ lastAttempt' = lastAttempt /\ retryAt' = retryAt
      /\ outOfBand' \subseteq outOfBand
  BY DEF Tick, issuerVars, cacheVars
<1>3. TypeOK'
  <2>1. now' \in 0..MaxTime
    BY <1>1, <1>2, Times, Parameters
  <2> QED
    BY <1>1, <1>2, <2>1 DEF TypeOK, At
<1>4. Past'
  BY <1>1, <1>2, Times DEF Past
<1>5. KeysRecent'
  BY <1>2 DEF IInv, KeysRecent, Disagree
<1>6. ASSUME NEW c \in Caller PROVE CallerOK(c)'
  <2>1. CallerOK(c)
    BY DEF IInv
  <2>2. Timely(c)'
    <3> SUFFICES ASSUME ~Free(c)
                 PROVE  caller[c].began <= now + 1 /\ now + 1 <= caller[c].began + Deadline
      BY <1>2 DEF Timely, Free
    <3>1. caller[c].began \in Int /\ caller[c].began <= now
      BY <1>1, <2>1, Fields DEF CallerOK, Timely
    <3>2. now < caller[c].began + Deadline
      BY DEF Tick
    <3> QED
      BY <3>1, <3>2, <1>1, Times, Parameters
  <2> QED
    BY <1>2, <2>1, <2>2
       DEF CallerOK, BodyRecent, CheckedFresh, Checked, MissedRecently, Bounded,
           AnswerIs, At, Free, Disagree
<1> QED
  BY <1>3, <1>4, <1>5, <1>6 DEF IInv

-----------------------------------------------------------------------------
\* The two bounds on how far an answer lags.

LEMMA Initially == Init => IInv
<1> SUFFICES ASSUME Init PROVE IInv
  OBVIOUS
<1>1. LongAgo \in Instant
  BY Parameters DEF Instant
<1>2. \A c \in Caller : caller[c] = Idle
  BY DEF Init
<1>3. TypeOK
  BY <1>1, <1>2, Parameters DEF Init, TypeOK, NoRetry, Idle
<1>4. Past
  BY Parameters DEF Init, Past
<1>5. KeysRecent
  BY DEF Init, KeysRecent
<1>6. ASSUME NEW c \in Caller PROVE CallerOK(c)
  <2>1. caller[c].pc = "idle"
    BY <1>2 DEF Idle
  <2> QED
    BY <2>1 DEF CallerOK, Timely, BodyRecent, CheckedFresh, Checked, MissedRecently,
                Bounded, AnswerIs, At, Free
<1> QED
  BY <1>3, <1>4, <1>5, <1>6 DEF IInv

LEMMA Inductive == IInv /\ [Next]_vars => IInv'
<1> SUFFICES ASSUME IInv, [Next]_vars PROVE IInv'
  OBVIOUS
<1>1. ASSUME NEW c \in Caller, NEW k \in Kid, KeyForKid(c, k) PROVE IInv'
  BY <1>1, KeyForKidKeeps
<1>2. ASSUME NEW c \in Caller, LookupKey(c) PROVE IInv'
  BY <1>2, LookupKeyKeeps
<1>3. ASSUME NEW c \in Caller, BeginFetch(c) PROVE IInv'
  BY <1>3, BeginFetchKeeps
<1>4. ASSUME NEW c \in Caller, IssuerServes(c) PROVE IInv'
  BY <1>4, IssuerServesKeeps
<1>5. ASSUME NEW c \in Caller, FetchSucceeds(c) PROVE IInv'
  BY <1>5, FetchSucceedsKeeps
<1>6. ASSUME NEW c \in Caller, FetchFails(c) PROVE IInv'
  BY <1>6, FetchFailsKeeps
<1>7. ASSUME NEW c \in Caller, EnforceStaleness(c) PROVE IInv'
  BY <1>7, EnforceStalenessKeeps
<1>8. ASSUME NEW c \in Caller, ReserveRetry(c) PROVE IInv'
  BY <1>8, ReserveRetryKeeps
<1>9. ASSUME NEW c \in Caller, RetryDenied(c) PROVE IInv'
  BY <1>9, RetryDeniedKeeps
<1>10. ASSUME NEW k \in Kid, Publish(k) PROVE IInv'
  BY <1>10, PublishKeeps
<1>11. CASE Tick
  BY <1>11, TickKeeps
<1>12. CASE UNCHANGED vars
  BY <1>12
     DEF vars, issuerVars, cacheVars, retryVars, IInv, TypeOK, Past, KeysRecent,
         CallerOK, Timely, BodyRecent, CheckedFresh, Checked, MissedRecently, Bounded,
         AnswerIs, Disagree, At, Free
<1> QED
  BY <1>1, <1>2, <1>3, <1>4, <1>5, <1>6, <1>7, <1>8, <1>9, <1>10, <1>11, <1>12
     DEF Next

LEMMA Invariance == Spec => []IInv
BY Initially, Inductive, PTL DEF Spec

\* The types hold, and a goroutine looks a kid up only in a populated cache: the code's
\* c.keys is never read nil past the staleness checks of refresh (jwks.go).
THEOREM JWKSTypeCorrect == Spec => []TypeOK
<1>1. IInv => TypeOK
  BY DEF IInv
<1> QED
  BY <1>1, Invariance, PTL

\* KeyForKid (jwks.go) never returns a key that the issuer withdrew more than LagBound
\* ago, however fetches overlap, end or fail.
THEOREM TrustBoundHolds == Spec => []TrustBound
<1>1. IInv => TrustBound
  BY DEF IInv, CallerOK, Bounded, TrustBound
<1> QED
  BY <1>1, Invariance, PTL

\* KeyForKid (jwks.go) never reports as unknown a kid the issuer has published for
\* more than LagBound, also when the out-of-band refetch is denied to it.
THEOREM RotationBoundHolds == Spec => []RotationBound
<1>1. IInv => RotationBound
  BY DEF IInv, CallerOK, Bounded, RotationBound
<1> QED
  BY <1>1, Invariance, PTL

-----------------------------------------------------------------------------
\* The limits on out-of-band fetches.

\* The retry table remembers exactly the out-of-band fetches of the last UnknownWait.
Remembered ==
  outOfBand = {<<k, retryAt[k]>> : k \in TrackedKids}

Capped == Cardinality(TrackedKids) <= MaxTracked

TableOK == TypeOK /\ Remembered /\ Capped

\* As many fetches as kids in the table.
LEMMA AsManyAsTracked ==
  ASSUME TableOK
  PROVE  /\ IsFiniteSet(TrackedKids)
         /\ Cardinality(outOfBand) = Cardinality(TrackedKids)
         /\ Cardinality(outOfBand) \in Nat
<1> DEFINE f == [k \in TrackedKids |-> <<k, retryAt[k]>>]
<1>1. IsFiniteSet(TrackedKids)
  BY FS_Subset, JWKSAssumption DEF TrackedKids
<1>2. f \in Bijection(TrackedKids, outOfBand)
  BY DEF TableOK, Remembered, Bijection, Injection, Surjection, IsInjective
<1>3. ExistsBijection(TrackedKids, outOfBand)
  BY <1>2 DEF ExistsBijection
<1> QED
  BY <1>1, <1>3, FS_Bijection, FS_CardinalityType

\* Steps that leave the table and the clock alone.
LEMMA TableStands ==
  ASSUME TableOK, TypeOK', now' = now, retryAt' = retryAt, outOfBand' = outOfBand
  PROVE  TableOK'
BY DEF TableOK, Remembered, Capped, TrackedKids, Tracked

LEMMA TableStarts == Init => TableOK
<1> SUFFICES ASSUME Init PROVE TableOK
  OBVIOUS
<1>1. TypeOK
  BY Initially DEF IInv
<1>2. TrackedKids = {}
  BY Parameters DEF Init, NoRetry, TrackedKids, Tracked
<1>3. outOfBand = {}
  BY DEF Init
<1> QED
  BY <1>1, <1>2, <1>3, FS_EmptySet, Parameters DEF TableOK, Remembered, Capped

\* What a reservation, the sweep it does included, makes of the table.
LEMMA Swept ==
  ASSUME TypeOK, NEW k \in Kid
  PROVE  /\ Tracked(k) => SweptRetries[k] = retryAt[k]
         /\ ~Tracked(k) => ~(now - SweptRetries[k] < UnknownWait)
BY Times, Parameters DEF SweptRetries, Tracked, NoRetry

LEMMA ReserveRetryTable ==
  ASSUME TableOK, TypeOK', NEW c \in Caller, ReserveRetry(c)
  PROVE  TableOK'
<1> DEFINE k == caller[c].kid
<1>1. TypeOK /\ k \in Kid
  BY Fields DEF TableOK, ReserveRetry, At, Free
<1>2. /\ retryAt' = [SweptRetries EXCEPT ![k] = now] /\ now' = now
      /\ outOfBand' = outOfBand \cup {<<k, now>>}
      /\ ~Tracked(k) /\ Cardinality(TrackedKids) < MaxTracked
  BY DEF ReserveRetry, MayRetry
<1>3. retryAt'[k] = now /\ \A j \in Kid \ {k} : retryAt'[j] = SweptRetries[j]
  BY <1>1, <1>2, SweptTypes
<1> HIDE DEF k
<1>4. \A j \in Kid : Tracked(j)' <=> Tracked(j) \/ j = k
  BY <1>1, <1>2, <1>3, Swept, Times, Parameters DEF Tracked
<1>5. TrackedKids' = TrackedKids \cup {k} /\ k \notin TrackedKids
  BY <1>1, <1>2, <1>4 DEF TrackedKids
<1>6. \A j \in TrackedKids : retryAt'[j] = retryAt[j]
  BY <1>1, <1>3, <1>5, Swept DEF TrackedKids
<1>7. outOfBand' = {<<j, retryAt'[j]>> : j \in TrackedKids'}
  BY <1>2, <1>3, <1>5, <1>6 DEF TableOK, Remembered
<1>8. Cardinality(TrackedKids') <= MaxTracked
  <2>1. IsFiniteSet(TrackedKids) /\ Cardinality(TrackedKids) \in Nat
    BY AsManyAsTracked, FS_CardinalityType
  <2>2. Cardinality(TrackedKids \cup {k}) = Cardinality(TrackedKids) + 1
    BY <1>5, <2>1, FS_AddElement
  <2>3. Cardinality(TrackedKids') = Cardinality(TrackedKids) + 1
    BY <1>5, <2>2, Zenon
  <2> QED
    BY <1>2, <2>1, <2>3, Parameters
<1> QED
  BY <1>7, <1>8 DEF TableOK, Remembered, Capped

LEMMA RetryDeniedTable ==
  ASSUME TableOK, TypeOK', NEW c \in Caller, RetryDenied(c)
  PROVE  TableOK'
<1>1. TypeOK
  BY DEF TableOK
<1>2. now' = now /\ outOfBand' = outOfBand
  BY DEF RetryDenied
<1>3. CASE retryAt' = retryAt
  BY <1>2, <1>3, TableStands
<1>4. CASE retryAt' = SweptRetries
  <2>1. \A j \in Kid : Tracked(j)' <=> Tracked(j)
    BY <1>1, <1>2, <1>4, Swept, Times, Parameters DEF Tracked
  <2>2. TrackedKids' = TrackedKids
    BY <2>1 DEF TrackedKids
  <2>3. \A j \in TrackedKids : retryAt'[j] = retryAt[j]
    BY <1>1, <1>4, Swept DEF TrackedKids
  <2> QED
    BY <1>2, <2>2, <2>3 DEF TableOK, Remembered, Capped
<1> QED
  BY <1>3, <1>4 DEF RetryDenied

LEMMA TickTable ==
  ASSUME TableOK, TypeOK', Tick
  PROVE  TableOK'
<1>1. TypeOK
  BY DEF TableOK
<1>2. /\ now' = now + 1 /\ retryAt' = retryAt
      /\ outOfBand' = {f \in outOfBand : now' - f[2] < UnknownWait}
  BY DEF Tick
<1>3. TrackedKids' = {j \in TrackedKids : now' - retryAt[j] < UnknownWait}
  BY <1>1, <1>2, Times, Parameters DEF TrackedKids, Tracked
<1>4. Remembered'
  BY <1>2, <1>3 DEF TableOK, Remembered
<1>5. Cardinality(TrackedKids') <= MaxTracked
  <2>1. IsFiniteSet(TrackedKids) /\ Cardinality(TrackedKids) <= MaxTracked
    BY AsManyAsTracked DEF TableOK, Capped
  <2>2. TrackedKids' \in SUBSET TrackedKids
    BY <1>3
  <2> QED
    BY <2>1, <2>2, FS_Subset, FS_CardinalityType, Parameters
<1> QED
  BY <1>4, <1>5 DEF TableOK, Capped

LEMMA TableInductive == TableOK /\ TypeOK' /\ [Next]_vars => TableOK'
<1> SUFFICES ASSUME TableOK, TypeOK', [Next]_vars PROVE TableOK'
  OBVIOUS
<1>1. ASSUME NEW c \in Caller, ReserveRetry(c) PROVE TableOK'
  BY <1>1, ReserveRetryTable
<1>2. ASSUME NEW c \in Caller, RetryDenied(c) PROVE TableOK'
  BY <1>2, RetryDeniedTable
<1>3. CASE Tick
  BY <1>3, TickTable
<1>4. CASE UNCHANGED <<now, retryVars>>
  BY <1>4, TableStands DEF retryVars
<1>5. ASSUME NEW c \in Caller,
             \/ \E k \in Kid : KeyForKid(c, k)
             \/ LookupKey(c) \/ BeginFetch(c) \/ IssuerServes(c)
             \/ FetchSucceeds(c) \/ FetchFails(c) \/ EnforceStaleness(c)
      PROVE  UNCHANGED <<now, retryVars>>
  BY <1>5 DEF KeyForKid, LookupKey, BeginFetch, IssuerServes, FetchSucceeds, FetchFails,
              EnforceStaleness
<1>6. ASSUME NEW k \in Kid, Publish(k) PROVE UNCHANGED <<now, retryVars>>
  BY <1>6 DEF Publish
<1>7. CASE UNCHANGED vars
  BY <1>4, <1>7 DEF vars
<1> QED
  BY <1>1, <1>2, <1>3, <1>4, <1>5, <1>6, <1>7 DEF Next

LEMMA TableInvariance == Spec => []TableOK
BY TableStarts, TableInductive, JWKSTypeCorrect, PTL DEF Spec

\* reserveUnknownKidRetry (jwks.go) lets at most MaxTracked out-of-band fetches start
\* in any UnknownWait, whatever kids the tokens name.
THEOREM OutOfBandBoundHolds == Spec => []OutOfBandBound
<1>1. TableOK => OutOfBandBound
  BY AsManyAsTracked DEF TableOK, Capped, OutOfBandBound
<1> QED
  BY <1>1, TableInvariance, PTL

\* reserveUnknownKidRetry (jwks.go) denies a kid only for its own refetch or for a full
\* table, never for a few refetches of other kids.
THEOREM NoSqueezeHolds == Spec => []NoSqueeze
<1>1. TableOK => NoSqueeze
  <2> SUFFICES ASSUME TableOK, NEW c \in Caller, At(c, "reserve"), ~MayRetry(caller[c].kid)
               PROVE  \/ \E t \in 0..MaxTime : <<caller[c].kid, t>> \in outOfBand
                      \/ Cardinality(outOfBand) = MaxTracked
    BY DEF NoSqueeze
  <2>1. caller[c].kid \in Kid
    BY Fields DEF TableOK, At, Free
  <2>2. CASE Tracked(caller[c].kid)
    <3>1. <<caller[c].kid, retryAt[caller[c].kid]>> \in outOfBand
      BY <2>1, <2>2 DEF TableOK, Remembered, TrackedKids
    <3> QED
      BY <3>1 DEF TableOK, TypeOK
  <2>3. CASE ~(Cardinality(TrackedKids) < MaxTracked)
    BY <2>3, AsManyAsTracked, Parameters DEF TableOK, Capped
  <2> QED
    BY <2>2, <2>3 DEF MayRetry
<1> QED
  BY <1>1, TableInvariance, PTL

=============================================================================
