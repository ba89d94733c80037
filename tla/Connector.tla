------------------------------ MODULE Connector ------------------------------
(***************************************************************************)
(* The connector's handlers for /auth and /identity (internal/connector/   *)
(* handlers.go) behind their two rate limits: one GrantLimiter on the      *)
(* calling service, and identityRateLimiter (identitylimiter.go), which    *)
(* gives each attempted identity a bucket of its own in a second           *)
(* GrantLimiter while it has room for it, and shares a third one among     *)
(* all the others.                                                         *)
(*                                                                         *)
(* Each limiter call is under that limiter's own mutex, and so is          *)
(* trackOrCheck: each is one step, and the requests interleave between     *)
(* them.  There is one caller, the api-service, from one address.  Every   *)
(* time is kept as its distance to now, so that time needs no bound.       *)
(***************************************************************************)
EXTENDS Integers, FiniteSets, PowersOfTwo

CONSTANTS
  Request,      \* handler goroutines
  Identity,     \* hashes of caller and username, or of caller, phone and name
  MaxTracked,   \* maxTrackedIdentities
  TrackTTL,     \* identityTrackedKeyTTL
  SweepInterval,\* identitySweepInterval and grantSweepInterval
  EntryTTL,     \* grantEntryTTL
  BaseBackoff, MaxBackoff,                  \* of a caller and of an identity
  OverflowBaseBackoff, OverflowMaxBackoff,
  Width,        \* bits of a time.Duration
  MaxFailures,  \* failures are counted up to here: the backoff has its maximum by then
  Deadline,     \* vendorCallTimeout bounds a request
  None

\* One hour against five minutes, a minute and ten seconds.
ASSUME ConnectorAssumption ==
  /\ IsFiniteSet(Identity)
  /\ {MaxTracked, TrackTTL, SweepInterval, EntryTTL, BaseBackoff, MaxBackoff,
      OverflowBaseBackoff, OverflowMaxBackoff, Width, MaxFailures, Deadline}
       \subseteq Nat \ {0}
  /\ TrackTTL > MaxBackoff + Deadline
  /\ EntryTTL = TrackTTL
  /\ BaseBackoff * Pow2[MaxFailures - 1] >= MaxBackoff
  /\ OverflowBaseBackoff * Pow2[MaxFailures - 1] >= OverflowMaxBackoff
  /\ None \notin Int

VARIABLES
  caller,       \* entry of the caller's limiter
  own,          \* entries of underlying, one per identity
  overflow,     \* entry of the shared bucket
  ownSweep,     \* age of underlying's last sweep
  quiet,        \* trackedAt: ticks since an identity's last activity
  trackSweep,   \* age of the last sweep of trackedAt
  req           \* the request each goroutine serves

vars == <<caller, own, overflow, ownSweep, quiet, trackSweep, req>>

\* grantBackoffState, its alert apart: nothing is called on it here.
Entry(max) == [failures : 1..MaxFailures, until : -EntryTTL..max]

Idle == [pc |-> "idle"]
Serving ==
  [pc : {"gate", "allow", "vendor", "record", "check", "identityRecord"},
   id : Identity,
   own : BOOLEAN,       \* the last answer of trackOrCheck
   admitted : BOOLEAN,  \* history: that of allow
   success : BOOLEAN,
   age : 0..Deadline]

TypeOK ==
  /\ caller \in Entry(MaxBackoff) \cup {None}
  /\ own \in [Identity -> Entry(MaxBackoff) \cup {None}]
  /\ overflow \in Entry(OverflowMaxBackoff) \cup {None}
  /\ ownSweep \in 0..SweepInterval
  /\ quiet \in [Identity -> (0..TrackTTL) \cup {None}]
  /\ trackSweep \in 0..SweepInterval
  /\ req \in [Request -> {Idle} \cup Serving]

Init ==
  /\ caller = None
  /\ own = [i \in Identity |-> None]
  /\ overflow = None
  /\ ownSweep = SweepInterval
  /\ quiet = [i \in Identity |-> None]
  /\ trackSweep = SweepInterval
  /\ req = [r \in Request |-> Idle]

-----------------------------------------------------------------------------
\* The three GrantLimiters, of which underlying is given each key in both slots.

Underlying ==
  INSTANCE GrantLimiter WITH
    ClientID <- Identity, SourceIP <- Identity, AlertThreshold <- MaxFailures,
    NoEntry <- None, now <- 0, byClientID <- own, bySourceIP <- own,
    limiterSweep <- -ownSweep, alerts <- [i \in Identity |-> 0]

Overflow ==
  INSTANCE GrantLimiter WITH
    ClientID <- {None}, SourceIP <- {None}, AlertThreshold <- MaxFailures,
    BaseBackoff <- OverflowBaseBackoff, MaxBackoff <- OverflowMaxBackoff,
    NoEntry <- None, now <- 0, byClientID <- [k \in {None} |-> overflow],
    bySourceIP <- [k \in {None} |-> overflow], limiterSweep <- 0,
    alerts <- [k \in {None} |-> 0]

Blocked(e) == Underlying!Blocked(e)

\* advance on one more failure.
FailuresAfter(e) ==
  IF e = None THEN 1
  ELSE IF e.failures < MaxFailures THEN e.failures + 1 ELSE MaxFailures

OverflowAdvanced(e) ==
  [failures |-> FailuresAfter(e), until |-> Overflow!Backoff(FailuresAfter(e))]

\* Regression: a limiter built with the other one's constants.
Advanced_Swapped(e) == OverflowAdvanced(e)

Advanced(e) ==
  [failures |-> FailuresAfter(e), until |-> Underlying!Backoff(FailuresAfter(e))]

\* The entry of a limiter with a single key after its Allow: its sweep may be due.
Kept(e) == IF e # None /\ e.until <= -EntryTTL THEN {e, None} ELSE {e}

-----------------------------------------------------------------------------
\* trackOrCheck.

\* sweepLocked.
TrackSweepDue == trackSweep >= SweepInterval

SweptTracks ==
  [i \in Identity |-> IF TrackSweepDue /\ quiet[i] # None /\ quiet[i] >= TrackTTL
                      THEN None ELSE quiet[i]]

Tracked(q) == {i \in Identity : q[i] # None}

\* Regression: before review the record calls did not ask whether a key is tracked.
Admits_Unchecked(i, admitIfRoom) ==
  \/ ~admitIfRoom
  \/ i \in Tracked(SweptTracks)
  \/ Cardinality(Tracked(SweptTracks)) < MaxTracked

Admits(i, admitIfRoom) ==
  \/ i \in Tracked(SweptTracks)
  \/ admitIfRoom /\ Cardinality(Tracked(SweptTracks)) < MaxTracked

\* Regression: a tracked key keeps the time it was first seen.
Touched_FirstSeen(q, i) == IF q[i] = None THEN [q EXCEPT ![i] = 0] ELSE q

\* Activity extends the TTL.
Touched(q, i) == [q EXCEPT ![i] = 0]

\* The answer, true for the key's own bucket, is kept in the request.
TrackOrCheck(r, admitIfRoom, next) ==
  LET i == req[r].id
      tracked == Admits(i, admitIfRoom)
  IN  /\ quiet' = IF tracked THEN Touched(SweptTracks, i) ELSE SweptTracks
      /\ trackSweep' = IF TrackSweepDue THEN 0 ELSE trackSweep
      /\ req' = [req EXCEPT ![r].pc = next, ![r].own = tracked]
      /\ UNCHANGED <<caller, own, overflow, ownSweep>>

-----------------------------------------------------------------------------
\* NewAuthHandler and NewIdentityHandler.  A refusal ends the request with 429.

\* The caller's Limiter.Allow (a 429 of it changes nothing), then the body.
Arrive(r, i) ==
  /\ req[r] = Idle
  /\ ~Blocked(caller)
  /\ caller' \in Kept(caller)
  /\ req' = [req EXCEPT ![r] =
       [pc |-> "gate", id |-> i, own |-> FALSE, admitted |-> FALSE,
        success |-> FALSE, age |-> 0]]
  /\ UNCHANGED <<own, overflow, ownSweep, quiet, trackSweep>>

\* The request is answered 400 for its body.
BadRequest(r) ==
  /\ req[r].pc = "gate"
  /\ req' = [req EXCEPT ![r] = Idle]
  /\ UNCHANGED <<caller, own, overflow, ownSweep, quiet, trackSweep>>

\* identityGateAllow: which bucket, then that bucket's Allow.
Gate(r) ==
  /\ req[r].pc = "gate"
  /\ TrackOrCheck(r, TRUE, "allow")

Continues(r, entry) ==
  req' = [req EXCEPT ![r] = IF Blocked(entry) THEN Idle
                            ELSE [req[r] EXCEPT !.pc = "vendor", !.admitted = req[r].own]]

AllowOwn(r) ==
  /\ req[r].pc = "allow"
  /\ req[r].own
  /\ Continues(r, own[req[r].id])
  /\ IF Underlying!LimiterSweepDue
     THEN own' = Underlying!SweptMap(own) /\ ownSweep' = 0
     ELSE UNCHANGED <<own, ownSweep>>
  /\ UNCHANGED <<caller, overflow, quiet, trackSweep>>

AllowOverflow(r) ==
  /\ req[r].pc = "allow"
  /\ ~req[r].own
  /\ Continues(r, overflow)
  /\ overflow' \in Kept(overflow)
  /\ UNCHANGED <<caller, own, ownSweep, quiet, trackSweep>>

\* The vendor's answer; no answer, a deadline, a caller gone and, for /identity, no
\* token to ask with are failures like a rejection.
VendorAnswers(r, success) ==
  /\ req[r].pc = "vendor"
  /\ req' = [req EXCEPT ![r].pc = "record", ![r].success = success]
  /\ UNCHANGED <<caller, own, overflow, ownSweep, quiet, trackSweep>>

\* Limiter.RecordSuccess or RecordFailure.
Record(r) ==
  /\ req[r].pc = "record"
  /\ caller' = IF req[r].success THEN None ELSE Advanced(caller)
  /\ req' = [req EXCEPT ![r].pc = "check"]
  /\ UNCHANGED <<own, overflow, ownSweep, quiet, trackSweep>>

\* identityGateRecordSuccess or identityGateRecordFailure: the bucket again, then
\* its record.
Check(r) ==
  /\ req[r].pc = "check"
  /\ TrackOrCheck(r, FALSE, "identityRecord")

RecordOwn(r) ==
  LET i == req[r].id
  IN  /\ req[r].pc = "identityRecord"
      /\ req[r].own
      /\ own' = [own EXCEPT ![i] = IF req[r].success THEN None ELSE Advanced(@)]
      /\ req' = [req EXCEPT ![r] = Idle]
      /\ UNCHANGED <<caller, overflow, ownSweep, quiet, trackSweep>>

RecordOverflow(r) ==
  /\ req[r].pc = "identityRecord"
  /\ ~req[r].own
  /\ overflow' = IF req[r].success THEN None ELSE OverflowAdvanced(overflow)
  /\ req' = [req EXCEPT ![r] = Idle]
  /\ UNCHANGED <<caller, own, ownSweep, quiet, trackSweep>>

-----------------------------------------------------------------------------
Later(e) ==
  IF e = None THEN None
  ELSE [e EXCEPT !.until = IF @ > -EntryTTL THEN @ - 1 ELSE @]

Older(age, bound) == IF age < bound THEN age + 1 ELSE age

\* No request is served for longer than Deadline.
Tick ==
  /\ \A r \in Request : req[r] # Idle => req[r].age < Deadline
  /\ caller' = Later(caller)
  /\ own' = [i \in Identity |-> Later(own[i])]
  /\ overflow' = Later(overflow)
  /\ ownSweep' = Older(ownSweep, SweepInterval)
  /\ trackSweep' = Older(trackSweep, SweepInterval)
  /\ quiet' = [i \in Identity |-> IF quiet[i] = None THEN None
                                  ELSE Older(quiet[i], TrackTTL)]
  /\ req' = [r \in Request |-> IF req[r] = Idle THEN Idle
                               ELSE [req[r] EXCEPT !.age = @ + 1]]

Next ==
  \/ \E r \in Request :
       \/ \E i \in Identity : Arrive(r, i)
       \/ BadRequest(r)
       \/ Gate(r)
       \/ AllowOwn(r)
       \/ AllowOverflow(r)
       \/ \E success \in BOOLEAN : VendorAnswers(r, success)
       \/ Record(r)
       \/ Check(r)
       \/ RecordOwn(r)
       \/ RecordOverflow(r)
  \/ Tick

Spec == Init /\ [][Next]_vars

-----------------------------------------------------------------------------
\* trackOrCheck and sweepLocked (identitylimiter.go:167-197, 243-253): an identity that its
\* own bucket still blocks is still tracked, so that no later attempt on it is sent
\* to the shared bucket, past the block.
BlockedIsTracked ==
  \A i \in Identity : Blocked(own[i]) => quiet[i] # None

\* recordFailure (identitylimiter.go:216-232): however many identities are tried, the
\* tracked ones stay within the cap and the entries that a sweep of underlying would
\* keep within twice the cap: those of the keys tracked now, and those of keys swept
\* while theirs lived on.
EntriesBounded ==
  /\ Cardinality(Tracked(quiet)) <= MaxTracked
  /\ Cardinality({i \in Identity : Underlying!SweptMap(own)[i] # None}) <= 2 * MaxTracked

\* identitylimiter.go:178-181: the entry points agree; an attempt that an identity's
\* own bucket admitted is recorded there.
RecordedWhereAllowed ==
  \A r \in Request :
    req[r] # Idle /\ req[r].pc = "identityRecord" /\ req[r].admitted => req[r].own

=============================================================================
