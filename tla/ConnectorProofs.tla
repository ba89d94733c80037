--------------------------- MODULE ConnectorProofs ---------------------------
(***************************************************************************)
(* The identity limiter for every value of the constants.                  *)
(*                                                                         *)
(* Two clocks decide about an identity: that of its tracking, extended by  *)
(* every activity, and that of its block, set by a failure.  The invariant *)
(* relates them through the request in between: who holds an answer of     *)
(* trackOrCheck has touched the identity within its own age.               *)
(*                                                                         *)
(* They also end separately, so an entry may be left behind by its         *)
(* identity.  At no moment ahead are there more of these than MaxTracked,  *)
(* which bounds the live entries.                                          *)
(***************************************************************************)
EXTENDS Connector, PowersOfTwoProofs, FiniteSetTheorems, TLAPS

\* Between a positive answer of trackOrCheck and the record that relies on it.
Relies(q) ==
  /\ q # Idle
  /\ \/ q.pc \in {"allow", "identityRecord"} /\ q.own
     \/ q.pc \in {"vendor", "record", "check"} /\ q.admitted

Tracking(q) == quiet[q.id] # None /\ quiet[q.id] <= q.age

\* Who relies on it has kept its identity tracked since.
HeldIsTracked == \A r \in Request : Relies(req[r]) => Tracking(req[r])

\* A block began within Deadline of the last activity, and lasts MaxBackoff.
BlockIsRecent ==
  \A i \in Identity :
    own[i] # None /\ own[i].until > 0 =>
      /\ quiet[i] # None
      /\ quiet[i] + own[i].until <= MaxBackoff + Deadline

IInv ==
  /\ TypeOK
  /\ HeldIsTracked
  /\ BlockIsRecent
  /\ RecordedWhereAllowed

-----------------------------------------------------------------------------
\* Constants.

LEMMA Constants ==
  /\ {MaxTracked, TrackTTL, SweepInterval, EntryTTL, BaseBackoff, MaxBackoff,
      OverflowBaseBackoff, OverflowMaxBackoff, Width, MaxFailures, Deadline}
       \subseteq Nat \ {0}
  /\ TrackTTL > MaxBackoff + Deadline
  /\ None \notin Int
BY ConnectorAssumption

\* The limiters' powers of two are those of PowersOfTwo.
LEMMA InstancePowers ==
  ASSUME NEW n \in Nat
  PROVE  Underlying!Pow2[n] \in Nat \ {0} /\ Overflow!Pow2[n] \in Nat \ {0}
<1>1. Underlying!Pow2 = Pow2 /\ Overflow!Pow2 = Pow2
  BY DEF Underlying!Pow2, Overflow!Pow2, Pow2
<1> QED BY <1>1, Pow2Type

\* Whatever the shift wraps to, the guard of advance leaves a positive backoff within
\* the maximum.
LEMMA BackoffBound ==
  ASSUME NEW n \in 1..MaxFailures
  PROVE  Underlying!Backoff(n) \in 1..MaxBackoff
<1>1. n - 1 \in Nat /\ Width - 1 \in Nat /\ Width \in Nat
  BY Constants
<1> DEFINE a == Underlying!Pow2[n - 1]
           h == Underlying!Pow2[Width - 1]
           w == Underlying!Pow2[Width]
<1>2. a \in Nat /\ h \in Nat /\ w \in Nat \ {0}
  BY <1>1, InstancePowers
<1>3. Underlying!Shifted(n - 1) =
        IF (BaseBackoff * a) % w >= h THEN ((BaseBackoff * a) % w) - w
        ELSE (BaseBackoff * a) % w
  BY DEF Underlying!Shifted
<1> HIDE DEF a, h, w
<1>4. (BaseBackoff * a) % w \in Int
  BY <1>2, Constants
<1>5. Underlying!Shifted(n - 1) \in Int
  BY <1>2, <1>3, <1>4
<1> QED BY <1>5, Constants DEF Underlying!Backoff

LEMMA OverflowBackoffBound ==
  ASSUME NEW n \in 1..MaxFailures
  PROVE  Overflow!Backoff(n) \in 1..OverflowMaxBackoff
<1>1. n - 1 \in Nat /\ Width - 1 \in Nat /\ Width \in Nat
  BY Constants
<1> DEFINE a == Overflow!Pow2[n - 1]
           h == Overflow!Pow2[Width - 1]
           w == Overflow!Pow2[Width]
<1>2. a \in Nat /\ h \in Nat /\ w \in Nat \ {0}
  BY <1>1, InstancePowers
<1>3. Overflow!Shifted(n - 1) =
        IF (OverflowBaseBackoff * a) % w >= h THEN ((OverflowBaseBackoff * a) % w) - w
        ELSE (OverflowBaseBackoff * a) % w
  BY DEF Overflow!Shifted
<1> HIDE DEF a, h, w
<1>4. (OverflowBaseBackoff * a) % w \in Int
  BY <1>2, Constants
<1>5. Overflow!Shifted(n - 1) \in Int
  BY <1>2, <1>3, <1>4
<1> QED BY <1>5, Constants DEF Overflow!Backoff

-----------------------------------------------------------------------------
\* Entries.

LEMMA AdvancedType ==
  ASSUME NEW e \in Entry(MaxBackoff) \cup {None}
  PROVE  Advanced(e) \in Entry(MaxBackoff)
<1>1. FailuresAfter(e) \in 1..MaxFailures
  BY Constants DEF FailuresAfter, Entry
<1>2. Underlying!Backoff(FailuresAfter(e)) \in -EntryTTL..MaxBackoff
  BY <1>1, BackoffBound, Constants
<1> QED BY <1>1, <1>2 DEF Advanced, Entry

LEMMA OverflowAdvancedType ==
  ASSUME NEW e \in Entry(OverflowMaxBackoff) \cup {None}
  PROVE  OverflowAdvanced(e) \in Entry(OverflowMaxBackoff)
<1>1. FailuresAfter(e) \in 1..MaxFailures
  BY Constants DEF FailuresAfter, Entry
<1>2. Overflow!Backoff(FailuresAfter(e)) \in -EntryTTL..OverflowMaxBackoff
  BY <1>1, OverflowBackoffBound, Constants
<1> QED BY <1>1, <1>2 DEF OverflowAdvanced, Entry

\* A tick brings the end of a block closer, down to EntryTTL after it.
LEMMA LaterType ==
  ASSUME NEW max \in Nat, NEW e \in Entry(max) \cup {None}
  PROVE  /\ Later(e) \in Entry(max) \cup {None}
         /\ Later(e) # None => /\ e # None
                               /\ Later(e).until > 0 => Later(e).until = e.until - 1
<1>1. CASE e = None
  BY <1>1 DEF Later
<1>2. CASE e # None
  <2>1. e \in Entry(max)
    BY <1>2
  <2> DEFINE u == IF e.until > -EntryTTL THEN e.until - 1 ELSE e.until
  <2>2. u \in -EntryTTL..max /\ (u > 0 => u = e.until - 1)
    BY <2>1, Constants DEF Entry
  <2>3. Later(e) = [e EXCEPT !.until = u]
    BY <1>2 DEF Later
  <2> HIDE DEF u
  <2>4. Later(e) \in Entry(max) /\ Later(e).until = u
    BY <2>1, <2>2, <2>3 DEF Entry
  <2> QED BY <1>2, <2>2, <2>4
<1> QED BY <1>1, <1>2

-----------------------------------------------------------------------------
\* Requests.

\* What a request in flight carries.
LEMMA ServingFields ==
  ASSUME TypeOK, NEW r \in Request, req[r].pc # "idle"
  PROVE  /\ req[r] # Idle
         /\ req[r] \in Serving
         /\ req[r].id \in Identity
         /\ req[r].own \in BOOLEAN /\ req[r].admitted \in BOOLEAN
         /\ req[r].success \in BOOLEAN
         /\ req[r].age \in 0..Deadline
BY DEF TypeOK, Idle, Serving

\* A goroutine moves on to q, no identity's tracking changes, and no bucket gets a
\* new block.
LEMMA MoveOn ==
  ASSUME IInv, NEW r \in Request, NEW q \in {Idle} \cup Serving,
         req' = [req EXCEPT ![r] = q],
         quiet' = quiet,
         own' \in [Identity -> Entry(MaxBackoff) \cup {None}],
         \A i \in Identity : own'[i] \in {own[i], None},
         Relies(q) => Tracking(q),
         q # Idle => q.pc # "identityRecord"
  PROVE  /\ req' \in [Request -> {Idle} \cup Serving]
         /\ HeldIsTracked' /\ BlockIsRecent' /\ RecordedWhereAllowed'
<1>1. req' \in [Request -> {Idle} \cup Serving]
  BY DEF IInv, TypeOK
<1>2. \A s \in Request : req'[s] = IF s = r THEN q ELSE req[s]
  BY DEF IInv, TypeOK
<1>3. HeldIsTracked'
  BY <1>2 DEF IInv, HeldIsTracked, Tracking
<1>4. BlockIsRecent'
  BY DEF IInv, BlockIsRecent
<1>5. RecordedWhereAllowed'
  BY <1>2 DEF IInv, RecordedWhereAllowed
<1> QED BY <1>1, <1>3, <1>4, <1>5

\* The sweep of the tracking forgets only who was quiet for TrackTTL.
LEMMA SweptTracksType ==
  ASSUME TypeOK
  PROVE  /\ SweptTracks \in [Identity -> (0..TrackTTL) \cup {None}]
         /\ \A i \in Identity :
              quiet[i] # None /\ quiet[i] < TrackTTL => SweptTracks[i] = quiet[i]
         /\ \A i \in Identity : SweptTracks[i] \in {quiet[i], None}
<1>1. \A i \in Identity : quiet[i] \in (0..TrackTTL) \cup {None}
  BY DEF TypeOK
<1> QED BY <1>1, Constants DEF SweptTracks

-----------------------------------------------------------------------------
\* trackOrCheck.

\* An identity that is tracked and was active within the last TrackTTL keeps its
\* own bucket, whoever asks.
LEMMA StaysTracked ==
  ASSUME TypeOK, NEW i \in Identity, NEW admitIfRoom \in BOOLEAN,
         quiet[i] # None, quiet[i] < TrackTTL
  PROVE  Admits(i, admitIfRoom)
BY SweptTracksType DEF Admits, Tracked

LEMMA TrackOrCheckStep ==
  ASSUME IInv, NEW r \in Request, NEW admitIfRoom \in BOOLEAN, NEW next,
         \/ req[r].pc = "gate" /\ next = "allow"
         \/ req[r].pc = "check" /\ next = "identityRecord",
         TrackOrCheck(r, admitIfRoom, next)
  PROVE  IInv'
<1> DEFINE i == req[r].id
           tracked == Admits(i, admitIfRoom)
           q == [req[r] EXCEPT !.pc = next, !.own = tracked]
<1>1. TypeOK
  BY DEF IInv
<1>2. /\ req[r] # Idle /\ req[r] \in Serving
      /\ i \in Identity
      /\ req[r].own \in BOOLEAN /\ req[r].admitted \in BOOLEAN
      /\ req[r].success \in BOOLEAN
      /\ req[r].age \in 0..Deadline
  BY <1>1, ServingFields
<1>3. tracked \in BOOLEAN
  BY DEF Admits
<1>4. q \in Serving
  BY <1>2, <1>3 DEF Serving
<1>5. /\ q.id = i /\ q.age = req[r].age /\ q.own = tracked
      /\ q.pc = next /\ q.admitted = req[r].admitted
  BY <1>2, <1>3 DEF Serving
<1>6. req' = [req EXCEPT ![r] = q]
  BY DEF TrackOrCheck
<1>7. /\ quiet' = IF tracked THEN Touched(SweptTracks, i) ELSE SweptTracks
      /\ trackSweep' = IF TrackSweepDue THEN 0 ELSE trackSweep
      /\ UNCHANGED <<caller, own, overflow, ownSweep>>
  BY DEF TrackOrCheck
<1>8. /\ tracked => quiet'[i] = 0
      /\ \A j \in Identity :
           quiet[j] # None /\ quiet[j] < TrackTTL => quiet'[j] \in {quiet[j], 0}
      /\ quiet' \in [Identity -> (0..TrackTTL) \cup {None}]
  BY <1>1, <1>2, <1>7, SweptTracksType, Constants DEF Touched
<1> HIDE DEF q, tracked
<1>9. \A s \in Request : req'[s] = IF s = r THEN q ELSE req[s]
  BY <1>1, <1>6 DEF TypeOK
<1>10. TypeOK'
  <2>1. req' \in [Request -> {Idle} \cup Serving]
    BY <1>1, <1>4, <1>6 DEF TypeOK
  <2>2. trackSweep' \in 0..SweepInterval
    BY <1>1, <1>7, Constants DEF TypeOK
  <2> QED BY <1>1, <1>7, <1>8, <2>1, <2>2 DEF TypeOK
<1>11. HeldIsTracked'
  <2> SUFFICES ASSUME NEW s \in Request, Relies(req'[s])
               PROVE  quiet'[req'[s].id] # None /\ quiet'[req'[s].id] <= req'[s].age
    BY DEF HeldIsTracked, Relies, Tracking
  <2>1. CASE s = r
    <3>1. req'[s] = q
      BY <1>9, <2>1
    <3>2. Relies(q)
      BY <3>1
    <3>3. tracked
      BY <1>5, <3>2 DEF Relies
    <3> QED BY <1>2, <1>5, <1>8, <3>1, <3>3, Constants
  <2>2. CASE s # r
    <3>1. req'[s] = req[s]
      BY <1>9, <2>2
    <3>2. Relies(req[s])
      BY <3>1
    <3>3. quiet[req[s].id] # None /\ quiet[req[s].id] <= req[s].age
      BY <3>2 DEF IInv, HeldIsTracked, Tracking
    <3>4. req[s].id \in Identity /\ req[s].age \in 0..Deadline
      <4>1. req[s].pc # "idle"
        BY <3>2 DEF Relies
      <4> QED BY <1>1, <4>1, ServingFields
    <3>5. quiet[req[s].id] \in 0..TrackTTL
      BY <1>1, <3>3, <3>4 DEF TypeOK
    <3> QED BY <1>8, <3>1, <3>3, <3>4, <3>5, Constants
  <2> QED BY <2>1, <2>2
<1>12. BlockIsRecent'
  <2> SUFFICES ASSUME NEW j \in Identity, own[j] # None, own[j].until > 0
               PROVE  quiet'[j] # None /\ quiet'[j] + own[j].until <= MaxBackoff + Deadline
    BY <1>7 DEF BlockIsRecent
  <2>1. quiet[j] # None /\ quiet[j] + own[j].until <= MaxBackoff + Deadline
    BY DEF IInv, BlockIsRecent
  <2>2. quiet[j] \in 0..TrackTTL /\ own[j].until \in Int
    BY <1>1, <2>1, Constants DEF TypeOK, Entry
  <2> QED BY <1>8, <2>1, <2>2, Constants
<1>13. RecordedWhereAllowed'
  <2>1. q.pc = "identityRecord" /\ q.admitted => q.own
    <3> SUFFICES ASSUME next = "identityRecord", req[r].admitted
                 PROVE  tracked
      BY <1>5
    <3>1. Relies(req[r])
      BY <1>2 DEF Relies
    <3>2. quiet[i] # None /\ quiet[i] <= req[r].age
      BY <3>1 DEF IInv, HeldIsTracked, Tracking
    <3>3. quiet[i] \in 0..TrackTTL
      BY <1>1, <1>2, <3>2 DEF TypeOK
    <3>4. quiet[i] < TrackTTL
      BY <1>2, <3>2, <3>3, Constants
    <3> QED BY <1>1, <1>2, <3>2, <3>4, StaysTracked DEF tracked
  <2> QED BY <1>9, <2>1 DEF IInv, RecordedWhereAllowed
<1> QED BY <1>10, <1>11, <1>12, <1>13 DEF IInv

-----------------------------------------------------------------------------
\* The other steps of a request.

\* The sweep of a single key, and of all own entries.
LEMMA KeptType ==
  ASSUME NEW e, NEW f \in Kept(e)
  PROVE  f \in {e, None}
BY DEF Kept

LEMMA SweptOwnType ==
  ASSUME TypeOK
  PROVE  /\ Underlying!SweptMap(own) \in [Identity -> Entry(MaxBackoff) \cup {None}]
         /\ \A i \in Identity : Underlying!SweptMap(own)[i] \in {own[i], None}
BY DEF TypeOK, Underlying!SweptMap

LEMMA ArriveStep ==
  ASSUME IInv, NEW r \in Request, NEW i \in Identity, Arrive(r, i)
  PROVE  IInv'
<1> DEFINE q == [pc |-> "gate", id |-> i, own |-> FALSE, admitted |-> FALSE,
                 success |-> FALSE, age |-> 0]
<1>1. q \in Serving
  BY Constants DEF Serving
<1>2. ~Relies(q) /\ q.pc # "identityRecord"
  BY DEF Relies
<1>3. req' = [req EXCEPT ![r] = q] /\ quiet' = quiet /\ own' = own
  BY DEF Arrive
<1> HIDE DEF q
<1>4. own' \in [Identity -> Entry(MaxBackoff) \cup {None}]
  BY <1>3 DEF IInv, TypeOK
<1>5. /\ req' \in [Request -> {Idle} \cup Serving]
      /\ HeldIsTracked' /\ BlockIsRecent' /\ RecordedWhereAllowed'
  BY <1>1, <1>2, <1>3, <1>4, MoveOn
<1>6. caller' \in Entry(MaxBackoff) \cup {None}
  BY KeptType DEF Arrive, IInv, TypeOK
<1>7. TypeOK'
  BY <1>5, <1>6 DEF Arrive, IInv, TypeOK
<1> QED BY <1>5, <1>7 DEF IInv

LEMMA BadRequestStep ==
  ASSUME IInv, NEW r \in Request, BadRequest(r)
  PROVE  IInv'
<1>1. ~Relies(Idle)
  BY DEF Relies
<1>2. req' = [req EXCEPT ![r] = Idle] /\ quiet' = quiet /\ own' = own
  BY DEF BadRequest
<1>3. own' \in [Identity -> Entry(MaxBackoff) \cup {None}]
  BY <1>2 DEF IInv, TypeOK
<1>4. /\ req' \in [Request -> {Idle} \cup Serving]
      /\ HeldIsTracked' /\ BlockIsRecent' /\ RecordedWhereAllowed'
  BY <1>1, <1>2, <1>3, MoveOn
<1>5. TypeOK'
  BY <1>4 DEF BadRequest, IInv, TypeOK
<1> QED BY <1>4, <1>5 DEF IInv

\* Allow turns a positive answer of trackOrCheck into an admission.
LEMMA ContinuesTo ==
  ASSUME IInv, NEW r \in Request, req[r].pc = "allow", NEW entry,
         Continues(r, entry)
  PROVE  \E q \in {Idle} \cup Serving :
           /\ req' = [req EXCEPT ![r] = q]
           /\ Relies(q) => Tracking(q)
           /\ q # Idle => q.pc # "identityRecord"
<1>1. /\ req[r] # Idle /\ req[r] \in Serving /\ req[r].own \in BOOLEAN
  BY ServingFields DEF IInv
<1>2. CASE Blocked(entry)
  <2>1. req' = [req EXCEPT ![r] = Idle]
    BY <1>2 DEF Continues
  <2> QED BY <2>1 DEF Relies
<1>3. CASE ~Blocked(entry)
  <2> DEFINE q == [req[r] EXCEPT !.pc = "vendor", !.admitted = req[r].own]
  <2>1. req' = [req EXCEPT ![r] = q]
    BY <1>3 DEF Continues
  <2>2. q \in Serving
    BY <1>1 DEF Serving
  <2>3. /\ q.pc = "vendor" /\ q.admitted = req[r].own
        /\ q.id = req[r].id /\ q.age = req[r].age
    BY <1>1 DEF Serving
  <2> HIDE DEF q
  <2>4. Relies(q) => Relies(req[r])
    BY <1>1, <2>3 DEF Relies
  <2>5. Relies(q) => Tracking(q)
    BY <2>3, <2>4 DEF IInv, HeldIsTracked, Tracking
  <2> QED BY <2>1, <2>2, <2>3, <2>5
<1> QED BY <1>2, <1>3

LEMMA AllowOwnStep ==
  ASSUME IInv, NEW r \in Request, AllowOwn(r)
  PROVE  IInv'
<1>1. PICK q \in {Idle} \cup Serving :
        /\ req' = [req EXCEPT ![r] = q]
        /\ Relies(q) => Tracking(q)
        /\ q # Idle => q.pc # "identityRecord"
  BY ContinuesTo DEF AllowOwn
<1>2. quiet' = quiet
  BY DEF AllowOwn
<1>3. /\ own' \in [Identity -> Entry(MaxBackoff) \cup {None}]
      /\ \A i \in Identity : own'[i] \in {own[i], None}
      /\ ownSweep' \in 0..SweepInterval
  <2>1. CASE Underlying!LimiterSweepDue
    BY <2>1, SweptOwnType, Constants DEF AllowOwn, IInv
  <2>2. CASE ~Underlying!LimiterSweepDue
    BY <2>2 DEF AllowOwn, IInv, TypeOK
  <2> QED BY <2>1, <2>2
<1>4. /\ req' \in [Request -> {Idle} \cup Serving]
      /\ HeldIsTracked' /\ BlockIsRecent' /\ RecordedWhereAllowed'
  BY <1>1, <1>2, <1>3, MoveOn
<1>5. TypeOK'
  BY <1>3, <1>4 DEF AllowOwn, IInv, TypeOK
<1> QED BY <1>4, <1>5 DEF IInv

LEMMA AllowOverflowStep ==
  ASSUME IInv, NEW r \in Request, AllowOverflow(r)
  PROVE  IInv'
<1>1. PICK q \in {Idle} \cup Serving :
        /\ req' = [req EXCEPT ![r] = q]
        /\ Relies(q) => Tracking(q)
        /\ q # Idle => q.pc # "identityRecord"
  BY ContinuesTo DEF AllowOverflow
<1>2. quiet' = quiet /\ own' = own
  BY DEF AllowOverflow
<1>3. own' \in [Identity -> Entry(MaxBackoff) \cup {None}]
  BY <1>2 DEF IInv, TypeOK
<1>4. /\ req' \in [Request -> {Idle} \cup Serving]
      /\ HeldIsTracked' /\ BlockIsRecent' /\ RecordedWhereAllowed'
  BY <1>1, <1>2, <1>3, MoveOn
<1>5. overflow' \in Entry(OverflowMaxBackoff) \cup {None}
  BY KeptType DEF AllowOverflow, IInv, TypeOK
<1>6. TypeOK'
  BY <1>4, <1>5 DEF AllowOverflow, IInv, TypeOK
<1> QED BY <1>4, <1>6 DEF IInv

LEMMA VendorAnswersStep ==
  ASSUME IInv, NEW r \in Request, NEW success \in BOOLEAN, VendorAnswers(r, success)
  PROVE  IInv'
<1> DEFINE q == [req[r] EXCEPT !.pc = "record", !.success = success]
<1>1. req[r].pc = "vendor" /\ req[r] # Idle /\ req[r] \in Serving
  BY ServingFields DEF IInv, VendorAnswers
<1>2. q \in Serving
  BY <1>1 DEF Serving
<1>3. /\ q.pc = "record" /\ q.admitted = req[r].admitted
      /\ q.id = req[r].id /\ q.age = req[r].age
  BY <1>1 DEF Serving
<1>4. req' = [req EXCEPT ![r] = q] /\ quiet' = quiet /\ own' = own
  BY DEF VendorAnswers
<1> HIDE DEF q
<1>5. Relies(q) => Tracking(q)
  <2>1. Relies(q) => Relies(req[r])
    BY <1>1, <1>3 DEF Relies
  <2> QED BY <1>3, <2>1 DEF IInv, HeldIsTracked, Tracking
<1>6. own' \in [Identity -> Entry(MaxBackoff) \cup {None}]
  BY <1>4 DEF IInv, TypeOK
<1>7. /\ req' \in [Request -> {Idle} \cup Serving]
      /\ HeldIsTracked' /\ BlockIsRecent' /\ RecordedWhereAllowed'
  BY <1>2, <1>3, <1>4, <1>5, <1>6, MoveOn
<1>8. TypeOK'
  BY <1>7 DEF VendorAnswers, IInv, TypeOK
<1> QED BY <1>7, <1>8 DEF IInv

LEMMA RecordStep ==
  ASSUME IInv, NEW r \in Request, Record(r)
  PROVE  IInv'
<1> DEFINE q == [req[r] EXCEPT !.pc = "check"]
<1>1. req[r].pc = "record" /\ req[r] # Idle /\ req[r] \in Serving
  BY ServingFields DEF IInv, Record
<1>2. q \in Serving
  BY <1>1 DEF Serving
<1>3. /\ q.pc = "check" /\ q.admitted = req[r].admitted
      /\ q.id = req[r].id /\ q.age = req[r].age
  BY <1>1 DEF Serving
<1>4. req' = [req EXCEPT ![r] = q] /\ quiet' = quiet /\ own' = own
  BY DEF Record
<1> HIDE DEF q
<1>5. Relies(q) => Tracking(q)
  <2>1. Relies(q) => Relies(req[r])
    BY <1>1, <1>3 DEF Relies
  <2> QED BY <1>3, <2>1 DEF IInv, HeldIsTracked, Tracking
<1>6. own' \in [Identity -> Entry(MaxBackoff) \cup {None}]
  BY <1>4 DEF IInv, TypeOK
<1>7. /\ req' \in [Request -> {Idle} \cup Serving]
      /\ HeldIsTracked' /\ BlockIsRecent' /\ RecordedWhereAllowed'
  BY <1>2, <1>3, <1>4, <1>5, <1>6, MoveOn
<1>8. caller' \in Entry(MaxBackoff) \cup {None}
  BY AdvancedType DEF Record, IInv, TypeOK
<1>9. TypeOK'
  BY <1>7, <1>8 DEF Record, IInv, TypeOK
<1> QED BY <1>7, <1>9 DEF IInv

\* A new block begins: whoever records it has just touched the identity.
LEMMA RecordOwnStep ==
  ASSUME IInv, NEW r \in Request, RecordOwn(r)
  PROVE  IInv'
<1> DEFINE i == req[r].id
           e == IF req[r].success THEN None ELSE Advanced(own[i])
<1>1. /\ req[r] # Idle /\ req[r].pc = "identityRecord" /\ req[r].own
      /\ i \in Identity /\ req[r].age \in 0..Deadline
  BY ServingFields DEF IInv, RecordOwn
<1>2. own[i] \in Entry(MaxBackoff) \cup {None}
  BY <1>1 DEF IInv, TypeOK
<1>3. Advanced(own[i]) \in Entry(MaxBackoff)
  BY <1>2, AdvancedType
<1>4. own' = [own EXCEPT ![i] = e] /\ quiet' = quiet /\ req' = [req EXCEPT ![r] = Idle]
  BY DEF RecordOwn
<1>5. e \in Entry(MaxBackoff) \cup {None}
  BY <1>3
<1> HIDE DEF e
<1>6. /\ own' \in [Identity -> Entry(MaxBackoff) \cup {None}]
      /\ \A j \in Identity : own'[j] = IF j = i THEN e ELSE own[j]
  BY <1>1, <1>4, <1>5 DEF IInv, TypeOK
<1>7. /\ req' \in [Request -> {Idle} \cup Serving]
      /\ \A s \in Request : req'[s] = IF s = r THEN Idle ELSE req[s]
  BY <1>4 DEF IInv, TypeOK
<1>8. TypeOK'
  BY <1>6, <1>7 DEF RecordOwn, IInv, TypeOK
<1>9. HeldIsTracked'
  BY <1>4, <1>7 DEF IInv, HeldIsTracked, Relies, Tracking
<1>10. BlockIsRecent'
  <2> SUFFICES ASSUME NEW j \in Identity, own'[j] # None, own'[j].until > 0
               PROVE  quiet[j] # None /\ quiet[j] + own'[j].until <= MaxBackoff + Deadline
    BY <1>4 DEF BlockIsRecent
  <2>1. CASE j # i
    BY <1>6, <2>1 DEF IInv, BlockIsRecent
  <2>2. CASE j = i
    <3>1. Relies(req[r])
      BY <1>1 DEF Relies
    <3>2. quiet[i] # None /\ quiet[i] <= req[r].age
      BY <3>1 DEF IInv, HeldIsTracked, Tracking
    <3>3. quiet[i] \in 0..TrackTTL
      BY <1>1, <3>2 DEF IInv, TypeOK
    <3>4. own'[j].until \in -EntryTTL..MaxBackoff
      BY <1>6, <2>2 DEF Entry
    <3> QED BY <1>1, <2>2, <3>2, <3>3, <3>4, Constants
  <2> QED BY <2>1, <2>2
<1>11. RecordedWhereAllowed'
  BY <1>7 DEF IInv, RecordedWhereAllowed
<1> QED BY <1>8, <1>9, <1>10, <1>11 DEF IInv

LEMMA RecordOverflowStep ==
  ASSUME IInv, NEW r \in Request, RecordOverflow(r)
  PROVE  IInv'
<1>1. ~Relies(Idle)
  BY DEF Relies
<1>2. req' = [req EXCEPT ![r] = Idle] /\ quiet' = quiet /\ own' = own
  BY DEF RecordOverflow
<1>3. own' \in [Identity -> Entry(MaxBackoff) \cup {None}]
  BY <1>2 DEF IInv, TypeOK
<1>4. /\ req' \in [Request -> {Idle} \cup Serving]
      /\ HeldIsTracked' /\ BlockIsRecent' /\ RecordedWhereAllowed'
  BY <1>1, <1>2, <1>3, MoveOn
<1>5. overflow' \in Entry(OverflowMaxBackoff) \cup {None}
  BY OverflowAdvancedType DEF RecordOverflow, IInv, TypeOK
<1>6. TypeOK'
  BY <1>4, <1>5 DEF RecordOverflow, IInv, TypeOK
<1> QED BY <1>4, <1>6 DEF IInv

-----------------------------------------------------------------------------
\* A tick: what is tracked gets as much older as its request, and as a block gets
\* closer to its end.
LEMMA TickStep ==
  ASSUME IInv, Tick
  PROVE  IInv'
<1>1. \A i \in Identity :
        /\ quiet[i] \in (0..TrackTTL) \cup {None}
        /\ quiet'[i] = IF quiet[i] = None THEN None ELSE Older(quiet[i], TrackTTL)
  BY DEF Tick, IInv, TypeOK
<1>2. \A i \in Identity :
        /\ quiet[i] = None => quiet'[i] = None
        /\ quiet[i] # None => /\ quiet'[i] \in 0..TrackTTL
                              /\ quiet'[i] <= quiet[i] + 1
                              /\ quiet'[i] # None
  BY <1>1, Constants DEF Older
<1>3. quiet' \in [Identity -> (0..TrackTTL) \cup {None}]
  BY <1>2 DEF Tick
<1>4. \A i \in Identity :
        /\ own[i] \in Entry(MaxBackoff) \cup {None}
        /\ own'[i] = Later(own[i])
  BY DEF Tick, IInv, TypeOK
<1>5. \A i \in Identity :
        /\ own'[i] \in Entry(MaxBackoff) \cup {None}
        /\ own'[i] # None => /\ own[i] # None
                             /\ own'[i].until > 0 => own'[i].until = own[i].until - 1
  <2>1. MaxBackoff \in Nat
    BY Constants
  <2> QED BY <1>4, <2>1, LaterType
<1>6. own' \in [Identity -> Entry(MaxBackoff) \cup {None}]
  BY <1>5 DEF Tick
<1>7. \A r \in Request :
        /\ req[r] = Idle => req'[r] = Idle
        /\ req[r] # Idle => /\ req'[r] \in Serving
                            /\ req'[r] # Idle
                            /\ req'[r].pc = req[r].pc /\ req'[r].id = req[r].id
                            /\ req'[r].own = req[r].own
                            /\ req'[r].admitted = req[r].admitted
                            /\ req'[r].age = req[r].age + 1
  <2> TAKE r \in Request
  <2>1. CASE req[r] = Idle
    BY <2>1 DEF Tick
  <2>2. CASE req[r] # Idle
    <3> DEFINE q == [req[r] EXCEPT !.age = req[r].age + 1]
    <3>1. req'[r] = q
      BY <2>2 DEF Tick
    <3>2. req[r] \in Serving /\ req[r].age < Deadline
      BY <2>2 DEF Tick, IInv, TypeOK
    <3>3. req[r].age + 1 \in 0..Deadline
      BY <3>2, Constants DEF Serving
    <3>4. /\ q \in Serving
          /\ q.pc = req[r].pc /\ q.id = req[r].id /\ q.own = req[r].own
          /\ q.admitted = req[r].admitted /\ q.age = req[r].age + 1
      BY <3>2, <3>3 DEF Serving
    <3> HIDE DEF q
    <3>5. q # Idle
      BY <3>4 DEF Serving, Idle
    <3> QED BY <2>2, <3>1, <3>4, <3>5
  <2> QED BY <2>1, <2>2
<1>8. req' \in [Request -> {Idle} \cup Serving]
  BY <1>7 DEF Tick
<1>9. /\ caller' \in Entry(MaxBackoff) \cup {None}
      /\ overflow' \in Entry(OverflowMaxBackoff) \cup {None}
  <2>1. MaxBackoff \in Nat /\ OverflowMaxBackoff \in Nat
    BY Constants
  <2> QED BY <2>1, LaterType DEF Tick, IInv, TypeOK
<1>10. ownSweep' \in 0..SweepInterval /\ trackSweep' \in 0..SweepInterval
  BY Constants DEF Tick, IInv, TypeOK, Older
<1>11. TypeOK'
  BY <1>3, <1>6, <1>8, <1>9, <1>10 DEF TypeOK
<1>12. HeldIsTracked'
  <2> SUFFICES ASSUME NEW r \in Request, Relies(req'[r])
               PROVE  quiet'[req'[r].id] # None /\ quiet'[req'[r].id] <= req'[r].age
    BY DEF HeldIsTracked, Relies, Tracking
  <2>1. req[r] # Idle /\ Relies(req[r])
    BY <1>7 DEF Relies
  <2>2. quiet[req[r].id] # None /\ quiet[req[r].id] <= req[r].age
    BY <2>1 DEF IInv, HeldIsTracked, Tracking
  <2>3. req[r].id \in Identity /\ req[r].age \in 0..Deadline
    BY <2>1 DEF IInv, TypeOK, Serving
  <2>4. quiet[req[r].id] \in 0..TrackTTL
    BY <1>1, <2>2, <2>3
  <2> QED BY <1>2, <1>7, <2>1, <2>2, <2>3, <2>4, Constants
<1>13. BlockIsRecent'
  <2> SUFFICES ASSUME NEW i \in Identity, own'[i] # None, own'[i].until > 0
               PROVE  quiet'[i] # None /\ quiet'[i] + own'[i].until <= MaxBackoff + Deadline
    BY DEF BlockIsRecent
  <2>1. own[i] # None /\ own'[i].until = own[i].until - 1
    BY <1>5
  <2>2. own[i].until \in Int
    BY <1>4, <2>1, Constants DEF Entry
  <2>3. quiet[i] # None /\ quiet[i] + own[i].until <= MaxBackoff + Deadline
    BY <2>1, <2>2 DEF IInv, BlockIsRecent
  <2>4. quiet[i] \in 0..TrackTTL
    BY <1>1, <2>3
  <2> QED BY <1>2, <2>1, <2>2, <2>3, <2>4, Constants
<1>14. RecordedWhereAllowed'
  BY <1>7 DEF IInv, RecordedWhereAllowed
<1> QED BY <1>11, <1>12, <1>13, <1>14 DEF IInv

-----------------------------------------------------------------------------
\* The invariant.

LEMMA InitInvariant == Init => IInv
<1> SUFFICES ASSUME Init PROVE IInv
  OBVIOUS
<1>1. TypeOK
  BY Constants DEF Init, TypeOK
<1>2. \A r \in Request : req[r] = Idle
  BY DEF Init
<1> QED BY <1>1, <1>2 DEF Init, IInv, HeldIsTracked, Relies, BlockIsRecent,
                          RecordedWhereAllowed

LEMMA StepInvariant == IInv /\ [Next]_vars => IInv'
<1> SUFFICES ASSUME IInv, [Next]_vars PROVE IInv'
  OBVIOUS
<1>1. ASSUME NEW r \in Request, NEW i \in Identity, Arrive(r, i) PROVE IInv'
  BY <1>1, ArriveStep
<1>2. ASSUME NEW r \in Request, BadRequest(r) PROVE IInv'
  BY <1>2, BadRequestStep
<1>3. ASSUME NEW r \in Request, Gate(r) PROVE IInv'
  BY <1>3, TrackOrCheckStep DEF Gate
<1>4. ASSUME NEW r \in Request, AllowOwn(r) PROVE IInv'
  BY <1>4, AllowOwnStep
<1>5. ASSUME NEW r \in Request, AllowOverflow(r) PROVE IInv'
  BY <1>5, AllowOverflowStep
<1>6. ASSUME NEW r \in Request, NEW success \in BOOLEAN, VendorAnswers(r, success)
      PROVE  IInv'
  BY <1>6, VendorAnswersStep
<1>7. ASSUME NEW r \in Request, Record(r) PROVE IInv'
  BY <1>7, RecordStep
<1>8. ASSUME NEW r \in Request, Check(r) PROVE IInv'
  BY <1>8, TrackOrCheckStep DEF Check
<1>9. ASSUME NEW r \in Request, RecordOwn(r) PROVE IInv'
  BY <1>9, RecordOwnStep
<1>10. ASSUME NEW r \in Request, RecordOverflow(r) PROVE IInv'
  BY <1>10, RecordOverflowStep
<1>11. CASE Tick
  BY <1>11, TickStep
<1>12. CASE UNCHANGED vars
  BY <1>12 DEF vars, IInv, TypeOK, HeldIsTracked, Relies, Tracking, BlockIsRecent,
               RecordedWhereAllowed
<1> QED BY <1>1, <1>2, <1>3, <1>4, <1>5, <1>6, <1>7, <1>8, <1>9, <1>10, <1>11, <1>12
        DEF Next

LEMMA Invariant == Spec => []IInv
BY InitInvariant, StepInvariant, PTL DEF Spec

\* The limiters' state keeps its type: in particular what is left of a block, whatever
\* the shift of advance (grantlimiter.go) wraps to, is within its maximum.
THEOREM ConnectorTypeCorrect == Spec => []TypeOK
<1>1. IInv => TypeOK
  BY DEF IInv
<1> QED BY <1>1, Invariant, PTL

\* trackOrCheck and sweepLocked (identitylimiter.go): an identity that its own bucket
\* blocks is tracked, for any durations with the tracking's longer than a block and a
\* request together.
THEOREM BlockedIsTrackedHolds == Spec => []BlockedIsTracked
<1>1. IInv => BlockedIsTracked
  BY DEF IInv, TypeOK, BlockIsRecent, BlockedIsTracked, Blocked, Underlying!Blocked
<1> QED BY <1>1, Invariant, PTL

\* The gate and the record of an attempt agree on the bucket (identitylimiter.go), for
\* any number of requests and identities.
THEOREM RecordedWhereAllowedHolds == Spec => []RecordedWhereAllowed
<1>1. IInv => RecordedWhereAllowed
  BY DEF IInv
<1> QED BY <1>1, Invariant, PTL

-----------------------------------------------------------------------------
\* However many identities are tried.

\* Who, if nothing more happens, will be forgotten TrackTTL - x ticks from now and may
\* still have an entry in underlying then: an identity is tracked for TrackTTL after its
\* last activity, and an entry is kept for as long after the end of its block.
Lingering(x) ==
  {i \in Identity : IF quiet[i] # None THEN quiet[i] >= x
                    ELSE own[i] # None /\ own[i].until > -x}

\* For no x are there more of them than the cap.
Room == \A x \in 0..TrackTTL : Cardinality(Lingering(x)) <= MaxTracked

LEMMA Sets ==
  /\ IsFiniteSet(Identity)
  /\ EntryTTL = TrackTTL
BY ConnectorAssumption

LEMMA Smaller ==
  ASSUME NEW S \in SUBSET Identity, NEW T \in SUBSET S
  PROVE  /\ IsFiniteSet(S)
         /\ Cardinality(S) \in Nat
         /\ Cardinality(T) <= Cardinality(S)
         /\ Cardinality(T) \in Nat
BY Sets, FS_Subset, FS_CardinalityType

\* A step that moves nobody in keeps the room.
LEMMA RoomStays ==
  ASSUME Room,
         \A x \in 0..TrackTTL : \E y \in 0..TrackTTL : Lingering(x)' \subseteq Lingering(y)
  PROVE  Room'
<1> SUFFICES ASSUME NEW x \in 0..TrackTTL
             PROVE  Cardinality(Lingering(x)') <= MaxTracked
  BY DEF Room
<1>1. PICK y \in 0..TrackTTL : Lingering(x)' \subseteq Lingering(y)
  OBVIOUS
<1>2. Lingering(y) \subseteq Identity
  BY DEF Lingering
<1>3. Cardinality(Lingering(x)') <= Cardinality(Lingering(y))
  BY <1>1, <1>2, Smaller
<1>4. Cardinality(Lingering(x)') \in Nat /\ Cardinality(Lingering(y)) \in Nat
  BY <1>1, <1>2, Smaller
<1> QED BY <1>3, <1>4, Constants DEF Room

\* Only trackOrCheck moves an identity in, and only where there is room now; in x ticks
\* this one is gone before those tracked earlier.
LEMMA TrackOrCheckRoom ==
  ASSUME IInv, IInv', Room, NEW r \in Request, NEW admitIfRoom \in BOOLEAN, NEW next,
         req[r].pc # "idle",
         TrackOrCheck(r, admitIfRoom, next)
  PROVE  Room'
<1> DEFINE i == req[r].id
           S == Tracked(SweptTracks)
<1>1. i \in Identity
  BY ServingFields DEF IInv
<1>2. /\ SweptTracks \in [Identity -> (0..TrackTTL) \cup {None}]
      /\ \A j \in Identity :
           \/ SweptTracks[j] = quiet[j]
           \/ SweptTracks[j] = None /\ quiet[j] # None /\ quiet[j] \in 0..TrackTTL
                /\ quiet[j] >= TrackTTL
  BY SweptTracksType DEF IInv, TypeOK, SweptTracks
<1>3. /\ quiet' = IF Admits(i, admitIfRoom) THEN Touched(SweptTracks, i) ELSE SweptTracks
      /\ own' = own
  BY DEF TrackOrCheck
<1>4. \A j \in Identity :
        \/ quiet'[j] = SweptTracks[j]
        \/ j = i /\ quiet'[j] = 0 /\ Admits(i, admitIfRoom)
  BY <1>1, <1>2, <1>3 DEF Touched
<1>5. \A j \in Identity : quiet[j] \in (0..TrackTTL) \cup {None}
  BY DEF IInv, TypeOK
<1>6. ASSUME NEW x \in 0..TrackTTL, x > 0 \/ quiet'[i] = None \/ i \in S
      PROVE  Lingering(x)' \subseteq Lingering(x)
  <2> SUFFICES ASSUME NEW j \in Identity,
                      IF quiet'[j] # None THEN quiet'[j] >= x
                      ELSE own[j] # None /\ own[j].until > -x
               PROVE  IF quiet[j] # None THEN quiet[j] >= x
                      ELSE own[j] # None /\ own[j].until > -x
    BY <1>3 DEF Lingering
  <2>1. CASE quiet'[j] = SweptTracks[j] /\ SweptTracks[j] = quiet[j]
    BY <2>1
  <2>2. CASE SweptTracks[j] = None /\ quiet[j] # None /\ quiet[j] \in 0..TrackTTL
               /\ quiet[j] >= TrackTTL
    BY <2>2, Constants
  <2>3. CASE j = i /\ quiet'[j] = 0 /\ SweptTracks[j] = quiet[j]
    <3>1. x = 0 /\ i \in S
      BY <1>6, <2>3, Constants
    <3>2. quiet[j] # None
      BY <2>3, <3>1 DEF Tracked
    <3> QED BY <1>5, <3>1, <3>2
  <2> QED BY <1>2, <1>4, <2>1, <2>2, <2>3
<1>7. CASE quiet'[i] = None \/ i \in S
  BY <1>6, <1>7, RoomStays
<1>8. CASE quiet'[i] # None /\ i \notin S
  <2>1. Cardinality(S) < MaxTracked
    <3>1. SweptTracks[i] = None
      BY <1>1, <1>8 DEF Tracked
    <3> QED BY <1>1, <1>4, <1>8, <3>1 DEF Admits
  <2> SUFFICES ASSUME NEW x \in 0..TrackTTL
               PROVE  Cardinality(Lingering(x)') <= MaxTracked
    BY DEF Room
  <2>2. CASE x > 0
    <3>1. Lingering(x)' \subseteq Lingering(x) /\ Lingering(x) \subseteq Identity
      BY <1>6, <2>2 DEF Lingering
    <3>2. /\ Cardinality(Lingering(x)') <= Cardinality(Lingering(x))
          /\ Cardinality(Lingering(x)') \in Nat /\ Cardinality(Lingering(x)) \in Nat
      BY <3>1, Smaller
    <3> QED BY <3>2, Constants DEF Room
  <2>3. CASE x = 0
    <3>1. Lingering(x)' \subseteq S \cup {i}
      <4> SUFFICES ASSUME NEW j \in Identity,
                          IF quiet'[j] # None THEN quiet'[j] >= x
                          ELSE own'[j] # None /\ own'[j].until > -x
                   PROVE  j \in S \cup {i}
        BY DEF Lingering
      <4>1. quiet'[j] # None
        <5> SUFFICES ASSUME own'[j] # None, own'[j].until > 0
                     PROVE  quiet'[j] # None
          BY <2>3
        <5> QED BY DEF IInv, BlockIsRecent
      <4> QED BY <1>4, <4>1 DEF Tracked
    <3>2. S \subseteq Identity
      BY DEF Tracked
    <3>3. S \cup {i} \subseteq Identity
      BY <1>1, <3>2
    <3>4. IsFiniteSet(S) /\ Cardinality(S) \in Nat
      BY <3>2, Smaller
    <3>5. Cardinality(S \cup {i}) = Cardinality(S) + 1
      BY <1>8, <3>4, FS_AddElement
    <3>6. Cardinality(Lingering(x)') <= Cardinality(S \cup {i})
      BY <3>1, <3>3, Smaller
    <3>7. Cardinality(Lingering(x)') \in Nat
      BY <3>1, <3>3, Smaller
    <3> QED BY <2>1, <3>4, <3>5, <3>6, <3>7, Constants
  <2> QED BY <2>2, <2>3
<1> QED BY <1>7, <1>8

\* No entry gets younger unless its identity is tracked.
LEMMA EntriesRoom ==
  ASSUME IInv, Room, quiet' = quiet,
         \A i \in Identity : own'[i] \in {own[i], None} \/ quiet[i] # None
  PROVE  Room'
<1>1. \A x \in 0..TrackTTL : Lingering(x)' \subseteq Lingering(x)
  BY DEF Lingering
<1> QED BY <1>1, RoomStays

\* A tick brings the moment nearer, and nobody new will be left behind then.
LEMMA TickRoom ==
  ASSUME IInv, Room, Tick
  PROVE  Room'
<1>1. \A i \in Identity :
        /\ quiet[i] \in (0..TrackTTL) \cup {None}
        /\ quiet'[i] = IF quiet[i] = None THEN None ELSE Older(quiet[i], TrackTTL)
        /\ own[i] \in Entry(MaxBackoff) \cup {None}
        /\ own'[i] = Later(own[i])
  BY DEF Tick, IInv, TypeOK
<1>2. \A i \in Identity :
        /\ quiet[i] = None <=> quiet'[i] = None
        /\ quiet[i] # None => /\ quiet'[i] <= quiet[i] + 1
                              /\ quiet[i] \in 0..TrackTTL /\ quiet'[i] \in 0..TrackTTL
  BY <1>1, Constants DEF Older
<1>3. ASSUME NEW i \in Identity, own'[i] # None
      PROVE  /\ own[i] # None /\ own[i].until \in Int
             /\ own[i].until > -TrackTTL => own'[i].until = own[i].until - 1
             /\ ~(own[i].until > -TrackTTL) => own'[i].until = own[i].until
  <2>1. own[i] # None
    BY <1>1, <1>3 DEF Later
  <2>2. own[i] \in Entry(MaxBackoff)
    BY <1>1, <2>1
  <2>3. own[i].until \in Int
    BY <2>2, Constants DEF Entry
  <2>4. own'[i] = [own[i] EXCEPT !.until = IF own[i].until > -EntryTTL
                                           THEN own[i].until - 1 ELSE own[i].until]
    BY <1>1, <2>1 DEF Later
  <2>5. own'[i].until = IF own[i].until > -EntryTTL
                        THEN own[i].until - 1 ELSE own[i].until
    BY <2>2, <2>4 DEF Entry
  <2> QED BY <2>1, <2>3, <2>5, Sets
<1>4. ASSUME NEW x \in 0..TrackTTL
      PROVE  \E y \in 0..TrackTTL : Lingering(x)' \subseteq Lingering(y)
  <2> DEFINE y == IF x = 0 THEN 0 ELSE x - 1
  <2>1. y \in 0..TrackTTL /\ x <= y + 1 /\ (x = 0 => y = 0) /\ (x > 0 => x = y + 1)
    BY Constants
  <2> HIDE DEF y
  <2>2. ASSUME NEW i \in Identity,
               IF quiet'[i] # None THEN quiet'[i] >= x
               ELSE own'[i] # None /\ own'[i].until > -x
        PROVE  IF quiet[i] # None THEN quiet[i] >= y
               ELSE own[i] # None /\ own[i].until > -y
    <3>1. CASE quiet[i] # None
      BY <1>2, <2>1, <2>2, <3>1, Constants
    <3>2. CASE quiet[i] = None
      BY <1>2, <1>3, <2>1, <2>2, <3>2, Constants
    <3> QED BY <3>1, <3>2
  <2>3. Lingering(x)' \subseteq Lingering(y)
    BY <2>2 DEF Lingering
  <2> QED BY <2>1, <2>3
<1> QED BY <1>4, RoomStays

LEMMA RecordOwnRoom ==
  ASSUME IInv, Room, NEW r \in Request, RecordOwn(r)
  PROVE  Room'
<1>1. /\ req[r] # Idle /\ req[r].pc = "identityRecord" /\ req[r].own
      /\ req[r].id \in Identity
  BY ServingFields DEF IInv, RecordOwn
<1>2. Relies(req[r])
  BY <1>1 DEF Relies
<1>3. quiet[req[r].id] # None
  BY <1>2 DEF IInv, HeldIsTracked, Tracking
<1>4. \A i \in Identity : own'[i] = own[i] \/ i = req[r].id
  BY DEF RecordOwn, IInv, TypeOK
<1>5. quiet' = quiet
  BY DEF RecordOwn
<1> QED BY <1>3, <1>4, <1>5, EntriesRoom

LEMMA AllowOwnRoom ==
  ASSUME IInv, Room, NEW r \in Request, AllowOwn(r)
  PROVE  Room'
<1>1. quiet' = quiet
  BY DEF AllowOwn
<1>2. \A i \in Identity : own'[i] \in {own[i], None}
  <2>1. CASE Underlying!LimiterSweepDue
    BY <2>1, SweptOwnType DEF AllowOwn, IInv
  <2>2. CASE ~Underlying!LimiterSweepDue
    BY <2>2 DEF AllowOwn
  <2> QED BY <2>1, <2>2
<1> QED BY <1>1, <1>2, EntriesRoom

LEMMA InitRoom == Init => Room
<1> SUFFICES ASSUME Init, NEW x \in 0..TrackTTL
             PROVE  Cardinality(Lingering(x)) <= MaxTracked
  BY DEF Room
<1>1. Lingering(x) = {}
  BY DEF Init, Lingering
<1> QED BY <1>1, FS_EmptySet, Constants

LEMMA StepRoom == IInv /\ IInv' /\ Room /\ [Next]_vars => Room'
<1> SUFFICES ASSUME IInv, IInv', Room, [Next]_vars PROVE Room'
  OBVIOUS
<1>1. ASSUME quiet' = quiet, own' = own PROVE Room'
  BY <1>1, EntriesRoom
<1>2. ASSUME NEW r \in Request, Gate(r) \/ Check(r) PROVE Room'
  BY <1>2, TrackOrCheckRoom DEF Gate, Check
<1>3. ASSUME NEW r \in Request, AllowOwn(r) PROVE Room'
  BY <1>3, AllowOwnRoom
<1>4. ASSUME NEW r \in Request, RecordOwn(r) PROVE Room'
  BY <1>4, RecordOwnRoom
<1>5. ASSUME NEW r \in Request,
             \/ \E i \in Identity : Arrive(r, i)
             \/ BadRequest(r)
             \/ AllowOverflow(r)
             \/ \E success \in BOOLEAN : VendorAnswers(r, success)
             \/ Record(r)
             \/ RecordOverflow(r)
      PROVE  Room'
  BY <1>1, <1>5 DEF Arrive, BadRequest, AllowOverflow, VendorAnswers, Record, RecordOverflow
<1>6. CASE Tick
  BY <1>6, TickRoom
<1>7. CASE UNCHANGED vars
  BY <1>1, <1>7 DEF vars
<1> QED BY <1>2, <1>3, <1>4, <1>5, <1>6, <1>7 DEF Next

\* The tracked ones are those that linger now; an entry that a sweep would keep is of
\* one of them or was left behind.
LEMMA RoomBounds == IInv /\ Room => EntriesBounded
<1> SUFFICES ASSUME IInv, Room PROVE EntriesBounded
  OBVIOUS
<1> DEFINE Live == {i \in Identity : Underlying!SweptMap(own)[i] # None}
           Left == {i \in Identity : quiet[i] = None /\ own[i] # None /\ own[i].until > -TrackTTL}
<1>1. Cardinality(Tracked(quiet)) <= MaxTracked /\ Cardinality(Tracked(quiet)) \in Nat
  <2>1. Tracked(quiet) \subseteq Lingering(0)
    BY DEF Tracked, Lingering, IInv, TypeOK
  <2>2. Lingering(0) \subseteq Identity
    BY DEF Lingering
  <2>3. 0 \in 0..TrackTTL
    BY Constants
  <2>4. Cardinality(Lingering(0)) <= MaxTracked /\ Cardinality(Lingering(0)) \in Nat
    BY <2>2, <2>3, Smaller DEF Room
  <2>5. /\ Cardinality(Tracked(quiet)) <= Cardinality(Lingering(0))
        /\ Cardinality(Tracked(quiet)) \in Nat
    BY <2>1, <2>2, Smaller
  <2> QED BY <2>4, <2>5, Constants
<1>2. Cardinality(Left) <= MaxTracked /\ Cardinality(Left) \in Nat
  <2>1. Left \subseteq Lingering(TrackTTL)
    BY DEF Lingering
  <2>2. Lingering(TrackTTL) \subseteq Identity
    BY DEF Lingering
  <2>3. TrackTTL \in 0..TrackTTL
    BY Constants
  <2>4. /\ Cardinality(Lingering(TrackTTL)) <= MaxTracked
        /\ Cardinality(Lingering(TrackTTL)) \in Nat
    BY <2>2, <2>3, Smaller DEF Room
  <2>5. /\ Cardinality(Left) <= Cardinality(Lingering(TrackTTL))
        /\ Cardinality(Left) \in Nat
    BY <2>1, <2>2, Smaller
  <2> QED BY <2>4, <2>5, Constants
<1>3. Live \subseteq Tracked(quiet) \cup Left
  <2> SUFFICES ASSUME NEW i \in Identity, Underlying!SweptMap(own)[i] # None,
                      quiet[i] = None
               PROVE  own[i] # None /\ own[i].until > -TrackTTL
    BY DEF Tracked
  <2>1. own \in [Identity -> Entry(MaxBackoff) \cup {None}]
    BY DEF IInv, TypeOK
  <2>2. own[i] # None /\ ~(0 - own[i].until >= EntryTTL)
    BY <2>1 DEF Underlying!SweptMap
  <2>3. own[i].until \in Int
    BY <2>1, <2>2, Constants DEF Entry
  <2> QED BY <2>2, <2>3, Sets, Constants
<1>4. Tracked(quiet) \subseteq Identity /\ Left \subseteq Identity
  BY DEF Tracked
<1> HIDE DEF Live, Left
<1>5. IsFiniteSet(Tracked(quiet)) /\ IsFiniteSet(Left)
  BY <1>4, Smaller
<1>6. /\ Cardinality(Tracked(quiet) \cup Left)
           = Cardinality(Tracked(quiet)) + Cardinality(Left)
               - Cardinality(Tracked(quiet) \cap Left)
  BY <1>5, FS_Union
<1>7. Cardinality(Tracked(quiet) \cap Left) \in Nat
  <2>1. Tracked(quiet) \cap Left \subseteq Identity
    BY <1>4
  <2> QED BY <2>1, Smaller
<1>8. Cardinality(Live) <= Cardinality(Tracked(quiet) \cup Left) /\ Cardinality(Live) \in Nat
  <2>1. Tracked(quiet) \cup Left \subseteq Identity
    BY <1>4
  <2> QED BY <1>3, <2>1, Smaller
<1>9. Cardinality(Live) <= 2 * MaxTracked
  BY <1>1, <1>2, <1>6, <1>7, <1>8, Constants
<1> QED BY <1>1, <1>9 DEF EntriesBounded, Live

\* recordFailure (identitylimiter.go:216-232): the tracked identities stay within the
\* cap and the living entries within twice the cap, however many identities are tried
\* and for any durations that satisfy the assumption.
THEOREM EntriesBoundedHolds == Spec => []EntriesBounded
<1>1. Init => Room
  BY InitRoom
<1>2. IInv /\ IInv' /\ Room /\ [Next]_vars => Room'
  BY StepRoom
<1>3. IInv /\ Room => EntriesBounded
  BY RoomBounds
<1> QED BY <1>1, <1>2, <1>3, Invariant, PTL DEF Spec

==============================================================================
