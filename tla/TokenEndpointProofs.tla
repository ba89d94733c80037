------------------------- MODULE TokenEndpointProofs -------------------------
(***************************************************************************)
(* For any clients, source IPs, concurrent attempts and durations, the     *)
(* states of TokenEndpoint are well typed, a client's run of failures      *)
(* alerts exactly once, blocks stand, and the failures on a key are        *)
(* bounded by the rounds that fit in the time.  The attempts interleave    *)
(* freely: an entry may be reset by one of them, or swept, between the two *)
(* halves of another.                                                      *)
(***************************************************************************)
EXTENDS TokenEndpoint, PowersOfTwoProofs, FiniteSetTheorems, TLAPS

\* The entry of a client remembers its alert, and its history counts it.
AlertedOnce(k) ==
  byClientID[k] # NoEntry =>
    LET crossed == byClientID[k].failures >= AlertThreshold
    IN  /\ byClientID[k].alerted <=> crossed
        /\ alerts[k] = IF crossed THEN 1 ELSE 0

IInv ==
  /\ TypeOK
  /\ \A k \in ClientID : AlertedOnce(k)

MaybeEntry == Entry \cup {NoEntry}

-----------------------------------------------------------------------------
LEMMA Constants ==
  /\ BaseBackoff \in Nat \ {0} /\ MaxBackoff \in Nat \ {0}
  /\ AlertThreshold \in Nat \ {0} /\ SweepInterval \in Nat \ {0}
  /\ EntryTTL \in Nat \ {0} /\ Width \in Nat \ {0}
  /\ NoClient \in ClientID /\ MaxVersion \in Nat \ {0} /\ MaxTime \in Nat
  /\ IsFiniteSet(Req)
BY GrantAssumption, EndpointAssumption

\* A product of Q that is wrapped at a multiple of Q is still one of Q.
LEMMA WrappedMultiple ==
  ASSUME NEW b \in Int, NEW Q \in Nat \ {0}, NEW R \in Nat \ {0}
  PROVE  \E z \in Int : (b * Q) % (R * Q) = z * Q
<1> DEFINE a == b * Q
           M == R * Q
           d == a \div M
<1>1. a \in Int /\ M \in Nat \ {0}
  OBVIOUS
<1> HIDE DEF a, M
<1>2. d \in Int /\ a % M = a - d * M
  BY <1>1
<1> HIDE DEF d
<1>3. b - d * R \in Int /\ a - d * M = (b - d * R) * Q
  BY <1>2 DEF a, M
<1> QED BY <1>2, <1>3 DEF a, M

\* A shift that does not reach the sign bit is the product; one that does leaves
\* nothing, a negative number, or one that is too large for a backoff.
LEMMA ShiftedValue ==
  ASSUME NEW n \in Nat
  PROVE  /\ Shifted(n) \in Int
         /\ BaseBackoff * Pow2[n] < Pow2[Width - 1] => Shifted(n) = BaseBackoff * Pow2[n]
         /\ BaseBackoff * Pow2[n] >= Pow2[Width - 1] =>
              /\ Shifted(n) <= 0 \/ Shifted(n) >= MaxBackoff
              /\ BaseBackoff * Pow2[n] >= MaxBackoff
<1> DEFINE P == BaseBackoff * Pow2[n]
           W == Pow2[Width]
           H == Pow2[Width - 1]
           x == P % W
<1>1. /\ P \in Nat \ {0} /\ H \in Nat \ {0} /\ W = 2 * H
  <2>1. Width - 1 \in Nat /\ Width = (Width - 1) + 1
    BY Constants
  <2>2. Pow2[n] \in Nat \ {0} /\ H \in Nat \ {0}
    BY <2>1, Pow2Type
  <2>3. W = 2 * H
    BY <2>1, Pow2Equation
  <2> QED BY <2>2, <2>3, Constants
<1>2. Shifted(n) = IF x >= H THEN x - W ELSE x
  BY DEF Shifted
<1> HIDE DEF W, H
<1>3. x \in 0..W - 1
  <2> HIDE DEF P
  <2> QED BY <1>1
<1>4. PICK v \in 0..Width : BaseBackoff % Pow2[v] = 0
                            /\ (BaseBackoff \div Pow2[v]) * MaxBackoff <= H
  BY GrantAssumption DEF H
<1> DEFINE q == v + n
           b == BaseBackoff \div Pow2[v]
           Q == Pow2[q]
<1>5. q \in Nat /\ v \in Nat
  BY Constants
<1>6. Q \in Nat \ {0} /\ Pow2[v] \in Nat \ {0} /\ Q = Pow2[v] * Pow2[n] /\ Pow2[n] \in Nat \ {0}
  BY <1>5, Pow2Type, Pow2Sum
<1>7. b \in Nat \ {0} /\ BaseBackoff = b * Pow2[v]
  <2> DEFINE u == Pow2[v]
  <2>1. u \in Nat \ {0} /\ BaseBackoff % u = 0
    BY <1>4, <1>6
  <2> HIDE DEF u
  <2>2. BaseBackoff \div u \in Int /\ BaseBackoff = (BaseBackoff \div u) * u
    BY <2>1, Constants
  <2>3. \A c \in Int : BaseBackoff = c * u => c > 0
    BY <2>1, Constants
  <2> QED BY <2>2, <2>3 DEF u
<1> HIDE DEF b, q
<1>8. P = b * Q
  <2>1. \A c, u, w \in Nat : (c * u) * w = c * (u * w)
    OBVIOUS
  <2> QED BY <1>6, <1>7, <2>1
<1> HIDE DEF P, Q
<1>9. b * MaxBackoff <= H
  BY <1>4 DEF b
<1>10. P >= H => MaxBackoff <= Q /\ P >= MaxBackoff
  <2> HAVE P >= H
  <2>1. \A c, m, k \in Nat \ {0} : c * m <= c * k => m <= k
    OBVIOUS
  <2>2. \A c, k \in Nat \ {0} : c * k >= k
    OBVIOUS
  <2>3. b * MaxBackoff <= b * Q
    <3>1. \A y \in Int : y <= H => y <= P
      BY <1>1
    <3>2. b * MaxBackoff \in Int
      BY <1>7, Constants
    <3> QED BY <1>8, <1>9, <3>1, <3>2
  <2>4. MaxBackoff <= Q
    BY <1>6, <1>7, <2>1, <2>3, Constants
  <2>5. P >= Q
    BY <1>6, <1>7, <1>8, <2>2
  <2> QED BY <1>1, <1>6, <2>4, <2>5, Constants
<1>11. \E z \in Int : Shifted(n) = z * Q
  <2>1. CASE q >= Width
    <3>1. q - Width \in Nat /\ Width \in Nat /\ q = (q - Width) + Width
      BY <1>5, <2>1, Constants
    <3>2. Q = Pow2[q - Width] * W /\ Pow2[q - Width] \in Nat
      BY <3>1, Pow2Sum, Pow2Type DEF Q, W
    <3> DEFINE c == b * Pow2[q - Width]
    <3>3. c \in Nat /\ P = c * W
      BY <1>1, <1>7, <1>8, <3>2
    <3> HIDE DEF c
    <3>4. P % W = 0
      BY <1>1, <3>3
    <3>5. Shifted(n) = 0 * Q
      BY <1>1, <1>2, <1>6, <3>4
    <3> QED BY <3>5
  <2>2. CASE q < Width
    <3>1. Width - q \in Nat /\ Width = (Width - q) + q
      BY <1>5, <2>2, Constants
    <3> DEFINE R == Pow2[Width - q]
    <3>2. W = R * Q /\ R \in Nat \ {0}
      BY <1>5, <3>1, Pow2Sum, Pow2Type DEF W, Q
    <3> HIDE DEF R
    <3>3. PICK z \in Int : x = z * Q
      <4>1. \E z \in Int : (b * Q) % (R * Q) = z * Q
        <5>1. b \in Int
          BY <1>7
        <5> QED BY <1>6, <3>2, <5>1, WrappedMultiple
      <4> QED BY <1>8, <3>2, <4>1
    <3>4. x - W = (z - R) * Q
      BY <1>6, <3>2, <3>3
    <3> HIDE DEF x
    <3> QED BY <1>2, <3>2, <3>3, <3>4
  <2> QED BY <1>5, <2>1, <2>2, Constants
<1>12. PICK z \in Int : Shifted(n) = z * Q
  BY <1>11
<1>13. Shifted(n) \in Int
  BY <1>6, <1>12
<1>14. Shifted(n) > 0 => Shifted(n) >= Q
  <2>1. \A c \in Int : c * Q > 0 => c * Q >= Q
    BY <1>6
  <2> QED BY <1>12, <2>1
<1>15. P < H => Shifted(n) = P
  <2> HAVE P < H
  <2>1. x = P
    BY <1>1
  <2> QED BY <1>1, <1>2, <2>1
<1>16. P >= H => Shifted(n) <= 0 \/ Shifted(n) >= MaxBackoff
  BY <1>6, <1>10, <1>13, <1>14, Constants
<1> QED BY <1>10, <1>13, <1>15, <1>16 DEF P, H

\* advance shifts a time.Duration, which may wrap, and its guard makes the overflow
\* unnoticeable: the backoff doubles up to its maximum and stays there.
THEOREM BackoffIsCapped ==
  ASSUME NEW n \in Nat
  PROVE  Backoff(n + 1) = IF BaseBackoff * Pow2[n] > MaxBackoff THEN MaxBackoff
                          ELSE BaseBackoff * Pow2[n]
<1>1. Backoff(n + 1) = IF Shifted(n) > MaxBackoff \/ Shifted(n) <= 0
                       THEN MaxBackoff ELSE Shifted(n)
  <2>1. (n + 1) - 1 = n
    OBVIOUS
  <2> QED BY <2>1 DEF Backoff
<1> DEFINE P == BaseBackoff * Pow2[n]
           H == Pow2[Width - 1]
<1>2. P \in Nat \ {0} /\ H \in Nat
  <2>1. Width - 1 \in Nat
    BY Constants
  <2> QED BY <2>1, Pow2Type, Constants
<1>3. /\ Shifted(n) \in Int
      /\ P < H => Shifted(n) = P
      /\ P >= H => (Shifted(n) <= 0 \/ Shifted(n) >= MaxBackoff) /\ P >= MaxBackoff
  BY ShiftedValue
<1> HIDE DEF P, H
<1>4. P < H => Backoff(n + 1) = IF P > MaxBackoff THEN MaxBackoff ELSE P
  BY <1>1, <1>2, <1>3
<1>5. P >= H => Backoff(n + 1) = IF P > MaxBackoff THEN MaxBackoff ELSE P
  BY <1>1, <1>2, <1>3, Constants
<1> QED BY <1>2, <1>4, <1>5 DEF P

LEMMA BackoffBound ==
  ASSUME NEW n \in Nat \ {0}
  PROVE  Backoff(n) \in 1..MaxBackoff
<1>1. n - 1 \in Nat /\ n = (n - 1) + 1
  OBVIOUS
<1>2. Pow2[n - 1] \in Nat \ {0}
  BY <1>1, Pow2Type
<1>3. BaseBackoff * Pow2[n - 1] \in Nat \ {0}
  BY <1>2, Constants
<1>4. Backoff(n) = IF BaseBackoff * Pow2[n - 1] > MaxBackoff THEN MaxBackoff
                   ELSE BaseBackoff * Pow2[n - 1]
  BY <1>1, BackoffIsCapped
<1> QED BY <1>3, <1>4, Constants

\* More failures, no shorter a backoff.
LEMMA BackoffGrows ==
  ASSUME NEW m \in Nat \ {0}, NEW n \in Nat \ {0}, m <= n
  PROVE  Backoff(m) <= Backoff(n)
<1>1. m - 1 \in Nat /\ n - 1 \in Nat /\ m - 1 <= n - 1
  OBVIOUS
<1> DEFINE p == Pow2[m - 1]
           q == Pow2[n - 1]
<1>2. p \in Nat /\ q \in Nat /\ p <= q
  BY <1>1, Pow2Type, Pow2Order
<1>3. /\ Backoff(m) = IF BaseBackoff * p > MaxBackoff THEN MaxBackoff ELSE BaseBackoff * p
      /\ Backoff(n) = IF BaseBackoff * q > MaxBackoff THEN MaxBackoff ELSE BaseBackoff * q
  <2>1. m = (m - 1) + 1 /\ n = (n - 1) + 1
    OBVIOUS
  <2> QED BY <1>1, <2>1, BackoffIsCapped
<1> HIDE DEF p, q
<1>4. BaseBackoff * p <= BaseBackoff * q /\ BaseBackoff * p \in Int /\ BaseBackoff * q \in Int
  <2>1. \A c, x, y \in Nat : x <= y => c * x <= c * y
    OBVIOUS
  <2> QED BY <1>2, <2>1, Constants
<1> QED BY <1>3, <1>4, Constants

LEMMA AdvancedType ==
  ASSUME NEW e \in MaybeEntry, now \in Nat
  PROVE  /\ Advanced(e) \in Entry
         /\ Advanced(e).failures = Failures(e) + 1
         /\ Advanced(e).alerted <=> e # NoEntry /\ e.alerted
<1>1. Failures(e) \in Nat
  BY DEF Failures, MaybeEntry, Entry
<1>2. Backoff(Failures(e) + 1) \in Nat
  BY <1>1, BackoffBound, Constants
<1>3. now + Backoff(Failures(e) + 1) \in Nat
  BY <1>2
<1>4. (IF e = NoEntry THEN now ELSE e.first) \in Nat
  BY DEF MaybeEntry, Entry
<1>5. (e # NoEntry /\ e.alerted) \in BOOLEAN
  BY DEF MaybeEntry, Entry
<1>6. \A f \in Nat \ {0}, u \in Nat, a \in BOOLEAN, g \in Nat :
        [failures |-> f, until |-> u, alerted |-> a, first |-> g] \in Entry
  BY DEF Entry
<1>7. Failures(e) + 1 \in Nat \ {0}
  BY <1>1
<1>8. Advanced(e) \in Entry
  BY <1>3, <1>4, <1>5, <1>6, <1>7 DEF Advanced
<1>9. Advanced(e).failures = Failures(e) + 1
  BY DEF Advanced
<1>10. Advanced(e).alerted <=> e # NoEntry /\ e.alerted
  BY <1>5 DEF Advanced
<1> QED BY <1>8, <1>9, <1>10

LEMMA SweptType ==
  ASSUME NEW S, NEW m \in [S -> MaybeEntry]
  PROVE  /\ SweptMap(m) \in [S -> MaybeEntry]
         /\ \A k \in S : SweptMap(m)[k] \in {m[k], NoEntry}
BY DEF SweptMap, MaybeEntry

LEMMA SweepStep ==
  ASSUME IInv, Sweep
  PROVE  LimiterTypeOK' /\ \A k \in ClientID : AlertedOnce(k)'
<1>1. CASE LimiterSweepDue
  <2>1. /\ byClientID' = SweptMap(byClientID) /\ bySourceIP' = SweptMap(bySourceIP)
        /\ limiterSweep' = now /\ alerts' = alerts
    BY <1>1 DEF Sweep
  <2>2. /\ byClientID \in [ClientID -> MaybeEntry] /\ bySourceIP \in [SourceIP -> MaybeEntry]
        /\ now \in Int /\ alerts \in [ClientID -> Nat]
    BY Constants DEF IInv, TypeOK, LimiterTypeOK, MaybeEntry
  <2>3. /\ byClientID' \in [ClientID -> MaybeEntry] /\ bySourceIP' \in [SourceIP -> MaybeEntry]
        /\ \A k \in ClientID : byClientID'[k] \in {byClientID[k], NoEntry}
    BY <2>1, <2>2, SweptType
  <2>4. LimiterTypeOK'
    BY <2>1, <2>2, <2>3 DEF LimiterTypeOK, MaybeEntry
  <2>5. \A k \in ClientID : AlertedOnce(k)'
    BY <2>1, <2>3 DEF IInv, AlertedOnce
  <2> QED BY <2>4, <2>5
<1>2. CASE ~LimiterSweepDue
  BY <1>2 DEF Sweep, limiterVars, IInv, TypeOK, LimiterTypeOK, AlertedOnce
<1> QED BY <1>1, <1>2

LEMMA RecordFailureStep ==
  ASSUME IInv, NEW c \in ClientID, NEW i \in SourceIP, RecordFailure(c, i)
  PROVE  LimiterTypeOK' /\ \A k \in ClientID : AlertedOnce(k)'
<1> DEFINE e == byClientID[c]
           cs == Advanced(e)
           made == [cs EXCEPT !.alerted = @ \/ Crosses(cs)]
           before == IF e = NoEntry THEN 0 ELSE alerts[c]
           count == before + (IF Crosses(cs) THEN 1 ELSE 0)
<1>1. /\ byClientID' = [byClientID EXCEPT ![c] = made]
      /\ alerts' = [alerts EXCEPT ![c] = count]
      /\ bySourceIP' = [bySourceIP EXCEPT ![i] = Advanced(bySourceIP[i])]
      /\ limiterSweep' = limiterSweep
  BY DEF RecordFailure
<1>2. /\ e \in MaybeEntry /\ bySourceIP[i] \in MaybeEntry /\ now \in Nat
      /\ alerts[c] \in Nat
  BY Constants DEF IInv, TypeOK, LimiterTypeOK, MaybeEntry
<1>3. /\ cs \in Entry /\ cs.failures = Failures(e) + 1
      /\ cs.alerted <=> e # NoEntry /\ e.alerted
  BY <1>2, AdvancedType
<1>4. Advanced(bySourceIP[i]) \in Entry
  BY <1>2, AdvancedType
<1>5. e # NoEntry => /\ e.failures \in Nat
                     /\ e.alerted <=> e.failures >= AlertThreshold
                     /\ alerts[c] = IF e.failures >= AlertThreshold THEN 1 ELSE 0
  BY <1>2 DEF IInv, AlertedOnce, MaybeEntry, Entry
<1> HIDE DEF cs
<1>6. Crosses(cs) \in BOOLEAN /\ (Crosses(cs) <=> cs.failures >= AlertThreshold /\ ~cs.alerted)
  BY <1>3 DEF Crosses, Entry
<1>7. /\ made \in Entry /\ made.failures = cs.failures
      /\ made.alerted <=> cs.alerted \/ Crosses(cs)
  BY <1>3, <1>6 DEF Entry
<1>8. LET crossed == made.failures >= AlertThreshold
      IN  /\ made.alerted <=> crossed
          /\ count = IF crossed THEN 1 ELSE 0
  <2>1. CASE e = NoEntry
    BY <1>3, <1>6, <1>7, <2>1, Constants DEF Failures
  <2>2. CASE e # NoEntry
    BY <1>3, <1>5, <1>6, <1>7, <2>2, Constants DEF Failures
  <2> QED BY <2>1, <2>2
<1>9. count \in Nat
  BY <1>2, <1>8
<1> HIDE DEF made, count
<1>10. LimiterTypeOK'
  BY <1>1, <1>4, <1>7, <1>9 DEF IInv, TypeOK, LimiterTypeOK
<1>11. \A k \in ClientID : AlertedOnce(k)'
  <2> TAKE k \in ClientID
  <2>1. CASE k = c
    BY <1>1, <1>8, <2>1 DEF IInv, TypeOK, LimiterTypeOK, AlertedOnce
  <2>2. CASE k # c
    BY <1>1, <2>2 DEF IInv, TypeOK, LimiterTypeOK, AlertedOnce
  <2> QED BY <2>1, <2>2
<1> QED BY <1>10, <1>11

LEMMA RecordSuccessStep ==
  ASSUME IInv, NEW c \in ClientID, NEW i \in SourceIP, RecordSuccess(c, i)
  PROVE  LimiterTypeOK' /\ \A k \in ClientID : AlertedOnce(k)'
<1>1. LimiterTypeOK'
  BY DEF RecordSuccess, IInv, TypeOK, LimiterTypeOK
<1>2. \A k \in ClientID : AlertedOnce(k)'
  BY DEF RecordSuccess, IInv, TypeOK, LimiterTypeOK, AlertedOnce
<1> QED BY <1>1, <1>2

-----------------------------------------------------------------------------
Attempt == {Idle} \cup Admitted \cup Denied \cup Granted \cup Migrating

\* The attempts and the store, apart from the limiter.
RestTypeOK ==
  /\ now \in 0..MaxTime
  /\ store \in [ClientID -> Row]
  /\ newest \in [ClientID -> 0..MaxVersion]
  /\ req \in [Req -> Attempt]

LEMMA AttemptFields ==
  ASSUME NEW a \in Attempt, a.pc # "idle"
  PROVE  /\ a.id \in ClientID
         /\ a.pc \in {"denied", "granted"} => a.ip \in SourceIP
         /\ a.pc = "get" => a.ip \in SourceIP /\ a.secret \in 0..MaxVersion
         /\ a.pc \in {"granted", "rehash"} => a.secret \in 1..MaxVersion
         /\ a.pc = "granted" => a.drifted \in BOOLEAN
BY DEF Attempt, Idle, Admitted, Denied, Granted, Migrating

LEMMA Moved ==
  ASSUME RestTypeOK, NEW r \in Req, NEW a \in Attempt, req' = [req EXCEPT ![r] = a]
  PROVE  req' \in [Req -> Attempt]
BY DEF RestTypeOK

LEMMA AdmitRest ==
  ASSUME RestTypeOK, NEW r \in Req, NEW k \in ClientID, NEW i \in SourceIP,
         NEW v \in 0..newest[k], Admit(r, k, i, v)
  PROVE  RestTypeOK'
<1>1. v \in 0..MaxVersion
  BY Constants DEF RestTypeOK
<1>2. [pc |-> "denied", id |-> k, ip |-> i] \in Attempt
  BY DEF Attempt, Denied
<1>3. [pc |-> "get", id |-> k, ip |-> i, secret |-> v] \in Attempt
  BY <1>1 DEF Attempt, Admitted
<1>4. req' = req \/ \E a \in Attempt : req' = [req EXCEPT ![r] = a]
  BY <1>2, <1>3 DEF Admit
<1>5. req' \in [Req -> Attempt]
  BY <1>4, Moved DEF RestTypeOK
<1> QED BY <1>5 DEF Admit, RestTypeOK

LEMMA GetClientRest ==
  ASSUME RestTypeOK, NEW r \in Req, GetClient(r)
  PROVE  RestTypeOK'
<1> DEFINE a == req[r]
           rec == store[a.id]
<1>1. a \in Attempt /\ a.pc = "get"
  BY DEF RestTypeOK, GetClient
<1>2. a.id \in ClientID /\ a.ip \in SourceIP /\ a.secret \in 0..MaxVersion
  BY <1>1, AttemptFields
<1>3. rec.secret \in 0..MaxVersion /\ rec.drifted \in BOOLEAN
  BY <1>2 DEF RestTypeOK, Row
<1>4. Verifies(a.secret, rec) =>
        [pc |-> "granted", id |-> a.id, ip |-> a.ip,
         secret |-> a.secret, drifted |-> rec.drifted] \in Attempt
  <2> HAVE Verifies(a.secret, rec)
  <2>1. a.secret \in 1..MaxVersion
    BY <1>2, <1>3 DEF Verifies
  <2> QED BY <1>2, <1>3, <2>1 DEF Attempt, Granted
<1>5. [pc |-> "denied", id |-> a.id, ip |-> a.ip] \in Attempt /\ Idle \in Attempt
  BY <1>2 DEF Attempt, Denied
<1>6. \E b \in Attempt : req' = [req EXCEPT ![r] = b]
  BY <1>4, <1>5 DEF GetClient
<1>7. req' \in [Req -> Attempt]
  BY <1>6, Moved
<1> QED BY <1>7 DEF GetClient, RestTypeOK

LEMMA GrantRest ==
  ASSUME RestTypeOK, NEW r \in Req, GrantFails(r) \/ GrantSucceeds(r)
  PROVE  RestTypeOK'
<1> DEFINE a == req[r]
<1>1. a \in Attempt /\ a.pc \in {"denied", "granted"}
  BY DEF RestTypeOK, GrantFails, GrantSucceeds
<1>2. a.id \in ClientID /\ (a.pc = "granted" => a.secret \in 1..MaxVersion)
  BY <1>1, AttemptFields
<1>3. a.pc = "granted" => [pc |-> "rehash", id |-> a.id, secret |-> a.secret] \in Attempt
  BY <1>2 DEF Attempt, Migrating
<1>4. Idle \in Attempt
  BY DEF Attempt
<1>5. \E b \in Attempt : req' = [req EXCEPT ![r] = b]
  BY <1>3, <1>4 DEF GrantFails, GrantSucceeds
<1>6. req' \in [Req -> Attempt]
  BY <1>5, Moved
<1> QED BY <1>6 DEF GrantFails, GrantSucceeds, RestTypeOK

LEMMA RehashRest ==
  ASSUME RestTypeOK, NEW r \in Req, Rehash(r)
  PROVE  RestTypeOK'
<1>1. req[r] \in Attempt /\ req[r].pc = "rehash"
  BY DEF RestTypeOK, Rehash
<1>2. req[r].id \in ClientID /\ req[r].secret \in 1..MaxVersion
  BY <1>1, AttemptFields
<1>3. store' \in [ClientID -> Row]
  BY <1>2 DEF Rehash, RestTypeOK, Row
<1>4. req' \in [Req -> Attempt]
  <2>1. Idle \in Attempt
    BY DEF Attempt
  <2> QED BY <2>1, Moved DEF Rehash
<1> QED BY <1>3, <1>4 DEF Rehash, RestTypeOK

LEMMA OperatorRest ==
  ASSUME RestTypeOK, NEW k \in ClientID, Rotate(k) \/ Revoke(k)
  PROVE  RestTypeOK'
<1>1. CASE Rotate(k)
  <2>1. newest[k] + 1 \in 0..MaxVersion
    BY <1>1, Constants DEF Rotate, RestTypeOK
  <2>2. store' \in [ClientID -> Row] /\ newest' \in [ClientID -> 0..MaxVersion]
    BY <1>1, <2>1 DEF Rotate, RestTypeOK, Row
  <2> QED BY <1>1, <2>2 DEF Rotate, RestTypeOK
<1>2. CASE Revoke(k)
  <2>1. 0 \in 0..MaxVersion
    BY Constants
  <2> QED BY <1>2, <2>1 DEF Revoke, RestTypeOK, Row
<1> QED BY <1>1, <1>2

-----------------------------------------------------------------------------
LEMMA InitInvariant == Init => IInv
<1> SUFFICES ASSUME Init PROVE IInv
  OBVIOUS
<1>1. LimiterTypeOK
  BY Constants DEF Init, LimiterInit, LimiterTypeOK
<1>2. [secret |-> 1, drifted |-> TRUE] \in Row /\ NoRow \in Row
  BY Constants DEF Row, NoRow
<1>3. store \in [ClientID -> Row]
  BY <1>2 DEF Init
<1>4. newest \in [ClientID -> 0..MaxVersion]
  BY <1>3 DEF Init, Row
<1>5. TypeOK
  BY <1>1, <1>3, <1>4, Constants DEF Init, TypeOK
<1>6. \A k \in ClientID : AlertedOnce(k)
  BY DEF Init, LimiterInit, AlertedOnce
<1> QED BY <1>5, <1>6 DEF IInv

LEMMA StepInvariant ==
  ASSUME IInv, [Next]_vars
  PROVE  IInv'
<1>1. RestTypeOK
  BY DEF IInv, TypeOK, RestTypeOK, Attempt
<1>2. RestTypeOK' /\ LimiterTypeOK' => TypeOK'
  BY DEF TypeOK, RestTypeOK, Attempt
<1>3. UNCHANGED limiterVars => LimiterTypeOK' /\ \A k \in ClientID : AlertedOnce(k)'
  BY DEF limiterVars, IInv, TypeOK, LimiterTypeOK, AlertedOnce
<1>4. ASSUME NEW r \in Req, NEW k \in ClientID, NEW i \in SourceIP,
             NEW v \in 0..newest[k], Admit(r, k, i, v)
      PROVE  IInv'
  <2>1. Sweep
    BY <1>4 DEF Admit
  <2> QED BY <1>1, <1>2, <1>4, <2>1, SweepStep, AdmitRest DEF IInv
<1>5. ASSUME NEW r \in Req, GetClient(r)
      PROVE  IInv'
  <2>1. UNCHANGED limiterVars
    BY <1>5 DEF GetClient
  <2> QED BY <1>1, <1>2, <1>3, <1>5, <2>1, GetClientRest DEF IInv
<1>6. ASSUME NEW r \in Req, GrantFails(r) \/ GrantSucceeds(r)
      PROVE  IInv'
  <2>1. req[r] \in Attempt /\ req[r].pc \in {"denied", "granted"}
    BY <1>1, <1>6 DEF RestTypeOK, GrantFails, GrantSucceeds
  <2>2. req[r].id \in ClientID /\ req[r].ip \in SourceIP
    BY <2>1, AttemptFields
  <2>3. RecordFailure(req[r].id, req[r].ip) \/ RecordSuccess(req[r].id, req[r].ip)
    BY <1>6 DEF GrantFails, GrantSucceeds
  <2>4. LimiterTypeOK' /\ \A k \in ClientID : AlertedOnce(k)'
    BY <2>2, <2>3, RecordFailureStep, RecordSuccessStep
  <2> QED BY <1>1, <1>2, <1>6, <2>4, GrantRest DEF IInv
<1>7. ASSUME NEW r \in Req, Rehash(r)
      PROVE  IInv'
  <2>1. UNCHANGED limiterVars
    BY <1>7 DEF Rehash
  <2> QED BY <1>1, <1>2, <1>3, <1>7, <2>1, RehashRest DEF IInv
<1>8. ASSUME NEW k \in ClientID, Rotate(k) \/ Revoke(k)
      PROVE  IInv'
  <2>1. UNCHANGED limiterVars
    BY <1>8 DEF Rotate, Revoke
  <2> QED BY <1>1, <1>2, <1>3, <1>8, <2>1, OperatorRest DEF IInv
<1>9. CASE Tick
  <2>1. UNCHANGED limiterVars /\ RestTypeOK'
    BY <1>1, <1>9, Constants DEF Tick, RestTypeOK
  <2> QED BY <1>2, <1>3, <2>1 DEF IInv
<1>10. CASE UNCHANGED vars
  <2>1. UNCHANGED limiterVars /\ RestTypeOK'
    BY <1>1, <1>10 DEF vars, limiterVars, RestTypeOK
  <2> QED BY <1>2, <1>3, <2>1 DEF IInv
<1> QED BY <1>4, <1>5, <1>6, <1>7, <1>8, <1>9, <1>10 DEF Next

\* An entry remembers its alert for as long as its run of failures lasts.
THEOREM TokenEndpointInvariant == Spec => []IInv
BY InitInvariant, StepInvariant, PTL DEF Spec

\* Type correctness of POST /auth/token, its limiter and the client store.  Of a block it
\* says only that it ends at a natural number; BackoffIsCapped has its bounds.
THEOREM TokenEndpointTypeCorrect == Spec => []TypeOK
<1>1. IInv => TypeOK
  BY DEF IInv
<1> QED BY <1>1, TokenEndpointInvariant, PTL

\* grantlimiter.go: one alert per run of failures that reaches the threshold, "not
\* once per subsequent failure", and none before it.
THEOREM AlertPerCrossingHolds == Spec => []AlertPerCrossing
<1>1. IInv => AlertPerCrossing
  BY DEF IInv, AlertedOnce, AlertPerCrossing
<1> QED BY <1>1, TokenEndpointInvariant, PTL

-----------------------------------------------------------------------------
\* How fast failures can follow each other.

LEMMA WaitedEquation ==
  /\ Waited[0] = 0
  /\ \A n \in Nat : Waited[n + 1] = Waited[n] + Backoff(n + 1)
<1> DEFINE step == [p \in Nat \X Nat |-> IF p[2] = 0 THEN 0 ELSE p[1] + Backoff(p[2])]
           Solves(f) == f = [n \in Nat |-> IF n = 0 THEN 0 ELSE f[n - 1] + Backoff(n)]
<1>1. \E f : Solves(f)
  <2>1. \A n \in Nat : n # 0 => Backoff(n) \in Nat
    BY BackoffBound, Constants
  <2>2. /\ step \in [Nat \X Nat -> Nat]
        /\ \A x, n \in Nat : n # 0 => step[<<x, n>>] = x + Backoff(n)
    BY <2>1
  <2> HIDE DEF step
  <2>3. PICK f \in [Nat -> Nat] :
          f = [n \in Nat |-> IF n = 0 THEN 0 ELSE step[<<f[n - 1], n>>]]
    <3>1. \A a \in Nat, s \in [Nat \X Nat -> Nat] :
            \E f \in [Nat -> Nat] :
              f = [n \in Nat |-> IF n = 0 THEN a ELSE s[<<f[n - 1], n>>]]
      BY RecursionExists
    <3>2. 0 \in Nat
      OBVIOUS
    <3> QED BY <2>2, <3>1, <3>2, Zenon
  <2>4. \A n \in Nat : n # 0 => step[<<f[n - 1], n>>] = f[n - 1] + Backoff(n)
    <3> TAKE n \in Nat
    <3> HAVE n # 0
    <3>1. f[n - 1] \in Nat
      OBVIOUS
    <3> QED BY <2>2, <3>1
  <2>5. Solves(f)
    BY <2>3, <2>4
  <2> QED BY <2>5
<1>2. Waited = CHOOSE f : Solves(f)
  BY DEF Waited
<1> HIDE DEF Solves
<1>3. Solves(Waited)
  BY <1>1, <1>2
<1>4. \A n \in Nat : Waited[n] = IF n = 0 THEN 0 ELSE Waited[n - 1] + Backoff(n)
  <2> DEFINE g == Waited
  <2>1. g = [n \in Nat |-> IF n = 0 THEN 0 ELSE g[n - 1] + Backoff(n)]
    BY <1>3 DEF Solves
  <2> HIDE DEF g
  <2>2. \A n \in Nat : g[n] = IF n = 0 THEN 0 ELSE g[n - 1] + Backoff(n)
    BY <2>1
  <2> QED BY <2>2 DEF g
<1>5. ASSUME NEW n \in Nat PROVE Waited[n + 1] = Waited[n] + Backoff(n + 1)
  <2>1. n + 1 \in Nat /\ n + 1 # 0 /\ (n + 1) - 1 = n
    OBVIOUS
  <2> QED BY <1>4, <2>1
<1> QED BY <1>4, <1>5

\* Each block takes a tick or more.
LEMMA WaitedType ==
  ASSUME NEW n \in Nat
  PROVE  Waited[n] \in Nat /\ Waited[n] >= n
<1> DEFINE P == {m \in Nat : Waited[m] \in Nat /\ Waited[m] >= m}
<1>1. 0 \in P
  BY WaitedEquation
<1>2. ASSUME NEW m \in Nat, m \in P PROVE m + 1 \in P
  <2>1. Backoff(m + 1) \in Nat /\ Backoff(m + 1) >= 1
    BY BackoffBound, Constants
  <2> QED BY <1>2, <2>1, WaitedEquation
<1> HIDE DEF P
<1>3. n \in P
  BY <1>1, <1>2, AllNaturals
<1> QED BY <1>3 DEF P

\* The attempts that Allow let through and whose outcome is still to come.
PendingAt(k) == {r \in Req : req[r].pc \in {"get", "denied"} /\ req[r].id = k}
PendingFrom(i) == {r \in Req : req[r].pc \in {"get", "denied"} /\ req[r].ip = i}

LastFailure(e) == e.until - Backoff(e.failures)

\* By the last failure of an entry, and by t if its pending attempts are counted as
\* failures too, the blocks of all full rounds of them have been waited out.
Paced(e, pending, t) ==
  e # NoEntry =>
    /\ LastFailure(e) <= t
    /\ \A n \in Nat :
         /\ e.failures > Cardinality(Req) * n => LastFailure(e) - e.first >= Waited[n]
         /\ e.failures + Cardinality(pending) > Cardinality(Req) * n =>
              t - e.first >= Waited[n]

AllPaced ==
  /\ \A k \in ClientID : Paced(byClientID[k], PendingAt(k), now)
  /\ \A i \in SourceIP : Paced(bySourceIP[i], PendingFrom(i), now)

LEMMA Attempts ==
  ASSUME NEW p \in SUBSET Req
  PROVE  /\ IsFiniteSet(p) /\ Cardinality(p) \in Nat
         /\ Cardinality(Req) \in Nat /\ Cardinality(p) <= Cardinality(Req)
         /\ \A q \in SUBSET p : Cardinality(q) \in Nat /\ Cardinality(q) <= Cardinality(p)
         /\ \A r \in Req \ p : Cardinality(p \cup {r}) = Cardinality(p) + 1
         /\ \A r \in p : Cardinality(p \ {r}) = Cardinality(p) - 1
<1>1. IsFiniteSet(Req) /\ Cardinality(Req) \in Nat
  BY Constants, FS_CardinalityType
<1>2. IsFiniteSet(p) /\ Cardinality(p) \in Nat /\ Cardinality(p) <= Cardinality(Req)
  BY <1>1, FS_Subset, FS_CardinalityType
<1>3. \A q \in SUBSET p : Cardinality(q) \in Nat /\ Cardinality(q) <= Cardinality(p)
  BY <1>2, FS_Subset, FS_CardinalityType
<1>4. \A r \in Req \ p : Cardinality(p \cup {r}) = Cardinality(p) + 1
  BY <1>2, FS_AddElement
<1>5. \A r \in p : Cardinality(p \ {r}) = Cardinality(p) - 1
  BY <1>2, FS_RemoveElement
<1> QED BY <1>1, <1>2, <1>3, <1>4, <1>5

LEMMA EntryFields ==
  ASSUME NEW e \in MaybeEntry, e # NoEntry
  PROVE  /\ e.failures \in Nat \ {0} /\ e.until \in Nat /\ e.first \in Nat
         /\ Backoff(e.failures) \in Nat /\ LastFailure(e) \in Int
         /\ \A n \in Nat : Cardinality(Req) * n \in Nat /\ Waited[n] \in Nat
<1>1. e.failures \in Nat \ {0} /\ e.until \in Nat /\ e.first \in Nat
  BY DEF MaybeEntry, Entry
<1>2. Backoff(e.failures) \in Nat
  BY <1>1, BackoffBound, Constants
<1>3. \A n \in Nat : Cardinality(Req) * n \in Nat
  <2>1. Cardinality(Req) \in Nat
    BY Constants, FS_CardinalityType
  <2> QED BY <2>1
<1> QED BY <1>1, <1>2, <1>3, WaitedType DEF LastFailure

\* Time passes, or a pending attempt ends without a failure.
LEMMA PacedLater ==
  ASSUME NEW e \in MaybeEntry, NEW p \in SUBSET Req, NEW q \in SUBSET p,
         NEW t \in Nat, NEW u \in Nat, t <= u, Paced(e, p, t)
  PROVE  Paced(e, q, u)
<1> SUFFICES ASSUME e # NoEntry
             PROVE  /\ LastFailure(e) <= u
                    /\ \A n \in Nat :
                         /\ e.failures > Cardinality(Req) * n =>
                              LastFailure(e) - e.first >= Waited[n]
                         /\ e.failures + Cardinality(q) > Cardinality(Req) * n =>
                              u - e.first >= Waited[n]
  BY DEF Paced
<1>1. Cardinality(p) \in Nat /\ Cardinality(q) \in Nat /\ Cardinality(q) <= Cardinality(p)
  BY Attempts
<1>2. /\ LastFailure(e) <= t
      /\ \A n \in Nat :
           /\ e.failures > Cardinality(Req) * n => LastFailure(e) - e.first >= Waited[n]
           /\ e.failures + Cardinality(p) > Cardinality(Req) * n =>
                t - e.first >= Waited[n]
  BY DEF Paced
<1>3. LastFailure(e) <= u
  BY <1>2, EntryFields
<1>4. ASSUME NEW n \in Nat, e.failures + Cardinality(q) > Cardinality(Req) * n
      PROVE  u - e.first >= Waited[n]
  <2>1. Cardinality(Req) * n \in Nat /\ Waited[n] \in Nat /\ e.failures \in Nat /\ e.first \in Nat
    BY EntryFields
  <2>2. e.failures + Cardinality(p) > Cardinality(Req) * n
    BY <1>1, <1>4, <2>1
  <2>3. t - e.first >= Waited[n]
    BY <1>2, <2>2
  <2> QED BY <2>1, <2>3
<1> QED BY <1>2, <1>3, <1>4

\* An attempt is admitted after the block: with it there may be a full round more, the
\* block of which has been waited out, for it was no shorter than the block of as many
\* failures as there are rounds.
LEMMA PacedAdmit ==
  ASSUME NEW e \in MaybeEntry, NEW p \in SUBSET Req, NEW r \in Req \ p, NEW t \in Nat,
         e # NoEntry => e.until <= t,
         Paced(e, p, t)
  PROVE  Paced(e, p \cup {r}, t)
<1> DEFINE N == Cardinality(Req)
           F == e.failures
           L == LastFailure(e)
<1> SUFFICES ASSUME e # NoEntry, NEW n \in Nat, F + Cardinality(p \cup {r}) > N * n
             PROVE  t - e.first >= Waited[n]
  BY DEF Paced
<1>1. /\ Cardinality(p \cup {r}) = Cardinality(p) + 1
      /\ Cardinality(p \cup {r}) <= N /\ N \in Nat /\ Cardinality(p) \in Nat
  <2>1. p \cup {r} \in SUBSET Req
    OBVIOUS
  <2> QED BY <2>1, Attempts
<1>2. /\ F \in Nat \ {0} /\ e.until \in Nat /\ e.first \in Nat /\ Backoff(F) \in Nat
      /\ L \in Int /\ L = e.until - Backoff(F) /\ L <= t /\ e.until <= t
  BY EntryFields DEF Paced, LastFailure
<1>3. \A m \in Nat : F > N * m => L - e.first >= Waited[m]
  BY DEF Paced
<1> HIDE DEF N, F, L
<1>4. CASE n = 0
  <2>1. N * 0 = 0
    BY <1>1
  <2>2. L - e.first >= Waited[0]
    BY <1>2, <1>3, <2>1
  <2> QED BY <1>2, <1>4, <2>2, WaitedEquation
<1>5. CASE n # 0
  <2>1. n - 1 \in Nat /\ n = (n - 1) + 1 /\ n \in Nat \ {0}
    BY <1>5
  <2>2. N * n = N * (n - 1) + N /\ N * (n - 1) \in Nat /\ N * (n - 1) >= n - 1
    <3>1. N >= 1
      BY <1>1
    <3>2. \A a, b \in Nat : a >= 1 => a * b >= b /\ a * b \in Nat /\ a * (b + 1) = a * b + a
      OBVIOUS
    <3> QED BY <1>1, <2>1, <3>1, <3>2
  <2>3. F > N * (n - 1)
    BY <1>1, <1>2, <2>2
  <2>4. L - e.first >= Waited[n - 1]
    BY <1>3, <2>1, <2>3
  <2>5. Backoff(n) <= Backoff(F) /\ Backoff(n) \in Nat
    <3>1. n <= F
      BY <1>2, <2>2, <2>3
    <3> QED BY <1>2, <2>1, <3>1, BackoffGrows, BackoffBound, Constants
  <2>6. Waited[n] = Waited[n - 1] + Backoff(n) /\ Waited[n - 1] \in Nat
    BY <2>1, WaitedEquation, WaitedType
  <2> QED BY <1>2, <2>4, <2>5, <2>6
<1> QED BY <1>4, <1>5

\* A pending attempt fails: it was counted already.
LEMMA PacedFailure ==
  ASSUME NEW e \in MaybeEntry, NEW p \in SUBSET Req, NEW r \in p, NEW t \in Nat,
         Paced(e, p, t),
         NEW f \in Entry,
         f.failures = Failures(e) + 1,
         f.until = t + Backoff(Failures(e) + 1),
         f.first = IF e = NoEntry THEN t ELSE e.first
  PROVE  Paced(f, p \ {r}, t)
<1> DEFINE N == Cardinality(Req)
<1>1. /\ Cardinality(p \ {r}) = Cardinality(p) - 1
      /\ Cardinality(p) <= N /\ N \in Nat /\ Cardinality(p) \in Nat
      /\ Cardinality(p \ {r}) \in Nat
  BY Attempts
<1>2. f.failures \in Nat \ {0} /\ Backoff(f.failures) \in Nat /\ f.first \in Nat
  BY BackoffBound, Constants DEF Entry
<1>3. LastFailure(f) = t
  BY <1>2 DEF LastFailure
<1>4. ASSUME NEW n \in Nat, f.failures + Cardinality(p \ {r}) > N * n
      PROVE  t - f.first >= Waited[n]
  <2>1. N * n \in Nat /\ Waited[n] \in Nat
    BY <1>1, WaitedType
  <2>2. CASE e = NoEntry
    <3>1. Cardinality(p) > N * n
      BY <1>1, <1>4, <2>1, <2>2 DEF Failures
    <3>2. n = 0
      <4>1. \A a, b \in Nat : b >= 1 => a * b >= a
        OBVIOUS
      <4> QED BY <1>1, <2>1, <3>1, <4>1
    <3> QED BY <2>2, <3>2, WaitedEquation
  <2>3. CASE e # NoEntry
    <3>1. f.failures = e.failures + 1 /\ f.first = e.first /\ e.failures \in Nat
      BY <2>3, EntryFields DEF Failures
    <3>2. e.failures + Cardinality(p) > N * n
      BY <1>1, <1>4, <2>1, <3>1
    <3> QED BY <2>3, <3>1, <3>2 DEF Paced
  <2> QED BY <2>2, <2>3
<1>5. ASSUME NEW n \in Nat, f.failures > N * n
      PROVE  LastFailure(f) - f.first >= Waited[n]
  <2>1. f.failures + Cardinality(p \ {r}) > N * n
    <3>1. N * n \in Nat
      BY <1>1
    <3> QED BY <1>1, <1>2, <1>5, <3>1
  <2> QED BY <1>3, <1>4, <2>1
<1> QED BY <1>3, <1>4, <1>5 DEF Paced

-----------------------------------------------------------------------------
\* The steps.

LEMMA LimiterTypes ==
  ASSUME TypeOK
  PROVE  /\ \A k \in ClientID : byClientID[k] \in MaybeEntry
         /\ \A i \in SourceIP : bySourceIP[i] \in MaybeEntry
         /\ now \in Nat
         /\ \A k \in ClientID : PendingAt(k) \in SUBSET Req
         /\ \A i \in SourceIP : PendingFrom(i) \in SUBSET Req
BY Constants DEF TypeOK, LimiterTypeOK, MaybeEntry, PendingAt, PendingFrom

\* No failure, and nobody is let in.
LEMMA NoFailure ==
  ASSUME TypeOK, AllPaced, now' \in Nat, now <= now',
         \A k \in ClientID : /\ byClientID'[k] \in {byClientID[k], NoEntry}
                             /\ PendingAt(k)' \subseteq PendingAt(k),
         \A i \in SourceIP : /\ bySourceIP'[i] \in {bySourceIP[i], NoEntry}
                             /\ PendingFrom(i)' \subseteq PendingFrom(i)
  PROVE  AllPaced'
<1>1. \A e \in MaybeEntry, p \in SUBSET Req : \A q \in SUBSET p :
        Paced(e, p, now) => Paced(e, q, now')
  BY LimiterTypes, PacedLater
<1>2. \A q : Paced(NoEntry, q, now')
  BY DEF Paced
<1>3. ASSUME NEW k \in ClientID PROVE Paced(byClientID'[k], PendingAt(k)', now')
  <2>1. PendingAt(k) \in SUBSET Req /\ byClientID[k] \in MaybeEntry
        /\ Paced(byClientID[k], PendingAt(k), now)
    BY LimiterTypes DEF AllPaced
  <2>2. Paced(byClientID[k], PendingAt(k)', now')
    BY <1>1, <2>1
  <2> QED BY <1>2, <2>2
<1>4. ASSUME NEW i \in SourceIP PROVE Paced(bySourceIP'[i], PendingFrom(i)', now')
  <2>1. PendingFrom(i) \in SUBSET Req /\ bySourceIP[i] \in MaybeEntry
        /\ Paced(bySourceIP[i], PendingFrom(i), now)
    BY LimiterTypes DEF AllPaced
  <2>2. Paced(bySourceIP[i], PendingFrom(i)', now')
    BY <1>1, <2>1
  <2> QED BY <1>2, <2>2
<1> QED BY <1>3, <1>4 DEF AllPaced, Paced, LastFailure

\* An attempt moves on to a.
LEMMA PendingMoves ==
  ASSUME TypeOK, NEW r \in Req, NEW a, req' = [req EXCEPT ![r] = a]
  PROVE  /\ \A k \in ClientID :
              PendingAt(k)' = (PendingAt(k) \ {r}) \cup
                                (IF a.pc \in {"get", "denied"} /\ a.id = k THEN {r} ELSE {})
         /\ \A i \in SourceIP :
              PendingFrom(i)' = (PendingFrom(i) \ {r}) \cup
                                (IF a.pc \in {"get", "denied"} /\ a.ip = i THEN {r} ELSE {})
<1>1. \A s \in Req : req'[s] = IF s = r THEN a ELSE req[s]
  BY DEF TypeOK
<1> QED BY <1>1 DEF PendingAt, PendingFrom

LEMMA SweepDrops ==
  ASSUME TypeOK, Sweep
  PROVE  /\ \A k \in ClientID : /\ byClientID'[k] \in {byClientID[k], NoEntry}
                                /\ Stands(byClientID[k], byClientID'[k])
         /\ \A i \in SourceIP : /\ bySourceIP'[i] \in {bySourceIP[i], NoEntry}
                                /\ Stands(bySourceIP[i], bySourceIP'[i])
<1>1. ASSUME NEW e \in MaybeEntry, Blocked(e)
      PROVE  e # NoEntry /\ e.until \in Nat /\ ~(now - e.until >= EntryTTL)
  <2>1. e # NoEntry /\ e.until \in Nat /\ now < e.until /\ now \in Nat
    BY <1>1, LimiterTypes DEF Blocked, MaybeEntry, Entry
  <2> QED BY <2>1, Constants
<1>2. CASE LimiterSweepDue
  <2>1. /\ byClientID' = SweptMap(byClientID) /\ bySourceIP' = SweptMap(bySourceIP)
        /\ DOMAIN byClientID = ClientID /\ DOMAIN bySourceIP = SourceIP
    BY <1>2 DEF Sweep, TypeOK, LimiterTypeOK
  <2> QED BY <1>1, <2>1, LimiterTypes DEF SweptMap, Stands
<1>3. CASE ~LimiterSweepDue
  <2>1. byClientID' = byClientID /\ bySourceIP' = bySourceIP
    BY <1>3 DEF Sweep, limiterVars
  <2> QED BY <1>1, <2>1, LimiterTypes DEF Stands
<1> QED BY <1>2, <1>3

LEMMA AdmitPaced ==
  ASSUME TypeOK, AllPaced, NEW r \in Req, NEW k \in ClientID, NEW i \in SourceIP,
         NEW v \in 0..newest[k], Admit(r, k, i, v)
  PROVE  AllPaced'
<1>1. Sweep /\ now' = now /\ now \in Nat /\ req[r].pc = "idle"
  BY LimiterTypes DEF Admit
<1>2. CASE ~Allowed(k, i)
  <2>1. req' = req
    BY <1>2 DEF Admit
  <2> QED BY <1>1, <2>1, SweepDrops, NoFailure DEF PendingAt, PendingFrom
<1>3. CASE Allowed(k, i)
  <2> DEFINE a == IF k = NoClient THEN [pc |-> "denied", id |-> k, ip |-> i]
                  ELSE [pc |-> "get", id |-> k, ip |-> i, secret |-> v]
  <2>1. req' = [req EXCEPT ![r] = a]
    BY <1>3 DEF Admit
  <2>2. a.pc \in {"get", "denied"} /\ a.id = k /\ a.ip = i
    OBVIOUS
  <2> HIDE DEF a
  <2>3. /\ \A j \in ClientID : r \notin PendingAt(j)
        /\ \A j \in SourceIP : r \notin PendingFrom(j)
    BY <1>1 DEF PendingAt, PendingFrom
  <2>4. /\ \A j \in ClientID :
             PendingAt(j)' = IF j = k THEN PendingAt(j) \cup {r} ELSE PendingAt(j)
        /\ \A j \in SourceIP :
             PendingFrom(j)' = IF j = i THEN PendingFrom(j) \cup {r} ELSE PendingFrom(j)
    <3>1. /\ \A j \in ClientID :
               PendingAt(j)' = (PendingAt(j) \ {r}) \cup
                 (IF a.pc \in {"get", "denied"} /\ a.id = j THEN {r} ELSE {})
          /\ \A j \in SourceIP :
               PendingFrom(j)' = (PendingFrom(j) \ {r}) \cup
                 (IF a.pc \in {"get", "denied"} /\ a.ip = j THEN {r} ELSE {})
      BY <2>1, PendingMoves
    <3> QED BY <2>2, <2>3, <3>1
  <2>5. \A e \in MaybeEntry : ~Blocked(e) /\ e # NoEntry => e.until <= now
    BY <1>1, EntryFields DEF Blocked
  <2>6. \A e \in MaybeEntry, p \in SUBSET Req :
          ~Blocked(e) /\ r \notin p /\ Paced(e, p, now) => Paced(e, p \cup {r}, now)
    BY <1>1, <2>5, PacedAdmit
  <2>7. ~Blocked(byClientID[k]) /\ ~Blocked(bySourceIP[i])
    BY <1>3 DEF Allowed
  <2>8. \A q : Paced(NoEntry, q, now)
    BY DEF Paced
  <2>9. ASSUME NEW j \in ClientID PROVE Paced(byClientID'[j], PendingAt(j)', now)
    <3>1. /\ byClientID[j] \in MaybeEntry /\ PendingAt(j) \in SUBSET Req
          /\ Paced(byClientID[j], PendingAt(j), now)
      BY LimiterTypes DEF AllPaced
    <3>2. Paced(byClientID[j], PendingAt(j)', now)
      BY <2>3, <2>4, <2>6, <2>7, <3>1
    <3> QED BY <1>1, <2>8, <3>2, SweepDrops
  <2>10. ASSUME NEW j \in SourceIP PROVE Paced(bySourceIP'[j], PendingFrom(j)', now)
    <3>1. /\ bySourceIP[j] \in MaybeEntry /\ PendingFrom(j) \in SUBSET Req
          /\ Paced(bySourceIP[j], PendingFrom(j), now)
      BY LimiterTypes DEF AllPaced
    <3>2. Paced(bySourceIP[j], PendingFrom(j)', now)
      BY <2>3, <2>4, <2>6, <2>7, <3>1
    <3> QED BY <1>1, <2>8, <3>2, SweepDrops
  <2> QED BY <1>1, <2>9, <2>10 DEF AllPaced, Paced, LastFailure
<1> QED BY <1>2, <1>3

\* What a failure makes of the two entries.
LEMMA FailureEntries ==
  ASSUME TypeOK, NEW k \in ClientID, NEW i \in SourceIP, RecordFailure(k, i)
  PROVE  /\ \A j \in ClientID : j # k => byClientID'[j] = byClientID[j]
         /\ \A j \in SourceIP : j # i => bySourceIP'[j] = bySourceIP[j]
         /\ LET e == byClientID[k]
                f == byClientID'[k]
            IN  /\ f \in Entry /\ f.failures = Failures(e) + 1
                /\ f.until = now + Backoff(Failures(e) + 1)
                /\ f.first = IF e = NoEntry THEN now ELSE e.first
         /\ LET e == bySourceIP[i]
                f == bySourceIP'[i]
            IN  /\ f \in Entry /\ f.failures = Failures(e) + 1
                /\ f.until = now + Backoff(Failures(e) + 1)
                /\ f.first = IF e = NoEntry THEN now ELSE e.first
<1> DEFINE cs == Advanced(byClientID[k])
           made == [cs EXCEPT !.alerted = @ \/ Crosses(cs)]
<1>1. /\ byClientID' = [byClientID EXCEPT ![k] = made]
      /\ bySourceIP' = [bySourceIP EXCEPT ![i] = Advanced(bySourceIP[i])]
  BY DEF RecordFailure
<1>2. byClientID[k] \in MaybeEntry /\ bySourceIP[i] \in MaybeEntry /\ now \in Nat
  BY LimiterTypes
<1>3. \A e \in MaybeEntry :
        LET f == Advanced(e)
        IN  /\ f \in Entry /\ f.failures = Failures(e) + 1
            /\ f.until = now + Backoff(Failures(e) + 1)
            /\ f.first = IF e = NoEntry THEN now ELSE e.first
  <2> TAKE e \in MaybeEntry
  <2>1. Advanced(e) \in Entry
    BY <1>2, AdvancedType
  <2> QED BY <2>1 DEF Advanced
<1>4. /\ cs \in Entry /\ cs.failures = Failures(byClientID[k]) + 1
      /\ cs.until = now + Backoff(Failures(byClientID[k]) + 1)
      /\ cs.first = IF byClientID[k] = NoEntry THEN now ELSE byClientID[k].first
  BY <1>2, <1>3
<1> HIDE DEF cs
<1>5. Crosses(cs) \in BOOLEAN
  BY <1>4 DEF Crosses, Entry
<1>6. made \in Entry /\ made.failures = cs.failures /\ made.until = cs.until
      /\ made.first = cs.first
  BY <1>4, <1>5 DEF Entry
<1> HIDE DEF made
<1>7. /\ byClientID'[k] = made /\ bySourceIP'[i] = Advanced(bySourceIP[i])
      /\ \A j \in ClientID : j # k => byClientID'[j] = byClientID[j]
      /\ \A j \in SourceIP : j # i => bySourceIP'[j] = bySourceIP[j]
  BY <1>1 DEF TypeOK, LimiterTypeOK
<1> QED BY <1>2, <1>3, <1>4, <1>6, <1>7

LEMMA GrantFailsPaced ==
  ASSUME TypeOK, AllPaced, NEW r \in Req, GrantFails(r)
  PROVE  AllPaced'
<1> DEFINE k == req[r].id
           i == req[r].ip
<1>1. /\ req[r].pc = "denied" /\ RecordFailure(k, i)
      /\ req' = [req EXCEPT ![r] = Idle] /\ now' = now
  BY DEF GrantFails
<1>2. k \in ClientID /\ i \in SourceIP
  <2>1. req[r] \in Attempt
    BY DEF TypeOK, Attempt
  <2> QED BY <1>1, <2>1, AttemptFields
<1>3. now \in Nat
  BY LimiterTypes
<1>4. r \in PendingAt(k) /\ r \in PendingFrom(i)
  BY <1>1 DEF PendingAt, PendingFrom
<1>5. /\ \A j \in ClientID : PendingAt(j)' = PendingAt(j) \ {r}
      /\ \A j \in SourceIP : PendingFrom(j)' = PendingFrom(j) \ {r}
  <2>1. \E a : a = Idle /\ req' = [req EXCEPT ![r] = a]
    BY <1>1
  <2>2. Idle.pc \notin {"get", "denied"}
    BY DEF Idle
  <2>3. /\ \A j \in ClientID :
             PendingAt(j)' = (PendingAt(j) \ {r}) \cup
               (IF Idle.pc \in {"get", "denied"} /\ Idle.id = j THEN {r} ELSE {})
        /\ \A j \in SourceIP :
             PendingFrom(j)' = (PendingFrom(j) \ {r}) \cup
               (IF Idle.pc \in {"get", "denied"} /\ Idle.ip = j THEN {r} ELSE {})
    BY <2>1, PendingMoves
  <2> QED BY <2>2, <2>3
<1> HIDE DEF k, i
<1>6. \A e \in MaybeEntry, p \in SUBSET Req : \A f \in Entry :
        /\ r \in p /\ Paced(e, p, now)
        /\ f.failures = Failures(e) + 1
        /\ f.until = now + Backoff(Failures(e) + 1)
        /\ f.first = IF e = NoEntry THEN now ELSE e.first
        => Paced(f, p \ {r}, now)
  BY <1>3, PacedFailure
<1>7. \A e \in MaybeEntry, p \in SUBSET Req : Paced(e, p, now) => Paced(e, p \ {r}, now)
  BY <1>3, PacedLater
<1>8. ASSUME NEW j \in ClientID PROVE Paced(byClientID'[j], PendingAt(j)', now)
  <2>1. /\ byClientID[j] \in MaybeEntry /\ PendingAt(j) \in SUBSET Req
        /\ Paced(byClientID[j], PendingAt(j), now)
    BY LimiterTypes DEF AllPaced
  <2>2. CASE j = k
    BY <1>1, <1>2, <1>4, <1>5, <1>6, <2>1, <2>2, FailureEntries
  <2>3. CASE j # k
    BY <1>1, <1>2, <1>5, <1>7, <2>1, <2>3, FailureEntries
  <2> QED BY <2>2, <2>3
<1>9. ASSUME NEW j \in SourceIP PROVE Paced(bySourceIP'[j], PendingFrom(j)', now)
  <2>1. /\ bySourceIP[j] \in MaybeEntry /\ PendingFrom(j) \in SUBSET Req
        /\ Paced(bySourceIP[j], PendingFrom(j), now)
    BY LimiterTypes DEF AllPaced
  <2>2. CASE j = i
    BY <1>1, <1>2, <1>4, <1>5, <1>6, <2>1, <2>2, FailureEntries
  <2>3. CASE j # i
    BY <1>1, <1>2, <1>5, <1>7, <2>1, <2>3, FailureEntries
  <2> QED BY <2>2, <2>3
<1> QED BY <1>1, <1>8, <1>9 DEF AllPaced, Paced, LastFailure

LEMMA OthersPaced ==
  ASSUME TypeOK, AllPaced, NEW r \in Req, GetClient(r) \/ GrantSucceeds(r) \/ Rehash(r)
  PROVE  AllPaced'
<1>1. /\ now' = now /\ now \in Nat
      /\ \A j \in ClientID : byClientID'[j] \in {byClientID[j], NoEntry}
      /\ \A j \in SourceIP : bySourceIP'[j] \in {bySourceIP[j], NoEntry}
  BY LimiterTypes DEF GetClient, GrantSucceeds, Rehash, limiterVars, RecordSuccess,
                      TypeOK, LimiterTypeOK
<1>2. \E a : /\ req' = [req EXCEPT ![r] = a]
             /\ a.pc \in {"get", "denied"} =>
                  req[r].pc = "get" /\ a.id = req[r].id /\ a.ip = req[r].ip
  <2>1. CASE GetClient(r)
    <3> DEFINE d == [pc |-> "denied", id |-> req[r].id, ip |-> req[r].ip]
               g == [pc |-> "granted", id |-> req[r].id, ip |-> req[r].ip,
                     secret |-> req[r].secret, drifted |-> store[req[r].id].drifted]
    <3>1. req[r].pc = "get" /\ \E a \in {Idle, d, g} : req' = [req EXCEPT ![r] = a]
      BY <2>1 DEF GetClient
    <3>2. /\ d.pc = "denied" /\ d.id = req[r].id /\ d.ip = req[r].ip
          /\ g.pc = "granted" /\ Idle.pc = "idle"
      BY DEF Idle
    <3> HIDE DEF d, g
    <3> QED BY <3>1, <3>2
  <2>2. CASE GrantSucceeds(r)
    <3> DEFINE m == [pc |-> "rehash", id |-> req[r].id, secret |-> req[r].secret]
    <3>1. \E a \in {Idle, m} : req' = [req EXCEPT ![r] = a]
      BY <2>2 DEF GrantSucceeds
    <3>2. m.pc = "rehash" /\ Idle.pc = "idle"
      BY DEF Idle
    <3> HIDE DEF m
    <3> QED BY <3>1, <3>2
  <2>3. CASE Rehash(r)
    <3>1. \E a : a = Idle /\ req' = [req EXCEPT ![r] = a]
      BY <2>3 DEF Rehash
    <3>2. Idle.pc = "idle"
      BY DEF Idle
    <3> QED BY <3>1, <3>2
  <2> QED BY <2>1, <2>2, <2>3
<1>3. PICK a : /\ req' = [req EXCEPT ![r] = a]
               /\ a.pc \in {"get", "denied"} =>
                    req[r].pc = "get" /\ a.id = req[r].id /\ a.ip = req[r].ip
  BY <1>2
<1>4. /\ \A j \in ClientID : PendingAt(j)' \subseteq PendingAt(j)
      /\ \A j \in SourceIP : PendingFrom(j)' \subseteq PendingFrom(j)
  BY <1>3, PendingMoves DEF PendingAt, PendingFrom
<1> QED BY <1>1, <1>4, NoFailure

LEMMA InitPaced == Init => AllPaced
BY DEF Init, LimiterInit, AllPaced, Paced

LEMMA StepPaced == IInv /\ AllPaced /\ [Next]_vars => AllPaced'
<1> SUFFICES ASSUME TypeOK, AllPaced, [Next]_vars PROVE AllPaced'
  BY DEF IInv
<1>1. ASSUME NEW r \in Req, NEW k \in ClientID, NEW i \in SourceIP,
             NEW v \in 0..newest[k], Admit(r, k, i, v)
      PROVE  AllPaced'
  BY <1>1, AdmitPaced
<1>2. ASSUME NEW r \in Req, GetClient(r) \/ GrantSucceeds(r) \/ Rehash(r)
      PROVE  AllPaced'
  BY <1>2, OthersPaced
<1>3. ASSUME NEW r \in Req, GrantFails(r) PROVE AllPaced'
  BY <1>3, GrantFailsPaced
<1>4. ASSUME UNCHANGED <<limiterVars, req>>, now' \in Nat, now <= now' PROVE AllPaced'
  BY <1>4, NoFailure DEF limiterVars, PendingAt, PendingFrom
<1>5. now \in Nat
  BY LimiterTypes
<1>6. ASSUME NEW k \in ClientID, Rotate(k) \/ Revoke(k) PROVE AllPaced'
  BY <1>4, <1>5, <1>6 DEF Rotate, Revoke
<1>7. CASE Tick
  BY <1>4, <1>5, <1>7 DEF Tick
<1>8. CASE UNCHANGED vars
  BY <1>4, <1>5, <1>8 DEF vars
<1> QED BY <1>1, <1>2, <1>3, <1>6, <1>7, <1>8 DEF Next

-----------------------------------------------------------------------------
\* A failure extends the block: its own is no shorter, and begins no earlier.
LEMMA FailureExtends ==
  ASSUME NEW e \in MaybeEntry, NEW p, now \in Nat, Paced(e, p, now), NEW f \in Entry,
         f.until = now + Backoff(Failures(e) + 1)
  PROVE  Stands(e, f)
<1> SUFFICES ASSUME Blocked(e) PROVE f # NoEntry /\ f.until >= e.until
  BY DEF Stands
<1>1. e # NoEntry /\ e.until > now
  BY EntryFields DEF Blocked
<1>2. /\ Failures(e) = e.failures /\ e.failures \in Nat \ {0} /\ e.until \in Nat
      /\ e.until - Backoff(e.failures) <= now /\ Backoff(e.failures) \in Nat
  BY <1>1, EntryFields DEF Failures, Paced, LastFailure
<1>3. Backoff(e.failures) <= Backoff(e.failures + 1) /\ Backoff(e.failures + 1) \in 1..MaxBackoff
  BY <1>2, BackoffGrows, BackoffBound
<1>4. f.until >= e.until
  BY <1>2, <1>3, Constants
<1> QED BY <1>4, NoEntryAssumption

LEMMA StepStands ==
  ASSUME TypeOK, AllPaced, Next
  PROVE  /\ \A k \in ClientID : \/ Stands(byClientID[k], byClientID'[k])
                                \/ \E i \in SourceIP : Lifted(k, i)
         /\ \A i \in SourceIP : \/ Stands(bySourceIP[i], bySourceIP'[i])
                                \/ \E k \in ClientID : Lifted(k, i)
<1> DEFINE G == /\ \A k \in ClientID : \/ Stands(byClientID[k], byClientID'[k])
                                       \/ \E i \in SourceIP : Lifted(k, i)
                /\ \A i \in SourceIP : \/ Stands(bySourceIP[i], bySourceIP'[i])
                                       \/ \E k \in ClientID : Lifted(k, i)
<1>1. \A e \in MaybeEntry : Stands(e, e)
  BY EntryFields DEF Stands, Blocked
<1>2. ASSUME UNCHANGED limiterVars PROVE G
  BY <1>1, <1>2, LimiterTypes DEF limiterVars
<1>3. ASSUME NEW r \in Req, NEW k \in ClientID, NEW i \in SourceIP,
             NEW v \in 0..newest[k], Admit(r, k, i, v)
      PROVE  G
  BY <1>3, SweepDrops DEF Admit
<1>4. ASSUME NEW r \in Req, GetClient(r) \/ Rehash(r) PROVE G
  BY <1>2, <1>4 DEF GetClient, Rehash
<1>5. ASSUME NEW r \in Req, GrantFails(r) PROVE G
  <2> DEFINE k == req[r].id
             i == req[r].ip
  <2>1. req[r] \in Attempt /\ req[r].pc = "denied" /\ RecordFailure(k, i)
    BY <1>5 DEF GrantFails, TypeOK, Attempt
  <2>2. k \in ClientID /\ i \in SourceIP
    BY <2>1, AttemptFields
  <2> HIDE DEF k, i
  <2>3. \A e \in MaybeEntry, f \in Entry :
          \A p : Paced(e, p, now) /\ f.until = now + Backoff(Failures(e) + 1) => Stands(e, f)
    BY LimiterTypes, FailureExtends
  <2>4. ASSUME NEW j \in ClientID PROVE Stands(byClientID[j], byClientID'[j])
    <3>1. byClientID[j] \in MaybeEntry /\ Paced(byClientID[j], PendingAt(j), now)
      BY LimiterTypes DEF AllPaced
    <3>2. CASE j = k
      BY <2>1, <2>2, <2>3, <3>1, <3>2, FailureEntries
    <3>3. CASE j # k
      BY <1>1, <2>1, <2>2, <3>1, <3>3, FailureEntries
    <3> QED BY <3>2, <3>3
  <2>5. ASSUME NEW j \in SourceIP PROVE Stands(bySourceIP[j], bySourceIP'[j])
    <3>1. bySourceIP[j] \in MaybeEntry /\ Paced(bySourceIP[j], PendingFrom(j), now)
      BY LimiterTypes DEF AllPaced
    <3>2. CASE j = i
      BY <2>1, <2>2, <2>3, <3>1, <3>2, FailureEntries
    <3>3. CASE j # i
      BY <1>1, <2>1, <2>2, <3>1, <3>3, FailureEntries
    <3> QED BY <3>2, <3>3
  <2> QED BY <2>4, <2>5
<1>6. ASSUME NEW r \in Req, GrantSucceeds(r) PROVE G
  <2> DEFINE k == req[r].id
             i == req[r].ip
  <2>1. req[r] \in Attempt /\ req[r].pc = "granted" /\ RecordSuccess(k, i)
    BY <1>6 DEF GrantSucceeds, TypeOK, Attempt
  <2>2. k \in ClientID /\ i \in SourceIP
    BY <2>1, AttemptFields
  <2>3. req'[r].pc # "granted"
    BY <1>6 DEF GrantSucceeds, TypeOK, Idle
  <2>4. Lifted(k, i)
    BY <2>1, <2>3 DEF Lifted
  <2> HIDE DEF k, i
  <2>5. /\ \A j \in ClientID : j # k => byClientID'[j] = byClientID[j]
        /\ \A j \in SourceIP : j # i => bySourceIP'[j] = bySourceIP[j]
    BY <2>1 DEF RecordSuccess, TypeOK, LimiterTypeOK
  <2> QED BY <1>1, <2>2, <2>4, <2>5, LimiterTypes
<1>7. ASSUME NEW k \in ClientID, Rotate(k) \/ Revoke(k) PROVE G
  BY <1>2, <1>7 DEF Rotate, Revoke
<1>8. ASSUME Tick PROVE G
  BY <1>2, <1>8 DEF Tick
<1> HIDE DEF G
<1>9. G
  BY <1>3, <1>4, <1>5, <1>6, <1>7, <1>8 DEF Next
<1> QED BY <1>9 DEF G

\* If there were more failures than rounds, the blocks of one round more would have
\* been waited out in the time since the first of them.
LEMMA PacedBounds ==
  ASSUME NEW e \in MaybeEntry, NEW p \in SUBSET Req, now \in 0..MaxTime, Paced(e, p, now)
  PROVE  Failures(e) <= Cardinality(Req) *
                          (IF e = NoEntry THEN 0 ELSE Rounds(now - e.first))
<1> DEFINE N == Cardinality(Req)
<1>1. N \in Nat
  BY Constants, FS_CardinalityType
<1>2. CASE e = NoEntry
  BY <1>1, <1>2 DEF Failures
<1>3. CASE e # NoEntry
  <2> DEFINE t == now - e.first
             S == {n \in 0..MaxTime + 1 : Waited[n] <= t}
             R == Rounds(t)
  <2> SUFFICES ASSUME ~(e.failures <= N * R) PROVE FALSE
    BY <1>3 DEF Failures
  <2>1. e.failures \in Nat \ {0} /\ e.first \in Nat /\ LastFailure(e) \in Int
        /\ LastFailure(e) <= now /\ now \in Nat /\ now <= MaxTime
    BY <1>3, EntryFields, Constants DEF Paced
  <2>2. t \in Int /\ t <= MaxTime
    BY <2>1, Constants
  <2>3. IsFiniteSet(0..MaxTime + 1)
    BY FS_Interval, Constants
  <2>4. IsFiniteSet(S) /\ R = Cardinality(S) /\ R \in Nat
    <3>1. S \in SUBSET (0..MaxTime + 1)
      OBVIOUS
    <3> HIDE DEF t
    <3> QED BY <2>3, <3>1, FS_Subset, FS_CardinalityType DEF Rounds
  <2> HIDE DEF R
  <2>5. ASSUME NEW n \in Nat, n <= R PROVE Waited[n] <= t
    <3>1. N * n <= N * R /\ N * n \in Nat /\ N * R \in Nat
      <4>1. \A a, b, c \in Nat : b <= c => a * b <= a * c /\ a * b \in Nat /\ a * c \in Nat
        OBVIOUS
      <4> QED BY <1>1, <2>4, <2>5, <4>1
    <3>2. e.failures > N * n
      BY <2>1, <3>1
    <3>3. LastFailure(e) - e.first >= Waited[n] /\ Waited[n] \in Nat
      BY <1>3, <3>2, WaitedType DEF Paced
    <3> QED BY <2>1, <3>3
  <2> HIDE DEF t
  <2>6. R <= MaxTime
    <3> SUFFICES ASSUME R >= MaxTime + 1 PROVE FALSE
      BY <2>4, Constants
    <3>1. MaxTime + 1 \in Nat /\ MaxTime \in Nat
      BY Constants
    <3>2. Waited[MaxTime + 1] <= t /\ Waited[MaxTime + 1] \in Nat
          /\ Waited[MaxTime + 1] >= MaxTime + 1
      BY <2>5, <3>1, WaitedType
    <3> QED BY <2>2, <3>1, <3>2
  <2>7. 0..R \in SUBSET S
    BY <2>4, <2>5, <2>6, Constants
  <2>8. Cardinality(0..R) <= R
    <3> HIDE DEF S
    <3> QED BY <2>4, <2>7, FS_Subset
  <2>9. Cardinality(0..R) = R + 1
    BY <2>4, FS_Interval
  <2> QED BY <2>4, <2>8, <2>9
<1> QED BY <1>2, <1>3

\* Between an attempt's admission and its outcome others may be admitted and fail, but
\* not without the rounds before them having been waited out.
LEMMA PacedInvariant == Spec => [](IInv /\ AllPaced)
<1>1. Init => IInv /\ AllPaced
  BY InitInvariant, InitPaced
<1>2. IInv /\ AllPaced /\ [Next]_vars => (IInv /\ AllPaced)'
  BY StepInvariant, StepPaced
<1> QED BY <1>1, <1>2, PTL DEF Spec

\* grantlimiter.go, advance and sweepLocked: a block stands until its end unless a grant
\* succeeds on its key, for any durations and whatever the shift wraps to.
THEOREM BlocksStandHolds == Spec => BlocksStand
<1>1. IInv /\ AllPaced /\ [Next]_vars =>
        [/\ \A k \in ClientID : \/ Stands(byClientID[k], byClientID'[k])
                                \/ \E i \in SourceIP : Lifted(k, i)
         /\ \A i \in SourceIP : \/ Stands(bySourceIP[i], bySourceIP'[i])
                                \/ \E k \in ClientID : Lifted(k, i)]_vars
  BY StepStands DEF IInv
<1> QED BY <1>1, PacedInvariant, PTL DEF Spec, BlocksStand

\* Allow and RecordFailure being apart lets at most one failure per goroutine into each
\* round of the backoff, for any number of goroutines, clients and source IPs.
THEOREM GuessBoundHolds == Spec => []GuessBound
<1>1. IInv /\ AllPaced => GuessBound
  <2> SUFFICES ASSUME TypeOK, AllPaced PROVE GuessBound
    BY DEF IInv
  <2>1. now \in 0..MaxTime
    BY DEF TypeOK
  <2> QED BY <2>1, LimiterTypes, PacedBounds DEF AllPaced, GuessBound
<1> QED BY <1>1, PacedInvariant, PTL

==============================================================================
