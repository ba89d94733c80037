---------------------------- MODULE GrantLimiter ----------------------------
(***************************************************************************)
(* InProcessGrantLimiter (internal/api/grantlimiter.go): backoff after     *)
(* failed grants, kept per client_id and per source IP, and the alert on a *)
(* sustained run of failures against one client_id.                        *)
(*                                                                         *)
(* Allow, RecordFailure and RecordSuccess each run under the limiter's     *)
(* mutex, so each is one atomic action; the credential check of an attempt *)
(* runs between them without it.                                           *)
(***************************************************************************)
EXTENDS Integers, FiniteSets, PowersOfTwo

CONSTANTS
  ClientID, SourceIP,
  BaseBackoff, MaxBackoff,  \* in ticks
  AlertThreshold,
  SweepInterval,            \* grantSweepInterval
  EntryTTL,                 \* grantEntryTTL
  Width,                    \* bits of a time.Duration
  NoEntry                   \* no entry in the map

\* The last conjunct is what makes the overflow guard of advance sufficient: a
\* wrapped positive product is a multiple of a power of two above MaxBackoff.  It
\* holds for 1 s and 5 min in nanoseconds of 64 bits.
ASSUME GrantAssumption ==
  /\ {BaseBackoff, MaxBackoff, AlertThreshold, SweepInterval, EntryTTL, Width}
       \subseteq Nat \ {0}
  /\ BaseBackoff <= MaxBackoff
  /\ \E v \in 0..Width :
       /\ BaseBackoff % Pow2[v] = 0
       /\ (BaseBackoff \div Pow2[v]) * MaxBackoff <= Pow2[Width - 1]

VARIABLES
  now,          \* the clock l.now() reads
  byClientID,
  bySourceIP,
  limiterSweep, \* l.lastSweep
  alerts        \* history: alerts for a client_id since its entry was made

limiterVars == <<byClientID, bySourceIP, limiterSweep, alerts>>

\* grantBackoffState; first is history: when the entry was made.
Entry == [failures : Nat \ {0}, until : Nat, alerted : BOOLEAN, first : Nat]

ASSUME NoEntryAssumption == NoEntry \notin Entry

LimiterTypeOK ==
  /\ byClientID \in [ClientID -> Entry \cup {NoEntry}]
  /\ bySourceIP \in [SourceIP -> Entry \cup {NoEntry}]
  /\ limiterSweep \in Int
  /\ alerts \in [ClientID -> Nat]

LimiterInit ==
  /\ byClientID = [k \in ClientID |-> NoEntry]
  /\ bySourceIP = [i \in SourceIP |-> NoEntry]
  /\ limiterSweep = -SweepInterval
  /\ alerts = [k \in ClientID |-> 0]

-----------------------------------------------------------------------------
\* Allow: sweep at most once per SweepInterval, then ask both keys.

Blocked(e) == e # NoEntry /\ now < e.until

LimiterSweepDue == now - limiterSweep >= SweepInterval

\* Regression: an entry is dropped by its age, though it may still block.
SweptMap_ByAge(m) ==
  [k \in DOMAIN m |-> IF m[k] # NoEntry /\ now - m[k].first >= EntryTTL
                      THEN NoEntry ELSE m[k]]

SweptMap(m) ==
  [k \in DOMAIN m |-> IF m[k] # NoEntry /\ now - m[k].until >= EntryTTL
                      THEN NoEntry ELSE m[k]]

Sweep ==
  IF LimiterSweepDue
  THEN /\ byClientID' = SweptMap(byClientID)
       /\ bySourceIP' = SweptMap(bySourceIP)
       /\ limiterSweep' = now
       /\ UNCHANGED alerts
  ELSE UNCHANGED limiterVars

\* Regression: only the source IP is asked.
Allowed_IPOnly(k, i) == ~Blocked(bySourceIP[i])

\* No entry the sweep drops still blocks, so the answer is the same before it.
Allowed(k, i) == ~Blocked(byClientID[k]) /\ ~Blocked(bySourceIP[i])

-----------------------------------------------------------------------------
\* RecordFailure: advance both keys.

\* baseBackoff << n in two's complement.
Shifted(n) ==
  LET x == (BaseBackoff * Pow2[n]) % Pow2[Width]
  IN  IF x >= Pow2[Width - 1] THEN x - Pow2[Width] ELSE x

\* Regression: no guard against the wrap to zero or below.
Backoff_Wrapping(n) ==
  LET b == Shifted(n - 1) IN IF b > MaxBackoff THEN MaxBackoff ELSE b

Backoff(n) ==
  LET b == Shifted(n - 1) IN IF b > MaxBackoff \/ b <= 0 THEN MaxBackoff ELSE b

Failures(e) == IF e = NoEntry THEN 0 ELSE e.failures

Advanced(e) ==
  [failures |-> Failures(e) + 1,
   until    |-> now + Backoff(Failures(e) + 1),
   alerted  |-> e # NoEntry /\ e.alerted,
   first    |-> IF e = NoEntry THEN now ELSE e.first]

\* Regression: every failure past the threshold alerts.
Crosses_EveryTime(e) == e.failures >= AlertThreshold

Crosses(e) == e.failures >= AlertThreshold /\ ~e.alerted

RecordFailure(k, i) ==
  LET cs == Advanced(byClientID[k])
      before == IF byClientID[k] = NoEntry THEN 0 ELSE alerts[k]
  IN  /\ byClientID' = [byClientID EXCEPT ![k] =
                          [cs EXCEPT !.alerted = @ \/ Crosses(cs)]]
      /\ alerts' = [alerts EXCEPT ![k] = before + (IF Crosses(cs) THEN 1 ELSE 0)]
      /\ bySourceIP' = [bySourceIP EXCEPT ![i] = Advanced(@)]
      /\ UNCHANGED limiterSweep

RecordSuccess(k, i) ==
  /\ byClientID' = [byClientID EXCEPT ![k] = NoEntry]
  /\ bySourceIP' = [bySourceIP EXCEPT ![i] = NoEntry]
  /\ UNCHANGED <<limiterSweep, alerts>>

=============================================================================
