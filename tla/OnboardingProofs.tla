--------------------------- MODULE OnboardingProofs ---------------------------
(***************************************************************************)
(* The token's margin, the budget of failures, who is blamed for a 401 and *)
(* the bound on retries, for every value of the constants.                 *)
(*                                                                         *)
(* No token in use has expired because each stage of a verification leaves *)
(* enough of it for the stages that follow: that is GoodToken.  A failure  *)
(* is counted at most once per flow, and there are two flows.              *)
(***************************************************************************)
EXTENDS Onboarding, TLAPS

\* The time the calls still ahead may take.
Ahead(call) ==
  IF call = "auth" THEN ConnectorCallTimeout + ConnectorCallTimeout
  ELSE ConnectorCallTimeout

\* A token being fetched is as old as its fetch; one in use outlasts the calls ahead.
GoodToken(r) ==
  /\ r.pc = "fetching" =>
       /\ r.tok \in Token
       /\ r.age <= TokenCallTimeout
       /\ r.tok.left + r.age >= Lifetime
  /\ r.pc = "call" =>
       /\ r.tok \in Token
       /\ r.age <= ConnectorCallTimeout
       /\ r.tok.left + r.age > Ahead(r.call)

\* At most one failure per flow was counted.
GoodCount(r) ==
  r.counted \in Nat => r.counted <= (IF r.pc = "done" THEN 2 ELSE r.flow - 1)

\* The cached expiry is at most one fetch later than the token's own.
GoodCache == cached # None => cached.tok.left + TokenCallTimeout >= cached.until

IInv ==
  /\ TypeOK
  /\ GoodCache
  /\ \A v \in Verification : ver[v] # Idle => GoodToken(ver[v]) /\ GoodCount(ver[v])

\* What a step must leave a verification in.
Sound(r) == r = Idle \/ (r \in Active /\ GoodToken(r) /\ GoodCount(r))

-----------------------------------------------------------------------------
LEMMA Constants ==
  /\ {Lifetime, RefreshMargin, TokenCallTimeout, ConnectorCallTimeout} \subseteq Nat \ {0}
  /\ ConnectorMaxRetries \in Nat /\ MaxRevocations \in Nat
  /\ RefreshMargin >= TokenCallTimeout + ConnectorCallTimeout + ConnectorCallTimeout
  /\ Lifetime > RefreshMargin
  /\ None \notin Nat
BY OnboardingAssumption

LEMMA TokenIsSome == None \notin Token /\ None # Rejected
BY NoneAssumption

\* A verification that has not returned is sound.
LEMMA VerSound ==
  ASSUME IInv, NEW v \in Verification, ver[v].pc # "idle"
  PROVE  ver[v] # Idle /\ ver[v] \in Active /\ Sound(ver[v])
BY DEF IInv, TypeOK, Idle, Sound

\* One verification moves on to a sound state, with the cache as good as before.
LEMMA MoveOn ==
  ASSUME IInv, NEW v \in Verification, NEW q, Sound(q),
         ver' = [ver EXCEPT ![v] = q],
         cached' \in [tok : Token, until : 0..Lifetime] \cup {None},
         GoodCache',
         revocations' \in 0..MaxRevocations, blocked' \in BOOLEAN
  PROVE  IInv'
<1>1. \A w \in Verification : ver'[w] = IF w = v THEN q ELSE ver[w]
  BY DEF IInv, TypeOK
<1>2. ver' \in [Verification -> {Idle} \cup Active]
  BY DEF IInv, TypeOK, Sound
<1>3. TypeOK'
  BY <1>2 DEF TypeOK
<1>4. \A w \in Verification : ver'[w] # Idle => GoodToken(ver'[w]) /\ GoodCount(ver'[w])
  BY <1>1 DEF IInv, Sound
<1> QED BY <1>3, <1>4 DEF IInv

-----------------------------------------------------------------------------
\* The helpers, as functions of a verification's record.

\* An answer is given with what was counted.
LEMMA EndedSound ==
  ASSUME NEW r \in Active, NEW result \in {"ok", Rejected, Unavailable},
         r.counted \in Nat => r.counted <= 2
  PROVE  Sound(Ended(r, result))
<1>1. Ended(r, result) \in Active
  BY Constants DEF Ended, Active
<1>2. GoodToken(Ended(r, result)) /\ GoodCount(Ended(r, result))
  BY DEF Ended, GoodToken, GoodCount
<1> QED BY <1>1, <1>2 DEF Sound

LEMMA StageActive ==
  ASSUME NEW r \in Active, NEW pc \in {"token", "fetching", "call", "done"},
         NEW flow \in 1..2, NEW tok \in Token \cup {None}, NEW call \in {"auth", "identity"}
  PROVE  Stage(r, pc, flow, tok, call) \in Active
BY Constants DEF Stage, Active

\* A call begins with the time it may take, and more, left on the token.
LEMMA CallingSound ==
  ASSUME NEW r \in Active, NEW tok \in Token, NEW call \in {"auth", "identity"},
         tok.left > Ahead(call), r.pc # "done", GoodCount(r)
  PROVE  Sound(Calling(r, tok, call))
<1> DEFINE q == Calling(r, tok, call)
<1>1. q \in Active
  BY StageActive DEF Calling, Active
<1>2. /\ q.pc = "call" /\ q.call = call /\ q.age = 0
      /\ q.tok = tok /\ q.flow = r.flow /\ q.counted = r.counted
  BY DEF Calling, Stage
<1> HIDE DEF q
<1>3. tok.left \in Nat
  BY DEF Token
<1>4. GoodToken(q)
  BY <1>2, <1>3, Constants DEF GoodToken
<1>5. GoodCount(q)
  BY <1>2 DEF GoodCount
<1> QED BY <1>1, <1>4, <1>5 DEF Sound, q

\* A repeated attempt is still the same call.
LEMMA FailedSound ==
  ASSUME NEW r \in Active, r.pc = "call", GoodToken(r), GoodCount(r)
  PROVE  Sound(Failed(r))
<1>1. r.counted \in Nat => r.counted <= 2
  BY DEF GoodCount, Active
<1>2. CASE r.attempt < ConnectorMaxRetries
  <2> DEFINE q == [r EXCEPT !.attempt = r.attempt + 1]
  <2>1. Failed(r) = q
    BY <1>2 DEF Failed
  <2>2. r.attempt + 1 \in 0..ConnectorMaxRetries
    BY <1>2, Constants DEF Active
  <2>3. /\ q \in Active
        /\ q.pc = "call" /\ q.call = r.call /\ q.age = r.age
        /\ q.tok = r.tok /\ q.flow = r.flow /\ q.counted = r.counted
    BY <2>2 DEF Active
  <2> HIDE DEF q
  <2>4. GoodToken(q)
    BY <2>3 DEF GoodToken
  <2>5. GoodCount(q)
    BY <2>3 DEF GoodCount
  <2> QED BY <2>1, <2>3, <2>4, <2>5 DEF Sound
<1>3. CASE ~(r.attempt < ConnectorMaxRetries)
  <2>1. Failed(r) = Ended(r, Unavailable)
    BY <1>3 DEF Failed
  <2> QED BY <1>1, <2>1, EndedSound
<1> QED BY <1>2, <1>3

\* After a rejection of the first flow there is room for one failure more.
LEMMA AfterRejectionSound ==
  ASSUME NEW r \in Active, r.pc = "call", r.counted \in Nat => r.counted <= r.flow
  PROVE  Sound(AfterRejection(r))
<1>1. r.flow \in 1..2
  BY DEF Active
<1>2. CASE Repeats(r)
  <2> DEFINE q == Stage(r, "token", 2, None, "auth")
  <2>1. AfterRejection(r) = q
    BY <1>2 DEF AfterRejection
  <2>2. q \in Active
    BY StageActive
  <2>4. q.pc = "token" /\ q.flow = 2 /\ q.counted = r.counted
    BY DEF Stage
  <2> HIDE DEF q
  <2>3. r.flow = 1
    BY <1>2 DEF Repeats
  <2>5. GoodToken(q) /\ GoodCount(q)
    BY <2>3, <2>4 DEF GoodToken, GoodCount
  <2> QED BY <2>1, <2>2, <2>5 DEF Sound
<1>3. CASE ~Repeats(r)
  <2>1. AfterRejection(r) = Ended(r, Rejected)
    BY <1>3 DEF AfterRejection
  <2>2. r.counted \in Nat => r.counted <= 2
    BY <1>1
  <2> QED BY <2>1, <2>2, EndedSound
<1> QED BY <1>2, <1>3

LEMMA SucceededSound ==
  ASSUME NEW r \in Active, r.pc = "call", GoodToken(r), GoodCount(r)
  PROVE  Sound(Succeeded(r))
<1>1. CASE r.call = "auth"
  <2>1. r.tok \in Token /\ r.tok.left \in Nat /\ r.age \in Nat
    BY Constants DEF GoodToken, Token, Active
  <2>2. r.tok.left > Ahead("identity")
    BY <1>1, <2>1, Constants DEF GoodToken, Ahead
  <2>3. Sound(Calling(r, r.tok, "identity"))
    BY <2>1, <2>2, CallingSound
  <2> QED BY <1>1, <2>3 DEF Succeeded
<1>2. CASE r.call # "auth"
  <2>1. r.counted \in Nat => r.counted <= 2
    BY DEF GoodCount, Active
  <2>2. Sound(Ended(r, "ok"))
    BY <2>1, EndedSound
  <2> QED BY <1>2, <2>2 DEF Succeeded
<1> QED BY <1>1, <1>2

\* What was counted is forgotten, or one more.
LEMMA CountedActive ==
  ASSUME NEW r \in Active, NEW n \in (0..3) \cup {None}
  PROVE  LET q == [r EXCEPT !.counted = n]
         IN  /\ q \in Active
             /\ q.pc = r.pc /\ q.flow = r.flow /\ q.counted = n
             /\ q.tok = r.tok /\ q.age = r.age /\ q.call = r.call
BY DEF Active

\* One more good token was refused.
LEMMA UnverifiedActive ==
  ASSUME NEW r \in Active
  PROVE  LET n == IF r.unverified < 2 THEN r.unverified + 1 ELSE r.unverified
             q == [r EXCEPT !.unverified = n]
         IN  /\ n \in 0..2 /\ n >= 1 /\ (r.unverified >= 1 => n >= 2)
             /\ q \in Active /\ q.unverified = n
             /\ q.pc = r.pc /\ q.flow = r.flow /\ q.counted = r.counted
             /\ q.call = r.call /\ q.attempt = r.attempt
<1> DEFINE n == IF r.unverified < 2 THEN r.unverified + 1 ELSE r.unverified
           q == [r EXCEPT !.unverified = n]
<1>1. n \in 0..2 /\ n >= 1 /\ (r.unverified >= 1 => n >= 2)
  BY DEF Active
<1> HIDE DEF n
<1>2. /\ q \in Active /\ q.unverified = n
      /\ q.pc = r.pc /\ q.flow = r.flow /\ q.counted = r.counted
      /\ q.call = r.call /\ q.attempt = r.attempt
  BY <1>1 DEF Active
<1> QED BY <1>1, <1>2 DEF n

\* What the middleware's 401 does to a verification: the same, but for the history.
LEMMA RefusedOutcome ==
  ASSUME NEW v \in Verification, OwnTokenRefused(v), ver[v] \in Active
  PROVE  \E p \in Active :
           /\ Reject(v, p)
           /\ p.pc = "call" /\ p.flow = ver[v].flow /\ p.counted = ver[v].counted
           /\ p.call = ver[v].call /\ p.attempt = ver[v].attempt
           /\ Accepted(ver[v].tok) =>
                p.unverified >= 1 /\ (ver[v].unverified >= 1 => p.unverified >= 2)
<1> DEFINE r == ver[v]
           n == IF r.unverified < 2 THEN r.unverified + 1 ELSE r.unverified
           q == [r EXCEPT !.unverified = n]
<1>1. r.pc = "call" /\ Reject(v, IF Accepted(r.tok) THEN q ELSE r)
  BY DEF OwnTokenRefused
<1>2. /\ n >= 1 /\ (r.unverified >= 1 => n >= 2)
      /\ q \in Active /\ q.unverified = n
      /\ q.pc = r.pc /\ q.flow = r.flow /\ q.counted = r.counted
      /\ q.call = r.call /\ q.attempt = r.attempt
  BY UnverifiedActive
<1> HIDE DEF q
<1>3. CASE Accepted(r.tok)
  BY <1>1, <1>2, <1>3
<1>4. CASE ~Accepted(r.tok)
  BY <1>1, <1>4
<1> QED BY <1>3, <1>4

LEMMA ForgottenSound ==
  ASSUME NEW r \in Active, GoodToken(r)
  PROVE  LET q == [r EXCEPT !.counted = None]
         IN  q \in Active /\ q.pc = r.pc /\ GoodToken(q) /\ GoodCount(q)
<1> DEFINE q == [r EXCEPT !.counted = None]
<1>1. /\ q \in Active
      /\ q.pc = r.pc /\ q.counted = None
      /\ q.tok = r.tok /\ q.age = r.age /\ q.call = r.call
  BY CountedActive
<1> HIDE DEF q
<1>2. GoodToken(q) /\ GoodCount(q)
  BY <1>1, Constants DEF GoodToken, GoodCount
<1> QED BY <1>1, <1>2 DEF q

-----------------------------------------------------------------------------
\* The steps of a verification.

LEMMA VerifyIdentityStep ==
  ASSUME IInv, NEW v \in Verification, VerifyIdentity(v)
  PROVE  IInv'
<1> DEFINE q == [pc |-> "token", flow |-> 1, tok |-> None, call |-> "auth", attempt |-> 0,
                 age |-> 0, counted |-> 0, unverified |-> 0, result |-> None]
<1>1. q \in Active
  BY Constants DEF Active
<1>2. GoodToken(q) /\ GoodCount(q)
  BY DEF GoodToken, GoodCount
<1>3. ver' = [ver EXCEPT ![v] = q]
  BY DEF VerifyIdentity
<1> HIDE DEF q
<1>4. Sound(q)
  BY <1>1, <1>2 DEF Sound
<1> QED BY <1>3, <1>4, MoveOn DEF VerifyIdentity, IInv, TypeOK, GoodCache

LEMMA CachedTokenStep ==
  ASSUME IInv, NEW v \in Verification, CachedToken(v)
  PROVE  IInv'
<1>1. ver[v].pc = "token" /\ Usable(cached)
  BY DEF CachedToken
<1>2. ver[v] # Idle /\ ver[v] \in Active /\ Sound(ver[v])
  BY <1>1, VerSound
<1>3. /\ cached \in [tok : Token, until : 0..Lifetime]
      /\ cached.until > RefreshMargin
      /\ cached.tok.left + TokenCallTimeout >= cached.until
  BY <1>1 DEF Usable, IInv, TypeOK, GoodCache
<1>4. cached.tok \in Token /\ cached.tok.left \in Nat /\ cached.until \in Nat
  BY <1>3, Constants DEF Token
<1>5. cached.tok.left > Ahead("auth")
  BY <1>3, <1>4, Constants DEF Ahead
<1>6. Sound(Calling(ver[v], cached.tok, "auth"))
  BY <1>1, <1>2, <1>4, <1>5, CallingSound DEF Sound
<1>7. ver' = [ver EXCEPT ![v] = Calling(ver[v], cached.tok, "auth")]
  BY DEF CachedToken
<1> QED BY <1>6, <1>7, MoveOn DEF CachedToken, IInv, TypeOK, GoodCache

LEMMA FetchStep ==
  ASSUME IInv, NEW v \in Verification, Fetch(v)
  PROVE  IInv'
<1> DEFINE tok == [left |-> Lifetime, good |-> TRUE]
           q == Stage(ver[v], "fetching", ver[v].flow, tok, "auth")
<1>1. ver[v].pc = "token"
  BY DEF Fetch
<1>2. ver[v] # Idle /\ ver[v] \in Active /\ Sound(ver[v])
  BY <1>1, VerSound
<1>3. tok \in Token /\ tok.left = Lifetime
  BY Constants DEF Token
<1>4. ver' = [ver EXCEPT ![v] = q]
  BY DEF Fetch
<1> HIDE DEF tok
<1>5. ver[v].flow \in 1..2
  BY <1>2 DEF Active
<1>6. q \in Active
  BY <1>2, <1>3, <1>5, StageActive
<1>7. /\ q.pc = "fetching" /\ q.tok = tok /\ q.age = 0
      /\ q.flow = ver[v].flow /\ q.counted = ver[v].counted
  BY DEF Stage
<1> HIDE DEF q
<1>8. GoodToken(q)
  BY <1>3, <1>7, Constants DEF GoodToken
<1>9. GoodCount(q)
  BY <1>1, <1>2, <1>7 DEF Sound, GoodCount
<1>10. Sound(q)
  BY <1>6, <1>8, <1>9 DEF Sound
<1> QED BY <1>4, <1>10, MoveOn DEF Fetch, IInv, TypeOK, GoodCache

\* The expiry is counted from the arrival: at most one fetch too late.
LEMMA FetchedStep ==
  ASSUME IInv, NEW v \in Verification, Fetched(v)
  PROVE  IInv'
<1>1. ver[v].pc = "fetching"
  BY DEF Fetched
<1>2. ver[v] # Idle /\ ver[v] \in Active /\ Sound(ver[v])
  BY <1>1, VerSound
<1> DEFINE tok == ver[v].tok
<1>3. /\ tok \in Token /\ ver[v].age <= TokenCallTimeout
      /\ tok.left + ver[v].age >= Lifetime
  BY <1>1, <1>2 DEF Sound, GoodToken
<1>4. tok.left \in Nat /\ ver[v].age \in Nat
  BY <1>2, <1>3, Constants DEF Token, Active
<1>5. tok.left > Ahead("auth")
  BY <1>3, <1>4, Constants DEF Ahead
<1>6. Sound(Calling(ver[v], tok, "auth"))
  BY <1>1, <1>2, <1>3, <1>5, CallingSound DEF Sound
<1>7. ver' = [ver EXCEPT ![v] = Calling(ver[v], tok, "auth")]
  BY DEF Fetched
<1>8. cached' = [tok |-> tok, until |-> Lifetime]
  BY DEF Fetched
<1>9. cached' \in [tok : Token, until : 0..Lifetime]
  BY <1>3, <1>8, Constants
<1>10. GoodCache'
  BY <1>3, <1>4, <1>8, Constants DEF GoodCache
<1> QED BY <1>6, <1>7, <1>9, <1>10, MoveOn DEF Fetched, IInv, TypeOK

\* A verification ends without an answer to its call.
LEMMA UnansweredEnd ==
  ASSUME IInv, NEW v \in Verification, ver[v].pc \in {"fetching", "call"},
         ver' = [ver EXCEPT ![v] = Ended([ver[v] EXCEPT !.counted = None], Unavailable)],
         UNCHANGED <<cached, revocations, blocked>>
  PROVE  IInv'
<1> DEFINE q == [ver[v] EXCEPT !.counted = None]
<1>1. ver[v] \in Active
  BY VerSound
<1>2. q \in Active /\ q.counted = None
  BY <1>1, CountedActive
<1> HIDE DEF q
<1>3. Sound(Ended(q, Unavailable))
  BY <1>2, EndedSound, Constants
<1>4. ver' = [ver EXCEPT ![v] = Ended(q, Unavailable)]
  BY DEF q
<1> QED BY <1>3, <1>4, MoveOn DEF IInv, TypeOK, GoodCache

\* Or it goes on after an answer that was lost.
LEMMA LostStep ==
  ASSUME IInv, NEW v \in Verification, NEW r \in Active, r.pc = "call", GoodToken(r),
         Lost(v, r), revocations' = revocations, blocked' \in BOOLEAN
  PROVE  IInv'
<1> DEFINE q == [r EXCEPT !.counted = None]
<1>1. q \in Active /\ q.pc = "call" /\ GoodToken(q) /\ GoodCount(q)
  BY ForgottenSound
<1> HIDE DEF q
<1>2. Sound(Failed(q))
  BY <1>1, FailedSound
<1>3. ver' = [ver EXCEPT ![v] = Failed(q)] /\ cached' = cached
  BY DEF Lost, q
<1> QED BY <1>2, <1>3, MoveOn DEF IInv, TypeOK, GoodCache

\* A rejection of a first flow also empties the cache.
LEMMA RejectStep ==
  ASSUME IInv, NEW v \in Verification, NEW r \in Active, r.pc = "call",
         r.counted \in Nat => r.counted <= r.flow,
         Reject(v, r), revocations' = revocations, blocked' \in BOOLEAN
  PROVE  IInv'
<1>1. Sound(AfterRejection(r))
  BY AfterRejectionSound
<1>2. ver' = [ver EXCEPT ![v] = AfterRejection(r)] /\ cached' \in {cached, None}
  BY DEF Reject
<1>3. GoodCache'
  BY <1>2 DEF IInv, GoodCache
<1> QED BY <1>1, <1>2, <1>3, MoveOn DEF IInv, TypeOK

LEMMA OwnTokenRefusedStep ==
  ASSUME IInv, NEW v \in Verification, OwnTokenRefused(v)
  PROVE  IInv'
<1>1. ver[v].pc = "call"
  BY DEF OwnTokenRefused
<1>2. ver[v] # Idle /\ ver[v] \in Active /\ Sound(ver[v])
  BY <1>1, VerSound
<1>3. ver[v].counted \in Nat => ver[v].counted <= ver[v].flow
  BY <1>1, <1>2 DEF Sound, GoodCount, Active
<1>4. revocations' = revocations /\ blocked' \in BOOLEAN
  BY DEF OwnTokenRefused, IInv, TypeOK
<1>5. PICK p \in Active : /\ Reject(v, p) /\ p.pc = "call"
                          /\ p.flow = ver[v].flow /\ p.counted = ver[v].counted
  BY <1>2, RefusedOutcome
<1> QED BY <1>3, <1>4, <1>5, RejectStep

LEMMA UnreachableStep ==
  ASSUME IInv, NEW v \in Verification, Unreachable(v)
  PROVE  IInv'
<1>1. ver[v].pc = "call"
  BY DEF Unreachable
<1>2. ver[v] # Idle /\ ver[v] \in Active /\ Sound(ver[v])
  BY <1>1, VerSound
<1>3. GoodToken(ver[v])
  BY <1>2 DEF Sound
<1>4. revocations' = revocations /\ blocked' \in BOOLEAN /\ Lost(v, ver[v])
  BY DEF Unreachable, IInv, TypeOK
<1> QED BY <1>1, <1>2, <1>3, <1>4, LostStep

LEMMA SlowDownStep ==
  ASSUME IInv, NEW v \in Verification, SlowDown(v)
  PROVE  IInv'
<1>1. ver[v].pc = "call"
  BY DEF SlowDown
<1>2. ver[v] # Idle /\ ver[v] \in Active /\ Sound(ver[v])
  BY <1>1, VerSound
<1>3. Sound(Failed(ver[v]))
  BY <1>1, <1>2, FailedSound DEF Sound
<1>4. ver' = [ver EXCEPT ![v] = Failed(ver[v])]
  BY DEF SlowDown
<1> QED BY <1>3, <1>4, MoveOn DEF SlowDown, IInv, TypeOK, GoodCache

\* The one failure this flow may add.
LEMMA VendorRejectsStep ==
  ASSUME IInv, NEW v \in Verification, VendorRejects(v)
  PROVE  IInv'
<1> DEFINE n == ver[v].counted
           m == IF n \in 0..2 THEN n + 1 ELSE n
           r == [ver[v] EXCEPT !.counted = m]
<1>1. ver[v].pc = "call"
  BY DEF VendorRejects
<1>2. ver[v] # Idle /\ ver[v] \in Active /\ GoodToken(ver[v]) /\ GoodCount(ver[v])
  BY <1>1, VerSound DEF Sound
<1>3. n \in (0..3) \cup {None} /\ ver[v].flow \in 1..2
  BY <1>2 DEF Active
<1>4. m \in (0..3) \cup {None}
  BY <1>3, Constants
<1>5. m \in Nat => m <= ver[v].flow
  BY <1>1, <1>2, <1>3, Constants DEF GoodCount
<1>6. revocations' = revocations /\ blocked' \in BOOLEAN /\ (Reject(v, r) \/ Lost(v, r))
  BY DEF VendorRejects, IInv, TypeOK
<1> HIDE DEF m
<1>7. /\ r \in Active
      /\ r.pc = "call" /\ r.flow = ver[v].flow /\ r.counted = m
      /\ r.tok = ver[v].tok /\ r.age = ver[v].age /\ r.call = ver[v].call
  BY <1>1, <1>2, <1>4, CountedActive
<1> HIDE DEF r
<1>8. GoodToken(r)
  BY <1>1, <1>2, <1>7 DEF GoodToken
<1>9. r.counted \in Nat => r.counted <= r.flow
  BY <1>5, <1>7
<1>10. CASE Reject(v, r)
  BY <1>6, <1>7, <1>9, <1>10, RejectStep
<1>11. CASE Lost(v, r)
  BY <1>6, <1>7, <1>8, <1>11, LostStep
<1> QED BY <1>6, <1>10, <1>11

LEMMA VendorAcceptsStep ==
  ASSUME IInv, NEW v \in Verification, VendorAccepts(v)
  PROVE  IInv'
<1>1. ver[v].pc = "call"
  BY DEF VendorAccepts
<1>2. ver[v] # Idle /\ ver[v] \in Active /\ GoodToken(ver[v]) /\ GoodCount(ver[v])
  BY <1>1, VerSound DEF Sound
<1>3. revocations' = revocations /\ blocked' \in BOOLEAN
  BY DEF VendorAccepts, IInv, TypeOK
<1>4. CASE ver' = [ver EXCEPT ![v] = Succeeded(ver[v])] /\ UNCHANGED cached
  <2>1. Sound(Succeeded(ver[v]))
    BY <1>1, <1>2, SucceededSound
  <2> QED BY <1>3, <1>4, <2>1, MoveOn DEF IInv, TypeOK, GoodCache
<1>5. CASE Lost(v, ver[v])
  BY <1>1, <1>2, <1>3, <1>5, LostStep
<1> QED BY <1>4, <1>5 DEF VendorAccepts

LEMMA ReturnStep ==
  ASSUME IInv, NEW v \in Verification, Return(v)
  PROVE  IInv'
BY MoveOn DEF Return, Sound, IInv, TypeOK, GoodCache

-----------------------------------------------------------------------------
\* The steps of the environment.

\* A revoked token lives as long as before.
LEMMA WithdrawnType ==
  ASSUME NEW tok
  PROVE  /\ tok \in Token \cup {None} => Withdrawn(tok) \in Token \cup {None}
         /\ tok \in Token => Withdrawn(tok) \in Token /\ Withdrawn(tok).left = tok.left
BY DEF Withdrawn, Token

LEMMA RevokeStep ==
  ASSUME IInv, Revoke
  PROVE  IInv'
<1>1. \A v \in Verification : Sound(ver'[v])
  <2> TAKE v \in Verification
  <2>1. CASE ver[v] = Idle
    BY <2>1 DEF Revoke, Sound
  <2>2. CASE ver[v] # Idle
    <3> DEFINE t == Withdrawn(ver[v].tok)
               q == [ver[v] EXCEPT !.tok = t]
    <3>1. ver[v] \in Active /\ GoodToken(ver[v]) /\ GoodCount(ver[v])
      BY <2>2 DEF IInv, TypeOK
    <3>2. /\ t \in Token \cup {None}
          /\ ver[v].tok \in Token => t \in Token /\ t.left = ver[v].tok.left
      BY <3>1, WithdrawnType DEF Active
    <3>3. ver'[v] = q
      BY <2>2 DEF Revoke
    <3> HIDE DEF t
    <3>4. /\ q \in Active
          /\ q.pc = ver[v].pc /\ q.flow = ver[v].flow /\ q.counted = ver[v].counted
          /\ q.tok = t /\ q.age = ver[v].age /\ q.call = ver[v].call
      BY <3>1, <3>2 DEF Active
    <3> HIDE DEF q
    <3>5. GoodToken(q) /\ GoodCount(q)
      BY <3>1, <3>2, <3>4 DEF GoodToken, GoodCount
    <3> QED BY <3>3, <3>4, <3>5 DEF Sound
  <2> QED BY <2>1, <2>2
<1>2. cached' \in [tok : Token, until : 0..Lifetime] \cup {None} /\ GoodCache'
  <2>1. CASE cached = None
    BY <2>1 DEF Revoke, GoodCache
  <2>2. CASE cached # None
    <3> DEFINE t == Withdrawn(cached.tok)
    <3>1. cached \in [tok : Token, until : 0..Lifetime]
      BY <2>2 DEF IInv, TypeOK
    <3>2. t \in Token /\ t.left = cached.tok.left
      BY <3>1, WithdrawnType
    <3>3. cached' = [cached EXCEPT !.tok = t]
      BY <2>2 DEF Revoke
    <3> HIDE DEF t
    <3>4. /\ cached' \in [tok : Token, until : 0..Lifetime]
          /\ cached'.tok = t /\ cached'.until = cached.until
      BY <3>1, <3>2, <3>3
    <3> QED BY <2>2, <3>2, <3>4 DEF IInv, GoodCache
  <2> QED BY <2>1, <2>2
<1>3. ver' \in [Verification -> {Idle} \cup Active]
  BY <1>1 DEF Revoke, Sound
<1>4. revocations' \in 0..MaxRevocations /\ blocked' \in BOOLEAN
  BY Constants DEF Revoke, IInv, TypeOK
<1> QED BY <1>1, <1>2, <1>3, <1>4 DEF IInv, TypeOK, Sound

\* A tick takes one from the token and adds one to the age of the call.
LEMMA OlderType ==
  ASSUME NEW tok
  PROVE  /\ tok \in Token \cup {None} => Older(tok) \in Token \cup {None}
         /\ tok \in Token => Older(tok) \in Token /\ Older(tok).left + 1 >= tok.left
<1>1. CASE tok = None
  BY <1>1, Constants DEF Older, Token
<1>2. CASE tok # None
  <2> DEFINE n == Less(tok.left)
  <2>1. Older(tok) = [tok EXCEPT !.left = n]
    BY <1>2 DEF Older
  <2>2. tok \in Token => n \in 0..Lifetime /\ n + 1 >= tok.left
    BY Constants DEF Token, Less
  <2> HIDE DEF n
  <2> QED BY <1>2, <2>1, <2>2 DEF Token
<1> QED BY <1>1, <1>2

LEMMA TickStep ==
  ASSUME IInv, Tick
  PROVE  IInv'
<1>1. \A v \in Verification : Sound(ver'[v])
  <2> TAKE v \in Verification
  <2>1. CASE ~InCall(v)
    BY <2>1 DEF Tick, IInv, TypeOK, Sound
  <2>2. CASE InCall(v)
    <3> DEFINE r == ver[v]
               t == Older(r.tok)
               q == [r EXCEPT !.tok = t, !.age = r.age + 1]
    <3>1. r.pc \in {"fetching", "call"} /\ r.age < Timeout(r)
      BY <2>2 DEF Tick, InCall
    <3>2. r \in Active /\ GoodToken(r) /\ GoodCount(r)
      BY <3>1, VerSound DEF Sound
    <3>3. /\ t \in Token \cup {None}
          /\ r.tok \in Token => t \in Token /\ t.left + 1 >= r.tok.left
      BY <3>2, OlderType DEF Active
    <3>4. ver'[v] = q
      BY <2>2 DEF Tick
    <3>5. /\ r.age + 1 \in 0..(TokenCallTimeout + ConnectorCallTimeout)
          /\ r.age + 1 <= Timeout(r)
      BY <3>1, <3>2, Constants DEF Active, Timeout
    <3> HIDE DEF t
    <3>6. /\ q \in Active
          /\ q.pc = r.pc /\ q.flow = r.flow /\ q.counted = r.counted
          /\ q.tok = t /\ q.age = r.age + 1 /\ q.call = r.call
      BY <3>2, <3>3, <3>5 DEF Active
    <3> HIDE DEF q
    <3>7. r.tok \in Token /\ r.tok.left \in Nat /\ t.left \in Nat /\ r.age \in Nat
      BY <3>1, <3>2, <3>3, Constants DEF GoodToken, Token, Active
    <3>8. GoodToken(q)
      BY <3>1, <3>2, <3>3, <3>5, <3>6, <3>7, Constants DEF GoodToken, Timeout, Ahead
    <3>9. GoodCount(q)
      BY <3>2, <3>6 DEF GoodCount
    <3> QED BY <3>4, <3>6, <3>8, <3>9 DEF Sound
  <2> QED BY <2>1, <2>2
<1>2. cached' \in [tok : Token, until : 0..Lifetime] \cup {None} /\ GoodCache'
  <2>1. CASE cached = None
    BY <2>1 DEF Tick, GoodCache
  <2>2. CASE cached # None
    <3>1. /\ cached.tok \in Token /\ cached.until \in 0..Lifetime
          /\ cached.tok.left + TokenCallTimeout >= cached.until
      BY <2>2 DEF IInv, TypeOK, GoodCache
    <3>2. Older(cached.tok) \in Token /\ Older(cached.tok).left + 1 >= cached.tok.left
      BY <3>1, OlderType
    <3>3. cached' = [tok |-> Older(cached.tok), until |-> Less(cached.until)]
      BY <2>2 DEF Tick
    <3>4. Less(cached.until) \in 0..Lifetime
      BY <3>1, Constants DEF Less
    <3>5. cached.tok.left \in Nat /\ Older(cached.tok).left \in Nat
      BY <3>1, <3>2, Constants DEF Token
    <3>6. Older(cached.tok).left + TokenCallTimeout >= Less(cached.until)
      BY <3>1, <3>2, <3>5, Constants DEF Less
    <3> QED BY <3>2, <3>3, <3>4, <3>6 DEF GoodCache
  <2> QED BY <2>1, <2>2
<1>3. ver' \in [Verification -> {Idle} \cup Active]
  BY <1>1 DEF Tick, Sound
<1>4. revocations' \in 0..MaxRevocations /\ blocked' \in BOOLEAN
  BY DEF Tick, IInv, TypeOK
<1> QED BY <1>1, <1>2, <1>3, <1>4 DEF IInv, TypeOK, Sound

-----------------------------------------------------------------------------
\* The invariant.

LEMMA InitInvariant == Init => IInv
<1> SUFFICES ASSUME Init PROVE IInv
  OBVIOUS
<1>1. \A v \in Verification : ver[v] = Idle
  BY DEF Init
<1>2. TypeOK
  <2>1. ver \in [Verification -> {Idle} \cup Active]
    BY DEF Init
  <2>2. revocations \in 0..MaxRevocations
    BY Constants DEF Init
  <2> QED BY <2>1, <2>2 DEF Init, TypeOK
<1>3. GoodCache
  BY DEF Init, GoodCache
<1> QED BY <1>1, <1>2, <1>3 DEF IInv

LEMMA StepInvariant == IInv /\ [Next]_vars => IInv'
<1> SUFFICES ASSUME IInv, [Next]_vars PROVE IInv'
  OBVIOUS
<1>1. ASSUME NEW v \in Verification, VerifyIdentity(v)
      PROVE  IInv'
  BY <1>1, VerifyIdentityStep
<1>2. ASSUME NEW v \in Verification, Step(v) PROVE IInv'
  <2>1. CASE CachedToken(v)
    BY <2>1, CachedTokenStep
  <2>2. CASE Fetch(v)
    BY <2>2, FetchStep
  <2>3. CASE Fetched(v)
    BY <2>3, FetchedStep
  <2>4. CASE FetchFails(v)
    BY <2>4, UnansweredEnd DEF FetchFails
  <2>5. CASE ContextDone(v)
    BY <2>5, UnansweredEnd DEF ContextDone
  <2>6. CASE Unreachable(v)
    BY <2>6, UnreachableStep
  <2>7. CASE OwnTokenRefused(v)
    BY <2>7, OwnTokenRefusedStep
  <2>8. CASE SlowDown(v)
    BY <2>8, SlowDownStep
  <2>9. CASE VendorRejects(v)
    BY <2>9, VendorRejectsStep
  <2>10. CASE VendorAccepts(v)
    BY <2>10, VendorAcceptsStep
  <2>11. CASE Return(v)
    BY <2>11, ReturnStep
  <2> QED BY <1>2, <2>1, <2>2, <2>3, <2>4, <2>5, <2>6, <2>7, <2>8, <2>9, <2>10, <2>11
          DEF Step
<1>3. CASE Unblock
  BY <1>3 DEF Unblock, IInv, TypeOK, GoodCache
<1>4. CASE Revoke
  BY <1>4, RevokeStep
<1>5. CASE Tick
  BY <1>5, TickStep
<1>6. CASE UNCHANGED vars
  BY <1>6 DEF vars, IInv, TypeOK, GoodCache
<1> QED BY <1>1, <1>2, <1>3, <1>4, <1>5, <1>6 DEF Next

LEMMA Invariant == Spec => []IInv
BY InitInvariant, StepInvariant, PTL DEF Spec

\* The state of VerifyIdentity and of its TokenSource keeps its type.
THEOREM OnboardingTypeCorrect == Spec => []TypeOK
<1>1. IInv => TypeOK
  BY DEF IInv
<1> QED BY <1>1, Invariant, PTL

\* refreshMargin (token.go): whatever its length, as long as it covers a fetch and both
\* calls, no verification presents an expired token.
THEOREM NeverExpiredHolds == Spec => []NeverExpired
<1>1. IInv => NeverExpired
  <2> SUFFICES ASSUME IInv, NEW v \in Verification, ver[v].pc = "call"
               PROVE  ver[v].tok.left > 0
    BY DEF NeverExpired
  <2>1. ver[v] \in Active /\ GoodToken(ver[v])
    <3>1. ver[v] # Idle /\ ver[v] \in Active /\ Sound(ver[v])
      BY VerSound
    <3> QED BY <3>1 DEF Sound
  <2>2. ver[v].tok.left \in Nat /\ ver[v].age \in Nat
    BY <2>1, Constants DEF GoodToken, Token, Active
  <2> QED BY <2>1, <2>2, Constants DEF GoodToken, Ahead
<1> QED BY <1>1, Invariant, PTL

\* callAuth (onboarding.go): one repetition of the flow, one failure each.
THEOREM FailureBudgetHolds == Spec => []FailureBudget
<1>1. IInv => FailureBudget
  <2> SUFFICES ASSUME IInv, NEW v \in Verification, ver[v] # Idle, ver[v].counted = 3
               PROVE  FALSE
    BY DEF FailureBudget
  <2>1. GoodCount(ver[v]) /\ ver[v].flow \in 1..2
    BY DEF IInv, TypeOK, Active
  <2> QED BY <2>1 DEF GoodCount
<1> QED BY <1>1, Invariant, PTL

-----------------------------------------------------------------------------
\* Who is to blame for a rejection.

\* Without a failure counted, so many good tokens were refused.
Excused(r, n) == r.counted = 0 => r.unverified >= n

\* While no token was revoked, every token is good, and each rejection that a
\* verification has met was one by the vendor, or of a token that could not be verified.
Innocent(r) ==
  /\ r.tok # None => r.tok.good
  /\ r.flow = 2 => Excused(r, 1)
  /\ r.result = Rejected => Excused(r, 2)

Blameless ==
  revocations = 0 =>
    /\ cached # None => cached.tok.good
    /\ \A v \in Verification : ver[v] # Idle => Innocent(ver[v])

\* One verification moves on.
LEMMA BlamelessMove ==
  ASSUME IInv, NEW v \in Verification, NEW q, q = Idle \/ Innocent(q),
         \A w \in Verification : ver[w] # Idle => Innocent(ver[w]),
         ver' = [ver EXCEPT ![v] = q],
         cached' # None => cached'.tok.good
  PROVE  Blameless'
<1>1. \A w \in Verification : ver'[w] = IF w = v THEN q ELSE ver[w]
  BY DEF IInv, TypeOK
<1>2. \A w \in Verification : ver'[w] # Idle => Innocent(ver'[w])
  BY <1>1
<1> QED BY <1>2 DEF Blameless

LEMMA InnocentFields ==
  ASSUME NEW r \in Active
  PROVE  /\ \A n \in (0..3) \cup {None} :
              LET q == [r EXCEPT !.counted = n]
              IN  /\ q \in Active /\ q.counted = n /\ q.unverified = r.unverified
                  /\ q.flow = r.flow /\ q.tok = r.tok /\ q.result = r.result
         /\ \A a \in 0..ConnectorMaxRetries :
              LET q == [r EXCEPT !.attempt = a]
              IN  /\ q.counted = r.counted /\ q.unverified = r.unverified
                  /\ q.flow = r.flow /\ q.tok = r.tok /\ q.result = r.result
BY DEF Active

LEMMA EndedInnocent ==
  ASSUME NEW r, NEW result, result = Rejected => Excused(r, 2)
  PROVE  Innocent(Ended(r, result))
<1> DEFINE q == Ended(r, result)
<1>1. /\ q.tok = None /\ q.flow = 1 /\ q.result = result
      /\ q.counted = r.counted /\ q.unverified = r.unverified
  BY DEF Ended
<1> HIDE DEF q
<1>2. Innocent(q)
  BY <1>1 DEF Innocent, Excused
<1> QED BY <1>2 DEF q

LEMMA StageInnocent ==
  ASSUME NEW r, NEW pc, NEW flow, NEW tok, NEW call,
         tok # None => tok.good, flow = 2 => Excused(r, 1)
  PROVE  Innocent(Stage(r, pc, flow, tok, call))
<1> DEFINE q == Stage(r, pc, flow, tok, call)
<1>1. /\ q.tok = tok /\ q.flow = flow /\ q.result = None
      /\ q.counted = r.counted /\ q.unverified = r.unverified
  BY DEF Stage
<1>2. None # Rejected
  BY TokenIsSome
<1> HIDE DEF q
<1>3. Innocent(q)
  BY <1>1, <1>2 DEF Innocent, Excused
<1> QED BY <1>3 DEF q

LEMMA FailedInnocent ==
  ASSUME NEW r \in Active, Innocent(r)
  PROVE  Innocent(Failed(r))
<1>1. CASE r.attempt < ConnectorMaxRetries
  <2>1. r.attempt + 1 \in 0..ConnectorMaxRetries
    BY <1>1, Constants DEF Active
  <2> DEFINE q == [r EXCEPT !.attempt = r.attempt + 1]
  <2>2. /\ q.counted = r.counted /\ q.unverified = r.unverified
        /\ q.flow = r.flow /\ q.tok = r.tok /\ q.result = r.result
    BY <2>1, InnocentFields
  <2>3. Failed(r) = q
    BY <1>1 DEF Failed
  <2> HIDE DEF q
  <2> QED BY <2>2, <2>3 DEF Innocent, Excused
<1>2. CASE ~(r.attempt < ConnectorMaxRetries)
  <2>1. Unavailable # Rejected
    BY DEF Unavailable, Rejected
  <2>2. Failed(r) = Ended(r, Unavailable)
    BY <1>2 DEF Failed
  <2> QED BY <2>1, <2>2, EndedInnocent
<1> QED BY <1>1, <1>2

\* With the history of a lost answer, a verification is innocent of anything else.
LEMMA LostInnocent ==
  ASSUME NEW r \in Active, Innocent(r)
  PROVE  Innocent(Failed([r EXCEPT !.counted = None]))
<1> DEFINE q == [r EXCEPT !.counted = None]
<1>1. q \in Active /\ q.counted = None /\ q.tok = r.tok
  BY InnocentFields
<1>2. None # 0
  BY Constants
<1> HIDE DEF q
<1>3. Innocent(q)
  BY <1>1, <1>2 DEF Innocent, Excused
<1>4. Innocent(Failed(q))
  BY <1>1, <1>3, FailedInnocent
<1> QED BY <1>4 DEF q

LEMMA StepBlameless ==
  ASSUME IInv, Blameless, revocations = 0, NEW v \in Verification, Step(v)
  PROVE  Blameless'
<1> DEFINE r == ver[v]
<1>1. /\ \A w \in Verification : ver[w] # Idle => Innocent(ver[w])
      /\ cached # None => cached.tok.good
  BY DEF Blameless
<1>2. ver[v].pc # "idle" => r # Idle /\ r \in Active /\ Innocent(r) /\ GoodToken(r)
  BY <1>1, VerSound DEF Sound, Idle
<1>3. CASE CachedToken(v)
  <2>1. r.pc = "token" /\ cached # None
    BY <1>3 DEF CachedToken, Usable
  <2>2. r.flow = 2 => Excused(r, 1)
    BY <1>2, <2>1 DEF Innocent
  <2>3. Innocent(Calling(r, cached.tok, "auth"))
    BY <1>1, <2>1, <2>2, StageInnocent DEF Calling
  <2> QED BY <1>1, <1>3, <2>3, BlamelessMove DEF CachedToken
<1>4. CASE Fetch(v)
  <2> DEFINE t == [left |-> Lifetime, good |-> TRUE]
  <2>1. r.pc = "token" /\ t.good
    BY <1>4 DEF Fetch
  <2>2. r.flow = 2 => Excused(r, 1)
    BY <1>2, <2>1 DEF Innocent
  <2>3. ver' = [ver EXCEPT ![v] = Stage(r, "fetching", r.flow, t, "auth")] /\ cached' = cached
    BY <1>4 DEF Fetch
  <2> HIDE DEF t
  <2>4. Innocent(Stage(r, "fetching", r.flow, t, "auth"))
    BY <2>1, <2>2, StageInnocent
  <2> QED BY <1>1, <2>3, <2>4, BlamelessMove
<1>5. CASE Fetched(v)
  <2>1. r.pc = "fetching"
    BY <1>5 DEF Fetched
  <2>2. r.tok # None /\ r.tok.good /\ (r.flow = 2 => Excused(r, 1))
    <3>1. r.tok \in Token /\ None \notin Token
      BY <1>2, <2>1, TokenIsSome DEF GoodToken
    <3> QED BY <1>2, <2>1, <3>1 DEF Innocent
  <2>3. Innocent(Calling(r, r.tok, "auth"))
    BY <2>2, StageInnocent DEF Calling
  <2>4. cached'.tok = r.tok
    BY <1>5 DEF Fetched
  <2> QED BY <1>1, <1>5, <2>2, <2>3, <2>4, BlamelessMove DEF Fetched
<1>6. CASE FetchFails(v) \/ ContextDone(v)
  <2> DEFINE q == [r EXCEPT !.counted = None]
  <2>1. Innocent(Ended(q, Unavailable))
    BY EndedInnocent DEF Unavailable, Rejected
  <2>2. ver' = [ver EXCEPT ![v] = Ended(q, Unavailable)] /\ cached' = cached
    BY <1>6 DEF FetchFails, ContextDone
  <2> QED BY <1>1, <2>1, <2>2, BlamelessMove
<1>7. ASSUME NEW p \in Active, Innocent(p), Lost(v, p) PROVE Blameless'
  <2>1. Innocent(Failed([p EXCEPT !.counted = None]))
    BY <1>7, LostInnocent
  <2> QED BY <1>1, <1>7, <2>1, BlamelessMove DEF Lost
<1>8. CASE Unreachable(v)
  <2>1. r.pc = "call" /\ Lost(v, r)
    BY <1>8 DEF Unreachable
  <2> QED BY <1>2, <1>7, <2>1
<1>9. CASE OwnTokenRefused(v)
  <2>1. r.pc = "call"
    BY <1>9 DEF OwnTokenRefused
  <2>2. /\ r.tok \in Token /\ r.tok.left + r.age > Ahead(r.call)
        /\ r.age <= ConnectorCallTimeout
    BY <1>2, <2>1 DEF GoodToken
  <2>3. r.tok.good
    BY <1>2, <2>1, <2>2, TokenIsSome DEF Innocent
  <2>4. r.tok.left > 0
    <3>1. r.tok.left \in Nat /\ r.age \in Nat
      BY <1>2, <2>1, <2>2, Constants DEF Token, Active
    <3> QED BY <2>2, <3>1, Constants DEF Ahead
  <2>5. r.unverified \in 0..2 /\ r.flow \in 1..2
    BY <1>2, <2>1 DEF Active
  <2>6. PICK p \in Active :
          /\ Reject(v, p) /\ p.flow = r.flow /\ p.counted = r.counted
          /\ p.unverified >= 1 /\ (r.unverified >= 1 => p.unverified >= 2)
    BY <1>2, <1>9, <2>1, <2>3, <2>4, RefusedOutcome DEF Accepted
  <2>7. Innocent(AfterRejection(p))
    <3>1. CASE r.flow = 1
      <4>1. Innocent(Stage(p, "token", 2, None, "auth"))
        BY <2>6, StageInnocent DEF Excused
      <4> QED BY <2>6, <3>1, <4>1 DEF AfterRejection, Repeats
    <3>2. CASE r.flow = 2
      <4>1. Excused(p, 2)
        BY <1>2, <2>1, <2>6, <3>2 DEF Innocent, Excused
      <4>2. Innocent(Ended(p, Rejected))
        BY <4>1, EndedInnocent
      <4> QED BY <2>6, <3>2, <4>2 DEF AfterRejection, Repeats
    <3> QED BY <2>5, <3>1, <3>2
  <2>8. ver' = [ver EXCEPT ![v] = AfterRejection(p)] /\ cached' \in {cached, None}
    BY <2>6 DEF Reject
  <2> QED BY <1>1, <2>7, <2>8, BlamelessMove
<1>10. CASE SlowDown(v)
  <2>1. r.pc = "call"
    BY <1>10 DEF SlowDown
  <2>2. Innocent(Failed(r))
    BY <1>2, <2>1, FailedInnocent
  <2> QED BY <1>1, <1>10, <2>2, BlamelessMove DEF SlowDown
<1>11. CASE VendorRejects(v)
  <2> DEFINE n == IF r.counted \in 0..2 THEN r.counted + 1 ELSE r.counted
             p == [r EXCEPT !.counted = n]
  <2>1. r.pc = "call" /\ (Reject(v, p) \/ Lost(v, p))
    BY <1>11 DEF VendorRejects
  <2>2. n \in (0..3) \cup {None} /\ n # 0
    BY <1>2, <2>1, Constants DEF Active
  <2> HIDE DEF n
  <2>3. /\ p \in Active /\ p.counted = n
        /\ p.flow = r.flow /\ p.tok = r.tok /\ p.result = r.result
    BY <1>2, <2>1, <2>2, InnocentFields
  <2> HIDE DEF p
  <2>4. Innocent(p)
    BY <1>2, <2>1, <2>2, <2>3 DEF Innocent, Excused
  <2>5. Innocent(AfterRejection(p))
    <3>1. Innocent(Ended(p, Rejected))
      BY <2>2, <2>3, EndedInnocent DEF Excused
    <3>2. Innocent(Stage(p, "token", 2, None, "auth"))
      BY <2>2, <2>3, StageInnocent DEF Excused
    <3> QED BY <3>1, <3>2 DEF AfterRejection
  <2>6. CASE Reject(v, p)
    <3>1. ver' = [ver EXCEPT ![v] = AfterRejection(p)] /\ cached' \in {cached, None}
      BY <2>6 DEF Reject
    <3> QED BY <1>1, <2>5, <3>1, BlamelessMove
  <2> QED BY <1>7, <2>1, <2>3, <2>4, <2>6
<1>12. CASE VendorAccepts(v)
  <2>1. r.pc = "call"
    BY <1>12 DEF VendorAccepts
  <2>2. Innocent(Succeeded(r))
    <3>1. r.tok # None => r.tok.good
      BY <1>2, <2>1 DEF Innocent
    <3>2. r.flow = 2 => Excused(r, 1)
      BY <1>2, <2>1 DEF Innocent
    <3>3. Innocent(Calling(r, r.tok, "identity"))
      BY <3>1, <3>2, StageInnocent DEF Calling
    <3>4. Innocent(Ended(r, "ok"))
      BY EndedInnocent DEF Rejected
    <3> QED BY <3>3, <3>4 DEF Succeeded
  <2>3. CASE ver' = [ver EXCEPT ![v] = Succeeded(r)] /\ UNCHANGED cached
    BY <1>1, <2>2, <2>3, BlamelessMove
  <2> QED BY <1>2, <1>7, <1>12, <2>1, <2>3 DEF VendorAccepts
<1>13. CASE Return(v)
  BY <1>1, <1>13, BlamelessMove DEF Return
<1> QED BY <1>3, <1>4, <1>5, <1>6, <1>8, <1>9, <1>10, <1>11, <1>12, <1>13
     DEF Step

LEMMA TickBlameless ==
  ASSUME IInv, Blameless, revocations = 0, Tick
  PROVE  Blameless'
<1>1. \A t \in Token \cup {None} :
        (t # None => t.good) /\ Older(t) # None => Older(t).good
  BY DEF Older, Token
<1>2. ASSUME NEW v \in Verification, ver'[v] # Idle PROVE Innocent(ver'[v])
  <2>1. CASE ~InCall(v)
    BY <1>2, <2>1 DEF Tick, Blameless
  <2>2. CASE InCall(v)
    <3> DEFINE r == ver[v]
               t == Older(r.tok)
               q == [r EXCEPT !.tok = t, !.age = r.age + 1]
    <3>1. r.pc \in {"fetching", "call"} /\ ver'[v] = q
      BY <2>2 DEF Tick, InCall
    <3>2. r \in Active /\ r # Idle /\ Innocent(r)
      BY <3>1, VerSound DEF Blameless
    <3>3. t # None => t.good
      BY <1>1, <3>2 DEF Innocent, Active
    <3> HIDE DEF t
    <3>4. /\ q.tok = t /\ q.flow = r.flow /\ q.counted = r.counted
          /\ q.unverified = r.unverified /\ q.result = r.result
      BY <3>2 DEF Active
    <3> HIDE DEF q
    <3> QED BY <3>1, <3>2, <3>3, <3>4 DEF Innocent, Excused
  <2> QED BY <2>1, <2>2
<1>3. cached' # None => cached'.tok.good
  <2>1. CASE cached = None
    BY <2>1 DEF Tick
  <2>2. CASE cached # None
    <3>1. cached.tok \in Token /\ cached.tok.good
      BY <2>2 DEF IInv, TypeOK, Blameless
    <3>2. Older(cached.tok) # None /\ cached'.tok = Older(cached.tok)
      BY <2>2, <3>1, OlderType, TokenIsSome DEF Tick
    <3> QED BY <1>1, <3>1, <3>2
  <2> QED BY <2>1, <2>2
<1> QED BY <1>2, <1>3 DEF Blameless

\* onboarding.go, "concluding the vendor credential itself was actually the problem":
\* in whatever order the verifications share, replace and invalidate the token, whoever
\* is told so was rejected by the vendor, unless tokens were revoked or the middleware
\* could not verify a good one, twice: once is absorbed by the second flow.
THEOREM RejectionIsEarnedHolds == Spec => []RejectionIsEarned
<1>1. Init => Blameless
  BY DEF Init, Blameless
<1>2. IInv /\ IInv' /\ Blameless /\ [Next]_vars => Blameless'
  <2> SUFFICES ASSUME IInv, IInv', Blameless, [Next]_vars, revocations' = 0
               PROVE  Blameless'
    BY DEF Blameless
  <2>1. revocations \in Nat /\ ~Revoke
    BY Constants DEF IInv, TypeOK, Revoke
  <2>2. revocations = 0 \/ UNCHANGED vars
    <3>1. ASSUME NEW v \in Verification, Step(v) PROVE revocations' = revocations
      BY <3>1 DEF Step, CachedToken, Fetch, Fetched, FetchFails, ContextDone, Unreachable,
                  OwnTokenRefused, SlowDown, VendorRejects, VendorAccepts, Return
    <3> QED BY <2>1, <3>1 DEF Next, VerifyIdentity, Unblock, Tick
  <2>3. CASE UNCHANGED vars
    BY <2>3 DEF vars, Blameless
  <2>4. ASSUME revocations = 0, NEW v \in Verification, Step(v) PROVE Blameless'
    BY <2>4, StepBlameless
  <2>5. ASSUME revocations = 0, NEW v \in Verification, VerifyIdentity(v)
        PROVE  Blameless'
    <3> DEFINE q == [pc |-> "token", flow |-> 1, tok |-> None, call |-> "auth",
                     attempt |-> 0, age |-> 0, counted |-> 0, unverified |-> 0,
                     result |-> None]
    <3>1. Innocent(q)
      BY TokenIsSome DEF Innocent
    <3>2. ver' = [ver EXCEPT ![v] = q] /\ cached' = cached
      BY <2>5 DEF VerifyIdentity
    <3> HIDE DEF q
    <3> QED BY <2>5, <3>1, <3>2, BlamelessMove DEF Blameless
  <2>6. CASE Unblock
    BY <2>6 DEF Unblock, Blameless
  <2>7. CASE revocations = 0 /\ Tick
    BY <2>7, TickBlameless
  <2> QED BY <2>1, <2>2, <2>3, <2>4, <2>5, <2>6, <2>7 DEF Next
<1>3. IInv /\ Blameless => RejectionIsEarned
  <2> SUFFICES ASSUME IInv, Blameless, NEW v \in Verification, ver[v].pc = "done",
                      ver[v].result = Rejected, ver[v].counted = 0
               PROVE  revocations > 0 \/ ver[v].unverified = 2
    BY DEF RejectionIsEarned
  <2>1. ver[v] # Idle /\ ver[v].unverified \in 0..2
    BY VerSound DEF Active
  <2>2. revocations = 0 => ver[v].unverified >= 2
    BY <2>1 DEF Blameless, Innocent, Excused
  <2> QED BY <2>1, <2>2 DEF IInv, TypeOK
<1> QED BY <1>1, <1>2, <1>3, Invariant, PTL DEF Spec

-----------------------------------------------------------------------------
\* How many steps a verification has left.

LEMMA CallRank ==
  ASSUME NEW r \in Active, r.pc = "call"
  PROVE  /\ r # Idle
         /\ CallsLeft(r) \in Nat /\ CallsLeft(r) >= 1
         /\ StepsLeft(r) = 1 + 3 * CallsLeft(r)
<1>1. r # Idle
  BY DEF Idle
<1>2. r.attempt \in 0..ConnectorMaxRetries
  BY DEF Active
<1>3. CallsLeft(r) \in Nat /\ CallsLeft(r) >= 1
  BY <1>2, Constants DEF CallsLeft
<1> QED BY <1>1, <1>3 DEF StepsLeft

LEMMA EndedRank ==
  ASSUME NEW r, NEW result
  PROVE  StepsLeft(Ended(r, result)) = 1
<1> DEFINE q == Ended(r, result)
<1>1. q.pc = "done" /\ q # Idle
  BY DEF Ended, Idle
<1> HIDE DEF q
<1>2. CallsLeft(q) = 0
  BY <1>1 DEF CallsLeft
<1>3. StepsLeft(q) = 1
  BY <1>1, <1>2 DEF StepsLeft
<1> QED BY <1>3 DEF q

\* A stage begins with all its attempts.
LEMMA StageRank ==
  ASSUME NEW r, NEW pc \in {"token", "fetching", "call"}, NEW flow \in 1..2, NEW tok,
         NEW call \in {"auth", "identity"}
  PROVE  LET attempts == ConnectorMaxRetries + 1
             left == (IF call = "auth" \/ pc # "call" THEN 2 * attempts ELSE attempts)
                       + (IF flow = 1 THEN 2 * attempts ELSE 0)
         IN  StepsLeft(Stage(r, pc, flow, tok, call)) =
               1 + 3 * left
                 + (CASE pc = "token" -> 2 [] pc = "fetching" -> 1 [] OTHER -> 0)
<1> DEFINE q == Stage(r, pc, flow, tok, call)
           attempts == ConnectorMaxRetries + 1
           left == (IF call = "auth" \/ pc # "call" THEN 2 * attempts ELSE attempts)
                     + (IF flow = 1 THEN 2 * attempts ELSE 0)
<1>1. q.pc = pc /\ q.flow = flow /\ q.call = call /\ q.attempt = 0 /\ q # Idle
  BY DEF Stage, Idle
<1> HIDE DEF q
<1>2. CallsLeft(q) = left
  BY <1>1, Constants DEF CallsLeft
<1>3. StepsLeft(q) = 1 + 3 * left
                       + (CASE pc = "token" -> 2 [] pc = "fetching" -> 1 [] OTHER -> 0)
  BY <1>1, <1>2 DEF StepsLeft
<1> QED BY <1>3 DEF q

\* What the calls left do not depend on.
LEMMA SameRank ==
  ASSUME NEW r, NEW q, r # Idle, q # Idle,
         q.pc = r.pc, q.flow = r.flow, q.call = r.call, q.attempt = r.attempt
  PROVE  CallsLeft(q) = CallsLeft(r) /\ StepsLeft(q) = StepsLeft(r)
<1>1. CallsLeft(q) = CallsLeft(r)
  BY DEF CallsLeft
<1> QED BY <1>1 DEF StepsLeft

LEMMA CountedRank ==
  ASSUME NEW r \in Active, r.pc = "call", NEW n \in (0..3) \cup {None}
  PROVE  LET q == [r EXCEPT !.counted = n]
         IN  q \in Active /\ q.pc = "call" /\ StepsLeft(q) = StepsLeft(r)
<1> DEFINE q == [r EXCEPT !.counted = n]
<1>1. /\ q \in Active /\ q.pc = r.pc
      /\ q.flow = r.flow /\ q.call = r.call /\ q.attempt = r.attempt
  BY DEF Active
<1> HIDE DEF q
<1>2. r # Idle /\ q # Idle
  BY <1>1 DEF Idle
<1> QED BY <1>1, <1>2, SameRank DEF q

LEMMA FailedRank ==
  ASSUME NEW r \in Active, r.pc = "call"
  PROVE  StepsLeft(Failed(r)) < StepsLeft(r)
<1>1. r.attempt \in 0..ConnectorMaxRetries
  BY DEF Active
<1>2. CASE r.attempt < ConnectorMaxRetries
  <2> DEFINE q == [r EXCEPT !.attempt = r.attempt + 1]
  <2>1. Failed(r) = q
    BY <1>2 DEF Failed
  <2>2. r.attempt + 1 \in 0..ConnectorMaxRetries
    BY <1>1, <1>2, Constants
  <2>3. /\ q \in Active /\ q.pc = "call" /\ q.flow = r.flow /\ q.call = r.call
        /\ q.attempt = r.attempt + 1
    BY <2>2 DEF Active
  <2> HIDE DEF q
  <2>4. CallsLeft(q) = CallsLeft(r) - 1
    BY <1>1, <2>3, Constants DEF CallsLeft
  <2> QED BY <2>1, <2>3, <2>4, CallRank
<1>3. CASE ~(r.attempt < ConnectorMaxRetries)
  <2>1. Failed(r) = Ended(r, Unavailable)
    BY <1>3 DEF Failed
  <2> QED BY <2>1, EndedRank, CallRank
<1> QED BY <1>2, <1>3

LEMMA AfterRejectionRank ==
  ASSUME NEW r \in Active, r.pc = "call"
  PROVE  StepsLeft(AfterRejection(r)) < StepsLeft(r)
<1>1. CASE Repeats(r)
  <2>1. r.flow = 1 /\ AfterRejection(r) = Stage(r, "token", 2, None, "auth")
    BY <1>1 DEF Repeats, AfterRejection
  <2>2. r.attempt \in 0..ConnectorMaxRetries
    BY DEF Active
  <2>3. CallsLeft(r) >= 2 * (ConnectorMaxRetries + 1) + 1
    BY <2>1, <2>2, Constants DEF CallsLeft
  <2>4. StepsLeft(Stage(r, "token", 2, None, "auth")) = 1 + 3 * (2 * (ConnectorMaxRetries + 1)) + 2
    BY StageRank, Constants
  <2> QED BY <2>1, <2>3, <2>4, CallRank, Constants
<1>2. CASE ~Repeats(r)
  <2>1. AfterRejection(r) = Ended(r, Rejected)
    BY <1>2 DEF AfterRejection
  <2> QED BY <2>1, EndedRank, CallRank
<1> QED BY <1>1, <1>2

LEMMA SucceededRank ==
  ASSUME NEW r \in Active, r.pc = "call"
  PROVE  StepsLeft(Succeeded(r)) < StepsLeft(r)
<1>1. r.attempt \in 0..ConnectorMaxRetries /\ r.flow \in 1..2
  BY DEF Active
<1>2. CASE r.call = "auth"
  <2> DEFINE later == IF r.flow = 1 THEN 2 * (ConnectorMaxRetries + 1) ELSE 0
  <2>1. Succeeded(r) = Stage(r, "call", r.flow, r.tok, "identity")
    BY <1>2 DEF Succeeded, Calling
  <2>2. CallsLeft(r) >= 1 + later + (ConnectorMaxRetries + 1)
    BY <1>1, <1>2, Constants DEF CallsLeft
  <2>3. StepsLeft(Stage(r, "call", r.flow, r.tok, "identity")) =
          1 + 3 * ((ConnectorMaxRetries + 1) + later)
    BY <1>1, StageRank, Constants
  <2>4. later \in Nat
    BY Constants
  <2> HIDE DEF later
  <2> QED BY <2>1, <2>2, <2>3, <2>4, CallRank, Constants
<1>3. CASE r.call # "auth"
  BY <1>3, EndedRank, CallRank DEF Succeeded
<1> QED BY <1>2, <1>3

\* Whatever a verification does, it has fewer steps left.
LEMMA StepRank ==
  ASSUME IInv, NEW v \in Verification, Step(v)
  PROVE  StepsLeft(ver'[v]) < StepsLeft(ver[v])
<1> DEFINE r == ver[v]
           A == ConnectorMaxRetries + 1
<1>1. ver[v].pc # "idle" => r # Idle /\ r \in Active
  BY VerSound
<1>2. \A q : ver' = [ver EXCEPT ![v] = q] => ver'[v] = q
  BY DEF IInv, TypeOK
<1>3. ASSUME r.pc \in {"token", "fetching"}
      PROVE  /\ r.flow \in 1..2
             /\ StepsLeft(r) = 1 + 3 * (2 * A + (IF r.flow = 1 THEN 2 * A ELSE 0))
                                 + (IF r.pc = "token" THEN 2 ELSE 1)
  <2>1. r.flow \in 1..2 /\ r # Idle
    BY <1>1, <1>3 DEF Active
  <2>2. CallsLeft(r) = 2 * A + (IF r.flow = 1 THEN 2 * A ELSE 0)
    BY <1>3 DEF CallsLeft
  <2> QED BY <1>3, <2>1, <2>2 DEF StepsLeft
<1>4. CASE CachedToken(v)
  <2>1. r.pc = "token" /\ ver'[v] = Stage(r, "call", r.flow, cached.tok, "auth")
    BY <1>2, <1>4 DEF CachedToken, Calling
  <2>2. StepsLeft(ver'[v]) = 1 + 3 * (2 * A + (IF r.flow = 1 THEN 2 * A ELSE 0))
    BY <1>3, <2>1, StageRank, Constants
  <2> QED BY <1>3, <2>1, <2>2, Constants
<1>5. CASE Fetch(v)
  <2> DEFINE t == [left |-> Lifetime, good |-> TRUE]
  <2>1. r.pc = "token" /\ ver'[v] = Stage(r, "fetching", r.flow, t, "auth")
    BY <1>2, <1>5 DEF Fetch
  <2> HIDE DEF t
  <2>2. StepsLeft(ver'[v]) = 1 + 3 * (2 * A + (IF r.flow = 1 THEN 2 * A ELSE 0)) + 1
    BY <1>3, <2>1, StageRank, Constants
  <2> QED BY <1>3, <2>1, <2>2, Constants
<1>6. CASE Fetched(v)
  <2>1. r.pc = "fetching" /\ ver'[v] = Stage(r, "call", r.flow, r.tok, "auth")
    BY <1>2, <1>6 DEF Fetched, Calling
  <2>2. StepsLeft(ver'[v]) = 1 + 3 * (2 * A + (IF r.flow = 1 THEN 2 * A ELSE 0))
    BY <1>3, <2>1, StageRank, Constants
  <2> QED BY <1>3, <2>1, <2>2, Constants
<1>7. CASE FetchFails(v)
  <2>1. r.pc = "fetching" /\ StepsLeft(ver'[v]) = 1
    BY <1>2, <1>7, EndedRank DEF FetchFails
  <2> QED BY <1>3, <2>1, Constants
<1>8. CASE ContextDone(v)
  <2>1. r.pc = "call" /\ StepsLeft(ver'[v]) = 1
    BY <1>2, <1>8, EndedRank DEF ContextDone
  <2> QED BY <1>1, <2>1, CallRank
<1>9. ASSUME NEW p \in Active, p.pc = "call", StepsLeft(p) = StepsLeft(r), r.pc = "call",
             Lost(v, p) \/ Reject(v, p)
      PROVE  StepsLeft(ver'[v]) < StepsLeft(r)
  <2>1. CASE Lost(v, p)
    <3> DEFINE q == [p EXCEPT !.counted = None]
    <3>1. q \in Active /\ q.pc = "call" /\ StepsLeft(q) = StepsLeft(p)
      BY <1>9, CountedRank
    <3>2. ver'[v] = Failed(q)
      BY <1>2, <2>1 DEF Lost
    <3> HIDE DEF q
    <3> QED BY <1>9, <3>1, <3>2, FailedRank
  <2>2. CASE Reject(v, p)
    <3>1. ver'[v] = AfterRejection(p)
      BY <1>2, <2>2 DEF Reject
    <3> QED BY <1>9, <3>1, AfterRejectionRank
  <2> QED BY <1>9, <2>1, <2>2
<1>10. CASE Unreachable(v)
  BY <1>1, <1>9, <1>10 DEF Unreachable
<1>11. CASE OwnTokenRefused(v)
  <2>1. r.pc = "call"
    BY <1>11 DEF OwnTokenRefused
  <2>2. PICK p \in Active :
          /\ Reject(v, p) /\ p.pc = "call"
          /\ p.flow = r.flow /\ p.call = r.call /\ p.attempt = r.attempt
    BY <1>1, <1>11, <2>1, RefusedOutcome
  <2>3. p # Idle
    BY <2>2 DEF Idle
  <2>4. StepsLeft(p) = StepsLeft(r)
    BY <1>1, <2>1, <2>2, <2>3, SameRank
  <2> QED BY <1>9, <2>1, <2>2, <2>4
<1>12. CASE SlowDown(v)
  <2>1. r.pc = "call" /\ ver'[v] = Failed(r)
    BY <1>2, <1>12 DEF SlowDown
  <2> QED BY <1>1, <2>1, FailedRank
<1>13. CASE VendorRejects(v)
  <2> DEFINE n == IF r.counted \in 0..2 THEN r.counted + 1 ELSE r.counted
             p == [r EXCEPT !.counted = n]
  <2>1. r.pc = "call" /\ (Lost(v, p) \/ Reject(v, p))
    BY <1>13 DEF VendorRejects
  <2>2. n \in (0..3) \cup {None}
    BY <1>1, <2>1, Constants DEF Active
  <2> HIDE DEF n
  <2>3. p \in Active /\ p.pc = "call" /\ StepsLeft(p) = StepsLeft(r)
    BY <1>1, <2>1, <2>2, CountedRank
  <2> HIDE DEF p
  <2> QED BY <1>9, <2>1, <2>3
<1>14. CASE VendorAccepts(v)
  <2>1. r.pc = "call"
    BY <1>14 DEF VendorAccepts
  <2>2. CASE ver' = [ver EXCEPT ![v] = Succeeded(r)]
    BY <1>1, <1>2, <2>1, <2>2, SucceededRank
  <2> QED BY <1>1, <1>9, <1>14, <2>1, <2>2 DEF VendorAccepts
<1>15. CASE Return(v)
  <2>1. r.pc = "done" /\ ver'[v] = Idle /\ r # Idle
    BY <1>1, <1>2, <1>15 DEF Return
  <2>2. StepsLeft(r) = 1
    BY <2>1 DEF StepsLeft, CallsLeft
  <2>3. StepsLeft(ver'[v]) = 0
    BY <2>1 DEF StepsLeft
  <2> QED BY <2>2, <2>3
<1> QED BY <1>4, <1>5, <1>6, <1>7, <1>8, <1>10, <1>11, <1>12, <1>13, <1>14, <1>15
     DEF Step

\* A revocation or a tick changes the token and the age of a call, not what is left.
LEMMA OthersRank ==
  ASSUME IInv, [Next]_vars, NEW v \in Verification, ver[v] # Idle
  PROVE  ver'[v] = ver[v] \/ Step(v) \/ StepsLeft(ver'[v]) = StepsLeft(ver[v])
<1> DEFINE r == ver[v]
<1>1. r \in Active
  BY DEF IInv, TypeOK
<1>2. ASSUME NEW u \in Verification, u # v, NEW q, ver' = [ver EXCEPT ![u] = q]
      PROVE  ver'[v] = ver[v]
  BY <1>2 DEF IInv, TypeOK
<1>3. ASSUME NEW u \in Verification, Step(u)
      PROVE  ver'[v] = ver[v] \/ Step(v)
  <2> SUFFICES ASSUME u # v PROVE ver'[v] = ver[v]
    BY <1>3
  <2> QED BY <1>2, <1>3 DEF Step, CachedToken, Fetch, Fetched, FetchFails, ContextDone,
            Unreachable, OwnTokenRefused, SlowDown, VendorRejects, VendorAccepts, Return,
            Lost, Reject
<1>4. ASSUME NEW u \in Verification, VerifyIdentity(u)
      PROVE  ver'[v] = ver[v]
  BY <1>2, <1>4 DEF VerifyIdentity
<1>5. CASE Revoke
  <2> DEFINE t == Withdrawn(r.tok)
             q == [r EXCEPT !.tok = t]
  <2>1. ver'[v] = q
    BY <1>5 DEF Revoke
  <2> HIDE DEF t
  <2>2. q.pc = r.pc /\ q.flow = r.flow /\ q.call = r.call /\ q.attempt = r.attempt
    BY <1>1 DEF Active
  <2> HIDE DEF q
  <2>3. q # Idle
    BY <1>1, <2>2 DEF Idle, Active
  <2> QED BY <2>1, <2>2, <2>3, SameRank
<1>6. CASE Tick
  <2> DEFINE t == Older(r.tok)
             q == [r EXCEPT !.tok = t, !.age = r.age + 1]
  <2>1. ver'[v] \in {r, q}
    BY <1>6 DEF Tick
  <2> HIDE DEF t
  <2>2. q.pc = r.pc /\ q.flow = r.flow /\ q.call = r.call /\ q.attempt = r.attempt
    BY <1>1 DEF Active
  <2> HIDE DEF q
  <2>3. q # Idle
    BY <1>1, <2>2 DEF Idle, Active
  <2> QED BY <2>1, <2>2, <2>3, SameRank
<1>7. CASE Unblock \/ UNCHANGED vars
  BY <1>7 DEF Unblock, vars
<1> QED BY <1>3, <1>4, <1>5, <1>6, <1>7 DEF Next

LEMMA RankType ==
  ASSUME IInv, NEW v \in Verification
  PROVE  StepsLeft(ver[v]) \in Nat
<1>1. ver[v] # Idle => ver[v] \in Active
  BY DEF IInv, TypeOK
<1>2. ver[v] # Idle => CallsLeft(ver[v]) \in Nat
  <2> SUFFICES ASSUME ver[v] # Idle PROVE CallsLeft(ver[v]) \in Nat
    OBVIOUS
  <2>1. ver[v].attempt \in 0..ConnectorMaxRetries
    BY <1>1, Constants DEF Active
  <2> QED BY <2>1, Constants DEF CallsLeft
<1> QED BY <1>2 DEF StepsLeft

\* connectorMaxRetries (onboarding.go), "never an open-ended retry loop": every step of a
\* verification takes from the steps and the calls it has left, for any number of retries
\* and of verifications, and whatever the token source and the connector do.
THEOREM RetriesBoundedHolds == Spec => RetriesBounded
<1>1. IInv /\ [Next]_vars =>
        \A v \in Verification :
          ver[v] # Idle =>
            /\ StepsLeft(ver'[v]) <= StepsLeft(ver[v])
            /\ Step(v) => StepsLeft(ver'[v]) < StepsLeft(ver[v])
  <2> SUFFICES ASSUME IInv, [Next]_vars, NEW v \in Verification, ver[v] # Idle
               PROVE  /\ StepsLeft(ver'[v]) <= StepsLeft(ver[v])
                      /\ Step(v) => StepsLeft(ver'[v]) < StepsLeft(ver[v])
    OBVIOUS
  <2>1. Step(v) => StepsLeft(ver'[v]) < StepsLeft(ver[v])
    BY StepRank
  <2>2. StepsLeft(ver[v]) \in Nat
    BY RankType
  <2>3. StepsLeft(ver'[v]) \in Nat
    <3>1. IInv'
      BY StepInvariant
    <3>2. ver'[v] # Idle => ver'[v] \in Active
      BY <3>1 DEF IInv, TypeOK
    <3>3. ver'[v] # Idle => CallsLeft(ver'[v]) \in Nat
      <4> SUFFICES ASSUME ver'[v] # Idle PROVE CallsLeft(ver'[v]) \in Nat
        OBVIOUS
      <4>1. ver'[v].attempt \in 0..ConnectorMaxRetries
        BY <3>2, Constants DEF Active
      <4> QED BY <4>1, Constants DEF CallsLeft
    <3> QED BY <3>3 DEF StepsLeft
  <2> QED BY <2>1, <2>2, <2>3, OthersRank
<1> QED BY <1>1, Invariant, PTL DEF Spec, RetriesBounded

==============================================================================
