--------------------------- MODULE TokenEndpoint ----------------------------
(***************************************************************************)
(* NewTokenHandler (internal/api/tokenhandler.go): POST /auth/token over   *)
(* the grant limiter and the client store (clientstore.go).  Concurrent    *)
(* attempts, each a goroutine, read the client's row, verify the secret    *)
(* against that snapshot, record the outcome and may rehash the secret.    *)
(* Operators rotate and revoke secrets with the runbook's SQL              *)
(* (deploy/demo-data/qa-client-bootstrap.md).                              *)
(*                                                                         *)
(* A hash is the version of the secret it was made from; 0 is NULL, which  *)
(* the table ties to secret_state other than 'set'; an unknown client_id   *)
(* has it too, and so reads a disabled client, whom the handler refuses in *)
(* the same branch.  Left out, because they touch no shared state: the     *)
(* form and scope checks, and signing.                                     *)
(***************************************************************************)
EXTENDS GrantLimiter

CONSTANTS
  Req,          \* concurrent attempts
  NoClient,     \* the client_id "" of a request without credentials
  MaxVersion,   \* bound on the secrets one client is ever given
  MaxTime       \* bound on the clock

ASSUME EndpointAssumption ==
  /\ IsFiniteSet(Req)
  /\ NoClient \in ClientID
  /\ MaxVersion \in Nat \ {0}
  /\ MaxTime \in Nat

VARIABLES
  store,        \* oauth_client
  newest,       \* history: the newest secret a client was given
  req           \* where each attempt is

vars == <<now, limiterVars, store, newest, req>>

\* drifted: hashed under an older cost profile than the current one.
Row == [secret : 0..MaxVersion, drifted : BOOLEAN]
NoRow == [secret |-> 0, drifted |-> FALSE]

Idle == [pc |-> "idle"]
Admitted == [pc : {"get"}, id : ClientID, ip : SourceIP, secret : 0..MaxVersion]
Denied == [pc : {"denied"}, id : ClientID, ip : SourceIP]
Granted == [pc : {"granted"}, id : ClientID, ip : SourceIP,
            secret : 1..MaxVersion, drifted : BOOLEAN]
Migrating == [pc : {"rehash"}, id : ClientID, secret : 1..MaxVersion]

TypeOK ==
  /\ now \in 0..MaxTime
  /\ LimiterTypeOK
  /\ store \in [ClientID -> Row]
  /\ newest \in [ClientID -> 0..MaxVersion]
  /\ req \in [Req -> {Idle} \cup Admitted \cup Denied \cup Granted \cup Migrating]

\* Every client but NoClient is registered, under an older profile than the current.
Init ==
  /\ now = 0
  /\ LimiterInit
  /\ store = [k \in ClientID |->
                IF k = NoClient THEN NoRow
                ELSE [secret |-> 1, drifted |-> TRUE]]
  /\ newest = [k \in ClientID |-> store[k].secret]
  /\ req = [r \in Req |-> Idle]

-----------------------------------------------------------------------------
\* One attempt.

\* limiter.Allow gates every attempt; one without credentials then fails at once.
\* The secret presented is a wrong guess, 0, or one the client was given.
Admit(r, k, i, secret) ==
  /\ req[r].pc = "idle"
  /\ Sweep
  /\ req' = IF ~Allowed(k, i) THEN req
            ELSE [req EXCEPT ![r] =
                    IF k = NoClient THEN [pc |-> "denied", id |-> k, ip |-> i]
                    ELSE [pc |-> "get", id |-> k, ip |-> i, secret |-> secret]]
  /\ UNCHANGED <<now, store, newest>>

Verifies(secret, rec) == rec.secret # 0 /\ secret = rec.secret

\* store.Get, whose error ends the attempt with nothing recorded, and the
\* verification of the secret against the row it returned.
GetClient(r) ==
  LET a == req[r]
      rec == store[a.id]
  IN  /\ a.pc = "get"
      /\ \/ req' = [req EXCEPT ![r] =
                IF Verifies(a.secret, rec)
                THEN [pc |-> "granted", id |-> a.id, ip |-> a.ip,
                      secret |-> a.secret, drifted |-> rec.drifted]
                ELSE [pc |-> "denied", id |-> a.id, ip |-> a.ip]]
         \/ req' = [req EXCEPT ![r] = Idle]
      /\ UNCHANGED <<now, limiterVars, store, newest>>

GrantFails(r) ==
  /\ req[r].pc = "denied"
  /\ RecordFailure(req[r].id, req[r].ip)
  /\ req' = [req EXCEPT ![r] = Idle]
  /\ UNCHANGED <<now, store, newest>>

GrantSucceeds(r) ==
  /\ req[r].pc = "granted"
  /\ RecordSuccess(req[r].id, req[r].ip)
  /\ req' = [req EXCEPT ![r] =
       IF req[r].drifted
       THEN [pc |-> "rehash", id |-> req[r].id, secret |-> req[r].secret]
       ELSE Idle]
  /\ UNCHANGED <<now, store, newest>>

\* UpdateSecretHash of the secret just verified: it writes where secret_state is
\* 'set', and its failure does not fail the grant.
Rehash(r) ==
  LET k == req[r].id
  IN  /\ req[r].pc = "rehash"
      /\ \/ /\ store[k].secret # 0
            /\ store' = [store EXCEPT ![k].secret = req[r].secret, ![k].drifted = FALSE]
         \/ UNCHANGED store
      /\ req' = [req EXCEPT ![r] = Idle]
      /\ UNCHANGED <<now, limiterVars, newest>>

-----------------------------------------------------------------------------
\* The operators' runbook.

\* A new secret under the current profile; the table's CHECK refuses one for a
\* revoked client.
Rotate(k) ==
  /\ store[k].secret # 0
  /\ newest[k] < MaxVersion
  /\ newest' = [newest EXCEPT ![k] = @ + 1]
  /\ store' = [store EXCEPT ![k].secret = newest[k] + 1, ![k].drifted = FALSE]
  /\ UNCHANGED <<now, limiterVars, req>>

Revoke(k) ==
  /\ store[k].secret # 0
  /\ store' = [store EXCEPT ![k].secret = 0, ![k].drifted = FALSE]
  /\ UNCHANGED <<now, limiterVars, newest, req>>

Tick ==
  /\ now < MaxTime
  /\ now' = now + 1
  /\ UNCHANGED <<limiterVars, store, newest, req>>

Next ==
  \/ \E r \in Req : \/ \E k \in ClientID, i \in SourceIP :
                         \E v \in 0..newest[k] : Admit(r, k, i, v)
                    \/ GetClient(r)
                    \/ GrantFails(r)
                    \/ GrantSucceeds(r)
                    \/ Rehash(r)
  \/ \E k \in ClientID : Rotate(k) \/ Revoke(k)
  \/ Tick

Spec == Init /\ [][Next]_vars

-----------------------------------------------------------------------------
\* A block that a failure set stands until it is over: later failures only extend
\* it, a sweep leaves it, and only a successful grant on that key lifts it
\* (grantlimiter.go: "sweeping mid-block would silently un-block it early").
Lifted(k, i) ==
  \E r \in Req : /\ req[r].pc = "granted" /\ req'[r] # req[r]
                 /\ req[r].id = k /\ req[r].ip = i

Stands(e, f) == Blocked(e) => f # NoEntry /\ f.until >= e.until

BlocksStand == [][
  /\ \A k \in ClientID : \/ Stands(byClientID[k], byClientID'[k])
                         \/ \E i \in SourceIP : Lifted(k, i)
  /\ \A i \in SourceIP : \/ Stands(bySourceIP[i], bySourceIP'[i])
                         \/ \E k \in ClientID : Lifted(k, i)]_vars

\* Time that passes from the first failure of a run to the end of its n-th block,
\* when every block but the last is waited out.
Waited[n \in Nat] == IF n = 0 THEN 0 ELSE Waited[n - 1] + Backoff(n)

\* Rounds of guessing that fit in t ticks.
Rounds(t) == Cardinality({n \in 0..MaxTime + 1 : Waited[n] <= t})

\* Progressive backoff bounds guessing even though Allow and RecordFailure are
\* apart: the attempts already admitted when a block begins are the only ones it
\* lets through, at most one per goroutine and round, for any mix of source IPs.
GuessBound ==
  /\ \A k \in ClientID : Failures(byClientID[k])
       <= Cardinality(Req) * (IF byClientID[k] = NoEntry THEN 0
                              ELSE Rounds(now - byClientID[k].first))
  /\ \A i \in SourceIP : Failures(bySourceIP[i])
       <= Cardinality(Req) * (IF bySourceIP[i] = NoEntry THEN 0
                              ELSE Rounds(now - bySourceIP[i].first))

\* One alert per run of failures that reaches the threshold, and none before it
\* (grantlimiter.go: "exactly once per crossing, not once per subsequent failure").
AlertPerCrossing ==
  \A k \in ClientID : byClientID[k] # NoEntry =>
    alerts[k] = IF byClientID[k].failures >= AlertThreshold THEN 1 ELSE 0

\* handoff-03-auth.md on the rehash: "the row simply upgrades itself", and
\* multi-db-strategy.md: "a revoked credential cannot be rehashed back into
\* existence".  Then a secret that was replaced or revoked never returns to the row.
NoSecretReturns ==
  \A k \in ClientID : store[k].secret \in {0, newest[k]}

=============================================================================
