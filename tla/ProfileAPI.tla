----------------------------- MODULE ProfileAPI -----------------------------
(***************************************************************************)
(* NewSearchHandler and NewGetProfileHandler (internal/api/handlers.go)    *)
(* over the touch counter: concurrent requests, each a goroutine that      *)
(* reserves, asks the authorizer, queries the DAO and settles, with the    *)
(* deferred release of touchReservation on every other way out.            *)
(*                                                                         *)
(* profile:search reserves its page size, profile:read:any reserves one.   *)
(* Left out, because they change none of this state: profile:read:own (a   *)
(* nil touchReservation), requests that the shape checks or the rate       *)
(* limiter turn away before Reserve, and the audit log.                    *)
(***************************************************************************)
EXTENDS TouchCounter

CONSTANTS
  Req,        \* concurrent request goroutines
  MaxPage,    \* maxPageSize
  MaxTime     \* bound on the clock

ASSUME HandlerAssumption ==
  /\ IsFiniteSet(Req)
  /\ MaxPage \in Nat \ {0}
  /\ MaxTime \in Nat

VARIABLES
  req,        \* where each goroutine is and what it holds
  epoch,      \* history: when the caller's window should have begun
  disclosed,  \* history: records returned to the caller since epoch
  straddled   \* history: budget of requests of an earlier epoch settled in this one

vars == <<now, windows, lastSweep, req, epoch, disclosed, straddled>>
history == <<epoch, disclosed, straddled>>

Idle == [pc |-> "idle"]

\* Goroutines that hold a reservation; home is the epoch they reserved in.
Holding == [pc : {"authorize", "query", "release"}, sub : Sub,
            want : 1..MaxPage, home : Int]
Answered == [pc : {"settle"}, sub : Sub, want : 1..MaxPage, home : Int,
             ids : SUBSET Record]

TypeOK ==
  /\ TouchTypeOK
  /\ req \in [Req -> {Idle} \cup Holding \cup Answered]
  /\ \A r \in Req : req[r].pc = "settle" => Cardinality(req[r].ids) <= req[r].want
  /\ epoch \in [Sub -> Int]
  /\ disclosed \in [Sub -> SUBSET Record]
  /\ straddled \in [Sub -> Nat]

Init ==
  /\ TouchInit
  /\ req = [r \in Req |-> Idle]
  /\ epoch = [s \in Sub |-> -Window]
  /\ disclosed = [s \in Sub |-> {}]
  /\ straddled = [s \in Sub |-> 0]

InFlight(r) == req[r].pc \in {"authorize", "query", "release", "settle"}

-----------------------------------------------------------------------------
\* reserveTouches and the branch on its answer.

EpochOver(s) == now - epoch[s] >= Window

\* History bookkeeping of a Reserve: a new epoch begins when the last one is over.
RollEpoch(s) ==
  IF EpochOver(s)
  THEN /\ epoch' = [epoch EXCEPT ![s] = now]
       /\ disclosed' = [disclosed EXCEPT ![s] = {}]
       /\ straddled' = [straddled EXCEPT ![s] = 0]
  ELSE UNCHANGED history

ReserveTouches(r, s, n) ==
  /\ req[r].pc = "idle"
  /\ Reserve(s, n)
  /\ RollEpoch(s)
  /\ req' = [req EXCEPT ![r] = [pc |-> "authorize", sub |-> s, want |-> n,
                                home |-> epoch'[s]]]
  /\ UNCHANGED now

\* 429: AuditCapExceeded, and the goroutine ends.
CapExceeded(r, s) ==
  /\ req[r].pc = "idle"
  /\ ReserveDenied(s)
  /\ RollEpoch(s)
  /\ UNCHANGED <<now, req>>

-----------------------------------------------------------------------------
\* authorize() and the DAO call; a denial, an error, a cancelled context or a
\* panic unwinds to the deferred release.

Goto(r, pc) == req' = [req EXCEPT ![r].pc = pc]

Authorize(r) ==
  /\ req[r].pc = "authorize"
  /\ Goto(r, "query") \/ Goto(r, "release")
  /\ UNCHANGED <<now, touchVars, history>>

QueryReturns(r, ids) ==
  /\ req[r].pc = "query"
  /\ Cardinality(ids) <= req[r].want
  /\ req' = [req EXCEPT ![r] = [pc |-> "settle", sub |-> @.sub, want |-> @.want,
                                home |-> @.home, ids |-> ids]]
  /\ UNCHANGED <<now, touchVars, history>>

QueryFails(r) ==
  /\ req[r].pc = "query"
  /\ Goto(r, "release")
  /\ UNCHANGED <<now, touchVars, history>>

-----------------------------------------------------------------------------
\* tr.settle and the response, tr.release.

\* History bookkeeping: a reservation of an earlier epoch is a straddler.
Straddles(r) == req[r].home # epoch[req[r].sub]

CountStraddler(r) ==
  straddled' = IF Straddles(r)
               THEN [straddled EXCEPT ![req[r].sub] = @ + req[r].want]
               ELSE straddled

\* tr.settle marks the reservation done, so the deferred release is a no-op; the
\* response then discloses the ids.
SettleAndRespond(r) ==
  /\ req[r].pc = "settle"
  /\ Settle(req[r].sub, req[r].ids, req[r].want)
  /\ CountStraddler(r)
  /\ disclosed' = [disclosed EXCEPT ![req[r].sub] = @ \cup req[r].ids]
  /\ req' = [req EXCEPT ![r] = Idle]
  /\ UNCHANGED <<now, epoch>>

\* Regression: a return path that forgets to give the reservation back.
Release_Forgotten(r) ==
  /\ req[r].pc = "release"
  /\ CountStraddler(r)
  /\ req' = [req EXCEPT ![r] = Idle]
  /\ UNCHANGED <<now, touchVars, epoch, disclosed>>

Release(r) ==
  /\ req[r].pc = "release"
  /\ Settle(req[r].sub, {}, req[r].want)
  /\ CountStraddler(r)
  /\ req' = [req EXCEPT ![r] = Idle]
  /\ UNCHANGED <<now, epoch, disclosed>>

Tick ==
  /\ now < MaxTime
  /\ now' = now + 1
  /\ UNCHANGED <<touchVars, req, history>>

Next ==
  \/ \E r \in Req, s \in Sub : \/ \E n \in 1..MaxPage : ReserveTouches(r, s, n)
                               \/ CapExceeded(r, s)
  \/ \E r \in Req : \/ Authorize(r)
                    \/ \E ids \in SUBSET Record : QueryReturns(r, ids)
                    \/ QueryFails(r)
                    \/ SettleAndRespond(r)
                    \/ Release(r)
  \/ Tick

Spec == Init /\ [][Next]_vars

-----------------------------------------------------------------------------
\* Budget units the caller's requests of this epoch hold: one token per unit.

Tokens(s) ==
  {t \in Req \X (1..MaxPage) :
     /\ InFlight(t[1])
     /\ req[t[1]].sub = s
     /\ req[t[1]].home = epoch[s]
     /\ t[2] <= req[t[1]].want}

Booked(s) == Cardinality(Tokens(s))

\* The promise of the cap (touchcounter.go: "the one-request overshoot the design
\* accepts"): between two rollovers a caller is shown at most Cap - 1 records
\* plus one request's page, plus what requests straddling the rollover brought.
DisclosureCap ==
  \A s \in Sub : Cardinality(disclosed[s]) <= Cap - 1 + MaxPage + straddled[s]

\* No return path burns budget: what the window books is never more than what
\* the requests still in flight hold (touchReservation's deferred release).
NoBudgetLeak ==
  \A s \in Sub : windows[s] # NoWindow => windows[s].reserved <= Booked(s)

\* No return path gives a reservation back twice: the booking covers the requests
\* in flight, but for what straddlers took from it.
InFlightCovered ==
  \A s \in Sub :
    windows[s] # NoWindow => Booked(s) <= windows[s].reserved + straddled[s]

\* Every record a caller has been shown since its window began is counted in it,
\* as long as the counter has a window for the caller.
DisclosedIsCounted ==
  \A s \in Sub : windows[s] # NoWindow => disclosed[s] \subseteq windows[s].touched

=============================================================================
