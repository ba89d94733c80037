--------------------------- MODULE ProfileAPIProofs ---------------------------
(***************************************************************************)
(* The touch cap for every value of the constants.                         *)
(*                                                                         *)
(* The cap is not inductive alone: a disclosure is bounded because it was  *)
(* booked, so the invariant relates three counts of the same budget: the   *)
(* tokens the requests in flight hold, what the window books, and what was *)
(* disclosed.                                                              *)
(***************************************************************************)
EXTENDS ProfileAPI, FiniteSetTheorems, TLAPS

\* The code's window and the epoch agree: a window began with its epoch, and where
\* there is no window the epoch is over.
WindowIsEpoch ==
  \A s \in Sub :
    /\ epoch[s] <= now
    /\ IF windows[s] = NoWindow THEN EpochOver(s) ELSE windows[s].start = epoch[s]

\* No request is from the future.
HomeReached == \A r \in Req : InFlight(r) => req[r].home <= epoch[req[r].sub]

\* What was disclosed and what may still be disclosed fit the promise together.
Ledger ==
  \A s \in Sub :
    Cardinality(disclosed[s]) + Booked(s) <= Cap - 1 + MaxPage + straddled[s]

IInv ==
  /\ TypeOK
  /\ WindowIsEpoch
  /\ HomeReached
  /\ DisclosedIsCounted
  /\ NoBudgetLeak
  /\ InFlightCovered
  /\ Ledger

-----------------------------------------------------------------------------
\* Counting budget units.

Units(r, n) == {r} \X (1..n)

\* A reservation of n is n units.
LEMMA UnitsCount ==
  ASSUME NEW r, NEW n \in Nat
  PROVE  IsFiniteSet(Units(r, n)) /\ Cardinality(Units(r, n)) = n
<1>1. IsFiniteSet({r}) /\ Cardinality({r}) = 1
  BY FS_Singleton
<1>2. IsFiniteSet(1..n) /\ Cardinality(1..n) = n
  <2>1. 1 \in Int /\ n \in Int
    OBVIOUS
  <2> QED BY <2>1, FS_Interval
<1>3. /\ IsFiniteSet({r} \X (1..n))
      /\ Cardinality({r} \X (1..n)) = Cardinality({r}) * Cardinality(1..n)
  BY <1>1, <1>2, FS_Product, Zenon
<1> QED BY <1>1, <1>2, <1>3 DEF Units

\* Booking n new units adds n to the count.
LEMMA AddUnits ==
  ASSUME NEW S, IsFiniteSet(S), NEW r, NEW n \in Nat, S \cap Units(r, n) = {}
  PROVE  Cardinality(S \cup Units(r, n)) = Cardinality(S) + n
<1>1. IsFiniteSet(Units(r, n)) /\ Cardinality(Units(r, n)) = n
  BY UnitsCount
<1>2. Cardinality(S) \in Nat
  BY FS_CardinalityType
<1>3. Cardinality(S \cup Units(r, n)) = Cardinality(S) + n - Cardinality({})
  BY <1>1, FS_Union
<1> QED BY <1>2, <1>3, FS_EmptySet

\* Giving n held units back takes n from the count.
LEMMA RemoveUnits ==
  ASSUME NEW S, IsFiniteSet(S), NEW r, NEW n \in Nat, Units(r, n) \subseteq S
  PROVE  Cardinality(S \ Units(r, n)) = Cardinality(S) - n
<1>1. S \cap Units(r, n) = Units(r, n)
  OBVIOUS
<1>2. Cardinality(S \ Units(r, n)) = Cardinality(S) - Cardinality(S \cap Units(r, n))
  BY FS_Difference, Zenon
<1> QED BY <1>1, <1>2, UnitsCount, Zenon

\* The tokens are a finite set, so the booking is a number.
LEMMA BookedIsNat ==
  ASSUME NEW s
  PROVE  IsFiniteSet(Tokens(s)) /\ Booked(s) \in Nat
<1>1. IsFiniteSet(1..MaxPage)
  <2>1. 1 \in Int /\ MaxPage \in Int
    BY HandlerAssumption
  <2> QED BY <2>1, FS_Interval
<1>2. IsFiniteSet(Req \X (1..MaxPage))
  BY <1>1, HandlerAssumption, FS_Product
<1>3. Tokens(s) \in SUBSET (Req \X (1..MaxPage))
  BY DEF Tokens
<1>4. IsFiniteSet(Tokens(s))
  BY <1>2, <1>3, FS_Subset
<1> QED BY <1>4, FS_CardinalityType DEF Booked

LEMMA BookedIsNatNext ==
  ASSUME NEW s
  PROVE  IsFiniteSet(Tokens(s)') /\ Booked(s)' \in Nat
<1>1. IsFiniteSet(1..MaxPage)
  <2>1. 1 \in Int /\ MaxPage \in Int
    BY HandlerAssumption
  <2> QED BY <2>1, FS_Interval
<1>2. IsFiniteSet(Req \X (1..MaxPage))
  BY <1>1, HandlerAssumption, FS_Product
<1>3. Tokens(s)' \in SUBSET (Req \X (1..MaxPage))
  BY DEF Tokens
<1>4. IsFiniteSet(Tokens(s)')
  BY <1>2, <1>3, FS_Subset
<1> QED BY <1>4, FS_CardinalityType DEF Booked

\* A set of records is finite.
LEMMA RecordsCount ==
  ASSUME NEW S \in SUBSET Record
  PROVE  IsFiniteSet(S) /\ Cardinality(S) \in Nat
BY TouchAssumption, FS_Subset, FS_CardinalityType

\* Disclosing more records adds at most their number.
LEMMA RecordsUnion ==
  ASSUME NEW S \in SUBSET Record, NEW T \in SUBSET Record
  PROVE  Cardinality(S \cup T) <= Cardinality(S) + Cardinality(T)
<1>1. IsFiniteSet(S \cap T) /\ Cardinality(S \cap T) \in Nat
  <2>1. S \cap T \in SUBSET Record
    OBVIOUS
  <2> QED BY <2>1, RecordsCount
<1>2. Cardinality(S \cup T) = Cardinality(S) + Cardinality(T) - Cardinality(S \cap T)
  BY RecordsCount, FS_Union
<1> QED BY <1>1, <1>2, RecordsCount

\* A subset of a set of records is no larger.
LEMMA RecordsSubset ==
  ASSUME NEW S \in SUBSET Record, NEW T \in SUBSET S
  PROVE  Cardinality(T) <= Cardinality(S)
BY RecordsCount, FS_Subset

-----------------------------------------------------------------------------
\* Types.

\* What the goroutine in flight carries.
LEMMA RequestFields ==
  ASSUME TypeOK, NEW r \in Req, InFlight(r)
  PROVE  /\ req[r].sub \in Sub
         /\ req[r].want \in 1..MaxPage
         /\ req[r].home \in Int
BY DEF TypeOK, InFlight, Idle, Holding, Answered

\* The window Reserve works on.
LEMMA WindowTypes ==
  ASSUME TouchTypeOK
  PROVE  /\ SweptWindows \in [Sub -> TouchWindow \cup {NoWindow}]
         /\ \A s \in Sub : CurrentWindow(SweptWindows, s) \in TouchWindow
<1>1. SweptWindows \in [Sub -> TouchWindow \cup {NoWindow}]
  BY DEF TouchTypeOK, SweptWindows
<1>2. FreshWindow \in TouchWindow
  BY DEF TouchTypeOK, FreshWindow, TouchWindow
<1> QED BY <1>1, <1>2 DEF CurrentWindow

\* Settling keeps a window a window.
LEMMA SettledType ==
  ASSUME NEW w \in TouchWindow, NEW ids \in SUBSET Record, NEW n \in Nat
  PROVE  Settled(w, ids, n) \in TouchWindow
<1>1. LessReserved(w, n) \in Nat
  BY DEF LessReserved, TouchWindow
<1> QED BY <1>1 DEF Settled, TouchWindow

LEMMA SettleType ==
  ASSUME TouchTypeOK, NEW s \in Sub, NEW ids \in SUBSET Record, NEW n \in Nat,
         Settle(s, ids, n), now' \in Nat
  PROVE  TouchTypeOK'
<1>1. windows[s] # NoWindow => Settled(windows[s], ids, n) \in TouchWindow
  BY SettledType DEF TouchTypeOK
<1> QED BY <1>1 DEF TouchTypeOK, Settle

LEMMA TypeInvariant == TypeOK /\ [Next]_vars => TypeOK'
<1> SUFFICES ASSUME TypeOK, [Next]_vars PROVE TypeOK'
  OBVIOUS
<1> USE HandlerAssumption, TouchAssumption
<1>1. ASSUME NEW r \in Req, NEW s \in Sub, NEW n \in 1..MaxPage, ReserveTouches(r, s, n)
      PROVE  TypeOK'
  <2>1. TouchTypeOK'
    <3> DEFINE w == CurrentWindow(SweptWindows, s)
    <3>1. w \in TouchWindow /\ n \in Nat
      BY WindowTypes DEF TypeOK
    <3>2. [w EXCEPT !.reserved = @ + n] \in TouchWindow
      BY <3>1 DEF TouchWindow
    <3>3. windows' = [SweptWindows EXCEPT ![s] = [w EXCEPT !.reserved = @ + n]]
      BY <1>1 DEF ReserveTouches, Reserve
    <3>4. windows' \in [Sub -> TouchWindow \cup {NoWindow}]
      BY <3>2, <3>3, WindowTypes DEF TypeOK
    <3> QED BY <1>1, <3>4 DEF ReserveTouches, Reserve, SweepStep, TypeOK, TouchTypeOK
  <2>2. epoch' \in [Sub -> Int] /\ disclosed' \in [Sub -> SUBSET Record]
          /\ straddled' \in [Sub -> Nat]
    BY <1>1 DEF ReserveTouches, RollEpoch, TypeOK, TouchTypeOK, history
  <2>3. [pc |-> "authorize", sub |-> s, want |-> n, home |-> epoch'[s]] \in Holding
    BY <2>2 DEF Holding
  <2>4. req' \in [Req -> {Idle} \cup Holding \cup Answered]
    BY <1>1, <2>3 DEF ReserveTouches, TypeOK
  <2>5. \A q \in Req : req'[q].pc = "settle" => Cardinality(req'[q].ids) <= req'[q].want
    BY <1>1 DEF ReserveTouches, TypeOK
  <2> QED BY <2>1, <2>2, <2>4, <2>5 DEF TypeOK
<1>2. ASSUME NEW r \in Req, NEW s \in Sub, CapExceeded(r, s)
      PROVE  TypeOK'
  <2>1. TouchTypeOK'
    <3> DEFINE w == CurrentWindow(SweptWindows, s)
    <3>1. windows' = [SweptWindows EXCEPT ![s] = w]
      BY <1>2 DEF CapExceeded, ReserveDenied
    <3>2. windows' \in [Sub -> TouchWindow \cup {NoWindow}]
      BY <3>1, WindowTypes DEF TypeOK
    <3> QED BY <1>2, <3>2 DEF CapExceeded, ReserveDenied, SweepStep, TypeOK, TouchTypeOK
  <2> QED BY <1>2, <2>1 DEF CapExceeded, RollEpoch, TypeOK, TouchTypeOK, history
<1>3. ASSUME NEW r \in Req, Authorize(r)
      PROVE  TypeOK'
  <2>1. req[r] \in Holding
    BY <1>3 DEF Authorize, TypeOK, Idle, Answered
  <2>2. /\ [req[r] EXCEPT !.pc = "query"] \in Holding
        /\ [req[r] EXCEPT !.pc = "release"] \in Holding
    BY <2>1 DEF Holding
  <2>3. \/ req' = [req EXCEPT ![r] = [req[r] EXCEPT !.pc = "query"]]
        \/ req' = [req EXCEPT ![r] = [req[r] EXCEPT !.pc = "release"]]
    BY <1>3 DEF Authorize, Goto
  <2>4. req' \in [Req -> {Idle} \cup Holding \cup Answered]
    BY <2>2, <2>3 DEF TypeOK
  <2>5. \A q \in Req : req'[q].pc = "settle" => Cardinality(req'[q].ids) <= req'[q].want
    BY <2>1, <2>2, <2>3 DEF TypeOK, Holding
  <2> QED BY <1>3, <2>4, <2>5 DEF Authorize, Goto, TypeOK, TouchTypeOK, touchVars, history
<1>4. ASSUME NEW r \in Req, NEW ids \in SUBSET Record, QueryReturns(r, ids)
      PROVE  TypeOK'
  <2>1. req[r].sub \in Sub /\ req[r].want \in 1..MaxPage /\ req[r].home \in Int
    BY <1>4, RequestFields DEF QueryReturns, InFlight
  <2>2. [pc |-> "settle", sub |-> req[r].sub, want |-> req[r].want,
         home |-> req[r].home, ids |-> ids] \in Answered
    BY <2>1 DEF Answered
  <2> QED BY <1>4, <2>2 DEF QueryReturns, TypeOK, TouchTypeOK, touchVars, history
<1>5. ASSUME NEW r \in Req, QueryFails(r)
      PROVE  TypeOK'
  <2>1. req[r] \in Holding
    BY <1>5 DEF QueryFails, TypeOK, Idle, Answered
  <2>2. [req[r] EXCEPT !.pc = "release"] \in Holding
    BY <2>1 DEF Holding
  <2> QED BY <1>5, <2>2 DEF QueryFails, Goto, TypeOK, TouchTypeOK, touchVars, history
<1>6. ASSUME NEW r \in Req, SettleAndRespond(r)
      PROVE  TypeOK'
  <2>1. /\ req[r].sub \in Sub /\ req[r].want \in Nat
        /\ req[r].ids \in SUBSET Record
    BY <1>6 DEF SettleAndRespond, TypeOK, Idle, Holding, Answered
  <2>2. TouchTypeOK'
    BY <1>6, <2>1, SettleType DEF SettleAndRespond, TypeOK, TouchTypeOK
  <2>3. straddled' \in [Sub -> Nat]
    BY <1>6, <2>1 DEF SettleAndRespond, CountStraddler, TypeOK
  <2>4. disclosed' \in [Sub -> SUBSET Record]
    BY <1>6, <2>1 DEF SettleAndRespond, TypeOK
  <2>5. req' = [req EXCEPT ![r] = Idle] /\ epoch' = epoch
    BY <1>6 DEF SettleAndRespond
  <2>6. \A q \in Req : req'[q].pc = "settle" => Cardinality(req'[q].ids) <= req'[q].want
    BY <2>5 DEF TypeOK, Idle
  <2> QED BY <2>2, <2>3, <2>4, <2>5, <2>6 DEF TypeOK
<1>7. ASSUME NEW r \in Req, Release(r)
      PROVE  TypeOK'
  <2>1. req[r].sub \in Sub /\ req[r].want \in Nat
    BY <1>7 DEF Release, TypeOK, Idle, Holding, Answered
  <2>2. TouchTypeOK'
    BY <1>7, <2>1, SettleType DEF Release, TypeOK, TouchTypeOK
  <2>3. straddled' \in [Sub -> Nat]
    BY <1>7, <2>1 DEF Release, CountStraddler, TypeOK
  <2>4. req' = [req EXCEPT ![r] = Idle] /\ epoch' = epoch /\ disclosed' = disclosed
    BY <1>7 DEF Release
  <2>5. \A q \in Req : req'[q].pc = "settle" => Cardinality(req'[q].ids) <= req'[q].want
    BY <2>4 DEF TypeOK, Idle
  <2> QED BY <2>2, <2>3, <2>4, <2>5 DEF TypeOK
<1>8. CASE Tick
  BY <1>8 DEF Tick, TypeOK, TouchTypeOK, touchVars, history
<1>9. CASE UNCHANGED vars
  BY <1>9 DEF vars, TypeOK, TouchTypeOK
<1> QED
  BY <1>1, <1>2, <1>3, <1>4, <1>5, <1>6, <1>7, <1>8, <1>9 DEF Next

\* TypeOK: the goroutines' records and the counter's windows keep their shape.
THEOREM TypeCorrect == Spec => []TypeOK
<1>1. Init => TypeOK
  BY TouchAssumption
     DEF Init, TouchInit, TypeOK, TouchTypeOK, Idle
<1> QED BY <1>1, TypeInvariant, PTL DEF Spec

-----------------------------------------------------------------------------
\* What Reserve sees.

\* The sweep removes only windows whose epoch is over.
LEMMA SweepFacts ==
  ASSUME TypeOK, WindowIsEpoch, NEW t \in Sub
  PROVE  \/ SweptWindows[t] = windows[t]
         \/ SweptWindows[t] = NoWindow /\ EpochOver(t)
<1>1. windows[t] # NoWindow => windows[t].start = epoch[t]
  BY DEF WindowIsEpoch
<1>2. epoch[t] \in Int /\ now \in Int /\ Window \in Nat
  BY TouchAssumption DEF TypeOK, TouchTypeOK
<1>3. Stale(windows[t]) => EpochOver(t)
  BY <1>1, <1>2 DEF Stale, EpochOver
<1> QED BY <1>3 DEF SweptWindows

\* currentWindow starts afresh exactly when the epoch is over.
LEMMA CurrentFacts ==
  ASSUME TypeOK, WindowIsEpoch, NEW s \in Sub
  PROVE  /\ EpochOver(s) => CurrentWindow(SweptWindows, s) = FreshWindow
         /\ ~EpochOver(s) => /\ windows[s] # NoWindow
                             /\ CurrentWindow(SweptWindows, s) = windows[s]
<1>1. windows[s] # NoWindow => (Expired(windows[s]) <=> EpochOver(s))
  BY DEF WindowIsEpoch, Expired, EpochOver
<1>2. windows[s] = NoWindow => EpochOver(s)
  BY DEF WindowIsEpoch
<1> QED BY <1>1, <1>2, SweepFacts DEF CurrentWindow

\* A fresh window has room, so a denial never begins an epoch.
LEMMA DenialKeepsEpoch ==
  ASSUME TypeOK, WindowIsEpoch, NEW s \in Sub, ReserveDenied(s)
  PROVE  ~EpochOver(s)
<1>1. HasRoom(FreshWindow)
  BY TouchAssumption, FS_EmptySet DEF HasRoom, FreshWindow
<1> QED BY <1>1, CurrentFacts DEF ReserveDenied

-----------------------------------------------------------------------------
\* How each step moves the tokens.

LEMMA TokensOfReserve ==
  ASSUME TypeOK, WindowIsEpoch, HomeReached,
         NEW r \in Req, NEW s \in Sub, NEW n \in 1..MaxPage, ReserveTouches(r, s, n)
  PROVE  /\ EpochOver(s) => Tokens(s)' = Units(r, n)
         /\ ~EpochOver(s) => /\ Tokens(s)' = Tokens(s) \cup Units(r, n)
                             /\ Tokens(s) \cap Units(r, n) = {}
         /\ \A t \in Sub \ {s} : Tokens(t)' = Tokens(t)
<1> DEFINE new == [pc |-> "authorize", sub |-> s, want |-> n, home |-> epoch'[s]]
<1>1. req' = [req EXCEPT ![r] = new] /\ ~InFlight(r)
  BY DEF ReserveTouches, InFlight
<1>2. req'[r] = new /\ \A q \in Req \ {r} : req'[q] = req[q]
  BY <1>1 DEF TypeOK
<1>3. n \in Nat /\ MaxPage \in Nat /\ \A i \in 1..MaxPage : i <= n <=> i \in 1..n
  BY HandlerAssumption
<1>4. epoch'[s] = IF EpochOver(s) THEN now ELSE epoch[s]
  BY DEF ReserveTouches, RollEpoch, TypeOK, history
<1>5. \A t \in Sub \ {s} : epoch'[t] = epoch[t]
  BY DEF ReserveTouches, RollEpoch, TypeOK, history
<1>6. \A u \in Units(r, n) : u \in Req \X (1..MaxPage) /\ u[1] = r /\ u[2] \in 1..n
  BY <1>3 DEF Units
<1>7. ASSUME NEW u \in Req \X (1..MaxPage), u[1] = r, u[2] <= n
      PROVE  u \in Units(r, n)
  <2>1. u = <<u[1], u[2]>> /\ u[2] \in 1..n
    BY <1>3, <1>7
  <2> QED BY <2>1, <1>7 DEF Units
<1>8. ASSUME NEW q \in Req, InFlight(q), req[q].sub = s, EpochOver(s)
      PROVE  req[q].home # now
  <2>1. req[q].home <= epoch[s] /\ req[q].home \in Int
    BY <1>8, RequestFields DEF HomeReached
  <2> QED BY <1>8, <2>1, TouchAssumption DEF EpochOver, TypeOK, TouchTypeOK
<1>9. EpochOver(s) => Tokens(s)' = Units(r, n)
  <2> SUFFICES ASSUME EpochOver(s) PROVE Tokens(s)' = Units(r, n)
    OBVIOUS
  <2>1. ASSUME NEW u \in Tokens(s)' PROVE u \in Units(r, n)
    <3>1. u \in Req \X (1..MaxPage) /\ u[1] \in Req
      BY DEF Tokens
    <3>2. u[1] = r
      BY <1>2, <1>4, <1>8, <3>1 DEF Tokens, InFlight
    <3>3. u[2] <= n
      BY <1>2, <3>2 DEF Tokens
    <3> QED BY <1>7, <3>1, <3>2, <3>3
  <2>2. ASSUME NEW u \in Units(r, n) PROVE u \in Tokens(s)'
    BY <1>2, <1>3, <1>4, <1>6 DEF Tokens, InFlight
  <2> QED BY <2>1, <2>2
<1>10. ~EpochOver(s) => Tokens(s)' = Tokens(s) \cup Units(r, n)
  <2> SUFFICES ASSUME ~EpochOver(s) PROVE Tokens(s)' = Tokens(s) \cup Units(r, n)
    OBVIOUS
  <2>1. ASSUME NEW u \in Tokens(s)' PROVE u \in Tokens(s) \cup Units(r, n)
    <3>1. u \in Req \X (1..MaxPage) /\ u[1] \in Req
      BY DEF Tokens
    <3>2. CASE u[1] = r
      <4>1. u[2] <= n
        BY <1>2, <3>2 DEF Tokens
      <4> QED BY <1>7, <3>1, <3>2, <4>1
    <3>3. CASE u[1] # r
      BY <1>2, <1>4, <3>1, <3>3 DEF Tokens, InFlight
    <3> QED BY <3>2, <3>3
  <2>2. ASSUME NEW u \in Units(r, n) PROVE u \in Tokens(s)'
    BY <1>2, <1>3, <1>4, <1>6 DEF Tokens, InFlight
  <2>3. ASSUME NEW u \in Tokens(s) PROVE u \in Tokens(s)'
    <3>1. u[1] # r /\ u[1] \in Req
      BY <1>1 DEF Tokens
    <3> QED BY <1>2, <1>4, <3>1 DEF Tokens, InFlight
  <2> QED BY <2>1, <2>2, <2>3
<1>11. Tokens(s) \cap Units(r, n) = {}
  BY <1>1, <1>6 DEF Tokens
<1>12. ASSUME NEW t \in Sub \ {s} PROVE Tokens(t)' = Tokens(t)
  <2>1. \A q \in Req : /\ InFlight(q)' /\ req'[q].sub = t <=> InFlight(q) /\ req[q].sub = t
                       /\ InFlight(q) /\ req[q].sub = t => req'[q] = req[q]
    BY <1>1, <1>2 DEF InFlight
  <2> QED BY <1>5, <2>1 DEF Tokens
<1> QED BY <1>9, <1>10, <1>11, <1>12

\* A step between Reserve and the end of the request keeps what it holds.
LEMMA TokensOfMove ==
  ASSUME TypeOK, NEW r \in Req, epoch' = epoch, InFlight(r), InFlight(r)',
         req'[r].sub = req[r].sub, req'[r].want = req[r].want,
         req'[r].home = req[r].home, \A q \in Req \ {r} : req'[q] = req[q],
         NEW t \in Sub
  PROVE  Tokens(t)' = Tokens(t)
BY DEF Tokens, InFlight

\* The end of a request gives back all its tokens, and only its own.
LEMMA TokensOfEnd ==
  ASSUME TypeOK, NEW r \in Req, InFlight(r), epoch' = epoch,
         req' = [req EXCEPT ![r] = Idle],
         NEW s \in Sub, s = req[r].sub, NEW n, n = req[r].want
  PROVE  /\ \A t \in Sub : t # s \/ Straddles(r) => Tokens(t)' = Tokens(t)
         /\ ~Straddles(r) => /\ Tokens(s)' = Tokens(s) \ Units(r, n)
                             /\ Units(r, n) \subseteq Tokens(s)
<1> DEFINE U == Units(r, n)
<1>1. s \in Sub /\ n \in 1..MaxPage /\ MaxPage \in Nat
  BY RequestFields, HandlerAssumption
<1>2. ~InFlight(r)' /\ \A q \in Req \ {r} : req'[q] = req[q]
  BY DEF TypeOK, InFlight, Idle
<1>3. \A t \in Sub : Tokens(t)' = {u \in Tokens(t) : u[1] # r}
  BY <1>2 DEF Tokens, InFlight
<1>4. ASSUME NEW t \in Sub, t # s \/ Straddles(r)
      PROVE  Tokens(t)' = Tokens(t)
  BY <1>3, <1>4 DEF Tokens, Straddles
<1>5. ASSUME ~Straddles(r) PROVE U \subseteq Tokens(s)
  BY <1>1, <1>5 DEF Tokens, Straddles, Units
<1>6. ASSUME NEW u \in Tokens(s) PROVE u[1] = r <=> u \in U
  <2>1. u = <<u[1], u[2]>> /\ u[2] \in 1..MaxPage
    BY DEF Tokens
  <2>2. u[1] = r => u[2] \in 1..n
    BY <1>1, <2>1 DEF Tokens
  <2> QED BY <2>1, <2>2 DEF Units
<1>7. Tokens(s)' = Tokens(s) \ U
  BY <1>1, <1>3, <1>6
<1> QED BY <1>4, <1>5, <1>7

-----------------------------------------------------------------------------
\* The inductive step, action by action.

\* Reserve: a fresh epoch starts with empty books; otherwise the room that was
\* checked covers the page that is booked.
LEMMA ReserveKeeps ==
  ASSUME IInv, TypeOK',
         NEW r \in Req, NEW s \in Sub, NEW n \in 1..MaxPage, ReserveTouches(r, s, n)
  PROVE  IInv'
<1> DEFINE w == CurrentWindow(SweptWindows, s)
<1> USE DEF IInv
<1>1. /\ n \in Nat /\ n <= MaxPage /\ MaxPage \in Nat /\ Cap \in Nat /\ Cap >= 1
      /\ Window \in Nat /\ now \in Nat /\ w \in TouchWindow /\ w.touched \in SUBSET Record
      /\ w.reserved \in Nat
  BY HandlerAssumption, TouchAssumption, WindowTypes DEF TypeOK, TouchTypeOK, TouchWindow
<1>2. /\ windows'[s] = [w EXCEPT !.reserved = @ + n]
      /\ \A t \in Sub \ {s} : windows'[t] = SweptWindows[t]
      /\ Cardinality(w.touched) + w.reserved < Cap
  BY WindowTypes DEF ReserveTouches, Reserve, HasRoom, TypeOK
<1>3. /\ windows'[s].start = w.start /\ windows'[s].touched = w.touched
      /\ windows'[s].reserved = w.reserved + n /\ windows'[s] # NoWindow
  <2>1. windows'[s] \in TouchWindow
    BY <1>1, <1>2 DEF TouchWindow
  <2> QED BY <1>1, <1>2, <2>1, TouchAssumption DEF TouchWindow
<1>4. /\ now' = now
      /\ \A t \in Sub \ {s} : epoch'[t] = epoch[t] /\ disclosed'[t] = disclosed[t]
                              /\ straddled'[t] = straddled[t]
      /\ EpochOver(s) => epoch'[s] = now /\ disclosed'[s] = {} /\ straddled'[s] = 0
      /\ ~EpochOver(s) => epoch'[s] = epoch[s] /\ disclosed'[s] = disclosed[s]
                          /\ straddled'[s] = straddled[s]
  BY DEF ReserveTouches, RollEpoch, history, TypeOK
<1>5. WindowIsEpoch'
  <2>1. ASSUME NEW t \in Sub \ {s}
        PROVE  /\ epoch'[t] <= now'
               /\ IF windows'[t] = NoWindow THEN EpochOver(t)' ELSE windows'[t].start = epoch'[t]
    BY <1>2, <1>4, SweepFacts DEF WindowIsEpoch, EpochOver
  <2>2. /\ epoch'[s] <= now' /\ windows'[s].start = epoch'[s]
    BY <1>1, <1>3, <1>4, CurrentFacts DEF WindowIsEpoch, FreshWindow
  <2> QED BY <1>3, <2>1, <2>2 DEF WindowIsEpoch
<1>6. HomeReached'
  <2>1. /\ \A q \in Req \ {r} : req'[q] = req[q]
        /\ req'[r].home = epoch'[s] /\ req'[r].sub = s
    BY DEF ReserveTouches, TypeOK
  <2>2. epoch[s] <= epoch'[s] /\ epoch'[s] \in Int /\ epoch[s] \in Int
    BY <1>4 DEF WindowIsEpoch, TypeOK
  <2>3. ASSUME NEW q \in Req \ {r}, InFlight(q)
        PROVE  req[q].home <= epoch'[req[q].sub]
    <3>1. req[q].sub \in Sub /\ req[q].home \in Int /\ req[q].home <= epoch[req[q].sub]
      BY <2>3, RequestFields DEF HomeReached
    <3> QED BY <1>4, <2>2, <3>1
  <2> QED BY <2>1, <2>2, <2>3 DEF HomeReached, InFlight
<1>7. DisclosedIsCounted'
  <2>1. \A t \in Sub \ {s} : windows'[t] # NoWindow => disclosed'[t] \subseteq windows'[t].touched
    BY <1>2, <1>4, SweepFacts DEF DisclosedIsCounted
  <2>2. disclosed'[s] \subseteq windows'[s].touched
    BY <1>3, <1>4, CurrentFacts DEF DisclosedIsCounted
  <2> QED BY <2>1, <2>2 DEF DisclosedIsCounted
<1>8. /\ \A t \in Sub \ {s} : Booked(t)' = Booked(t)
      /\ EpochOver(s) => Booked(s)' = n
      /\ ~EpochOver(s) => Booked(s)' = Booked(s) + n
  BY <1>1, TokensOfReserve, UnitsCount, AddUnits, BookedIsNat DEF Booked
<1>9. EpochOver(s) => w.reserved = 0
  BY CurrentFacts DEF FreshWindow
<1>10. ~EpochOver(s) => w = windows[s] /\ windows[s] # NoWindow
  BY CurrentFacts
<1>11. Booked(s) \in Nat /\ straddled[s] \in Nat /\ straddled'[s] \in Nat
  BY BookedIsNat DEF TypeOK
<1>12. NoBudgetLeak'
  <2>1. \A t \in Sub \ {s} : windows'[t] # NoWindow => windows'[t].reserved <= Booked(t)'
    BY <1>2, <1>8, SweepFacts DEF NoBudgetLeak
  <2>2. windows'[s].reserved <= Booked(s)'
    BY <1>1, <1>3, <1>8, <1>9, <1>10, <1>11 DEF NoBudgetLeak
  <2> QED BY <2>1, <2>2 DEF NoBudgetLeak
<1>13. InFlightCovered'
  <2>1. \A t \in Sub \ {s} :
          windows'[t] # NoWindow => Booked(t)' <= windows'[t].reserved + straddled'[t]
    BY <1>2, <1>4, <1>8, SweepFacts DEF InFlightCovered
  <2>2. Booked(s)' <= windows'[s].reserved + straddled'[s]
    <3>1. CASE EpochOver(s)
      BY <1>1, <1>3, <1>4, <1>8, <1>9, <1>11, <3>1
    <3>2. CASE ~EpochOver(s)
      <4>1. Booked(s) <= w.reserved + straddled[s]
        BY <1>10, <3>2 DEF InFlightCovered
      <4> QED BY <1>1, <1>3, <1>4, <1>8, <1>11, <3>2, <4>1
    <3> QED BY <3>1, <3>2
  <2> QED BY <2>1, <2>2 DEF InFlightCovered
<1>14. Ledger'
  <2>1. \A t \in Sub \ {s} :
          Cardinality(disclosed'[t]) + Booked(t)' <= Cap - 1 + MaxPage + straddled'[t]
    BY <1>4, <1>8 DEF Ledger
  <2>2. Cardinality(disclosed'[s]) + Booked(s)' <= Cap - 1 + MaxPage + straddled'[s]
    <3>1. CASE EpochOver(s)
      <4>1. Cardinality(disclosed'[s]) = 0
        BY <1>4, <3>1, FS_EmptySet, Zenon
      <4> QED BY <1>1, <1>4, <1>8, <3>1, <4>1
    <3>2. CASE ~EpochOver(s)
      <4>1. disclosed[s] \subseteq w.touched
        BY <1>10, <3>2 DEF DisclosedIsCounted
      <4>2. /\ Cardinality(disclosed[s]) <= Cardinality(w.touched)
            /\ Cardinality(disclosed[s]) \in Nat /\ Cardinality(w.touched) \in Nat
        BY <1>1, <4>1, RecordsSubset, RecordsCount
      <4>3. Booked(s) <= w.reserved + straddled[s]
        BY <1>10, <3>2 DEF InFlightCovered
      <4> QED BY <1>1, <1>2, <1>4, <1>8, <1>11, <3>2, <4>2, <4>3
    <3> QED BY <3>1, <3>2
  <2> QED BY <2>1, <2>2 DEF Ledger
<1> QED BY <1>5, <1>6, <1>7, <1>12, <1>13, <1>14

\* A denied Reserve may still sweep.
LEMMA DenialKeeps ==
  ASSUME IInv, TypeOK', NEW r \in Req, NEW s \in Sub, CapExceeded(r, s)
  PROVE  IInv'
<1> USE DEF IInv
<1>1. ~EpochOver(s) /\ ReserveDenied(s)
  BY DenialKeepsEpoch DEF CapExceeded
<1>2. UNCHANGED <<now, req, epoch, disclosed, straddled>>
  BY <1>1 DEF CapExceeded, RollEpoch, history
<1>3. windows'[s] = windows[s] /\ windows[s] # NoWindow
  BY <1>1, CurrentFacts, WindowTypes DEF ReserveDenied, TypeOK
<1>4. \A t \in Sub \ {s} : windows'[t] = SweptWindows[t]
  BY <1>1, WindowTypes DEF ReserveDenied, TypeOK
<1>5. \A t \in Sub : \/ windows'[t] = windows[t]
                     \/ windows'[t] = NoWindow /\ EpochOver(t)
  BY <1>3, <1>4, SweepFacts
<1>6. \A t \in Sub : Booked(t)' = Booked(t) /\ EpochOver(t)' = EpochOver(t)
  BY <1>2 DEF Booked, Tokens, InFlight, EpochOver
<1>7. WindowIsEpoch' /\ HomeReached'
  BY <1>2, <1>5, <1>6 DEF WindowIsEpoch, HomeReached, InFlight
<1>8. DisclosedIsCounted' /\ NoBudgetLeak' /\ InFlightCovered' /\ Ledger'
  BY <1>2, <1>5, <1>6 DEF DisclosedIsCounted, NoBudgetLeak, InFlightCovered, Ledger
<1> QED BY <1>7, <1>8

\* Authorize and the query move a request along; nothing else changes.
LEMMA MoveKeeps ==
  ASSUME IInv, TypeOK', NEW r \in Req, InFlight(r), InFlight(r)',
         req'[r].sub = req[r].sub, req'[r].want = req[r].want,
         req'[r].home = req[r].home, \A q \in Req \ {r} : req'[q] = req[q],
         UNCHANGED <<now, touchVars, history>>
  PROVE  IInv'
<1> USE DEF IInv, touchVars, history
<1>1. \A t \in Sub : Booked(t)' = Booked(t)
  BY TokensOfMove DEF Booked
<1>2. WindowIsEpoch'
  BY DEF WindowIsEpoch, EpochOver
<1>3. HomeReached'
  BY DEF HomeReached, InFlight
<1>4. DisclosedIsCounted' /\ NoBudgetLeak' /\ InFlightCovered' /\ Ledger'
  BY <1>1 DEF DisclosedIsCounted, NoBudgetLeak, InFlightCovered, Ledger
<1> QED BY <1>2, <1>3, <1>4

\* Settling ends a request: its own epoch's budget turns into disclosures, a
\* straddler's comes on top and is recorded as such.
LEMMA EndKeeps ==
  ASSUME IInv, TypeOK', NEW r \in Req, InFlight(r),
         NEW s \in Sub, s = req[r].sub, NEW n \in 1..MaxPage, n = req[r].want,
         NEW ids \in SUBSET Record, Cardinality(ids) <= n,
         Settle(s, ids, n), CountStraddler(r),
         disclosed' = [disclosed EXCEPT ![s] = @ \cup ids],
         req' = [req EXCEPT ![r] = Idle], now' = now, epoch' = epoch
  PROVE  IInv'
<1> USE DEF IInv
<1>1. /\ n \in Nat /\ MaxPage \in Nat /\ Cap \in Nat
      /\ \A t \in Sub : straddled[t] \in Nat /\ straddled'[t] \in Nat
  BY HandlerAssumption, TouchAssumption DEF TypeOK
<1>2. \A t \in Sub : windows[t] # NoWindow =>
        windows[t] \in TouchWindow /\ windows[t].reserved \in Nat
        /\ windows[t].touched \in SUBSET Record
  BY DEF TypeOK, TouchTypeOK, TouchWindow
<1>3. \A t \in Sub \ {s} : windows'[t] = windows[t] /\ disclosed'[t] = disclosed[t]
                           /\ straddled'[t] = straddled[t]
  BY DEF Settle, TypeOK, TouchTypeOK, CountStraddler
<1>S. windows[s] # NoWindow =>
        /\ windows'[s] = Settled(windows[s], ids, n)
        /\ Settled(windows[s], ids, n) \in TouchWindow
  BY <1>1, <1>2, SettledType DEF Settle, TypeOK, TouchTypeOK
<1>4. windows[s] = NoWindow <=> windows'[s] = NoWindow
  BY <1>S, TouchAssumption DEF Settle
<1>5. windows[s] # NoWindow =>
        /\ windows'[s].start = windows[s].start
        /\ windows'[s].touched = windows[s].touched \cup ids
        /\ windows'[s].reserved = LessReserved(windows[s], n)
  <2> SUFFICES ASSUME windows[s] # NoWindow
               PROVE  /\ windows'[s].start = windows[s].start
                      /\ windows'[s].touched = windows[s].touched \cup ids
                      /\ windows'[s].reserved = LessReserved(windows[s], n)
    OBVIOUS
  <2>1. /\ Settled(windows[s], ids, n).start = windows[s].start
        /\ Settled(windows[s], ids, n).touched = windows[s].touched \cup ids
        /\ Settled(windows[s], ids, n).reserved = LessReserved(windows[s], n)
    BY DEF Settled
  <2> QED BY <1>S, <2>1
<1>6. disclosed'[s] = disclosed[s] \cup ids
  BY DEF TypeOK
<1>7. straddled'[s] = IF Straddles(r) THEN straddled[s] + n ELSE straddled[s]
  BY DEF CountStraddler, TypeOK
<1>8. /\ \A t \in Sub : t # s \/ Straddles(r) => Booked(t)' = Booked(t)
      /\ ~Straddles(r) => Booked(s)' = Booked(s) - n
  <2>1. /\ \A t \in Sub : t # s \/ Straddles(r) => Tokens(t)' = Tokens(t)
        /\ ~Straddles(r) => /\ Tokens(s)' = Tokens(s) \ Units(r, n)
                            /\ Units(r, n) \subseteq Tokens(s)
    BY TokensOfEnd
  <2>2. IsFiniteSet(Tokens(s))
    BY BookedIsNat
  <2>3. Units(r, n) \subseteq Tokens(s) =>
          Cardinality(Tokens(s) \ Units(r, n)) = Cardinality(Tokens(s)) - n
    BY <1>1, <2>2, RemoveUnits
  <2> QED BY <2>1, <2>3 DEF Booked
<1>9. \A t \in Sub : Booked(t) \in Nat /\ Booked(t)' \in Nat
  BY BookedIsNat, BookedIsNatNext
<1>10. WindowIsEpoch'
  BY <1>3, <1>4, <1>5 DEF WindowIsEpoch, EpochOver
<1>11. HomeReached'
  BY DEF HomeReached, InFlight, TypeOK, Idle
<1>12. DisclosedIsCounted'
  BY <1>3, <1>4, <1>5, <1>6 DEF DisclosedIsCounted
<1>13. NoBudgetLeak'
  <2>1. \A t \in Sub \ {s} : windows'[t] # NoWindow => windows'[t].reserved <= Booked(t)'
    BY <1>3, <1>8 DEF NoBudgetLeak
  <2>2. windows'[s] # NoWindow => windows'[s].reserved <= Booked(s)'
    <3> SUFFICES ASSUME windows[s] # NoWindow PROVE windows'[s].reserved <= Booked(s)'
      BY <1>4
    <3>1. windows[s].reserved <= Booked(s) /\ windows[s].reserved \in Nat
      BY <1>2 DEF NoBudgetLeak
    <3> QED BY <1>1, <1>5, <1>8, <1>9, <3>1 DEF LessReserved
  <2> QED BY <2>1, <2>2 DEF NoBudgetLeak
<1>14. InFlightCovered'
  <2>1. \A t \in Sub \ {s} :
          windows'[t] # NoWindow => Booked(t)' <= windows'[t].reserved + straddled'[t]
    BY <1>3, <1>8 DEF InFlightCovered
  <2>2. windows'[s] # NoWindow => Booked(s)' <= windows'[s].reserved + straddled'[s]
    <3> SUFFICES ASSUME windows[s] # NoWindow
                 PROVE  Booked(s)' <= windows'[s].reserved + straddled'[s]
      BY <1>4
    <3>1. /\ Booked(s) <= windows[s].reserved + straddled[s]
          /\ windows[s].reserved \in Nat /\ windows[s].reserved <= Booked(s)
      BY <1>2 DEF InFlightCovered, NoBudgetLeak
    <3> QED BY <1>1, <1>5, <1>7, <1>8, <1>9, <3>1 DEF LessReserved
  <2> QED BY <2>1, <2>2 DEF InFlightCovered
<1>15. Ledger'
  <2>1. \A t \in Sub \ {s} :
          Cardinality(disclosed'[t]) + Booked(t)' <= Cap - 1 + MaxPage + straddled'[t]
    BY <1>3, <1>8 DEF Ledger
  <2>2. Cardinality(disclosed'[s]) + Booked(s)' <= Cap - 1 + MaxPage + straddled'[s]
    <3>1. disclosed[s] \in SUBSET Record /\ disclosed'[s] \in SUBSET Record
      BY DEF TypeOK
    <3>2. /\ Cardinality(disclosed'[s]) <= Cardinality(disclosed[s]) + n
          /\ Cardinality(disclosed[s]) \in Nat /\ Cardinality(disclosed'[s]) \in Nat
      <4>1. /\ Cardinality(disclosed[s]) \in Nat /\ Cardinality(disclosed'[s]) \in Nat
            /\ Cardinality(ids) \in Nat
        BY <3>1, RecordsCount
      <4>2. Cardinality(disclosed[s] \cup ids) <= Cardinality(disclosed[s]) + Cardinality(ids)
        BY <3>1, RecordsUnion
      <4>3. Cardinality(disclosed'[s]) <= Cardinality(disclosed[s]) + Cardinality(ids)
        BY <1>6, <4>2
      <4> HIDE DEF IInv
      <4> QED BY <1>1, <4>1, <4>3
    <3>3. Cardinality(disclosed[s]) + Booked(s) <= Cap - 1 + MaxPage + straddled[s]
      BY DEF Ledger
    <3> QED BY <1>1, <1>7, <1>8, <1>9, <3>2, <3>3
  <2> QED BY <2>1, <2>2 DEF Ledger
<1> QED BY <1>10, <1>11, <1>12, <1>13, <1>14, <1>15

LEMMA Inductive == IInv /\ [Next]_vars => IInv'
<1> SUFFICES ASSUME IInv, [Next]_vars PROVE IInv'
  OBVIOUS
<1>0. TypeOK /\ TypeOK'
  BY TypeInvariant DEF IInv
<1>1. ASSUME NEW r \in Req, NEW s \in Sub, NEW n \in 1..MaxPage, ReserveTouches(r, s, n)
      PROVE  IInv'
  BY <1>0, <1>1, ReserveKeeps
<1>2. ASSUME NEW r \in Req, NEW s \in Sub, CapExceeded(r, s)
      PROVE  IInv'
  BY <1>0, <1>2, DenialKeeps
<1>3. ASSUME NEW r \in Req, Authorize(r) \/ QueryFails(r)
      PROVE  IInv'
  <2>1. /\ InFlight(r) /\ InFlight(r)'
        /\ req'[r].sub = req[r].sub /\ req'[r].want = req[r].want
        /\ req'[r].home = req[r].home /\ \A q \in Req \ {r} : req'[q] = req[q]
    <3>1. req[r] \in Holding
      BY <1>0, <1>3 DEF Authorize, QueryFails, TypeOK, Idle, Answered
    <3> QED BY <1>0, <1>3, <3>1 DEF Authorize, QueryFails, Goto, InFlight, TypeOK, Holding
  <2> QED BY <1>0, <1>3, <2>1, MoveKeeps DEF Authorize, QueryFails
<1>4. ASSUME NEW r \in Req, NEW ids \in SUBSET Record, QueryReturns(r, ids)
      PROVE  IInv'
  <2>1. /\ InFlight(r) /\ InFlight(r)'
        /\ req'[r].sub = req[r].sub /\ req'[r].want = req[r].want
        /\ req'[r].home = req[r].home /\ \A q \in Req \ {r} : req'[q] = req[q]
    BY <1>0, <1>4 DEF QueryReturns, InFlight, TypeOK
  <2> QED BY <1>0, <1>4, <2>1, MoveKeeps DEF QueryReturns
<1>5. ASSUME NEW r \in Req, SettleAndRespond(r)
      PROVE  IInv'
  <2>1. /\ InFlight(r) /\ req[r].sub \in Sub /\ req[r].want \in 1..MaxPage
        /\ req[r].ids \in SUBSET Record /\ Cardinality(req[r].ids) <= req[r].want
    BY <1>0, <1>5 DEF SettleAndRespond, TypeOK, InFlight, Idle, Holding, Answered
  <2> QED BY <1>0, <1>5, <2>1, EndKeeps DEF SettleAndRespond
<1>6. ASSUME NEW r \in Req, Release(r)
      PROVE  IInv'
  <2>1. InFlight(r) /\ req[r].sub \in Sub /\ req[r].want \in 1..MaxPage
    BY <1>0, <1>6, RequestFields DEF Release, InFlight
  <2>2. Cardinality({}) <= req[r].want
    BY <2>1, HandlerAssumption, FS_EmptySet
  <2>3. disclosed' = [disclosed EXCEPT ![req[r].sub] = @ \cup {}]
    BY <1>0, <1>6, <2>1 DEF Release, TypeOK
  <2>4. /\ Settle(req[r].sub, {}, req[r].want) /\ CountStraddler(r) /\ {} \in SUBSET Record
        /\ req' = [req EXCEPT ![r] = Idle] /\ now' = now /\ epoch' = epoch
    BY <1>6 DEF Release
  <2> DEFINE s == req[r].sub
             n == req[r].want
  <2> HIDE DEF s, n
  <2>5. /\ s \in Sub /\ s = req[r].sub /\ n \in 1..MaxPage /\ n = req[r].want
        /\ Cardinality({}) <= n /\ Settle(s, {}, n)
        /\ disclosed' = [disclosed EXCEPT ![s] = @ \cup {}]
    BY <2>1, <2>2, <2>3, <2>4 DEF s, n
  <2> QED BY <1>0, <2>1, <2>4, <2>5, EndKeeps
<1>7. CASE Tick
  <2>1. /\ UNCHANGED <<windows, req, epoch, disclosed, straddled>>
        /\ now \in Nat /\ now' = now + 1 /\ \A s \in Sub : epoch[s] \in Int
    BY <1>0, <1>7 DEF Tick, touchVars, history, TypeOK, TouchTypeOK
  <2>2. \A t \in Sub : Booked(t)' = Booked(t)
    BY <2>1 DEF Booked, Tokens, InFlight
  <2>3. WindowIsEpoch'
    BY <2>1, TouchAssumption DEF IInv, WindowIsEpoch, EpochOver
  <2>4. HomeReached'
    BY <2>1 DEF IInv, HomeReached, InFlight
  <2>5. DisclosedIsCounted' /\ NoBudgetLeak' /\ InFlightCovered' /\ Ledger'
    BY <2>1, <2>2 DEF IInv, DisclosedIsCounted, NoBudgetLeak, InFlightCovered, Ledger
  <2> QED BY <1>0, <2>3, <2>4, <2>5 DEF IInv
<1>8. CASE UNCHANGED vars
  BY <1>8 DEF vars, IInv, TypeOK, TouchTypeOK, WindowIsEpoch, EpochOver, HomeReached,
              InFlight, DisclosedIsCounted, NoBudgetLeak, InFlightCovered, Ledger,
              Booked, Tokens
<1> QED
  BY <1>1, <1>2, <1>3, <1>4, <1>5, <1>6, <1>7, <1>8 DEF Next

LEMMA Initially == Init => IInv
<1> SUFFICES ASSUME Init PROVE IInv
  OBVIOUS
<1>1. TypeOK
  BY TouchAssumption DEF Init, TouchInit, TypeOK, TouchTypeOK, Idle
<1>2. \A s \in Sub : Tokens(s) = {}
  BY DEF Tokens, InFlight, Init, Idle
<1>3. \A s \in Sub : Booked(s) = 0 /\ Cardinality(disclosed[s]) = 0
  BY <1>2, FS_EmptySet DEF Booked, Init
<1>4. WindowIsEpoch /\ HomeReached
  BY TouchAssumption DEF WindowIsEpoch, HomeReached, EpochOver, InFlight, Init, TouchInit, Idle
<1>5. DisclosedIsCounted /\ NoBudgetLeak /\ InFlightCovered
  BY DEF DisclosedIsCounted, NoBudgetLeak, InFlightCovered, Init, TouchInit
<1>6. Ledger
  BY <1>3, TouchAssumption, HandlerAssumption DEF Ledger, Init
<1> QED BY <1>1, <1>4, <1>5, <1>6 DEF IInv

LEMMA Invariance == Spec => []IInv
BY Initially, Inductive, PTL DEF Spec

-----------------------------------------------------------------------------
\* The results.

\* The touch cap of search and read:any: between two rollovers a caller is shown at
\* most Cap - 1 records, one page, and what straddling requests brought.
THEOREM DisclosureCapHolds == Spec => []DisclosureCap
<1>1. IInv => DisclosureCap
  <2> SUFFICES ASSUME IInv, NEW s \in Sub
               PROVE  Cardinality(disclosed[s]) <= Cap - 1 + MaxPage + straddled[s]
    BY DEF DisclosureCap
  <2>1. Cardinality(disclosed[s]) + Booked(s) <= Cap - 1 + MaxPage + straddled[s]
    BY DEF IInv, Ledger
  <2>2. /\ Booked(s) \in Nat /\ Cardinality(disclosed[s]) \in Nat
        /\ straddled[s] \in Nat /\ Cap \in Nat /\ MaxPage \in Nat
    BY BookedIsNat, RecordsCount, TouchAssumption, HandlerAssumption DEF IInv, TypeOK
  <2> QED BY <2>1, <2>2
<1> QED BY <1>1, Invariance, PTL

\* The deferred release: a window never books more than the requests in flight hold.
THEOREM NoBudgetLeakHolds == Spec => []NoBudgetLeak
<1>1. IInv => NoBudgetLeak
  BY DEF IInv
<1> QED BY <1>1, Invariance, PTL

\* settle-then-release is exactly once: the booking covers the requests in flight,
\* but for what straddlers took from it.
THEOREM InFlightCoveredHolds == Spec => []InFlightCovered
<1>1. IInv => InFlightCovered
  BY DEF IInv
<1> QED BY <1>1, Invariance, PTL

\* Settle before the response: what a caller was shown is counted in its window.
THEOREM DisclosedIsCountedHolds == Spec => []DisclosedIsCounted
<1>1. IInv => DisclosedIsCounted
  BY DEF IInv
<1> QED BY <1>1, Invariance, PTL

=============================================================================
