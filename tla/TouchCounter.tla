---------------------------- MODULE TouchCounter ----------------------------
(***************************************************************************)
(* InProcessTouchCounter (internal/api/touchcounter.go): the cumulative    *)
(* cap on the distinct records one caller may be shown per window.         *)
(*                                                                         *)
(* Reserve and Settle each run under the counter's mutex, so each is one   *)
(* atomic action.  The DAO call of a request runs between its Reserve and  *)
(* its Settle without the mutex; module ProfileAPI composes the two.       *)
(*                                                                         *)
(* Time is counted in ticks.  A caller without a map entry has NoWindow.   *)
(***************************************************************************)
EXTENDS Integers, FiniteSets

CONSTANTS
  Sub,        \* callers: the sub claim of an access token
  Record,     \* ids of profile rows
  Cap,        \* c.cap (2,000 in production)
  Window,     \* c.window, in ticks (24 h in production)
  NoWindow    \* no entry in c.windows

TouchWindow == [start : Int, touched : SUBSET Record, reserved : Nat]

ASSUME TouchAssumption ==
  /\ IsFiniteSet(Record)
  /\ Cap \in Nat \ {0}
  /\ Window \in Nat \ {0}
  /\ NoWindow \notin TouchWindow

VARIABLES
  now,        \* the clock c.now() reads
  windows,    \* c.windows
  lastSweep   \* c.lastSweep

touchVars == <<windows, lastSweep>>

TouchTypeOK ==
  /\ now \in Nat
  /\ windows \in [Sub -> TouchWindow \cup {NoWindow}]
  /\ lastSweep \in Int

\* lastSweep starts as Go's zero time, long before any window.
TouchInit ==
  /\ now = 0
  /\ windows = [s \in Sub |-> NoWindow]
  /\ lastSweep = -Window

FreshWindow == [start |-> now, touched |-> {}, reserved |-> 0]

Expired(w) == now - w.start >= Window

\* currentWindow: the caller's window, a fresh one if there is none or it is over.
CurrentWindow(ws, s) ==
  IF ws[s] = NoWindow THEN FreshWindow
  ELSE IF Expired(ws[s]) THEN FreshWindow
  ELSE ws[s]

-----------------------------------------------------------------------------
\* sweepLocked: at most once per Window, drop the windows two Windows old.

SweepDue == now - lastSweep >= Window

Stale(w) == w # NoWindow /\ now - w.start >= 2 * Window

\* Regression: the sweep drops every window that existed at the last sweep, even
\* one that is still running.
SweptWindows_DropRunning ==
  IF SweepDue
  THEN [s \in Sub |-> IF windows[s] # NoWindow /\ now > windows[s].start
                      THEN NoWindow ELSE windows[s]]
  ELSE windows

SweptWindows ==
  IF SweepDue
  THEN [s \in Sub |-> IF Stale(windows[s]) THEN NoWindow ELSE windows[s]]
  ELSE windows

-----------------------------------------------------------------------------
\* Reserve(sub, n): admit while committed plus booked is below the cap, and book
\* the worst case n at once.

HasRoom(w) == Cardinality(w.touched) + w.reserved < Cap

SweepStep == lastSweep' = IF SweepDue THEN now ELSE lastSweep

\* Regression: the check-then-act shape Reserve replaced; nothing is booked
\* until the answer is known.
Reserve_CheckOnly(s, n) ==
  LET w == CurrentWindow(SweptWindows, s)
  IN  /\ HasRoom(w)
      /\ windows' = [SweptWindows EXCEPT ![s] = w]
      /\ SweepStep

Reserve(s, n) ==
  LET w == CurrentWindow(SweptWindows, s)
  IN  /\ HasRoom(w)
      /\ windows' = [SweptWindows EXCEPT ![s] = [w EXCEPT !.reserved = @ + n]]
      /\ SweepStep

ReserveDenied(s) ==
  LET w == CurrentWindow(SweptWindows, s)
  IN  /\ ~HasRoom(w)
      /\ windows' = [SweptWindows EXCEPT ![s] = w]
      /\ SweepStep

-----------------------------------------------------------------------------
\* Settle(sub, ids, n): record ids and give n back, in whatever window the caller
\* has now; a caller without a window is left alone.

\* Regression: the booking is not kept from going below zero.
LessReserved_Unclamped(w, n) == w.reserved - n

LessReserved(w, n) == IF w.reserved < n THEN 0 ELSE w.reserved - n

\* Regression: the ids of the answer are not recorded.
Settled_Uncounted(w, ids, n) ==
  [start |-> w.start, touched |-> w.touched, reserved |-> LessReserved(w, n)]

\* Regression: the caller's whole booking is cleared.
Settled_ClearAll(w, ids, n) ==
  [start |-> w.start, touched |-> w.touched \cup ids, reserved |-> 0]

Settled(w, ids, n) ==
  [start |-> w.start, touched |-> w.touched \cup ids, reserved |-> LessReserved(w, n)]

Settle(s, ids, n) ==
  /\ windows' = IF windows[s] = NoWindow THEN windows
                ELSE [windows EXCEPT ![s] = Settled(@, ids, n)]
  /\ UNCHANGED lastSweep

=============================================================================
