----------------------------- MODULE SweepProofs -----------------------------
(***************************************************************************)
(* What a finished run vouches for, for any rows, classes, windows, batch  *)
(* bound and schedule: FinishedMeansSwept, SuccessMeansSwept and           *)
(* OldestIsOldest, with the type invariant; what missed_slots counts       *)
(* (NoFalseSkips), by the multiples of the interval in a gap; and that     *)
(* each batch leaves less to do (BatchesBounded).                          *)
(*                                                                         *)
(* The rows' other writers may act between any two steps of a run.  What   *)
(* makes the claims stand is that a writer changes a row only in ways      *)
(* (Harmless) that a cutoff in the past does not notice.                   *)
(***************************************************************************)
EXTENDS Sweep, SequenceTheorems, FiniteSetTheorems, WellFoundedInduction, TLAPS

\* No row was left behind that was past its window at this start.
Swept(class, started) ==
  \A r \in Due(class, started) : profile[r].since >= started

\* Nor is one older than what was recorded.
Bounded(class, started, oldest) ==
  \A r \in In(class) :
    \/ profile[r].since >= started
    \/ oldest # None /\ ClockOf(profile[r]) >= oldest

\* A process belongs to a Job, and began in the past.
RunOK ==
  run # NoRun =>
    /\ job.active
    /\ run.started <= now
    /\ run.recorded => run.pc \in {"batch", "finish"}

\* What a run has swept so far.
RunSwept ==
  run # NoRun =>
    /\ ~run.failed => \A j \in DOMAIN allClasses :
                        j < run.k \/ run.pc = "prune" => Swept(allClasses[j], run.started)
    /\ run.pc = "finish" => /\ Swept(ThisClass, run.started)
                            /\ Bounded(ThisClass, run.started, run.oldest)

\* The row a run has recorded for its class is still the newest one.
OwnRecord ==
  run # NoRun /\ run.recorded =>
    table[ThisClass] # <<>> /\ table[ThisClass][1].started = run.started

\* What a finished row of the run store says is so.
RecordSound(class, rec) ==
  rec.finished # None =>
    Swept(class, rec.started) /\ Bounded(class, rec.started, rec.oldest)

TableSound ==
  \A c \in SweptClass : \A i \in DOMAIN table[c] :
    table[c][i].started <= now /\ RecordSound(c, table[c][i])

ClocksPast ==
  \A r \in Row : profile[r] # None => profile[r].created <= now /\ profile[r].updated <= now

IInv == TypeOK /\ ClocksPast /\ RunOK /\ RunSwept /\ OwnRecord /\ TableSound

-----------------------------------------------------------------------------
LEMMA Constants ==
  /\ IsFiniteSet(Row)
  /\ allClasses \in Seq(Class)
  /\ Len(allClasses) \in Nat \ {0} /\ DOMAIN allClasses = 1..Len(allClasses)
  /\ Window \in [SweptClass -> Nat]
  /\ maxRowsPerBatch \in Nat \ {0} /\ Interval \in Nat \ {0}
  /\ BackoffLimit \in Nat /\ RunRetention \in Nat /\ MaxTime \in Nat /\ MaxMoves \in Nat
  /\ MaxRowTime \in [0..Cardinality(Row) -> 0..MaxTime]
  /\ None \notin Int
<1>1. Len(allClasses) # 0
  BY SweepAssumption, EmptySeq
<1> QED BY <1>1, SweepAssumption, LenProperties

\* A set of times has a first and a last one.
LEMMA LeastExists ==
  ASSUME NEW S, S \subseteq Nat, S # {}
  PROVE  \E t \in S : \A u \in S : t <= u
<1>1. PICK t \in S : \A u \in S : ~(<<u, t>> \in OpToRel(<, Nat))
  BY NatLessThanWellFounded, WFMin
<1>2. \A u \in S : ~(u < t)
  BY <1>1 DEF OpToRel
<1> QED BY <1>2

LEMMA GreatestExists ==
  ASSUME NEW S, S \subseteq Time, S # {}
  PROVE  \E t \in S : \A u \in S : u <= t
<1> DEFINE B == {m \in Nat : \A u \in S : u <= m}
<1>1. MaxTime \in B
  BY Constants DEF Time
<1>2. PICK m \in B : \A b \in B : m <= b
  BY <1>1, LeastExists
<1>3. m \in S
  <2> SUFFICES ASSUME m \notin S PROVE FALSE
    OBVIOUS
  <2>1. \A u \in S : u <= m - 1 /\ u \in Nat
    BY Constants DEF Time
  <2>2. m - 1 \in B
    BY <2>1
  <2> QED BY <1>2, <2>2
<1> QED BY <1>2, <1>3

LEMMA Times ==
  /\ Time \subseteq Nat
  /\ \A t \in Time : t \in Int /\ t # None
BY Constants DEF Time

LEMMA LeastType ==
  ASSUME NEW S, S \subseteq Time
  PROVE  /\ Least(S) \in Time \cup {None}
         /\ \A u \in S : Least(S) # None /\ Least(S) <= u
<1>1. CASE S = {}
  BY <1>1 DEF Least
<1>2. CASE S # {}
  <2>1. \E t \in S : \A u \in S : t <= u
    <3>1. S \subseteq Nat
      BY Times
    <3> QED BY <1>2, <3>1, LeastExists
  <2>2. Least(S) \in S /\ \A u \in S : Least(S) <= u
    BY <1>2, <2>1 DEF Least
  <2>3. Least(S) # None
    BY <2>2, Times
  <2> QED BY <2>2, <2>3
<1> QED BY <1>1, <1>2

\* The fields of a process, a row and a record.
LEMMA RunFields ==
  ASSUME TypeOK, run.pc # "none" \/ run # NoRun
  PROVE  /\ run # NoRun /\ run \in Run
         /\ run.started \in Time /\ run.k \in DOMAIN allClasses
         /\ run.oldest \in Time \cup {None}
         /\ run.recorded \in BOOLEAN /\ run.failed \in BOOLEAN
         /\ ThisClass \in SweptClass
BY DEF TypeOK, Run, NoRun, ThisClass, SweptClass

LEMMA RowFields ==
  ASSUME NEW p \in Profile
  PROVE  /\ p.class \in Class
         /\ p.created \in Time /\ p.updated \in Time /\ p.since \in Time
         /\ ClockOf(p) \in Time
BY DEF Profile, ClockOf

LEMMA TableFields ==
  ASSUME TypeOK, NEW c \in SweptClass
  PROVE  /\ table[c] \in Seq(Record)
         /\ Len(table[c]) \in Nat /\ DOMAIN table[c] = 1..Len(table[c])
         /\ \A i \in DOMAIN table[c] : table[c][i] \in Record
<1>1. table[c] \in Seq(Record)
  BY DEF TypeOK
<1> QED BY <1>1, LenProperties, ElementOfSeq

-----------------------------------------------------------------------------
\* The rows and their writers.

\* A row made now, one that entered its class now, or one whose clock went ahead.
Harmless(p, q) ==
  \/ q = None
  \/ q.since = now
  \/ p # None /\ q.class = p.class /\ q.since = p.since /\ ClockOf(p) <= ClockOf(q)

RowsEvolve ==
  /\ now' = now
  /\ profile' \in [Row -> Profile \cup {None}]
  /\ moves' \in 0..MaxMoves
  /\ \A r \in Row :
       /\ Harmless(profile[r], profile'[r])
       /\ profile'[r] # None => profile'[r].created <= now /\ profile'[r].updated <= now

LEMMA SameRow ==
  ASSUME IInv
  PROVE  \A r \in Row : Harmless(profile[r], profile[r])
<1>1. \A r \in Row : profile[r] # None => ClockOf(profile[r]) <= ClockOf(profile[r])
  <2> TAKE r \in Row
  <2> HAVE profile[r] # None
  <2>1. profile[r] \in Profile
    BY DEF IInv, TypeOK
  <2>2. ClockOf(profile[r]) \in Int
    BY <2>1, RowFields, Times
  <2> QED BY <2>2
<1> QED BY <1>1 DEF Harmless

LEMMA RowsStay ==
  ASSUME IInv, UNCHANGED <<now, profile, moves>>
  PROVE  RowsEvolve
BY SameRow DEF RowsEvolve, IInv, TypeOK, ClocksPast

LEMMA SweptKept ==
  ASSUME IInv, RowsEvolve, NEW class \in SweptClass, NEW started \in Time, started <= now
  PROVE  /\ Swept(class, started) => Swept(class, started)'
         /\ \A oldest \in Time \cup {None} :
              Bounded(class, started, oldest) => Bounded(class, started, oldest)'
<1>1. \A r \in Row : profile'[r] # None =>
        /\ profile'[r] \in Profile /\ ClockOf(profile'[r]) \in Int
        /\ Harmless(profile[r], profile'[r])
        /\ profile[r] # None => ClockOf(profile[r]) \in Int
  <2> TAKE r \in Row
  <2> HAVE profile'[r] # None
  <2>1. profile'[r] \in Profile /\ Harmless(profile[r], profile'[r])
    BY DEF RowsEvolve
  <2>2. profile[r] # None => profile[r] \in Profile
    BY DEF IInv, TypeOK
  <2>3. \A p \in Profile : ClockOf(p) \in Int
    BY RowFields, Times
  <2> QED BY <2>1, <2>2, <2>3
<1>2. Window[class] \in Nat /\ now \in Int /\ started \in Int /\ now' = now
  BY Constants DEF IInv, TypeOK, Time, RowsEvolve
<1>3. \A r \in Due(class, started)' :
        /\ r \in Row /\ profile'[r] # None /\ profile'[r].class = class
        /\ ClockOf(profile'[r]) + Window[class] < started
  BY DEF Due, In, ClockOf
<1>4. \A r \in In(class)' : r \in Row /\ profile'[r] # None /\ profile'[r].class = class
  BY DEF In
<1>5. ASSUME Swept(class, started), NEW r \in Due(class, started)'
      PROVE  profile'[r].since >= started
  <2>1. CASE profile'[r].since = now
    BY <1>2, <2>1
  <2>2. CASE profile'[r].since # now
    <3>1. /\ profile[r] # None /\ profile[r].class = class
          /\ profile'[r].since = profile[r].since
          /\ ClockOf(profile[r]) <= ClockOf(profile'[r])
      BY <1>1, <1>3, <1>5, <2>2 DEF Harmless
    <3>2. r \in Due(class, started)
      BY <1>1, <1>2, <1>3, <1>5, <3>1 DEF Due, In
    <3> QED BY <1>5, <3>1, <3>2 DEF Swept
  <2> QED BY <2>1, <2>2
<1>6. ASSUME NEW oldest \in Time \cup {None}, Bounded(class, started, oldest),
             NEW r \in In(class)', profile'[r].since # now
      PROVE  \/ profile'[r].since >= started
             \/ oldest # None /\ ClockOf(profile'[r]) >= oldest
  <2>1. /\ profile[r] # None /\ profile[r].class = class
        /\ profile'[r].since = profile[r].since
        /\ ClockOf(profile[r]) <= ClockOf(profile'[r])
        /\ ClockOf(profile[r]) \in Int /\ ClockOf(profile'[r]) \in Int
    BY <1>1, <1>4, <1>6 DEF Harmless
  <2>2. \/ profile[r].since >= started
        \/ oldest # None /\ ClockOf(profile[r]) >= oldest
    BY <1>4, <1>6, <2>1 DEF Bounded, In
  <2>3. oldest # None => oldest \in Int
    BY DEF Time
  <2> QED BY <2>1, <2>2, <2>3
<1>7. Swept(class, started) => Swept(class, started)'
  BY <1>5 DEF Swept
<1>8. \A oldest \in Time \cup {None} :
        Bounded(class, started, oldest) => Bounded(class, started, oldest)'
  <2> TAKE oldest \in Time \cup {None}
  <2> HAVE Bounded(class, started, oldest)
  <2>1. \A r \in In(class)' : \/ profile'[r].since >= started
                              \/ oldest # None /\ ClockOf(profile'[r]) >= oldest
    <3> TAKE r \in In(class)'
    <3>1. CASE profile'[r].since = now
      BY <1>2, <3>1
    <3>2. CASE profile'[r].since # now
      BY <1>6, <3>2
    <3> QED BY <3>1, <3>2
  <2> QED BY <2>1 DEF Bounded, ClockOf
<1> QED BY <1>7, <1>8

LEMMA RecordKept ==
  ASSUME IInv, RowsEvolve, NEW c \in SweptClass, NEW rec \in Record, rec.started <= now,
         RecordSound(c, rec)
  PROVE  RecordSound(c, rec)'
<1>1. rec.started \in Time /\ rec.oldest \in Time \cup {None}
  BY DEF Record
<1> QED BY <1>1, SweptKept DEF RecordSound

LEMMA TableKept ==
  ASSUME IInv, RowsEvolve, table' = table
  PROVE  TableSound'
<1> SUFFICES ASSUME NEW c \in SweptClass, NEW i \in DOMAIN table[c]
             PROVE  table[c][i].started <= now /\ RecordSound(c, table[c][i])'
  BY DEF TableSound, RowsEvolve, RecordSound, Swept, Bounded
<1>1. table[c][i] \in Record
  BY TableFields DEF IInv
<1>2. table[c][i].started <= now /\ RecordSound(c, table[c][i])
  BY DEF IInv, TableSound
<1>3. \A rec \in Record : rec = table[c][i] => RecordSound(c, rec)'
  BY <1>2, RecordKept
<1> QED BY <1>1, <1>2, <1>3

\* Refreshed under a source, or moved to the other class of cached profiles.
LEMMA ChangedType ==
  ASSUME IInv, NEW p \in Profile, p.created <= now, p.updated <= now, NEW class \in Class
  PROVE  /\ LET q == Refreshed(p, class)
            IN  /\ q \in Profile /\ q.created <= now /\ q.updated = now
                /\ q.class = class
                /\ p # None => Harmless(p, q)
         /\ p.class # "direct" =>
              LET q == Moved(p)
              IN  /\ q \in Profile /\ q.created <= now /\ q.updated <= now
                  /\ q.class # p.class /\ q.class \in {"idp_cache", "idp_cache_orphan"}
                  /\ Harmless(p, q)
<1>1. /\ p.class \in Class /\ p.created \in Time /\ p.updated \in Time
      /\ p.since \in Time /\ now \in Time /\ now \in Int /\ p.updated \in Int
      /\ p.created \in Int
  BY RowFields, Times DEF IInv, TypeOK
<1>2. /\ Refreshed(p, class) \in Profile /\ Refreshed(p, class).class = class
      /\ Refreshed(p, class).created = p.created /\ Refreshed(p, class).updated = now
      /\ Refreshed(p, class).since = IF class = p.class THEN p.since ELSE now
  <2>1. (IF class = p.class THEN p.since ELSE now) \in Time
    BY <1>1
  <2> QED BY <1>1, <2>1 DEF Refreshed, Profile
<1>3. p # None => Harmless(p, Refreshed(p, class))
  BY <1>1, <1>2 DEF Harmless, ClockOf
<1>4. ASSUME p.class # "direct"
      PROVE  /\ Moved(p) \in Profile /\ Moved(p).created = p.created
             /\ Moved(p).updated = p.updated /\ Moved(p).since = now
             /\ Moved(p).class # p.class
             /\ Moved(p).class \in {"idp_cache", "idp_cache_orphan"}
  <2>1. (IF p.class = "idp_cache" THEN "idp_cache_orphan" ELSE "idp_cache") \in Class
    BY DEF Class
  <2> QED BY <1>1, <1>4, <2>1 DEF Moved, Profile, Class
<1> QED BY <1>1, <1>2, <1>3, <1>4 DEF Harmless

\* A candidate that was spared has a clock of now, or is in another class.
LEMMA SparedType ==
  ASSUME IInv, NEW p \in Profile, p # None, p.created <= now, p.updated <= now,
         NEW class \in Class, p.class = "idp_cache_orphan" => class # p.class
  PROVE  LET q == Spared(p, class)
         IN  /\ q \in Profile /\ Harmless(p, q)
             /\ q.created <= now /\ q.updated <= now
             /\ q.class = p.class => ClockOf(q) = now
<1>1. now \in Int
  BY Times DEF IInv, TypeOK
<1>2. CASE {p.class, class} = {"idp_cache", "idp_cache_orphan"}
  <2>1. p.class # "direct"
    BY <1>2
  <2> QED BY <1>2, <2>1, ChangedType DEF Spared
<1>3. CASE {p.class, class} # {"idp_cache", "idp_cache_orphan"}
  BY <1>1, <1>3, ChangedType DEF Spared, ClockOf
<1> QED BY <1>2, <1>3

LEMMA RunSweptKept ==
  ASSUME IInv, RowsEvolve, run' = run
  PROVE  RunSwept'
<1> SUFFICES ASSUME run # NoRun
             PROVE  RunSwept'
  BY DEF RunSwept
<1>1. run.started \in Time /\ run.oldest \in Time \cup {None} /\ ThisClass \in SweptClass
  BY RunFields DEF IInv
<1>2. run.started <= now
  BY DEF IInv, RunOK
<1>3. \A j \in DOMAIN allClasses : Swept(allClasses[j], run.started) =>
                                   Swept(allClasses[j], run.started)'
  <2> TAKE j \in DOMAIN allClasses
  <2>1. allClasses[j] \in SweptClass
    BY DEF SweptClass
  <2>2. \A c \in SweptClass, t \in Time : t = run.started =>
          (Swept(c, t) => Swept(c, t)')
    BY <1>2, SweptKept
  <2> QED BY <1>1, <2>1, <2>2 DEF Swept, Due, In
<1>4. \A c \in SweptClass :
        /\ Swept(c, run.started) => Swept(c, run.started)'
        /\ Bounded(c, run.started, run.oldest) => Bounded(c, run.started, run.oldest)'
  <2> TAKE c \in SweptClass
  <2>1. \A t \in Time, o \in Time \cup {None} : t = run.started /\ o = run.oldest =>
          /\ Swept(c, t) => Swept(c, t)'
          /\ Bounded(c, t, o) => Bounded(c, t, o)'
    BY <1>2, SweptKept
  <2> QED BY <1>1, <2>1 DEF Swept, Due, Bounded
<1> QED BY <1>1, <1>3, <1>4 DEF IInv, RunSwept, ThisClass

\* A step of the rows' other writers.
LEMMA WriterStep ==
  ASSUME IInv, RowsEvolve, UNCHANGED <<slot, job, run, table>>
  PROVE  IInv'
<1>1. TypeOK' /\ ClocksPast'
  BY DEF IInv, TypeOK, ClocksPast, RowsEvolve
<1>2. RunOK' /\ OwnRecord'
  BY DEF IInv, RunOK, OwnRecord, RowsEvolve, ThisClass
<1> QED BY <1>1, <1>2, RunSweptKept, TableKept DEF IInv

LEMMA InsertStep ==
  ASSUME IInv, NEW r \in Row, NEW class \in Class, Insert(r, class)
  PROVE  IInv'
<1> DEFINE p == [class |-> class, created |-> now, updated |-> now, since |-> now]
<1>1. /\ profile[r] = None /\ profile' = [profile EXCEPT ![r] = p]
      /\ UNCHANGED <<now, moves, slot, job, run, table>>
  BY DEF Insert
<1>2. now \in Time /\ now \in Int
  BY Times DEF IInv, TypeOK
<1>3. p \in Profile /\ p.since = now /\ p.created <= now /\ p.updated <= now
  BY <1>2 DEF Profile
<1> HIDE DEF p
<1>4. \A q \in Row : Harmless(profile[q], profile[q])
  BY SameRow
<1>5. RowsEvolve
  BY <1>1, <1>3, <1>4 DEF RowsEvolve, Harmless, IInv, TypeOK, ClocksPast
<1> QED BY <1>1, <1>5, WriterStep

LEMMA ChangeStep ==
  ASSUME IInv, NEW r \in Row, (\E c \in Class : Refresh(r, c)) \/ Move(r)
  PROVE  IInv'
<1> DEFINE p == profile[r]
<1>1. p # None /\ UNCHANGED <<now, slot, job, run, table>>
  BY DEF Refresh, Move
<1>2. p \in Profile /\ p.created <= now /\ p.updated <= now
  BY <1>1 DEF IInv, TypeOK, ClocksPast
<1>3. PICK q \in Profile : /\ profile' = [profile EXCEPT ![r] = q]
                           /\ q.created <= now /\ q.updated <= now /\ Harmless(p, q)
  <2>1. ASSUME NEW c \in Class, Refresh(r, c)
        PROVE  \E q \in Profile : /\ profile' = [profile EXCEPT ![r] = q]
                                  /\ q.created <= now /\ q.updated <= now /\ Harmless(p, q)
    <3>1. profile' = [profile EXCEPT ![r] = Refreshed(p, c)]
      BY <2>1 DEF Refresh
    <3>2. now \in Int
      BY Times DEF IInv, TypeOK
    <3>3. PICK q \in Profile :
            q = Refreshed(p, c) /\ q.created <= now /\ q.updated = now /\ Harmless(p, q)
      <4> HIDE DEF p
      <4> QED BY <1>1, <1>2, ChangedType
    <3>4. profile' = [profile EXCEPT ![r] = q]
      BY <3>1, <3>3
    <3>5. q.updated <= now
      BY <3>2, <3>3
    <3> HIDE DEF p
    <3> QED BY <3>3, <3>4, <3>5
  <2>2. CASE Move(r)
    <3>1. profile' = [profile EXCEPT ![r] = Moved(p)] /\ p.class # "direct"
      BY <2>2 DEF Move
    <3> HIDE DEF p
    <3>2. p.class \in Class
      BY <1>2, RowFields
    <3> QED BY <1>1, <1>2, <3>1, <3>2, ChangedType
  <2> QED BY <2>1, <2>2
<1>4. moves' \in 0..MaxMoves
  BY Constants DEF Refresh, Move, IInv, TypeOK
<1>5. \A d \in Row : Harmless(profile[d], profile[d])
  BY SameRow
<1>6. RowsEvolve
  BY <1>1, <1>3, <1>4, <1>5 DEF RowsEvolve, IInv, TypeOK, ClocksPast
<1> QED BY <1>1, <1>6, WriterStep

-----------------------------------------------------------------------------
\* The CronJob and the process as a whole.

\* Neither the rows nor the table change.
LEMMA NoRunStep ==
  ASSUME IInv, UNCHANGED <<now, profile, moves, table>>, run' = NoRun,
         slot' \in Time, job' \in {NoJob} \cup [active : {TRUE}, pods : 0..BackoffLimit]
  PROVE  IInv'
<1>1. RowsEvolve
  BY RowsStay
<1>2. TypeOK' /\ ClocksPast'
  BY DEF IInv, TypeOK, ClocksPast
<1>3. RunOK' /\ OwnRecord' /\ RunSwept'
  BY DEF RunOK, OwnRecord, RunSwept
<1> QED BY <1>1, <1>2, <1>3, TableKept DEF IInv

LEMMA PodFailedType ==
  ASSUME TypeOK, job.active, PodFailed
  PROVE  run' = NoRun /\ job' \in {NoJob} \cup [active : {TRUE}, pods : 0..BackoffLimit]
<1>1. job \in [active : {TRUE}, pods : 0..BackoffLimit]
  <2>1. NoJob.active = FALSE
    BY DEF NoJob
  <2> QED BY <2>1 DEF TypeOK
<1>2. job.pods \in 0..BackoffLimit /\ BackoffLimit \in Nat
  BY <1>1, Constants
<1>3. CASE job.pods > 0
  <2>1. job.pods - 1 \in 0..BackoffLimit
    BY <1>2, <1>3
  <2>2. [job EXCEPT !.pods = @ - 1] \in [active : {TRUE}, pods : 0..BackoffLimit]
    BY <1>1, <2>1
  <2> QED BY <1>3, <2>2 DEF PodFailed
<1>4. CASE ~(job.pods > 0)
  BY <1>4 DEF PodFailed
<1> QED BY <1>3, <1>4

LEMMA JobStep ==
  ASSUME IInv, StartJob \/ SkipSlot \/ Crash
  PROVE  IInv'
<1>1. CASE StartJob
  <2>1. run = NoRun
    BY <1>1 DEF StartJob, IInv, RunOK
  <2>2. [active |-> TRUE, pods |-> BackoffLimit] \in [active : {TRUE}, pods : 0..BackoffLimit]
    BY Constants
  <2> QED BY <1>1, <2>1, <2>2, NoRunStep DEF StartJob, IInv, TypeOK
<1>2. CASE SkipSlot
  <2>1. RowsEvolve
    BY <1>2, RowsStay DEF SkipSlot
  <2>2. TypeOK' /\ ClocksPast' /\ RunOK' /\ OwnRecord'
    BY <1>2 DEF SkipSlot, IInv, TypeOK, ClocksPast, RunOK, OwnRecord, ThisClass
  <2>3. TableSound' /\ RunSwept'
    BY <1>2, <2>1, TableKept, RunSweptKept DEF SkipSlot
  <2> QED BY <2>2, <2>3 DEF IInv
<1>3. CASE Crash
  <2>1. slot' \in Time
    BY <1>3 DEF Crash, IInv, TypeOK
  <2> QED BY <1>3, <2>1, PodFailedType, NoRunStep DEF Crash, IInv
<1> QED BY <1>1, <1>2, <1>3

LEMMA TickStep ==
  ASSUME IInv, Tick
  PROVE  IInv'
<1>1. /\ now \in Time /\ now' = now + 1 /\ now' \in Time /\ now \in Int
      /\ UNCHANGED <<profile, moves, slot, job, run, table>>
  <2>1. Cardinality(Present) \in 0..Cardinality(Row)
    BY Constants, FS_Subset, FS_CardinalityType DEF Present
  <2>2. MaxRowTime[Cardinality(Present)] \in 0..MaxTime
    BY <2>1, Constants
  <2> QED BY <2>2, Constants DEF Tick, IInv, TypeOK, Time
<1>2. TypeOK'
  BY <1>1 DEF IInv, TypeOK
<1>3. ClocksPast'
  <2>1. \A r \in Row : profile[r] # None =>
          profile[r].created \in Int /\ profile[r].updated \in Int
    BY Times DEF IInv, TypeOK, Profile
  <2> QED BY <1>1, <2>1 DEF IInv, ClocksPast
<1>4. RunOK'
  <2>1. run # NoRun => run.started \in Int
    BY RunFields, Times DEF IInv
  <2> QED BY <1>1, <2>1 DEF IInv, RunOK
<1>5. OwnRecord' /\ RunSwept'
  BY <1>1 DEF IInv, OwnRecord, RunSwept, ThisClass, Swept, Bounded, Due, In, ClockOf
<1>6. TableSound'
  <2> SUFFICES ASSUME NEW c \in SweptClass, NEW i \in DOMAIN table[c]
               PROVE  table[c][i].started <= now' /\ RecordSound(c, table[c][i])'
    BY <1>1 DEF TableSound, RecordSound, Swept, Bounded, Due, In, ClockOf
  <2>1. table[c][i].started <= now /\ RecordSound(c, table[c][i])
    BY DEF IInv, TableSound
  <2>2. table[c][i].started \in Int
    BY TableFields, Times DEF IInv, Record
  <2> QED BY <1>1, <2>1, <2>2 DEF RecordSound, Swept, Bounded, Due, In
<1> QED BY <1>2, <1>3, <1>4, <1>5, <1>6 DEF IInv

LEMMA LaunchStep ==
  ASSUME IInv, Launch
  PROVE  IInv'
<1> DEFINE r == [pc |-> "start", started |-> now, k |-> 1, recorded |-> FALSE,
                 failed |-> FALSE, oldest |-> None]
<1>1. /\ job.active /\ run' = r /\ UNCHANGED <<now, profile, moves, slot, job, table>>
  BY DEF Launch
<1>2. /\ r \in Run /\ r.started = now /\ ~r.recorded /\ r.pc = "start" /\ r.k = 1
      /\ r # NoRun
  <2>1. now \in Time /\ 1 \in DOMAIN allClasses
    BY Constants DEF IInv, TypeOK
  <2>2. r \in Run
    BY <2>1 DEF Run
  <2> QED BY <2>2 DEF NoRun
<1> HIDE DEF r
<1>3. now \in Int
  BY Times DEF IInv, TypeOK
<1>4. RowsEvolve
  BY <1>1, RowsStay
<1>5. TypeOK' /\ ClocksPast' /\ RunOK' /\ OwnRecord'
  <2>1. TypeOK'
    BY <1>1, <1>2 DEF IInv, TypeOK
  <2>2. ClocksPast'
    BY <1>1 DEF IInv, ClocksPast
  <2>3. RunOK' /\ OwnRecord'
    BY <1>1, <1>2, <1>3 DEF RunOK, OwnRecord
  <2> QED BY <2>1, <2>2, <2>3
<1>6. RunSwept'
  BY <1>1, <1>2, Constants DEF RunSwept
<1> QED BY <1>1, <1>4, <1>5, <1>6, TableKept DEF IInv

-----------------------------------------------------------------------------
\* The steps of a run.

\* The last finish is one of the recorded times, and what is missed since is no negative number.
LEMMA MissedType ==
  ASSUME TypeOK, NEW class \in SweptClass, NEW started \in Time
  PROVE  MissedSlots(class, started) \in Nat
<1>1. FinishTimes(class) \subseteq Time
  BY TableFields DEF FinishTimes, Record
<1>2. LastFinished(class) \in Time \cup {None}
  <2>1. CASE FinishTimes(class) = {}
    BY <2>1 DEF LastFinished
  <2>2. CASE FinishTimes(class) # {}
    <3>1. \E t \in FinishTimes(class) : \A u \in FinishTimes(class) : u <= t
      BY <1>1, <2>2, GreatestExists
    <3>2. LastFinished(class) \in FinishTimes(class)
      BY <2>2, <3>1 DEF LastFinished
    <3> QED BY <1>1, <3>2
  <2> QED BY <2>1, <2>2
<1>3. LastFinished(class) # None =>
        (started - LastFinished(class)) \div Interval - 1 \in Int
  <2> HAVE LastFinished(class) # None
  <2>1. LastFinished(class) \in Int /\ started \in Int
    BY <1>2, Times
  <2> DEFINE l == LastFinished(class)
             gap == started - l
  <2>2. gap \in Int
    <3>1. l \in Int
      BY <2>1
    <3> HIDE DEF l
    <3> QED BY <2>1, <3>1
  <2> HIDE DEF gap
  <2>3. gap \div Interval - 1 \in Int
    BY <2>2, Constants
  <2> QED BY <2>3 DEF gap
<1> QED BY <1>3 DEF MissedSlots

LEMMA RecordStartStep ==
  ASSUME IInv, RecordStart
  PROVE  IInv'
<1> DEFINE c == ThisClass
           rec == [started |-> run.started, finished |-> None, oldest |-> None,
                   missed |-> MissedSlots(c, run.started)]
<1>1. /\ run # NoRun /\ run \in Run /\ run.started \in Time /\ c \in SweptClass
      /\ run.pc = "start" /\ run.started <= now
  BY RunFields DEF RecordStart, NoRun, IInv, RunOK
<1>2. UNCHANGED <<now, profile, moves, slot, job>>
  BY DEF RecordStart
<1>3. RowsEvolve
  BY <1>2, RowsStay
<1>4. run' = [run EXCEPT !.pc = "batch", !.recorded = TRUE] \/ run' = [run EXCEPT !.pc = "batch"]
  BY DEF RecordStart
<1>5. /\ run' \in Run /\ run' # NoRun /\ run'.pc = "batch" /\ run'.started = run.started
      /\ run'.k = run.k /\ run'.failed = run.failed
  BY <1>1, <1>4 DEF Run, NoRun
<1>6. /\ \/ table' = Inserted(c, run.started)
         \/ table' = table
      /\ run'.recorded => table' = Inserted(c, run.started)
  <2>1. ~run.recorded
    BY <1>1 DEF IInv, RunOK
  <2> QED BY <1>1, <2>1 DEF RecordStart, Run
<1>7. rec \in Record /\ rec.started = run.started /\ rec.finished = None
  BY <1>1, MissedType DEF IInv, Record
<1>8. Inserted(c, run.started) = [table EXCEPT ![c] = <<rec>> \o table[c]]
  BY DEF Inserted
<1> HIDE DEF rec
<1>9. LET new == <<rec>> \o table[c]
      IN  /\ new \in Seq(Record) /\ new # <<>> /\ new[1] = rec
          /\ \A i \in DOMAIN new : new[i] = rec \/ \E j \in DOMAIN table[c] : new[i] = table[c][j]
  <2> DEFINE old == table[c]
             new == <<rec>> \o old
  <2>1. old \in Seq(Record) /\ Len(old) \in Nat /\ DOMAIN old = 1..Len(old)
    BY <1>1, TableFields DEF IInv
  <2>2. <<rec>> \in Seq(Record) /\ Len(<<rec>>) = 1 /\ <<rec>>[1] = rec
    BY <1>7
  <2> HIDE DEF old
  <2>3. /\ new \in Seq(Record) /\ Len(new) = 1 + Len(old)
        /\ \A i \in 1..1 + Len(old) : new[i] = IF i <= 1 THEN <<rec>>[i] ELSE old[i - 1]
    BY <2>1, <2>2, ConcatProperties
  <2> HIDE DEF new
  <2>4. DOMAIN new = 1..1 + Len(old)
    BY <2>3, LenProperties
  <2>5. new # <<>> /\ new[1] = rec
    BY <2>1, <2>2, <2>3, <2>4
  <2>6. \A i \in DOMAIN new : new[i] = rec \/ \E j \in DOMAIN old : new[i] = old[j]
    <3> TAKE i \in DOMAIN new
    <3>1. CASE i = 1
      BY <2>5, <3>1
    <3>2. CASE i # 1
      <4>1. i - 1 \in DOMAIN old /\ new[i] = old[i - 1]
        BY <2>1, <2>3, <2>4, <3>2
      <4> QED BY <4>1
    <3> QED BY <3>1, <3>2
  <2> QED BY <2>3, <2>5, <2>6 DEF new, old
<1>10. TypeOK' /\ ClocksPast'
  <2>1. table' \in [SweptClass -> Seq(Record)]
    <3> DEFINE new == <<rec>> \o table[c]
    <3>1. new \in Seq(Record) /\ table \in [SweptClass -> Seq(Record)]
      BY <1>9 DEF IInv, TypeOK
    <3>2. table' = table \/ table' = [table EXCEPT ![c] = new]
      BY <1>6, <1>8
    <3> HIDE DEF new
    <3> QED BY <1>1, <3>1, <3>2
  <2> QED BY <1>2, <1>5, <2>1 DEF IInv, TypeOK, ClocksPast
<1>11. RunOK'
  BY <1>1, <1>2, <1>5 DEF IInv, RunOK
<1>12. RunSwept'
  BY <1>1, <1>2, <1>5 DEF IInv, RunSwept, Swept, Due, In
<1>13. OwnRecord'
  <2>1. run'.recorded => table'[c] # <<>> /\ table'[c][1] = rec
    BY <1>1, <1>6, <1>8, <1>9 DEF IInv, TypeOK
  <2>2. ThisClass' = c
    BY <1>5 DEF ThisClass
  <2> QED BY <1>5, <1>7, <2>1, <2>2 DEF OwnRecord
<1>14. TableSound'
  <2>1. CASE table' = table
    BY <1>3, <2>1, TableKept
  <2>2. CASE table' = Inserted(c, run.started)
    <3> SUFFICES ASSUME NEW d \in SweptClass, NEW i \in DOMAIN table'[d]
                 PROVE  table'[d][i].started <= now /\ RecordSound(d, table'[d][i])
      BY <1>2 DEF TableSound, RecordSound, Swept, Bounded, Due, In, ClockOf
    <3>1. \/ table'[d][i] = rec
          \/ \E j \in DOMAIN table[d] : table'[d][i] = table[d][j]
      BY <1>1, <1>8, <1>9, <2>2 DEF IInv, TypeOK
    <3> QED BY <1>1, <1>7, <3>1 DEF IInv, TableSound, RecordSound
  <2> QED BY <1>6, <2>1, <2>2
<1> QED BY <1>10, <1>11, <1>12, <1>13, <1>14 DEF IInv

\* The class is over: what is known of the next one, or of the whole run.
LEMMA AfterClass ==
  ASSUME IInv, RowsEvolve, UNCHANGED job, run # NoRun,
         NEW r \in Run, r.started = run.started, r.k = run.k,
         r.failed \/ ~run.failed,
         run' = NextClass(r),
         NEW c, c = ThisClass, NEW started, started = run.started,
         ~r.failed => Swept(c, started)'
  PROVE  run' \in Run /\ RunOK' /\ RunSwept' /\ OwnRecord'
<1>1. /\ run \in Run /\ run.started \in Time /\ run.started <= now /\ job.active
      /\ run.k \in 1..Len(allClasses) /\ DOMAIN allClasses = 1..Len(allClasses)
      /\ Len(allClasses) \in Nat
  BY RunFields, Constants DEF IInv, RunOK
<1>2. PICK pc \in {"start", "prune"}, k \in DOMAIN allClasses :
        /\ run' = GoesTo(r, pc, k)
        /\ \/ pc = "start" /\ k = run.k + 1
           \/ pc = "prune" /\ k = run.k /\ k = Len(allClasses)
  BY <1>1 DEF NextClass
<1>3. /\ run' \in Run /\ run' # NoRun /\ run'.pc = pc /\ run'.k = k /\ ~run'.recorded
      /\ run'.started = run.started /\ run'.failed = r.failed
  <2>1. r.failed \in BOOLEAN /\ r.started \in Time
    BY DEF Run
  <2> QED BY <1>2, <2>1 DEF GoesTo, Run, NoRun
<1>4. RunOK'
  BY <1>1, <1>3 DEF RunOK, RowsEvolve
<1>5. OwnRecord'
  BY <1>3 DEF OwnRecord
<1>6. RunSwept'
  <2> SUFFICES ASSUME ~r.failed, NEW j \in DOMAIN allClasses, j < k \/ pc = "prune"
               PROVE  Swept(allClasses[j], started)'
    BY <1>3 DEF RunSwept, Swept, Due, In, ClockOf
  <2>1. ~run.failed
    OBVIOUS
  <2>2. CASE j = run.k
    <3>1. c = allClasses[j]
      BY <2>2 DEF ThisClass
    <3> QED BY <3>1 DEF Swept, Due, In, ClockOf
  <2>3. CASE j # run.k
    <3>1. j < run.k
      BY <1>1, <1>2, <2>3
    <3>2. Swept(allClasses[j], started)
      BY <2>1, <3>1 DEF IInv, RunSwept
    <3>3. allClasses[j] \in SweptClass /\ started \in Time /\ started <= now
      BY <1>1 DEF SweptClass
    <3> QED BY <3>2, <3>3, SweptKept
  <2> QED BY <2>2, <2>3
<1> QED BY <1>3, <1>4, <1>5, <1>6

\* What a batch does to the rows is as harmless as the writers that spare a candidate.
LEMMA DeletesEvolve ==
  ASSUME IInv, run # NoRun, NEW ids \in Candidates, NEW gone \in SUBSET ids,
         Deletes(ids, gone), now' = now
  PROVE  /\ RowsEvolve
         /\ moves' - moves \in Nat
         /\ \A r \in Row : /\ r \in gone => profile'[r] = None
                           /\ r \notin ids => profile'[r] = profile[r]
         /\ \A r \in ids : /\ r \in Row /\ profile[r] # None /\ profile[r].class = ThisClass
                           /\ profile'[r] # None /\ profile'[r].class = ThisClass =>
                                ClockOf(profile'[r]) = now
<1> DEFINE spared == ids \ gone
           c == ThisClass
<1>1. \A r \in ids : r \in Row /\ profile[r] # None /\ profile[r].class = c
  <2>1. ids \subseteq Due(c, run.started)
    BY DEF Candidates
  <2> QED BY <2>1 DEF Due, In
<1>2. Cardinality(spared) \in Nat /\ moves \in Nat
  <2>1. spared \in SUBSET Row
    BY <1>1
  <2>2. IsFiniteSet(spared)
    BY <2>1, Constants, FS_Subset
  <2> QED BY <2>2, FS_CardinalityType DEF IInv, TypeOK
<1>3. moves' \in 0..MaxMoves /\ moves' - moves \in Nat
  <2>1. moves' = moves + Cardinality(spared) /\ moves' <= MaxMoves
    BY DEF Deletes
  <2> QED BY <1>2, <2>1, Constants
<1>0. PICK becomes \in [spared -> Class] :
        /\ c = "idp_cache_orphan" => \A r \in spared : becomes[r] # c
        /\ profile' = [r \in Row |-> CASE r \in gone -> None
                                       [] r \in spared -> Spared(profile[r], becomes[r])
                                       [] OTHER -> profile[r]]
  BY DEF Deletes
<1>4. \A r \in spared : LET q == Spared(profile[r], becomes[r])
                        IN  /\ q \in Profile /\ Harmless(profile[r], q)
                            /\ q.created <= now /\ q.updated <= now
                            /\ q.class = c => ClockOf(q) = now
  <2> TAKE r \in spared
  <2>1. PICK p \in Profile : /\ p = profile[r] /\ p # None /\ p.class = c
                             /\ p.created <= now /\ p.updated <= now
    BY <1>1 DEF IInv, TypeOK, ClocksPast
  <2>2. PICK class \in Class : class = becomes[r] /\ (c = "idp_cache_orphan" => class # c)
    BY <1>0
  <2> HIDE DEF c, spared
  <2> QED BY <2>1, <2>2, SparedType
<1>5. \A r \in Row : profile'[r] = IF r \in gone THEN None
                                   ELSE IF r \in spared THEN Spared(profile[r], becomes[r])
                                   ELSE profile[r]
  BY <1>0
<1>6. profile' \in [Row -> Profile \cup {None}]
  <2>1. \A r \in Row : profile'[r] \in Profile \cup {None}
    BY <1>4, <1>5 DEF IInv, TypeOK
  <2> QED BY <1>0, <2>1
<1>7. \A r \in Row : /\ Harmless(profile[r], profile'[r])
                     /\ profile'[r] # None =>
                          profile'[r].created <= now /\ profile'[r].updated <= now
  <2> TAKE r \in Row
  <2>1. CASE r \in gone
    BY <1>5, <2>1 DEF Harmless
  <2>2. CASE r \in spared
    BY <1>4, <1>5, <2>2
  <2>3. CASE r \notin ids
    BY <1>5, <2>3, SameRow DEF IInv, ClocksPast
  <2> QED BY <2>1, <2>2, <2>3
<1>8. RowsEvolve
  BY <1>3, <1>6, <1>7 DEF RowsEvolve
<1>9. \A r \in ids : profile'[r] # None /\ profile'[r].class = c => ClockOf(profile'[r]) = now
  <2> TAKE r \in ids
  <2> HAVE profile'[r] # None /\ profile'[r].class = c
  <2>1. r \in spared /\ profile'[r] = Spared(profile[r], becomes[r])
    BY <1>1, <1>5
  <2> QED BY <1>4, <2>1 DEF ClockOf
<1> QED BY <1>1, <1>3, <1>5, <1>8, <1>9 DEF ClockOf

\* A batch that was not full drains its class, whatever its candidates became.
LEMMA BatchDrains ==
  ASSUME IInv, run # NoRun, NEW ids \in Candidates, NEW gone \in SUBSET ids,
         Deletes(ids, gone), now' = now,
         Drained(Cardinality(ids)),
         NEW c, c = ThisClass, NEW started, started = run.started,
         NEW oldest, oldest = OldestOf(c, gone)
  PROVE  Swept(c, started)' /\ oldest \in Time \cup {None} /\ Bounded(c, started, oldest)'
<1>1. /\ c \in SweptClass /\ started \in Int /\ started <= now /\ now \in Int
      /\ Window[c] \in Nat
  BY RunFields, Times, Constants DEF IInv, RunOK, TypeOK
<1>2. ids = Due(c, started)
  BY DEF Candidates, Drained
<1>3. /\ RowsEvolve
      /\ \A r \in Row : /\ r \in gone => profile'[r] = None
                        /\ r \notin ids => profile'[r] = profile[r]
      /\ \A r \in ids : profile'[r] # None /\ profile'[r].class = c => ClockOf(profile'[r]) = now
  BY DeletesEvolve
<1>4. ASSUME NEW r \in Row, profile'[r] # None, profile'[r].since < started
      PROVE  /\ r \notin gone /\ profile[r] # None /\ profile'[r].since = profile[r].since
             /\ profile'[r].class = profile[r].class
             /\ ClockOf(profile[r]) <= ClockOf(profile'[r])
             /\ ClockOf(profile[r]) \in Int /\ ClockOf(profile'[r]) \in Int
  <2>2. r \notin gone
    BY <1>3, <1>4
  <2>5. profile'[r].since # now
    BY <1>1, <1>4
  <2>6. /\ profile[r] # None /\ profile'[r].class = profile[r].class
        /\ profile'[r].since = profile[r].since
        /\ ClockOf(profile[r]) <= ClockOf(profile'[r])
    BY <1>3, <1>4, <2>5 DEF RowsEvolve, Harmless
  <2>8. ClockOf(profile[r]) \in Int /\ ClockOf(profile'[r]) \in Int
    <3>1. profile[r] \in Profile /\ profile'[r] \in Profile
      BY <1>3, <1>4, <2>6 DEF IInv, TypeOK, RowsEvolve
    <3>2. \A p \in Profile : ClockOf(p) \in Int
      BY RowFields, Times
    <3> QED BY <3>1, <3>2
  <2> QED BY <2>2, <2>6, <2>8
<1>5. ASSUME NEW r \in Due(c, started)'
      PROVE  profile'[r].since >= started
  <2>1. /\ r \in Row /\ profile'[r] # None /\ profile'[r].class = c
        /\ ClockOf(profile'[r]) + Window[c] < started
    BY DEF Due, In, ClockOf
  <2>2. profile'[r].since \in Int
    BY <1>3, <2>1, RowFields, Times DEF RowsEvolve
  <2> SUFFICES ASSUME profile'[r].since < started PROVE FALSE
    BY <1>1, <2>2
  <2>3. CASE r \in ids
    <3>1. ClockOf(profile'[r]) = now
      BY <1>3, <2>1, <2>3
    <3> QED BY <1>1, <2>1, <3>1
  <2>4. CASE r \notin ids
    <3>1. profile'[r] = profile[r]
      BY <1>3, <2>1, <2>4
    <3>2. r \in Due(c, started)
      BY <2>1, <3>1 DEF Due, In
    <3> QED BY <1>2, <2>4, <3>2
  <2> QED BY <2>3, <2>4
<1>6. oldest \in Time \cup {None}
      /\ \A r \in In(c) \ gone : oldest # None /\ oldest <= ClockOf(profile[r])
  <2> DEFINE S == {ClockOf(profile[r]) : r \in In(c) \ gone}
  <2>1. S \subseteq Time
    <3>1. \A r \in In(c) : profile[r] \in Profile
      BY DEF In, IInv, TypeOK
    <3> QED BY <3>1, RowFields
  <2> HIDE DEF S
  <2>2. Least(S) \in Time \cup {None} /\ \A u \in S : Least(S) # None /\ Least(S) <= u
    BY <2>1, LeastType
  <2> QED BY <2>2 DEF OldestOf, S
<1>7. ASSUME NEW r \in In(c)'
      PROVE  \/ profile'[r].since >= started
             \/ oldest # None /\ ClockOf(profile'[r]) >= oldest
  <2>1. r \in Row /\ profile'[r] # None /\ profile'[r].class = c
    BY DEF In
  <2>2. profile'[r].since \in Int
    BY <1>3, <2>1, RowFields, Times DEF RowsEvolve
  <2> SUFFICES ASSUME profile'[r].since < started
               PROVE  oldest # None /\ ClockOf(profile'[r]) >= oldest
    BY <1>1, <2>2
  <2>3. /\ r \in In(c) \ gone /\ ClockOf(profile[r]) <= ClockOf(profile'[r])
        /\ ClockOf(profile[r]) \in Int /\ ClockOf(profile'[r]) \in Int
    BY <1>4, <2>1 DEF In
  <2>4. oldest # None /\ oldest <= ClockOf(profile[r])
    BY <1>6, <2>3
  <2>5. oldest \in Int
    BY <1>6, <2>4, Times
  <2> QED BY <2>3, <2>4, <2>5
<1> QED BY <1>5, <1>6, <1>7 DEF Swept, Bounded

LEMMA BatchStep ==
  ASSUME IInv, Batch
  PROVE  IInv'
<1>0. PICK ids \in Candidates : \E gone \in SUBSET ids :
        /\ Deletes(ids, gone)
        /\ run' = IF Drained(Cardinality(ids))
                  THEN [run EXCEPT !.pc = "finish", !.oldest = OldestOf(ThisClass, gone)]
                  ELSE run
  BY DEF Batch
<1>1. PICK gone \in SUBSET ids :
        /\ Deletes(ids, gone)
        /\ run' = IF Drained(Cardinality(ids))
                  THEN [run EXCEPT !.pc = "finish", !.oldest = OldestOf(ThisClass, gone)]
                  ELSE run
  BY <1>0
<1>2. run.pc = "batch" /\ UNCHANGED <<now, slot, job, table>> /\ run # NoRun
  BY DEF Batch, NoRun
<1>3. RowsEvolve
  BY <1>1, <1>2, DeletesEvolve
<1>4. /\ run # NoRun /\ run \in Run /\ run.started \in Time /\ ThisClass \in SweptClass
      /\ run.started <= now /\ job.active
  BY <1>2, RunFields DEF NoRun, IInv, RunOK
<1>5. CASE ~Drained(Cardinality(ids))
  BY <1>1, <1>2, <1>3, <1>5, WriterStep
<1>6. CASE Drained(Cardinality(ids))
  <2>1. PICK c \in SweptClass, started \in Time : c = ThisClass /\ started = run.started
    BY <1>4
  <2>2. PICK oldest : oldest = OldestOf(c, gone)
    OBVIOUS
  <2>3. Swept(c, started)' /\ oldest \in Time \cup {None} /\ Bounded(c, started, oldest)'
    BY <1>1, <1>2, <1>4, <1>6, <2>1, <2>2, BatchDrains
  <2>4. /\ run' \in Run /\ run' # NoRun /\ run'.pc = "finish" /\ run'.started = started
        /\ run'.k = run.k /\ run'.failed = run.failed /\ run'.oldest = oldest
        /\ run'.recorded = run.recorded
    <3>1. run' = [run EXCEPT !.pc = "finish", !.oldest = oldest]
      BY <1>1, <1>6, <2>1, <2>2
    <3> QED BY <1>4, <2>1, <2>3, <3>1 DEF Run, NoRun
  <2>5. ThisClass' = c
    BY <2>1, <2>4 DEF ThisClass
  <2>6. TypeOK' /\ ClocksPast'
    BY <1>2, <1>3, <2>4 DEF IInv, TypeOK, ClocksPast, RowsEvolve
  <2>7. RunOK' /\ OwnRecord'
    BY <1>2, <1>4, <2>1, <2>4, <2>5 DEF IInv, RunOK, OwnRecord
  <2>8. RunSwept'
    <3>1. ASSUME ~run.failed, NEW j \in DOMAIN allClasses, j < run.k
          PROVE  Swept(allClasses[j], started)'
      <4>1. allClasses[j] \in SweptClass
        BY DEF SweptClass
      <4>2. Swept(allClasses[j], started)
        BY <1>4, <2>1, <3>1 DEF IInv, RunSwept
      <4> QED BY <1>3, <1>4, <2>1, <4>1, <4>2, SweptKept
    <3>2. Swept(ThisClass, run.started)' /\ Bounded(ThisClass, run.started, run.oldest)'
      BY <2>3, <2>4, <2>5 DEF Swept, Bounded, Due, In, ClockOf
    <3> QED BY <2>4, <3>1, <3>2 DEF RunSwept, Swept, Due, In, ClockOf
  <2> QED BY <1>2, <1>3, <2>6, <2>7, <2>8, TableKept DEF IInv
<1> QED BY <1>5, <1>6

LEMMA BatchFailsStep ==
  ASSUME IInv, BatchFails
  PROVE  IInv'
<1>1. /\ run.pc = "batch" /\ UNCHANGED <<now, slot, job, table>> /\ run # NoRun
      /\ run' = NextClass([run EXCEPT !.failed = TRUE])
  BY DEF BatchFails, ClassFailed, NoRun
<1>2. RowsEvolve
  <2>1. CASE \E ids \in Candidates : Deletes(ids, ids)
    <3>1. \A ids \in Candidates : ids \in SUBSET ids
      OBVIOUS
    <3> QED BY <1>1, <2>1, <3>1, DeletesEvolve
  <2>2. CASE UNCHANGED <<profile, moves>>
    BY <1>1, <2>2, RowsStay
  <2> QED BY <2>1, <2>2 DEF BatchFails
<1>3. run # NoRun /\ run \in Run /\ run.started \in Time /\ ThisClass \in SweptClass
  BY <1>1, RunFields DEF NoRun, IInv
<1>4. PICK r \in Run : /\ r = [run EXCEPT !.failed = TRUE]
                       /\ r.started = run.started /\ r.k = run.k /\ r.failed
  <2> DEFINE r == [run EXCEPT !.failed = TRUE]
  <2>1. r \in Run
    BY <1>3 DEF Run
  <2>2. r.started = run.started /\ r.k = run.k /\ r.failed
    BY <1>3 DEF Run
  <2> HIDE DEF r
  <2>3. \E q \in Run : q = r /\ q.started = run.started /\ q.k = run.k /\ q.failed
    BY <2>1, <2>2
  <2> QED BY <2>3 DEF r
<1>5. run' \in Run /\ RunOK' /\ RunSwept' /\ OwnRecord'
  <2>1. run' = NextClass(r) /\ UNCHANGED job
    BY <1>1, <1>4
  <2>2. PICK c \in SweptClass, started \in Time : c = ThisClass /\ started = run.started
    BY <1>3
  <2> QED BY <1>2, <1>3, <1>4, <2>1, <2>2, AfterClass
<1>6. TypeOK' /\ ClocksPast'
  BY <1>1, <1>2, <1>5 DEF IInv, TypeOK, ClocksPast, RowsEvolve
<1> QED BY <1>1, <1>2, <1>5, <1>6, TableKept DEF IInv

LEMMA RecordFinishStep ==
  ASSUME IInv, RecordFinish
  PROVE  IInv'
<1>1. /\ run.pc = "finish" /\ UNCHANGED <<now, profile, moves, slot, job>>
      /\ run' = NextClass(run)
      /\ \/ run.recorded /\ table' = FinishedRow(ThisClass, run.oldest)
         \/ table' = table
  BY DEF RecordFinish
<1>2. RowsEvolve
  BY <1>1, RowsStay
<1>3. /\ run # NoRun /\ run \in Run /\ run.started \in Time /\ ThisClass \in SweptClass
      /\ run.oldest \in Time \cup {None}
  BY <1>1, RunFields DEF NoRun, IInv
<1>4. PICK c \in SweptClass, started \in Time, oldest \in Time \cup {None} :
        c = ThisClass /\ started = run.started /\ oldest = run.oldest
  BY <1>3
<1>5. Swept(c, started) /\ Bounded(c, started, oldest) /\ started <= now
  BY <1>1, <1>3, <1>4 DEF IInv, RunSwept, RunOK
<1>6. Swept(c, started)' /\ Bounded(c, started, oldest)'
  BY <1>2, <1>5, SweptKept
<1>7. run' \in Run /\ RunOK' /\ RunSwept' /\ OwnRecord'
  <2>1. run.failed \/ ~run.failed
    OBVIOUS
  <2>2. UNCHANGED job
    BY <1>1
  <2> QED BY <1>1, <1>2, <1>3, <1>4, <1>6, <2>1, <2>2, AfterClass
<1>8. CASE table' = table
  <2>1. TypeOK' /\ ClocksPast'
    BY <1>1, <1>7, <1>8 DEF IInv, TypeOK, ClocksPast
  <2> QED BY <1>2, <1>7, <1>8, <2>1, TableKept DEF IInv
<1>9. CASE run.recorded /\ table' = FinishedRow(c, oldest)
  <2> DEFINE old == table[c]
             rec == [started |-> old[1].started, finished |-> now, oldest |-> oldest,
                     missed |-> old[1].missed]
  <2>1. /\ old \in Seq(Record) /\ Len(old) \in Nat /\ DOMAIN old = 1..Len(old)
        /\ \A i \in DOMAIN old : old[i] \in Record
    BY TableFields DEF IInv
  <2>2. 1 \in DOMAIN old /\ old[1].started = started
    <3>1. old # <<>> /\ old[1].started = started
      BY <1>3, <1>4, <1>9 DEF IInv, OwnRecord
    <3>2. Len(old) # 0
      BY <2>1, <3>1, EmptySeq
    <3> QED BY <2>1, <3>1, <3>2
  <2>3. rec \in Record /\ rec.started = started /\ rec.oldest = oldest
    <3>1. old[1].missed \in Nat
      BY <2>1, <2>2 DEF Record
    <3>2. now \in Time
      BY DEF IInv, TypeOK
    <3> QED BY <2>2, <3>1, <3>2 DEF Record
  <2>4. table' = [table EXCEPT ![c] = [old EXCEPT ![1] = rec]]
    BY <1>9 DEF FinishedRow
  <2> DEFINE new == [old EXCEPT ![1] = rec]
  <2> HIDE DEF rec
  <2>5. new \in Seq(Record) /\ DOMAIN new = DOMAIN old /\ new[1] = rec
        /\ \A i \in DOMAIN old : i # 1 => new[i] = old[i]
    <3> HIDE DEF old
    <3>1. new \in Seq(Record)
      BY <2>1, <2>2, <2>3, ExceptSeq
    <3> QED BY <2>1, <2>2, <3>1
  <2>6. table' = [table EXCEPT ![c] = new]
    BY <2>4
  <2>7. /\ table' \in [SweptClass -> Seq(Record)] /\ table'[c] = new
        /\ \A d \in SweptClass : d # c => table'[d] = table[d]
    <3> HIDE DEF new
    <3> QED BY <2>5, <2>6 DEF IInv, TypeOK
  <2>8. TypeOK' /\ ClocksPast'
    BY <1>1, <1>7, <2>7 DEF IInv, TypeOK, ClocksPast
  <2>9. TableSound'
    <3> SUFFICES ASSUME NEW d \in SweptClass, NEW i \in DOMAIN table'[d]
                 PROVE  table'[d][i].started <= now /\ RecordSound(d, table'[d][i])
      BY <1>1 DEF TableSound, RecordSound, Swept, Bounded, Due, In, ClockOf
    <3>1. \/ d = c /\ table'[d][i] = rec
          \/ \E j \in DOMAIN table[d] : table'[d][i] = table[d][j]
      <4> HIDE DEF new
      <4> QED BY <2>5, <2>7
    <3>2. CASE d = c /\ table'[d][i] = rec
      BY <1>5, <2>3, <3>2 DEF RecordSound
    <3>3. CASE \E j \in DOMAIN table[d] : table'[d][i] = table[d][j]
      BY <3>3 DEF IInv, TableSound
    <3> QED BY <3>1, <3>2, <3>3
  <2> QED BY <1>7, <2>8, <2>9 DEF IInv
<1> QED BY <1>1, <1>4, <1>8, <1>9

\* The rows that stay are among those that were there.
LEMMA PrunedRows ==
  ASSUME TypeOK, NEW cutoff \in Int
  PROVE  /\ Pruned(cutoff) \in [SweptClass -> Seq(Record)]
         /\ \A c \in SweptClass : \A i \in DOMAIN Pruned(cutoff)[c] :
              i \in DOMAIN table[c] /\ Pruned(cutoff)[c][i] = table[c][i]
<1>1. ASSUME NEW c \in SweptClass
      PROVE  /\ Pruned(cutoff)[c] \in Seq(Record)
             /\ \A i \in DOMAIN Pruned(cutoff)[c] :
                  i \in DOMAIN table[c] /\ Pruned(cutoff)[c][i] = table[c][i]
  <2> DEFINE old == table[c]
             kept == {i \in DOMAIN old : old[i].started >= cutoff}
             n == Cardinality(kept)
             new == SubSeq(old, 1, n)
  <2>1. old \in Seq(Record) /\ Len(old) \in Nat /\ DOMAIN old = 1..Len(old)
    BY TableFields
  <2>2. n \in Nat /\ n <= Len(old)
    <3>1. IsFiniteSet(1..Len(old)) /\ Cardinality(1..Len(old)) = Len(old)
      BY <2>1, FS_Interval
    <3>2. kept \subseteq 1..Len(old)
      BY <2>1
    <3> HIDE DEF kept
    <3>3. IsFiniteSet(kept) /\ n <= Len(old)
      BY <3>1, <3>2, FS_Subset
    <3> QED BY <3>3, FS_CardinalityType
  <2> HIDE DEF n
  <2>3. new \in Seq(Record) /\ Len(new) = n /\ \A i \in 1..n : new[i] = old[i]
    <3> HIDE DEF old
    <3> QED BY <2>1, <2>2, SubSeqProperties
  <2>4. Pruned(cutoff)[c] = new
    BY DEF Pruned, n
  <2>5. DOMAIN new = 1..n
    BY <2>3, LenProperties
  <2> HIDE DEF new
  <2> QED BY <2>1, <2>2, <2>3, <2>4, <2>5
<1>2. DOMAIN Pruned(cutoff) = SweptClass /\ Pruned(cutoff) = [c \in SweptClass |-> Pruned(cutoff)[c]]
  BY DEF Pruned
<1> QED BY <1>1, <1>2

LEMMA FinishStep ==
  ASSUME IInv, Finish
  PROVE  IInv'
<1>1. /\ run.pc = "prune" /\ UNCHANGED <<now, profile, moves, slot>>
      /\ table' = Pruned(run.started - RunRetention) \/ table' = table
      /\ PodFailed \/ (run' = NoRun /\ job' = NoJob)
  BY DEF Finish
<1>2. run # NoRun /\ job.active
  BY <1>1 DEF NoRun, IInv, RunOK
<1>3. run' = NoRun /\ job' \in {NoJob} \cup [active : {TRUE}, pods : 0..BackoffLimit]
  <2>1. CASE PodFailed
    BY <1>2, <2>1, PodFailedType DEF IInv
  <2>2. CASE run' = NoRun /\ job' = NoJob
    BY <2>2
  <2> QED BY <1>1, <2>1, <2>2
<1>4. RunOK' /\ RunSwept' /\ OwnRecord'
  BY <1>3 DEF RunOK, RunSwept, OwnRecord
<1>5. RowsEvolve
  BY <1>1, RowsStay
<1>6. CASE table' = table
  <2>1. TypeOK' /\ ClocksPast'
    BY <1>1, <1>3, <1>6 DEF IInv, TypeOK, ClocksPast
  <2> QED BY <1>4, <1>5, <1>6, <2>1, TableKept DEF IInv
<1>7. CASE table' = Pruned(run.started - RunRetention)
  <2>1. run.started - RunRetention \in Int
    <3>1. run.started \in Int
      BY <1>2, RunFields, Times DEF IInv
    <3> QED BY <3>1, Constants
  <2>2. /\ table' \in [SweptClass -> Seq(Record)]
        /\ \A c \in SweptClass : \A i \in DOMAIN table'[c] :
             i \in DOMAIN table[c] /\ table'[c][i] = table[c][i]
    BY <1>7, <2>1, PrunedRows DEF IInv
  <2>3. TypeOK' /\ ClocksPast'
    BY <1>1, <1>3, <2>2 DEF IInv, TypeOK, ClocksPast
  <2>4. TableSound'
    <3> SUFFICES ASSUME NEW c \in SweptClass, NEW i \in DOMAIN table'[c]
                 PROVE  table'[c][i].started <= now /\ RecordSound(c, table'[c][i])
      BY <1>1 DEF TableSound, RecordSound, Swept, Bounded, Due, In, ClockOf
    <3> QED BY <2>2 DEF IInv, TableSound
  <2> QED BY <1>4, <2>3, <2>4 DEF IInv
<1> QED BY <1>1, <1>6, <1>7

-----------------------------------------------------------------------------
LEMMA InitInvariant ==
  ASSUME Init
  PROVE  IInv
<1>1. 0 \in Time /\ <<>> \in Seq(Record)
  BY Constants DEF Time
<1>2. TypeOK
  BY <1>1, Constants DEF Init, TypeOK
<1>3. \A c \in SweptClass : DOMAIN table[c] = {}
  BY DEF Init
<1> QED BY <1>2, <1>3
        DEF IInv, Init, ClocksPast, RunOK, RunSwept, OwnRecord, TableSound

LEMMA StepInvariant ==
  ASSUME IInv, [Next]_vars
  PROVE  IInv'
<1>1. CASE \E r \in Row, c \in Class : Insert(r, c)
  BY <1>1, InsertStep
<1>2. CASE \E r \in Row : (\E c \in Class : Refresh(r, c)) \/ Move(r)
  BY <1>2, ChangeStep
<1>3. CASE StartJob \/ SkipSlot \/ Crash
  BY <1>3, JobStep
<1>4. CASE Tick
  BY <1>4, TickStep
<1>5. CASE Launch
  BY <1>5, LaunchStep
<1>6. CASE RecordStart
  BY <1>6, RecordStartStep
<1>7. CASE Batch
  BY <1>7, BatchStep
<1>8. CASE BatchFails
  BY <1>8, BatchFailsStep
<1>9. CASE RecordFinish
  BY <1>9, RecordFinishStep
<1>10. CASE Finish
  BY <1>10, FinishStep
<1>11. CASE UNCHANGED vars
  <2>1. UNCHANGED <<now, profile, moves, slot, job, run, table>>
    BY <1>11 DEF vars
  <2> QED BY <2>1, RowsStay, WriterStep
<1> QED
  BY <1>1, <1>2, <1>3, <1>4, <1>5, <1>6, <1>7, <1>8, <1>9, <1>10, <1>11 DEF Next, Sweeping

\* The invariant is what a run has swept so far, and that each finished row of the
\* table tells the truth: the steps of Run, DeleteExpired and the row's other writers.
THEOREM SweepInvariant == Spec => []IInv
<1>1. Init => IInv
  BY InitInvariant
<1>2. IInv /\ [Next]_vars => IInv'
  BY StepInvariant
<1> QED BY <1>1, <1>2, PTL DEF Spec

\* Every variable has its type: missed_slots of StartRun is no negative number, and
\* PodFailed never starts more pods than backoffLimit.
THEOREM SweepTypeCorrect == Spec => []TypeOK
<1>1. IInv => TypeOK
  BY DEF IInv
<1> QED BY <1>1, SweepInvariant, PTL

\* A row of retention_sweep_run that is finished (FinishRun) left no row behind that
\* was past its window at the start of its run.
THEOREM FinishedMeansSweptHolds == Spec => []FinishedMeansSwept
<1>1. IInv => FinishedMeansSwept
  BY DEF IInv, TableSound, RecordSound, Swept, FinishedMeansSwept
<1> QED BY <1>1, SweepInvariant, PTL

\* A run that Run returns from without an error has swept every class.
THEOREM SuccessMeansSweptHolds == Spec => []SuccessMeansSwept
<1>1. ASSUME IInv PROVE SuccessMeansSwept
  <2> SUFFICES ASSUME run.pc = "prune", ~run.failed, NEW c \in SweptClass
               PROVE  Swept(c, run.started)
    BY DEF SuccessMeansSwept, Swept
  <2>1. run # NoRun
    BY DEF NoRun
  <2>2. PICK j \in DOMAIN allClasses : c = allClasses[j]
    BY DEF SweptClass
  <2> QED BY <1>1, <2>1, <2>2 DEF IInv, RunSwept
<1> QED BY <1>1, SweepInvariant, PTL

\* oldest_surviving_at of a finished row bounds the clock of every row that was in
\* the class at the start of its run.
THEOREM OldestIsOldestHolds == Spec => []OldestIsOldest
<1>1. IInv => OldestIsOldest
  BY DEF IInv, TableSound, RecordSound, Bounded, OldestIsOldest
<1> QED BY <1>1, SweepInvariant, PTL

-----------------------------------------------------------------------------
\* What missed_slots counts.

\* The number of scheduled times between a finish and a start bounds a row's count.
Justified(rec, before) ==
  before.finished # None =>
    rec.missed <= Cardinality({t \in before.finished + 1..rec.started - 1 : Scheduled(t)})

LEMMA Quotient ==
  ASSUME NEW a \in Int
  PROVE  /\ a \div Interval \in Int
         /\ (a \div Interval) * Interval <= a
         /\ a < (a \div Interval) * Interval + Interval
BY Constants

LEMMA Multiple ==
  ASSUME NEW m \in Int
  PROVE  m * Interval \in Int /\ (m * Interval) % Interval = 0
BY Constants

LEMMA MultipleOrder ==
  ASSUME NEW m \in Int, NEW n \in Int
  PROVE  /\ m <= n => m * Interval <= n * Interval
         /\ m * Interval = n * Interval => m = n
         /\ (m + n) * Interval = m * Interval + n * Interval
BY Constants

\* A gap of more than n intervals holds n scheduled times: the multiples that follow
\* the last one that is not in it.
LEMMA TimesBetween ==
  ASSUME NEW b \in Nat, NEW s \in Int, NEW n \in Nat, (n + 1) * Interval <= s - b
  PROVE  n <= Cardinality({t \in b + 1..s - 1 : Scheduled(t)})
<1> DEFINE d == b \div Interval
           S == {t \in b + 1..s - 1 : Scheduled(t)}
           f == [k \in 1..n |-> (d + k) * Interval]
<1>1. d \in Int /\ d * Interval <= b /\ b < d * Interval + Interval
  BY Quotient
<1> HIDE DEF d
<1>2. Interval \in Nat \ {0} /\ d * Interval \in Int
  BY <1>1, Constants, Multiple
<1>3. (n + 1) * Interval = n * Interval + Interval /\ n * Interval \in Int
  BY <1>2, MultipleOrder, Multiple
<1>4. ASSUME NEW k \in 1..n
      PROVE  (d + k) * Interval \in S
  <2>0. k \in Int /\ n \in Int /\ k <= n /\ 1 <= k
    OBVIOUS
  <2>1. (d + k) * Interval = d * Interval + k * Interval /\ k * Interval \in Int
    BY <1>1, <2>0, MultipleOrder, Multiple
  <2>2. k * Interval <= n * Interval /\ 1 * Interval <= k * Interval
    <3>1. \A m, l \in Int : m <= l => m * Interval <= l * Interval
      BY MultipleOrder
    <3> QED BY <2>0, <3>1
  <2>3. (d + k) * Interval \in b + 1..s - 1
    BY <1>1, <1>2, <1>3, <2>0, <2>1, <2>2
  <2>4. (d + k) * Interval % Interval = 0
    BY <1>1, <2>0, Multiple
  <2> QED BY <2>3, <2>4 DEF Scheduled
<1>5. f \in [1..n -> S]
  BY <1>4
<1>6. ASSUME NEW k \in 1..n, NEW l \in 1..n, f[k] = f[l]
      PROVE  k = l
  <2>1. (d + k) * Interval = (d + l) * Interval
    BY <1>6
  <2>2. d + k = d + l
    BY <1>1, <2>1, MultipleOrder
  <2> QED BY <1>1, <2>2
<1>7. f \in Injection(1..n, S)
  BY <1>5, <1>6 DEF Injection, IsInjective
<1>8. IsFiniteSet(S)
  <2>1. IsFiniteSet(b + 1..s - 1)
    BY FS_Interval
  <2>2. S \in SUBSET (b + 1..s - 1)
    OBVIOUS
  <2> QED BY <2>1, <2>2, FS_Subset
<1>9. Cardinality(1..n) <= Cardinality(S)
  <2> HIDE DEF f, S
  <2> QED BY <1>7, <1>8, FS_Injection
<1>10. Cardinality(1..n) = n
  BY FS_Interval
<1> QED BY <1>9, <1>10

\* The last finish is none of the earlier ones.
LEMMA LastFinishedIsLast ==
  ASSUME TypeOK, NEW c \in SweptClass, NEW i \in DOMAIN table[c], table[c][i].finished # None
  PROVE  /\ LastFinished(c) \in Time
         /\ LastFinished(c) # None
         /\ table[c][i].finished \in Time
         /\ table[c][i].finished <= LastFinished(c)
<1>1. FinishTimes(c) \subseteq Time
  BY TableFields DEF FinishTimes, Record
<1>2. table[c][i].finished \in FinishTimes(c)
  BY DEF FinishTimes
<1>3. \E t \in FinishTimes(c) : \A u \in FinishTimes(c) : u <= t
  BY <1>1, <1>2, GreatestExists
<1>4. /\ LastFinished(c) \in FinishTimes(c)
      /\ \A u \in FinishTimes(c) : u <= LastFinished(c)
  BY <1>2, <1>3 DEF LastFinished
<1> QED BY <1>1, <1>2, <1>4 DEF FinishTimes

LEMMA MissedJustified ==
  ASSUME TypeOK, NEW c \in SweptClass, NEW started \in Time, NEW i \in DOMAIN table[c],
         NEW rec, rec.started = started, rec.missed = MissedSlots(c, started)
  PROVE  Justified(rec, table[c][i])
<1> SUFFICES ASSUME table[c][i].finished # None
             PROVE  MissedSlots(c, started) <=
                      Cardinality({t \in table[c][i].finished + 1..started - 1 : Scheduled(t)})
  BY DEF Justified
<1> DEFINE last == LastFinished(c)
           b == table[c][i].finished
           gap == started - last
           slots == gap \div Interval - 1
<1>1. last \in Nat /\ last # None /\ b \in Nat /\ b <= last /\ started \in Nat
  BY LastFinishedIsLast, Times
<1>2. MissedSlots(c, started) = IF slots > 0 THEN slots ELSE 0
  BY <1>1 DEF MissedSlots
<1> HIDE DEF last, b
<1>3. gap \in Int /\ gap <= started - b
  BY <1>1
<1> HIDE DEF gap
<1>4. gap \div Interval \in Int /\ (gap \div Interval) * Interval <= gap
  BY <1>3, Quotient
<1>5. slots \in Int /\ gap \div Interval = slots + 1
  BY <1>4
<1> HIDE DEF slots
<1>6. PICK n \in Nat : n = MissedSlots(c, started) /\ (n = slots \/ n = 0)
  BY <1>2, <1>5
<1>7. CASE n = slots
  <2>1. (n + 1) * Interval <= gap
    BY <1>4, <1>5, <1>7
  <2>2. (n + 1) * Interval \in Int
    BY Multiple
  <2>3. (n + 1) * Interval <= started - b
    BY <1>1, <1>3, <2>1, <2>2
  <2> QED BY <1>1, <1>6, <2>3, TimesBetween DEF b
<1>8. CASE n = 0
  <2>1. IsFiniteSet({t \in b + 1..started - 1 : Scheduled(t)})
    <3>1. IsFiniteSet(b + 1..started - 1)
      BY <1>1, FS_Interval
    <3>2. {t \in b + 1..started - 1 : Scheduled(t)} \in SUBSET (b + 1..started - 1)
      OBVIOUS
    <3> QED BY <3>1, <3>2, FS_Subset
  <2>2. Cardinality({t \in b + 1..started - 1 : Scheduled(t)}) \in Nat
    BY <2>1, FS_CardinalityType
  <2> QED BY <1>6, <1>8, <2>2 DEF b
<1> QED BY <1>6, <1>7, <1>8

LEMMA SkipsSplit ==
  NoFalseSkips <=>
    \A c \in SweptClass : \A i, j \in DOMAIN table[c] :
      i < j => Justified(table[c][i], table[c][j])
BY DEF NoFalseSkips, Justified

\* A new row counts from the finishes that are there; the others move down by one.
LEMMA RecordStartSkips ==
  ASSUME TypeOK, NoFalseSkips, RecordStart
  PROVE  NoFalseSkips'
<1>1. CASE table' = table
  BY <1>1 DEF NoFalseSkips, Scheduled
<1>2. CASE table' = Inserted(ThisClass, run.started)
  <2> DEFINE c == ThisClass
             rec == [started |-> run.started, finished |-> None, oldest |-> None,
                     missed |-> MissedSlots(c, run.started)]
             old == table[c]
             new == <<rec>> \o old
  <2>1. c \in SweptClass /\ run.started \in Time
    BY RunFields DEF RecordStart
  <2>2. old \in Seq(Record) /\ Len(old) \in Nat /\ DOMAIN old = 1..Len(old)
    BY <2>1, TableFields
  <2>3. rec \in Record
    BY <2>1, MissedType DEF Record
  <2>4. \A i \in DOMAIN old : Justified(rec, old[i])
    <3> TAKE i \in DOMAIN old
    <3>1. rec.started = run.started /\ rec.missed = MissedSlots(c, run.started)
      OBVIOUS
    <3> HIDE DEF rec, c
    <3>2. \A cc \in SweptClass, t \in Time : cc = c /\ t = run.started =>
            \A k \in DOMAIN table[cc] : Justified(rec, table[cc][k])
      BY <3>1, MissedJustified
    <3> QED BY <2>1, <3>2
  <2>5. table' = [table EXCEPT ![c] = new]
    BY <1>2 DEF Inserted
  <2> HIDE DEF rec, c
  <2>6. <<rec>> \in Seq(Record) /\ Len(<<rec>>) = 1 /\ <<rec>>[1] = rec
    BY <2>3
  <2>7. /\ new \in Seq(Record) /\ Len(new) = 1 + Len(old)
        /\ \A i \in 1..1 + Len(old) : new[i] = IF i <= 1 THEN <<rec>>[i] ELSE old[i - 1]
    <3> HIDE DEF old
    <3> QED BY <2>2, <2>6, ConcatProperties
  <2>8. DOMAIN new = 1..1 + Len(old)
    <3> HIDE DEF new
    <3> QED BY <2>7, LenProperties
  <2>9. /\ table'[c] = new
        /\ \A d \in SweptClass : d # c => table'[d] = table[d]
    <3> HIDE DEF new
    <3> QED BY <2>1, <2>5 DEF TypeOK
  <2>10. ASSUME NEW i \in DOMAIN new, NEW j \in DOMAIN new, i < j
         PROVE  Justified(new[i], new[j])
    <3> HIDE DEF new
    <3>1. j - 1 \in DOMAIN old /\ new[j] = old[j - 1]
      BY <2>2, <2>7, <2>8, <2>10
    <3>2. CASE i = 1
      <4>1. new[i] = rec
        BY <2>2, <2>6, <2>7, <3>2
      <4> QED BY <2>4, <3>1, <4>1
    <3>3. CASE i # 1
      <4>1. i - 1 \in DOMAIN old /\ new[i] = old[i - 1] /\ i - 1 < j - 1
        BY <2>2, <2>7, <2>8, <2>10, <3>3
      <4> QED BY <2>1, <3>1, <4>1, SkipsSplit
    <3> QED BY <3>2, <3>3
  <2>11. \A d \in SweptClass : \A i, j \in DOMAIN table'[d] :
           i < j => Justified(table'[d][i], table'[d][j])
    <3> TAKE d \in SweptClass
    <3>1. CASE d = c
      <4> HIDE DEF new
      <4> QED BY <2>9, <2>10, <3>1
    <3>2. CASE d # c
      BY <2>9, <3>2, SkipsSplit
    <3> QED BY <3>1, <3>2
  <2> QED BY <2>11 DEF NoFalseSkips, Justified, Scheduled
<1> QED BY <1>1, <1>2 DEF RecordStart

\* A finish is that of the newest row, with no row above it.
LEMMA RecordFinishSkips ==
  ASSUME IInv, NoFalseSkips, RecordFinish
  PROVE  NoFalseSkips'
<1>1. CASE table' = table
  BY <1>1 DEF NoFalseSkips, Scheduled
<1>2. CASE run.recorded /\ table' = FinishedRow(ThisClass, run.oldest)
  <2> DEFINE c == ThisClass
             old == table[c]
             rec == [started |-> old[1].started, finished |-> now, oldest |-> run.oldest,
                     missed |-> old[1].missed]
             new == [old EXCEPT ![1] = rec]
  <2>1. c \in SweptClass /\ run # NoRun
    BY RunFields DEF RecordFinish, IInv, NoRun
  <2>2. old \in Seq(Record) /\ Len(old) \in Nat /\ DOMAIN old = 1..Len(old)
    BY <2>1, TableFields DEF IInv
  <2>3. table' = [table EXCEPT ![c] = new]
    BY <1>2 DEF FinishedRow
  <2>4. rec.started = old[1].started /\ rec.missed = old[1].missed
    OBVIOUS
  <2> HIDE DEF rec, c
  <2>5. /\ DOMAIN new = DOMAIN old
        /\ \A i \in DOMAIN old : new[i] = IF i = 1 THEN rec ELSE old[i]
    <3> HIDE DEF old
    <3> QED BY <2>2
  <2>6. /\ table'[c] = new
        /\ \A d \in SweptClass : d # c => table'[d] = table[d]
    <3> HIDE DEF new
    <3> QED BY <2>1, <2>3 DEF IInv, TypeOK
  <2>7. ASSUME NEW i \in DOMAIN old, NEW j \in DOMAIN old, i < j
        PROVE  Justified(new[i], new[j])
    <3> HIDE DEF new
    <3>1. Justified(old[i], old[j]) /\ new[j] = old[j]
      BY <2>1, <2>2, <2>5, <2>7, SkipsSplit
    <3>2. new[i].started = old[i].started /\ new[i].missed = old[i].missed
      BY <2>4, <2>5
    <3> HIDE DEF old
    <3> QED BY <3>1, <3>2 DEF Justified
  <2>8. \A d \in SweptClass : \A i, j \in DOMAIN table'[d] :
          i < j => Justified(table'[d][i], table'[d][j])
    <3> HIDE DEF new
    <3> TAKE d \in SweptClass
    <3>1. CASE d = c
      BY <2>5, <2>6, <2>7, <3>1
    <3>2. CASE d # c
      BY <2>6, <3>2, SkipsSplit
    <3> QED BY <3>1, <3>2
  <2> QED BY <2>8 DEF NoFalseSkips, Justified, Scheduled
<1> QED BY <1>1, <1>2 DEF RecordFinish

LEMMA FinishSkips ==
  ASSUME TypeOK, NoFalseSkips, Finish
  PROVE  NoFalseSkips'
<1>1. CASE table' = table
  BY <1>1 DEF NoFalseSkips, Scheduled
<1>2. CASE table' = Pruned(run.started - RunRetention)
  <2>1. run.started - RunRetention \in Int
    <3>1. run.pc = "prune" /\ run # NoRun
      BY DEF Finish, NoRun
    <3>2. run.started \in Int
      BY <3>1, RunFields, Times
    <3> QED BY <3>2, Constants
  <2>2. \A c \in SweptClass : \A i \in DOMAIN table'[c] :
          i \in DOMAIN table[c] /\ table'[c][i] = table[c][i]
    BY <1>2, <2>1, PrunedRows
  <2>3. \A c \in SweptClass : \A i, j \in DOMAIN table'[c] :
          i < j => Justified(table'[c][i], table'[c][j])
    BY <2>2, SkipsSplit
  <2> QED BY <2>3 DEF NoFalseSkips, Justified, Scheduled
<1> QED BY <1>1, <1>2 DEF Finish

LEMMA InitSkips == Init => NoFalseSkips
BY DEF Init, NoFalseSkips

LEMMA StepSkips == IInv /\ NoFalseSkips /\ [Next]_vars => NoFalseSkips'
<1> SUFFICES ASSUME IInv, NoFalseSkips, [Next]_vars PROVE NoFalseSkips'
  OBVIOUS
<1>1. ASSUME table' = table PROVE NoFalseSkips'
  BY <1>1 DEF NoFalseSkips, Scheduled
<1>2. CASE RecordStart
  BY <1>2, RecordStartSkips DEF IInv
<1>3. CASE RecordFinish
  BY <1>3, RecordFinishSkips
<1>4. CASE Finish
  BY <1>4, FinishSkips DEF IInv
<1>5. CASE \E r \in Row : Move(r) \/ \E c \in Class : Insert(r, c) \/ Refresh(r, c)
  BY <1>1, <1>5 DEF Insert, Refresh, Move
<1>6. CASE StartJob \/ SkipSlot \/ Crash \/ Launch \/ Batch \/ BatchFails \/ Tick
  BY <1>1, <1>6 DEF StartJob, SkipSlot, Crash, Launch, Batch, BatchFails, Tick
<1>7. CASE UNCHANGED vars
  BY <1>1, <1>7 DEF vars
<1> QED BY <1>2, <1>3, <1>4, <1>5, <1>6, <1>7 DEF Next, Sweeping

\* missed_slots of a row (StartRun) is no more than the number of scheduled times
\* between any completion recorded before it and its start, for any interval.
THEOREM NoFalseSkipsHolds == Spec => []NoFalseSkips
<1>1. Init => NoFalseSkips
  BY InitSkips
<1>2. IInv /\ NoFalseSkips /\ [Next]_vars => NoFalseSkips'
  BY StepSkips
<1> QED BY <1>1, <1>2, SweepInvariant, PTL DEF Spec

-----------------------------------------------------------------------------
\* A run comes to its end.

\* A step of BatchesBounded.
Forward ==
  run # NoRun /\ run' # NoRun =>
    /\ Stage(run') >= Stage(run)
    /\ Stage(run') = Stage(run) =>
         /\ Backlog' <= Backlog + (moves' - moves)
         /\ Sweeping => Backlog' < Backlog

LEMMA StageType == \A r \in Run : Stage(r) \in Nat /\ Stage(r) \in 4 * r.k..4 * r.k + 3
<1> TAKE r \in Run
<1>1. r.k \in Nat /\ r.pc \in {"start", "batch", "finish", "prune"}
  BY Constants DEF Run
<1> QED BY <1>1 DEF Stage

LEMMA BacklogType ==
  ASSUME IInv, run # NoRun
  PROVE  /\ ThisClass \in SweptClass /\ run.started \in Nat /\ now \in Nat
         /\ run.started <= now /\ Window[ThisClass] \in Nat
         /\ Due(ThisClass, run.started) \subseteq Row
         /\ IsFiniteSet(Due(ThisClass, run.started))
         /\ Backlog \in Nat /\ moves \in Nat
<1>1. Due(ThisClass, run.started) \in SUBSET Row
  BY DEF Due, In
<1>2. IsFiniteSet(Due(ThisClass, run.started))
  BY <1>1, Constants, FS_Subset
<1>3. Backlog \in Nat
  BY <1>2, FS_CardinalityType DEF Backlog
<1>4. ThisClass \in SweptClass /\ run.started \in Nat /\ now \in Nat
  BY RunFields, Times DEF IInv, TypeOK
<1> QED BY <1>1, <1>2, <1>3, <1>4, Constants DEF IInv, RunOK, TypeOK

\* A row that its writer's step has not made due.
NotDueBy(p, q) ==
  \/ q = None
  \/ ClockOf(q) = now
  \/ p # None /\ q.class = p.class /\ ClockOf(p) <= ClockOf(q)

LEMMA DueKept ==
  ASSUME IInv, run # NoRun, run' = run, now' = now,
         profile' \in [Row -> Profile \cup {None}],
         NEW r \in Due(ThisClass, run.started)', NotDueBy(profile[r], profile'[r])
  PROVE  r \in Due(ThisClass, run.started)
<1>1. /\ ThisClass \in SweptClass /\ run.started \in Nat /\ now \in Nat
      /\ run.started <= now /\ Window[ThisClass] \in Nat
  BY BacklogType
<1>2. /\ r \in Row /\ profile'[r] # None /\ profile'[r].class = ThisClass
      /\ ClockOf(profile'[r]) + Window[ThisClass] < run.started
  BY DEF Due, In, ClockOf, ThisClass
<1>3. ClockOf(profile'[r]) \in Nat
  <2>1. profile'[r] \in Profile
    BY <1>2
  <2> QED BY <2>1, RowFields, Times
<1>4. profile[r] # None /\ profile[r].class = ThisClass /\ ClockOf(profile[r]) <= ClockOf(profile'[r])
  BY <1>1, <1>2, <1>3 DEF NotDueBy
<1>5. ClockOf(profile[r]) \in Nat
  <2>1. profile[r] \in Profile
    BY <1>2, <1>4 DEF IInv, TypeOK
  <2> QED BY <2>1, RowFields, Times
<1> QED BY <1>1, <1>2, <1>3, <1>4, <1>5 DEF Due, In

\* A row that is new or refreshed within its class is not due; one that changed its
\* class may be.
LEMMA WriterForward ==
  ASSUME IInv, NEW r \in Row,
         Move(r) \/ \E c \in Class : Insert(r, c) \/ Refresh(r, c),
         run # NoRun
  PROVE  run' = run /\ Backlog' \in Nat /\ Backlog' <= Backlog + (moves' - moves)
<1> DEFINE moved == IF moves' = moves THEN {} ELSE {r}
<1>1. /\ run' = run /\ now' = now /\ (moves' = moves \/ moves' = moves + 1)
      /\ \A q \in Row : q # r => profile'[q] = profile[q]
  BY DEF Insert, Refresh, Move, IInv, TypeOK
<1>2. IInv'
  BY InsertStep, ChangeStep
<1>3. /\ Due(ThisClass, run.started) \subseteq Row /\ IsFiniteSet(Due(ThisClass, run.started))
      /\ Backlog \in Nat /\ moves \in Nat
  BY BacklogType
<1>4. Backlog' \in Nat /\ (Due(ThisClass, run.started) \subseteq Row)'
  <2>1. Due(ThisClass, run.started)' \in SUBSET Row
    BY DEF Due, In
  <2>2. Cardinality(Due(ThisClass, run.started)') \in Nat
    BY <2>1, Constants, FS_Subset, FS_CardinalityType
  <2> QED BY <2>1, <2>2 DEF Backlog
<1>5. profile' \in [Row -> Profile \cup {None}]
  BY <1>2 DEF IInv, TypeOK
<1>6. \A q \in Row : q # r /\ profile'[q] # None => NotDueBy(profile[q], profile'[q])
  <2> TAKE q \in Row
  <2> HAVE q # r /\ profile'[q] # None
  <2>1. profile'[q] = profile[q] /\ profile[q] \in Profile
    BY <1>1, <1>5
  <2>2. ClockOf(profile[q]) \in Int
    BY <2>1, RowFields, Times
  <2> QED BY <2>1, <2>2 DEF NotDueBy
<1>7. moves' = moves => NotDueBy(profile[r], profile'[r])
  <2> HAVE moves' = moves
  <2>0. now \in Nat /\ moves \in Nat
    BY Times DEF IInv, TypeOK
  <2>1. CASE \E c \in Class : Insert(r, c)
    BY <2>1 DEF Insert, NotDueBy, ClockOf, IInv, TypeOK
  <2>2. CASE \E c \in Class : Refresh(r, c)
    <3>1. PICK c \in Class : Refresh(r, c)
      BY <2>2
    <3>2. c = profile[r].class
      BY <2>0, <3>1 DEF Refresh
    <3>3. PICK p \in Profile : p = profile[r] /\ p # None
      BY <3>1 DEF Refresh, IInv, TypeOK
    <3>4. profile'[r] = Refreshed(p, p.class)
      BY <3>1, <3>2, <3>3 DEF Refresh, IInv, TypeOK
    <3>5. CASE p.class = "idp_cache_orphan"
      <4>1. ClockOf(profile'[r]) = ClockOf(p) /\ profile'[r].class = p.class
        BY <3>4, <3>5 DEF Refreshed, ClockOf
      <4>2. ClockOf(p) \in Int
        BY RowFields, Times
      <4> QED BY <3>3, <4>1, <4>2 DEF NotDueBy
    <3>6. CASE p.class # "idp_cache_orphan"
      BY <3>4, <3>6 DEF Refreshed, ClockOf, NotDueBy
    <3> QED BY <3>5, <3>6
  <2>3. CASE Move(r)
    BY <2>0, <2>3 DEF Move
  <2> QED BY <2>1, <2>2, <2>3
<1>8. Due(ThisClass, run.started)' \subseteq Due(ThisClass, run.started) \cup moved
  <2> SUFFICES ASSUME NEW q \in Due(ThisClass, run.started)', q \notin moved
               PROVE  q \in Due(ThisClass, run.started)
    OBVIOUS
  <2>1. q \in Row /\ profile'[q] # None
    BY DEF Due, In
  <2>2. NotDueBy(profile[q], profile'[q])
    BY <1>6, <1>7, <2>1
  <2> QED BY <1>1, <1>5, <2>2, DueKept
<1>9. IsFiniteSet(moved) /\ Cardinality(moved) = moves' - moves
  <2>1. CASE moves' = moves
    <3>1. moved = {} /\ moves' - moves = 0
      BY <1>3, <2>1
    <3> QED BY <3>1, FS_EmptySet
  <2>2. CASE moves' # moves
    <3>1. moved = {r} /\ moves' - moves = 1
      BY <1>1, <1>3, <2>2
    <3> QED BY <3>1, FS_Singleton
  <2> QED BY <2>1, <2>2
<1> DEFINE D == Due(ThisClass, run.started)
           E == Due(ThisClass, run.started)'
<1>10. Backlog = Cardinality(D) /\ Backlog' = Cardinality(E)
  BY DEF Backlog
<1> HIDE DEF D, E, moved
<1>11. IsFiniteSet(D) /\ E \subseteq D \cup moved
  BY <1>3, <1>8 DEF D, E
<1>12. /\ IsFiniteSet(D \cup moved)
       /\ Cardinality(D \cup moved) = Cardinality(D) + Cardinality(moved) - Cardinality(D \cap moved)
  BY <1>9, <1>11, FS_Union
<1>13. Cardinality(D \cap moved) \in Nat
  BY <1>11, FS_Intersection, FS_CardinalityType
<1>14. Cardinality(E) <= Cardinality(D \cup moved)
  BY <1>11, <1>12, FS_Subset
<1> QED BY <1>1, <1>3, <1>4, <1>9, <1>10, <1>12, <1>13, <1>14

\* A batch that was full leaves that many rows less: what it selected is deleted,
\* refreshed, or in another class.
LEMMA BatchForward ==
  ASSUME IInv, Batch, run' # NoRun
  PROVE  Forward
<1>1. run # NoRun /\ run \in Run /\ run.pc = "batch"
  BY RunFields DEF Batch, IInv, NoRun
<1>0. PICK ids \in Candidates : \E gone \in SUBSET ids :
        /\ Deletes(ids, gone)
        /\ run' = IF Drained(Cardinality(ids))
                  THEN [run EXCEPT !.pc = "finish", !.oldest = OldestOf(ThisClass, gone)]
                  ELSE run
  BY DEF Batch
<1>2. PICK gone \in SUBSET ids :
        /\ Deletes(ids, gone)
        /\ run' = IF Drained(Cardinality(ids))
                  THEN [run EXCEPT !.pc = "finish", !.oldest = OldestOf(ThisClass, gone)]
                  ELSE run
  BY <1>0
<1>3. now' = now /\ now \in Nat
  BY Times DEF Batch, IInv, TypeOK
<1>4. CASE Drained(Cardinality(ids))
  <2>1. run'.pc = "finish" /\ run'.k = run.k
    BY <1>1, <1>2, <1>4 DEF Run
  <2>2. Stage(run') = Stage(run) + 1
    <3>1. run.k \in Nat
      BY <1>1, Constants DEF Run
    <3> QED BY <1>1, <2>1, <3>1 DEF Stage
  <2> QED BY <1>1, <2>2, StageType DEF Forward
<1>5. CASE ~Drained(Cardinality(ids))
  <2> DEFINE D == Due(ThisClass, run.started)
             E == Due(ThisClass, run.started)'
  <2>1. run' = run
    BY <1>2, <1>5
  <2>2. /\ ids \subseteq D /\ IsFiniteSet(D) /\ Backlog \in Nat /\ moves \in Nat
        /\ run.started <= now /\ run.started \in Nat /\ Window[ThisClass] \in Nat
    BY <1>1, BacklogType DEF Candidates
  <2>3. /\ RowsEvolve /\ moves' - moves \in Nat
        /\ \A r \in Row : r \notin ids => profile'[r] = profile[r]
        /\ \A r \in ids : profile'[r] # None /\ profile'[r].class = ThisClass =>
                            ClockOf(profile'[r]) = now
    BY <1>1, <1>2, <1>3, DeletesEvolve
  <2>4. ASSUME NEW r \in E
        PROVE  r \in D \ ids
    <3>1. /\ r \in Row /\ profile'[r] # None /\ profile'[r].class = ThisClass
          /\ ClockOf(profile'[r]) + Window[ThisClass] < run.started
      BY <2>1 DEF Due, In, ClockOf, ThisClass
    <3>2. ClockOf(profile'[r]) \in Nat
      <4>1. profile'[r] \in Profile
        BY <2>3, <3>1 DEF RowsEvolve
      <4> QED BY <4>1, RowFields, Times
    <3>3. r \notin ids
      BY <1>3, <2>2, <2>3, <3>1, <3>2
    <3>4. profile'[r] = profile[r]
      BY <2>3, <3>1, <3>3
    <3> QED BY <3>1, <3>3, <3>4 DEF Due, In
  <2>5. Backlog = Cardinality(D) /\ Backlog' = Cardinality(E)
    BY DEF Backlog
  <2>6. Cardinality(ids) \in Nat /\ IsFiniteSet(ids)
    <3> HIDE DEF D
    <3> QED BY <2>2, FS_Subset, FS_CardinalityType
  <2>7. Cardinality(ids) >= 1
    BY <1>5, <2>6, Constants DEF Drained
  <2>8. Cardinality(E) \in Nat /\ Cardinality(E) <= Cardinality(D) - Cardinality(ids)
    <3> HIDE DEF D, E
    <3>1. E \subseteq D \ ids
      BY <2>4
    <3>2. IsFiniteSet(D \ ids) /\ Cardinality(D \ ids) = Cardinality(D) - Cardinality(D \cap ids)
      BY <2>2, FS_Difference
    <3>3. D \cap ids = ids
      BY <2>2
    <3>4. IsFiniteSet(E) /\ Cardinality(E) <= Cardinality(D \ ids)
      BY <3>1, <3>2, FS_Subset
    <3> QED BY <3>2, <3>3, <3>4, FS_CardinalityType
  <2>9. Backlog' \in Nat /\ Backlog' < Backlog
    BY <2>2, <2>5, <2>6, <2>7, <2>8
  <2>10. Backlog' <= Backlog + (moves' - moves)
    BY <2>2, <2>3, <2>9
  <2>11. Stage(run') = Stage(run) /\ Stage(run) \in Nat
    BY <1>1, <2>1, StageType
  <2> QED BY <2>9, <2>10, <2>11 DEF Forward
<1> QED BY <1>4, <1>5

\* A class that is over is not come back to.
LEMMA NextClassForward ==
  ASSUME NEW s \in Run, s.pc \in {"batch", "finish"}, NEW r \in Run, r.k = s.k
  PROVE  Stage(NextClass(r)) > Stage(s)
<1>1. s.k \in Nat /\ r.k \in Nat
  BY Constants DEF Run
<1>2. Stage(s) <= 4 * s.k + 2 /\ Stage(s) \in Nat
  BY <1>1 DEF Stage
<1>3. CASE r.k < Len(allClasses)
  <2>1. NextClass(r).pc = "start" /\ NextClass(r).k = r.k + 1
    BY <1>3 DEF NextClass, GoesTo
  <2>2. Stage(NextClass(r)) = 4 * (r.k + 1)
    BY <1>1, <2>1 DEF Stage
  <2> QED BY <1>1, <1>2, <2>2
<1>4. CASE ~(r.k < Len(allClasses))
  <2>1. NextClass(r).pc = "prune" /\ NextClass(r).k = r.k
    BY <1>4 DEF NextClass, GoesTo
  <2>2. Stage(NextClass(r)) = 4 * r.k + 3
    BY <1>1, <2>1 DEF Stage
  <2> QED BY <1>1, <1>2, <2>2
<1> QED BY <1>3, <1>4

LEMMA RunForward ==
  ASSUME IInv, RecordStart \/ BatchFails \/ RecordFinish
  PROVE  Stage(run') > Stage(run)
<1>1. run \in Run /\ run.k \in Nat
  <2>1. run # NoRun
    BY DEF RecordStart, BatchFails, RecordFinish, NoRun
  <2> QED BY <2>1, RunFields, Constants DEF IInv
<1>2. CASE RecordStart
  <2>1. run'.pc = "batch" /\ run'.k = run.k
    BY <1>1, <1>2 DEF RecordStart, Run
  <2> QED BY <1>1, <1>2, <2>1 DEF RecordStart, Stage
<1>3. CASE BatchFails
  <2> DEFINE r == [run EXCEPT !.failed = TRUE]
  <2>1. r \in Run /\ r.k = run.k
    BY <1>1 DEF Run
  <2>2. run' = NextClass(r)
    BY <1>3 DEF BatchFails, ClassFailed
  <2> HIDE DEF r
  <2> QED BY <1>1, <1>3, <2>1, <2>2, NextClassForward DEF BatchFails
<1>4. CASE RecordFinish
  BY <1>1, <1>4, NextClassForward DEF RecordFinish
<1> QED BY <1>2, <1>3, <1>4

LEMMA StepForward ==
  ASSUME IInv, [Next]_vars
  PROVE  Forward \/ UNCHANGED vars
<1> SUFFICES ASSUME run # NoRun, run' # NoRun, Next PROVE Forward
  BY DEF Forward
<1>1. run \in Run /\ Stage(run) \in Nat
  BY StageType, RunFields DEF IInv
<1>2. CASE RecordStart \/ BatchFails \/ RecordFinish
  <2>1. Stage(run') > Stage(run)
    BY <1>2, RunForward
  <2>2. IInv'
    BY StepInvariant
  <2>3. run' \in Run
    BY <2>2 DEF IInv, TypeOK
  <2>4. Stage(run') \in Nat
    BY <2>3, StageType
  <2> QED BY <1>1, <2>1, <2>4 DEF Forward
<1>3. CASE Batch
  BY <1>3, BatchForward
<1>4. CASE Finish
  BY <1>4 DEF Finish, PodFailed
<1>5. CASE StartJob
  BY <1>5 DEF StartJob, IInv, RunOK
<1>6. CASE Launch
  BY <1>6 DEF Launch
<1>7. CASE Crash
  BY <1>7 DEF Crash, PodFailed
<1> SUFFICES ASSUME ~Sweeping PROVE Forward
  BY <1>2, <1>3, <1>4 DEF Sweeping
<1>8. CASE SkipSlot \/ Tick
  <2>1. UNCHANGED <<profile, moves, run>>
    BY <1>8 DEF SkipSlot, Tick
  <2>2. Backlog' = Backlog /\ Backlog \in Nat /\ moves \in Nat
    BY <2>1, BacklogType DEF Backlog, Due, In, ThisClass
  <2> QED BY <1>1, <2>1, <2>2 DEF Forward
<1>9. CASE \E r \in Row : Move(r) \/ \E c \in Class : Insert(r, c) \/ Refresh(r, c)
  <2>1. run' = run /\ Backlog' <= Backlog + (moves' - moves)
    BY <1>9, WriterForward
  <2> QED BY <1>1, <2>1 DEF Forward
<1> QED BY <1>2, <1>5, <1>6, <1>7, <1>8, <1>9 DEF Next, Sweeping

\* A run of internal/sweep never goes back, and each batch of the loop over a class
\* (runClass) leaves less to do, for any rows, windows and batch bound: what the other
\* transactions can add to it is bounded by the profiles that change class, with their credentials or their source.
THEOREM BatchesBoundedHolds == Spec => BatchesBounded
<1>1. IInv /\ [Next]_vars => [Forward]_vars
  BY StepForward
<1> QED BY <1>1, SweepInvariant, PTL DEF Spec, BatchesBounded, Forward

==============================================================================
