-------------------------------- MODULE Sweep --------------------------------
(***************************************************************************)
(* The retention sweep: the CronJob that starts it (deploy/manifests.yaml),*)
(* the process (runSweepMode, internal/sweep), the table that outlives it  *)
(* (internal/sweepstore) and what /metrics makes of that table for the     *)
(* alert rules.                                                            *)
(*                                                                         *)
(* The rows it sweeps are those of other transactions too: they are made   *)
(* and refreshed, and change class with their source or their last         *)
(* credential, at any moment.                                              *)
(* A batch is one step, as DAO.tla justifies; a candidate that is spared   *)
(* was changed between its selection and its deletion.                     *)
(*                                                                         *)
(* Time is counted in ticks; a step takes none.  Row counts, the stdout    *)
(* rendering and what is only logged are left out.                         *)
(***************************************************************************)
EXTENDS Integers, Sequences, FiniteSets

CONSTANTS
  Row,              \* ids of user_profile
  allClasses,       \* the classes that are swept, in their order
  Window,           \* cutoffFor: ticks a row of a class is kept
  maxRowsPerBatch,
  Interval,         \* schedule, and SWEEP_INTERVAL_SECONDS
  ActiveDeadline,   \* activeDeadlineSeconds
  BackoffLimit,     \* backoffLimit
  RunRetention,     \* retentionSweepRunRetention
  MaxTime,          \* bound on the clock
  MaxRowTime,       \* bound on the clock by the number of rows
  MaxMoves,         \* bound on the profiles that change class
  None

Class == {"direct", "idp_cache", "idp_cache_orphan"}
SweptClass == {allClasses[i] : i \in DOMAIN allClasses}

ASSUME SweepAssumption ==
  /\ IsFiniteSet(Row)
  /\ allClasses \in Seq(Class) \ {<<>>}
  /\ Window \in [SweptClass -> Nat]
  /\ {maxRowsPerBatch, Interval, ActiveDeadline} \subseteq Nat \ {0}
  /\ {BackoffLimit, RunRetention, MaxTime, MaxMoves} \subseteq Nat
  /\ MaxRowTime \in [0..Cardinality(Row) -> 0..MaxTime]
  /\ None \notin Int

VARIABLES
  now,
  profile,      \* user_profile: the class and clocks of a row, and since when in it
  moves,        \* the changes of class so far, with the candidates that were spared
  slot,         \* the schedule's last time that was started or skipped
  job,          \* the Job of that time: pods it may still start
  run,          \* the sweep process
  table         \* retention_sweep_run per class, the newest row first

vars == <<now, profile, moves, slot, job, run, table>>

Time == 0..MaxTime
NoJob == [active |-> FALSE]
NoRun == [pc |-> "none"]

Profile == [class : Class, created : Time, updated : Time, since : Time]
Record == [started : Time, finished : Time \cup {None},
           oldest : Time \cup {None}, missed : Nat]
Run == [pc : {"start", "batch", "finish", "prune"}, started : Time,
        k : DOMAIN allClasses, recorded : BOOLEAN, failed : BOOLEAN,
        oldest : Time \cup {None}]

TypeOK ==
  /\ now \in Time
  /\ profile \in [Row -> Profile \cup {None}]
  /\ moves \in 0..MaxMoves
  /\ slot \in Time
  /\ job \in {NoJob} \cup [active : {TRUE}, pods : 0..BackoffLimit]
  /\ run \in {NoRun} \cup Run
  /\ table \in [SweptClass -> Seq(Record)]

Init ==
  /\ now = 0 /\ moves = 0 /\ slot = 0
  /\ profile = [r \in Row |-> None]
  /\ job = NoJob
  /\ run = NoRun
  /\ table = [c \in SweptClass |-> <<>>]

-----------------------------------------------------------------------------
\* Retention classes (cutoffFor, clockColumnFor).

ClockOf(p) == IF p.class = "idp_cache_orphan" THEN p.created ELSE p.updated

Present == {r \in Row : profile[r] # None}

In(class) == {r \in Row : profile[r] # None /\ profile[r].class = class}

\* Regression: the cutoff follows the clock.
Due_Following(class, started) ==
  {r \in In(class) : ClockOf(profile[r]) + Window[class] < now}

Due(class, started) == {r \in In(class) : ClockOf(profile[r]) + Window[class] < started}

Least(times) == IF times = {} THEN None ELSE CHOOSE t \in times : \A u \in times : t <= u

\* Regression: updated_at is the clock of every class.
OldestOf_Updated(class, gone) == Least({profile[r].updated : r \in In(class) \ gone})

\* SELECT MIN of the class's clock.
OldestOf(class, gone) == Least({ClockOf(profile[r]) : r \in In(class) \ gone})

-----------------------------------------------------------------------------
\* The other transactions.

Insert(r, class) ==
  /\ profile[r] = None
  /\ now <= MaxRowTime[Cardinality(Present) + 1]
  /\ profile' = [profile EXCEPT ![r] =
       [class |-> class, created |-> now, updated |-> now, since |-> now]]
  /\ UNCHANGED <<now, moves, slot, job, run, table>>

\* Update and Upsert set the source with the clock: a cached profile becomes a direct
\* one, a direct one a cached one with or without credentials.
Refreshed(p, class) ==
  [class |-> class, created |-> p.created, updated |-> now,
   since |-> IF class = p.class THEN p.since ELSE now]

Refresh(r, class) ==
  /\ profile[r] # None
  /\ class \in {profile[r].class, "direct"} \/ profile[r].class = "direct"
  /\ moves' = IF class = profile[r].class THEN moves ELSE moves + 1
  /\ moves' <= MaxMoves
  /\ profile' = [profile EXCEPT ![r] = Refreshed(@, class)]
  /\ UNCHANGED <<now, slot, job, run, table>>

\* The first credential of a cached profile is created, or its last one deleted.
Moved(p) == [class |-> IF p.class = "idp_cache" THEN "idp_cache_orphan" ELSE "idp_cache",
             created |-> p.created, updated |-> p.updated, since |-> now]

Move(r) ==
  /\ profile[r] # None
  /\ profile[r].class # "direct"
  /\ moves < MaxMoves
  /\ moves' = moves + 1
  /\ profile' = [profile EXCEPT ![r] = Moved(@)]
  /\ UNCHANGED <<now, slot, job, run, table>>

-----------------------------------------------------------------------------
\* The CronJob.

Scheduled(t) == t > 0 /\ t % Interval = 0

\* A time comes; concurrencyPolicy Forbid, or a cluster that does not get to it
\* within startingDeadlineSeconds, skips it.
StartJob ==
  /\ Scheduled(now) /\ slot < now /\ ~job.active
  /\ slot' = now
  /\ job' = [active |-> TRUE, pods |-> BackoffLimit]
  /\ UNCHANGED <<now, profile, moves, run, table>>

SkipSlot ==
  /\ Scheduled(now) /\ slot < now
  /\ slot' = now
  /\ UNCHANGED <<now, profile, moves, job, run, table>>

\* Regression: the Job starts one pod after another.
PodFailed_Always ==
  /\ run' = NoRun
  /\ job' = [job EXCEPT !.pods = @ - 1]

\* A pod is over without success: the Job starts another, or has failed.
PodFailed ==
  /\ run' = NoRun
  /\ job' = IF job.pods > 0 THEN [job EXCEPT !.pods = @ - 1] ELSE NoJob

\* The process dies, or cannot reach its database (sweepDBConnectTimeout).
Crash ==
  /\ job.active
  /\ PodFailed
  /\ UNCHANGED <<now, profile, moves, slot, table>>

Tick ==
  /\ now < MaxRowTime[Cardinality(Present)]
  /\ Scheduled(now) => slot = now
  /\ job.active => now < slot + ActiveDeadline
  /\ now' = now + 1
  /\ UNCHANGED <<profile, moves, slot, job, run, table>>

-----------------------------------------------------------------------------
\* The run store.

FinishTimes(class) ==
  {table[class][i].finished : i \in DOMAIN table[class]} \ {None}

\* lastFinishedAt
LastFinished(class) ==
  LET times == FinishTimes(class)
  IN  IF times = {} THEN None ELSE CHOOSE t \in times : \A u \in times : u <= t

\* Regression: floor(gap / I), without the slot of this run.
MissedSlots_WithOwn(class, started) ==
  IF LastFinished(class) = None THEN 0
  ELSE (started - LastFinished(class)) \div Interval

\* StartRun: floor(gap / I) - 1.
MissedSlots(class, started) ==
  IF LastFinished(class) = None THEN 0
  ELSE LET slots == (started - LastFinished(class)) \div Interval - 1
       IN  IF slots > 0 THEN slots ELSE 0

Inserted(class, started) ==
  LET rec == [started |-> started, finished |-> None, oldest |-> None,
              missed |-> MissedSlots(class, started)]
  IN  [table EXCEPT ![class] = <<rec>> \o @]

FinishedRow(class, oldest) ==
  [table EXCEPT ![class][1] = [started |-> @.started, finished |-> now,
                               oldest |-> oldest, missed |-> @.missed]]

\* PruneOlderThan: the rows that stay are the newest ones.
Pruned(cutoff) ==
  [c \in SweptClass |-> SubSeq(table[c], 1,
     Cardinality({i \in DOMAIN table[c] : table[c][i].started >= cutoff}))]

-----------------------------------------------------------------------------
\* The process (Run, runClass).

ThisClass == allClasses[run.k]

Launch ==
  /\ job.active /\ run = NoRun
  /\ run' = [pc |-> "start", started |-> now, k |-> 1, recorded |-> FALSE,
             failed |-> FALSE, oldest |-> None]
  /\ UNCHANGED <<now, profile, moves, slot, job, table>>

\* A failure to record is logged, and the class is swept all the same.
RecordStart ==
  /\ run.pc = "start"
  /\ \/ /\ table' = Inserted(ThisClass, run.started)
        /\ run' = [run EXCEPT !.pc = "batch", !.recorded = TRUE]
     \/ /\ run' = [run EXCEPT !.pc = "batch"]
        /\ UNCHANGED table
  /\ UNCHANGED <<now, profile, moves, slot, job>>

\* The next class, or the end of the run.
GoesTo(r, pc, k) ==
  [pc |-> pc, started |-> r.started, k |-> k, recorded |-> FALSE,
   failed |-> r.failed, oldest |-> None]

NextClass(r) ==
  IF r.k < Len(allClasses) THEN GoesTo(r, "start", r.k + 1)
  ELSE GoesTo(r, "prune", r.k)

\* Regression: the failure is not kept for the exit code.
ClassFailed_Forgotten(r) == NextClass(r)

ClassFailed(r) == NextClass([r EXCEPT !.failed = TRUE])

\* Regression: a full batch may have been the last one.
Drained_AtBound(examined) == examined <= maxRowsPerBatch

\* Regression: only a batch that found something drains its class.
Drained_NotEmpty(examined) == examined \in 1..maxRowsPerBatch - 1

Drained(examined) == examined < maxRowsPerBatch

\* What a candidate became before its DELETE: refreshed, or of another class.
Spared(p, class) ==
  IF {p.class, class} = {"idp_cache", "idp_cache_orphan"} THEN Moved(p)
  ELSE Refreshed(p, class)

\* DeleteExpired selects at most maxRows candidates,
Candidates ==
  LET due == Due(ThisClass, run.started)
  IN  {ids \in SUBSET due : /\ Cardinality(ids) <= maxRowsPerBatch
                            /\ Cardinality(ids) < maxRowsPerBatch => ids = due}

\* and deletes those that are still due.
Deletes(ids, gone) ==
  LET spared == ids \ gone
  IN  /\ moves + Cardinality(spared) <= MaxMoves
      /\ moves' = moves + Cardinality(spared)
      /\ \E becomes \in [spared -> Class] :
           /\ ThisClass = "idp_cache_orphan" => \A r \in spared : becomes[r] # ThisClass
           /\ profile' = [r \in Row |-> CASE r \in gone -> None
                                          [] r \in spared -> Spared(profile[r], becomes[r])
                                          [] OTHER -> profile[r]]

Batch ==
  /\ run.pc = "batch"
  /\ \E ids \in Candidates : \E gone \in SUBSET ids :
       /\ Deletes(ids, gone)
       /\ run' = IF Drained(Cardinality(ids))
                 THEN [run EXCEPT !.pc = "finish", !.oldest = OldestOf(ThisClass, gone)]
                 ELSE run
  /\ UNCHANGED <<now, slot, job, table>>

\* An error, whether or not the batch took effect, or ctx.Err() before it: SIGTERM
\* cancels the context, from when on every call fails.
BatchFails ==
  /\ run.pc = "batch"
  /\ run' = ClassFailed(run)
  /\ \/ \E ids \in Candidates : Deletes(ids, ids)
     \/ UNCHANGED <<profile, moves>>
  /\ UNCHANGED <<now, slot, job, table>>

\* Only a drained class is recorded; a failure to record is logged.
RecordFinish ==
  /\ run.pc = "finish"
  /\ run' = NextClass(run)
  /\ \/ /\ run.recorded
        /\ table' = FinishedRow(ThisClass, run.oldest)
     \/ UNCHANGED table
  /\ UNCHANGED <<now, profile, moves, slot, job>>

\* PruneOlderThan, and the exit code.
Finish ==
  /\ run.pc = "prune"
  /\ \/ /\ table' = Pruned(run.started - RunRetention)
     \/ UNCHANGED table
  /\ IF run.failed THEN PodFailed ELSE run' = NoRun /\ job' = NoJob
  /\ UNCHANGED <<now, profile, moves, slot>>

-----------------------------------------------------------------------------
Sweeping == RecordStart \/ Batch \/ RecordFinish \/ Finish

Next ==
  \/ \E r \in Row : Move(r) \/ \E c \in Class : Insert(r, c) \/ Refresh(r, c)
  \/ StartJob \/ SkipSlot \/ Crash \/ Launch \/ Sweeping \/ BatchFails
  \/ Tick

\* The process is scheduled and every call to the database returns; none has to fail.
Spec == Init /\ [][Next]_vars /\ WF_vars(Sweeping)

-----------------------------------------------------------------------------
\* What /metrics and the alert rules make of the table.

\* LatestSnapshots takes LastFinishedAt from the newest row, finished or not; no
\* value, no series.
LastFinishedAt(class) == IF table[class] = <<>> THEN None ELSE table[class][1].finished

\* time() - retention_sweep_last_finished_timestamp_seconds > 2I
NotReportingAlert(class) ==
  LastFinishedAt(class) # None /\ now - LastFinishedAt(class) > 2 * Interval

-----------------------------------------------------------------------------
\* A run recorded as finished has left no row behind that was past its window when
\* the run started, however the batches interleaved with the rows' other writers.
\* A row that entered the class after the start is the next run's.
FinishedMeansSwept ==
  \A c \in SweptClass : \A i \in DOMAIN table[c] :
    table[c][i].finished # None =>
      \A r \in Due(c, table[c][i].started) : profile[r].since >= table[c][i].started

\* A run that is about to exit with 0 has swept every class, whether or not the
\* table could be written: one class's failure is not lost behind the next ones.
SuccessMeansSwept ==
  run.pc = "prune" /\ ~run.failed =>
    \A c \in SweptClass : \A r \in Due(c, run.started) : profile[r].since >= run.started

\* The gauge behind RetentionWindowExceeded never hides an older row: the recorded
\* oldest_surviving_at bounds every row that was in the class when the run started.
OldestIsOldest ==
  \A c \in SweptClass : \A i \in DOMAIN table[c] :
    LET rec == table[c][i]
    IN  rec.finished # None =>
          \A r \in In(c) :
            \/ profile[r].since >= rec.started
            \/ rec.oldest # None /\ ClockOf(profile[r]) >= rec.oldest

\* missed_slots counts no run that completed and none that was not due: between
\* the completion before it and the run there were that many scheduled times.
NoFalseSkips ==
  \A c \in SweptClass : \A i, j \in DOMAIN table[c] :
    LET run2 == table[c][i]
        before == table[c][j]
    IN  i < j /\ before.finished # None =>
          run2.missed <= Cardinality({t \in before.finished + 1..run2.started - 1 :
                                        Scheduled(t)})

\* How far a run has come, and what its class has left for it.
Stage(r) ==
  4 * r.k + (CASE r.pc = "start" -> 0 [] r.pc = "batch" -> 1
               [] r.pc = "finish" -> 2 [] r.pc = "prune" -> 3)

Backlog == Cardinality(Due(ThisClass, run.started))

\* sweep.go:216-259: a run never goes back, and in the loop over the batches of a class
\* each one leaves less to do.  Its cutoff is fixed, so that neither time nor new rows
\* add to that: only a profile that changes class may, by its credentials or by its
\* source, once for each change.
BatchesBounded ==
  [][run # NoRun /\ run' # NoRun =>
       /\ Stage(run') >= Stage(run)
       /\ Stage(run') = Stage(run) =>
            /\ Backlog' <= Backlog + (moves' - moves)
            /\ Sweeping => Backlog' < Backlog]_vars

\* So a sweep ends without being killed, and no failure is repeated in place.
RunEnds == []<>(run = NoRun)

\* deploy/manifests.yaml: RetentionSweepNotReporting fires when there was no
\* completion for more than 2I, "as does a genuinely dead sweep".
SilenceIsReported ==
  \A c \in SweptClass :
    run = NoRun /\ LastFinished(c) # None /\ now - LastFinished(c) > 2 * Interval =>
      NotReportingAlert(c)

=============================================================================
