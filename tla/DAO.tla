--------------------------------- MODULE DAO ---------------------------------
(***************************************************************************)
(* The DAO backends (internal/dao/sqlite, internal/dao/postgres): the      *)
(* writes of profiles and credentials as transactions, statement by        *)
(* statement, on each of the three engines, with the retry policy of       *)
(* postgres/retry.go.                                                      *)
(*                                                                         *)
(* A transaction keeps what it wrote to itself until it commits.  What the *)
(* engines do is external and modelled from the code's use of them:        *)
(* SQLite has one connection, so transactions do not overlap; PostgreSQL   *)
(* at READ COMMITTED and CockroachDB lock a row from the statement that    *)
(* writes it to the end of the transaction; CockroachDB may refuse any     *)
(* statement or commit with SQLSTATE 40001 and validates what it scanned.  *)
(* A credential and its profile share one lock here, which only reorders   *)
(* steps that commute.                                                     *)
(*                                                                         *)
(* Not modelled: reads (one statement each), argument checks, which come   *)
(* before any statement, and the columns no retention clock depends on     *)
(* (Credentials().Update changes only those).                              *)
(***************************************************************************)
EXTENDS Naturals, FiniteSets

CONSTANTS
  Profile, Client, Kind, MaxRows, MaxLog, NoRow,  \* as in ProfileStore
  Engine,       \* the engines explored
  MaxRetries    \* maxRetries

VARIABLES
  engine,       \* DB_DRIVER, for the life of the process
  store, log,   \* what is committed
  tx            \* each client's call and its transaction

vars == <<engine, store, log, tx>>

NoWrites == [p \in {} |-> NoRow]

\* The promise, with a call mapped to where its effect is: not yet, or done.
Promised(t) ==
  CASE t.pc = "idle" -> [pc |-> "idle"]
    [] t.pc \in {"readback", "done"} ->
         [pc |-> "done", req |-> t.req,
          result |-> IF t.result \in {"40001", "cancelled"} THEN "error" ELSE t.result]
    [] OTHER -> [pc |-> "pending", req |-> t.req]

promised == [c \in Client |-> Promised(tx[c])]

Store == INSTANCE ProfileStore WITH
  op <- promised,
  snapshot <- engine = "postgres"

ASSUME DAOAssumption ==
  /\ Engine \subseteq {"sqlite", "postgres", "cockroachdb"}
  /\ {MaxRetries, MaxRows} \subseteq Nat \ {0}
  /\ MaxLog \in Nat
  /\ Kind \subseteq Store!Operation
  /\ IsFiniteSet(Profile)

Idle == Store!Idle
Active ==
  [pc : {"begin", "credential", "log", "remove", "commit", "readback", "done"},
   req : Store!Request,
   attempt : 1..MaxRetries,
   writes : UNION {[S -> Store!Row \cup {NoRow}] : S \in SUBSET Profile},
   logged : SUBSET Profile,
   todo : SUBSET Profile,
   result : Store!Result \cup {"40001", "cancelled"}]

TypeOK ==
  /\ engine \in Engine
  /\ store \in [Profile -> Store!Row \cup {NoRow}]
  /\ log \in [Profile -> Nat]
  /\ tx \in [Client -> {Idle} \cup Active]

Init ==
  /\ engine \in Engine
  /\ store = [p \in Profile |-> NoRow]
  /\ log = [p \in Profile |-> 0]
  /\ tx = [c \in Client |-> Idle]

-----------------------------------------------------------------------------
\* Transactions.

InTx(c) == tx[c].pc \in {"credential", "log", "remove", "commit"}

Locked(c, p) == \E d \in Client \ {c} : InTx(d) /\ p \in DOMAIN tx[d].writes

\* A statement's view: the newest committed row, or the transaction's own write.
Sees(c, p) == IF p \in DOMAIN tx[c].writes THEN tx[c].writes[p] ELSE store[p]

Wrote(t, p, r) == [q \in DOMAIN t.writes \cup {p} |-> IF q = p THEN r ELSE t.writes[q]]

\* No transaction is open, or not any more.
Without(t, pc, attempt, result) ==
  [pc |-> pc, req |-> t.req, attempt |-> attempt, writes |-> NoWrites,
   logged |-> {}, todo |-> {}, result |-> result]

Ended(t, result) == Without(t, "done", t.attempt, result)

\* Everything before it is undone: the deferred Rollback.
Fails(c, result) ==
  /\ tx' = [tx EXCEPT ![c] = Ended(@, result)]
  /\ UNCHANGED <<engine, store, log>>

Call(c, req) ==
  /\ tx[c] = Idle
  /\ tx' = [tx EXCEPT ![c] = Without([req |-> req], "begin", 1, "ok")]
  /\ UNCHANGED <<engine, store, log>>

\* BeginTx, of which only the first statement is seen: SetMaxOpenConns(1) lets one
\* transaction in at a time.
Begins(c) ==
  /\ tx[c].pc = "begin"
  /\ engine = "sqlite" => ~\E d \in Client : InTx(d)

-----------------------------------------------------------------------------
\* The statements of an operation on one row.

\* What the first statement leaves; the composite inserts the credential with a
\* second one.
FirstWrite(req, r) ==
  IF req.kind = "CreateProfileWithCredential" THEN Store!Fresh(req.source, FALSE)
  ELSE Store!After(req, r)

\* A row that was not there is made only MaxLog deletions deep (bound), and an id
\* that DAO or server generates is not in use.
RowStatement(c, kind, next) ==
  LET t == tx[c]
      p == t.req.id
      r == Sees(c, p)
  IN  /\ Begins(c)
      /\ t.req.kind = kind
      /\ ~Locked(c, p)
      /\ Store!Applies(t.req, r)
      /\ r = NoRow => log[p] < MaxLog
      /\ tx' = [tx EXCEPT ![c].pc = next,
                          ![c].writes = Wrote(t, p, FirstWrite(t.req, r))]
      /\ UNCHANGED <<engine, store, log>>

InsertProfile(c) == RowStatement(c, "Create", "commit")
InsertBoth(c) == RowStatement(c, "CreateProfileWithCredential", "credential")
UpdateProfile(c) == RowStatement(c, "Update", "commit")
UpsertProfile(c) == RowStatement(c, "Upsert", "commit")
RemoveProfile(c) == RowStatement(c, "Delete", "commit")
EraseProfile(c) == RowStatement(c, "DeleteProfile", "log")
InsertCredential(c) == RowStatement(c, "CreateCredential", "commit")
RemoveCredential(c) == RowStatement(c, "DeleteCredential", "commit")

\* sql.ErrNoRows or no row affected, or the foreign key of a new credential.
RowMissing(c) ==
  /\ Begins(c)
  /\ tx[c].req.kind \notin Store!Inserts \cup {"DeleteExpired"}
  /\ ~Locked(c, tx[c].req.id)
  /\ ~Store!Applies(tx[c].req, Sees(c, tx[c].req.id))
  /\ Fails(c, Store!Missing(tx[c].req))

\* validateMethod passed, INSERT INTO user_credential.
CredentialStatement(c) ==
  LET t == tx[c]
      r == Sees(c, t.req.id)
  IN  /\ t.pc = "credential"
      /\ tx' = [tx EXCEPT ![c].pc = "commit",
                          ![c].writes = Wrote(t, t.req.id, Store!Fresh(r.source, TRUE))]
      /\ UNCHANGED <<engine, store, log>>

\* INSERT INTO deletion_log with reason subject_request.
LogStatement(c) ==
  /\ tx[c].pc = "log"
  /\ tx' = [tx EXCEPT ![c].pc = "commit", ![c].logged = @ \cup {tx[c].req.id}]
  /\ UNCHANGED <<engine, store, log>>

-----------------------------------------------------------------------------
\* DeleteExpired: candidates, then each of them again.

Batch(t, todo, writes, logged, result) ==
  [pc |-> "remove", req |-> t.req, attempt |-> t.attempt, writes |-> writes,
   logged |-> logged, todo |-> todo, result |-> result]

SelectCandidates(c) ==
  LET expired == {p \in Profile : Store!Expired(store[p], tx[c].req.class)}
  IN  /\ Begins(c)
      /\ tx[c].req.kind = "DeleteExpired"
      /\ \E ids \in SUBSET expired :
           /\ Cardinality(ids) <= MaxRows
           /\ Cardinality(ids) < MaxRows => ids = expired
           /\ tx' = [tx EXCEPT ![c] = Batch(@, ids, @.writes, @.logged,
                        IF Cardinality(ids) < MaxRows THEN "drained" ELSE "ok")]
      /\ UNCHANGED <<engine, store, log>>

\* Regression: DELETE ... WHERE id = ?, without the candidates' predicate.
StillQualifies_Dropped(r, class) == r # NoRow

\* The DELETE repeats the predicate of the SELECT.  On PostgreSQL they are one
\* statement: a row that changed is looked at again, the EXISTS subquery keeps
\* the statement's snapshot.
StillQualifies(r, class) ==
  IF engine = "postgres" THEN Store!Lapsed(r, class) ELSE Store!Expired(r, class)

RemoveCandidate(c, p) ==
  LET t == tx[c]
  IN  /\ t.pc = "remove"
      /\ p \in t.todo
      /\ ~Locked(c, p)
      /\ tx' = [tx EXCEPT ![c] =
           IF StillQualifies(store[p], t.req.class)
           THEN Batch(t, t.todo \ {p}, Wrote(t, p, NoRow), t.logged \cup {p}, t.result)
           ELSE Batch(t, t.todo \ {p}, t.writes, t.logged, t.result)]
      /\ UNCHANGED <<engine, store, log>>

-----------------------------------------------------------------------------
\* Commit, failure and retry.

\* All statements have run (the SELECT MIN of a batch is read by a metric only).
Finished(c) ==
  \/ tx[c].pc = "commit"
  \/ tx[c].pc = "remove" /\ tx[c].todo = {}

\* CockroachDB: what a transaction scanned is still so.
ScanValid(c) ==
  tx[c].result = "drained" /\ engine = "cockroachdb" =>
    \A p \in Profile \ DOMAIN tx[c].writes : ~Store!Expired(store[p], tx[c].req.class)

Committed(c) ==
  /\ store' = [p \in Profile |-> Sees(c, p)]
  /\ log' = [p \in Profile |-> IF p \in tx[c].logged THEN log[p] + 1 ELSE log[p]]
  /\ UNCHANGED engine

\* SQLite has no RETURNING here: what was written is read back after the commit.
ReadsBack(req) ==
  engine = "sqlite" /\ req.kind \in Store!Writes \cup {"CreateCredential"}

Commit(c) ==
  LET t == tx[c]
  IN  /\ Finished(c)
      /\ ScanValid(c)
      /\ Committed(c)
      /\ tx' = [tx EXCEPT ![c] = IF ReadsBack(t.req)
                                THEN Without(t, "readback", t.attempt, "ok")
                                ELSE Ended(t, t.result)]

\* Regression: any error of tx.Commit is retried.
Retryable_AnyError(answer) == TRUE

\* isRetryable: SQLSTATE 40001.
Retryable(answer) == answer = "40001"

\* Regression: one attempt more than maxRetries.
AfterCommitError_OneMore(t, answer) ==
  IF engine = "cockroachdb" /\ Retryable(answer) /\ t.attempt <= MaxRetries
  THEN {Without(t, "begin", t.attempt + 1, "ok")}
  ELSE {Ended(t, answer)}

\* retryLoop with the error of tx.Commit, which runOnce passes on raw: fn again, up
\* to MaxRetries attempts, unless the context ends during the backoff: the caller then
\* gets the 40001 too.
AfterCommitError(t, answer) ==
  IF engine = "cockroachdb" /\ Retryable(answer) /\ t.attempt < MaxRetries
  THEN {Without(t, "begin", t.attempt + 1, "ok"), Ended(t, "cancelled")}
  ELSE {Ended(t, answer)}

\* The connection is lost while the server commits: an error without SQLSTATE.
CommitAnswerLost(c) ==
  /\ Finished(c)
  /\ engine # "sqlite"
  /\ ScanValid(c)
  /\ Committed(c)
  /\ \E t \in AfterCommitError(tx[c], "error") : tx' = [tx EXCEPT ![c] = t]

\* The server refuses the commit, nothing was applied.
CommitRefused(c) ==
  /\ engine = "cockroachdb"
  /\ Finished(c)
  /\ \E t \in AfterCommitError(tx[c], "40001") : tx' = [tx EXCEPT ![c] = t]
  /\ UNCHANGED <<engine, store, log>>

\* Get (and GetByUsername) after the commit; also this may fail.
ReadBack(c) ==
  LET t == tx[c]
      r == store[t.req.id]
      found == r # NoRow /\ (t.req.kind \in {"CreateProfileWithCredential",
                                             "CreateCredential"} => r.cred)
  IN  /\ t.pc = "readback"
      /\ ~\E d \in Client : InTx(d)
      /\ \E result \in {IF found THEN "ok" ELSE "ErrNotFound", "error"} :
           tx' = [tx EXCEPT ![c] = Ended(@, result)]
      /\ UNCHANGED <<engine, store, log>>

\* Any statement may fail: a deadline, a constraint, a deadlock the engine breaks.
StatementFails(c) ==
  /\ tx[c].pc = "begin" \/ InTx(c)
  /\ Fails(c, "error")

\* A 40001 raised by a statement.  translateError has made it an unclassified
\* error before retryLoop sees it, so isRetryable says no.
StatementRefused(c) ==
  /\ engine = "cockroachdb"
  /\ tx[c].pc = "begin" \/ InTx(c)
  /\ ~Finished(c)
  /\ Fails(c, "40001")

Return(c) ==
  /\ tx[c].pc = "done"
  /\ tx' = [tx EXCEPT ![c] = Idle]
  /\ UNCHANGED <<engine, store, log>>

\* No row ages during a batch: olderThan is fixed before it begins, so a row that
\* comes of age later is not older than it.
Age(p) ==
  /\ store[p] # NoRow
  /\ ~\E c \in Client : InTx(c) /\ tx[c].req.kind = "DeleteExpired"
  /\ ~\E c \in Client : InTx(c) /\ p \in DOMAIN tx[c].writes
  /\ store' = [store EXCEPT ![p] = Store!Aged(@)]
  /\ UNCHANGED <<engine, log, tx>>

Next ==
  \/ \E c \in Client :
       \/ \E req \in Store!Request : Call(c, req)
       \/ InsertProfile(c) \/ InsertBoth(c) \/ UpdateProfile(c) \/ UpsertProfile(c)
       \/ RemoveProfile(c) \/ EraseProfile(c)
       \/ InsertCredential(c) \/ RemoveCredential(c)
       \/ RowMissing(c)
       \/ CredentialStatement(c)
       \/ LogStatement(c)
       \/ SelectCandidates(c)
       \/ \E p \in Profile : RemoveCandidate(c, p)
       \/ Commit(c)
       \/ CommitAnswerLost(c)
       \/ ReadBack(c)
       \/ StatementFails(c)
       \/ StatementRefused(c)
       \/ CommitRefused(c)
       \/ Return(c)
  \/ \E p \in Profile : Age(p)

Spec == Init /\ [][Next]_vars

-----------------------------------------------------------------------------
\* The refinement (repository.go, multi-db-strategy.md 3a-3c): on every engine each
\* operation is one atomic step between its call and its return.  No composite is
\* seen half done, no erasure goes unlogged or is logged twice, whatever fails, is
\* answered late or is retried.
StoreSpec == Store!Spec

\* postgres/composite.go:104-110, sqlite/composite.go:139-147: a row refreshed
\* between the selection of a batch and its deletion survives the batch.
RefreshedSurvives ==
  [][\A c \in Client, p \in Profile :
       /\ tx[c] # Idle
       /\ tx[c].req.kind = "DeleteExpired"
       /\ InTx(c) /\ tx'[c].pc = "done"
       /\ store[p] # NoRow /\ store'[p] = NoRow
       => Store!Lapsed(store[p], tx[c].req.class)]_vars

\* postgres/retry.go:47-52: on CockroachDB a write whose failure is a genuine 40001
\* is retried, so no caller that still waits sees one before the last attempt.
SerializationRetried ==
  \A c \in Client :
    tx[c] # Idle /\ tx[c].pc = "done" /\ tx[c].result = "40001" =>
      tx[c].attempt = MaxRetries

=============================================================================
