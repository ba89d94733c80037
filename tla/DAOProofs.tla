------------------------------ MODULE DAOProofs ------------------------------
(***************************************************************************)
(* DAO implements ProfileStore for every value of the constants: any       *)
(* profiles, clients, operations, engines, batch bound and retries.        *)
(*                                                                         *)
(* Every step of DAO is a step of ProfileStore or leaves its variables     *)
(* alone.  A commit is the step that takes effect, so the invariant says   *)
(* what a transaction has written so far and that the committed rows it    *)
(* rests on are still the ones its statements saw.                         *)
(***************************************************************************)
EXTENDS DAO, FiniteSetTheorems, TLAPS

StoredRow == Store!Row \cup {NoRow}

\* A call without a transaction has written nothing.
Clean(t) ==
  t.pc \in {"begin", "readback", "done"} =>
    /\ t.writes = NoWrites /\ t.logged = {} /\ t.todo = {}
    /\ t.pc \in {"begin", "readback"} => t.result = "ok"
    /\ t.pc = "readback" => ReadsBack(t.req)

\* A transaction on one row can still be carried out on the committed row.
OneRow(t) ==
  t.pc \in {"credential", "log", "commit"} =>
    /\ t.req.kind # "DeleteExpired"
    /\ DOMAIN t.writes = {t.req.id}
    /\ t.todo = {}
    /\ t.result = "ok"
    /\ Store!Applies(t.req, store[t.req.id])
    /\ t.writes[t.req.id] = IF t.pc = "credential" THEN FirstWrite(t.req, store[t.req.id])
                            ELSE Store!After(t.req, store[t.req.id])
    /\ t.logged = IF t.pc = "commit" /\ t.req.kind = "DeleteProfile" THEN {t.req.id}
                  ELSE {}
    /\ t.pc = "credential" => t.req.kind = "CreateProfileWithCredential"
    /\ t.pc = "log" => t.req.kind = "DeleteProfile"

\* A batch has deleted rows that qualify, and none other; on SQLite, where nothing
\* else runs, no row has become a candidate since they were selected.
BatchSofar(class, todo, writes, result) ==
  /\ Cardinality(DOMAIN writes \cup todo) <= MaxRows
  /\ \A p \in DOMAIN writes : writes[p] = NoRow /\ StillQualifies(store[p], class)
  /\ result = "drained" /\ engine = "sqlite" =>
       {p \in Profile : Store!Expired(store[p], class)} \subseteq DOMAIN writes \cup todo

SomeRows(t) ==
  t.pc = "remove" =>
    /\ t.req.kind = "DeleteExpired"
    /\ t.result \in {"ok", "drained"}
    /\ t.logged = DOMAIN t.writes
    /\ BatchSofar(t.req.class, t.todo, t.writes, t.result)

\* The locks, and SQLite's single connection.
Isolated ==
  \A c, d \in Client :
    c # d /\ InTx(c) /\ InTx(d) =>
      /\ DOMAIN tx[c].writes \cap DOMAIN tx[d].writes = {}
      /\ engine # "sqlite"

Good(t) == t # Idle => Clean(t) /\ OneRow(t) /\ SomeRows(t)

IInv ==
  /\ TypeOK
  /\ Isolated
  /\ \A c \in Client : Good(tx[c])

-----------------------------------------------------------------------------
\* Constants, requests and rows.

LEMMA Constants ==
  /\ Engine \subseteq {"sqlite", "postgres", "cockroachdb"}
  /\ MaxRetries \in Nat \ {0} /\ MaxRows \in Nat \ {0}
  /\ Kind \subseteq Store!Operation
  /\ IsFiniteSet(Profile)
BY DAOAssumption

LEMMA RequestFields ==
  ASSUME NEW req \in Store!Request
  PROVE  /\ req.kind \in Store!Operation
         /\ req.kind # "DeleteExpired" => req.id \in Profile
         /\ req.kind \in Store!Writes => req.source \in Store!Source
         /\ req.kind = "DeleteExpired" => req.class \in Store!Class
BY Constants DEF Store!Request, Store!Operation, Store!Writes, Store!Inserts

LEMMA FreshType ==
  ASSUME NEW source \in Store!Source, NEW cred \in BOOLEAN
  PROVE  Store!Fresh(source, cred) \in Store!Row
BY DEF Store!Fresh, Store!Row, Store!Clock

LEMMA AfterType ==
  ASSUME NEW req \in Store!Request, NEW r \in StoredRow, req.kind # "DeleteExpired",
         Store!Applies(req, r)
  PROVE  Store!After(req, r) \in StoredRow
<1>1. CASE req.kind \in Store!Inserts
  <2>1. req.source \in Store!Source
    BY <1>1, RequestFields DEF Store!Writes
  <2>2. \A cred \in BOOLEAN : Store!Fresh(req.source, cred) \in Store!Row
    BY <2>1, FreshType
  <2>3. Store!Fresh(req.source, req.kind = "CreateProfileWithCredential") \in Store!Row
    BY <2>2
  <2>4. Store!After(req, r)
          = Store!Fresh(req.source, req.kind = "CreateProfileWithCredential")
    BY <1>1, Zenon DEF Store!After, Store!Inserts
  <2> QED BY <2>3, <2>4 DEF StoredRow
<1>2. CASE req.kind = "Update"
  <2>1. req.source \in Store!Source
    BY <1>2, RequestFields DEF Store!Writes
  <2>2. r \in Store!Row
    BY <1>2 DEF Store!Applies, StoredRow, Store!Inserts
  <2>3. Store!Refreshed(r, req.source) \in Store!Row
    BY <2>1, <2>2 DEF Store!Refreshed, Store!Row, Store!Clock
  <2> QED BY <1>2, <2>3 DEF Store!After, StoredRow, Store!Inserts
<1>3. CASE req.kind = "Upsert"
  <2>1. req.source \in Store!Source
    BY <1>3, RequestFields DEF Store!Writes
  <2>2. r # NoRow => Store!Refreshed(r, req.source) \in Store!Row
    BY <2>1 DEF Store!Refreshed, Store!Row, Store!Clock, StoredRow
  <2>3. Store!Upserted(r, req.source) \in Store!Row
    BY <2>1, <2>2, FreshType DEF Store!Upserted
  <2> QED BY <1>3, <2>3 DEF Store!After, StoredRow, Store!Inserts
<1>4. CASE req.kind \in {"CreateCredential", "DeleteCredential"}
  <2>1. r \in Store!Row
    BY <1>4 DEF Store!Applies, StoredRow, Store!Inserts
  <2>2. \A cred \in BOOLEAN : Store!WithCredential(r, cred) \in Store!Row
    BY <2>1 DEF Store!WithCredential, Store!Row
  <2>3. Store!WithCredential(r, req.kind = "CreateCredential") \in Store!Row
    BY <2>2
  <2> QED BY <1>4, <2>3 DEF Store!After, StoredRow, Store!Inserts
<1>5. CASE req.kind \in {"Delete", "DeleteProfile"}
  BY <1>5 DEF Store!After, StoredRow, Store!Inserts
<1>6. req.kind \in Store!Operation
  BY RequestFields
<1> QED BY <1>1, <1>2, <1>3, <1>4, <1>5, <1>6 DEF Store!Operation, Store!Writes

LEMMA FirstWriteType ==
  ASSUME NEW req \in Store!Request, NEW r \in StoredRow, req.kind # "DeleteExpired",
         Store!Applies(req, r)
  PROVE  FirstWrite(req, r) \in StoredRow
<1>1. CASE req.kind = "CreateProfileWithCredential"
  <2>1. req.source \in Store!Source
    BY <1>1, RequestFields DEF Store!Writes, Store!Inserts
  <2> QED BY <1>1, <2>1, FreshType DEF FirstWrite, StoredRow
<1>2. CASE req.kind # "CreateProfileWithCredential"
  BY <1>2, AfterType DEF FirstWrite
<1> QED BY <1>1, <1>2

-----------------------------------------------------------------------------
\* What a transaction has written.

Writes == UNION {[S -> StoredRow] : S \in SUBSET Profile}

LEMMA WritesFields ==
  ASSUME NEW w \in Writes
  PROVE  DOMAIN w \in SUBSET Profile /\ w \in [DOMAIN w -> StoredRow]
BY DEF Writes

LEMMA WritesIntro ==
  ASSUME NEW S \in SUBSET Profile, NEW w \in [S -> StoredRow]
  PROVE  w \in Writes
BY DEF Writes

LEMMA WroteType ==
  ASSUME NEW t, t.writes \in Writes, NEW p \in Profile, NEW r \in StoredRow
  PROVE  /\ Wrote(t, p, r) \in Writes
         /\ DOMAIN Wrote(t, p, r) = DOMAIN t.writes \cup {p}
         /\ \A q \in DOMAIN t.writes \cup {p} :
              Wrote(t, p, r)[q] = IF q = p THEN r ELSE t.writes[q]
<1> DEFINE S == DOMAIN t.writes \cup {p}
           w == Wrote(t, p, r)
<1>1. S \in SUBSET Profile
  BY WritesFields
<1>2. \A q \in DOMAIN t.writes : t.writes[q] \in StoredRow
  BY WritesFields
<1>3. w = [q \in S |-> IF q = p THEN r ELSE t.writes[q]]
  BY DEF Wrote
<1>4. w \in [S -> StoredRow]
  BY <1>2, <1>3
<1>5. w \in Writes
  BY <1>1, <1>4, WritesIntro
<1> QED BY <1>3, <1>5

LEMMA NoWritesType == NoWrites \in Writes /\ DOMAIN NoWrites = {}
<1>1. NoWrites \in [{} -> StoredRow]
  BY DEF NoWrites
<1> QED BY <1>1, WritesIntro DEF NoWrites

LEMMA ActiveFields ==
  ASSUME TypeOK, NEW c \in Client, tx[c].pc # "idle"
  PROVE  /\ tx[c] # Idle /\ tx[c] \in Active
         /\ tx[c].req \in Store!Request
         /\ tx[c].attempt \in 1..MaxRetries
         /\ tx[c].writes \in Writes
         /\ tx[c].logged \in SUBSET Profile
         /\ tx[c].todo \in SUBSET Profile
         /\ tx[c].result \in Store!Result \cup {"40001", "cancelled"}
BY DEF TypeOK, Idle, Store!Idle, Active, Writes, StoredRow

-----------------------------------------------------------------------------
\* One client moves on.

InTxPc == {"credential", "log", "remove", "commit"}

\* To t, with the store left alone and the locks respected.
LEMMA MoveOn ==
  ASSUME IInv, NEW c \in Client, NEW t \in {Idle} \cup Active, Good(t),
         tx' = [tx EXCEPT ![c] = t],
         UNCHANGED <<engine, store, log>>,
         t.pc \in InTxPc =>
           \A d \in Client \ {c} : InTx(d) =>
             /\ DOMAIN t.writes \cap DOMAIN tx[d].writes = {}
             /\ engine # "sqlite"
  PROVE  IInv'
<1>1. \A d \in Client : tx'[d] = IF d = c THEN t ELSE tx[d]
  BY DEF IInv, TypeOK
<1>2. TypeOK'
  BY DEF IInv, TypeOK
<1>3. Isolated'
  <2>1. \A d \in Client : InTx(d)' <=> IF d = c THEN t.pc \in InTxPc ELSE InTx(d)
    BY <1>1 DEF InTx, InTxPc
  <2> SUFFICES ASSUME NEW d \in Client, NEW e \in Client, d # e, InTx(d)', InTx(e)'
               PROVE  /\ DOMAIN tx'[d].writes \cap DOMAIN tx'[e].writes = {}
                      /\ engine # "sqlite"
    BY DEF Isolated
  <2>2. CASE d = c
    BY <1>1, <2>1, <2>2
  <2>3. CASE e = c
    BY <1>1, <2>1, <2>3
  <2>4. CASE d # c /\ e # c
    BY <1>1, <2>1, <2>4 DEF IInv, Isolated
  <2> QED BY <2>2, <2>3, <2>4
<1>4. \A d \in Client : Good(tx[d])'
  <2> TAKE d \in Client
  <2>1. Good(tx'[d])
    BY <1>1 DEF IInv
  <2> QED BY <2>1 DEF Good, Clean, OneRow, SomeRows, BatchSofar, ReadsBack, StillQualifies
<1> QED BY <1>2, <1>3, <1>4 DEF IInv

-----------------------------------------------------------------------------
\* The promise a step keeps.

Pending == {"begin", "credential", "log", "remove", "commit"}

LEMMA PromisedOf ==
  ASSUME NEW t
  PROVE  /\ t.pc = "idle" => Promised(t) = Store!Idle
         /\ t.pc \in Pending => Promised(t) = [pc |-> "pending", req |-> t.req]
         /\ t.pc \in {"readback", "done"} =>
              Promised(t) = [pc |-> "done", req |-> t.req,
                result |-> IF t.result \in {"40001", "cancelled"} THEN "error"
                           ELSE t.result]
BY DEF Promised, Store!Idle, Pending

LEMMA PromisedUpdate ==
  ASSUME TypeOK, NEW c \in Client, NEW t, tx' = [tx EXCEPT ![c] = t]
  PROVE  /\ promised' = [promised EXCEPT ![c] = Promised(t)]
         /\ promised[c] = Promised(tx[c])
         /\ Promised(t) = Promised(tx[c]) => promised' = promised
<1>1. tx' \in [Client -> {t} \cup {tx[d] : d \in Client}]
      /\ \A d \in Client : tx'[d] = IF d = c THEN t ELSE tx[d]
  BY DEF TypeOK
<1>2. \A d \in Client : Promised(tx[d])' = Promised(tx'[d])
  BY DEF Promised
<1>3. promised' = [d \in Client |-> IF d = c THEN Promised(t) ELSE Promised(tx[d])]
  BY <1>1, <1>2 DEF promised, Promised
<1>4. promised = [d \in Client |-> Promised(tx[d])]
  BY DEF promised
<1> HIDE DEF promised
<1> QED BY <1>3, <1>4

\* What a step must show: it keeps the invariant, and is one of ProfileStore or none.
Implements == Store!Next \/ UNCHANGED Store!storeVars

\* A step inside a call.
LEMMA StutterStep ==
  ASSUME TypeOK, NEW c \in Client, NEW t, tx' = [tx EXCEPT ![c] = t],
         tx[c].pc \in Pending, t.pc \in Pending, t.req = tx[c].req,
         UNCHANGED <<engine, store, log>>
  PROVE  Implements
<1>1. Promised(t) = Promised(tx[c])
  BY PromisedOf
<1>2. promised' = promised
  BY <1>1, PromisedUpdate
<1> QED BY <1>2 DEF Implements, Store!storeVars

\* A call that ends without effect, with an error or for a row that is not there.
LEMMA RefuseStep ==
  ASSUME TypeOK, NEW c \in Client, NEW result, tx[c].pc \in Pending,
         tx' = [tx EXCEPT ![c] = Ended(tx[c], result)],
         UNCHANGED <<engine, store, log>>,
         \/ result \in {"error", "40001", "cancelled"}
         \/ /\ result = Store!Missing(tx[c].req)
            /\ tx[c].req.kind # "DeleteExpired"
            /\ ~Store!Applies(tx[c].req, store[tx[c].req.id])
  PROVE  Implements
<1> DEFINE t == Ended(tx[c], result)
           answer == IF result \in {"40001", "cancelled"} THEN "error" ELSE result
<1>1. t.pc = "done" /\ t.req = tx[c].req /\ t.result = result
  BY DEF Ended, Without
<1> HIDE DEF t
<1>2. Promised(t) = [pc |-> "done", req |-> tx[c].req, result |-> answer]
  BY <1>1, PromisedOf
<1>3. /\ promised[c].pc = "pending" /\ promised[c].req = tx[c].req
      /\ promised' = [promised EXCEPT ![c] =
           [pc |-> "done", req |-> promised[c].req, result |-> answer]]
  <2>1. promised[c] = [pc |-> "pending", req |-> tx[c].req]
    BY PromisedUpdate, PromisedOf DEF t
  <2>2. promised' = [promised EXCEPT ![c] = Promised(t)]
    BY PromisedUpdate DEF t
  <2> QED BY <1>2, <2>1, <2>2
<1>4. Store!Ends(c, answer)
  BY <1>3 DEF Store!Ends
<1>5. result = Store!Missing(tx[c].req) => answer = result
  BY DEF Store!Missing
<1>6. Store!Refuse(c)
  BY <1>3, <1>4, <1>5 DEF Store!Refuse
<1> QED BY <1>6 DEF Implements, Store!Next

-----------------------------------------------------------------------------
\* Calls without a transaction.

LEMMA WithoutGood ==
  ASSUME NEW t, t.req \in Store!Request, NEW pc \in {"begin", "readback", "done"},
         NEW attempt \in 1..MaxRetries,
         NEW result \in Store!Result \cup {"40001", "cancelled"},
         pc # "done" => result = "ok",
         pc = "readback" => ReadsBack(t.req)
  PROVE  LET u == Without(t, pc, attempt, result)
         IN  /\ u \in Active /\ Good(u)
             /\ u.pc = pc /\ u.req = t.req /\ u.result = result
             /\ u.pc \notin InTxPc
<1> DEFINE u == Without(t, pc, attempt, result)
<1>1. /\ u.pc = pc /\ u.req = t.req /\ u.attempt = attempt /\ u.writes = NoWrites
      /\ u.logged = {} /\ u.todo = {} /\ u.result = result
  BY DEF Without
<1>2. NoWrites \in UNION {[S -> Store!Row \cup {NoRow}] : S \in SUBSET Profile}
  BY NoWritesType DEF Writes, StoredRow
<1>3. u \in Active
  BY <1>2 DEF Without, Active
<1> HIDE DEF u
<1>4. Good(u)
  BY <1>1 DEF Good, Clean, OneRow, SomeRows
<1> QED BY <1>1, <1>3, <1>4 DEF u, InTxPc

LEMMA CallStep ==
  ASSUME IInv, NEW c \in Client, NEW req \in Store!Request, Call(c, req)
  PROVE  IInv' /\ Implements
<1> DEFINE t == Without([req |-> req], "begin", 1, "ok")
<1>1. tx' = [tx EXCEPT ![c] = t] /\ UNCHANGED <<engine, store, log>> /\ tx[c] = Idle
  BY DEF Call
<1>2. t \in Active /\ Good(t) /\ t.pc = "begin" /\ t.req = req /\ t.pc \notin InTxPc
  <2>1. 1 \in 1..MaxRetries /\ "ok" \in Store!Result
    BY Constants DEF Store!Result
  <2> DEFINE s == [req |-> req]
  <2>2. s.req = req
    OBVIOUS
  <2> HIDE DEF s
  <2> QED BY <2>1, <2>2, WithoutGood DEF s
<1> HIDE DEF t
<1>3. IInv'
  BY <1>1, <1>2, MoveOn
<1>4. promised[c] = Store!Idle /\ Promised(t) = [pc |-> "pending", req |-> req]
  <2>1. tx[c].pc = "idle"
    BY <1>1 DEF Idle, Store!Idle
  <2> QED BY <1>1, <1>2, <2>1, PromisedOf, PromisedUpdate DEF IInv, Pending
<1>5. promised' = [promised EXCEPT ![c] = [pc |-> "pending", req |-> req]]
  BY <1>1, <1>4, PromisedUpdate DEF IInv
<1>6. Store!Call(c, req)
  BY <1>1, <1>4, <1>5 DEF Store!Call
<1> QED BY <1>3, <1>6 DEF Implements, Store!Next

\* A call ends without effect.
LEMMA FailsStep ==
  ASSUME IInv, NEW c \in Client, tx[c].pc \in Pending, NEW result, Fails(c, result),
         \/ result \in {"error", "40001", "cancelled"}
         \/ /\ result = Store!Missing(tx[c].req)
            /\ tx[c].req.kind # "DeleteExpired"
            /\ ~Store!Applies(tx[c].req, store[tx[c].req.id])
  PROVE  IInv' /\ Implements
<1> DEFINE t == Ended(tx[c], result)
<1>1. tx' = [tx EXCEPT ![c] = t] /\ UNCHANGED <<engine, store, log>>
  BY DEF Fails
<1>2. tx[c] \in Active /\ tx[c].req \in Store!Request /\ tx[c].attempt \in 1..MaxRetries
  BY ActiveFields DEF IInv, Pending
<1>3. result \in Store!Result \cup {"40001", "cancelled"}
  BY DEF Store!Missing, Store!Result
<1>4. t \in Active /\ Good(t) /\ t.pc \notin InTxPc
  BY <1>2, <1>3, WithoutGood DEF Ended
<1>5. Implements
  BY <1>1, RefuseStep DEF IInv
<1> HIDE DEF t
<1>6. IInv'
  BY <1>1, <1>4, MoveOn
<1> QED BY <1>5, <1>6

LEMMA RowMissingStep ==
  ASSUME IInv, NEW c \in Client, RowMissing(c)
  PROVE  IInv' /\ Implements
<1>1. tx[c].pc = "begin" /\ Fails(c, Store!Missing(tx[c].req))
  BY DEF RowMissing, Begins
<1>2. tx[c].writes = NoWrites
  <2>1. tx[c] # Idle
    BY <1>1 DEF Idle, Store!Idle
  <2> QED BY <1>1, <2>1 DEF IInv, Good, Clean
<1>3. Sees(c, tx[c].req.id) = store[tx[c].req.id]
  BY <1>2, NoWritesType DEF Sees
<1>4. tx[c].req.kind # "DeleteExpired"
  BY DEF RowMissing
<1>5. ~Store!Applies(tx[c].req, store[tx[c].req.id])
  BY <1>3 DEF RowMissing
<1> QED BY <1>1, <1>4, <1>5, FailsStep DEF Pending

LEMMA StatementFailsStep ==
  ASSUME IInv, NEW c \in Client, StatementFails(c) \/ StatementRefused(c)
  PROVE  IInv' /\ Implements
<1>1. tx[c].pc \in Pending
  BY DEF StatementFails, StatementRefused, InTx, Pending
<1>2. Fails(c, "error") \/ Fails(c, "40001")
  BY DEF StatementFails, StatementRefused
<1> QED BY <1>1, <1>2, FailsStep

\* A refused commit begins another attempt, or is the last one.
LEMMA CommitRefusedStep ==
  ASSUME IInv, NEW c \in Client, CommitRefused(c)
  PROVE  IInv' /\ Implements
<1>1. tx[c].pc \in {"commit", "remove"} /\ UNCHANGED <<engine, store, log>>
  BY DEF CommitRefused, Finished
<1>2. /\ tx[c] \in Active /\ tx[c].req \in Store!Request
      /\ tx[c].attempt \in 1..MaxRetries
  BY <1>1, ActiveFields DEF IInv
<1>3. PICK t \in AfterCommitError(tx[c], "40001") : tx' = [tx EXCEPT ![c] = t]
  BY DEF CommitRefused
<1>4. CASE t = Ended(tx[c], "40001") \/ t = Ended(tx[c], "cancelled")
  <2>1. Fails(c, "40001") \/ Fails(c, "cancelled")
    BY <1>1, <1>3, <1>4 DEF Fails
  <2> QED BY <1>1, <2>1, FailsStep DEF Pending
<1>5. CASE /\ tx[c].attempt < MaxRetries
           /\ t = Without(tx[c], "begin", tx[c].attempt + 1, "ok")
  <2>1. tx[c].attempt + 1 \in 1..MaxRetries /\ "ok" \in Store!Result
    BY <1>2, <1>5, Constants DEF Store!Result
  <2>2. t \in Active /\ Good(t) /\ t.pc = "begin" /\ t.req = tx[c].req /\ t.pc \notin InTxPc
    BY <1>2, <1>5, <2>1, WithoutGood
  <2>3. IInv'
    BY <1>1, <1>3, <2>2, MoveOn
  <2>4. Implements
    BY <1>1, <1>3, <2>2, StutterStep DEF IInv, Pending
  <2> QED BY <2>3, <2>4
<1> QED BY <1>3, <1>4, <1>5 DEF AfterCommitError

\* The row read back may be gone, or not be read at all.
LEMMA ReadBackStep ==
  ASSUME IInv, NEW c \in Client, ReadBack(c)
  PROVE  IInv' /\ Implements
<1>1. tx[c].pc = "readback" /\ UNCHANGED <<engine, store, log>>
  BY DEF ReadBack
<1>2. PICK result \in {"ok", "ErrNotFound", "error"} :
        tx' = [tx EXCEPT ![c] = Ended(tx[c], result)]
  BY DEF ReadBack
<1>3. /\ tx[c] # Idle /\ tx[c] \in Active /\ tx[c].req \in Store!Request
      /\ tx[c].attempt \in 1..MaxRetries
  BY <1>1, ActiveFields DEF IInv
<1>4. tx[c].result = "ok" /\ ReadsBack(tx[c].req)
  BY <1>1, <1>3 DEF IInv, Good, Clean
<1> DEFINE t == Ended(tx[c], result)
<1>5. result \in Store!Result \cup {"40001", "cancelled"}
  BY DEF Store!Result
<1>6. t \in Active /\ Good(t) /\ t.pc = "done" /\ t.req = tx[c].req /\ t.result = result
      /\ t.pc \notin InTxPc
  BY <1>3, <1>5, WithoutGood DEF Ended
<1>7. tx' = [tx EXCEPT ![c] = t]
  BY <1>2
<1> HIDE DEF t
<1>8. IInv'
  BY <1>1, <1>6, <1>7, MoveOn
<1>9. /\ promised[c] = [pc |-> "done", req |-> tx[c].req, result |-> "ok"]
      /\ promised' = [promised EXCEPT ![c] =
           [pc |-> "done", req |-> tx[c].req, result |-> result]]
      /\ result = "ok" => promised' = promised
  <2>1. Promised(tx[c]) = [pc |-> "done", req |-> tx[c].req, result |-> "ok"]
    BY <1>1, <1>4, PromisedOf
  <2>2. Promised(t) = [pc |-> "done", req |-> tx[c].req, result |-> result]
    BY <1>6, PromisedOf
  <2>3. /\ promised' = [promised EXCEPT ![c] = Promised(t)]
        /\ promised[c] = Promised(tx[c])
        /\ Promised(t) = Promised(tx[c]) => promised' = promised
    BY <1>7, PromisedUpdate DEF IInv
  <2>4. promised' = [promised EXCEPT ![c] =
          [pc |-> "done", req |-> tx[c].req, result |-> result]]
    BY <2>2, <2>3
  <2>5. result = "ok" => promised' = promised
    BY <2>1, <2>2, <2>3
  <2> QED BY <2>1, <2>3, <2>4, <2>5
<1>10. CASE result = "ok"
  BY <1>1, <1>8, <1>9, <1>10 DEF Implements, Store!storeVars
<1>11. CASE result # "ok"
  <2>1. tx[c].req.kind \in Store!Writes \cup {"CreateCredential"}
    BY <1>4 DEF ReadsBack
  <2>2. /\ promised[c].pc = "done" /\ promised[c].result = "ok"
        /\ promised[c].req = tx[c].req
    BY <1>9
  <2>3. result \in {"ErrNotFound", "error"}
    BY <1>11
  <2>4. promised' = [promised EXCEPT ![c] =
          [pc |-> "done", req |-> promised[c].req, result |-> result]]
    BY <1>9, <2>2
  <2>5. Store!Forget(c)
    BY <1>1, <2>1, <2>2, <2>3, <2>4 DEF Store!Forget
  <2> QED BY <1>8, <2>5 DEF Implements, Store!Next
<1> QED BY <1>10, <1>11

LEMMA ReturnStep ==
  ASSUME IInv, NEW c \in Client, Return(c)
  PROVE  IInv' /\ Implements
<1>1. /\ tx[c].pc = "done" /\ tx' = [tx EXCEPT ![c] = Idle]
      /\ UNCHANGED <<engine, store, log>>
  BY DEF Return
<1>2. Good(Idle) /\ Idle.pc = "idle" /\ Idle.pc \notin InTxPc
  BY DEF Good, Idle, Store!Idle, InTxPc
<1>3. IInv'
  BY <1>1, <1>2, MoveOn
<1>4. promised[c].pc = "done" /\ promised' = [promised EXCEPT ![c] = Store!Idle]
  <2>1. Promised(Idle) = Store!Idle
    BY <1>2, PromisedOf
  <2>2. Promised(tx[c]).pc = "done"
    BY <1>1, PromisedOf
  <2>3. promised' = [promised EXCEPT ![c] = Promised(Idle)] /\ promised[c] = Promised(tx[c])
    BY <1>1, PromisedUpdate DEF IInv
  <2> QED BY <2>1, <2>2, <2>3
<1>5. Store!Return(c)
  BY <1>1, <1>4 DEF Store!Return
<1> QED BY <1>3, <1>5 DEF Implements, Store!Next

-----------------------------------------------------------------------------
\* The statements of an operation on one row.

\* What is true of a call whose transaction may begin.
LEMMA BeginsFields ==
  ASSUME IInv, NEW c \in Client, Begins(c)
  PROVE  /\ tx[c].pc = "begin" /\ tx[c] # Idle /\ tx[c] \in Active
         /\ tx[c].req \in Store!Request
         /\ tx[c].writes = NoWrites /\ tx[c].logged = {} /\ tx[c].todo = {}
         /\ tx[c].result = "ok"
         /\ \A p : Sees(c, p) = store[p]
         /\ \A d \in Client \ {c} : InTx(d) => engine # "sqlite"
<1>1. tx[c].pc = "begin"
  BY DEF Begins
<1>2. tx[c] # Idle /\ tx[c] \in Active /\ tx[c].req \in Store!Request
  BY <1>1, ActiveFields DEF IInv
<1>3. /\ tx[c].writes = NoWrites /\ tx[c].logged = {} /\ tx[c].todo = {}
      /\ tx[c].result = "ok"
  BY <1>1, <1>2 DEF IInv, Good, Clean
<1>4. \A p : Sees(c, p) = store[p]
  BY <1>3, NoWritesType DEF Sees
<1>5. \A d \in Client \ {c} : InTx(d) => engine # "sqlite"
  BY DEF Begins
<1> QED BY <1>1, <1>2, <1>3, <1>4, <1>5

LEMMA RowStatementStep ==
  ASSUME IInv, NEW c \in Client, NEW kind, NEW next, RowStatement(c, kind, next),
         \/ /\ kind \in Store!Operation
               \ {"CreateProfileWithCredential", "DeleteProfile", "DeleteExpired"}
            /\ next = "commit"
         \/ kind = "CreateProfileWithCredential" /\ next = "credential"
         \/ kind = "DeleteProfile" /\ next = "log"
  PROVE  IInv' /\ Implements
<1> DEFINE p == tx[c].req.id
           r == store[p]
           w == Wrote(tx[c], p, FirstWrite(tx[c].req, r))
           t == [tx[c] EXCEPT !.pc = next, !.writes = w]
<1>1. Begins(c) /\ tx[c].req.kind = kind
  BY DEF RowStatement
<1>2. /\ tx[c].pc = "begin" /\ tx[c] # Idle /\ tx[c] \in Active
      /\ tx[c].req \in Store!Request
      /\ tx[c].writes = NoWrites /\ tx[c].logged = {} /\ tx[c].todo = {}
      /\ tx[c].result = "ok"
      /\ Sees(c, p) = r
      /\ \A d \in Client \ {c} : InTx(d) => engine # "sqlite"
  BY <1>1, BeginsFields
<1>3. /\ ~Locked(c, p) /\ Store!Applies(tx[c].req, r)
      /\ UNCHANGED <<engine, store, log>>
  BY <1>2 DEF RowStatement
<1>4. tx' = [tx EXCEPT ![c] = t]
  <2>1. tx' = [tx EXCEPT ![c].pc = next,
                         ![c].writes = Wrote(tx[c], p, FirstWrite(tx[c].req, Sees(c, p)))]
    BY DEF RowStatement
  <2> QED BY <1>2, <2>1
<1>5. kind # "DeleteExpired" /\ p \in Profile
  BY <1>1, <1>2, RequestFields
<1>6. r \in StoredRow
  BY <1>5 DEF IInv, TypeOK, StoredRow
<1>7. FirstWrite(tx[c].req, r) \in StoredRow
  BY <1>1, <1>2, <1>3, <1>5, <1>6, FirstWriteType
<1>8. /\ w \in Writes /\ DOMAIN w = {p} /\ w[p] = FirstWrite(tx[c].req, r)
  <2> DEFINE f == FirstWrite(tx[c].req, r)
  <2>1. f \in StoredRow
    BY <1>7
  <2>2. w = Wrote(tx[c], p, f)
    OBVIOUS
  <2>3. tx[c].writes \in Writes /\ DOMAIN tx[c].writes = {}
    BY <1>2, NoWritesType
  <2> HIDE DEF f, w
  <2>4. /\ w \in Writes /\ DOMAIN w = DOMAIN tx[c].writes \cup {p}
        /\ \A q \in DOMAIN tx[c].writes \cup {p} :
             w[q] = IF q = p THEN f ELSE tx[c].writes[q]
    BY <1>5, <2>1, <2>2, <2>3, WroteType
  <2>5. w[p] = f
    BY <2>4
  <2>6. DOMAIN w = {p}
    BY <2>3, <2>4
  <2> QED BY <2>4, <2>5, <2>6 DEF f
<1> HIDE DEF w
<1>9. next \in {"credential", "log", "commit"}
  OBVIOUS
<1>10. /\ t \in Active
       /\ t.pc = next /\ t.writes = w /\ t.req = tx[c].req
       /\ t.logged = {} /\ t.todo = {} /\ t.result = "ok"
  BY <1>2, <1>8, <1>9 DEF Active, Writes, StoredRow
<1> HIDE DEF t
<1>11. OneRow(t)
  <2>1. next # "credential" => w[p] = Store!After(t.req, r)
    BY <1>1, <1>8, <1>10 DEF FirstWrite
  <2> QED BY <1>1, <1>3, <1>5, <1>8, <1>10, <2>1 DEF OneRow
<1>12. Good(t)
  BY <1>9, <1>10, <1>11 DEF Good, Clean, SomeRows
<1>13. \A d \in Client \ {c} : InTx(d) =>
         DOMAIN t.writes \cap DOMAIN tx[d].writes = {} /\ engine # "sqlite"
  BY <1>2, <1>3, <1>8, <1>10 DEF Locked
<1>14. IInv'
  BY <1>3, <1>4, <1>10, <1>12, <1>13, MoveOn
<1>15. Implements
  BY <1>2, <1>3, <1>4, <1>9, <1>10, StutterStep DEF IInv, Pending
<1> QED BY <1>14, <1>15

LEMMA CredentialStatementStep ==
  ASSUME IInv, NEW c \in Client, CredentialStatement(c)
  PROVE  IInv' /\ Implements
<1> DEFINE p == tx[c].req.id
           r == Sees(c, p)
           w == Wrote(tx[c], p, Store!Fresh(r.source, TRUE))
           t == [tx[c] EXCEPT !.pc = "commit", !.writes = w]
<1>1. /\ tx[c].pc = "credential" /\ tx' = [tx EXCEPT ![c] = t]
      /\ UNCHANGED <<engine, store, log>>
  BY DEF CredentialStatement
<1>2. /\ tx[c] # Idle /\ tx[c] \in Active /\ tx[c].req \in Store!Request
      /\ tx[c].writes \in Writes
  BY <1>1, ActiveFields DEF IInv
<1>3. /\ tx[c].req.kind = "CreateProfileWithCredential"
      /\ DOMAIN tx[c].writes = {p} /\ tx[c].todo = {} /\ tx[c].result = "ok"
      /\ Store!Applies(tx[c].req, store[p])
      /\ tx[c].writes[p] = FirstWrite(tx[c].req, store[p])
      /\ tx[c].logged = {}
  BY <1>1, <1>2 DEF IInv, Good, OneRow
<1>4. p \in Profile /\ tx[c].req.source \in Store!Source
  BY <1>2, <1>3, RequestFields DEF Store!Writes, Store!Inserts
<1>5. r.source = tx[c].req.source
  BY <1>3 DEF Sees, FirstWrite, Store!Fresh
<1>6. Store!Fresh(r.source, TRUE) \in StoredRow
  BY <1>4, <1>5, FreshType DEF StoredRow
<1>7. Store!After(tx[c].req, store[p]) = Store!Fresh(tx[c].req.source, TRUE)
  <2>1. (tx[c].req.kind = "CreateProfileWithCredential") = TRUE
    BY <1>3
  <2>2. tx[c].req.kind \in Store!Inserts
    BY <1>3 DEF Store!Inserts
  <2>3. Store!After(tx[c].req, store[p])
          = Store!Fresh(tx[c].req.source, tx[c].req.kind = "CreateProfileWithCredential")
    BY <2>2, Zenon DEF Store!After, Store!Inserts
  <2> QED BY <2>1, <2>3
<1>8. w \in Writes /\ DOMAIN w = {p} /\ w[p] = Store!Fresh(r.source, TRUE)
  <2> DEFINE f == Store!Fresh(r.source, TRUE)
  <2>1. f \in StoredRow
    BY <1>6
  <2>2. w = Wrote(tx[c], p, f)
    OBVIOUS
  <2>3. tx[c].writes \in Writes /\ DOMAIN tx[c].writes = {p} /\ p \in Profile
    BY <1>2, <1>3, <1>4
  <2> HIDE DEF f, w
  <2>4. /\ w \in Writes /\ DOMAIN w = DOMAIN tx[c].writes \cup {p}
        /\ \A q \in DOMAIN tx[c].writes \cup {p} :
             w[q] = IF q = p THEN f ELSE tx[c].writes[q]
    <3>1. \A g \in StoredRow :
            /\ Wrote(tx[c], p, g) \in Writes
            /\ DOMAIN Wrote(tx[c], p, g) = DOMAIN tx[c].writes \cup {p}
            /\ \A q \in DOMAIN tx[c].writes \cup {p} :
                 Wrote(tx[c], p, g)[q] = IF q = p THEN g ELSE tx[c].writes[q]
      BY <2>3, WroteType
    <3> QED BY <2>1, <2>2, <3>1
  <2>5. w[p] = f
    BY <2>4
  <2>6. DOMAIN w = {p}
    BY <2>3, <2>4
  <2> QED BY <2>4, <2>5, <2>6 DEF f
<1> HIDE DEF w, r
<1>9. /\ t \in Active
      /\ t.pc = "commit" /\ t.writes = w /\ t.req = tx[c].req
      /\ t.logged = {} /\ t.todo = {} /\ t.result = "ok"
  BY <1>2, <1>3, <1>8 DEF Active, Writes, StoredRow
<1> HIDE DEF t
<1>10. OneRow(t)
  BY <1>3, <1>5, <1>7, <1>8, <1>9 DEF OneRow
<1>11. Good(t)
  BY <1>9, <1>10 DEF Good, Clean, SomeRows
<1>12. \A d \in Client \ {c} : InTx(d) =>
         DOMAIN t.writes \cap DOMAIN tx[d].writes = {} /\ engine # "sqlite"
  BY <1>1, <1>3, <1>8, <1>9 DEF IInv, Isolated, InTx
<1>13. IInv'
  BY <1>1, <1>9, <1>11, <1>12, MoveOn
<1>14. Implements
  BY <1>1, <1>9, StutterStep DEF IInv, Pending
<1> QED BY <1>13, <1>14

LEMMA LogStatementStep ==
  ASSUME IInv, NEW c \in Client, LogStatement(c)
  PROVE  IInv' /\ Implements
<1> DEFINE p == tx[c].req.id
           l == tx[c].logged \cup {p}
           t == [tx[c] EXCEPT !.pc = "commit", !.logged = l]
<1>1. /\ tx[c].pc = "log" /\ tx' = [tx EXCEPT ![c] = t]
      /\ UNCHANGED <<engine, store, log>>
  BY DEF LogStatement
<1>2. tx[c] # Idle /\ tx[c] \in Active /\ tx[c].req \in Store!Request
  BY <1>1, ActiveFields DEF IInv
<1>3. /\ tx[c].req.kind = "DeleteProfile"
      /\ DOMAIN tx[c].writes = {p} /\ tx[c].todo = {} /\ tx[c].result = "ok"
      /\ Store!Applies(tx[c].req, store[p])
      /\ tx[c].writes[p] = Store!After(tx[c].req, store[p])
      /\ tx[c].logged = {}
  BY <1>1, <1>2 DEF IInv, Good, OneRow
<1>4. l = {p} /\ p \in Profile
  BY <1>2, <1>3, RequestFields
<1> HIDE DEF l
<1>5. /\ t \in Active
      /\ t.pc = "commit" /\ t.writes = tx[c].writes /\ t.req = tx[c].req
      /\ t.logged = {p} /\ t.todo = {} /\ t.result = "ok"
  BY <1>2, <1>3, <1>4 DEF Active
<1> HIDE DEF t
<1>6. OneRow(t)
  BY <1>3, <1>5 DEF OneRow
<1>7. Good(t)
  BY <1>5, <1>6 DEF Good, Clean, SomeRows
<1>8. \A d \in Client \ {c} : InTx(d) =>
        DOMAIN t.writes \cap DOMAIN tx[d].writes = {} /\ engine # "sqlite"
  BY <1>1, <1>5 DEF IInv, Isolated, InTx
<1>9. IInv'
  BY <1>1, <1>5, <1>7, <1>8, MoveOn
<1>10. Implements
  BY <1>1, <1>5, StutterStep DEF IInv, Pending
<1> QED BY <1>9, <1>10

-----------------------------------------------------------------------------
\* A batch.

\* No set of rows is larger than one that contains it.
LEMMA SmallerBatch ==
  ASSUME NEW T \in SUBSET Profile, NEW S \in SUBSET T, Cardinality(T) <= MaxRows
  PROVE  Cardinality(S) <= MaxRows
<1>1. IsFiniteSet(T)
  BY Constants, FS_Subset
<1>2. IsFiniteSet(S) /\ Cardinality(S) <= Cardinality(T)
  BY <1>1, FS_Subset
<1>3. Cardinality(S) \in Nat /\ Cardinality(T) \in Nat
  BY <1>1, <1>2, FS_CardinalityType
<1> QED BY <1>2, <1>3, Constants

LEMMA BatchGood ==
  ASSUME NEW t \in Active, t.req.kind = "DeleteExpired",
         NEW todo \in SUBSET Profile, NEW writes \in Writes,
         NEW result \in {"ok", "drained"},
         BatchSofar(t.req.class, todo, writes, result)
  PROVE  LET u == Batch(t, todo, writes, DOMAIN writes, result)
         IN  u \in Active /\ Good(u) /\ u.pc = "remove" /\ u.req = t.req /\ u.writes = writes
<1> DEFINE u == Batch(t, todo, writes, DOMAIN writes, result)
<1>1. /\ u.pc = "remove" /\ u.req = t.req /\ u.writes = writes
      /\ u.logged = DOMAIN writes /\ u.todo = todo /\ u.result = result
  BY DEF Batch
<1>2. DOMAIN writes \in SUBSET Profile
  BY WritesFields
<1>3. t.req \in Store!Request /\ t.attempt \in 1..MaxRetries
  BY DEF Active
<1>4. result \in Store!Result \cup {"40001", "cancelled"}
  BY DEF Store!Result
<1>5. u \in Active
  BY <1>2, <1>3, <1>4 DEF Batch, Active, Writes, StoredRow
<1> HIDE DEF u
<1>6. Clean(u) /\ OneRow(u)
  BY <1>1 DEF Clean, OneRow
<1>7. SomeRows(u)
  BY <1>1 DEF SomeRows
<1> QED BY <1>1, <1>5, <1>6, <1>7 DEF Good, u

LEMMA SelectCandidatesStep ==
  ASSUME IInv, NEW c \in Client, SelectCandidates(c)
  PROVE  IInv' /\ Implements
<1> DEFINE expired == {p \in Profile : Store!Expired(store[p], tx[c].req.class)}
<1>1. Begins(c) /\ tx[c].req.kind = "DeleteExpired" /\ UNCHANGED <<engine, store, log>>
  BY DEF SelectCandidates
<1>2. /\ tx[c].pc = "begin" /\ tx[c] \in Active
      /\ tx[c].writes = NoWrites /\ tx[c].logged = {}
      /\ \A d \in Client \ {c} : InTx(d) => engine # "sqlite"
  BY <1>1, BeginsFields
<1>3. PICK ids \in SUBSET expired :
        /\ Cardinality(ids) <= MaxRows
        /\ Cardinality(ids) < MaxRows => ids = expired
        /\ tx' = [tx EXCEPT ![c] = Batch(tx[c], ids, tx[c].writes, tx[c].logged,
                    IF Cardinality(ids) < MaxRows THEN "drained" ELSE "ok")]
  BY DEF SelectCandidates
<1> DEFINE result == IF Cardinality(ids) < MaxRows THEN "drained" ELSE "ok"
           t == Batch(tx[c], ids, NoWrites, DOMAIN NoWrites, result)
<1>4. NoWrites \in Writes /\ DOMAIN NoWrites = {}
  BY NoWritesType
<1>5. tx' = [tx EXCEPT ![c] = t]
  BY <1>2, <1>3, <1>4
<1>6. ids \in SUBSET Profile /\ result \in {"ok", "drained"}
      /\ (result = "drained" => expired \subseteq ids)
  BY <1>3
<1> HIDE DEF result
<1>7. BatchSofar(tx[c].req.class, ids, NoWrites, result)
  <2>1. DOMAIN NoWrites \cup ids = ids
    BY <1>4
  <2> QED BY <1>3, <1>4, <1>6, <2>1 DEF BatchSofar
<1>8. t \in Active /\ Good(t) /\ t.pc = "remove" /\ t.req = tx[c].req /\ t.writes = NoWrites
  BY <1>1, <1>2, <1>4, <1>6, <1>7, BatchGood
<1> HIDE DEF t
<1>9. IInv'
  BY <1>1, <1>2, <1>4, <1>5, <1>8, MoveOn
<1>10. Implements
  BY <1>1, <1>2, <1>5, <1>8, StutterStep DEF IInv, Pending
<1> QED BY <1>9, <1>10

LEMMA RemoveCandidateStep ==
  ASSUME IInv, NEW c \in Client, NEW p \in Profile, RemoveCandidate(c, p)
  PROVE  IInv' /\ Implements
<1> DEFINE class == tx[c].req.class
           goes == StillQualifies(store[p], class)
           w == IF goes THEN Wrote(tx[c], p, NoRow) ELSE tx[c].writes
           l == IF goes THEN tx[c].logged \cup {p} ELSE tx[c].logged
           todo == tx[c].todo \ {p}
           t == Batch(tx[c], todo, w, DOMAIN w, tx[c].result)
<1>1. /\ tx[c].pc = "remove" /\ p \in tx[c].todo /\ ~Locked(c, p)
      /\ UNCHANGED <<engine, store, log>>
      /\ tx' = [tx EXCEPT ![c] = Batch(tx[c], todo, w, l, tx[c].result)]
  <2>1. CASE goes
    BY <2>1 DEF RemoveCandidate
  <2>2. CASE ~goes
    BY <2>2 DEF RemoveCandidate
  <2> QED BY <2>1, <2>2
<1>2. /\ tx[c] # Idle /\ tx[c] \in Active /\ tx[c].writes \in Writes
      /\ tx[c].todo \in SUBSET Profile
  BY <1>1, ActiveFields DEF IInv
<1>3. /\ tx[c].req.kind = "DeleteExpired"
      /\ tx[c].result \in {"ok", "drained"}
      /\ tx[c].logged = DOMAIN tx[c].writes
      /\ Cardinality(DOMAIN tx[c].writes \cup tx[c].todo) <= MaxRows
      /\ \A q \in DOMAIN tx[c].writes :
           tx[c].writes[q] = NoRow /\ StillQualifies(store[q], class)
      /\ tx[c].result = "drained" /\ engine = "sqlite" =>
           {q \in Profile : Store!Expired(store[q], class)}
             \subseteq DOMAIN tx[c].writes \cup tx[c].todo
  BY <1>1, <1>2 DEF IInv, Good, SomeRows, BatchSofar
<1>4. /\ w \in Writes
      /\ DOMAIN w = IF goes THEN DOMAIN tx[c].writes \cup {p} ELSE DOMAIN tx[c].writes
      /\ \A q \in DOMAIN w : w[q] = NoRow /\ StillQualifies(store[q], class)
  <2>1. NoRow \in StoredRow
    BY DEF StoredRow
  <2>2. /\ Wrote(tx[c], p, NoRow) \in Writes
        /\ DOMAIN Wrote(tx[c], p, NoRow) = DOMAIN tx[c].writes \cup {p}
        /\ \A q \in DOMAIN tx[c].writes \cup {p} :
             Wrote(tx[c], p, NoRow)[q] = IF q = p THEN NoRow ELSE tx[c].writes[q]
    <3>1. \A r \in StoredRow :
            /\ Wrote(tx[c], p, r) \in Writes
            /\ DOMAIN Wrote(tx[c], p, r) = DOMAIN tx[c].writes \cup {p}
            /\ \A q \in DOMAIN tx[c].writes \cup {p} :
                 Wrote(tx[c], p, r)[q] = IF q = p THEN r ELSE tx[c].writes[q]
      BY <1>2, WroteType
    <3> QED BY <2>1, <3>1
  <2>3. CASE goes
    BY <1>3, <2>2, <2>3
  <2>4. CASE ~goes
    BY <1>2, <1>3, <2>4
  <2> QED BY <2>3, <2>4
<1>5. l = DOMAIN w
  BY <1>3, <1>4
<1>6. tx' = [tx EXCEPT ![c] = t]
  BY <1>1, <1>5
<1>7. /\ DOMAIN w \subseteq DOMAIN tx[c].writes \cup {p}
      /\ goes => p \in DOMAIN w
      /\ DOMAIN tx[c].writes \subseteq DOMAIN w
  BY <1>4
<1> HIDE DEF w, l
<1>8. Cardinality(DOMAIN w \cup todo) <= MaxRows
  <2> DEFINE T == DOMAIN tx[c].writes \cup tx[c].todo
             S == DOMAIN w \cup todo
  <2>1. T \in SUBSET Profile
    BY <1>2, WritesFields
  <2>2. S \in SUBSET T
    BY <1>1, <1>7
  <2>3. Cardinality(T) <= MaxRows
    BY <1>3
  <2> HIDE DEF S, T
  <2>4. Cardinality(S) <= MaxRows
    BY <2>1, <2>2, <2>3, SmallerBatch
  <2> QED BY <2>4 DEF S
<1>9. tx[c].result = "drained" /\ engine = "sqlite" =>
        {q \in Profile : Store!Expired(store[q], class)} \subseteq DOMAIN w \cup todo
  <2> SUFFICES ASSUME tx[c].result = "drained", engine = "sqlite",
                      NEW q \in Profile, Store!Expired(store[q], class)
               PROVE  q \in DOMAIN w \cup todo
    OBVIOUS
  <2>1. q \in DOMAIN tx[c].writes \cup tx[c].todo
    BY <1>3
  <2>2. q = p => goes
    BY DEF StillQualifies
  <2> QED BY <1>7, <2>1, <2>2
<1> HIDE DEF goes
<1>16. BatchSofar(class, todo, w, tx[c].result)
  BY <1>4, <1>8, <1>9 DEF BatchSofar
<1>10. t \in Active /\ Good(t) /\ t.pc = "remove" /\ t.req = tx[c].req /\ t.writes = w
  <2>1. todo \in SUBSET Profile
    BY <1>2
  <2> HIDE DEF todo
  <2> QED BY <1>2, <1>3, <1>4, <1>16, <2>1, BatchGood
<1> HIDE DEF t
<1>11. \A d \in Client \ {c} : InTx(d) =>
         DOMAIN t.writes \cap DOMAIN tx[d].writes = {} /\ engine # "sqlite"
  <2> TAKE d \in Client \ {c}
  <2> HAVE InTx(d)
  <2>1. /\ DOMAIN tx[c].writes \cap DOMAIN tx[d].writes = {}
        /\ engine # "sqlite"
    BY <1>1 DEF IInv, Isolated, InTx
  <2>2. p \notin DOMAIN tx[d].writes
    BY <1>1 DEF Locked
  <2> QED BY <1>7, <1>10, <2>1, <2>2
<1>12. IInv'
  BY <1>1, <1>6, <1>10, <1>11, MoveOn
<1>13. Implements
  BY <1>1, <1>6, <1>10, StutterStep DEF IInv, Pending
<1> QED BY <1>12, <1>13

-----------------------------------------------------------------------------
\* Commits, and time.

\* A transaction whose rows are not touched is as good as before.
LEMMA OthersGood ==
  ASSUME IInv, NEW d \in Client, tx'[d] = tx[d], engine' = engine,
         InTx(d) => \A p \in DOMAIN tx[d].writes : store'[p] = store[p],
         tx[d].pc = "remove" => engine # "sqlite"
  PROVE  Good(tx[d])'
<1>1. CASE tx[d] = Idle
  BY <1>1 DEF Good
<1>2. CASE tx[d] # Idle
  <2>1. Clean(tx[d])'
    BY <1>2 DEF IInv, Good, Clean, ReadsBack
  <2>2. OneRow(tx[d])'
    <3> SUFFICES ASSUME tx[d].pc \in {"credential", "log", "commit"}
                 PROVE  OneRow(tx[d])'
      BY DEF OneRow
    <3>1. OneRow(tx[d]) /\ InTx(d)
      BY <1>2 DEF IInv, Good, InTx
    <3>2. store'[tx[d].req.id] = store[tx[d].req.id]
      BY <3>1 DEF OneRow
    <3> QED BY <3>1, <3>2 DEF OneRow
  <2>3. SomeRows(tx[d])'
    <3> SUFFICES ASSUME tx[d].pc = "remove"
                 PROVE  SomeRows(tx[d])'
      BY DEF SomeRows
    <3>1. SomeRows(tx[d]) /\ InTx(d)
      BY <1>2 DEF IInv, Good, InTx
    <3>2. \A p \in DOMAIN tx[d].writes : store'[p] = store[p]
      BY <3>1
    <3> QED BY <3>1, <3>2 DEF SomeRows, BatchSofar, StillQualifies
  <2> QED BY <2>1, <2>2, <2>3 DEF Good
<1> QED BY <1>1, <1>2

\* What a transaction that commits has done, on one row or in a batch.
LEMMA FinishedFields ==
  ASSUME IInv, NEW c \in Client, Finished(c)
  PROVE  /\ tx[c].pc \in {"commit", "remove"} /\ InTx(c) /\ tx[c] # Idle
         /\ tx[c] \in Active /\ tx[c].req \in Store!Request
         /\ tx[c].attempt \in 1..MaxRetries
         /\ tx[c].writes \in Writes /\ tx[c].logged \in SUBSET Profile
         /\ tx[c].todo = {} /\ OneRow(tx[c]) /\ SomeRows(tx[c])
<1>1. tx[c].pc \in {"commit", "remove"} /\ InTx(c)
  BY DEF Finished, InTx
<1>2. /\ tx[c] # Idle /\ tx[c] \in Active /\ tx[c].req \in Store!Request
      /\ tx[c].attempt \in 1..MaxRetries
      /\ tx[c].writes \in Writes /\ tx[c].logged \in SUBSET Profile
  BY <1>1, ActiveFields DEF IInv
<1>3. OneRow(tx[c]) /\ SomeRows(tx[c])
  BY <1>2 DEF IInv, Good
<1>4. tx[c].todo = {}
  BY <1>3 DEF Finished, OneRow
<1> QED BY <1>1, <1>2, <1>3, <1>4

LEMMA CommittedInvariant ==
  ASSUME IInv, NEW c \in Client, Finished(c), Committed(c),
         NEW t \in Active, Good(t), t.pc \in {"begin", "readback", "done"},
         tx' = [tx EXCEPT ![c] = t]
  PROVE  IInv'
<1>1. \A d \in Client : tx'[d] = IF d = c THEN t ELSE tx[d]
  BY DEF IInv, TypeOK
<1>2. /\ InTx(c) /\ tx[c].writes \in Writes
  BY FinishedFields
<1>3. TypeOK'
  <2>1. \A p \in Profile : Sees(c, p) \in Store!Row \cup {NoRow}
    BY <1>2, WritesFields DEF Sees, IInv, TypeOK, StoredRow
  <2>2. store' \in [Profile -> Store!Row \cup {NoRow}]
    BY <2>1 DEF Committed
  <2>3. log' \in [Profile -> Nat]
    BY DEF Committed, IInv, TypeOK
  <2>4. tx' \in [Client -> {Idle} \cup Active] /\ engine' \in Engine
    BY DEF Committed, IInv, TypeOK
  <2> QED BY <2>2, <2>3, <2>4 DEF TypeOK
<1>4. \A d \in Client : InTx(d)' <=> d # c /\ InTx(d)
  BY <1>1 DEF InTx
<1>5. Isolated'
  BY <1>1, <1>4 DEF IInv, Isolated, Committed
<1>6. \A d \in Client : Good(tx[d])'
  <2> TAKE d \in Client
  <2>1. CASE d = c
    <3>1. Clean(t)'
      BY DEF Good, Clean, ReadsBack, Committed, Idle, Store!Idle
    <3>2. OneRow(t)' /\ SomeRows(t)'
      BY DEF OneRow, SomeRows
    <3> QED BY <1>1, <2>1, <3>1, <3>2 DEF Good, Clean, OneRow, SomeRows, BatchSofar
  <2>2. CASE d # c
    <3>1. InTx(d) => DOMAIN tx[c].writes \cap DOMAIN tx[d].writes = {} /\ engine # "sqlite"
      BY <1>2, <2>2 DEF IInv, Isolated
    <3>2. InTx(d) => \A p \in DOMAIN tx[d].writes : store'[p] = store[p]
      <4> HAVE InTx(d)
      <4> TAKE p \in DOMAIN tx[d].writes
      <4>1. tx[d].writes \in Writes
        BY ActiveFields DEF IInv, InTx
      <4>2. p \in Profile /\ p \notin DOMAIN tx[c].writes
        BY <3>1, <4>1, WritesFields
      <4> QED BY <4>2 DEF Committed, Sees
    <3>3. tx[d].pc = "remove" => engine # "sqlite"
      BY <3>1 DEF InTx
    <3>4. tx'[d] = tx[d] /\ engine' = engine
      BY <1>1, <2>2 DEF Committed
    <3> QED BY <3>2, <3>3, <3>4, OthersGood
  <2> QED BY <2>1, <2>2
<1> QED BY <1>3, <1>5, <1>6 DEF IInv

\* ProfileStore is an instance, with its own name for the same operator.
LEMMA SameCardinality == \A S : Store!Cardinality(S) = Cardinality(S)
BY DEF Store!Cardinality, Cardinality

\* A commit is the instant at which the operation takes effect.
LEMMA CommitEffect ==
  ASSUME IInv, NEW c \in Client, Finished(c), ScanValid(c), Committed(c),
         NEW t, tx' = [tx EXCEPT ![c] = t],
         t.pc \in {"readback", "done"}, t.req = tx[c].req,
         t.result \in {tx[c].result, "error"}
  PROVE  Implements
<1> DEFINE req == tx[c].req
           class == req.class
           writes == tx[c].writes
<1>1. /\ tx[c].pc \in {"commit", "remove"} /\ req \in Store!Request
      /\ writes \in Writes /\ tx[c].logged \in SUBSET Profile /\ tx[c].todo = {}
      /\ OneRow(tx[c]) /\ SomeRows(tx[c])
  BY FinishedFields
<1>2. /\ store' = [p \in Profile |-> IF p \in DOMAIN writes THEN writes[p] ELSE store[p]]
      /\ log' = [p \in Profile |-> IF p \in tx[c].logged THEN log[p] + 1 ELSE log[p]]
      /\ engine' = engine
  BY DEF Committed, Sees
<1>3. /\ tx[c].result \in {"ok", "drained"}
      /\ tx[c].pc = "commit" => tx[c].result = "ok"
  BY <1>1 DEF OneRow, SomeRows
<1>4. /\ promised[c].pc = "pending" /\ promised[c].req = req
      /\ promised' = [promised EXCEPT ![c] =
           [pc |-> "done", req |-> promised[c].req, result |-> t.result]]
  <2>1. Promised(tx[c]) = [pc |-> "pending", req |-> req]
    BY <1>1, PromisedOf DEF Pending
  <2>2. Promised(t) = [pc |-> "done", req |-> req, result |-> t.result]
    BY <1>3, PromisedOf
  <2>3. promised' = [promised EXCEPT ![c] = Promised(t)] /\ promised[c] = Promised(tx[c])
    BY PromisedUpdate DEF IInv
  <2> QED BY <2>1, <2>2, <2>3
<1>5. Store!Ends(c, t.result)
  BY <1>4 DEF Store!Ends
<1>6. store \in [Profile -> StoredRow] /\ log \in [Profile -> Nat]
  BY DEF IInv, TypeOK, StoredRow
<1>7. CASE tx[c].pc = "commit"
  <2> DEFINE p == req.id
  <2>1. /\ req.kind # "DeleteExpired" /\ DOMAIN writes = {p}
        /\ Store!Applies(req, store[p])
        /\ writes[p] = Store!After(req, store[p])
        /\ tx[c].logged = IF req.kind = "DeleteProfile" THEN {p} ELSE {}
    BY <1>1, <1>7 DEF OneRow
  <2>2. p \in Profile
    BY <1>1, <2>1, RequestFields
  <2>3. store' = [store EXCEPT ![p] = Store!After(req, @)]
    BY <1>2, <1>6, <2>1, <2>2
  <2>4. log' = IF req.kind = "DeleteProfile" THEN [log EXCEPT ![p] = @ + 1] ELSE log
    BY <1>2, <1>6, <2>1, <2>2
  <2>5. t.result \in {"ok", "error"}
    BY <1>3, <1>7
  <2>6. Store!Apply(c)
    BY <1>2, <1>4, <1>5, <2>1, <2>3, <2>4, <2>5 DEF Store!Apply
  <2> QED BY <2>6 DEF Implements, Store!Next
<1>8. CASE tx[c].pc = "remove"
  <2> DEFINE gone == DOMAIN writes
             due == {p \in Profile : IF engine = "postgres" THEN Store!Lapsed(store[p], class)
                                     ELSE Store!Expired(store[p], class)}
  <2>1. /\ req.kind = "DeleteExpired" /\ tx[c].logged = gone
        /\ Cardinality(gone \cup tx[c].todo) <= MaxRows
        /\ \A p \in gone : writes[p] = NoRow /\ StillQualifies(store[p], class)
        /\ tx[c].result = "drained" /\ engine = "sqlite" =>
             {p \in Profile : Store!Expired(store[p], class)} \subseteq gone \cup tx[c].todo
    BY <1>1, <1>8 DEF SomeRows, BatchSofar
  <2>2. gone \cup tx[c].todo = gone /\ gone \in SUBSET Profile
    BY <1>1, WritesFields
  <2>3. gone \in SUBSET due
    BY <2>1, <2>2 DEF StillQualifies
  <2>4. Cardinality(gone) <= MaxRows
    BY <2>1, <2>2
  <2>5. /\ store' = [p \in Profile |-> IF p \in gone THEN NoRow ELSE store[p]]
        /\ log' = [p \in Profile |-> IF p \in gone THEN log[p] + 1 ELSE log[p]]
    BY <1>2, <2>1
  <2>6. t.result = "drained" => engine = "postgres" \/ gone = due
    <3> SUFFICES ASSUME tx[c].result = "drained", engine # "postgres"
                 PROVE  gone = due
      BY <1>3
    <3>1. due = {p \in Profile : Store!Expired(store[p], class)}
      OBVIOUS
    <3>2. CASE engine = "sqlite"
      BY <2>1, <2>2, <2>3, <3>1, <3>2
    <3>3. CASE engine = "cockroachdb"
      <4>1. \A p \in Profile \ gone : ~Store!Expired(store[p], class)
        BY <3>3 DEF ScanValid
      <4> QED BY <2>3, <3>1, <4>1
    <3>4. engine \in {"sqlite", "postgres", "cockroachdb"}
      BY Constants DEF IInv, TypeOK
    <3> QED BY <3>2, <3>3, <3>4
  <2>7. t.result \in {"ok", "drained", "error"}
    BY <1>3
  <2> HIDE DEF gone
  <2>8. Store!ApplySweep(c)
    <3> DEFINE due2 == {p \in Profile :
                          IF engine = "postgres"
                          THEN Store!Lapsed(store[p], promised[c].req.class)
                          ELSE Store!Expired(store[p], promised[c].req.class)}
    <3>1. due = due2
      BY <1>4
    <3> HIDE DEF due, due2
    <3>2. \E result \in {"ok", "drained", "error"} :
            /\ Store!Ends(c, result)
            /\ result = "drained" => engine = "postgres" \/ gone = due2
      BY <1>5, <2>6, <2>7, <3>1
    <3>3. \E g \in SUBSET due2 :
            /\ Cardinality(g) <= MaxRows
            /\ store' = [p \in Profile |-> IF p \in g THEN NoRow ELSE store[p]]
            /\ log' = [p \in Profile |-> IF p \in g THEN log[p] + 1 ELSE log[p]]
            /\ \E result \in {"ok", "drained", "error"} :
                 /\ Store!Ends(c, result)
                 /\ result = "drained" => engine = "postgres" \/ g = due2
      BY <2>3, <2>4, <2>5, <3>1, <3>2
    <3>4. promised[c].pc = "pending" /\ promised[c].req.kind = "DeleteExpired"
      BY <1>4, <2>1
    <3>5. UNCHANGED (engine = "postgres")
      BY <1>2
    <3> QED BY <3>3, <3>4, <3>5, SameCardinality DEF Store!ApplySweep, due2
  <2> QED BY <2>8 DEF Implements, Store!Next
<1> QED BY <1>1, <1>7, <1>8

LEMMA CommitStep ==
  ASSUME IInv, NEW c \in Client, Commit(c)
  PROVE  IInv' /\ Implements
<1>1. Finished(c) /\ ScanValid(c) /\ Committed(c)
  BY DEF Commit
<1>2. /\ tx[c].req \in Store!Request /\ tx[c].attempt \in 1..MaxRetries
      /\ OneRow(tx[c]) /\ SomeRows(tx[c]) /\ tx[c].pc \in {"commit", "remove"}
  BY <1>1, FinishedFields
<1>3. /\ tx[c].result \in {"ok", "drained"}
      /\ ReadsBack(tx[c].req) => tx[c].result = "ok"
  BY <1>2 DEF OneRow, SomeRows, ReadsBack, Store!Writes, Store!Inserts
<1>4. tx[c].result \in Store!Result \cup {"40001", "cancelled"} /\ "ok" \in Store!Result
  BY <1>3 DEF Store!Result
<1>5. PICK t \in Active :
        /\ tx' = [tx EXCEPT ![c] = t]
        /\ Good(t) /\ t.pc \in {"readback", "done"}
        /\ t.req = tx[c].req /\ t.result = tx[c].result
  <2>1. CASE ReadsBack(tx[c].req)
    <3> DEFINE t == Without(tx[c], "readback", tx[c].attempt, "ok")
    <3>1. /\ t \in Active /\ Good(t) /\ t.pc = "readback" /\ t.req = tx[c].req
          /\ t.result = "ok"
      BY <1>2, <1>4, <2>1, WithoutGood
    <3>2. tx' = [tx EXCEPT ![c] = t]
      BY <2>1 DEF Commit
    <3> HIDE DEF t
    <3> QED BY <1>3, <2>1, <3>1, <3>2
  <2>2. CASE ~ReadsBack(tx[c].req)
    <3> DEFINE t == Ended(tx[c], tx[c].result)
    <3>1. /\ t \in Active /\ Good(t) /\ t.pc = "done" /\ t.req = tx[c].req
          /\ t.result = tx[c].result
      BY <1>2, <1>4, WithoutGood DEF Ended
    <3>2. tx' = [tx EXCEPT ![c] = t]
      BY <2>2 DEF Commit
    <3> HIDE DEF t
    <3> QED BY <3>1, <3>2
  <2> QED BY <2>1, <2>2
<1>6. IInv'
  BY <1>1, <1>5, CommittedInvariant
<1>7. Implements
  BY <1>1, <1>5, CommitEffect
<1> QED BY <1>6, <1>7

\* The caller is told of an error, the operation took effect all the same.
LEMMA CommitAnswerLostStep ==
  ASSUME IInv, NEW c \in Client, CommitAnswerLost(c)
  PROVE  IInv' /\ Implements
<1> DEFINE t == Ended(tx[c], "error")
<1>1. Finished(c) /\ ScanValid(c) /\ Committed(c)
  BY DEF CommitAnswerLost
<1>2. tx[c].req \in Store!Request /\ tx[c].attempt \in 1..MaxRetries
  BY <1>1, FinishedFields
<1>3. tx' = [tx EXCEPT ![c] = t]
  BY DEF CommitAnswerLost, AfterCommitError, Retryable
<1>4. /\ t \in Active /\ Good(t) /\ t.pc = "done" /\ t.req = tx[c].req
      /\ t.result = "error"
  BY <1>2, WithoutGood DEF Ended, Store!Result
<1> HIDE DEF t
<1>5. IInv'
  BY <1>1, <1>3, <1>4, CommittedInvariant
<1>6. Implements
  BY <1>1, <1>3, <1>4, CommitEffect
<1> QED BY <1>5, <1>6

LEMMA AgeStep ==
  ASSUME IInv, NEW p \in Profile, Age(p)
  PROVE  IInv' /\ Implements
<1>1. /\ store[p] # NoRow
      /\ store' = [store EXCEPT ![p] = Store!Aged(@)]
      /\ UNCHANGED <<engine, log, tx>>
  BY DEF Age
<1>2. TypeOK'
  <2>1. store[p] \in Store!Row
    BY <1>1 DEF IInv, TypeOK
  <2>2. Store!Aged(store[p]) \in Store!Row
    BY <2>1 DEF Store!Aged, Store!Row, Store!Clock
  <2> QED BY <1>1, <2>2 DEF IInv, TypeOK
<1>3. Isolated'
  BY <1>1 DEF IInv, Isolated, InTx
<1>4. \A d \in Client : Good(tx[d])'
  <2> TAKE d \in Client
  <2>1. InTx(d) => \A q \in DOMAIN tx[d].writes : store'[q] = store[q]
    <3> HAVE InTx(d)
    <3> TAKE q \in DOMAIN tx[d].writes
    <3>1. q # p
      BY DEF Age
    <3> QED BY <1>1, <3>1 DEF IInv, TypeOK
  <2>2. tx[d].pc # "remove"
    <3> SUFFICES ASSUME tx[d].pc = "remove" PROVE FALSE
      OBVIOUS
    <3>1. SomeRows(tx[d]) /\ InTx(d)
      BY ActiveFields DEF IInv, Good, InTx
    <3> QED BY <3>1 DEF SomeRows, Age
  <2> QED BY <1>1, <2>1, <2>2, OthersGood
<1>5. Store!Age(p)
  <2>1. promised' = promised
    BY <1>1 DEF promised, Promised
  <2> QED BY <1>1, <2>1 DEF Store!Age
<1>6. Implements
  BY <1>5 DEF Implements, Store!Next
<1> QED BY <1>2, <1>3, <1>4, <1>6 DEF IInv

-----------------------------------------------------------------------------
\* The theorems.

LEMMA InitInvariant == Init => IInv /\ Store!Init
<1> SUFFICES ASSUME Init PROVE IInv /\ Store!Init
  OBVIOUS
<1>1. \A c \in Client : tx[c] = Idle
  BY DEF Init
<1>2. TypeOK
  BY DEF Init, TypeOK
<1>3. \A c \in Client : ~InTx(c)
  BY <1>1 DEF InTx, Idle, Store!Idle
<1>4. IInv
  BY <1>1, <1>2, <1>3 DEF IInv, Isolated, Good
<1>5. promised = [c \in Client |-> Store!Idle]
  <2>1. Promised(Idle) = Store!Idle
    BY PromisedOf DEF Idle, Store!Idle
  <2>2. \A c \in Client : Promised(tx[c]) = Store!Idle
    BY <1>1, <2>1
  <2> QED BY <2>2 DEF promised
<1>6. Store!Init
  BY <1>5 DEF Init, Store!Init
<1> QED BY <1>4, <1>6

LEMMA StepInvariant ==
  ASSUME IInv, [Next]_vars
  PROVE  IInv' /\ [Store!Next]_(Store!storeVars)
<1>1. CASE UNCHANGED vars
  <2>1. IInv'
    BY <1>1 DEF vars, IInv, TypeOK, Isolated, Good, Clean, OneRow, SomeRows, BatchSofar,
                InTx, ReadsBack, StillQualifies
  <2>2. UNCHANGED Store!storeVars
    BY <1>1 DEF vars, Store!storeVars, promised, Promised
  <2> QED BY <2>1, <2>2
<1>2. ASSUME NEW c \in Client,
             \/ InsertProfile(c) \/ InsertBoth(c) \/ UpdateProfile(c) \/ UpsertProfile(c)
             \/ RemoveProfile(c) \/ EraseProfile(c)
             \/ InsertCredential(c) \/ RemoveCredential(c)
      PROVE  IInv' /\ Implements
  BY <1>2, RowStatementStep
     DEF InsertProfile, InsertBoth, UpdateProfile, UpsertProfile, RemoveProfile,
         EraseProfile, InsertCredential, RemoveCredential,
         Store!Operation, Store!Writes, Store!Inserts
<1>3. CASE Next
  <2>1. IInv' /\ Implements
    BY <1>2, <1>3, CallStep, RowMissingStep, CredentialStatementStep, LogStatementStep,
       SelectCandidatesStep, RemoveCandidateStep, CommitStep, CommitAnswerLostStep,
       ReadBackStep, StatementFailsStep, CommitRefusedStep, ReturnStep, AgeStep
       DEF Next
  <2> QED BY <2>1 DEF Implements
<1> QED BY <1>1, <1>3

\* The inductive invariant: what each transaction wrote can still be committed.
THEOREM DAOInvariant == Spec => []IInv
<1>1. Init => IInv
  BY InitInvariant
<1>2. IInv /\ [Next]_vars => IInv'
  BY StepInvariant
<1> QED BY <1>1, <1>2, PTL DEF Spec

\* Type correctness of the DAO with any number of clients and profiles.
THEOREM DAOTypeCorrect == Spec => []TypeOK
<1>1. IInv => TypeOK
  BY DEF IInv
<1> QED BY <1>1, DAOInvariant, PTL

\* repository.go, composite.go of both packages: on each engine every operation is
\* one atomic step of ProfileStore between its call and its return.
THEOREM StoreSpecHolds == Spec => StoreSpec
<1>1. Init => Store!Init
  BY InitInvariant
<1>2. IInv /\ [Next]_vars => [Store!Next]_(Store!storeVars)
  BY StepInvariant
<1> QED BY <1>1, <1>2, DAOInvariant, PTL DEF Spec, StoreSpec, Store!Spec

\* postgres/composite.go:104-110, sqlite/composite.go:139-147: a batch deletes no row
\* whose own columns no longer qualify at the instant of the commit.
THEOREM RefreshedSurvivesHolds == Spec => RefreshedSurvives
<1> DEFINE Survives ==
      \A c \in Client, p \in Profile :
        /\ tx[c] # Idle
        /\ tx[c].req.kind = "DeleteExpired"
        /\ InTx(c) /\ tx'[c].pc = "done"
        /\ store[p] # NoRow /\ store'[p] = NoRow
        => Store!Lapsed(store[p], tx[c].req.class)
<1>1. ASSUME IInv, [Next]_vars
      PROVE  [Survives]_vars
  <2> SUFFICES ASSUME Next, NEW c \in Client, NEW p \in Profile,
                      tx[c] # Idle, tx[c].req.kind = "DeleteExpired",
                      InTx(c), tx'[c].pc = "done",
                      store[p] # NoRow, store'[p] = NoRow
               PROVE  Store!Lapsed(store[p], tx[c].req.class)
    BY <1>1
  <2>1. tx[c] # tx'[c] /\ store # store'
    BY DEF InTx
  <2>2. PICK d \in Client : Commit(d) \/ CommitAnswerLost(d)
    BY <2>1 DEF Next, Call, InsertProfile, InsertBoth, UpdateProfile, UpsertProfile,
         RemoveProfile, EraseProfile, InsertCredential, RemoveCredential, RowStatement,
         RowMissing, CredentialStatement, LogStatement, SelectCandidates,
         RemoveCandidate, ReadBack, StatementFails, StatementRefused, Fails,
         CommitRefused, Return, Age
  <2>3. Finished(d) /\ Committed(d) /\ \E t : tx' = [tx EXCEPT ![d] = t]
    BY <2>2 DEF Commit, CommitAnswerLost
  <2>4. d = c
    BY <1>1, <2>1, <2>3 DEF IInv, TypeOK
  <2>5. /\ tx[c].pc \in {"commit", "remove"} /\ OneRow(tx[c]) /\ SomeRows(tx[c])
    BY <1>1, <2>3, <2>4, FinishedFields
  <2>6. tx[c].pc = "remove"
    BY <2>5 DEF OneRow
  <2>7. p \in DOMAIN tx[c].writes
    BY <2>3, <2>4 DEF Committed, Sees
  <2>8. StillQualifies(store[p], tx[c].req.class)
    BY <2>5, <2>6, <2>7 DEF SomeRows, BatchSofar
  <2> QED BY <2>8 DEF StillQualifies, Store!Expired
<1> QED BY <1>1, DAOInvariant, PTL DEF Spec, RefreshedSurvives

==============================================================================
