---------------------------- MODULE ProfileStore ----------------------------
(***************************************************************************)
(* What internal/dao promises its callers (repository.go, retention.go,    *)
(* errors.go): every operation on profiles, credentials and the deletion   *)
(* log takes effect at one instant between its call and its return, or     *)
(* not at all.  DAO.tla is the detailed specification that implements it.  *)
(*                                                                         *)
(* A profile is its row together with whether a credential references it   *)
(* (ON DELETE CASCADE).  Of a clock column only its relation to the        *)
(* retention cutoff matters: it is "old" or "new", and Age makes it old.   *)
(***************************************************************************)
EXTENDS Naturals, FiniteSets

CONSTANTS
  Profile,      \* ids
  Client,       \* goroutines that call the DAO
  Kind,         \* the operations explored
  MaxRows,      \* the sweep's batch bound
  MaxLog,       \* bound on the deletions logged of one id before it is made again
  NoRow

VARIABLES
  store,        \* user_profile and user_credential
  log,          \* deletion_log: entries per profile id
  op,           \* the call each client has in progress
  snapshot      \* the engine answers EXISTS from the statement's snapshot

storeVars == <<store, log, op, snapshot>>

Source == {"direct", "idp_cache"}
Class == {"direct", "idp_cache", "idp_cache_orphan"}
Clock == {"new", "old"}
Row == [source : Source, created : Clock, updated : Clock, cred : BOOLEAN]

Inserts == {"Create", "CreateProfileWithCredential"}
Writes == Inserts \cup {"Update", "Upsert"}
Operation ==
  Writes \cup {"Delete", "DeleteProfile", "CreateCredential", "DeleteCredential",
              "DeleteExpired"}

Request ==
  [kind : Writes \cap Kind, id : Profile, source : Source]
    \cup [kind : Kind \ (Writes \cup {"DeleteExpired"}), id : Profile]
    \cup [kind : {"DeleteExpired"} \cap Kind, class : Class]

Idle == [pc |-> "idle"]
Pending == [pc : {"pending"}, req : Request]
Result == {"ok", "drained", "ErrNotFound", "ErrInvalid", "error"}
Done == [pc : {"done"}, req : Request, result : Result]

TypeOK ==
  /\ store \in [Profile -> Row \cup {NoRow}]
  /\ log \in [Profile -> Nat]
  /\ op \in [Client -> {Idle} \cup Pending \cup Done]
  /\ snapshot \in BOOLEAN

Init ==
  /\ store = [p \in Profile |-> NoRow]
  /\ log = [p \in Profile |-> 0]
  /\ op = [c \in Client |-> Idle]
  /\ snapshot \in BOOLEAN

-----------------------------------------------------------------------------
\* Retention classes (clockColumnFor).

\* The columns of the row itself.
Lapsed(r, class) ==
  /\ r # NoRow
  /\ r.source = IF class = "direct" THEN "direct" ELSE "idp_cache"
  /\ (IF class = "idp_cache_orphan" THEN r.created ELSE r.updated) = "old"

\* The other table: does a credential reference the row.
Referenced(r, class) == class # "direct" => r.cred = (class = "idp_cache")

Expired(r, class) == Lapsed(r, class) /\ Referenced(r, class)

-----------------------------------------------------------------------------
\* The effect of each operation on one row; a string is the error it ends with.

Fresh(source, cred) ==
  [source |-> source, created |-> "new", updated |-> "new", cred |-> cred]

Refreshed(r, source) ==
  [source |-> source, created |-> r.created, updated |-> "new", cred |-> r.cred]

Upserted(r, source) == IF r = NoRow THEN Fresh(source, FALSE) ELSE Refreshed(r, source)

WithCredential(r, cred) ==
  [source |-> r.source, created |-> r.created, updated |-> r.updated, cred |-> cred]

\* Whether the operation can be carried out on this row, and what it leaves there.
Applies(req, r) ==
  CASE req.kind \in Inserts -> r = NoRow
    [] req.kind = "Upsert" -> TRUE
    [] req.kind = "DeleteCredential" -> r # NoRow /\ r.cred
    [] OTHER -> r # NoRow

After(req, r) ==
  CASE req.kind \in Inserts ->
         Fresh(req.source, req.kind = "CreateProfileWithCredential")
    [] req.kind = "Update" -> Refreshed(r, req.source)
    [] req.kind = "Upsert" -> Upserted(r, req.source)
    [] req.kind \in {"CreateCredential", "DeleteCredential"} ->
         WithCredential(r, req.kind = "CreateCredential")
    [] OTHER -> NoRow

\* The sentinel when it cannot: a credential without its profile breaks the
\* foreign key, anything else is not found.
Missing(req) == IF req.kind = "CreateCredential" THEN "ErrInvalid" ELSE "ErrNotFound"

-----------------------------------------------------------------------------
Call(c, req) ==
  /\ op[c] = Idle
  /\ op' = [op EXCEPT ![c] = [pc |-> "pending", req |-> req]]
  /\ UNCHANGED <<store, log, snapshot>>

Ends(c, result) ==
  /\ op[c].pc = "pending"
  /\ op' = [op EXCEPT ![c] = [pc |-> "done", req |-> op[c].req, result |-> result]]

\* One row changes; an erasure is logged with it.  The answer may be lost.
Apply(c) ==
  LET req == op[c].req
  IN  /\ op[c].pc = "pending"
      /\ req.kind # "DeleteExpired"
      /\ Applies(req, store[req.id])
      /\ store' = [store EXCEPT ![req.id] = After(req, @)]
      /\ log' = IF req.kind = "DeleteProfile" THEN [log EXCEPT ![req.id] = @ + 1]
                ELSE log
      /\ \E result \in {"ok", "error"} : Ends(c, result)
      /\ UNCHANGED snapshot

\* A batch of one class: every row it deletes is expired at that instant, each is
\* logged once, and a drained class has no expired row left.  An engine that
\* answers EXISTS from the statement's snapshot vouches for less: that the row's
\* own columns still qualified.
ApplySweep(c) ==
  LET class == op[c].req.class
      due == {p \in Profile : IF snapshot THEN Lapsed(store[p], class)
                              ELSE Expired(store[p], class)}
  IN  /\ op[c].pc = "pending"
      /\ op[c].req.kind = "DeleteExpired"
      /\ \E gone \in SUBSET due :
           /\ Cardinality(gone) <= MaxRows
           /\ store' = [p \in Profile |-> IF p \in gone THEN NoRow ELSE store[p]]
           /\ log' = [p \in Profile |-> IF p \in gone THEN log[p] + 1 ELSE log[p]]
           /\ \E result \in {"ok", "drained", "error"} :
                /\ Ends(c, result)
                /\ result = "drained" => snapshot \/ gone = due
      /\ UNCHANGED snapshot

\* Nothing happened: the row the operation needs is not there, or something failed.
Refuse(c) ==
  /\ op[c].pc = "pending"
  /\ \/ Ends(c, "error")
     \/ /\ op[c].req.kind # "DeleteExpired"
        /\ ~Applies(op[c].req, store[op[c].req.id])
        /\ Ends(c, Missing(op[c].req))
  /\ UNCHANGED <<store, log, snapshot>>

\* An operation that took effect and then reads its row back may not find it.
Forget(c) ==
  /\ op[c].pc = "done"
  /\ op[c].result = "ok"
  /\ op[c].req.kind \in Writes \cup {"CreateCredential"}
  /\ \E result \in {"ErrNotFound", "error"} :
       op' = [op EXCEPT ![c] = [pc |-> "done", req |-> op[c].req, result |-> result]]
  /\ UNCHANGED <<store, log, snapshot>>

Return(c) ==
  /\ op[c].pc = "done"
  /\ op' = [op EXCEPT ![c] = Idle]
  /\ UNCHANGED <<store, log, snapshot>>

\* Time passes a retention window: created_at is never after updated_at.
Aged(r) == [source |-> r.source, created |-> "old", cred |-> r.cred,
            updated |-> IF r.created = "old" THEN "old" ELSE r.updated]

Age(p) ==
  /\ store[p] # NoRow
  /\ store' = [store EXCEPT ![p] = Aged(@)]
  /\ UNCHANGED <<log, op, snapshot>>

Next ==
  \/ \E c \in Client : \/ \E req \in Request : Call(c, req)
                       \/ Apply(c)
                       \/ ApplySweep(c)
                       \/ Refuse(c)
                       \/ Forget(c)
                       \/ Return(c)
  \/ \E p \in Profile : Age(p)

Spec == Init /\ [][Next]_storeVars

=============================================================================
