--------------------------- MODULE ProjectLedger ---------------------------
(***************************************************************************)
(* The ledger of one project: what its database promises whatever sessions *)
(* opened it, crashed on it or lost replies.  Each step is one committed   *)
(* transaction of ProjectStore::execute, or the migration of the project,  *)
(* after which the steps are those of the migrated copy.  ProjectStore,    *)
(* which extends this module by the sessions, implements LedgerSpec.       *)
(***************************************************************************)
EXTENDS ProjectConsistency

VARIABLE db       \* the committed database

LedgerInit == db \in PublishedDatabases

LedgerExecute(r) == Commits(db, r) /\ db' = Committed(db, r)

LedgerMigrate ==
  /\ db.format = V1
  /\ VerifyIntegrity(db) /\ MigrationSemantics(db) /\ MigrationFits(db)
  /\ db' = Migrated(db)

LedgerNext == LedgerMigrate \/ \E r \in Requests : LedgerExecute(r)

LedgerSpec == LedgerInit /\ [][LedgerNext]_db

(***************************************************************************)
(* Properties                                                              *)
(***************************************************************************)

\* Every column holds a value of its type.
TypeOK == Typed(db)

\* Three tables tell one story after any sequence of transactions.  Snapshots
\* form a tree rooted at the source, each selected by the transaction of the
\* revision it was created at; the rows of history are one gapless path of that
\* tree with the cursor on the current snapshot, so the truncation at a new edit
\* leaves no row of an abandoned redo branch; and the log has exactly one row
\* per revision, the last of which selected the current snapshot.
TablesAgree == Ancestry(db) /\ Creation(db) /\ Path(db) /\ Log(db)

\* Every committed transaction can be replayed by its key with the result it
\* had, and no two transactions share a key or a command id.
ReplayTableExact == Replayable(db) /\ UniqueRequests(db)

\* No sequence of accepted commands leads to a database that open and
\* verify_integrity would refuse.
AlwaysOpenable == VerifyIntegrity(db)

\* No sequence of accepted commands leads to a v1 database that
\* migrate_v1_to_v2 would refuse as inconsistent.
AlwaysMigratable == db.format = V1 => MigrationSemantics(db)

\* A transaction and a migration rewrite no snapshot, transaction or
\* idempotency row, and the revision grows by exactly one per transaction.
NothingRewritten ==
  [][/\ \A s \in DOMAIN db.snapshots :
          /\ s \in DOMAIN db'.snapshots
          /\ db'.snapshots[s].parent = db.snapshots[s].parent
          /\ db'.snapshots[s].created = db.snapshots[s].created
          /\ db'.snapshots[s].ev = db.snapshots[s].ev
          /\ db'.format = db.format => db'.snapshots[s] = db.snapshots[s]
     /\ \A t \in DOMAIN db.transactions :
          t \in DOMAIN db'.transactions /\ db'.transactions[t] = db.transactions[t]
     /\ \A k \in DOMAIN db.idempotency :
          k \in DOMAIN db'.idempotency /\ db'.idempotency[k] = db.idempotency[k]
     /\ db'.revision = db.revision + (IF db'.format = db.format THEN 1 ELSE 0)]_db

\* The kind of the transaction a step commits.
CommittedKind == IF db'.revision = db.revision THEN "none" ELSE db'.transactions[db'.revision].kind

\* Undo selects the parent of the current snapshot and redo a child of it,
\* neither changes the history, and a redo right after an undo brings back
\* exactly what the undo left.
UndoRedoInverse ==
  [][/\ CommittedKind = "history.undo" =>
          db'.current = db.snapshots[db.current].parent /\ db'.history = db.history
     /\ CommittedKind = "history.redo" =>
          db'.snapshots[db'.current].parent = db.current /\ db'.history = db.history
     /\ (CommittedKind = "history.redo" /\ db.transactions[db.revision].kind = "history.undo")
          => db'.current = db.transactions[db.revision - 1].snapshot]_db
=============================================================================
