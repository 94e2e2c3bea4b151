--------------------------- MODULE ProjectTables ---------------------------
(***************************************************************************)
(* The SQLite tables of one Natural Photo Studio project and what          *)
(* ProjectStore reads from and writes to them.  A database is a value: a   *)
(* record of tables, each table a function from primary key to row.  The   *)
(* operators say which requests the transaction of execute refuses,        *)
(* replays or commits and what it writes, what verify_integrity accepts,   *)
(* and how migrate_v1_to_v2 checks and transforms a v1 database.           *)
(*                                                                         *)
(* Exposures are integers in units of the smallest step a caller uses; a   *)
(* graph is represented by its number of nodes.  The source object and the *)
(* working colour are the same on every row and are left out.              *)
(*                                                                         *)
(* A definition named Operator_Defect is a faulty variant of Operator that *)
(* the checks substitute for it to show that a property notices.           *)
(***************************************************************************)
EXTENDS Integers, Sequences, FiniteSets

CONSTANTS
  Keys,           \* idempotency keys callers use
  CommandIds,     \* command identifiers callers use
  Deltas,         \* exposure changes callers ask for
  ExposureLimit,  \* largest |delta| of adjust.exposure (10 EV)
  ExactEV,        \* largest |exposure| the floating-point format represents exactly
  GraphSizes,     \* node counts of the graphs callers send in graph.replace
  MaxNodes,       \* node limit of an edit graph (4096)
  MaxRevision     \* largest revision (int64 max in the code)

ASSUME LimitsAssumption ==
  /\ MaxRevision \in Nat
  /\ ExposureLimit \in Nat \ {0}
  /\ ExactEV \in Nat \ {0}
  /\ MaxNodes \in Nat /\ MaxNodes >= 2
  /\ Deltas \subseteq Int
  /\ GraphSizes \subseteq Nat

V1 == 1
V2 == 2
NoParent == 0
MinNodes == 2     \* source and output
Empty == ""       \* an identifier the caller left empty

(***************************************************************************)
(* Requests                                                                *)
(***************************************************************************)
Changes ==
       [kind : {"adjust.exposure"}, ev : Deltas]
  \cup [kind : {"graph.replace"}, nodes : GraphSizes]
  \cup [kind : {"history.undo", "history.redo"}]

Requests == [command  : CommandIds \cup {Empty},
             key      : Keys \cup {Empty},
             expected : -1..MaxRevision,
             change   : Changes]

\* Variant: the command id is part of the fingerprint.
Fingerprint_WithCommand(r) == <<r.command, r.expected, r.change>>

\* canonical_idempotency_payload: the expected revision and the normalised
\* parameters, but neither the command id nor the key.
Fingerprint(r) == <<r.expected, r.change>>

EditKinds == {"adjust.exposure", "graph.replace"}
Edits(r) == r.change.kind \in EditKinds

(***************************************************************************)
(* Exposure arithmetic.  A double has a fixed number of significant bits:  *)
(* every integer up to ExactEV is represented, and the spacing doubles     *)
(* with each further doubling of the magnitude; a sum is rounded to the    *)
(* nearest representable number, ties to even.                             *)
(***************************************************************************)
\* The spacing of the representable numbers around x.
Spacing(x) ==
  IF x \in -ExactEV .. ExactEV THEN 1
  ELSE IF x \in -2 * ExactEV .. 2 * ExactEV THEN 2
  ELSE IF x \in -4 * ExactEV .. 4 * ExactEV THEN 4
  ELSE 8

RoundEV(x) ==
  LET g     == Spacing(x)
      lower == g * (x \div g)
      up    == \/ 2 * (x - lower) > g
               \/ 2 * (x - lower) = g /\ (x \div g) % 2 = 1
  IN  IF up THEN lower + g ELSE lower

(***************************************************************************)
(* Tables                                                                  *)
(***************************************************************************)

\* INSERT of one row under a primary key.
WithRow(table, k, row) == [i \in DOMAIN table \cup {k} |-> IF i = k THEN row ELSE table[i]]

\* The database ProjectStore::create commits.
NewDatabase ==
  [format       |-> V1,
   revision     |-> 0,
   current      |-> 1,
   position     |-> 0,
   snapshots    |-> <<[parent |-> NoParent, created |-> 0, ev |-> 0, nodes |-> 0]>>,
   history      |-> [p \in {0} |-> 1],
   transactions |-> [t \in {} |-> 0],
   idempotency  |-> [k \in {} |-> 0]]

\* SELECT MAX(position) FROM history
MaximumHistoryPosition(d) ==
  CHOOSE m \in DOMAIN d.history : \A p \in DOMAIN d.history : p <= m

GraphValid(n) == MinNodes <= n /\ n <= MaxNodes

(***************************************************************************)
(* What execute returns early with.  The idempotency table is consulted    *)
(* before the revision, so a replay succeeds at any later revision.        *)
(***************************************************************************)
Malformed(r) ==
  \/ r.command = Empty \/ r.key = Empty
  \/ r.expected < 0
  \/ r.change.kind = "adjust.exposure" /\ r.change.ev \notin -ExposureLimit .. ExposureLimit

Known(d, r) == r.key \in DOMAIN d.idempotency

\* The checks before BEGIN IMMEDIATE; "" when the request passes them.
SchemaRefusal(d, r) ==
  IF Malformed(r) THEN "CMD_SCHEMA_INVALID"
  ELSE IF r.change.kind # "graph.replace" THEN ""
  ELSE IF d.format # V2 THEN "IO_PROJECT_MIGRATION_REQUIRED"
  ELSE IF ~GraphValid(r.change.nodes) THEN "CMD_SCHEMA_INVALID"
  ELSE ""

\* Variant: command_id is not UNIQUE.
ConstraintFails_KeyOnly(d, r) ==
  \/ d.revision + 1 \in DOMAIN d.transactions
  \/ \E t \in DOMAIN d.transactions : d.transactions[t].key = r.key

\* The rows execute inserts would break a UNIQUE or PRIMARY KEY constraint.
ConstraintFails(d, r) ==
  \/ d.revision + 1 \in DOMAIN d.transactions
  \/ \E t \in DOMAIN d.transactions :
        d.transactions[t].command = r.command \/ d.transactions[t].key = r.key
  \/ Edits(r) /\ \E s \in DOMAIN d.snapshots : d.snapshots[s].created = d.revision + 1

\* Variant: no check for the last revision.
TransactionRefusal_NoLimit(d, r) ==
  IF r.expected # d.revision THEN "REV_CONFLICT"
  ELSE IF \/ r.change.kind = "history.undo" /\ d.position <= 0
          \/ r.change.kind = "history.redo" /\ d.position >= MaximumHistoryPosition(d)
       THEN "CMD_HISTORY_BOUNDARY"
  ELSE IF ConstraintFails(d, r) THEN "IO_DATABASE_STEP"
  ELSE ""

\* The checks of a request whose key is new, in the order of the code; "" when
\* the transaction commits.
TransactionRefusal(d, r) ==
  IF r.expected # d.revision THEN "REV_CONFLICT"
  ELSE IF d.revision = MaxRevision THEN "REV_LIMIT"
  ELSE IF /\ r.change.kind = "adjust.exposure" /\ d.format = V2
          /\ ~GraphValid(d.snapshots[d.current].nodes + 1) THEN "IO_PROJECT_FORMAT"
  ELSE IF Edits(r) /\ d.position = MaxRevision THEN "REV_LIMIT"
  ELSE IF \/ r.change.kind = "history.undo" /\ d.position <= 0
          \/ r.change.kind = "history.redo" /\ d.position >= MaximumHistoryPosition(d)
       THEN "CMD_HISTORY_BOUNDARY"
  ELSE IF ConstraintFails(d, r) THEN "IO_DATABASE_STEP"
  ELSE ""

Replays(d, r) ==
  /\ SchemaRefusal(d, r) = ""
  /\ Known(d, r)
  /\ d.idempotency[r.key].fingerprint = Fingerprint(r)

Commits(d, r) ==
  /\ SchemaRefusal(d, r) = ""
  /\ ~Known(d, r)
  /\ TransactionRefusal(d, r) = ""

\* The error code of a request that neither commits nor replays.
Refusal(d, r) ==
  IF SchemaRefusal(d, r) # "" THEN SchemaRefusal(d, r)
  ELSE IF Known(d, r) THEN "CMD_IDEMPOTENCY_REUSE"
  ELSE TransactionRefusal(d, r)

(***************************************************************************)
(* What a committed transaction writes.                                    *)
(***************************************************************************)
\* Variant: the parent is the last snapshot inserted, not the current one.
EditedSnapshot_ParentIsLast(d, r) ==
  [parent  |-> Len(d.snapshots),
   created |-> d.revision + 1,
   ev      |-> d.snapshots[d.current].ev,
   nodes   |-> d.snapshots[d.current].nodes]

EditedSnapshot(d, r) ==
  LET current == d.snapshots[d.current]
      adjusts == r.change.kind = "adjust.exposure"
  IN  [parent  |-> d.current,
       created |-> d.revision + 1,
       ev      |-> IF adjusts THEN RoundEV(current.ev + r.change.ev) ELSE current.ev,
       nodes   |-> IF d.format = V1 THEN 0
                   ELSE IF adjusts THEN current.nodes + 1 ELSE r.change.nodes]

\* Variant: the rows above the cursor are kept.
EditedHistory_NoTruncation(d, id) ==
  [p \in DOMAIN d.history \cup {d.position + 1} |->
     IF p = d.position + 1 THEN id ELSE d.history[p]]

\* DELETE FROM history WHERE position > cursor, then INSERT at cursor + 1.
EditedHistory(d, id) ==
  [p \in {q \in DOMAIN d.history : q <= d.position} \cup {d.position + 1} |->
     IF p = d.position + 1 THEN id ELSE d.history[p]]

NextPosition(d, r) == IF r.change.kind = "history.undo" THEN d.position - 1 ELSE d.position + 1

\* Variant: undo and redo select through the cursor they have not moved yet.
NextCurrent_CursorNotMoved(d, r) ==
  IF Edits(r) THEN Len(d.snapshots) + 1 ELSE d.history[d.position]

NextCurrent(d, r) == IF Edits(r) THEN Len(d.snapshots) + 1 ELSE d.history[NextPosition(d, r)]

TransactionRow(d, r) ==
  [base        |-> d.revision,
   command     |-> r.command,
   key         |-> r.key,
   fingerprint |-> Fingerprint(r),
   kind        |-> r.change.kind,
   snapshot    |-> NextCurrent(d, r)]

\* Variant: new_revision is the base revision.
IdempotencyRow_BaseAsNew(d, r) ==
  [fingerprint |-> Fingerprint(r), command |-> r.command, base |-> d.revision,
   new |-> d.revision, snapshot |-> NextCurrent(d, r)]

IdempotencyRow(d, r) ==
  [fingerprint |-> Fingerprint(r),
   command     |-> r.command,
   base        |-> d.revision,
   new         |-> d.revision + 1,
   snapshot    |-> NextCurrent(d, r)]

\* Variant: an edit updates the current snapshot row in place.
Committed_InPlace(d, r) ==
  [format       |-> d.format,
   revision     |-> d.revision + 1,
   current      |-> d.current,
   position     |-> d.position,
   snapshots    |-> IF Edits(r) THEN [d.snapshots EXCEPT ![d.current] = EditedSnapshot(d, r)]
                    ELSE d.snapshots,
   history      |-> d.history,
   transactions |-> WithRow(d.transactions, d.revision + 1, TransactionRow(d, r)),
   idempotency  |-> WithRow(d.idempotency, r.key, IdempotencyRow(d, r))]

Committed(d, r) ==
  [format       |-> d.format,
   revision     |-> d.revision + 1,
   current      |-> NextCurrent(d, r),
   position     |-> NextPosition(d, r),
   snapshots    |-> IF Edits(r) THEN Append(d.snapshots, EditedSnapshot(d, r)) ELSE d.snapshots,
   history      |-> IF Edits(r) THEN EditedHistory(d, NextCurrent(d, r)) ELSE d.history,
   transactions |-> WithRow(d.transactions, d.revision + 1, TransactionRow(d, r)),
   idempotency  |-> WithRow(d.idempotency, r.key, IdempotencyRow(d, r))]

\* The CommitResult of a transaction that has just produced d.
FirstResult(d, r) ==
  [command |-> r.command, base |-> d.revision - 1, new |-> d.revision,
   snapshot |-> d.current, content |-> d.snapshots[d.current]]

\* Variant: a replay answers with the current snapshot.
ReplayResult_Current(d, r) ==
  LET row == d.idempotency[r.key]
  IN  [command |-> row.command, base |-> row.base, new |-> row.new,
       snapshot |-> row.snapshot, content |-> d.snapshots[d.current]]

\* The CommitResult of a replay, rebuilt from the idempotency row.
ReplayResult(d, r) ==
  LET row == d.idempotency[r.key]
  IN  [command |-> row.command, base |-> row.base, new |-> row.new,
       snapshot |-> row.snapshot, content |-> d.snapshots[row.snapshot]]

(***************************************************************************)
(* The checks of ProjectStore::verify_integrity on the tables.             *)
(***************************************************************************)
CurrentReadable(d) ==
  /\ d.revision >= 0 /\ d.position >= 0
  /\ d.current \in DOMAIN d.snapshots
  /\ d.format = V2 => \A s \in DOMAIN d.snapshots : GraphValid(d.snapshots[s].nodes)

HistoryContiguous(d) ==
  /\ d.position \in DOMAIN d.history /\ d.history[d.position] = d.current
  /\ 0 \in DOMAIN d.history
  /\ MaximumHistoryPosition(d) = Cardinality(DOMAIN d.history) - 1
  /\ d.position <= MaximumHistoryPosition(d)

LogMatchesRevision(d) ==
  /\ Cardinality(DOMAIN d.transactions) = d.revision
  /\ IF DOMAIN d.transactions = {} THEN d.revision = 0
     ELSE d.revision \in DOMAIN d.transactions
            /\ \A t \in DOMAIN d.transactions : t <= d.revision

VerifyIntegrity(d) == CurrentReadable(d) /\ HistoryContiguous(d) /\ LogMatchesRevision(d)

(***************************************************************************)
(* Migration of a v1 database: the semantic checks on the source, the      *)
(* graphs written for its cumulative exposures, and the transformed copy.  *)
(***************************************************************************)
MigrationAncestry(d) ==
  /\ d.snapshots[1] = [parent |-> NoParent, created |-> 0, ev |-> 0, nodes |-> 0]
  /\ \A s \in DOMAIN d.snapshots \ {1} :
       LET parent == d.snapshots[s].parent IN
         /\ parent \in DOMAIN d.snapshots
         /\ d.snapshots[parent].created < d.snapshots[s].created
         /\ RoundEV(d.snapshots[s].ev - d.snapshots[parent].ev) \in -ExposureLimit .. ExposureLimit

MigrationLog(d) ==
  /\ \A t \in DOMAIN d.transactions :
       /\ d.transactions[t].base = t - 1
       /\ d.transactions[t].kind \in {"adjust.exposure", "history.undo", "history.redo"}
  /\ \A s \in DOMAIN d.snapshots :
       LET t == d.snapshots[s].created IN
         t > 0 => /\ t \in DOMAIN d.transactions
                  /\ d.transactions[t].kind = "adjust.exposure"
                  /\ d.transactions[t].snapshot = s
  /\ \A k \in DOMAIN d.idempotency : \E t \in DOMAIN d.transactions :
       /\ d.transactions[t].key = k
       /\ d.idempotency[k] = [fingerprint |-> d.transactions[t].fingerprint,
                              command     |-> d.transactions[t].command,
                              base        |-> d.transactions[t].base,
                              new         |-> t,
                              snapshot    |-> d.transactions[t].snapshot]
  /\ Cardinality(DOMAIN d.transactions) = Cardinality(DOMAIN d.idempotency)

MigrationSemantics(d) == MigrationAncestry(d) /\ MigrationLog(d)

\* Exposure nodes of at most ExposureLimit each between source and output.
MigratedNodes(ev) ==
  LET size == IF ev < 0 THEN -ev ELSE ev
  IN  MinNodes + (size + ExposureLimit - 1) \div ExposureLimit

MigrationFits(d) == \A s \in DOMAIN d.snapshots : GraphValid(MigratedNodes(d.snapshots[s].ev))

Migrated(d) ==
  [format       |-> V2,
   revision     |-> d.revision,
   current      |-> d.current,
   position     |-> d.position,
   snapshots    |-> [s \in DOMAIN d.snapshots |->
                       [parent  |-> d.snapshots[s].parent,
                        created |-> d.snapshots[s].created,
                        ev      |-> d.snapshots[s].ev,
                        nodes   |-> MigratedNodes(d.snapshots[s].ev)]],
   history      |-> d.history,
   transactions |-> d.transactions,
   idempotency  |-> d.idempotency]

\* The databases a project is published with: by create, or by the migration
\* of a project that was never edited.
PublishedDatabases == {NewDatabase, Migrated(NewDatabase)}
=============================================================================
