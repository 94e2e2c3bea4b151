-------------------------- MODULE ProjectStoreProofs --------------------------
(***************************************************************************)
(* Proofs about one project, for every set of sessions, keys, command ids, *)
(* exposure changes and graphs, and for every limit.  First the ledger:    *)
(* its tables agree after any transactions.  Then the sessions: that       *)
(* clean_shutdown tells the truth, that what callers were told stays in    *)
(* the database, and that the database evolves as the ledger.  Then the    *)
(* commands of nps-cli, which run on these sessions and commit nothing     *)
(* they should not.                                                        *)
(***************************************************************************)
EXTENDS CommandLine, ProjectTablesProofs

(***************************************************************************)
(* The ledger: its inductive invariant and what follows from it            *)
(***************************************************************************)

\* Every reachable database is consistent: the inductive invariant.
THEOREM ConsistentInvariant == LedgerSpec => []Consistent(db)
<1>1. LedgerInit => Consistent(db)
  BY PublishedConsistent DEF LedgerInit
<1>2. Consistent(db) /\ [LedgerNext]_db => Consistent(db)'
  <2> SUFFICES ASSUME Consistent(db), [LedgerNext]_db
               PROVE  Consistent(db')
    BY DEF Consistent, Typed, Ancestry, Creation, Path, Log, Replayable, RowOf,
           UniqueRequests, UndoneIsNext, GraphsValid, MaximumHistoryPosition
  <2>1. CASE LedgerMigrate
    BY <2>1, MigrationConsistent DEF LedgerMigrate
  <2>2. ASSUME NEW r \in Requests, LedgerExecute(r)
        PROVE  Consistent(db')
    BY <2>2, CommitConsistent DEF LedgerExecute
  <2>3. CASE UNCHANGED db
    BY <2>3
  <2> QED BY <2>1, <2>2, <2>3 DEF LedgerNext
<1> QED BY <1>1, <1>2, PTL DEF LedgerSpec

\* Every column of the tables holds a value of its type.
THEOREM TypeCorrect == LedgerSpec => []TypeOK
<1>1. Consistent(db) => TypeOK
  BY DEF Consistent, TypeOK
<1> QED BY <1>1, ConsistentInvariant, PTL

\* Snapshot tree, undo history and transaction log agree in every reachable
\* database.
THEOREM TablesAgreeInvariant == LedgerSpec => []TablesAgree
<1>1. Consistent(db) => TablesAgree
  BY DEF Consistent, TablesAgree
<1> QED BY <1>1, ConsistentInvariant, PTL

\* The idempotency table holds exactly the results of the transactions.
THEOREM ReplayTableInvariant == LedgerSpec => []ReplayTableExact
<1>1. Consistent(db) => ReplayTableExact
  BY DEF Consistent, ReplayTableExact
<1> QED BY <1>1, ConsistentInvariant, PTL

\* No sequence of accepted commands makes a project that open refuses.
THEOREM AlwaysOpenableInvariant == LedgerSpec => []AlwaysOpenable
<1>1. Consistent(db) => AlwaysOpenable
  BY ConsistentIsOpenable DEF AlwaysOpenable
<1> QED BY <1>1, ConsistentInvariant, PTL

(***************************************************************************)
(* What a step of the ledger may not do                                    *)
(***************************************************************************)

\* No transaction and no migration rewrites a row that was committed.
THEOREM NothingRewrittenAlways == LedgerSpec => NothingRewritten
<1> DEFINE Kept(d, e) ==
      /\ \A s \in DOMAIN d.snapshots :
           /\ s \in DOMAIN e.snapshots
           /\ e.snapshots[s].parent = d.snapshots[s].parent
           /\ e.snapshots[s].created = d.snapshots[s].created
           /\ e.snapshots[s].ev = d.snapshots[s].ev
           /\ e.format = d.format => e.snapshots[s] = d.snapshots[s]
      /\ \A t \in DOMAIN d.transactions :
           t \in DOMAIN e.transactions /\ e.transactions[t] = d.transactions[t]
      /\ \A k \in DOMAIN d.idempotency :
           k \in DOMAIN e.idempotency /\ e.idempotency[k] = d.idempotency[k]
      /\ e.revision = d.revision + (IF e.format = d.format THEN 1 ELSE 0)
<1>1. ASSUME Consistent(db), LedgerMigrate
      PROVE  Kept(db, db')
  <2>1. db.format # db'.format /\ db'.revision = db.revision /\ db.revision \in Nat
    BY <1>1 DEF LedgerMigrate, Migrated, V1, V2, Consistent, Typed
  <2>2. \A s \in DOMAIN db.snapshots :
          /\ s \in DOMAIN db'.snapshots
          /\ db'.snapshots[s].parent = db.snapshots[s].parent
          /\ db'.snapshots[s].created = db.snapshots[s].created
          /\ db'.snapshots[s].ev = db.snapshots[s].ev
    BY <1>1 DEF LedgerMigrate, Migrated
  <2>3. db'.transactions = db.transactions /\ db'.idempotency = db.idempotency
    BY <1>1 DEF LedgerMigrate, Migrated
  <2> QED BY <2>1, <2>2, <2>3
<1>2. ASSUME Consistent(db), NEW r \in Requests, LedgerExecute(r)
      PROVE  Kept(db, db')
  <2> DEFINE n == Len(db.snapshots)
  <2>1. Commits(db, r) /\ db' = Committed(db, r)
    BY <1>2 DEF LedgerExecute
  <2>2. /\ n \in Nat \ {0}
        /\ db'.format = db.format /\ db'.revision = db.revision + 1
        /\ Edits(r) => Len(db'.snapshots) = n + 1
        /\ ~Edits(r) => db'.snapshots = db.snapshots
        /\ db'.snapshots \in Seq(SnapshotRows)
        /\ \A s \in 1..n : db'.snapshots[s] = db.snapshots[s]
        /\ DOMAIN db'.transactions = 1..(db.revision + 1)
        /\ \A t \in 1..db.revision : db'.transactions[t] = db.transactions[t]
        /\ DOMAIN db'.idempotency = DOMAIN db.idempotency \cup {r.key}
        /\ \A k \in DOMAIN db.idempotency : db'.idempotency[k] = db.idempotency[k]
    BY <1>2, <2>1, CommitRows
  <2>3. DOMAIN db.snapshots = 1..n /\ DOMAIN db.transactions = 1..db.revision
        /\ db.revision \in Nat
    BY <1>2 DEF Consistent, Typed, Log
  <2>4. DOMAIN db.snapshots \subseteq DOMAIN db'.snapshots
    BY <2>2, <2>3
  <2>5. DOMAIN db.transactions \subseteq DOMAIN db'.transactions
    BY <2>2, <2>3
  <2> HIDE DEF n
  <2> QED BY <2>2, <2>3, <2>4, <2>5
<1>3. Consistent(db) /\ [LedgerNext]_db => [Kept(db, db')]_db
  BY <1>1, <1>2 DEF LedgerNext
<1> QED BY <1>3, ConsistentInvariant, PTL DEF LedgerSpec, NothingRewritten

\* Undo goes to the parent, redo to a child, and redo brings back what the
\* undo before it left.
THEOREM UndoRedoInverseAlways == LedgerSpec => UndoRedoInverse
<1> DEFINE InverseStep ==
      /\ CommittedKind = "history.undo" =>
           db'.current = db.snapshots[db.current].parent /\ db'.history = db.history
      /\ CommittedKind = "history.redo" =>
           db'.snapshots[db'.current].parent = db.current /\ db'.history = db.history
      /\ (CommittedKind = "history.redo" /\ db.transactions[db.revision].kind = "history.undo")
           => db'.current = db.transactions[db.revision - 1].snapshot
<1>1. ASSUME LedgerMigrate
      PROVE  InverseStep
  BY <1>1 DEF LedgerMigrate, Migrated, CommittedKind
<1>2. ASSUME Consistent(db), NEW r \in Requests, LedgerExecute(r)
      PROVE  InverseStep
  <2>1. Commits(db, r) /\ db' = Committed(db, r)
    BY <1>2 DEF LedgerExecute
  <2>2. db.revision \in Nat /\ db.position \in Nat
    BY <1>2 DEF Consistent, Typed
  <2>3. /\ db'.revision = db.revision + 1
        /\ db'.transactions[db.revision + 1] = TransactionRow(db, r)
    BY <1>2, <2>1, CommitRows
  <2>4. CommittedKind = r.change.kind
    BY <2>2, <2>3 DEF CommittedKind, TransactionRow
  <2>5. CASE Edits(r)
    BY <2>4, <2>5 DEF Edits, EditKinds
  <2>6. CASE ~Edits(r)
    <3>1. /\ db'.position \in DOMAIN db.history /\ db'.current = db.history[db'.position]
          /\ db'.position = IF r.change.kind = "history.undo" THEN db.position - 1
                            ELSE db.position + 1
          /\ db'.snapshots = db.snapshots /\ db'.history = db.history
      BY <1>2, <2>1, <2>6, CommitRows
    <3>2. /\ \A p \in DOMAIN db.history : p \in Nat
          /\ \A p \in DOMAIN db.history \ {0} :
               db.snapshots[db.history[p]].parent = db.history[p - 1]
          /\ db.position \in DOMAIN db.history /\ db.history[db.position] = db.current
      BY <1>2 DEF Consistent, Path
    <3>3. CASE r.change.kind = "history.undo"
      <4>1. db.position # 0 /\ db'.position = db.position - 1
        BY <3>1, <3>2, <3>3, <2>2
      <4> QED BY <4>1, <3>1, <3>2, <3>3, <2>4
    <3>4. CASE r.change.kind = "history.redo"
      <4>1. db'.position = db.position + 1 /\ db'.position # 0
        BY <3>1, <3>4, <2>2
      <4>2. db'.snapshots[db'.current].parent = db.current
        BY <4>1, <3>1, <3>2, <2>2
      <4>3. ASSUME db.transactions[db.revision].kind = "history.undo"
            PROVE  db'.current = db.transactions[db.revision - 1].snapshot
        <5>1. DOMAIN db.history = 0..MaximumHistoryPosition(db)
              /\ MaximumHistoryPosition(db) \in 0..db.revision
          BY <1>2 DEF Consistent, Path
        <5>2. db.revision > 0
          BY <5>1, <4>1, <3>1, <2>2
        <5>3. db.history[db.position + 1] = db.transactions[db.revision - 1].snapshot
          BY <1>2, <5>2, <4>3 DEF Consistent, UndoneIsNext
        <5> QED BY <5>3, <4>1, <3>1
      <4> QED BY <4>2, <4>3, <3>1, <3>4, <2>4
    <3> QED BY <3>3, <3>4, <2>6, CommitFacts, <2>1, <1>2 DEF Consistent
  <2> QED BY <2>5, <2>6
<1>3. Consistent(db) /\ [LedgerNext]_db => [InverseStep]_db
  BY <1>1, <1>2 DEF LedgerNext
<1> QED BY <1>3, ConsistentInvariant, PTL DEF LedgerSpec, UndoRedoInverse

(***************************************************************************)
(* Migration                                                               *)
(***************************************************************************)

\* A sum is rounded by at most half the spacing of the numbers around it.
LEMMA RoundedIsNear ==
  ASSUME NEW x \in Int
  PROVE  /\ 2 * (RoundEV(x) - x) <= Spacing(x)
         /\ 2 * (x - RoundEV(x)) <= Spacing(x)
<1>1. Spacing(x) \in {1, 2, 4, 8}
  BY DEF Spacing
<1>2. ASSUME NEW g \in {1, 2, 4, 8}, NEW y, y = g * (x \div g)
      PROVE  y \in Int /\ y <= x /\ x < y + g
  <2>1. CASE g = 1 BY <2>1, <1>2
  <2>2. CASE g = 2 BY <2>2, <1>2
  <2>3. CASE g = 4 BY <2>3, <1>2
  <2>4. CASE g = 8 BY <2>4, <1>2
  <2> QED BY <1>2, <2>1, <2>2, <2>3, <2>4
<1> DEFINE g == Spacing(x)
           y == g * (x \div g)
<1>3. y \in Int /\ y <= x /\ x < y + g /\ g \in Nat
  BY <1>1, <1>2
<1>4. \/ RoundEV(x) = y + g /\ 2 * (x - y) >= g
      \/ RoundEV(x) = y /\ 2 * (x - y) <= g
  <2>1. RoundEV(x) = IF 2 * (x - y) > g \/ (2 * (x - y) = g /\ (x \div g) % 2 = 1)
                     THEN y + g ELSE y
    BY DEF RoundEV
  <2> DEFINE odd == (x \div g) % 2 = 1
  <2> HIDE DEF y, g, odd
  <2> QED BY <1>3, <2>1 DEF odd
<1> HIDE DEF y, g
<1>5. 2 * (RoundEV(x) - x) <= g /\ 2 * (x - RoundEV(x)) <= g
  BY <1>3, <1>4
<1> QED BY <1>5 DEF g

\* A number that the format represents exactly is not changed.
LEMMA ExactIsKept ==
  ASSUME NEW x \in -ExactEV .. ExactEV
  PROVE  RoundEV(x) = x
<1>1. x \in Int /\ Spacing(x) = 1 /\ RoundEV(x) \in Int
  BY LimitsAssumption, RoundedIsInteger DEF Spacing
<1> QED BY <1>1, RoundedIsNear

\* While exposures are exact, so is the difference between a snapshot and its
\* parent that the migration computes, and it is a legal exposure change.
LEMMA ExactDifference ==
  ASSUME ExposureLimit <= ExactEV,
         NEW parent \in -ExactEV .. ExactEV, NEW delta \in -ExposureLimit .. ExposureLimit,
         RoundEV(parent + delta) \in -ExactEV .. ExactEV
  PROVE  RoundEV(RoundEV(parent + delta) - parent) \in -ExposureLimit .. ExposureLimit
<1> DEFINE x == parent + delta
           y == RoundEV(x)
<1>1. /\ ExposureLimit \in Nat /\ ExactEV \in Nat \ {0}
      /\ parent \in Int /\ delta \in Int /\ x \in Int /\ y \in -ExactEV .. ExactEV
  BY LimitsAssumption
<1>2. 2 * (y - x) <= Spacing(x) /\ 2 * (x - y) <= Spacing(x)
  BY <1>1, RoundedIsNear
<1>3. y - parent \in -ExposureLimit .. ExposureLimit
  <2>1. CASE x \in -ExactEV .. ExactEV
    BY <1>1, <2>1, ExactIsKept
  <2>2. CASE x > ExactEV
    <3>1. y >= ExactEV
      <4>1. /\ x <= 2 * ExactEV => Spacing(x) = 2
            /\ x > 2 * ExactEV /\ x <= 4 * ExactEV => Spacing(x) = 4
            /\ x > 4 * ExactEV => Spacing(x) = 8
        BY <1>1, <2>2 DEF Spacing
      <4> HIDE DEF x, y
      <4> QED BY <1>1, <1>2, <2>2, <4>1
    <3>2. y = ExactEV
      BY <1>1, <3>1
    <3> HIDE DEF y
    <3> QED BY <1>1, <2>2, <3>2
  <2>3. CASE x < -ExactEV
    <3>1. y <= -ExactEV
      <4>1. /\ x >= -2 * ExactEV => Spacing(x) = 2
            /\ x < -2 * ExactEV /\ x >= -4 * ExactEV => Spacing(x) = 4
            /\ x < -4 * ExactEV => Spacing(x) = 8
        BY <1>1, <2>3 DEF Spacing
      <4> HIDE DEF x, y
      <4> QED BY <1>1, <1>2, <2>3, <4>1
    <3>2. y = -ExactEV
      BY <1>1, <3>1
    <3> HIDE DEF y
    <3> QED BY <1>1, <2>3, <3>2
  <2> QED BY <1>1, <2>1, <2>2, <2>3
<1>4. y - parent \in -ExactEV .. ExactEV
  BY <1>1, <1>3
<1>5. RoundEV(y - parent) = y - parent
  BY <1>4, ExactIsKept
<1> QED BY <1>3, <1>5

\* A v1 snapshot is its parent changed by a legal exposure change, and the log
\* of a v1 project has no other edits.
ExposuresAreSums(d) ==
  d.format = V1 =>
    /\ d.snapshots[1].ev = 0 /\ d.snapshots[1].nodes = 0
    /\ \A s \in 2..Len(d.snapshots) :
         /\ d.snapshots[s].nodes = 0
         /\ \E delta \in -ExposureLimit .. ExposureLimit :
              d.snapshots[s].ev = RoundEV(d.snapshots[d.snapshots[s].parent].ev + delta)
    /\ \A t \in DOMAIN d.transactions :
         d.transactions[t].kind \in {"adjust.exposure", "history.undo", "history.redo"}

\* A transaction adds such a snapshot or none.
LEMMA CommitKeepsSums ==
  ASSUME NEW d, NEW r \in Requests, Consistent(d), ExposuresAreSums(d), Commits(d, r)
  PROVE  ExposuresAreSums(Committed(d, r))
<1> DEFINE e == Committed(d, r)
           n == Len(d.snapshots)
<1>1. /\ n \in Nat \ {0} /\ d.current \in 1..n /\ e.format = d.format
      /\ Edits(r) => /\ Len(e.snapshots) = n + 1
                     /\ e.snapshots[n + 1] = EditedSnapshot(d, r)
      /\ ~ Edits(r) => e.snapshots = d.snapshots
      /\ \A s \in 1..n : e.snapshots[s] = d.snapshots[s]
      /\ DOMAIN e.transactions = 1..(d.revision + 1)
      /\ e.transactions[d.revision + 1] = TransactionRow(d, r)
      /\ \A t \in 1..d.revision : e.transactions[t] = d.transactions[t]
  BY CommitRows
<1>2. /\ d.revision \in Nat /\ DOMAIN d.transactions = 1..d.revision
      /\ \A s \in 2..n : d.snapshots[s].parent \in 1..n
  <2>1. d.revision \in Nat /\ DOMAIN d.transactions = 1..d.revision
    BY DEF Consistent, Typed, Log
  <2>2. \A s \in 2..n : d.snapshots[s].parent \in 1..(s - 1)
    BY DEF Consistent, Ancestry
  <2>3. \A s \in 2..n : 1..(s - 1) \subseteq 1..n
    BY <1>1
  <2> QED BY <2>1, <2>2, <2>3
<1> SUFFICES ASSUME d.format = V1
             PROVE  ExposuresAreSums(e)
  BY <1>1 DEF ExposuresAreSums
<1>3. r.change.kind \in {"adjust.exposure", "history.undo", "history.redo"}
  <2>1. d.format # V2
    BY DEF V1, V2
  <2>2. Edits(r) \/ r.change.kind \in {"history.undo", "history.redo"}
    BY CommitFacts DEF Consistent
  <2>3. r.change.kind # "graph.replace"
    BY <2>1, CommitFacts DEF Consistent
  <2> QED BY <2>2, <2>3 DEF Edits, EditKinds
<1>4. ASSUME Edits(r)
      PROVE  /\ e.snapshots[n + 1].parent = d.current /\ e.snapshots[n + 1].nodes = 0
             /\ \E delta \in -ExposureLimit .. ExposureLimit :
                  e.snapshots[n + 1].ev = RoundEV(d.snapshots[d.current].ev + delta)
  <2>1. r.change.kind = "adjust.exposure"
    BY <1>3, <1>4 DEF Edits, EditKinds
  <2>2. r.change.ev \in -ExposureLimit .. ExposureLimit
    BY <2>1 DEF Commits, SchemaRefusal, Malformed
  <2> QED BY <1>1, <1>4, <2>1, <2>2 DEF EditedSnapshot
<1> HIDE DEF e
<1>5. /\ d.snapshots[1].ev = 0 /\ d.snapshots[1].nodes = 0
      /\ \A s \in 2..n :
           /\ d.snapshots[s].nodes = 0
           /\ \E delta \in -ExposureLimit .. ExposureLimit :
                d.snapshots[s].ev = RoundEV(d.snapshots[d.snapshots[s].parent].ev + delta)
      /\ \A t \in 1..d.revision :
           d.transactions[t].kind \in {"adjust.exposure", "history.undo", "history.redo"}
  BY <1>2 DEF ExposuresAreSums
<1> HIDE DEF n
<1>6. ASSUME NEW s \in 2..Len(e.snapshots)
      PROVE  /\ e.snapshots[s].nodes = 0
             /\ \E delta \in -ExposureLimit .. ExposureLimit :
                  e.snapshots[s].ev = RoundEV(e.snapshots[e.snapshots[s].parent].ev + delta)
  <2>1. CASE s \in 2..n
    <3>1. s \in 1..n /\ d.snapshots[s].parent \in 1..n
      BY <1>1, <1>2, <2>1
    <3>2. /\ e.snapshots[s] = d.snapshots[s]
          /\ e.snapshots[d.snapshots[s].parent] = d.snapshots[d.snapshots[s].parent]
      BY <1>1, <3>1
    <3> QED BY <1>5, <2>1, <3>2
  <2>2. CASE s \notin 2..n
    <3>1. Len(e.snapshots) = n \/ (Edits(r) /\ Len(e.snapshots) = n + 1)
      BY <1>1 DEF n
    <3>2. Edits(r) /\ s = n + 1
      BY <1>1, <2>2, <3>1
    <3> QED BY <1>1, <1>4, <3>2
  <2> QED BY <2>1, <2>2
<1>7. \A t \in DOMAIN e.transactions :
        e.transactions[t].kind \in {"adjust.exposure", "history.undo", "history.redo"}
  <2>1. e.transactions[d.revision + 1].kind = r.change.kind
    BY <1>1 DEF TransactionRow
  <2>2. \A t \in 1..(d.revision + 1) : t = d.revision + 1 \/ t \in 1..d.revision
    BY <1>2
  <2> QED BY <1>1, <1>3, <1>5, <2>1, <2>2
<1>8. e.snapshots[1].ev = 0 /\ e.snapshots[1].nodes = 0
  BY <1>1, <1>5
<1> QED BY <1>6, <1>7, <1>8 DEF ExposuresAreSums

\* A key for each row of the log and a row of the log for each key: the two
\* tables have as many rows.
LEMMA TablesHaveOneSize ==
  ASSUME NEW d, Consistent(d)
  PROVE  Cardinality(DOMAIN d.transactions) = Cardinality(DOMAIN d.idempotency)
<1> DEFINE T == DOMAIN d.transactions
           K == DOMAIN d.idempotency
           f == [t \in T |-> d.transactions[t].key]
<1>1. T = 1..d.revision /\ d.revision \in Nat
  BY DEF Consistent, Log, Typed
<1>2. IsFiniteSet(T)
  BY <1>1, FS_Interval
<1>3. f \in Bijection(T, K)
  <2>1. f \in [T -> K] /\ \A k \in K : \E t \in T : f[t] = k
    BY DEF Consistent, Replayable
  <2>2. \A t, u \in T : f[t] = f[u] => t = u
    BY DEF Consistent, UniqueRequests
  <2> HIDE DEF f, T, K
  <2> QED BY <2>1, <2>2 DEF Bijection, Injection, Surjection, IsInjective
<1>4. ExistsBijection(T, K)
  BY <1>3 DEF ExistsBijection
<1> QED BY <1>2, <1>4, FS_Bijection

\* Every cumulative exposure is one the floating-point format represents
\* exactly.
ExposuresExact(d) == \A s \in 1..Len(d.snapshots) : d.snapshots[s].ev \in -ExactEV .. ExactEV

\* What migrate_v1_to_v2 checks of the tables of a v1 project.
LEMMA ExactIsMigratable ==
  ASSUME ExposureLimit <= ExactEV,
         NEW d, Consistent(d), ExposuresAreSums(d), ExposuresExact(d), d.format = V1
  PROVE  MigrationSemantics(d)
<1> DEFINE n == Len(d.snapshots)
<1>1. n \in Nat \ {0} /\ DOMAIN d.snapshots = 1..n /\ d.snapshots \in Seq(SnapshotRows)
  BY DEF Consistent, Typed, Ancestry
<1>2. MigrationAncestry(d)
  <2>1. d.snapshots[1] = [parent |-> NoParent, created |-> 0, ev |-> 0, nodes |-> 0]
    <3>1. d.snapshots[1] \in SnapshotRows
      BY <1>1
    <3>2. /\ d.snapshots[1].parent = NoParent /\ d.snapshots[1].created = 0
          /\ d.snapshots[1].ev = 0 /\ d.snapshots[1].nodes = 0
      BY DEF Consistent, Ancestry, ExposuresAreSums
    <3> QED BY <3>1, <3>2 DEF SnapshotRows
  <2>2. ASSUME NEW s \in 2..n
        PROVE  /\ d.snapshots[s].parent \in 1..n
               /\ d.snapshots[d.snapshots[s].parent].created < d.snapshots[s].created
               /\ RoundEV(d.snapshots[s].ev - d.snapshots[d.snapshots[s].parent].ev)
                    \in -ExposureLimit .. ExposureLimit
    <3>1. /\ d.snapshots[s].parent \in 1..(s - 1)
          /\ d.snapshots[d.snapshots[s].parent].created < d.snapshots[s].created
      BY DEF Consistent, Ancestry
    <3>2. d.snapshots[s].parent \in 1..n /\ s \in 1..n
      BY <1>1, <3>1
    <3>3. PICK delta \in -ExposureLimit .. ExposureLimit :
            d.snapshots[s].ev = RoundEV(d.snapshots[d.snapshots[s].parent].ev + delta)
      BY DEF ExposuresAreSums
    <3>4. /\ d.snapshots[d.snapshots[s].parent].ev \in -ExactEV .. ExactEV
          /\ d.snapshots[s].ev \in -ExactEV .. ExactEV
      BY <3>2 DEF ExposuresExact
    <3> QED BY <3>1, <3>2, <3>3, <3>4, ExactDifference
  <2>3. \A s \in DOMAIN d.snapshots \ {1} : s \in 2..n
    BY <1>1
  <2> HIDE DEF n
  <2> QED BY <1>1, <2>1, <2>2, <2>3 DEF MigrationAncestry
<1>3. MigrationLog(d)
  <2>1. \A t \in DOMAIN d.transactions :
          /\ d.transactions[t].base = t - 1
          /\ d.transactions[t].kind \in {"adjust.exposure", "history.undo", "history.redo"}
    BY DEF Consistent, Log, ExposuresAreSums
  <2>2. ASSUME NEW s \in DOMAIN d.snapshots, d.snapshots[s].created > 0
        PROVE  /\ d.snapshots[s].created \in DOMAIN d.transactions
               /\ d.transactions[d.snapshots[s].created].kind = "adjust.exposure"
               /\ d.transactions[d.snapshots[s].created].snapshot = s
    <3>1. d.snapshots[1].created = 0
      BY DEF Consistent, Ancestry
    <3>2. s \in 2..n
      BY <1>1, <2>2, <3>1
    <3> QED BY <2>1, <3>2 DEF Consistent, Creation, EditKinds
  <2>3. \A k \in DOMAIN d.idempotency : \E t \in DOMAIN d.transactions :
          d.transactions[t].key = k /\ d.idempotency[k] = RowOf(d, t)
    BY RowOfTransaction
  <2> QED BY <2>1, <2>2, <2>3, TablesHaveOneSize DEF MigrationLog, RowOf
<1> QED BY <1>2, <1>3 DEF MigrationSemantics

\* While no cumulative exposure is beyond what a double holds exactly, no
\* sequence of accepted commands leads to a v1 database that migrate_v1_to_v2
\* refuses as inconsistent: rounding is the only way there.
THEOREM MigratableWhenExact ==
  ExposureLimit <= ExactEV => (LedgerSpec => [](ExposuresExact(db) => AlwaysMigratable))
<1> SUFFICES ASSUME ExposureLimit <= ExactEV
             PROVE  LedgerSpec => [](ExposuresExact(db) => AlwaysMigratable)
  OBVIOUS
<1>1. LedgerInit => ExposuresAreSums(db)
  BY DEF LedgerInit, PublishedDatabases, NewDatabase, Migrated, ExposuresAreSums, V1, V2
<1>2. Consistent(db) /\ ExposuresAreSums(db) /\ [LedgerNext]_db => ExposuresAreSums(db)'
  <2> SUFFICES ASSUME Consistent(db), ExposuresAreSums(db), [LedgerNext]_db
               PROVE  ExposuresAreSums(db)'
    OBVIOUS
  <2>1. CASE db' = db
    BY <2>1 DEF ExposuresAreSums
  <2>2. CASE LedgerMigrate
    <3>1. db'.format # V1
      BY <2>2 DEF LedgerMigrate, Migrated, V1, V2
    <3> QED BY <3>1 DEF ExposuresAreSums
  <2>3. ASSUME NEW r \in Requests, LedgerExecute(r)
        PROVE  ExposuresAreSums(db)'
    <3>1. Commits(db, r) /\ db' = Committed(db, r)
      BY <2>3 DEF LedgerExecute
    <3>2. ExposuresAreSums(db')
      BY <3>1, CommitKeepsSums
    <3> QED BY <3>2 DEF ExposuresAreSums
  <2> QED BY <2>1, <2>2, <2>3 DEF LedgerNext
<1>3. Consistent(db) /\ ExposuresAreSums(db) => (ExposuresExact(db) => AlwaysMigratable)
  BY ExactIsMigratable DEF AlwaysMigratable
<1> QED BY <1>1, <1>2, <1>3, ConsistentInvariant, PTL DEF LedgerSpec

(***************************************************************************)
(* The inductive invariant of the sessions                                 *)
(***************************************************************************)
StoreTyped ==
  /\ clean \in {0, 1}
  /\ lease \in Sessions \cup {NoSession}
  /\ phase \in [Sessions -> Phases]
  /\ recovered \in [Sessions -> BOOLEAN]
  /\ unreported \in BOOLEAN /\ erased \in BOOLEAN

LeaseHeld == \A s \in Sessions : phase[s] # "idle" <=> lease = s

\* An open session has reported what there was to report.
OpenHasReported == \A s \in Sessions : phase[s] = "open" => ~unreported /\ ~erased

\* Between sessions clean_shutdown is 0 exactly when an unclean end waits to be
\* reported, unless a failed open erased it.
CleanTells ==
  ~erased /\ (\A s \in Sessions : phase[s] \notin {"marked", "open"})
    => (unreported <=> clean = 0)

SessionInv ==
  /\ StoreTyped /\ LeaseHeld /\ EditingIsMarked
  /\ OpenHasReported /\ CleanTells /\ RecoveryExact

\* The tables are consistent and hold every result a caller was given.
TablesInv == Consistent(db) /\ AcknowledgedDurable

(***************************************************************************)
(* Leases and clean_shutdown                                               *)
(***************************************************************************)
\* Nobody has the project open at first.
LEMMA InitSessionInv == Init => SessionInv
<1> SUFFICES ASSUME Init PROVE SessionInv
  OBVIOUS
<1>1. StoreTyped
  BY DEF Init, StoreTyped, Phases
<1>2. LeaseHeld
  BY SessionAssumption DEF Init, LeaseHeld
<1>3. EditingIsMarked /\ OpenHasReported /\ CleanTells /\ RecoveryExact
  BY DEF Init, EditingIsMarked, OpenHasReported, CleanTells, RecoveryExact
<1> QED BY <1>1, <1>2, <1>3 DEF SessionInv

\* Every step of a session, and of the environment, preserves it.
LEMMA StepSessionInv == SessionInv /\ [Next]_vars => SessionInv'
<1> SUFFICES ASSUME SessionInv, [Next]_vars PROVE SessionInv'
  OBVIOUS
<1> USE SessionAssumption
    DEF SessionInv, StoreTyped, LeaseHeld, EditingIsMarked, OpenHasReported, CleanTells,
        RecoveryExact, Goto, Gone, durable, history, Phases, Opening
<1>1. ASSUME NEW s \in Sessions, NEW p \in {"leased", "reading"}, TakeLease(s, p)
      PROVE  SessionInv'
  BY <1>1 DEF TakeLease
<1>2. ASSUME NEW s \in Sessions, BuildStore(s)
      PROVE  SessionInv'
  BY <1>2 DEF BuildStore
<1>3. ASSUME NEW s \in Sessions, FailBeforeStore(s)
      PROVE  SessionInv'
  BY <1>3 DEF FailBeforeStore
<1>4. ASSUME NEW s \in Sessions, VerifyOnOpen(s)
      PROVE  SessionInv'
  BY <1>4 DEF VerifyOnOpen
<1>5. ASSUME NEW s \in Sessions, MarkUnclean(s)
      PROVE  SessionInv'
  BY <1>5 DEF MarkUnclean
<1>6. ASSUME NEW s \in Sessions, FinishOpen(s)
      PROVE  SessionInv'
  BY <1>6 DEF FinishOpen
<1>7. ASSUME NEW s \in Sessions, FailWithStore(s)
      PROVE  SessionInv'
  <2>1. lease = s /\ phase' = [phase EXCEPT ![s] = "closing"] /\ phase[s] \in {"built", "verified", "marked"}
        /\ lease' = lease /\ recovered' = recovered /\ clean' \in {0, 1}
        /\ \A t \in Sessions \ {s} : phase[t] = "idle" /\ phase'[t] = "idle"
    BY <1>7 DEF FailWithStore
  <2>2. phase[s] = "marked" => clean = 0
    BY <2>1
  <2>3. CASE clean' = 1 /\ erased' = (erased \/ unreported) /\ UNCHANGED unreported
    BY <2>1, <2>3
  <2>4. CASE unreported' = (unreported \/ phase[s] = "marked") /\ UNCHANGED <<clean, erased>>
    <3>1. CASE phase[s] = "marked"
      BY <2>1, <2>2, <2>4, <3>1
    <3>2. CASE phase[s] # "marked"
      BY <2>1, <2>4, <3>2
    <3> QED BY <3>1, <3>2
  <2> QED BY <1>7, <2>3, <2>4 DEF FailWithStore
<1>8. ASSUME NEW s \in Sessions, NEW r \in Requests,
             Execute(s, r) \/ ExecuteUnknown(s, r) \/ Replay(s, r)
      PROVE  SessionInv'
  BY <1>8 DEF Execute, ExecuteUnknown, Replay
<1>9. ASSUME NEW s \in Sessions, Close(s)
      PROVE  SessionInv'
  <2>1. lease = s /\ phase[s] = "open" /\ phase' = [phase EXCEPT ![s] = "closing"]
        /\ UNCHANGED <<lease, recovered, erased>> /\ clean = 0 /\ ~unreported /\ ~erased
        /\ \A t \in Sessions \ {s} : phase[t] = "idle" /\ phase'[t] = "idle"
    BY <1>9 DEF Close
  <2>2. CASE clean' = 1 /\ UNCHANGED unreported
    BY <2>1, <2>2
  <2>3. CASE clean' = clean /\ unreported' = TRUE
    BY <2>1, <2>3
  <2> QED BY <1>9, <2>2, <2>3 DEF Close
<1>10. ASSUME NEW s \in Sessions, Release(s)
       PROVE  SessionInv'
  BY <1>10 DEF Release
<1>11. ASSUME NEW s \in Sessions, Crash(s)
       PROVE  SessionInv'
  BY <1>11 DEF Crash
<1>12. ASSUME Environment
       PROVE  SessionInv'
  BY <1>12 DEF Environment
<1>13. CASE UNCHANGED vars
  BY <1>13 DEF vars
<1> QED
  BY <1>1, <1>2, <1>3, <1>4, <1>5, <1>6, <1>7, <1>8, <1>9, <1>10, <1>11, <1>12, <1>13
  DEF Next, Step, BeginOpen, BeginRead

(***************************************************************************)
(* The database and what callers were told                                 *)
(***************************************************************************)

\* What a step of a session may do to the database and to the replies.
LEMMA StepOfDatabase ==
  ASSUME [Next]_vars
  PROVE  \/ UNCHANGED <<db, acked>>
         \/ \E r \in Requests :
              /\ Commits(db, r) /\ db' = Committed(db, r)
              /\ UNCHANGED acked \/ Acknowledge(r, FirstResult(db', r))
         \/ \E r \in Requests :
              /\ Replays(db, r) /\ UNCHANGED db
              /\ Acknowledge(r, ReplayResult(db, r))
<1>1. CASE UNCHANGED vars
  BY <1>1 DEF vars, durable, history
<1>2. CASE Environment
  BY <1>2 DEF Environment, history
<1>3. ASSUME NEW s \in Sessions, NEW r \in Requests,
             Execute(s, r) \/ ExecuteUnknown(s, r) \/ Replay(s, r)
      PROVE  \/ /\ Commits(db, r) /\ db' = Committed(db, r)
                /\ UNCHANGED acked \/ Acknowledge(r, FirstResult(db', r))
             \/ /\ Replays(db, r) /\ UNCHANGED db
                /\ Acknowledge(r, ReplayResult(db, r))
  BY <1>3 DEF Execute, ExecuteUnknown, Replay, durable, history
<1>4. ASSUME NEW s \in Sessions,
             \/ BeginOpen(s) \/ BuildStore(s) \/ FailBeforeStore(s) \/ VerifyOnOpen(s)
             \/ MarkUnclean(s) \/ FinishOpen(s) \/ FailWithStore(s) \/ Close(s)
             \/ BeginRead(s) \/ Release(s) \/ Crash(s)
      PROVE  UNCHANGED <<db, acked>>
  BY <1>4 DEF BeginOpen, BuildStore, FailBeforeStore, VerifyOnOpen, MarkUnclean, FinishOpen,
     FailWithStore, Close, BeginRead, TakeLease, Release, Crash, durable, history
<1> QED BY <1>1, <1>2, <1>3, <1>4 DEF Next, Step

\* Commits keep the tables consistent and every reply what it was.
LEMMA StepTablesInv == TablesInv /\ [Next]_vars => TablesInv'
<1> SUFFICES ASSUME TablesInv, [Next]_vars
             PROVE  Consistent(db') /\ AcknowledgedDurable'
  BY DEF TablesInv, Consistent, Typed, Ancestry, Creation, Path, Log, Replayable, RowOf,
         UniqueRequests, UndoneIsNext, GraphsValid, MaximumHistoryPosition
<1>1. Consistent(db) /\ AcknowledgedDurable
  BY DEF TablesInv
<1>2. CASE UNCHANGED <<db, acked>>
  BY <1>1, <1>2 DEF AcknowledgedDurable
<1>3. ASSUME NEW r \in Requests, Commits(db, r), db' = Committed(db, r),
             UNCHANGED acked \/ Acknowledge(r, FirstResult(db', r))
      PROVE  Consistent(db') /\ AcknowledgedDurable'
  <2>1. Consistent(db')
    BY <1>1, <1>3, CommitConsistent
  <2>2. ASSUME NEW a \in acked
        PROVE  a.key \in DOMAIN db'.idempotency /\ a.result = ReplayResult(db', a)
    <3>1. a.key \in DOMAIN db.idempotency /\ a.result = ReplayResult(db, a)
      BY <1>1 DEF AcknowledgedDurable
    <3> QED BY <1>1, <1>3, <3>1, CommitKeepsReplies
  <2>3. ASSUME NEW a, a = [key |-> r.key, result |-> FirstResult(db', r)]
        PROVE  a.key \in DOMAIN db'.idempotency /\ a.result = ReplayResult(db', a)
    <3>1. a.key = r.key /\ a.result = FirstResult(db', r)
      BY <2>3
    <3> QED BY <1>1, <1>3, <3>1, CommitIsReplayed
  <2>4. \A a \in acked' : a \in acked \/ a = [key |-> r.key, result |-> FirstResult(db', r)]
    BY <1>3 DEF Acknowledge
  <2> QED BY <2>1, <2>2, <2>3, <2>4 DEF AcknowledgedDurable
<1>4. ASSUME NEW r \in Requests, Replays(db, r), UNCHANGED db,
             Acknowledge(r, ReplayResult(db, r))
      PROVE  Consistent(db') /\ AcknowledgedDurable'
  <2>1. ASSUME NEW a, a = [key |-> r.key, result |-> ReplayResult(db, r)]
        PROVE  a.key \in DOMAIN db.idempotency /\ a.result = ReplayResult(db, a)
    <3>1. a.key = r.key /\ a.result = ReplayResult(db, r)
      BY <2>1
    <3> QED BY <1>4, <3>1 DEF Replays, Known, ReplayResult
  <2>2. \A a \in acked' : a \in acked \/ a = [key |-> r.key, result |-> ReplayResult(db, r)]
    BY <1>4 DEF Acknowledge
  <2>3. AcknowledgedDurable'
    BY <1>1, <1>4, <2>1, <2>2 DEF AcknowledgedDurable
  <2> QED BY <1>1, <1>4, <2>3
<1> QED BY <1>2, <1>3, <1>4, StepOfDatabase

(***************************************************************************)
(* Theorems about ProjectStore                                             *)
(***************************************************************************)

\* The inductive invariant of the sessions: who holds the lease, what
\* clean_shutdown says about unclean ends, and what the tables hold.
THEOREM StoreInvariant == Spec => [](SessionInv /\ TablesInv)
<1>1. Init => TablesInv
  BY PublishedConsistent DEF Init, TablesInv, AcknowledgedDurable
<1> QED BY <1>1, InitSessionInv, StepSessionInv, StepTablesInv, PTL DEF Spec

\* From before open returns until close, clean_shutdown is 0 and the session
\* holds the lease.
THEOREM EditingIsMarkedAlways == Spec => []EditingIsMarked
<1>1. SessionInv => EditingIsMarked
  BY DEF SessionInv
<1> QED BY <1>1, StoreInvariant, PTL

\* open reports a recovery exactly when an unclean end is unreported, as long
\* as no failed open erased it.
THEOREM RecoveryExactAlways == Spec => []RecoveryExact
<1>1. SessionInv => RecoveryExact
  BY DEF SessionInv
<1> QED BY <1>1, StoreInvariant, PTL

\* What a caller was told stays the stored result of its key.
THEOREM AcknowledgedDurableAlways == Spec => []AcknowledgedDurable
<1>1. TablesInv => AcknowledgedDurable
  BY DEF TablesInv
<1> QED BY <1>1, StoreInvariant, PTL

\* Whatever the sessions do, lose or leave unfinished, the database evolves as
\* the ledger: every step commits one transaction of it or changes nothing.
THEOREM ImplementsLedgerTheorem == Spec => ImplementsLedger
<1>1. Init => LedgerInit
  BY DEF Init, LedgerInit
<1>2. [Next]_vars => [LedgerNext]_db
  <2> SUFFICES ASSUME [Next]_vars, db' # db
               PROVE  LedgerNext
    OBVIOUS
  <2>1. PICK r \in Requests : Commits(db, r) /\ db' = Committed(db, r)
    BY StepOfDatabase
  <2> QED BY <2>1 DEF LedgerNext, LedgerExecute
<1> QED BY <1>1, <1>2, PTL DEF Spec, ImplementsLedger, LedgerSpec

(***************************************************************************)
(* The inductive invariant of the commands.  It is written over one job j, *)
(* the phase p of its process and the database d, so that a commit of      *)
(* another process is a change of d alone.                                 *)
(***************************************************************************)
OpenPlaces ==
  {"verify", "read", "compare", "revision", "commit", "publish", "editing", "close", "exit"}
Places == OpenPlaces \cup {"none", "create", "open", "reopen", "migrate", "end"}
Readers == {"verify", "verify-recovery", "export-demo"}
Jobs ==
  [op : Commands \cup {"edit", "none"}, at : Places, code : 0..4, recovered : BOOLEAN,
   revision : Nat, snapshot : Nat, exposure : Int, committed : BOOLEAN]

\* Which command can be where, and the exit code on the way.
OnItsWay(j) ==
  /\ j.at \in {"create", "close", "reopen", "compare"} => j.op = "demo"
  /\ j.at = "open" => j.op # "none"
  /\ j.at \in {"verify", "read"} => j.op \in Readers \cup {"demo"}
  /\ j.at = "commit" => j.op \in {"demo", "crash-commit", "verify-recovery"}
  /\ j.at = "revision" => j.op \in {"crash-commit", "export-demo"}
  /\ j.at = "publish" => j.op = "export-demo"
  /\ j.at = "migrate" => j.op = "migrate-v1-v2"
  /\ j.at = "editing" => j.op = "edit"
  /\ j.at = "exit" => j.op = "crash-commit"
  /\ j.at \notin {"verify", "end"} => j.code = 0
  /\ j.at = "verify" => IF j.op = "demo" THEN j.code \in {0, 1} ELSE j.code = 0

\* IsCommitted, of any database.
InHistory(d, revision, snapshot) ==
  IF revision = 0 THEN snapshot = 1
  ELSE revision \in DOMAIN d.transactions /\ d.transactions[revision].snapshot = snapshot

Shows(d, j) == InHistory(d, j.revision, j.snapshot) /\ j.snapshot \in DOMAIN d.snapshots
Pixels(d, j) == j.exposure = d.snapshots[j.snapshot].ev
DemoFirst(d) == 1 \in DOMAIN d.transactions /\ d.transactions[1].command = DemoCommand
OthersCommitted(d) == \E t \in DOMAIN d.transactions : d.transactions[t].command # DemoCommand
Crashed(d, j) ==
  /\ j.recovered /\ j.revision \in DOMAIN d.transactions
  /\ d.transactions[j.revision].command = CrashCommand

\* What a command has read is what the database holds, or held.
DemoKnows(d, j) ==
  j.op = "demo" =>
    /\ j.at \in {"create", "open", "commit"} => j.revision = 0
    /\ j.at = "read" => d.revision = 1
    /\ j.at \in {"read", "close", "reopen", "compare", "verify"} =>
         DemoFirst(d) /\ j.revision = 1 /\ Shows(d, j)
    /\ j.at \in {"close", "reopen", "compare"} => Pixels(d, j)
    /\ j.at = "verify" /\ j.code = 1 => OthersCommitted(d)
    /\ j.at = "end" /\ j.code = 0 => DemoFirst(d)

RecoveryKnows(d, j) ==
  j.op = "verify-recovery" =>
    /\ j.at = "commit" => j.recovered /\ j.revision = d.revision /\ d.revision > 0
    /\ j.at = "read" => Crashed(d, j) /\ Shows(d, j)
    /\ j.at = "end" /\ j.code = 0 => Crashed(d, j)
    /\ j.at = "end" /\ j.code = 1 => ~Crashed(d, j)

ExportKnows(d, j) ==
  j.op = "export-demo" =>
    /\ j.at = "revision" => j.snapshot = d.current /\ Pixels(d, j)
    /\ j.at = "publish" => Shows(d, j) /\ Pixels(d, j)
    /\ j.at = "end" /\ j.code = 0 => Pixels(d, j)

JobInv(d, j, p) ==
  /\ OnItsWay(j)
  /\ j.at \in OpenPlaces => p = "open"
  /\ j.revision <= d.revision
  /\ j.op = "verify" /\ j.at = "read" => j.revision = d.revision
  /\ DemoKnows(d, j) /\ RecoveryKnows(d, j) /\ ExportKnows(d, j)
  /\ j.at = "exit" => \E t \in DOMAIN d.transactions : d.transactions[t].command = CrashCommand
  /\ j.at = "end" /\ j.code = 0 /\ j.op \in Commands => Shows(d, j)

\* A transaction is stored with the revision it was made for, and the key of
\* crash-commit belongs to what crash-commit asks for.
RequestsKept(d) ==
  \A t \in DOMAIN d.transactions :
    LET row == d.transactions[t] IN
      /\ row.fingerprint[1] = t - 1
      /\ row.key = "recovery/session:1" <=> row.command = CrashCommand
      /\ row.command = CrashCommand =>
           row.fingerprint = <<t - 1, [kind |-> "adjust.exposure", ev |-> 1]>>

CliInv ==
  /\ RequestsKept(db)
  /\ job \in [Sessions -> Jobs]
  /\ \A s \in Sessions : JobInv(db, job[s], phase[s])

(***************************************************************************)
(* Lemmas about one job and one database                                   *)
(***************************************************************************)

\* What a committed transaction adds to the log, and what it leaves as it was.
LEMMA CommitGrows ==
  ASSUME NEW d, NEW r \in Requests, Consistent(d), Commits(d, r),
         NEW e, e = Committed(d, r)
  PROVE  /\ d.revision \in Nat /\ e.revision = d.revision + 1
         /\ r.expected = d.revision
         /\ DOMAIN d.transactions = 1..d.revision
         /\ DOMAIN e.transactions = 1..(d.revision + 1)
         /\ \A t \in DOMAIN d.transactions : e.transactions[t] = d.transactions[t]
         /\ e.transactions[d.revision + 1] = TransactionRow(d, r)
         /\ e.current = NextCurrent(d, r) /\ e.current \in DOMAIN e.snapshots
         /\ \A n \in DOMAIN d.snapshots :
              n \in DOMAIN e.snapshots /\ e.snapshots[n] = d.snapshots[n]
<1>1. r.expected = d.revision
  BY DEF Commits, TransactionRefusal
<1>2. /\ e.revision = d.revision + 1
      /\ DOMAIN e.transactions = 1..(d.revision + 1)
      /\ e.transactions[d.revision + 1] = TransactionRow(d, r)
      /\ \A t \in 1..d.revision : e.transactions[t] = d.transactions[t]
      /\ NextCurrent(d, r) = e.current
  BY CommitRows
<1>3. /\ e.snapshots \in Seq(SnapshotRows)
      /\ \A n \in 1..Len(d.snapshots) : e.snapshots[n] = d.snapshots[n]
      /\ Len(d.snapshots) \in Nat /\ Len(e.snapshots) >= Len(d.snapshots)
      /\ e.current \in 1..Len(e.snapshots)
  BY CommitRows
<1>4. d.revision \in Nat /\ DOMAIN d.transactions = 1..d.revision
      /\ d.snapshots \in Seq(SnapshotRows)
  BY DEF Consistent, Typed, Log
<1>5. DOMAIN d.snapshots = 1..Len(d.snapshots) /\ DOMAIN e.snapshots = 1..Len(e.snapshots)
  BY <1>3, <1>4
<1> QED BY <1>1, <1>2, <1>3, <1>4, <1>5

\* What a command knows stays true when another process commits.
LEMMA JobKept ==
  ASSUME NEW d, NEW r \in Requests, Consistent(d), Commits(d, r),
         NEW j \in Jobs, NEW p, p # "open", JobInv(d, j, p)
  PROVE  JobInv(Committed(d, r), j, p)
<1> DEFINE e == Committed(d, r)
<1>1. /\ d.revision \in Nat /\ e.revision = d.revision + 1
      /\ DOMAIN d.transactions = 1..d.revision
      /\ DOMAIN e.transactions = 1..(d.revision + 1)
      /\ \A t \in DOMAIN d.transactions : e.transactions[t] = d.transactions[t]
      /\ \A n \in DOMAIN d.snapshots :
           n \in DOMAIN e.snapshots /\ e.snapshots[n] = d.snapshots[n]
  BY CommitGrows
<1> HIDE DEF e
<1>2. j.revision \in Nat /\ j.snapshot \in Nat /\ j.revision <= d.revision
  BY DEF JobInv, Jobs
<1>3. j.at \notin OpenPlaces
  BY DEF JobInv
<1>4. InHistory(d, j.revision, j.snapshot) => InHistory(e, j.revision, j.snapshot)
  BY <1>1, <1>2 DEF InHistory
<1>5. Shows(d, j) => Shows(e, j) /\ (Pixels(d, j) => Pixels(e, j))
  BY <1>1, <1>4 DEF Shows, Pixels
<1>6. DemoFirst(d) => DemoFirst(e)
  BY <1>1 DEF DemoFirst
<1>7. Crashed(d, j) <=> Crashed(e, j)
  BY <1>1, <1>2 DEF Crashed
<1>8. DemoKnows(e, j)
  BY <1>3, <1>5, <1>6 DEF DemoKnows, JobInv, OpenPlaces
<1>9. RecoveryKnows(e, j)
  BY <1>3, <1>7 DEF RecoveryKnows, JobInv, OpenPlaces
<1>10. ExportKnows(e, j)
  BY <1>3, <1>5 DEF ExportKnows, JobInv, OpenPlaces, Commands
<1>11. j.revision <= e.revision
  BY <1>1, <1>2
<1> QED BY <1>3, <1>5, <1>8, <1>9, <1>10, <1>11 DEF JobInv, OpenPlaces, e

\* A command that gives up claims nothing, except verify-recovery with 1.
LEMMA LeaveOk ==
  ASSUME NEW d, NEW j \in Jobs, NEW p, NEW q, JobInv(d, j, p),
         NEW code \in 1..4, code = 1 => j.op # "verify-recovery",
         NEW k, k = [j EXCEPT !.at = "end", !.code = code]
  PROVE  k \in Jobs /\ JobInv(d, k, q)
<1>1. k \in Jobs
  <2>1. code \in 0..4 /\ "end" \in Places
    BY DEF Places
  <2> QED BY <2>1 DEF Jobs
<1>2. /\ k.at = "end" /\ k.code = code /\ k.op = j.op /\ k.revision = j.revision
  BY DEF Jobs
<1> QED BY <1>1, <1>2 DEF JobInv, OnItsWay, DemoKnows, RecoveryKnows, ExportKnows, OpenPlaces

(***************************************************************************)
(* The commands are sessions of ProjectStore                               *)
(***************************************************************************)

\* What a command asks of execute is one of the requests of the model.
LEMMA AskedIsRequest ==
  ASSUME CliInv, Consistent(db), NEW s \in Sessions, At(s, "commit")
  PROVE  RequestOf(s) \in Requests
<1>1. /\ job[s].op \in {"demo", "crash-commit", "verify-recovery"}
      /\ job[s].revision \in Nat /\ job[s].revision <= db.revision
  BY DEF CliInv, JobInv, OnItsWay, At, Jobs
<1>2. db.revision \in 0..MaxRevision
  BY DEF Consistent, Typed
<1>3. 0 \in -1..MaxRevision /\ job[s].revision \in -1..MaxRevision
      /\ job[s].revision - 1 \in -1..MaxRevision
  BY <1>1, <1>2, LimitsAssumption
<1>4. ASSUME NEW c \in {DemoCommand, CrashCommand, RetryCommand},
             NEW k \in {"demo/session:1", "recovery/session:1"},
             NEW n \in -1..MaxRevision, NEW ev \in {1, 2}
      PROVE  Exposure(c, k, n, ev) \in Requests
  <2>1. [kind |-> "adjust.exposure", ev |-> ev] \in Changes
    BY CommandAssumption DEF Changes
  <2> QED BY <2>1, CommandAssumption DEF Exposure, Requests
<1> QED BY <1>1, <1>3, <1>4 DEF RequestOf

\* Every step of a command is a step of its session, or of no session.
LEMMA CommandIsSession ==
  ASSUME CliInv, Consistent(db), [CliNext]_allvars
  PROVE  [Next]_vars
<1>1. ASSUME NEW s \in Sessions, Open(s)
      PROVE  Step(s)
  BY <1>1 DEF Open, Step
<1>2. ASSUME NEW s \in Sessions,
             Commit(s) \/ CommitUnknown(s) \/ CommitFault(s) \/ CommitReplay(s)
      PROVE  Step(s)
  <2>1. RequestOf(s) \in Requests
    BY <1>2, AskedIsRequest DEF Commit, CommitUnknown, CommitFault, CommitReplay, Submits
  <2> QED BY <1>2, <2>1 DEF Commit, CommitUnknown, CommitFault, CommitReplay, Step
<1>3. ASSUME NEW s \in Sessions, Edit(s)
      PROVE  [Next]_vars
  BY <1>3, EditAssumption DEF Edit, Step, Next
<1>4. ASSUME NEW s \in Sessions,
             Migrate(s) \/ ExitAtFault(s) \/ CloseProject(s) \/ ReleaseProject(s)
      PROVE  Step(s)
  BY <1>4 DEF Migrate, ExitAtFault, CloseProject, ReleaseProject, Step
<1>5. ASSUME NEW s \in Sessions, Kill(s)
      PROVE  [Next]_vars
  BY <1>5 DEF Kill, Step, Next
<1>6. ASSUME NEW s \in Sessions,
             \/ \E op \in Commands \cup {"edit"} : Begin(s, op)
             \/ Create(s) \/ Refused(s) \/ IOFails(s) \/ Verify(s) \/ Render(s) \/ Compare(s)
             \/ ReadRevision(s) \/ Publish(s) \/ CopySource(s) \/ CommitRefused(s) \/ Exit(s)
      PROVE  UNCHANGED vars
  BY <1>6 DEF Begin, Create, Refused, IOFails, Reads, Verify, Render, Compare, ReadRevision,
     Publish, CopySource, CommitRefused, Exit
<1>7. CASE UNCHANGED allvars
  BY <1>7 DEF allvars
<1> QED
  BY <1>1, <1>2, <1>3, <1>4, <1>5, <1>6, <1>7 DEF CliNext, Progress, Next

(***************************************************************************)
(* What each step of a command makes of its job                            *)
(***************************************************************************)

\* The current revision and the current snapshot belong together.
LEMMA CurrentIsCommitted ==
  ASSUME NEW d, Consistent(d)
  PROVE  /\ InHistory(d, d.revision, d.current)
         /\ d.current \in DOMAIN d.snapshots /\ d.current \in Nat
         /\ d.revision \in Nat /\ DOMAIN d.transactions = 1..d.revision
         /\ \A n \in DOMAIN d.snapshots : d.snapshots[n].ev \in Int
<1>1. d.revision \in Nat /\ d.current \in Nat /\ DOMAIN d.transactions = 1..d.revision
      /\ d.snapshots \in Seq(SnapshotRows) /\ Len(d.snapshots) \in Nat \ {0}
  BY DEF Consistent, Typed, Log, Ancestry
<1>2. MaximumHistoryPosition(d) \in 0..d.revision /\ DOMAIN d.history = 0..MaximumHistoryPosition(d)
      /\ d.history[0] = 1 /\ d.position \in DOMAIN d.history /\ d.history[d.position] = d.current
      /\ \A p \in DOMAIN d.history \ {0} : d.history[p] \in 2..Len(d.snapshots)
  BY DEF Consistent, Path
<1>3. d.revision = 0 => d.current = 1
  BY <1>1, <1>2
<1>4. d.revision > 0 => d.transactions[d.revision].snapshot = d.current
  BY DEF Consistent, Log
<1>5. d.current \in 1..Len(d.snapshots)
  BY <1>1, <1>2
<1>6. ASSUME NEW n \in DOMAIN d.snapshots
      PROVE  d.snapshots[n].ev \in Int
  <2>1. d.snapshots[n] \in SnapshotRows
    BY <1>1
  <2> QED BY <2>1 DEF SnapshotRows
<1> QED BY <1>1, <1>3, <1>4, <1>5, <1>6 DEF InHistory

\* Process s moves its own job to one that keeps the invariant.
Moves(s) ==
  /\ job' = [job EXCEPT ![s] = job'[s]]
  /\ job'[s] \in Jobs
  /\ JobInv(db', job'[s], phase'[s])

\* A job outside the open places does not depend on the phase.
LEMMA PhaseFree ==
  ASSUME NEW d, NEW j, NEW p, NEW q, JobInv(d, j, p), j.at \notin OpenPlaces \/ q = "open"
  PROVE  JobInv(d, j, q)
BY DEF JobInv

\* Leaving with an error keeps the invariant.
LEMMA LeaveMoves ==
  ASSUME CliInv, NEW s \in Sessions, NEW code \in 1..4, Leave(s, code), UNCHANGED db,
         code = 1 => job[s].op # "verify-recovery"
  PROVE  Moves(s)
<1>1. job \in [Sessions -> Jobs] /\ JobInv(db, job[s], phase[s])
  BY DEF CliInv
<1>2. job' = [job EXCEPT ![s] = [job[s] EXCEPT !.at = "end", !.code = code]]
  BY <1>1 DEF Leave, Jobs
<1>3. job'[s] = [job[s] EXCEPT !.at = "end", !.code = code] /\ job[s] \in Jobs
  BY <1>1, <1>2
<1>4. job'[s] \in Jobs /\ JobInv(db, job'[s], phase'[s])
  BY <1>1, <1>3, LeaveOk
<1> QED BY <1>2, <1>3, <1>4 DEF Moves

\* So does ending: there is no job any more.
LEMMA NoJobMoves ==
  ASSUME CliInv, Consistent(db), NEW s \in Sessions, job' = [job EXCEPT ![s] = NoJob],
         UNCHANGED db
  PROVE  Moves(s)
<1>1. job \in [Sessions -> Jobs]
  BY DEF CliInv
<1>2. NoJob \in Jobs
  BY DEF NoJob, Job, Jobs, Places
<1>3. db.revision \in Nat
  BY CurrentIsCommitted
<1>4. JobInv(db, NoJob, phase'[s])
  BY <1>3 DEF NoJob, Job, JobInv, OnItsWay, DemoKnows, RecoveryKnows, ExportKnows, OpenPlaces
<1> QED BY <1>1, <1>2, <1>4 DEF Moves

\* The steps that lead a command to its project.
LEMMA OpeningMoves ==
  ASSUME CliInv, SessionInv, Consistent(db), NEW s \in Sessions,
         \/ \E op \in Commands \cup {"edit"} : Begin(s, op)
         \/ Create(s) \/ Refused(s) \/ Open(s) \/ Migrate(s) \/ CopySource(s)
  PROVE  Moves(s)
<1> DEFINE j == job[s]
<1>1. job \in [Sessions -> Jobs] /\ j \in Jobs /\ JobInv(db, j, phase[s])
      /\ phase \in [Sessions -> Phases] /\ db.revision \in Nat
  BY CurrentIsCommitted DEF CliInv, SessionInv, StoreTyped
<1>2. ASSUME NEW place, job' = [job EXCEPT ![s].at = place]
      PROVE  job' = [job EXCEPT ![s] = job'[s]] /\ job'[s] = [j EXCEPT !.at = place]
  BY <1>1, <1>2 DEF Jobs
<1>3. ASSUME UNCHANGED <<db, job>>, j.at \notin OpenPlaces
      PROVE  Moves(s)
  <2>1. JobInv(db, j, phase'[s])
    BY <1>1, <1>3, PhaseFree
  <2> QED BY <1>1, <1>3, <2>1 DEF Moves
<1>4. ASSUME NEW op \in Commands \cup {"edit"}, Begin(s, op)
      PROVE  Moves(s)
  <2>1. job'[s] = Job(op, IF op = "demo" THEN "create" ELSE "open") /\ UNCHANGED db
        /\ job' = [job EXCEPT ![s] = job'[s]]
    BY <1>1, <1>4 DEF Begin, vars, durable
  <2>2. job'[s] \in Jobs
    BY <2>1 DEF Job, Jobs, Places
  <2>3. JobInv(db, job'[s], phase'[s])
    BY <1>1, <2>1 DEF Job, JobInv, OnItsWay, DemoKnows, RecoveryKnows, ExportKnows, OpenPlaces,
       Commands
  <2> QED BY <2>1, <2>2, <2>3 DEF Moves
<1>5. ASSUME Create(s)
      PROVE  Moves(s)
  <2>1. UNCHANGED db /\ j.at = "create"
    BY <1>5 DEF Create, At, vars, durable
  <2>2. CASE Leave(s, 2)
    BY <2>1, <2>2, LeaveMoves
  <2>3. CASE Continue(s, "open")
    <3>1. job' = [job EXCEPT ![s] = job'[s]] /\ job'[s] = [j EXCEPT !.at = "open"]
      BY <1>2, <2>3 DEF Continue
    <3>2. job'[s] \in Jobs
      BY <1>1, <3>1 DEF Jobs, Places
    <3>3. JobInv(db, job'[s], phase'[s])
      BY <1>1, <2>1, <3>1 DEF JobInv, Jobs, OnItsWay, DemoKnows, RecoveryKnows, ExportKnows,
         OpenPlaces
    <3> QED BY <2>1, <3>1, <3>2, <3>3 DEF Moves
  <2> QED BY <1>5, <2>2, <2>3 DEF Create
<1>6. ASSUME Refused(s)
      PROVE  Moves(s)
  BY <1>6, LeaveMoves DEF Refused, vars, durable
<1>7. ASSUME Open(s)
      PROVE  Moves(s)
  <2>1. UNCHANGED db /\ j.at \in {"open", "reopen"} /\ j.op # "migrate-v1-v2"
    BY <1>7 DEF Open, BeginOpen, TakeLease, BuildStore, VerifyOnOpen, MarkUnclean, FinishOpen,
       FailBeforeStore, FailWithStore, durable
  <2>2. CASE UNCHANGED job
    BY <1>3, <2>1, <2>2 DEF OpenPlaces
  <2>3. CASE Leave(s, 2)
    BY <2>1, <2>3, LeaveMoves
  <2>4. CASE FinishOpen(s) /\ Continue(s, Body(s))
    <3>1. job' = [job EXCEPT ![s] = job'[s]] /\ job'[s] = [j EXCEPT !.at = Body(s)]
      BY <1>2, <2>4 DEF Continue
    <3>2. phase'[s] = "open"
      BY <1>1, <2>4 DEF FinishOpen, Goto
    <3>3. \/ j.at = "reopen" /\ j.op = "demo" /\ Body(s) = "compare"
          \/ j.at = "open" /\ j.op = "demo" /\ Body(s) = "commit"
          \/ j.at = "open" /\ j.op = "crash-commit" /\ Body(s) = "revision"
          \/ j.at = "open" /\ j.op = "edit" /\ Body(s) = "editing"
          \/ j.at = "open" /\ j.op \in Readers /\ Body(s) = "verify"
      <4>1. j.at = "reopen" => j.op = "demo"
        BY <1>1 DEF JobInv, OnItsWay
      <4>2. j.op \in {"demo", "verify", "crash-commit", "verify-recovery", "export-demo", "edit"}
            \/ j.op = "none"
        BY <1>1, <2>1 DEF Jobs, Commands
      <4>3. j.at = "open" => j.op # "none"
        BY <1>1 DEF JobInv, OnItsWay
      <4>4. CASE j.at = "reopen"
        BY <4>1, <4>4 DEF Body, At
      <4>5. CASE j.at = "open"
        BY <4>2, <4>3, <4>5 DEF Body, At, Readers
      <4> QED BY <2>1, <4>4, <4>5
    <3>4. job'[s] \in Jobs
      BY <1>1, <3>1, <3>3 DEF Jobs, Places, OpenPlaces
    <3>5. JobInv(db, job'[s], phase'[s])
      BY <1>1, <2>1, <3>1, <3>2, <3>3 DEF JobInv, Jobs, OnItsWay, DemoKnows, RecoveryKnows,
         ExportKnows, Shows, Pixels, Readers
    <3> QED BY <2>1, <3>1, <3>4, <3>5 DEF Moves
  <2> QED BY <1>7, <2>2, <2>3, <2>4 DEF Open
<1>8. ASSUME Migrate(s)
      PROVE  Moves(s)
  <2>1. UNCHANGED db /\ j.at = "open" /\ j.op = "migrate-v1-v2"
    BY <1>8 DEF Migrate, At, BeginRead, TakeLease, durable
  <2>2. job' = [job EXCEPT ![s] = job'[s]] /\ job'[s] = [j EXCEPT !.at = "migrate"]
    BY <1>2, <1>8 DEF Migrate, Continue
  <2>3. job'[s] \in Jobs
    BY <1>1, <2>2 DEF Jobs, Places
  <2>4. JobInv(db, job'[s], phase'[s])
    BY <1>1, <2>1, <2>2 DEF JobInv, Jobs, OnItsWay, DemoKnows, RecoveryKnows, ExportKnows,
       OpenPlaces
  <2> QED BY <2>1, <2>2, <2>3, <2>4 DEF Moves
<1>9. ASSUME CopySource(s)
      PROVE  Moves(s)
  <2>1. UNCHANGED db /\ j.at = "migrate" /\ j.op = "migrate-v1-v2" /\ j.code = 0
    BY <1>1, <1>9 DEF CopySource, At, vars, durable, JobInv, OnItsWay
  <2>2. CASE Leave(s, 2)
    BY <2>1, <2>2, LeaveMoves
  <2>3. CASE job' = [job EXCEPT ![s].at = "end", ![s].revision = db.revision,
                                ![s].snapshot = db.current]
    <3>1. job' = [job EXCEPT ![s] = job'[s]]
          /\ job'[s] = [j EXCEPT !.at = "end", !.revision = db.revision, !.snapshot = db.current]
      BY <1>1, <2>3 DEF Jobs
    <3>2. job'[s] \in Jobs
      BY <1>1, <3>1, CurrentIsCommitted DEF Jobs, Places
    <3>3. JobInv(db, job'[s], phase'[s])
      BY <1>1, <2>1, <3>1, CurrentIsCommitted DEF JobInv, Jobs, OnItsWay, DemoKnows,
         RecoveryKnows, ExportKnows, OpenPlaces, Shows
    <3> QED BY <2>1, <3>1, <3>2, <3>3 DEF Moves
  <2> QED BY <1>9, <2>2, <2>3 DEF CopySource
<1> QED BY <1>4, <1>5, <1>6, <1>7, <1>8, <1>9

\* The steps of a command that read its open project.
LEMMA ReadingMoves ==
  ASSUME CliInv, SessionInv, Consistent(db), NEW s \in Sessions,
         IOFails(s) \/ Verify(s) \/ Render(s) \/ Compare(s) \/ ReadRevision(s) \/ Publish(s)
  PROVE  Moves(s)
<1> DEFINE j == job[s]
<1>1. job \in [Sessions -> Jobs] /\ j \in Jobs /\ JobInv(db, j, phase[s])
      /\ recovered \in [Sessions -> BOOLEAN]
  BY DEF CliInv, SessionInv, StoreTyped
<1>2. /\ InHistory(db, db.revision, db.current)
      /\ db.current \in DOMAIN db.snapshots /\ db.current \in Nat
      /\ db.revision \in Nat /\ DOMAIN db.transactions = 1..db.revision
      /\ db.snapshots[db.current].ev \in Int
  BY CurrentIsCommitted
<1>3. /\ j.revision \in Nat /\ j.revision <= db.revision /\ j.snapshot \in Nat
      /\ j.exposure \in Int /\ j.code \in 0..4
  BY <1>1 DEF JobInv, Jobs
<1>4. phase[s] = "open" /\ UNCHANGED <<db, phase>>
  BY DEF IOFails, Verify, Render, Compare, ReadRevision, Publish, Reads, vars, durable
<1>5. ASSUME IOFails(s)
      PROVE  Moves(s)
  BY <1>4, <1>5, LeaveMoves DEF IOFails, At
<1>6. ASSUME Verify(s)
      PROVE  Moves(s)
  <2> DEFINE recovery == j.op = "verify-recovery"
             code == IF \/ j.op = "export-demo" /\ db.format # V2
                        \/ ~VerifyIntegrity(db) THEN 2
                     ELSE IF recovery /\ (~recovered[s] \/ db.revision < 1) THEN 1
                     ELSE j.code
             place == IF code # 0 \/ j.op = "demo" THEN "end"
                      ELSE IF recovery THEN "commit" ELSE "read"
             next == [j EXCEPT !.at = place, !.code = code,
                               !.recovered = recovery /\ recovered[s],
                               !.revision = IF j.op = "demo" THEN @ ELSE db.revision]
  <2>1. job' = [job EXCEPT ![s].at = place, ![s].code = code,
                           ![s].recovered = recovery /\ recovered[s],
                           ![s].revision = IF j.op = "demo" THEN @ ELSE db.revision]
    BY <1>6 DEF Verify
  <2>2. /\ j.at = "verify" /\ j.op \in Readers \cup {"demo"}
        /\ IF j.op = "demo" THEN j.code \in {0, 1} ELSE j.code = 0
    BY <1>1, <1>6 DEF Verify, Reads, At, JobInv, OnItsWay
  <2>3. /\ code \in 0..4 /\ place \in {"end", "commit", "read"}
        /\ (recovery /\ recovered[s]) \in BOOLEAN
        /\ (IF j.op = "demo" THEN j.revision ELSE db.revision) \in 0..db.revision
    BY <1>2, <1>3, <2>2
  <2>4. job' = [job EXCEPT ![s] = next]
    BY <1>1, <2>1 DEF Jobs
  <2>5. next.at = place /\ next.code = code /\ next.op = j.op /\ next.snapshot = j.snapshot
        /\ next.revision = (IF j.op = "demo" THEN j.revision ELSE db.revision)
    BY <1>1 DEF Jobs
  <2>6. next.recovered = (recovery /\ recovered[s])
    BY <1>1 DEF Jobs
  <2>7. next \in Jobs
    <3> HIDE DEF code, place
    <3>1. place \in Places
      BY <2>3 DEF Places, OpenPlaces
    <3>2. (IF j.op = "demo" THEN j.revision ELSE db.revision) \in Nat
      BY <1>2, <1>3
    <3> QED BY <1>1, <2>3, <3>1, <3>2 DEF Jobs
  <2> HIDE DEF next
  <2>8. ASSUME j.op = "demo"
        PROVE  JobInv(db, next, "open")
    BY <1>1, <1>2, <1>3, <1>4, <2>2, <2>5, <2>8 DEF JobInv, OnItsWay, DemoKnows, RecoveryKnows,
       ExportKnows, OpenPlaces, Shows, DemoFirst
  <2>9. ASSUME j.op = "verify-recovery"
        PROVE  JobInv(db, next, "open")
    <3>1. next.recovered => recovered[s]
      BY <2>6
    <3>2. recovered[s] => next.recovered
      BY <2>6, <2>9
    <3>3. CASE recovered[s] /\ db.revision > 0
      BY <1>2, <1>4, <2>2, <2>5, <2>9, <3>2, <3>3 DEF JobInv, OnItsWay, DemoKnows,
         RecoveryKnows, ExportKnows, OpenPlaces
    <3>4. CASE ~(recovered[s] /\ db.revision > 0)
      <4>1. ~Crashed(db, next)
        BY <1>2, <2>5, <2>9, <3>1, <3>4 DEF Crashed
      <4>2. place = "end" /\ code \in {1, 2}
        BY <1>2, <2>9, <3>4
      <4> QED BY <1>2, <2>5, <2>9, <4>1, <4>2 DEF JobInv, OnItsWay, DemoKnows,
              RecoveryKnows, ExportKnows, OpenPlaces
    <3> QED BY <3>3, <3>4
  <2>10. ASSUME j.op \in {"verify", "export-demo"}
         PROVE  JobInv(db, next, "open")
    BY <1>2, <1>4, <2>2, <2>5, <2>10 DEF JobInv, OnItsWay, DemoKnows,
       RecoveryKnows, ExportKnows, OpenPlaces
  <2> QED BY <1>1, <1>4, <2>2, <2>4, <2>7, <2>8, <2>9, <2>10 DEF Moves, Readers
<1>7. ASSUME Publish(s)
      PROVE  Moves(s)
  <2>1. PICK code \in {0, 3, 4} : Leave(s, code)
    BY <1>7 DEF Publish
  <2>2. CASE code \in {3, 4}
    BY <1>4, <2>1, <2>2, LeaveMoves
  <2>3. CASE code = 0
    <3>1. job' = [job EXCEPT ![s] = job'[s]] /\ job'[s] = [j EXCEPT !.at = "end", !.code = 0]
      BY <1>1, <2>1, <2>3 DEF Leave, Jobs
    <3>2. job'[s] \in Jobs
      <4>1. "end" \in Places /\ 0 \in 0..4
        BY DEF Places
      <4> QED BY <1>1, <3>1, <4>1 DEF Jobs
    <3>3. j.at = "publish" /\ j.op = "export-demo"
      BY <1>1, <1>7 DEF Publish, Reads, At, JobInv, OnItsWay
    <3>4. JobInv(db, job'[s], phase'[s])
      BY <1>1, <3>1, <3>3 DEF JobInv, Jobs, OnItsWay, DemoKnows, RecoveryKnows, ExportKnows,
         OpenPlaces, Shows, Pixels
    <3> QED BY <1>4, <3>1, <3>2, <3>4 DEF Moves
  <2> QED BY <2>2, <2>3
<1>8. ASSUME ReadRevision(s)
      PROVE  Moves(s)
  <2> DEFINE place == IF j.op = "export-demo" THEN "publish" ELSE "commit"
  <2>1. job' = [job EXCEPT ![s] = job'[s]]
        /\ job'[s] = [j EXCEPT !.at = place, !.revision = db.revision]
    BY <1>1, <1>8 DEF ReadRevision, Jobs
  <2>2. job'[s] \in Jobs
    BY <1>1, <1>2, <2>1 DEF Jobs, Places, OpenPlaces
  <2>3. j.at = "revision" /\ j.op \in {"crash-commit", "export-demo"} /\ j.code = 0
    BY <1>1, <1>8 DEF ReadRevision, Reads, At, JobInv, OnItsWay
  <2>4. JobInv(db, job'[s], phase'[s])
    BY <1>1, <1>2, <1>4, <2>1, <2>3 DEF JobInv, Jobs, OnItsWay, DemoKnows, RecoveryKnows,
       ExportKnows, OpenPlaces, Shows, Pixels
  <2> QED BY <1>4, <2>1, <2>2, <2>4 DEF Moves
<1>9. ASSUME Compare(s)
      PROVE  Moves(s)
  <2> DEFINE code == IF db.snapshots[db.current].ev = j.exposure THEN 0 ELSE 1
  <2>1. job' = [job EXCEPT ![s] = job'[s]]
        /\ job'[s] = [j EXCEPT !.at = "verify", !.code = code]
    BY <1>1, <1>9 DEF Compare, Jobs
  <2>2. job'[s] \in Jobs
    <3>1. "verify" \in Places /\ code \in 0..4
      BY DEF Places, OpenPlaces
    <3> QED BY <1>1, <2>1, <3>1 DEF Jobs
  <2>3. /\ j.at = "compare" /\ j.op = "demo" /\ j.revision = 1
        /\ DemoFirst(db) /\ Shows(db, j) /\ Pixels(db, j)
    BY <1>1, <1>9 DEF Compare, Reads, At, JobInv, OnItsWay, DemoKnows
  <2>4. ASSUME code = 1
        PROVE  OthersCommitted(db)
    <3>1. db.current # j.snapshot
      BY <2>3, <2>4 DEF Pixels
    <3>2. db.transactions[1].snapshot = j.snapshot /\ 1 \in DOMAIN db.transactions
          /\ db.transactions[1].command = DemoCommand
      BY <2>3 DEF Shows, InHistory, DemoFirst
    <3>3. db.revision # 1
      BY <1>2, <3>1, <3>2 DEF InHistory
    <3>4. 2 \in DOMAIN db.transactions
      BY <1>2, <3>2, <3>3
    <3>5. db.transactions[2].command # db.transactions[1].command
      BY <3>2, <3>4 DEF Consistent, UniqueRequests
    <3> QED BY <3>2, <3>4, <3>5 DEF OthersCommitted
  <2>5. JobInv(db, job'[s], phase'[s])
    BY <1>1, <1>4, <2>1, <2>3, <2>4 DEF JobInv, Jobs, OnItsWay, DemoKnows, RecoveryKnows,
       ExportKnows, OpenPlaces, Shows
  <2> QED BY <1>4, <2>1, <2>2, <2>5 DEF Moves
<1>10. ASSUME Render(s)
       PROVE  Moves(s)
  <2> DEFINE shown == IF j.op \in {"verify", "export-demo"} THEN db.current ELSE j.snapshot
             next == [j EXCEPT !.at = Rendered(s), !.snapshot = shown,
                               !.exposure = db.snapshots[db.current].ev]
  <2>1. j.at = "read" /\ j.op \in Readers \cup {"demo"} /\ j.code = 0
    BY <1>1, <1>10 DEF Render, Reads, At, JobInv, OnItsWay
  <2>2. job' = [job EXCEPT ![s] = next]
    BY <1>1, <1>10 DEF Render, Jobs
  <2>3. /\ next.at = Rendered(s) /\ next.code = 0 /\ next.op = j.op /\ next.snapshot = shown
        /\ next.exposure = db.snapshots[db.current].ev /\ next.revision = j.revision
    BY <1>1, <2>1 DEF Jobs
  <2>4. next.recovered = j.recovered
    BY <1>1 DEF Jobs
  <2>5. Rendered(s) = CASE j.op = "demo" -> "close" [] j.op = "export-demo" -> "revision"
                        [] OTHER -> "end"
    BY DEF Rendered
  <2>6. next \in Jobs
    <3>1. Rendered(s) \in Places /\ shown \in Nat
      BY <1>2, <1>3, <2>5 DEF Places, OpenPlaces
    <3> QED BY <1>1, <1>2, <3>1 DEF Jobs
  <2> HIDE DEF next
  <2>7. ASSUME j.op = "demo"
        PROVE  JobInv(db, next, "open")
    <3>1. /\ j.revision = 1 /\ db.revision = 1 /\ DemoFirst(db) /\ Shows(db, j)
      BY <1>1, <2>1, <2>7 DEF JobInv, DemoKnows
    <3>2. db.current = j.snapshot
      BY <1>2, <3>1 DEF Shows, InHistory
    <3> QED BY <1>4, <2>1, <2>3, <2>5, <2>7, <3>1, <3>2 DEF JobInv, OnItsWay, DemoKnows,
            RecoveryKnows, ExportKnows, OpenPlaces, Shows, Pixels
  <2>8. ASSUME j.op = "verify-recovery"
        PROVE  JobInv(db, next, "open")
    BY <1>1, <1>3, <1>4, <2>1, <2>3, <2>4, <2>5, <2>8 DEF JobInv, OnItsWay, DemoKnows,
       RecoveryKnows, ExportKnows, OpenPlaces, Crashed, Shows
  <2>9. ASSUME j.op = "export-demo"
        PROVE  JobInv(db, next, "open")
    BY <1>1, <1>3, <1>4, <2>1, <2>3, <2>5, <2>9 DEF JobInv, OnItsWay, DemoKnows,
       RecoveryKnows, ExportKnows, OpenPlaces, Pixels
  <2>10. ASSUME j.op = "verify"
         PROVE  JobInv(db, next, "open")
    BY <1>1, <1>2, <1>3, <1>4, <2>1, <2>3, <2>5, <2>10 DEF JobInv, OnItsWay, DemoKnows,
       RecoveryKnows, ExportKnows, OpenPlaces, Shows
  <2> QED BY <1>1, <1>4, <2>1, <2>2, <2>6, <2>7, <2>8, <2>9, <2>10 DEF Moves, Readers
<1> QED BY <1>5, <1>6, <1>7, <1>8, <1>9, <1>10

\* The steps of a command that commit, or try to.
LEMMA CommittingMoves ==
  ASSUME CliInv, SessionInv, Consistent(db), NEW s \in Sessions,
         \/ Commit(s) \/ CommitUnknown(s) \/ CommitFault(s) \/ CommitReplay(s)
         \/ CommitRefused(s) \/ Edit(s)
  PROVE  Moves(s)
<1> DEFINE j == job[s]
           r == RequestOf(s)
<1>1. job \in [Sessions -> Jobs] /\ j \in Jobs /\ JobInv(db, j, phase[s]) /\ RequestsKept(db)
  BY DEF CliInv
<1>2. /\ j.revision \in Nat /\ j.revision <= db.revision /\ j.snapshot \in Nat
      /\ db.revision \in Nat /\ DOMAIN db.transactions = 1..db.revision
  BY <1>1, CurrentIsCommitted DEF JobInv, Jobs
<1>3. ASSUME NEW q \in Requests, Commits(db, q), db' = Committed(db, q)
      PROVE  /\ db'.revision = db.revision + 1 /\ q.expected = db.revision
             /\ DOMAIN db'.transactions = 1..(db.revision + 1)
             /\ db'.transactions[db.revision + 1] = TransactionRow(db, q)
             /\ db'.current = NextCurrent(db, q) /\ db'.current \in DOMAIN db'.snapshots
             /\ db'.current \in Nat
  <2>1. Consistent(db')
    BY <1>3, CommitConsistent
  <2> QED BY <1>3, <2>1, CommitGrows, CurrentIsCommitted
<1>4. ASSUME At(s, "commit")
      PROVE  /\ r \in Requests /\ j.at = "commit" /\ j.code = 0
             /\ j.op \in {"demo", "crash-commit", "verify-recovery"}
             /\ j.op = "demo" =>
                  j.revision = 0 /\ r = Exposure(DemoCommand, "demo/session:1", 0, 2)
             /\ j.op = "crash-commit" =>
                  r = Exposure(CrashCommand, "recovery/session:1", j.revision, 1)
             /\ j.op = "verify-recovery" =>
                  /\ j.recovered /\ j.revision = db.revision /\ db.revision > 0
                  /\ r = Exposure(RetryCommand, "recovery/session:1", db.revision - 1, 1)
  <2>1. j.at = "commit" /\ j.code = 0 /\ j.op \in {"demo", "crash-commit", "verify-recovery"}
    BY <1>1, <1>4 DEF At, JobInv, OnItsWay
  <2>2. /\ j.op = "demo" => j.revision = 0
        /\ j.op = "verify-recovery" => j.recovered /\ j.revision = db.revision /\ db.revision > 0
    BY <1>1, <2>1 DEF JobInv, DemoKnows, RecoveryKnows
  <2>3. r \in Requests
    BY <1>4, AskedIsRequest
  <2> QED BY <2>1, <2>2, <2>3 DEF RequestOf
<1>5. ASSUME At(s, "commit"), Commits(db, r), db' = Committed(db, r)
      PROVE  j.op # "verify-recovery"
  BY <1>2, <1>3, <1>4, <1>5 DEF Exposure
<1>6. ASSUME Commit(s)
      PROVE  Moves(s)
  <2>1. At(s, "commit") /\ phase[s] = "open" /\ UNCHANGED phase
        /\ Commits(db, r) /\ db' = Committed(db, r) /\ j.op # "crash-commit"
    BY <1>6 DEF Commit, Submits, Execute
  <2>2. j.op = "demo" /\ j.code = 0 /\ j.at = "commit" /\ db.revision = 0
        /\ r = Exposure(DemoCommand, "demo/session:1", 0, 2)
    <3>1. j.op = "demo" /\ r \in Requests
      BY <1>4, <1>5, <2>1
    <3>2. r.expected = db.revision
      BY <1>3, <2>1, <3>1
    <3> QED BY <1>4, <2>1, <3>1, <3>2 DEF Exposure
  <2>3. /\ db'.revision = 1 /\ DOMAIN db'.transactions = 1..1
        /\ db'.transactions[1] = TransactionRow(db, r)
        /\ db'.current = NextCurrent(db, r) /\ db'.current \in DOMAIN db'.snapshots
        /\ db'.current \in Nat
    BY <1>3, <1>4, <2>1, <2>2
  <2> DEFINE next == [j EXCEPT !.at = "read", !.code = 0, !.revision = db'.revision,
                               !.snapshot = db'.current, !.committed = TRUE]
  <2>4. job' = [job EXCEPT ![s].at = "read", ![s].code = 0, ![s].revision = db'.revision,
                           ![s].snapshot = db'.current, ![s].committed = TRUE]
    BY <1>6, <2>2 DEF Commit
  <2>5. job' = [job EXCEPT ![s] = next]
    BY <1>1, <2>4 DEF Jobs
  <2>6. next \in Jobs
    <3>1. "read" \in Places /\ 0 \in 0..4 /\ db'.revision \in Nat
      BY <2>3 DEF Places, OpenPlaces
    <3> QED BY <1>1, <2>3, <3>1 DEF Jobs
  <2>7. /\ next.at = "read" /\ next.code = 0 /\ next.op = "demo" /\ next.revision = 1
        /\ next.snapshot = db'.current
    BY <1>1, <2>2, <2>3 DEF Jobs
  <2> HIDE DEF next
  <2>8. DemoFirst(db') /\ Shows(db', next)
    BY <2>2, <2>3, <2>7 DEF DemoFirst, Shows, InHistory, TransactionRow, Exposure
  <2>9. JobInv(db', next, "open")
    BY <2>3, <2>7, <2>8 DEF JobInv, OnItsWay, DemoKnows, RecoveryKnows, ExportKnows, OpenPlaces
  <2> QED BY <1>1, <2>1, <2>5, <2>6, <2>9 DEF Moves
<1>7. ASSUME CommitUnknown(s)
      PROVE  Moves(s)
  <2>1. At(s, "commit") /\ Commits(db, r) /\ db' = Committed(db, r)
    BY <1>7 DEF CommitUnknown, Submits, ExecuteUnknown
  <2>2. db'.revision = db.revision + 1
    BY <1>3, <1>4, <2>1
  <2> DEFINE next == [j EXCEPT !.at = "end", !.code = 2, !.committed = TRUE]
  <2>3. job' = [job EXCEPT ![s] = next]
    BY <1>1, <1>7 DEF CommitUnknown, Jobs
  <2>4. next \in Jobs
    <3>1. "end" \in Places /\ 2 \in 0..4
      BY DEF Places
    <3> QED BY <1>1, <3>1 DEF Jobs
  <2>5. next.at = "end" /\ next.code = 2 /\ next.op = j.op /\ next.revision = j.revision
    BY <1>1 DEF Jobs
  <2> HIDE DEF next
  <2>6. JobInv(db', next, phase'[s])
    BY <1>2, <2>2, <2>5 DEF JobInv, OnItsWay, DemoKnows, RecoveryKnows, ExportKnows, OpenPlaces
  <2> QED BY <1>1, <2>3, <2>4, <2>6 DEF Moves
<1>8. ASSUME CommitFault(s)
      PROVE  Moves(s)
  <2>1. At(s, "commit") /\ Commits(db, r) /\ db' = Committed(db, r) /\ j.op = "crash-commit"
        /\ phase[s] = "open" /\ UNCHANGED phase
    BY <1>8 DEF CommitFault, Submits, ExecuteUnknown
  <2>2. db'.revision = db.revision + 1 /\ DOMAIN db'.transactions = 1..(db.revision + 1)
        /\ db'.transactions[db.revision + 1] = TransactionRow(db, r) /\ j.code = 0
        /\ r.command = CrashCommand
    BY <1>3, <1>4, <2>1 DEF Exposure
  <2> DEFINE next == [j EXCEPT !.at = "exit", !.committed = TRUE]
  <2>3. job' = [job EXCEPT ![s] = next]
    BY <1>1, <1>8 DEF CommitFault, Jobs
  <2>4. next \in Jobs
    <3>1. "exit" \in Places
      BY DEF Places, OpenPlaces
    <3> QED BY <1>1, <3>1 DEF Jobs
  <2>5. next.at = "exit" /\ next.code = 0 /\ next.op = j.op /\ next.revision = j.revision
    BY <1>1, <2>2 DEF Jobs
  <2> HIDE DEF next
  <2>6. \E t \in DOMAIN db'.transactions : db'.transactions[t].command = CrashCommand
    <3>1. db.revision + 1 \in DOMAIN db'.transactions
      BY <1>2, <2>2
    <3>2. db'.transactions[db.revision + 1].command = CrashCommand
      BY <2>2 DEF TransactionRow
    <3> QED BY <3>1, <3>2
  <2>7. JobInv(db', next, "open")
    BY <1>2, <2>1, <2>2, <2>5, <2>6
    DEF JobInv, OnItsWay, DemoKnows, RecoveryKnows, ExportKnows, OpenPlaces
  <2> QED BY <1>1, <2>1, <2>3, <2>4, <2>7 DEF Moves
<1>9. ASSUME Edit(s)
      PROVE  Moves(s)
  <2>1. j.at = "editing" /\ j.op = "edit" /\ j.code = 0
    BY <1>1, <1>9 DEF Edit, At, JobInv, OnItsWay
  <2>2. ASSUME NEW q \in EditRequests, Execute(s, q), UNCHANGED job
        PROVE  Moves(s)
    <3>1. db'.revision = db.revision + 1 /\ phase'[s] = "open"
      BY <1>3, <2>2, EditAssumption DEF Execute
    <3>2. JobInv(db', j, "open")
      BY <1>1, <1>2, <2>1, <3>1 DEF JobInv, OnItsWay, DemoKnows, RecoveryKnows, ExportKnows
    <3> QED BY <1>1, <2>2, <3>1, <3>2 DEF Moves
  <2>3. ASSUME Leave(s, 0), UNCHANGED vars
        PROVE  Moves(s)
    <3> DEFINE next == [j EXCEPT !.at = "end", !.code = 0]
    <3>1. job' = [job EXCEPT ![s] = next] /\ UNCHANGED db
      BY <1>1, <2>3 DEF Leave, Jobs, vars, durable
    <3>2. next \in Jobs
      <4>1. "end" \in Places /\ 0 \in 0..4
        BY DEF Places
      <4> QED BY <1>1, <4>1 DEF Jobs
    <3>3. next.at = "end" /\ next.op = "edit" /\ next.revision = j.revision
      BY <1>1, <2>1 DEF Jobs
    <3> HIDE DEF next
    <3>4. JobInv(db, next, phase'[s])
      BY <1>2, <3>3 DEF JobInv, OnItsWay, DemoKnows, RecoveryKnows, ExportKnows, OpenPlaces,
         Commands
    <3> QED BY <1>1, <3>1, <3>2, <3>4 DEF Moves
  <2> QED BY <1>9, <2>2, <2>3 DEF Edit
<1>10. ASSUME CommitReplay(s)
       PROVE  Moves(s)
  <2> DEFINE result == ReplayResult(db, r)
  <2>1. /\ At(s, "commit") /\ phase[s] = "open" /\ UNCHANGED <<db, phase>> /\ Replays(db, r)
        /\ IF result.new # j.revision THEN Leave(s, 1)
           ELSE job' = [job EXCEPT ![s].at = "read", ![s].snapshot = result.snapshot]
    BY <1>10 DEF CommitReplay, Submits, Replay, durable
  <2>2. PICK t \in DOMAIN db.transactions :
          /\ db.transactions[t].key = r.key
          /\ db.idempotency[r.key] = RowOf(db, t)
          /\ db.idempotency[r.key].snapshot \in 1..Len(db.snapshots)
    BY <2>1, RowOfTransaction DEF Replays, Known
  <2>3. /\ db.transactions[t].fingerprint = <<r.expected, r.change>>
        /\ result.new = t /\ result.snapshot = db.transactions[t].snapshot
        /\ result.snapshot \in 1..Len(db.snapshots)
    <3> DEFINE row == db.idempotency[r.key]
    <3>1. /\ row.fingerprint = db.transactions[t].fingerprint /\ row.new = t
          /\ row.snapshot = db.transactions[t].snapshot
      BY <2>2 DEF RowOf
    <3>2. row.fingerprint = <<r.expected, r.change>>
      BY <2>1 DEF Replays, Fingerprint
    <3>3. result.new = row.new /\ result.snapshot = row.snapshot
      BY DEF ReplayResult
    <3> QED BY <2>2, <3>1, <3>2, <3>3
  <2>4. r.expected = t - 1
    BY <1>1, <2>3 DEF RequestsKept
  <2>5. CASE result.new # j.revision
    <3>1. j.op # "verify-recovery"
      BY <1>2, <1>4, <2>1, <2>2, <2>3, <2>4, <2>5 DEF Exposure
    <3> QED BY <2>1, <2>5, <3>1, LeaveMoves
  <2>6. CASE result.new = j.revision
    <3>1. j.op = "verify-recovery" /\ j.recovered /\ j.code = 0 /\ r.key = "recovery/session:1"
          /\ j.revision = db.revision
      <4>1. t \in Int /\ t >= 1
        BY <1>2
      <4>2. j.op # "demo" /\ j.op # "crash-commit"
        BY <1>2, <1>4, <2>1, <2>3, <2>4, <2>6, <4>1 DEF Exposure
      <4> QED BY <1>4, <2>1, <4>2 DEF Exposure
    <3>2. db.transactions[j.revision].command = CrashCommand /\ j.revision \in DOMAIN db.transactions
      BY <1>1, <2>2, <2>3, <2>6, <3>1 DEF RequestsKept
    <3>3. result.snapshot = db.transactions[j.revision].snapshot /\ result.snapshot \in Nat
          /\ result.snapshot \in DOMAIN db.snapshots
      <4>1. db.snapshots \in Seq(SnapshotRows)
        BY DEF Consistent, Typed
      <4> QED BY <2>3, <2>6, <4>1
    <3> HIDE DEF result
    <3> DEFINE next == [j EXCEPT !.at = "read", !.snapshot = result.snapshot]
    <3>4. job' = [job EXCEPT ![s] = next]
      BY <1>1, <2>1, <2>6 DEF Jobs
    <3>5. next \in Jobs
      <4>1. "read" \in Places
        BY DEF Places, OpenPlaces
      <4> QED BY <1>1, <3>3, <4>1 DEF Jobs
    <3>6. next.at = "read" /\ next.code = 0 /\ next.op = "verify-recovery"
          /\ next.revision = j.revision /\ next.snapshot = result.snapshot
      BY <1>1, <3>1 DEF Jobs
    <3>7. next.recovered = j.recovered
      BY <1>1 DEF Jobs
    <3> HIDE DEF next
    <3>8. Crashed(db, next)
      BY <3>1, <3>2, <3>6, <3>7 DEF Crashed
    <3>9. Shows(db, next)
      BY <1>2, <3>2, <3>3, <3>6 DEF Shows, InHistory
    <3>10. JobInv(db, next, "open")
      BY <1>2, <3>6, <3>8, <3>9
      DEF JobInv, OnItsWay, DemoKnows, RecoveryKnows, ExportKnows, OpenPlaces, Readers
    <3> QED BY <1>1, <2>1, <3>4, <3>5, <3>10 DEF Moves
  <2> QED BY <2>5, <2>6
<1>11. ASSUME CommitRefused(s)
       PROVE  Moves(s)
  <2> DEFINE code == RefusalCode(db, r)
  <2>1. At(s, "commit") /\ UNCHANGED <<db, phase>> /\ ~Replays(db, r) /\ Leave(s, code)
    BY <1>11 DEF CommitRefused, Submits, vars, durable
  <2>2. code \in {1, 2}
    BY DEF RefusalCode
  <2>3. CASE code = 1 => j.op # "verify-recovery"
    BY <2>1, <2>2, <2>3, LeaveMoves
  <2>4. CASE j.op = "verify-recovery"
    <3>1. j.revision = db.revision /\ db.revision > 0
          /\ r = Exposure(RetryCommand, "recovery/session:1", db.revision - 1, 1)
      BY <1>4, <2>1, <2>4
    <3>2. ~Crashed(db, j)
      <4> SUFFICES ASSUME Crashed(db, j)
                   PROVE  Replays(db, r)
        BY <2>1
      <4> DEFINE t == db.revision
      <4>1. t \in DOMAIN db.transactions /\ db.transactions[t].command = CrashCommand
        BY <3>1 DEF Crashed
      <4>2. /\ db.transactions[t].key = "recovery/session:1"
            /\ db.transactions[t].fingerprint = <<t - 1, [kind |-> "adjust.exposure", ev |-> 1]>>
        BY <1>1, <4>1 DEF RequestsKept
      <4>3. /\ "recovery/session:1" \in DOMAIN db.idempotency
            /\ db.idempotency["recovery/session:1"] = RowOf(db, t)
        BY <4>1, <4>2 DEF Consistent, Replayable
      <4>4. /\ r.key = "recovery/session:1" /\ r.command # Empty /\ r.key # Empty
            /\ r.expected = t - 1 /\ r.change = [kind |-> "adjust.exposure", ev |-> 1]
        BY <3>1 DEF Exposure, RetryCommand, Empty
      <4>5. 1 \in -ExposureLimit .. ExposureLimit /\ ~(t - 1 < 0)
        BY <1>2, <3>1, LimitsAssumption
      <4>6. SchemaRefusal(db, r) = ""
        BY <4>4, <4>5 DEF SchemaRefusal, Malformed
      <4>7. db.idempotency[r.key].fingerprint = db.transactions[t].fingerprint
        BY <4>3, <4>4 DEF RowOf
      <4>8. Fingerprint(r) = <<t - 1, [kind |-> "adjust.exposure", ev |-> 1]>>
        BY <4>4 DEF Fingerprint
      <4> QED BY <4>2, <4>3, <4>4, <4>6, <4>7, <4>8 DEF Replays, Known
    <3> HIDE DEF code
    <3> DEFINE next == [j EXCEPT !.at = "end", !.code = code]
    <3>3. job' = [job EXCEPT ![s] = next]
      BY <1>1, <2>1 DEF Leave, Jobs
    <3>4. next \in Jobs
      <4>1. "end" \in Places /\ code \in 0..4
        BY <2>2 DEF Places
      <4> QED BY <1>1, <4>1 DEF Jobs
    <3>5. next.at = "end" /\ next.code = code /\ next.op = "verify-recovery"
          /\ next.revision = j.revision
      BY <1>1, <2>4 DEF Jobs
    <3>6. next.recovered = j.recovered
      BY <1>1 DEF Jobs
    <3> HIDE DEF next
    <3>7. ~Crashed(db, next)
      BY <3>2, <3>5, <3>6 DEF Crashed
    <3>8. JobInv(db, next, phase'[s])
      BY <1>2, <2>2, <3>5, <3>7
      DEF JobInv, OnItsWay, DemoKnows, RecoveryKnows, ExportKnows, OpenPlaces
    <3> QED BY <1>1, <2>1, <3>3, <3>4, <3>8 DEF Moves
  <2> QED BY <2>3, <2>4
<1> QED BY <1>6, <1>7, <1>8, <1>9, <1>10, <1>11

\* The steps that close the project and end the command.
LEMMA EndingMoves ==
  ASSUME CliInv, SessionInv, Consistent(db), NEW s \in Sessions,
         CloseProject(s) \/ ReleaseProject(s) \/ Exit(s) \/ ExitAtFault(s) \/ Kill(s)
  PROVE  Moves(s)
<1> DEFINE j == job[s]
<1>1. job \in [Sessions -> Jobs] /\ j \in Jobs /\ JobInv(db, j, phase[s])
  BY DEF CliInv
<1>2. UNCHANGED db
  BY DEF CloseProject, Close, ReleaseProject, Release, Exit, ExitAtFault, Kill, Crash, vars, durable
<1>3. CASE Exit(s) \/ ExitAtFault(s) \/ Kill(s)
  BY <1>2, <1>3, NoJobMoves DEF Exit, ExitAtFault, Kill
<1>4. ASSUME UNCHANGED job, j.at \notin OpenPlaces
      PROVE  Moves(s)
  <2>1. JobInv(db, j, phase'[s])
    BY <1>1, <1>4, PhaseFree
  <2> QED BY <1>1, <1>2, <1>4, <2>1 DEF Moves
<1>5. CASE ReleaseProject(s)
  BY <1>4, <1>5 DEF ReleaseProject, OpenPlaces
<1>6. CASE CloseProject(s)
  <2>1. CASE j.at = "end"
    BY <1>4, <1>6, <2>1 DEF CloseProject, At, OpenPlaces
  <2>2. CASE Leave(s, 2)
    BY <1>2, <2>2, LeaveMoves
  <2>3. CASE j.at = "close" /\ Continue(s, "reopen")
    <3> DEFINE next == [j EXCEPT !.at = "reopen"]
    <3>1. job' = [job EXCEPT ![s] = next]
      BY <1>1, <2>3 DEF Continue, Jobs
    <3>2. next \in Jobs
      <4>1. "reopen" \in Places
        BY DEF Places
      <4> QED BY <1>1, <4>1 DEF Jobs
    <3>3. next.at = "reopen" /\ next.op = j.op /\ next.revision = j.revision /\ next.code = j.code
          /\ next.snapshot = j.snapshot /\ next.exposure = j.exposure
      BY <1>1 DEF Jobs
    <3> HIDE DEF next
    <3>4. JobInv(db, next, phase'[s])
      BY <1>1, <2>3, <3>3 DEF JobInv, OnItsWay, DemoKnows, RecoveryKnows, ExportKnows, OpenPlaces,
         Shows, Pixels
    <3> QED BY <1>1, <1>2, <3>1, <3>2, <3>4 DEF Moves
  <2> QED BY <1>6, <2>1, <2>2, <2>3 DEF CloseProject, At
<1> QED BY <1>3, <1>5, <1>6

(***************************************************************************)
(* The commits of the commands                                             *)
(***************************************************************************)
CliStep(s) == (\E op \in Commands \cup {"edit"} : Begin(s, op)) \/ Progress(s) \/ Edit(s) \/ Kill(s)

\* The key of crash-commit comes with its command and its change.
Honest(q) ==
  /\ q.key = "recovery/session:1" <=> q.command = CrashCommand
  /\ q.command = CrashCommand => q.change = [kind |-> "adjust.exposure", ev |-> 1]

\* Only an editing command commits, a request of its own, on its open project.
LEMMA CommitOfCommand ==
  ASSUME CliInv, Consistent(db), NEW s \in Sessions, CliStep(s), db' # db
  PROVE  /\ phase[s] = "open" /\ UNCHANGED phase
         /\ job[s].op \in {"demo", "crash-commit", "edit"} /\ job'[s].op = job[s].op
         /\ \E q \in Requests : Commits(db, q) /\ db' = Committed(db, q) /\ Honest(q)
<1>1. job \in [Sessions -> Jobs] /\ JobInv(db, job[s], phase[s])
  BY DEF CliInv
<1>2. CASE Commit(s) \/ CommitUnknown(s) \/ CommitFault(s)
  <2> DEFINE q == RequestOf(s)
  <2>1. At(s, "commit") /\ phase[s] = "open" /\ UNCHANGED phase
        /\ Commits(db, q) /\ db' = Committed(db, q)
    BY <1>2 DEF Commit, CommitUnknown, CommitFault, Submits, Execute, ExecuteUnknown
  <2>2. q \in Requests /\ job[s].op \in {"demo", "crash-commit", "verify-recovery"}
    BY <1>1, <2>1, AskedIsRequest DEF At, JobInv, OnItsWay
  <2>3. job[s].op # "verify-recovery"
    <3>1. q.expected = db.revision /\ db.revision \in Nat
      BY <2>1, <2>2, CommitGrows
    <3>2. job[s].op = "verify-recovery" => job[s].revision = db.revision
      BY <1>1, <2>1 DEF At, JobInv, RecoveryKnows
    <3> QED BY <3>1, <3>2 DEF RequestOf, Exposure
  <2>4. Honest(q)
    BY <2>2, <2>3 DEF Honest, RequestOf, Exposure, DemoCommand, CrashCommand
  <2>5. job'[s].op = job[s].op
    BY <1>1, <1>2 DEF Commit, CommitUnknown, CommitFault, Jobs
  <2> QED BY <2>1, <2>2, <2>3, <2>4, <2>5
<1>3. CASE Edit(s)
  <2>1. PICK q \in EditRequests : Execute(s, q) /\ UNCHANGED job
    BY <1>3 DEF Edit, vars, durable
  <2>2. job[s].op = "edit"
    BY <1>1, <1>3 DEF Edit, At, JobInv, OnItsWay
  <2>3. Honest(q)
    BY <2>1, ApplicationAssumption DEF Honest
  <2> QED BY <2>1, <2>2, <2>3, EditAssumption DEF Execute
<1>4. ASSUME \/ \E op \in Commands \cup {"edit"} : Begin(s, op)
             \/ Create(s) \/ Refused(s) \/ IOFails(s) \/ Verify(s) \/ Render(s) \/ Compare(s)
             \/ ReadRevision(s) \/ Publish(s) \/ CopySource(s) \/ CommitRefused(s) \/ Exit(s)
      PROVE  UNCHANGED db
  BY <1>4 DEF Begin, Create, Refused, IOFails, Reads, Verify, Render, Compare, ReadRevision,
     Publish, CopySource, CommitRefused, Exit, vars, durable
<1>5. ASSUME Open(s) \/ Migrate(s) \/ CommitReplay(s) \/ ExitAtFault(s) \/ CloseProject(s)
             \/ ReleaseProject(s) \/ Kill(s)
      PROVE  UNCHANGED db
  BY <1>5 DEF Open, Migrate, CommitReplay, ExitAtFault, CloseProject, ReleaseProject, Kill,
     BeginOpen, TakeLease, BuildStore, VerifyOnOpen, MarkUnclean, FinishOpen, FailBeforeStore,
     FailWithStore, BeginRead, Replay, Crash, Close, Release, vars, durable
<1> QED BY <1>2, <1>3, <1>4, <1>5 DEF CliStep, Progress

\* What transactions were made for stays true of the log.
LEMMA StepRequestsKept ==
  ASSUME NEW d, NEW q \in Requests, Consistent(d), Commits(d, q), Honest(q), RequestsKept(d)
  PROVE  RequestsKept(Committed(d, q))
<1> DEFINE e == Committed(d, q)
           n == d.revision + 1
<1>1. /\ d.revision \in Nat /\ q.expected = d.revision
      /\ DOMAIN d.transactions = 1..d.revision /\ DOMAIN e.transactions = 1..n
      /\ \A t \in DOMAIN d.transactions : e.transactions[t] = d.transactions[t]
      /\ e.transactions[n] = TransactionRow(d, q)
  BY CommitGrows
<1> HIDE DEF e
<1>2. ASSUME NEW t \in DOMAIN e.transactions
      PROVE  LET row == e.transactions[t] IN
               /\ row.fingerprint[1] = t - 1
               /\ row.key = "recovery/session:1" <=> row.command = CrashCommand
               /\ row.command = CrashCommand =>
                    row.fingerprint = <<t - 1, [kind |-> "adjust.exposure", ev |-> 1]>>
  <2>1. CASE t \in DOMAIN d.transactions
    BY <1>1, <2>1 DEF RequestsKept
  <2>2. CASE t = n
    <3>1. /\ e.transactions[t].fingerprint = <<t - 1, q.change>>
          /\ e.transactions[t].key = q.key /\ e.transactions[t].command = q.command
      BY <1>1, <2>2 DEF TransactionRow, Fingerprint
    <3> QED BY <3>1 DEF Honest
  <2> QED BY <1>1, <2>1, <2>2
<1> QED BY <1>2 DEF RequestsKept, e

\* A step of a command leaves the phases of the other sessions alone.
LEMMA OwnPhase ==
  ASSUME SessionInv, NEW s \in Sessions, CliStep(s)
  PROVE  \A t \in Sessions \ {s} : phase'[t] = phase[t]
<1>1. phase \in [Sessions -> Phases]
  BY DEF SessionInv, StoreTyped
<1>2. ASSUME \/ \E op \in Commands \cup {"edit"} : Begin(s, op)
             \/ Create(s) \/ Refused(s) \/ IOFails(s) \/ Verify(s) \/ Render(s) \/ Compare(s)
             \/ ReadRevision(s) \/ Publish(s) \/ CopySource(s) \/ CommitRefused(s) \/ Exit(s)
      PROVE  UNCHANGED phase
  BY <1>2 DEF Begin, Create, Refused, IOFails, Reads, Verify, Render, Compare, ReadRevision,
     Publish, CopySource, CommitRefused, Exit, vars
<1>3. ASSUME Commit(s) \/ CommitUnknown(s) \/ CommitFault(s) \/ CommitReplay(s) \/ Edit(s)
      PROVE  UNCHANGED phase
  BY <1>3 DEF Commit, CommitUnknown, CommitFault, CommitReplay, Edit, Execute, ExecuteUnknown,
     Replay, vars
<1>4. ASSUME Open(s) \/ Migrate(s) \/ ExitAtFault(s) \/ CloseProject(s) \/ ReleaseProject(s)
             \/ Kill(s)
      PROVE  UNCHANGED phase \/ \E p \in Phases : phase' = [phase EXCEPT ![s] = p]
  BY <1>4 DEF Open, Migrate, ExitAtFault, CloseProject, ReleaseProject, Kill, BeginOpen,
     TakeLease, BuildStore, VerifyOnOpen, MarkUnclean, FinishOpen, FailBeforeStore,
     FailWithStore, BeginRead, Crash, Close, Release, Gone, Goto, vars, Phases, Opening
<1> QED BY <1>1, <1>2, <1>3, <1>4 DEF CliStep, Progress

\* Every step of a process keeps what it and the other processes know.
LEMMA StepCliInv ==
  ASSUME CliInv, SessionInv, Consistent(db), [CliNext]_allvars
  PROVE  CliInv'
<1>1. CASE UNCHANGED allvars
  BY <1>1 DEF allvars, vars, durable, CliInv, JobInv, OnItsWay, DemoKnows, RecoveryKnows,
     ExportKnows, Shows, InHistory, Pixels, DemoFirst, OthersCommitted, Crashed, RequestsKept
<1>2. ASSUME NEW s \in Sessions, CliStep(s)
      PROVE  /\ RequestsKept(db')
             /\ job' \in [Sessions -> Jobs]
             /\ \A t \in Sessions : JobInv(db', job'[t], phase'[t])
  <2>1. Moves(s)
    BY <1>2, OpeningMoves, ReadingMoves, CommittingMoves, EndingMoves DEF CliStep, Progress
  <2>2. job' \in [Sessions -> Jobs] /\ JobInv(db', job'[s], phase'[s])
        /\ \A t \in Sessions \ {s} : job'[t] = job[t] /\ phase'[t] = phase[t]
    BY <1>2, <2>1, OwnPhase DEF Moves, CliInv
  <2>3. RequestsKept(db) /\ \A t \in Sessions : job[t] \in Jobs /\ JobInv(db, job[t], phase[t])
    BY DEF CliInv
  <2>4. CASE db' = db
    BY <2>2, <2>3, <2>4
  <2>5. CASE db' # db
    <3>1. PICK q \in Requests : Commits(db, q) /\ db' = Committed(db, q) /\ Honest(q)
      BY <1>2, <2>5, CommitOfCommand
    <3>2. RequestsKept(db')
      BY <2>3, <3>1, StepRequestsKept
    <3>3. ASSUME NEW t \in Sessions \ {s}
          PROVE  JobInv(db', job'[t], phase'[t])
      <4>1. phase[s] = "open"
        BY <1>2, <2>5, CommitOfCommand
      <4>2. phase[t] # "open"
        BY <4>1, SessionAssumption DEF SessionInv, LeaseHeld
      <4> QED BY <2>2, <2>3, <3>1, <4>2, JobKept
    <3> QED BY <2>2, <3>2, <3>3
  <2> QED BY <2>4, <2>5
<1>3. (\E s \in Sessions : CliStep(s)) => CliInv'
  BY <1>2 DEF CliInv, JobInv, OnItsWay, DemoKnows, RecoveryKnows,
     ExportKnows, Shows, InHistory, Pixels, DemoFirst, OthersCommitted, Crashed, RequestsKept
<1> QED BY <1>1, <1>3 DEF CliNext, CliStep

\* At first nobody runs a command.
LEMMA InitCliInv == CliInit => CliInv
<1> SUFFICES ASSUME CliInit
             PROVE  CliInv
  OBVIOUS
<1>1. Consistent(db)
  BY PublishedConsistent DEF CliInit, Init
<1>2. DOMAIN db.transactions = {}
  BY DEF CliInit, Init, PublishedDatabases, NewDatabase, Migrated
<1>3. NoJob \in Jobs
  BY DEF NoJob, Job, Jobs, Places
<1>4. db.revision \in Nat
  BY <1>1, CurrentIsCommitted
<1>5. JobInv(db, NoJob, "idle")
  BY <1>4 DEF NoJob, Job, JobInv, OnItsWay, DemoKnows, RecoveryKnows, ExportKnows, OpenPlaces
<1> QED BY <1>2, <1>3, <1>5 DEF CliInit, Init, CliInv, RequestsKept

(***************************************************************************)
(* Theorems about the command line                                         *)
(***************************************************************************)

\* The inductive invariant of the commands, with that of their sessions.
THEOREM CommandInvariant == CliSpec => [](SessionInv /\ TablesInv /\ CliInv)
<1>1. CliInit => SessionInv /\ TablesInv /\ CliInv
  BY InitSessionInv, InitCliInv, PublishedConsistent DEF CliInit, Init, TablesInv, AcknowledgedDurable
<1>2. SessionInv /\ TablesInv /\ CliInv /\ [CliNext]_allvars => (SessionInv /\ TablesInv /\ CliInv)'
  BY CommandIsSession, StepSessionInv, StepTablesInv, StepCliInv DEF TablesInv
<1> QED BY <1>1, <1>2, PTL DEF CliSpec

\* The commands are sessions of ProjectStore: whatever holds of every session,
\* holds of them.
THEOREM CommandsAreSessions == CliSpec => Spec
<1>1. CliInit => Init
  BY DEF CliInit
<1>2. TablesInv /\ CliInv /\ [CliNext]_allvars => [Next]_vars
  BY CommandIsSession DEF TablesInv
<1> QED BY <1>1, <1>2, CommandInvariant, PTL DEF CliSpec, Spec

\* verify, verify-recovery, export-demo and migrate-v1-v2 never commit.
THEOREM OnlyEditorsCommitAlways == CliSpec => OnlyEditorsCommit
<1>1. SessionInv /\ TablesInv /\ CliInv /\ [CliNext]_allvars
        => [db' # db => \E s \in Sessions :
              phase[s] = "open" /\ job[s].op \in {"demo", "crash-commit", "edit"}
                /\ job'[s].op = job[s].op /\ lease = s]_allvars
  <2> SUFFICES ASSUME SessionInv, TablesInv, CliInv, CliNext, db' # db
               PROVE  \E s \in Sessions :
                        phase[s] = "open" /\ job[s].op \in {"demo", "crash-commit", "edit"}
                          /\ job'[s].op = job[s].op /\ lease = s
    BY DEF allvars, vars, durable
  <2>1. PICK s \in Sessions : CliStep(s)
    BY DEF CliNext, CliStep
  <2>2. phase[s] = "open" /\ job[s].op \in {"demo", "crash-commit", "edit"}
        /\ job'[s].op = job[s].op
    BY <2>1, CommitOfCommand DEF TablesInv
  <2> QED BY <2>2 DEF SessionInv, LeaseHeld
<1> QED BY <1>1, CommandInvariant, PTL DEF CliSpec, OnlyEditorsCommit

\* What a successful command prints is of one committed state.
THEOREM PrintedIsCommittedAlways == CliSpec => []PrintedIsCommitted
<1>1. CliInv => PrintedIsCommitted
  <2> SUFFICES ASSUME CliInv, NEW s \in Sessions, At(s, "end"), job[s].code = 0,
                      job[s].op \in Commands
               PROVE  /\ IsCommitted(job[s].revision, job[s].snapshot)
                      /\ job[s].op = "export-demo" => job[s].exposure = db.snapshots[job[s].snapshot].ev
    BY DEF PrintedIsCommitted
  <2>1. JobInv(db, job[s], phase[s])
    BY DEF CliInv
  <2> QED BY <2>1 DEF JobInv, Shows, InHistory, IsCommitted, ExportKnows, Pixels, At
<1> QED BY <1>1, CommandInvariant, PTL

\* What the exit codes of verify-recovery, demo and crash-commit claim is true.
THEOREM VerdictsAreTrueAlways == CliSpec => []VerdictsAreTrue
<1>1. CliInv => VerdictsAreTrue
  <2> SUFFICES ASSUME CliInv, NEW s \in Sessions
               PROVE  /\ At(s, "exit") =>
                           \E t \in DOMAIN db.transactions : db.transactions[t].command = CrashCommand
                      /\ Exits(s, "verify-recovery", 0) => Crashed(db, job[s])
                      /\ Exits(s, "verify-recovery", 1) => ~Crashed(db, job[s])
                      /\ Exits(s, "demo", 0) => db.transactions[1].command = DemoCommand
                      /\ job[s].op = "demo" /\ At(s, "verify") /\ job[s].code = 1 =>
                           \E t \in DOMAIN db.transactions : db.transactions[t].command # DemoCommand
    BY DEF VerdictsAreTrue, Crashed
  <2>1. JobInv(db, job[s], phase[s])
    BY DEF CliInv
  <2> QED BY <2>1 DEF JobInv, RecoveryKnows, DemoKnows, DemoFirst, OthersCommitted, Exits, At
<1> QED BY <1>1, CommandInvariant, PTL
=============================================================================
