------------------------- MODULE ProjectTablesProofs -------------------------
(***************************************************************************)
(* Lemmas about the tables of a project: a committed transaction and a     *)
(* migration preserve every part of Consistent, for every set of keys,     *)
(* command ids, exposure changes and graphs, and for every limit.          *)
(***************************************************************************)
EXTENDS ProjectConsistency, TLAPS, FiniteSetTheorems, SequenceTheorems

(***************************************************************************)
(* Operators                                                               *)
(***************************************************************************)

\* Rounding an exposure to a representable number gives an integer.
LEMMA RoundedIsInteger ==
  ASSUME NEW x \in Int
  PROVE  RoundEV(x) \in Int
<1>1. Spacing(x) \in {1, 2, 4, 8}
  BY DEF Spacing
<1>2. ASSUME NEW g \in {1, 2, 4, 8}
      PROVE  g * (x \div g) \in Int /\ g * (x \div g) + g \in Int
  <2>1. CASE g = 1 BY <2>1
  <2>2. CASE g = 2 BY <2>2
  <2>3. CASE g = 4 BY <2>3
  <2>4. CASE g = 8 BY <2>4
  <2> QED BY <1>2, <2>1, <2>2, <2>3, <2>4
<1> QED BY <1>1, <1>2 DEF RoundEV

\* SELECT MAX(position) on a table of positions without a gap.
LEMMA MaximumOfInterval ==
  ASSUME NEW d, NEW m \in Nat, DOMAIN d.history = 0..m
  PROVE  MaximumHistoryPosition(d) = m
<1>1. m \in DOMAIN d.history /\ \A p \in DOMAIN d.history : p <= m
  OBVIOUS
<1>2. ASSUME NEW x \in DOMAIN d.history, \A p \in DOMAIN d.history : p <= x
      PROVE  x = m
  <2>1. m <= x /\ x \in 0..m
    BY <1>1, <1>2
  <2> QED BY <2>1
<1> QED BY <1>1, <1>2 DEF MaximumHistoryPosition

\* A migrated graph has at least the source and output nodes.
LEMMA MigratedNodesNat ==
  ASSUME NEW ev \in Int, GraphValid(MigratedNodes(ev))
  PROVE  MigratedNodes(ev) \in Nat
<1> DEFINE size == IF ev < 0 THEN -ev ELSE ev
<1>1. size \in Nat
  OBVIOUS
<1>2. ExposureLimit \in Nat \ {0}
  BY LimitsAssumption
<1>3. (size + ExposureLimit - 1) \div ExposureLimit \in Int
  <2> HIDE DEF size
  <2> QED BY <1>1, <1>2, Z3
<1>4. MigratedNodes(ev) \in Int
  BY <1>3 DEF MigratedNodes, MinNodes
<1> QED BY <1>4 DEF GraphValid, MinNodes

(***************************************************************************)
(* Transactions                                                            *)
(***************************************************************************)
\* What the checks of execute guarantee of a request that commits.
LEMMA CommitFacts ==
  ASSUME NEW d, NEW r \in Requests, Typed(d), Commits(d, r)
  PROVE  /\ r.key \in Keys /\ r.key \notin DOMAIN d.idempotency
         /\ d.revision \in 0..(MaxRevision - 1)
         /\ \A t \in DOMAIN d.transactions :
              d.transactions[t].key # r.key /\ d.transactions[t].command # r.command
         /\ Edits(r) \/ r.change.kind \in {"history.undo", "history.redo"}
         /\ r.change.kind = "history.undo" => ~(d.position <= 0)
         /\ r.change.kind = "history.redo" => ~(d.position >= MaximumHistoryPosition(d))
         /\ r.change.kind = "adjust.exposure" =>
              /\ r.change.ev \in Int
              /\ d.format = V2 => GraphValid(d.snapshots[d.current].nodes + 1)
         /\ r.change.kind = "graph.replace" =>
              /\ r.change.nodes \in Nat
              /\ d.format = V2 /\ GraphValid(r.change.nodes)
<1>1. ~Malformed(r) /\ SchemaRefusal(d, r) = ""
  BY DEF Commits, SchemaRefusal
<1>2. TransactionRefusal(d, r) = "" /\ ~Known(d, r)
  BY DEF Commits
<1>3. r.change.kind \in EditKinds \cup {"history.undo", "history.redo"}
  BY DEF Requests, Changes, EditKinds
<1>4. r.key \in Keys /\ r.key \notin DOMAIN d.idempotency
  BY <1>1, <1>2 DEF Malformed, Known, Requests
<1>5. d.revision # MaxRevision /\ ~ConstraintFails(d, r)
  BY <1>2 DEF TransactionRefusal
<1>6. d.revision \in 0..(MaxRevision - 1)
  BY <1>5, LimitsAssumption DEF Typed
<1>7. \A t \in DOMAIN d.transactions :
        d.transactions[t].key # r.key /\ d.transactions[t].command # r.command
  BY <1>5 DEF ConstraintFails
<1>8. /\ r.change.kind = "history.undo" => ~(d.position <= 0)
      /\ r.change.kind = "history.redo" => ~(d.position >= MaximumHistoryPosition(d))
  BY <1>2 DEF TransactionRefusal
<1>9. ASSUME r.change.kind = "adjust.exposure"
      PROVE  /\ r.change.ev \in Int
             /\ d.format = V2 => GraphValid(d.snapshots[d.current].nodes + 1)
  <2>1. r.change.ev \in Deltas
    BY <1>9 DEF Requests, Changes
  <2>2. d.format = V2 => GraphValid(d.snapshots[d.current].nodes + 1)
    BY <1>2, <1>9 DEF TransactionRefusal
  <2> QED BY <2>1, <2>2, LimitsAssumption
<1>10. ASSUME r.change.kind = "graph.replace"
       PROVE  /\ r.change.nodes \in Nat
              /\ d.format = V2 /\ GraphValid(r.change.nodes)
  <2>1. r.change.nodes \in GraphSizes
    BY <1>10 DEF Requests, Changes
  <2>2. d.format = V2 /\ GraphValid(r.change.nodes)
    BY <1>1, <1>10 DEF SchemaRefusal
  <2> QED BY <2>1, <2>2, LimitsAssumption
<1> QED BY <1>3, <1>4, <1>6, <1>7, <1>8, <1>9, <1>10 DEF Edits, Typed

(***************************************************************************)
(* One committed transaction preserves every part of Consistent            *)
(***************************************************************************)

\* The rows a transaction leaves in the tables, relative to the rows before.
LEMMA CommitRows ==
  ASSUME NEW d, NEW r \in Requests, Consistent(d), Commits(d, r)
  PROVE  LET e == Committed(d, r)
             n == Len(d.snapshots)
         IN
           /\ n \in Nat \ {0} /\ d.current \in 1..n
           /\ e.format = d.format /\ e.revision = d.revision + 1
           /\ IF Edits(r)
              THEN /\ e.current = n + 1 /\ e.position = d.position + 1
                   /\ Len(e.snapshots) = n + 1 /\ e.snapshots[n + 1] = EditedSnapshot(d, r)
                   /\ DOMAIN e.history = 0..(d.position + 1)
                   /\ e.history[d.position + 1] = n + 1
                   /\ \A p \in 0..d.position : e.history[p] = d.history[p]
              ELSE /\ e.position \in DOMAIN d.history /\ e.current = d.history[e.position]
                   /\ e.current \in 1..n
                   /\ e.position = IF r.change.kind = "history.undo" THEN d.position - 1
                                   ELSE d.position + 1
                   /\ e.snapshots = d.snapshots /\ e.history = d.history
           /\ e.snapshots \in Seq(SnapshotRows)
           /\ \A s \in 1..n : e.snapshots[s] = d.snapshots[s]
           /\ DOMAIN e.transactions = 1..(d.revision + 1)
           /\ e.transactions[d.revision + 1] = TransactionRow(d, r)
           /\ \A t \in 1..d.revision : e.transactions[t] = d.transactions[t]
           /\ DOMAIN e.idempotency = DOMAIN d.idempotency \cup {r.key}
           /\ e.idempotency[r.key] = IdempotencyRow(d, r)
           /\ \A k \in DOMAIN d.idempotency : e.idempotency[k] = d.idempotency[k]
           /\ NextCurrent(d, r) = e.current
<1> DEFINE e == Committed(d, r)
           n == Len(d.snapshots)
<1> e = Committed(d, r) /\ n = Len(d.snapshots)
  OBVIOUS
<1> HIDE DEF e, n
<1> USE DEF Consistent
<1>1. /\ n \in Nat \ {0} /\ d.snapshots \in Seq(SnapshotRows)
      /\ d.position \in Nat /\ d.revision \in Nat
  BY LimitsAssumption DEF Ancestry, Typed
<1>2. PICK m \in 0..d.revision : MaximumHistoryPosition(d) = m /\ DOMAIN d.history = 0..m
  BY DEF Path
<1>3. /\ \A p \in 0..m : d.history[p] \in 1..n
      /\ d.position \in 0..m /\ d.history[d.position] = d.current
  <2>1. d.history[0] = 1 /\ 1 \in 1..n
    BY <1>1 DEF Path
  <2>2. \A p \in 0..m : p # 0 => d.history[p] \in 2..n
    BY <1>2 DEF Path
  <2>3. d.position \in 0..m /\ d.history[d.position] = d.current
    BY <1>2 DEF Path
  <2>4. 2..n \subseteq 1..n
    BY <1>1
  <2> HIDE DEF Consistent
  <2> QED BY <2>1, <2>2, <2>3, <2>4
<1>4. d.current \in 1..n
  BY <1>3
<1>5. d.snapshots[d.current] \in SnapshotRows
  BY <1>1, <1>4
<1>6. /\ e.format = d.format /\ e.revision = d.revision + 1
      /\ e.position = NextPosition(d, r) /\ e.current = NextCurrent(d, r)
      /\ e.snapshots = IF Edits(r) THEN Append(d.snapshots, EditedSnapshot(d, r)) ELSE d.snapshots
      /\ e.history = IF Edits(r) THEN EditedHistory(d, NextCurrent(d, r)) ELSE d.history
      /\ e.transactions = WithRow(d.transactions, d.revision + 1, TransactionRow(d, r))
      /\ e.idempotency = WithRow(d.idempotency, r.key, IdempotencyRow(d, r))
  BY DEF Committed
<1>7. /\ DOMAIN e.transactions = 1..(d.revision + 1)
      /\ e.transactions[d.revision + 1] = TransactionRow(d, r)
      /\ \A t \in 1..d.revision : e.transactions[t] = d.transactions[t]
  <2>1. DOMAIN d.transactions = 1..d.revision
    BY DEF Log
  <2> QED BY <1>1, <1>6, <2>1 DEF WithRow
<1>8. /\ DOMAIN e.idempotency = DOMAIN d.idempotency \cup {r.key}
      /\ e.idempotency[r.key] = IdempotencyRow(d, r)
      /\ \A k \in DOMAIN d.idempotency : e.idempotency[k] = d.idempotency[k]
  <2>1. r.key \notin DOMAIN d.idempotency
    BY CommitFacts
  <2> QED BY <1>6, <2>1 DEF WithRow
<1>9. CASE Edits(r)
  <2>1. r.change.kind # "history.undo"
    BY <1>9 DEF Edits, EditKinds
  <2>2. e.current = n + 1 /\ e.position = d.position + 1
    BY <1>6, <1>9, <2>1 DEF NextCurrent, NextPosition
  <2>3. EditedSnapshot(d, r) \in SnapshotRows
    <3>1. EditedSnapshot(d, r).ev \in Int
      <4>1. CASE r.change.kind = "adjust.exposure"
        <5>1. d.snapshots[d.current].ev + r.change.ev \in Int
          BY <1>5, <4>1, CommitFacts DEF SnapshotRows
        <5> QED BY <4>1, <5>1, RoundedIsInteger DEF EditedSnapshot
      <4>2. CASE r.change.kind # "adjust.exposure"
        BY <1>5, <4>2 DEF EditedSnapshot, SnapshotRows
      <4> QED BY <4>1, <4>2
    <3>2. EditedSnapshot(d, r).nodes \in Nat
      <4>1. CASE r.change.kind = "adjust.exposure"
        BY <1>5, <4>1 DEF EditedSnapshot, SnapshotRows
      <4>2. CASE r.change.kind = "graph.replace"
        BY <4>2, CommitFacts DEF EditedSnapshot
      <4> QED BY <1>9, <4>1, <4>2 DEF Edits, EditKinds
    <3>3. d.current \in Nat /\ d.revision + 1 \in Nat
      BY <1>1, <1>4
    <3> QED BY <3>1, <3>2, <3>3 DEF EditedSnapshot, SnapshotRows
  <2>4. /\ e.snapshots \in Seq(SnapshotRows)
        /\ Len(e.snapshots) = n + 1 /\ e.snapshots[n + 1] = EditedSnapshot(d, r)
        /\ \A s \in 1..n : e.snapshots[s] = d.snapshots[s]
    <3> HIDE DEF Consistent
    <3> QED BY <1>1, <1>6, <1>9, <2>3
  <2>5. /\ DOMAIN e.history = 0..(d.position + 1)
        /\ e.history[d.position + 1] = n + 1
        /\ \A p \in 0..d.position : e.history[p] = d.history[p]
    <3>1. e.history = [p \in {q \in DOMAIN d.history : q <= d.position} \cup {d.position + 1} |->
                         IF p = d.position + 1 THEN n + 1 ELSE d.history[p]]
      BY <1>6, <1>9, <2>2 DEF EditedHistory
    <3>2. {q \in DOMAIN d.history : q <= d.position} \cup {d.position + 1} = 0..(d.position + 1)
      BY <1>1, <1>2, <1>3
    <3> HIDE DEF Consistent
    <3> QED BY <1>1, <3>1, <3>2
  <2> HIDE DEF Consistent
  <2> QED BY <1>1, <1>4, <1>6, <1>7, <1>8, <1>9, <2>2, <2>4, <2>5
<1>10. CASE ~Edits(r)
  <2>1. e.position \in DOMAIN d.history
        /\ e.position = IF r.change.kind = "history.undo" THEN d.position - 1 ELSE d.position + 1
    <3>1. r.change.kind \in {"history.undo", "history.redo"}
      BY <1>10, CommitFacts
    <3>2. CASE r.change.kind = "history.undo"
      BY <1>2, <1>3, <1>6, <3>2, CommitFacts DEF NextPosition
    <3>3. CASE r.change.kind = "history.redo"
      BY <1>2, <1>3, <1>6, <3>3, CommitFacts DEF NextPosition
    <3> QED BY <3>1, <3>2, <3>3
  <2>2. e.current = d.history[e.position]
    BY <1>6, <1>10 DEF NextCurrent
  <2>3. e.current \in 1..n
    BY <1>2, <1>3, <2>1, <2>2
  <2>4. e.snapshots = d.snapshots /\ e.history = d.history
    BY <1>6, <1>10
  <2> HIDE DEF Consistent
  <2> QED BY <1>1, <1>4, <1>6, <1>7, <1>8, <1>10, <2>1, <2>2, <2>3, <2>4
<1> QED BY <1>9, <1>10

\* A committed transaction preserves every part of Consistent.
LEMMA CommitConsistent ==
  ASSUME NEW d, NEW r \in Requests, Consistent(d), Commits(d, r)
  PROVE  Consistent(Committed(d, r))
<1> DEFINE e == Committed(d, r)
           n == Len(d.snapshots)
<1> HIDE DEF e, n
<1>1. e = Committed(d, r) /\ n = Len(d.snapshots)
  BY DEF e, n
<1>2. /\ n \in Nat \ {0} /\ d.current \in 1..n
      /\ e.format = d.format /\ e.revision = d.revision + 1
      /\ e.snapshots \in Seq(SnapshotRows)
      /\ \A s \in 1..n : e.snapshots[s] = d.snapshots[s]
  BY <1>1, CommitRows
<1>3. ASSUME Edits(r)
      PROVE  /\ e.current = n + 1 /\ e.position = d.position + 1
             /\ Len(e.snapshots) = n + 1 /\ e.snapshots[n + 1] = EditedSnapshot(d, r)
             /\ DOMAIN e.history = 0..(d.position + 1)
             /\ e.history[d.position + 1] = n + 1
             /\ \A p \in 0..d.position : e.history[p] = d.history[p]
  BY <1>1, <1>3, CommitRows
<1>4. ASSUME ~Edits(r)
      PROVE  /\ e.position \in DOMAIN d.history /\ e.current = d.history[e.position]
             /\ e.position = IF r.change.kind = "history.undo" THEN d.position - 1
                             ELSE d.position + 1
             /\ e.current \in 1..n
             /\ e.snapshots = d.snapshots /\ e.history = d.history
  BY <1>1, <1>4, CommitRows
<1>5. /\ DOMAIN e.transactions = 1..(d.revision + 1)
      /\ e.transactions[d.revision + 1] = TransactionRow(d, r)
      /\ \A t \in 1..d.revision : e.transactions[t] = d.transactions[t]
      /\ TransactionRow(d, r).snapshot = e.current
  BY <1>1, CommitRows DEF TransactionRow
<1>6. /\ DOMAIN e.idempotency = DOMAIN d.idempotency \cup {r.key}
      /\ e.idempotency[r.key] = IdempotencyRow(d, r)
      /\ \A k \in DOMAIN d.idempotency : e.idempotency[k] = d.idempotency[k]
  BY <1>1, CommitRows
<1>7. /\ r.key \in Keys /\ r.key \notin DOMAIN d.idempotency
      /\ d.revision \in 0..(MaxRevision - 1)
      /\ \A t \in DOMAIN d.transactions :
           d.transactions[t].key # r.key /\ d.transactions[t].command # r.command
  BY CommitFacts DEF Consistent
<1>8. DOMAIN d.transactions = 1..d.revision
  BY DEF Consistent, Log
<1>9. Len(e.snapshots) \in {n, n + 1} /\ (Len(e.snapshots) = n + 1 <=> Edits(r))
      /\ e.current \in 1..Len(e.snapshots)
  BY <1>1, <1>2, <1>3, <1>4
<1>10. d.position \in Nat /\ d.revision \in Nat
  BY <1>7 DEF Consistent, Typed
<1>11. PICK m \in 0..d.revision :
         /\ MaximumHistoryPosition(d) = m /\ DOMAIN d.history = 0..m
         /\ d.position \in 0..m /\ d.history[d.position] = d.current
  BY DEF Consistent, Path

<1>20. Typed(e)
  <2>1. e.revision \in 0..MaxRevision
    BY <1>2, <1>7, LimitsAssumption
  <2>2. e.current \in Nat
    BY <1>2, <1>9
  <2>3. e.position \in Nat /\ DOMAIN e.history \subseteq Nat
    <3>1. CASE Edits(r) BY <3>1, <1>3, <1>10
    <3>2. CASE ~Edits(r) BY <3>2, <1>4, <1>11
    <3> QED BY <3>1, <3>2
  <2>4. DOMAIN e.transactions \subseteq Nat /\ DOMAIN e.idempotency \subseteq Keys
    BY <1>5, <1>6, <1>7, <1>10 DEF Consistent, Typed
  <2> QED BY <1>2, <2>1, <2>2, <2>3, <2>4 DEF Consistent, Typed
<1>21. Ancestry(e)
  <2>1. /\ d.snapshots[1].parent = NoParent /\ d.snapshots[1].created = 0
        /\ \A s \in 2..n :
             /\ d.snapshots[s].parent \in 1..(s - 1)
             /\ d.snapshots[d.snapshots[s].parent].created < d.snapshots[s].created
    BY <1>1 DEF Consistent, Ancestry
  <2>2. ASSUME NEW s \in 2..n
        PROVE  /\ e.snapshots[s].parent \in 1..(s - 1)
               /\ e.snapshots[e.snapshots[s].parent].created < e.snapshots[s].created
    <3>1. d.snapshots[s].parent \in 1..(s - 1)
      BY <2>1
    <3>2. s \in 1..n /\ d.snapshots[s].parent \in 1..n
      BY <3>1, <1>2
    <3>3. e.snapshots[s] = d.snapshots[s]
          /\ e.snapshots[d.snapshots[s].parent] = d.snapshots[d.snapshots[s].parent]
      BY <3>2, <1>2
    <3> QED BY <3>1, <3>3, <2>1
  <2>3. ASSUME Edits(r)
        PROVE  /\ e.snapshots[n + 1].parent \in 1..n
               /\ e.snapshots[e.snapshots[n + 1].parent].created < e.snapshots[n + 1].created
    <3>1. e.snapshots[n + 1].parent = d.current /\ e.snapshots[n + 1].created = d.revision + 1
      BY <1>3, <2>3 DEF EditedSnapshot
    <3>2. d.snapshots[d.current].created \in 0..d.revision
      <4>1. CASE d.current = 1
        BY <4>1, <2>1, <1>10
      <4>2. CASE d.current # 1
        <5>1. d.current \in 2..n
          BY <4>2, <1>2
        <5> QED BY <5>1, <1>1, <1>8, <1>10 DEF Consistent, Creation
      <4> QED BY <4>1, <4>2
    <3>3. e.snapshots[d.current] = d.snapshots[d.current]
      BY <1>2
    <3>4. d.snapshots[d.current].created < d.revision + 1
      BY <1>10, <3>2
    <3> QED BY <1>2, <3>1, <3>3, <3>4
  <2>4. /\ Len(e.snapshots) > 0
        /\ e.snapshots[1].parent = NoParent /\ e.snapshots[1].created = 0
    BY <1>2, <1>9, <2>1
  <2>5. ASSUME NEW s \in 2..Len(e.snapshots)
        PROVE  /\ e.snapshots[s].parent \in 1..(s - 1)
               /\ e.snapshots[e.snapshots[s].parent].created < e.snapshots[s].created
    <3>1. CASE s \in 2..n BY <3>1, <2>2
    <3>2. CASE s \notin 2..n
      <4>1. Edits(r) /\ s = n + 1
        BY <3>2, <1>2, <1>9
      <4> QED BY <4>1, <1>2, <2>3
    <3> QED BY <3>1, <3>2
  <2> QED BY <2>4, <2>5 DEF Ancestry
<1>22. Creation(e)
  <2> SUFFICES ASSUME NEW s \in 2..Len(e.snapshots), NEW t, t = e.snapshots[s].created
               PROVE  /\ t \in DOMAIN e.transactions
                      /\ e.transactions[t].snapshot = s
                      /\ e.transactions[t].kind \in EditKinds
    BY DEF Creation
  <2>1. CASE s \in 2..n
    <3>1. /\ t \in DOMAIN d.transactions
          /\ d.transactions[t].snapshot = s
          /\ d.transactions[t].kind \in EditKinds
      BY <2>1, <1>1, <1>2 DEF Consistent, Creation
    <3>2. t \in 1..d.revision /\ t \in DOMAIN e.transactions
      BY <3>1, <1>5, <1>8, <1>10
    <3> QED BY <3>1, <3>2, <1>5
  <2>2. CASE s \notin 2..n
    <3>1. Edits(r) /\ s = n + 1
      BY <2>2, <1>2, <1>9
    <3>2. t = d.revision + 1 /\ e.current = s
      BY <3>1, <1>3 DEF EditedSnapshot
    <3>3. e.transactions[t] = TransactionRow(d, r) /\ TransactionRow(d, r).kind \in EditKinds
      BY <3>1, <3>2, <1>5 DEF TransactionRow, Edits
    <3> QED BY <3>2, <3>3, <1>5, <1>10
  <2> QED BY <2>1, <2>2
<1>23. Path(e)
  <2>1. /\ d.history[0] = 1
        /\ \A p \in 1..m : /\ d.history[p] \in 2..n
                           /\ d.snapshots[d.history[p]].parent = d.history[p - 1]
    BY <1>1, <1>11 DEF Consistent, Path
  <2>2. CASE Edits(r)
    <3>1. MaximumHistoryPosition(e) = d.position + 1
      <4>1. d.position + 1 \in Nat /\ DOMAIN e.history = 0..(d.position + 1)
        BY <2>2, <1>3, <1>10
      <4> QED BY <4>1, MaximumOfInterval
    <3>2. ASSUME NEW p \in DOMAIN e.history \ {0}
          PROVE  /\ e.history[p] \in 2..Len(e.snapshots)
                 /\ e.snapshots[e.history[p]].parent = e.history[p - 1]
      <4>1. CASE p = d.position + 1
        <5>1. e.history[p] = n + 1 /\ e.history[p - 1] = d.current
          <6>1. p - 1 = d.position /\ p - 1 \in 0..d.position
            BY <4>1, <1>10
          <6>2. e.history[p - 1] = d.history[d.position]
            BY <6>1, <2>2, <1>3
          <6> QED BY <4>1, <6>2, <2>2, <1>3, <1>11
        <5>2. e.snapshots[n + 1].parent = d.current
          BY <2>2, <1>3 DEF EditedSnapshot
        <5>3. n + 1 \in 2..Len(e.snapshots)
          BY <2>2, <1>2, <1>3
        <5> QED BY <5>1, <5>2, <5>3
      <4>2. CASE p # d.position + 1
        <5>1. p \in 1..m /\ p \in 0..d.position /\ p - 1 \in 0..d.position
          BY <4>2, <2>2, <1>3, <1>10, <1>11
        <5>2. e.history[p] = d.history[p] /\ e.history[p - 1] = d.history[p - 1]
          BY <5>1, <2>2, <1>3
        <5>3. d.history[p] \in 2..n /\ d.snapshots[d.history[p]].parent = d.history[p - 1]
          BY <5>1, <2>1
        <5>4. d.history[p] \in 1..n /\ d.history[p] \in 2..Len(e.snapshots)
          BY <5>3, <1>2, <1>9
        <5>5. e.snapshots[d.history[p]] = d.snapshots[d.history[p]]
          BY <5>4, <1>2
        <5> QED BY <5>2, <5>3, <5>4, <5>5
      <4> QED BY <4>1, <4>2
    <3>3. e.history[0] = 1
      BY <2>1, <2>2, <1>3, <1>10
    <3>4. MaximumHistoryPosition(e) \in 0..e.revision
      BY <3>1, <1>2, <1>10, <1>11
    <3> QED BY <2>2, <3>1, <3>2, <3>3, <3>4, <1>3, <1>10 DEF Path
  <2>3. CASE ~Edits(r)
    <3>1. MaximumHistoryPosition(e) = m /\ DOMAIN e.history = 0..m
      <4>1. DOMAIN e.history = 0..m /\ m \in Nat
        BY <2>3, <1>4, <1>10, <1>11
      <4> QED BY <4>1, MaximumOfInterval
    <3>2. e.position \in DOMAIN e.history /\ e.history[e.position] = e.current
      BY <2>3, <1>4
    <3>3. ASSUME NEW p \in DOMAIN e.history \ {0}
          PROVE  /\ e.history[p] \in 2..Len(e.snapshots)
                 /\ e.snapshots[e.history[p]].parent = e.history[p - 1]
      <4>1. p \in 1..m
        BY <3>1
      <4> QED BY <4>1, <2>1, <2>3, <1>1, <1>4
    <3>4. m \in 0..e.revision
      BY <1>2, <1>10
    <3> QED BY <2>1, <2>3, <3>1, <3>2, <3>3, <3>4, <1>4 DEF Path
  <2> QED BY <2>2, <2>3
<1>24. Log(e)
  <2>1. ASSUME NEW t \in DOMAIN e.transactions
        PROVE  e.transactions[t].base = t - 1 /\ e.transactions[t].snapshot \in 1..Len(e.snapshots)
    <3>1. CASE t = d.revision + 1
      BY <3>1, <1>5, <1>9, <1>10 DEF TransactionRow
    <3>2. CASE t # d.revision + 1
      <4>1. t \in 1..d.revision
        BY <3>2, <1>5, <1>10
      <4>2. d.transactions[t].base = t - 1 /\ d.transactions[t].snapshot \in 1..n
        BY <4>1, <1>1, <1>8 DEF Consistent, Log
      <4> QED BY <4>1, <4>2, <1>2, <1>5, <1>9
    <3> QED BY <3>1, <3>2
  <2> QED BY <2>1, <1>2, <1>5 DEF Log
<1>25. Replayable(e) /\ UniqueRequests(e)
  <2>1. /\ DOMAIN d.idempotency = {d.transactions[t].key : t \in 1..d.revision}
        /\ \A t \in 1..d.revision : d.idempotency[d.transactions[t].key] = RowOf(d, t)
        /\ \A t, u \in 1..d.revision :
             t # u => /\ d.transactions[t].key # d.transactions[u].key
                      /\ d.transactions[t].command # d.transactions[u].command
    BY <1>8 DEF Consistent, Replayable, UniqueRequests
  <2>2. /\ e.transactions[d.revision + 1].key = r.key
        /\ e.transactions[d.revision + 1].command = r.command
    BY <1>5 DEF TransactionRow
  <2>3. 1..(d.revision + 1) = 1..d.revision \cup {d.revision + 1}
    BY <1>10
  <2>4. DOMAIN e.idempotency = {e.transactions[t].key : t \in DOMAIN e.transactions}
    BY <2>1, <2>2, <2>3, <1>5, <1>6
  <2>5. ASSUME NEW t \in DOMAIN e.transactions
        PROVE  e.idempotency[e.transactions[t].key] = RowOf(e, t)
    <3>1. CASE t = d.revision + 1
      <4>1. IdempotencyRow(d, r) = RowOf(e, d.revision + 1)
        BY <1>5 DEF IdempotencyRow, RowOf, TransactionRow
      <4> QED BY <3>1, <4>1, <2>2, <1>6
    <3>2. CASE t # d.revision + 1
      <4>1. t \in 1..d.revision
        BY <3>2, <2>3, <1>5
      <4>2. e.transactions[t] = d.transactions[t] /\ RowOf(e, t) = RowOf(d, t)
        BY <4>1, <1>5 DEF RowOf
      <4> QED BY <4>1, <4>2, <2>1, <1>6
    <3> QED BY <3>1, <3>2
  <2>6. UniqueRequests(e)
    <3> SUFFICES ASSUME NEW t \in 1..(d.revision + 1), NEW u \in 1..(d.revision + 1), t # u
                 PROVE  /\ e.transactions[t].key # e.transactions[u].key
                        /\ e.transactions[t].command # e.transactions[u].command
      BY <1>5 DEF UniqueRequests
    <3>1. ASSUME NEW v \in 1..d.revision
          PROVE  /\ e.transactions[v].key # r.key /\ e.transactions[v].command # r.command
                 /\ e.transactions[v] = d.transactions[v]
      BY <3>1, <1>5, <1>7, <1>8
    <3>2. CASE t \in 1..d.revision /\ u \in 1..d.revision
      BY <3>1, <3>2, <2>1
    <3>3. CASE t = d.revision + 1 /\ u \in 1..d.revision
      BY <3>1, <3>3, <2>2
    <3>4. CASE u = d.revision + 1 /\ t \in 1..d.revision
      BY <3>1, <3>4, <2>2
    <3> QED BY <3>2, <3>3, <3>4, <2>3
  <2> QED BY <2>4, <2>5, <2>6 DEF Replayable
<1>26. UndoneIsNext(e)
  <2> SUFFICES ASSUME r.change.kind = "history.undo"
               PROVE  /\ e.revision > 1 /\ e.position + 1 \in DOMAIN e.history
                      /\ e.history[e.position + 1] = e.transactions[e.revision - 1].snapshot
    BY <1>2, <1>5 DEF UndoneIsNext, TransactionRow
  <2>1. ~Edits(r)
    BY DEF Edits, EditKinds
  <2>2. ~(d.position <= 0)
    BY CommitFacts DEF Consistent
  <2>3. d.revision > 0 /\ e.position + 1 = d.position
    BY <2>1, <2>2, <1>4, <1>10, <1>11
  <2>4. e.transactions[e.revision - 1].snapshot = d.current
    <3>1. d.transactions[d.revision].snapshot = d.current
      BY <2>3 DEF Consistent, Log
    <3>2. d.revision \in 1..d.revision /\ e.revision - 1 = d.revision
      BY <2>3, <1>2, <1>10
    <3> QED BY <3>1, <3>2, <1>5
  <2> QED BY <2>1, <2>3, <2>4, <1>2, <1>4, <1>10, <1>11
<1>27. GraphsValid(e)
  <2> SUFFICES ASSUME d.format = V2, NEW s \in 1..Len(e.snapshots)
               PROVE  GraphValid(e.snapshots[s].nodes)
    BY <1>2 DEF GraphsValid
  <2>1. CASE s \in 1..n
    BY <2>1, <1>1, <1>2 DEF Consistent, GraphsValid
  <2>2. CASE s \notin 1..n
    <3>1. Edits(r) /\ s = n + 1
      BY <2>2, <1>2, <1>9
    <3>2. d.format # V1
      BY DEF V1, V2
    <3>3. CASE r.change.kind = "adjust.exposure"
      BY <3>1, <3>2, <3>3, <1>3, CommitFacts DEF EditedSnapshot, Consistent
    <3>4. CASE r.change.kind = "graph.replace"
      BY <3>1, <3>2, <3>4, <1>3, CommitFacts DEF EditedSnapshot, Consistent
    <3> QED BY <3>1, <3>3, <3>4 DEF Edits, EditKinds
  <2> QED BY <2>1, <2>2
<1> QED BY <1>1, <1>20, <1>21, <1>22, <1>23, <1>24, <1>25, <1>26, <1>27 DEF Consistent

(***************************************************************************)
(* Publication and migration                                               *)
(***************************************************************************)

\* A migration that passes its checks preserves every part of Consistent.
LEMMA MigrationConsistent ==
  ASSUME NEW d, Consistent(d), MigrationFits(d)
  PROVE  Consistent(Migrated(d))
<1> DEFINE e == Migrated(d)
           n == Len(d.snapshots)
<1> HIDE DEF e, n
<1>1. n = Len(d.snapshots) /\ n \in Nat /\ d.snapshots \in Seq(SnapshotRows)
      /\ DOMAIN d.snapshots = 1..n
  BY DEF n, Consistent, Typed
<1>2. /\ e.format = V2 /\ e.revision = d.revision /\ e.current = d.current
      /\ e.position = d.position /\ e.history = d.history
      /\ e.transactions = d.transactions /\ e.idempotency = d.idempotency
  BY DEF e, Migrated
<1>3. e.snapshots = [s \in 1..n |-> [parent  |-> d.snapshots[s].parent,
                                     created |-> d.snapshots[s].created,
                                     ev      |-> d.snapshots[s].ev,
                                     nodes   |-> MigratedNodes(d.snapshots[s].ev)]]
  BY <1>1 DEF e, Migrated
<1>4. ASSUME NEW s \in 1..n
      PROVE  e.snapshots[s] \in SnapshotRows /\ GraphValid(e.snapshots[s].nodes)
  <2>1. d.snapshots[s] \in SnapshotRows
    BY <1>1
  <2>2. GraphValid(MigratedNodes(d.snapshots[s].ev))
    BY <1>1 DEF MigrationFits
  <2>3. MigratedNodes(d.snapshots[s].ev) \in Nat
    BY <2>1, <2>2, MigratedNodesNat DEF SnapshotRows
  <2> QED BY <1>3, <2>1, <2>2, <2>3 DEF SnapshotRows
<1>5. e.snapshots \in Seq(SnapshotRows) /\ Len(e.snapshots) = n
  <2>1. e.snapshots \in [1..n -> SnapshotRows]
    BY <1>3, <1>4
  <2> QED BY <1>1, <2>1, SeqDef, LenProperties
<1>6. \A s \in 1..n : /\ e.snapshots[s].parent = d.snapshots[s].parent
                      /\ e.snapshots[s].created = d.snapshots[s].created
  BY <1>3
<1>7. MaximumHistoryPosition(e) = MaximumHistoryPosition(d)
  BY <1>2 DEF MaximumHistoryPosition
<1>8. Typed(e)
  BY <1>2, <1>5 DEF Consistent, Typed
<1>9. Ancestry(e)
  <2>1. n > 0 /\ d.snapshots[1].parent = NoParent /\ d.snapshots[1].created = 0
    BY <1>1 DEF Consistent, Ancestry
  <2>2. ASSUME NEW s \in 2..n
        PROVE  /\ e.snapshots[s].parent \in 1..(s - 1)
               /\ e.snapshots[e.snapshots[s].parent].created < e.snapshots[s].created
    <3>1. /\ d.snapshots[s].parent \in 1..(s - 1)
          /\ d.snapshots[d.snapshots[s].parent].created < d.snapshots[s].created
      BY <1>1 DEF Consistent, Ancestry
    <3>2. s \in 1..n /\ d.snapshots[s].parent \in 1..n
      BY <3>1, <1>1
    <3> QED BY <3>1, <3>2, <1>6
  <2> QED BY <2>1, <2>2, <1>1, <1>5, <1>6 DEF Ancestry
<1>10. Creation(e)
  <2> SUFFICES ASSUME NEW s \in 2..n
               PROVE  LET t == d.snapshots[s].created IN
                        /\ t \in DOMAIN d.transactions
                        /\ d.transactions[t].snapshot = s
                        /\ d.transactions[t].kind \in EditKinds
    BY <1>1, <1>2, <1>5, <1>6 DEF Creation
  <2> QED BY <1>1 DEF Consistent, Creation
<1>11. Path(e)
  <2>1. ASSUME NEW p \in DOMAIN d.history \ {0}
        PROVE  /\ d.history[p] \in 2..n
               /\ e.snapshots[d.history[p]].parent = d.history[p - 1]
    <3>1. d.history[p] \in 2..n /\ d.snapshots[d.history[p]].parent = d.history[p - 1]
      BY <1>1 DEF Consistent, Path
    <3>2. d.history[p] \in 1..n
      BY <3>1
    <3> QED BY <3>1, <3>2, <1>6
  <2> QED BY <2>1, <1>2, <1>5, <1>7 DEF Consistent, Path
<1>12. Log(e)
  BY <1>1, <1>2, <1>5 DEF Consistent, Log
<1>13. Replayable(e)
  BY <1>2 DEF Consistent, Replayable, RowOf
<1>14. UniqueRequests(e)
  BY <1>2 DEF Consistent, UniqueRequests
<1>15. UndoneIsNext(e)
  BY <1>2 DEF Consistent, UndoneIsNext
<1>16. GraphsValid(e)
  BY <1>4, <1>5 DEF GraphsValid
<1> QED BY <1>8, <1>9, <1>10, <1>11, <1>12, <1>13, <1>14, <1>15, <1>16 DEF e, Consistent

\* The database create commits is consistent.
LEMMA NewDatabaseConsistent == Consistent(NewDatabase)
<1> DEFINE e == NewDatabase
<1>1. /\ e.format = V1 /\ e.revision = 0 /\ e.current = 1 /\ e.position = 0
      /\ e.history = [p \in {0} |-> 1]
      /\ e.snapshots = <<[parent |-> NoParent, created |-> 0, ev |-> 0, nodes |-> 0]>>
      /\ DOMAIN e.transactions = {} /\ DOMAIN e.idempotency = {}
  BY DEF NewDatabase
<1> HIDE DEF e
<1>2. Len(e.snapshots) = 1 /\ e.snapshots \in Seq(SnapshotRows)
  <2>1. [parent |-> NoParent, created |-> 0, ev |-> 0, nodes |-> 0] \in SnapshotRows
    BY DEF SnapshotRows, NoParent
  <2> QED BY <1>1, <2>1
<1>3. MaximumHistoryPosition(e) = 0 /\ DOMAIN e.history = 0..0
  <2>1. DOMAIN e.history = 0..0
    BY <1>1
  <2> QED BY <2>1, MaximumOfInterval
<1>4. Typed(e)
  BY <1>1, <1>2, LimitsAssumption DEF Typed
<1>5. Ancestry(e) /\ Creation(e)
  BY <1>1, <1>2 DEF Ancestry, Creation
<1>6. Path(e)
  BY <1>1, <1>3 DEF Path
<1>7. Log(e) /\ UniqueRequests(e) /\ UndoneIsNext(e)
  BY <1>1, <1>2 DEF Log, UniqueRequests, UndoneIsNext
<1>8. Replayable(e)
  BY <1>1 DEF Replayable
<1>9. GraphsValid(e)
  BY <1>1 DEF GraphsValid, V1, V2
<1> QED BY <1>4, <1>5, <1>6, <1>7, <1>8, <1>9 DEF e, Consistent

\* So is every database a project is published with.
LEMMA PublishedConsistent ==
  ASSUME NEW d \in PublishedDatabases
  PROVE  Consistent(d)
<1>1. DOMAIN NewDatabase.snapshots = {1} /\ NewDatabase.snapshots[1].ev = 0
  BY DEF NewDatabase
<1>2. MigratedNodes(0) = 2
  <2>1. (0 + ExposureLimit - 1) \div ExposureLimit = 0
    BY LimitsAssumption, Z3
  <2> QED BY <2>1 DEF MigratedNodes, MinNodes
<1>3. MigrationFits(NewDatabase)
  BY <1>1, <1>2, LimitsAssumption DEF MigrationFits, GraphValid, MinNodes
<1> QED BY <1>3, NewDatabaseConsistent, MigrationConsistent DEF PublishedDatabases

\* The checks of open and verify_integrity accept every consistent database.
LEMMA ConsistentIsOpenable ==
  ASSUME NEW d, Consistent(d)
  PROVE  VerifyIntegrity(d)
<1>1. /\ d.revision \in Nat /\ d.position \in Nat
      /\ d.snapshots \in Seq(SnapshotRows)
  BY LimitsAssumption DEF Consistent, Typed
<1>2. PICK m \in 0..d.revision :
        /\ MaximumHistoryPosition(d) = m /\ DOMAIN d.history = 0..m
        /\ d.position \in 0..m /\ d.history[d.position] = d.current
  BY DEF Consistent, Path
<1>3. DOMAIN d.transactions = 1..d.revision
  BY DEF Consistent, Log
<1>4. d.current \in 1..Len(d.snapshots)
  <2>1. Len(d.snapshots) > 0 /\ d.history[0] = 1
    BY DEF Consistent, Ancestry, Path
  <2>2. CASE d.position = 0
    BY <2>1, <2>2, <1>1, <1>2
  <2>3. CASE d.position # 0
    <3>1. d.history[d.position] \in 2..Len(d.snapshots)
      BY <2>3, <1>2 DEF Consistent, Path
    <3> QED BY <3>1, <1>1, <1>2
  <2> QED BY <2>2, <2>3
<1>5. CurrentReadable(d)
  BY <1>1, <1>4 DEF CurrentReadable, Consistent, GraphsValid
<1>6. HistoryContiguous(d)
  <2>1. Cardinality(0..m) = m + 1
    BY <1>1, <1>2, FS_Interval
  <2> QED BY <2>1, <1>1, <1>2 DEF HistoryContiguous
<1>7. LogMatchesRevision(d)
  <2>1. Cardinality(1..d.revision) = d.revision
    <3>1. Cardinality(1..d.revision) = IF 1 > d.revision THEN 0 ELSE d.revision - 1 + 1
      <4>1. 1 \in Int /\ d.revision \in Int
        BY <1>1
      <4> QED BY <4>1, FS_Interval
    <3> QED BY <1>1, <3>1
  <2>2. 1..d.revision = {} => d.revision = 0
    BY <1>1
  <2>3. 1..d.revision # {} => d.revision \in 1..d.revision
    BY <1>1
  <2> QED BY <2>1, <2>2, <2>3, <1>3 DEF LogMatchesRevision
<1> QED BY <1>5, <1>6, <1>7 DEF VerifyIntegrity

(***************************************************************************)
(* Replies                                                                 *)
(***************************************************************************)

\* Every idempotency row belongs to a transaction and names one of the
\* snapshots.
LEMMA RowOfTransaction ==
  ASSUME NEW d, Consistent(d), NEW k \in DOMAIN d.idempotency
  PROVE  \E t \in DOMAIN d.transactions :
           /\ d.transactions[t].key = k
           /\ d.idempotency[k] = RowOf(d, t)
           /\ d.idempotency[k].snapshot \in 1..Len(d.snapshots)
<1>1. PICK t \in DOMAIN d.transactions : d.transactions[t].key = k
  BY DEF Consistent, Replayable
<1>2. d.idempotency[k] = RowOf(d, t)
  BY <1>1 DEF Consistent, Replayable
<1>3. d.transactions[t].snapshot \in 1..Len(d.snapshots)
  BY DEF Consistent, Log
<1> QED BY <1>1, <1>2, <1>3 DEF RowOf

\* A transaction leaves every earlier reply what it was: the row of the key and
\* the content of the snapshot it names.
LEMMA CommitKeepsReplies ==
  ASSUME NEW d, NEW r \in Requests, Consistent(d), Commits(d, r),
         NEW a, a.key \in DOMAIN d.idempotency
  PROVE  /\ a.key \in DOMAIN Committed(d, r).idempotency
         /\ ReplayResult(Committed(d, r), a) = ReplayResult(d, a)
<1> DEFINE e == Committed(d, r)
<1>1. /\ DOMAIN e.idempotency = DOMAIN d.idempotency \cup {r.key}
      /\ \A k \in DOMAIN d.idempotency : e.idempotency[k] = d.idempotency[k]
      /\ \A s \in 1..Len(d.snapshots) : e.snapshots[s] = d.snapshots[s]
  BY CommitRows
<1>2. d.idempotency[a.key].snapshot \in 1..Len(d.snapshots)
  BY RowOfTransaction
<1> HIDE DEF e
<1>3. e.idempotency[a.key] = d.idempotency[a.key]
      /\ e.snapshots[d.idempotency[a.key].snapshot] = d.snapshots[d.idempotency[a.key].snapshot]
  BY <1>1, <1>2
<1>4. ReplayResult(e, a) = ReplayResult(d, a)
  BY <1>3 DEF ReplayResult
<1> QED BY <1>1, <1>4 DEF e

\* A replay of the key answers what the transaction answered.
LEMMA CommitIsReplayed ==
  ASSUME NEW d, NEW r \in Requests, Consistent(d), Commits(d, r), NEW a, a.key = r.key
  PROVE  /\ r.key \in DOMAIN Committed(d, r).idempotency
         /\ ReplayResult(Committed(d, r), a) = FirstResult(Committed(d, r), r)
<1> DEFINE e == Committed(d, r)
<1>1. /\ e.revision = d.revision + 1 /\ r.key \in DOMAIN e.idempotency
      /\ e.idempotency[r.key] = IdempotencyRow(d, r) /\ NextCurrent(d, r) = e.current
  BY CommitRows
<1>2. d.revision \in Nat
  BY DEF Consistent, Typed
<1>3. d.revision = e.revision - 1
  BY <1>1, <1>2
<1> HIDE DEF e
<1>4. e.idempotency[r.key] =
        [fingerprint |-> Fingerprint(r), command |-> r.command, base |-> e.revision - 1,
         new |-> e.revision, snapshot |-> e.current]
  BY <1>1, <1>2, <1>3 DEF IdempotencyRow
<1>5. ReplayResult(e, a) = FirstResult(e, r)
  BY <1>4 DEF ReplayResult, FirstResult
<1> QED BY <1>1, <1>5 DEF e
=============================================================================
