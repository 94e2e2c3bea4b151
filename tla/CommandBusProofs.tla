-------------------------- MODULE CommandBusProofs --------------------------
(***************************************************************************)
(* What is proved about CommandBus for any number of callers, keys,        *)
(* commands and lost answers: the results callers are given, and that the  *)
(* bus keeps the promise of ExactlyOnce, step by step.                     *)
(***************************************************************************)
EXTENDS CommandBus, ProjectTablesProofs

(***************************************************************************)
(* The inductive invariant                                                 *)
(***************************************************************************)

BusTypes ==
  /\ pending \in [Callers -> [change : Changes, document : {"this", "other"}, key : Keys,
                              expected : -1..MaxRevision]]
  /\ used \in [Callers -> SUBSET Keys]
  /\ tried \in [Callers -> SUBSET (-1..MaxRevision)]
  /\ verdict \in [Callers -> {"waiting", "done", "refused"}]
  /\ DOMAIN result = Callers

\* Every key of the log was used by one caller, and no two callers share one.
KeysAreOwned ==
  /\ \A c \in Callers : pending[c].key \in used[c]
  /\ \A b, c \in Callers : b # c => used[b] \cap used[c] = {}
  /\ \A k \in DOMAIN db.idempotency : \E c \in Callers : k \in used[c]

\* A key that a caller gave up was refused with a conflict and never committed.
OldKeysAreFree ==
  \A c \in Callers : \A k \in used[c] :
    k # pending[c].key => k \notin DOMAIN db.idempotency

\* A payload with expected revision e passes every check that does not depend
\* on the state of the project, or on its format alone.
Sound(d, p, e) ==
  /\ p.key # Empty
  /\ e \in 0..MaxSafeRevision
  /\ p.change.kind = "adjust.exposure" => p.change.ev \in -ExposureLimit .. ExposureLimit
  /\ p.change.kind = "graph.replace" => GraphValid(p.change.nodes) /\ d.format = V2
  /\ p.document = "this"

\* When the change of a waiting caller took effect, the caller remembers the
\* payload that did it.
TriedIsRemembered ==
  \A c \in Callers : Waiting(c) /\ pending[c].key \in DOMAIN db.idempotency =>
    \E e \in tried[c] :
      /\ db.idempotency[pending[c].key].fingerprint = <<e, pending[c].change>>
      /\ Sound(db, pending[c], e)

\* The log says of each transaction what its payload asked for.
Recorded(d) ==
  \A t \in DOMAIN d.transactions :
    LET row == d.transactions[t]
        s   == d.snapshots[row.snapshot]
    IN  /\ row.kind = row.fingerprint[2].kind
        /\ row.kind = "adjust.exposure" =>
             /\ row.snapshot \in 2..Len(d.snapshots)
             /\ s.ev = RoundEV(d.snapshots[s.parent].ev + row.fingerprint[2].ev)

BusInv ==
  /\ Consistent(db)
  /\ Recorded(db)
  /\ BusTypes
  /\ KeysAreOwned
  /\ OldKeysAreFree
  /\ TriedIsRemembered
  /\ ResultIsCommitted

(***************************************************************************)
(* Answers                                                                 *)
(***************************************************************************)

\* What a caller sends is a request.
LEMMA CommandIsRequest ==
  ASSUME BusTypes, NEW c \in Callers, NEW id \in CommandIds
  PROVE  /\ Command(c, id) \in Requests
         /\ Command(c, id).command = id /\ id # Empty
         /\ Command(c, id).key = pending[c].key
         /\ Command(c, id).expected = pending[c].expected
         /\ Command(c, id).change = pending[c].change
BY CallersAssumption DEF Command, BusTypes, Requests

\* A CommitResult is the answer to a command that commits or replays.
LEMMA AnswerIsResult ==
  ASSUME NEW c \in Callers, NEW r, Answer(c, r) = ""
  PROVE  ~ Invalid(c, r) /\ (Commits(db, r) \/ Replays(db, r))
<1>1. ~ Invalid(c, r)
  BY DEF Answer
<1>2. CASE ~ (Commits(db, r) \/ Replays(db, r))
  <2>1. Refusal(db, r) = ""
    BY <1>1, <1>2 DEF Answer
  <2>2. SchemaRefusal(db, r) = "" /\ ~ Known(db, r) /\ TransactionRefusal(db, r) = ""
    BY <2>1 DEF Refusal
  <2> QED
    BY <1>2, <2>2 DEF Commits
<1> QED
  BY <1>1, <1>2

\* The answer REV_CONFLICT means that the key is new.
LEMMA ConflictMeansNew ==
  ASSUME NEW c \in Callers, NEW r, Answer(c, r) = "REV_CONFLICT"
  PROVE  r.key \notin DOMAIN db.idempotency
<1>1. Refusal(db, r) = "REV_CONFLICT"
  BY DEF Answer
<1>2. SchemaRefusal(db, r) # "REV_CONFLICT"
  BY DEF SchemaRefusal
<1> QED
  BY <1>1, <1>2 DEF Refusal, Known

\* A command that commits is sound.
LEMMA CommitIsSound ==
  ASSUME BusTypes, NEW c \in Callers, NEW id \in CommandIds,
         ~ Invalid(c, Command(c, id)), Commits(db, Command(c, id))
  PROVE  Sound(db, pending[c], pending[c].expected)
<1> DEFINE r == Command(c, id)
<1>1. /\ r.key = pending[c].key /\ r.expected = pending[c].expected
      /\ r.change = pending[c].change
  BY CommandIsRequest
<1>2. pending[c].expected \in Int /\ pending[c].document \in {"this", "other"}
  BY LimitsAssumption DEF BusTypes
<1>3. ~ Malformed(r) /\ ~ (r.expected > MaxSafeRevision) /\ pending[c].document = "this"
  BY DEF Invalid
<1>4. r.change.kind = "graph.replace" => GraphValid(r.change.nodes) /\ db.format = V2
  BY <1>3 DEF Invalid, Commits, SchemaRefusal
<1> HIDE DEF r
<1> QED
  BY <1>1, <1>2, <1>3, <1>4, CallersAssumption DEF Sound, Malformed

\* While the payload is sound, a known key is answered with the result of its
\* transaction or with an error about the payload.
LEMMA KnownIsAnswered ==
  ASSUME BusTypes, NEW c \in Callers, NEW id \in CommandIds,
         pending[c].key \in DOMAIN db.idempotency,
         NEW e, Sound(db, pending[c], e),
         db.idempotency[pending[c].key].fingerprint = <<e, pending[c].change>>
  PROVE  /\ ~ Commits(db, Command(c, id))
         /\ Answer(c, Command(c, id)) = "" \/ Answer(c, Command(c, id)) \in AboutPayload
         /\ pending[c].expected = e => Answer(c, Command(c, id)) = ""
<1> DEFINE r == Command(c, id)
<1>1. /\ r.key = pending[c].key /\ r.expected = pending[c].expected
      /\ r.change = pending[c].change /\ r.command = id /\ id # Empty
  BY CommandIsRequest
<1> HIDE DEF r
<1>2. Known(db, r) /\ ~ Commits(db, r)
  BY <1>1 DEF Known, Commits
<1>3. SchemaRefusal(db, r) \in {"", "CMD_SCHEMA_INVALID"}
  BY <1>1 DEF Sound, SchemaRefusal
<1>4. Answer(c, r) = "" \/ Answer(c, r) \in AboutPayload
  BY <1>2, <1>3 DEF Answer, Refusal, AboutPayload
<1>5. ASSUME pending[c].expected = e PROVE Answer(c, r) = ""
  <2>1. ~ Malformed(r) /\ e <= MaxSafeRevision
    BY <1>1, <1>5 DEF Malformed, Sound
  <2>2. ~ Invalid(c, r)
    BY <1>1, <1>5, <2>1, CallersAssumption DEF Invalid, Sound
  <2>3. Replays(db, r)
    BY <1>1, <1>2, <1>5, <2>1 DEF Replays, SchemaRefusal, Sound, Fingerprint
  <2> QED
    BY <2>2, <2>3 DEF Answer
<1> QED
  BY <1>2, <1>4, <1>5 DEF r

(***************************************************************************)
(* Transactions                                                            *)
(***************************************************************************)

\* The row and the snapshot of a transaction say what its payload asked for.
LEMMA CommitRecords ==
  ASSUME NEW d, NEW r \in Requests, Consistent(d), Recorded(d), Commits(d, r)
  PROVE  Recorded(Committed(d, r))
<1> DEFINE e == Committed(d, r)
           n == Len(d.snapshots)
<1>1. /\ n \in Nat \ {0} /\ d.current \in 1..n
      /\ Edits(r) => /\ e.current = n + 1 /\ Len(e.snapshots) = n + 1
                     /\ e.snapshots[n + 1] = EditedSnapshot(d, r)
      /\ ~ Edits(r) => e.snapshots = d.snapshots
      /\ \A s \in 1..n : e.snapshots[s] = d.snapshots[s]
      /\ DOMAIN e.transactions = 1..(d.revision + 1)
      /\ e.transactions[d.revision + 1] = TransactionRow(d, r)
      /\ \A t \in 1..d.revision : e.transactions[t] = d.transactions[t]
      /\ NextCurrent(d, r) = e.current
  BY CommitRows
<1>2. d.revision \in Nat /\ DOMAIN d.transactions = 1..d.revision
  BY DEF Consistent, Typed, Log
<1>3. \A s \in 2..n : d.snapshots[s].parent \in 1..n
  BY <1>1 DEF Consistent, Ancestry
<1> HIDE DEF e, n
<1>4. n = Len(d.snapshots) /\ n <= Len(e.snapshots)
  BY <1>1 DEF n
<1> SUFFICES ASSUME NEW t \in DOMAIN e.transactions
             PROVE  LET row == e.transactions[t]
                        s   == e.snapshots[row.snapshot]
                    IN  /\ row.kind = row.fingerprint[2].kind
                        /\ row.kind = "adjust.exposure" =>
                             /\ row.snapshot \in 2..Len(e.snapshots)
                             /\ s.ev = RoundEV(e.snapshots[s.parent].ev + row.fingerprint[2].ev)
  BY DEF Recorded, e
<1>5. CASE t = d.revision + 1
  <2> DEFINE row == e.transactions[t]
  <2>1. /\ row.kind = r.change.kind /\ row.fingerprint = <<r.expected, r.change>>
        /\ row.snapshot = e.current
    BY <1>1, <1>5 DEF TransactionRow, Fingerprint
  <2>2. ASSUME r.change.kind = "adjust.exposure"
        PROVE  /\ row.snapshot \in 2..Len(e.snapshots)
               /\ e.snapshots[row.snapshot].parent = d.current
               /\ e.snapshots[row.snapshot].ev = RoundEV(d.snapshots[d.current].ev + r.change.ev)
    <3>1. Edits(r)
      BY <2>2 DEF Edits, EditKinds
    <3>2. row.snapshot = n + 1 /\ Len(e.snapshots) = n + 1
      BY <1>1, <2>1, <3>1
    <3>3. /\ e.snapshots[n + 1].parent = d.current
          /\ e.snapshots[n + 1].ev = RoundEV(d.snapshots[d.current].ev + r.change.ev)
      BY <1>1, <2>2, <3>1 DEF EditedSnapshot
    <3> HIDE DEF row
    <3> QED
      BY <1>1, <3>2, <3>3
  <2>3. d.snapshots[d.current] = e.snapshots[d.current]
    BY <1>1
  <2> HIDE DEF row
  <2>4. /\ row.kind = row.fingerprint[2].kind
        /\ row.kind = "adjust.exposure" =>
             /\ row.snapshot \in 2..Len(e.snapshots)
             /\ e.snapshots[row.snapshot].ev =
                  RoundEV(e.snapshots[e.snapshots[row.snapshot].parent].ev + row.fingerprint[2].ev)
    BY <2>1, <2>2, <2>3
  <2> QED
    BY <2>4 DEF row
<1>6. CASE t # d.revision + 1
  <2> DEFINE row == d.transactions[t]
  <2>1. t \in DOMAIN d.transactions /\ e.transactions[t] = row
    BY <1>1, <1>2, <1>6
  <2>2. /\ row.kind = row.fingerprint[2].kind
        /\ row.kind = "adjust.exposure" =>
             /\ row.snapshot \in 2..n
             /\ d.snapshots[row.snapshot].ev =
                  RoundEV(d.snapshots[d.snapshots[row.snapshot].parent].ev + row.fingerprint[2].ev)
    BY <1>4, <2>1 DEF Recorded
  <2>3. ASSUME row.kind = "adjust.exposure"
        PROVE  /\ row.snapshot \in 2..Len(e.snapshots)
               /\ e.snapshots[row.snapshot] = d.snapshots[row.snapshot]
               /\ e.snapshots[d.snapshots[row.snapshot].parent] =
                    d.snapshots[d.snapshots[row.snapshot].parent]
    <3> HIDE DEF row
    <3>1. row.snapshot \in 2..n /\ row.snapshot \in 1..n
      BY <1>1, <2>2, <2>3
    <3>2. row.snapshot \in 2..Len(e.snapshots)
      <4>1. Len(e.snapshots) \in {n, n + 1}
        BY <1>1, <1>4
      <4> QED
        BY <1>1, <3>1, <4>1
    <3> QED
      BY <1>1, <1>3, <3>1, <3>2
  <2> HIDE DEF row
  <2> QED
    BY <2>1, <2>2, <2>3
<1> QED
  BY <1>5, <1>6

(***************************************************************************)
(* Results                                                                 *)
(***************************************************************************)

\* What ResultIsCommitted says of one caller: res is the result of the change
\* of p, under a key of u, as the log of d has it.
Right(d, p, u, res) ==
  /\ res.new \in DOMAIN d.transactions
  /\ d.transactions[res.new].key \in u
  /\ d.transactions[res.new].kind = p.change.kind
  /\ res.snapshot = d.transactions[res.new].snapshot
  /\ res.content = d.snapshots[d.transactions[res.new].snapshot]
  /\ res.base = res.new - 1
  /\ p.change.kind = "adjust.exposure" =>
       res.content.ev = RoundEV(d.snapshots[res.content.parent].ev + p.change.ev)

\* ResultIsCommitted, said with Right: the rest of the module speaks of values.
LEMMA ResultIsRight ==
  ResultIsCommitted <=>
    \A c \in Callers : verdict[c] = "done" => Right(db, pending[c], used[c], result[c])
BY DEF ResultIsCommitted, Right

\* The result rebuilt from an idempotency row with the fingerprint of the
\* command is right.
LEMMA ReplayIsRight ==
  ASSUME NEW d, Consistent(d), Recorded(d), NEW r, r.key \in DOMAIN d.idempotency,
         d.idempotency[r.key].fingerprint = Fingerprint(r),
         NEW p, p.change = r.change, NEW u, r.key \in u
  PROVE  Right(d, p, u, ReplayResult(d, r))
<1>1. PICK t \in DOMAIN d.transactions :
        d.transactions[t].key = r.key /\ d.idempotency[r.key] = RowOf(d, t)
  BY RowOfTransaction
<1> DEFINE row == d.transactions[t]
           res == ReplayResult(d, r)
<1>2. /\ res.new = t /\ res.base = row.base /\ res.snapshot = row.snapshot
      /\ res.content = d.snapshots[row.snapshot]
      /\ row.fingerprint = <<r.expected, r.change>>
  BY <1>1 DEF RowOf, ReplayResult, Fingerprint
<1>3. row.base = t - 1
  BY DEF Consistent, Log
<1>4. /\ row.kind = row.fingerprint[2].kind
      /\ row.kind = "adjust.exposure" =>
           d.snapshots[row.snapshot].ev =
             RoundEV(d.snapshots[d.snapshots[row.snapshot].parent].ev + row.fingerprint[2].ev)
  BY DEF Recorded
<1>5. row.key = r.key
  BY <1>1
<1> HIDE DEF row, res
<1>6. row = d.transactions[t]
  BY DEF row
<1>7. row.kind = r.change.kind
  BY <1>2, <1>4
<1>8. r.change.kind = "adjust.exposure" =>
        res.content.ev = RoundEV(d.snapshots[res.content.parent].ev + r.change.ev)
  BY <1>2, <1>4, <1>7
<1>9. Right(d, p, u, res)
  BY <1>2, <1>3, <1>5, <1>6, <1>7, <1>8 DEF Right
<1> QED
  BY <1>9 DEF res

\* So is the result of the call that commits.
LEMMA FirstIsRight ==
  ASSUME NEW d, NEW r \in Requests, Consistent(d), Recorded(d), Commits(d, r),
         NEW p, p.change = r.change, NEW u, r.key \in u
  PROVE  Right(Committed(d, r), p, u, FirstResult(Committed(d, r), r))
<1> DEFINE e == Committed(d, r)
<1>1. Consistent(e) /\ Recorded(e)
  BY CommitConsistent, CommitRecords
<1>2. r.key \in DOMAIN e.idempotency /\ e.idempotency[r.key] = IdempotencyRow(d, r)
  BY CommitRows
<1>3. e.idempotency[r.key].fingerprint = Fingerprint(r)
  BY <1>2 DEF IdempotencyRow
<1>4. ReplayResult(e, r) = FirstResult(e, r)
  BY CommitIsReplayed
<1> HIDE DEF e
<1>5. Right(e, p, u, ReplayResult(e, r))
  BY <1>1, <1>2, <1>3, ReplayIsRight
<1> QED
  BY <1>4, <1>5 DEF e

\* A right result stays right when another transaction commits.
LEMMA RightStays ==
  ASSUME NEW d, NEW r \in Requests, Consistent(d), Recorded(d), Commits(d, r),
         NEW p, NEW u, NEW res, Right(d, p, u, res)
  PROVE  Right(Committed(d, r), p, u, res)
<1> DEFINE e == Committed(d, r)
           n == Len(d.snapshots)
           t == res.new
<1>1. /\ n \in Nat \ {0}
      /\ \A s \in 1..n : e.snapshots[s] = d.snapshots[s]
      /\ DOMAIN e.transactions = 1..(d.revision + 1)
      /\ \A v \in 1..d.revision : e.transactions[v] = d.transactions[v]
  BY CommitRows
<1>2. d.revision \in Nat /\ DOMAIN d.transactions = 1..d.revision /\ t \in 1..d.revision
  BY DEF Consistent, Typed, Log, Right
<1>3. d.transactions[t].snapshot \in 1..n
  BY <1>2 DEF Consistent, Log
<1>4. ASSUME p.change.kind = "adjust.exposure"
      PROVE  res.content.parent \in 1..n
  <2>1. d.transactions[t].snapshot \in 2..n /\ res.content = d.snapshots[d.transactions[t].snapshot]
    BY <1>2, <1>4 DEF Right, Recorded
  <2> HIDE DEF t, n
  <2>2. \A s \in 2..n : d.snapshots[s].parent \in 1..(s - 1)
    BY DEF Consistent, Ancestry, n
  <2>3. d.snapshots[d.transactions[t].snapshot].parent \in 1..(d.transactions[t].snapshot - 1)
    BY <2>1, <2>2
  <2> QED
    BY <1>1, <2>1, <2>3
<1> HIDE DEF e, n
<1>5. t \in DOMAIN e.transactions /\ e.transactions[t] = d.transactions[t]
  BY <1>1, <1>2
<1>6. e.snapshots[d.transactions[t].snapshot] = d.snapshots[d.transactions[t].snapshot]
  BY <1>1, <1>3
<1>7. p.change.kind = "adjust.exposure" =>
        e.snapshots[res.content.parent] = d.snapshots[res.content.parent]
  BY <1>1, <1>4
<1>8. Right(e, p, u, res)
  BY <1>5, <1>6, <1>7 DEF Right
<1> QED
  BY <1>8 DEF e

(***************************************************************************)
(* The actions                                                             *)
(***************************************************************************)

\* What a call may do to the database.
Moves(c, id) ==
  \/ db' = db
  \/ Commits(db, Command(c, id)) /\ db' = Committed(db, Command(c, id))

\* What holds of the database after a call: at most the key of the call is new.
LEMMA DatabaseMoves ==
  ASSUME BusInv, NEW c \in Callers, NEW id \in CommandIds, Moves(c, id)
  PROVE  /\ Consistent(db') /\ Recorded(db')
         /\ db'.format = db.format /\ db'.revision \in 0..MaxRevision
         /\ DOMAIN db.idempotency \subseteq DOMAIN db'.idempotency
         /\ DOMAIN db'.idempotency \subseteq DOMAIN db.idempotency \cup {pending[c].key}
         /\ \A k \in DOMAIN db.idempotency : db'.idempotency[k] = db.idempotency[k]
         /\ \A b \in Callers : verdict[b] = "done" => Right(db', pending[b], used[b], result[b])
<1> DEFINE r == Command(c, id)
<1>1. r \in Requests /\ r.key = pending[c].key
  BY CommandIsRequest DEF BusInv
<1>2. /\ Consistent(db) /\ Recorded(db) /\ db.revision \in 0..MaxRevision
      /\ \A b \in Callers : verdict[b] = "done" => Right(db, pending[b], used[b], result[b])
  BY ResultIsRight DEF BusInv, Consistent, Typed
<1>3. CASE db' = db
  BY <1>2, <1>3
<1>4. CASE Commits(db, r) /\ db' = Committed(db, r)
  <2> DEFINE d == db
             e == db'
  <2>1. Consistent(d) /\ Recorded(d) /\ Commits(d, r) /\ e = Committed(d, r)
    BY <1>2, <1>4
  <2> HIDE DEF d, e, r
  <2>2. Consistent(e) /\ Recorded(e)
    BY <1>1, <2>1, CommitConsistent, CommitRecords
  <2>3. e.revision \in 0..MaxRevision
    BY <2>2 DEF Consistent, Typed
  <2>4. /\ e.format = d.format
        /\ DOMAIN e.idempotency = DOMAIN d.idempotency \cup {r.key}
        /\ \A k \in DOMAIN d.idempotency : e.idempotency[k] = d.idempotency[k]
    BY <1>1, <2>1, CommitRows
  <2>5. \A b \in Callers : verdict[b] = "done" => Right(e, pending[b], used[b], result[b])
    <3> SUFFICES ASSUME NEW b \in Callers, verdict[b] = "done"
                 PROVE  Right(e, pending[b], used[b], result[b])
      OBVIOUS
    <3> DEFINE p   == pending[b]
               u   == used[b]
               res == result[b]
    <3>1. Right(d, p, u, res)
      BY <1>2 DEF d
    <3> HIDE DEF p, u, res
    <3>2. Right(e, p, u, res)
      BY <1>1, <2>1, <3>1, RightStays
    <3> QED
      BY <3>2 DEF p, u, res
  <2> QED
    BY <1>1, <2>2, <2>3, <2>4, <2>5 DEF d, e
<1> QED
  BY <1>3, <1>4 DEF Moves

\* Nobody else's key is the one of this call.
LEMMA KeysDiffer ==
  ASSUME KeysAreOwned, NEW b \in Callers, NEW c \in Callers, b # c
  PROVE  pending[c].key \notin used[b] /\ pending[b].key # pending[c].key
BY DEF KeysAreOwned

\* A published project has no transactions, and the first keys are all different.
LEMMA InitBus == Init => BusInv
<1> SUFFICES ASSUME Init PROVE BusInv
  OBVIOUS
<1>1. FirstKey \in [Callers -> Keys] /\ \A b, c \in Callers : b # c => FirstKey[b] # FirstKey[c]
  BY CallersAssumption DEF FirstKey
<1>2. Consistent(db)
  BY PublishedConsistent DEF Init
<1>3. DOMAIN db.transactions = {} /\ DOMAIN db.idempotency = {}
  BY DEF Init, PublishedDatabases, NewDatabase, Migrated
<1>4. Recorded(db)
  BY <1>3 DEF Recorded
<1>5. BusTypes
  <2>1. pending \in [Callers -> [change : Changes, document : {"this", "other"}, key : Keys,
                                 expected : FirstExpected]]
    BY DEF Init
  <2>2. pending \in [Callers -> [change : Changes, document : {"this", "other"}, key : Keys,
                                 expected : -1..MaxRevision]]
    BY <2>1, CallersAssumption
  <2>3. used \in [Callers -> SUBSET Keys] /\ tried \in [Callers -> SUBSET (-1..MaxRevision)]
    BY <1>1 DEF Init
  <2>4. verdict \in [Callers -> {"waiting", "done", "refused"}] /\ DOMAIN result = Callers
    BY DEF Init
  <2> QED
    BY <2>2, <2>3, <2>4 DEF BusTypes
<1>6. KeysAreOwned
  BY <1>1, <1>3 DEF Init, KeysAreOwned
<1>7. OldKeysAreFree /\ TriedIsRemembered
  BY <1>3 DEF OldKeysAreFree, TriedIsRemembered
<1>8. ResultIsCommitted
  BY DEF Init, ResultIsCommitted
<1> QED
  BY <1>2, <1>4, <1>5, <1>6, <1>7, <1>8 DEF BusInv

\* A caller that is told it succeeded: its result is in the log, whether its
\* transaction has just been committed or is found again.
LEMMA SucceedStep ==
  ASSUME BusInv, NEW c \in Callers, NEW id \in CommandIds, Succeed(c, id)
  PROVE  BusInv' /\ Moves(c, id)
<1> DEFINE r == Command(c, id)
<1>1. /\ r \in Requests /\ r.key = pending[c].key /\ r.change = pending[c].change
      /\ r.key \in used[c]
  BY CommandIsRequest DEF BusInv, KeysAreOwned
<1>2. Commits(db, r) \/ Replays(db, r)
  BY AnswerIsResult DEF Succeed
<1>3. db' = IF Commits(db, r) THEN Committed(db, r) ELSE db
  BY DEF Succeed, After
<1>4. Moves(c, id)
  BY <1>3 DEF Moves
<1>5. /\ pending' = pending /\ used' = used /\ tried' = tried
      /\ verdict' = [verdict EXCEPT ![c] = "done"]
      /\ result' = [result EXCEPT ![c] = ResultOf(r)]
  BY DEF Succeed
<1>6. /\ Consistent(db') /\ Recorded(db') /\ db'.format = db.format
      /\ DOMAIN db'.idempotency \subseteq DOMAIN db.idempotency \cup {pending[c].key}
      /\ \A k \in DOMAIN db.idempotency : db'.idempotency[k] = db.idempotency[k]
      /\ \A b \in Callers : verdict[b] = "done" => Right(db', pending[b], used[b], result[b])
  BY <1>4, DatabaseMoves
<1>7. BusTypes'
  BY <1>5 DEF BusInv, BusTypes
<1>8. KeysAreOwned'
  BY <1>5, <1>6 DEF BusInv, KeysAreOwned
<1>9. OldKeysAreFree'
  BY <1>5, <1>6, KeysDiffer DEF BusInv, OldKeysAreFree
<1>10. TriedIsRemembered'
  <2> SUFFICES ASSUME NEW b \in Callers, Waiting(b)', pending[b].key \in DOMAIN db'.idempotency
               PROVE  \E e \in tried[b] :
                        /\ db'.idempotency[pending[b].key].fingerprint = <<e, pending[b].change>>
                        /\ Sound(db', pending[b], e)
    BY <1>5 DEF TriedIsRemembered, Sound
  <2>1. b # c /\ Waiting(b)
    BY <1>5 DEF Waiting, BusInv, BusTypes
  <2>2. pending[b].key \in DOMAIN db.idempotency
    BY <1>6, <2>1, KeysDiffer DEF BusInv
  <2>3. PICK e \in tried[b] :
          /\ db.idempotency[pending[b].key].fingerprint = <<e, pending[b].change>>
          /\ Sound(db, pending[b], e)
    BY <2>1, <2>2 DEF BusInv, TriedIsRemembered
  <2> QED
    BY <1>6, <2>2, <2>3 DEF Sound
<1>11. ResultIsCommitted'
  <2>1. Right(db', pending[c], used[c], ResultOf(r))
    <3> DEFINE d == db
               p == pending[c]
               u == used[c]
    <3>1. Consistent(d) /\ Recorded(d) /\ p.change = r.change /\ r.key \in u
      BY <1>1 DEF BusInv
    <3>2. CASE Commits(db, r)
      <4>1. Commits(d, r) /\ db' = Committed(d, r) /\ ResultOf(r) = FirstResult(Committed(d, r), r)
        BY <1>3, <3>2 DEF ResultOf
      <4> HIDE DEF d, p, u, r
      <4>2. Right(Committed(d, r), p, u, FirstResult(Committed(d, r), r))
        BY <1>1, <3>1, <4>1, FirstIsRight
      <4> QED
        BY <4>1, <4>2 DEF p, u
    <3>3. CASE ~ Commits(db, r)
      <4>1. db' = d /\ ResultOf(r) = ReplayResult(d, r)
        BY <1>3, <3>3 DEF ResultOf
      <4>2. r.key \in DOMAIN d.idempotency /\ d.idempotency[r.key].fingerprint = Fingerprint(r)
        BY <1>2, <3>3 DEF Replays, Known
      <4> HIDE DEF d, p, u, r
      <4>3. Right(d, p, u, ReplayResult(d, r))
        BY <3>1, <4>2, ReplayIsRight
      <4> QED
        BY <4>1, <4>3 DEF p, u
    <3> QED
      BY <3>2, <3>3
  <2>2. \A b \in Callers : verdict'[b] = "done" => Right(db', pending'[b], used'[b], result'[b])
    BY <1>5, <1>6, <2>1 DEF BusInv, BusTypes
  <2> QED
    BY <2>2 DEF ResultIsCommitted, Right
<1> QED
  BY <1>4, <1>6, <1>7, <1>8, <1>9, <1>10, <1>11 DEF BusInv, Consistent, Recorded, Typed, Ancestry,
    Creation, Path, Log, Replayable, UniqueRequests, UndoneIsNext, GraphsValid, RowOf

\* A rebuilt command has a key nobody used; the key given up never committed.
LEMMA ConflictStep ==
  ASSUME BusInv, NEW c \in Callers, NEW id \in CommandIds, Conflict(c, id)
  PROVE  BusInv'
<1> DEFINE k == CHOOSE k \in FreshKeys(used) : TRUE
           next == [pending[c] EXCEPT !.key = k, !.expected = db.revision]
<1>1. k \in Keys /\ \A b \in Callers : k \notin used[b]
  BY DEF Conflict, FreshKeys
<1>2. /\ db' = db /\ verdict' = verdict /\ result' = result /\ verdict[c] = "waiting"
      /\ used' = [used EXCEPT ![c] = @ \cup {k}]
      /\ pending' = [pending EXCEPT ![c] = next]
      /\ tried' = [tried EXCEPT ![c] = {}]
  BY DEF Conflict, Waiting
<1>3. pending[c].key \notin DOMAIN db.idempotency
  <2>1. Answer(c, Command(c, id)) = "REV_CONFLICT"
    BY DEF Conflict
  <2> QED
    BY <2>1, ConflictMeansNew, CommandIsRequest DEF BusInv
<1>4. k \notin DOMAIN db.idempotency
  BY <1>1 DEF BusInv, KeysAreOwned
<1>5. /\ next \in [change : Changes, document : {"this", "other"}, key : Keys,
                   expected : -1..MaxRevision]
      /\ next.key = k
  <2>1. db.revision \in -1..MaxRevision
    BY LimitsAssumption DEF BusInv, Consistent, Typed
  <2> QED
    BY <1>1, <2>1 DEF BusInv, BusTypes
<1> HIDE DEF k, next
<1>6. /\ \A b \in Callers : b # c => /\ pending'[b] = pending[b] /\ used'[b] = used[b]
                                     /\ tried'[b] = tried[b]
      /\ pending'[c] = next /\ used'[c] = used[c] \cup {k}
  BY <1>2 DEF BusInv, BusTypes
<1>7. BusTypes'
  BY <1>1, <1>2, <1>5 DEF BusInv, BusTypes
<1>8. KeysAreOwned'
  <2>1. \A b \in Callers : pending'[b].key \in used'[b]
    BY <1>5, <1>6 DEF BusInv, KeysAreOwned
  <2>2. \A a, b \in Callers : a # b => used'[a] \cap used'[b] = {}
    BY <1>1, <1>6 DEF BusInv, KeysAreOwned
  <2>3. \A j \in DOMAIN db'.idempotency : \E b \in Callers : j \in used'[b]
    BY <1>2, <1>6 DEF BusInv, KeysAreOwned
  <2> QED
    BY <2>1, <2>2, <2>3 DEF KeysAreOwned
<1>9. OldKeysAreFree'
  <2>1. \A b \in Callers : \A j \in used'[b] :
          j # pending'[b].key => j \notin DOMAIN db.idempotency
    BY <1>3, <1>5, <1>6 DEF BusInv, OldKeysAreFree
  <2> QED
    BY <1>2, <2>1 DEF OldKeysAreFree
<1>10. TriedIsRemembered'
  <2>1. \A b \in Callers : verdict[b] = "waiting" /\ pending'[b].key \in DOMAIN db.idempotency =>
          b # c /\ \E e \in tried[b] :
            /\ db.idempotency[pending[b].key].fingerprint = <<e, pending[b].change>>
            /\ Sound(db, pending[b], e)
    BY <1>4, <1>5, <1>6 DEF BusInv, TriedIsRemembered, Waiting
  <2> QED
    BY <1>2, <1>6, <2>1 DEF TriedIsRemembered, Waiting, Sound
<1>11. ResultIsCommitted'
  <2>1. \A b \in Callers : verdict[b] = "done" => b # c /\ Right(db, pending[b], used[b], result[b])
    BY <1>2, ResultIsRight DEF BusInv
  <2>2. \A b \in Callers :
          verdict'[b] = "done" => Right(db', pending'[b], used'[b], result'[b])
    BY <1>2, <1>6, <2>1
  <2> QED
    BY <2>2 DEF ResultIsCommitted, Right
<1>12. Consistent(db') /\ Recorded(db')
  BY <1>2 DEF BusInv
<1> QED
  BY <1>12, <1>7, <1>8, <1>9, <1>10, <1>11 DEF BusInv, Consistent, Recorded, Typed, Ancestry,
    Creation, Path, Log, Replayable, UniqueRequests, UndoneIsNext, GraphsValid, RowOf

\* A caller that falls back keeps the payload that took effect, if one did.
LEMMA FallBackStep ==
  ASSUME BusInv, NEW c \in Callers, NEW id \in CommandIds, FallBack(c, id)
  PROVE  BusInv'
<1>1. PICK x \in Others(c) : pending' = [pending EXCEPT ![c].expected = x]
  BY DEF FallBack
<1> DEFINE next == [pending[c] EXCEPT !.expected = x]
<1>2. /\ db' = db /\ verdict' = verdict /\ result' = result /\ used' = used
      /\ verdict[c] = "waiting"
      /\ pending' = [pending EXCEPT ![c] = next]
      /\ tried' = [tried EXCEPT ![c] = Others(c)]
  BY <1>1 DEF FallBack, Waiting
<1>3. Others(c) \subseteq tried[c] /\ tried[c] \subseteq -1..MaxRevision
  BY DEF Others, BusInv, BusTypes
<1>4. /\ next \in [change : Changes, document : {"this", "other"}, key : Keys,
                   expected : -1..MaxRevision]
      /\ next.key = pending[c].key /\ next.change = pending[c].change
      /\ next.document = pending[c].document
  BY <1>3 DEF BusInv, BusTypes
<1> HIDE DEF next
<1>5. /\ \A b \in Callers : b # c => pending'[b] = pending[b] /\ tried'[b] = tried[b]
      /\ pending'[c] = next /\ tried'[c] = Others(c)
  BY <1>2 DEF BusInv, BusTypes
<1>6. BusTypes'
  BY <1>2, <1>3, <1>4 DEF BusInv, BusTypes
<1>7. KeysAreOwned' /\ OldKeysAreFree'
  BY <1>2, <1>4, <1>5 DEF BusInv, KeysAreOwned, OldKeysAreFree
<1>8. TriedIsRemembered'
  <2>1. ASSUME NEW b \in Callers, verdict[b] = "waiting", pending[b].key \in DOMAIN db.idempotency
        PROVE  \E e \in tried'[b] :
                 /\ db.idempotency[pending[b].key].fingerprint = <<e, pending[b].change>>
                 /\ Sound(db, pending[b], e)
    <3>1. PICK e \in tried[b] :
            /\ db.idempotency[pending[b].key].fingerprint = <<e, pending[b].change>>
            /\ Sound(db, pending[b], e)
      BY <2>1 DEF BusInv, TriedIsRemembered, Waiting
    <3>2. b = c => pending[c].expected # e
      <4>1. Answer(c, Command(c, id)) # ""
        BY DEF FallBack, AboutPayload
      <4> QED
        BY <2>1, <3>1, <4>1, KnownIsAnswered DEF BusInv
    <3> QED
      BY <1>5, <3>1, <3>2 DEF Others
  <2>2. \A b \in Callers : /\ pending'[b].key = pending[b].key
                           /\ pending'[b].change = pending[b].change
                           /\ pending'[b].document = pending[b].document
    BY <1>4, <1>5
  <2> QED
    BY <1>2, <2>1, <2>2 DEF TriedIsRemembered, Waiting, Sound
<1>9. ResultIsCommitted'
  <2>1. \A b \in Callers : verdict[b] = "done" => b # c /\ Right(db, pending[b], used[b], result[b])
    BY <1>2, ResultIsRight DEF BusInv
  <2>2. \A b \in Callers :
          verdict'[b] = "done" => Right(db', pending'[b], used'[b], result'[b])
    BY <1>2, <1>5, <2>1
  <2> QED
    BY <2>2 DEF ResultIsCommitted, Right
<1>10. Consistent(db') /\ Recorded(db')
  BY <1>2 DEF BusInv
<1> QED
  BY <1>10, <1>6, <1>7, <1>8, <1>9 DEF BusInv, Consistent, Recorded, Typed, Ancestry,
    Creation, Path, Log, Replayable, UniqueRequests, UndoneIsNext, GraphsValid, RowOf

\* A caller that gives up changes nothing but what it was told.
LEMMA RefusedStep ==
  ASSUME BusInv, NEW c \in Callers, NEW id \in CommandIds, Refused(c, id)
  PROVE  BusInv'
<1>1. /\ db' = db /\ pending' = pending /\ used' = used /\ tried' = tried /\ result' = result
      /\ verdict' = [verdict EXCEPT ![c] = "refused"]
  BY DEF Refused
<1>2. \A b \in Callers : verdict'[b] \in {verdict[b], "refused"}
  BY <1>1 DEF BusInv, BusTypes
<1>3. BusTypes'
  BY <1>1 DEF BusInv, BusTypes
<1>4. KeysAreOwned' /\ OldKeysAreFree'
  BY <1>1 DEF BusInv, KeysAreOwned, OldKeysAreFree
<1>5. TriedIsRemembered'
  BY <1>1, <1>2 DEF BusInv, TriedIsRemembered, Waiting, Sound
<1>6. ResultIsCommitted'
  <2>1. \A b \in Callers :
          verdict'[b] = "done" => Right(db', pending'[b], used'[b], result'[b])
    BY <1>1, <1>2, ResultIsRight DEF BusInv
  <2> QED
    BY <2>1 DEF ResultIsCommitted, Right
<1>7. Consistent(db') /\ Recorded(db')
  BY <1>1 DEF BusInv
<1> QED
  BY <1>7, <1>3, <1>4, <1>5, <1>6 DEF BusInv, Consistent, Recorded, Typed, Ancestry,
    Creation, Path, Log, Replayable, UniqueRequests, UndoneIsNext, GraphsValid, RowOf

\* A lost answer leaves the payload among those the caller remembers.
LEMMA LoseAnswerStep ==
  ASSUME BusInv, NEW c \in Callers, NEW id \in CommandIds, LoseAnswer(c, id)
  PROVE  BusInv' /\ Moves(c, id)
<1> DEFINE r == Command(c, id)
<1>1. /\ r \in Requests /\ r.key = pending[c].key /\ r.change = pending[c].change
      /\ r.expected = pending[c].expected
  BY CommandIsRequest DEF BusInv
<1>2. /\ db' \in {db, After(c, r)}
      /\ tried' = [tried EXCEPT ![c] = @ \cup {r.expected}]
      /\ used' = used /\ verdict' = verdict /\ result' = result /\ verdict[c] = "waiting"
  BY DEF LoseAnswer, Waiting
<1>3. PICK x \in {r.expected, db'.revision} : pending' = [pending EXCEPT ![c].expected = x]
  BY DEF LoseAnswer
<1>4. \/ db' = db
      \/ Commits(db, r) /\ db' = Committed(db, r) /\ Answer(c, r) = ""
  BY <1>2 DEF After
<1>5. Moves(c, id)
  BY <1>4 DEF Moves
<1>6. /\ Consistent(db') /\ Recorded(db') /\ db'.format = db.format
      /\ db'.revision \in 0..MaxRevision
      /\ DOMAIN db.idempotency \subseteq DOMAIN db'.idempotency
      /\ DOMAIN db'.idempotency \subseteq DOMAIN db.idempotency \cup {pending[c].key}
      /\ \A k \in DOMAIN db.idempotency : db'.idempotency[k] = db.idempotency[k]
      /\ \A b \in Callers : verdict[b] = "done" => Right(db', pending[b], used[b], result[b])
  BY <1>5, DatabaseMoves
<1> DEFINE next == [pending[c] EXCEPT !.expected = x]
<1>7. /\ next \in [change : Changes, document : {"this", "other"}, key : Keys,
                   expected : -1..MaxRevision]
      /\ next.key = pending[c].key /\ next.change = pending[c].change
      /\ next.document = pending[c].document
      /\ pending' = [pending EXCEPT ![c] = next]
  <2>1. pending[c].expected \in -1..MaxRevision
    BY DEF BusInv, BusTypes
  <2>2. x \in -1..MaxRevision
    BY <1>1, <1>3, <1>6, <2>1, LimitsAssumption
  <2> QED
    BY <1>3, <2>2 DEF BusInv, BusTypes
<1> HIDE DEF next, r
<1>8. /\ \A b \in Callers : b # c => pending'[b] = pending[b] /\ tried'[b] = tried[b]
      /\ pending'[c] = next /\ tried'[c] = tried[c] \cup {r.expected}
  BY <1>2, <1>7 DEF BusInv, BusTypes
<1>9. \A b \in Callers : /\ pending'[b].key = pending[b].key
                         /\ pending'[b].change = pending[b].change
                         /\ pending'[b].document = pending[b].document
  BY <1>7, <1>8
<1>10. BusTypes'
  BY <1>1, <1>2, <1>7 DEF BusInv, BusTypes
<1>11. KeysAreOwned'
  BY <1>2, <1>6, <1>9 DEF BusInv, KeysAreOwned
<1>12. OldKeysAreFree'
  BY <1>2, <1>6, <1>9, KeysDiffer DEF BusInv, OldKeysAreFree
<1>13. TriedIsRemembered'
  <2>1. ASSUME NEW b \in Callers, verdict[b] = "waiting", pending[b].key \in DOMAIN db'.idempotency
        PROVE  \E e \in tried'[b] :
                 /\ db'.idempotency[pending[b].key].fingerprint = <<e, pending[b].change>>
                 /\ Sound(db', pending[b], e)
    <3>1. CASE pending[b].key \in DOMAIN db.idempotency
      <4>1. PICK e \in tried[b] :
              /\ db.idempotency[pending[b].key].fingerprint = <<e, pending[b].change>>
              /\ Sound(db, pending[b], e)
        BY <2>1, <3>1 DEF BusInv, TriedIsRemembered, Waiting
      <4> QED
        BY <1>6, <1>8, <3>1, <4>1 DEF Sound
    <3>2. CASE pending[b].key \notin DOMAIN db.idempotency
      <4>1. b = c
        BY <1>6, <2>1, <3>2, KeysDiffer DEF BusInv
      <4>2. Commits(db, r) /\ db' = Committed(db, r) /\ Answer(c, r) = ""
        BY <1>4, <2>1, <3>2
      <4>3. Sound(db, pending[c], pending[c].expected)
        BY <4>2, AnswerIsResult, CommitIsSound DEF BusInv, r
      <4>4. db'.idempotency[r.key].fingerprint = <<r.expected, r.change>>
        <5> DEFINE d == db
                   e == db'
        <5>1. Consistent(d) /\ Commits(d, r) /\ e = Committed(d, r)
          BY <4>2 DEF BusInv
        <5> HIDE DEF d, e
        <5>2. e.idempotency[r.key] = IdempotencyRow(d, r)
          BY <1>1, <5>1, CommitRows
        <5> QED
          BY <5>2 DEF IdempotencyRow, Fingerprint, e
      <4> QED
        BY <1>1, <1>6, <1>8, <4>1, <4>3, <4>4 DEF Sound
    <3> QED
      BY <3>1, <3>2
  <2> QED
    BY <1>2, <1>9, <2>1 DEF TriedIsRemembered, Waiting, Sound
<1>14. ResultIsCommitted'
  <2>1. \A b \in Callers :
          verdict'[b] = "done" => Right(db', pending'[b], used'[b], result'[b])
    BY <1>2, <1>6, <1>8
  <2> QED
    BY <2>1 DEF ResultIsCommitted, Right
<1> QED
  BY <1>5, <1>6, <1>10, <1>11, <1>12, <1>13, <1>14 DEF BusInv, Consistent, Recorded, Typed, Ancestry,
    Creation, Path, Log, Replayable, UniqueRequests, UndoneIsNext, GraphsValid, RowOf

\* Every step of the callers preserves the invariant.
LEMMA BusStep == BusInv /\ [Next]_vars => BusInv'
<1> SUFFICES ASSUME BusInv, [Next]_vars PROVE BusInv'
  OBVIOUS
<1>1. CASE UNCHANGED vars
  <2>1. /\ db' = db /\ pending' = pending /\ used' = used /\ tried' = tried
        /\ verdict' = verdict /\ result' = result
    BY <1>1 DEF vars
  <2>2. BusTypes' /\ KeysAreOwned' /\ OldKeysAreFree'
    BY <2>1 DEF BusInv, BusTypes, KeysAreOwned, OldKeysAreFree
  <2>3. TriedIsRemembered'
    BY <2>1 DEF BusInv, TriedIsRemembered, Waiting, Sound
  <2>4. ResultIsCommitted'
    BY <2>1 DEF BusInv, ResultIsCommitted
  <2>5. Consistent(db') /\ Recorded(db')
    BY <2>1 DEF BusInv
  <2> QED
    BY <2>2, <2>3, <2>4, <2>5 DEF BusInv, Consistent, Recorded, Typed, Ancestry,
      Creation, Path, Log, Replayable, UniqueRequests, UndoneIsNext, GraphsValid, RowOf
<1>2. CASE Next
  <2>1. PICK c \in Callers, id \in CommandIds :
          \/ Succeed(c, id) \/ Conflict(c, id) \/ FallBack(c, id) \/ Refused(c, id)
          \/ LoseAnswer(c, id)
    BY <1>2 DEF Next, Answered
  <2>2. CASE Succeed(c, id)
    BY <2>2, SucceedStep
  <2>3. CASE Conflict(c, id)
    BY <2>3, ConflictStep
  <2>4. CASE FallBack(c, id)
    BY <2>4, FallBackStep
  <2>5. CASE Refused(c, id)
    BY <2>5, RefusedStep
  <2>6. CASE LoseAnswer(c, id)
    BY <2>6, LoseAnswerStep
  <2> QED
    BY <2>1, <2>2, <2>3, <2>4, <2>5, <2>6
<1> QED
  BY <1>1, <1>2

\* The inductive invariant holds in every state.
THEOREM BusInvariant == Spec => []BusInv
<1>1. Init => BusInv
  BY InitBus
<1>2. BusInv /\ [Next]_vars => BusInv'
  BY BusStep
<1> QED
  BY <1>1, <1>2, PTL DEF Spec

\* Every result a caller is given is its own change as the log has it, and
\* stays so whatever commits afterwards.
THEOREM ResultIsCommittedAlways == Spec => []ResultIsCommitted
<1>1. BusInv => ResultIsCommitted
  BY DEF BusInv
<1> QED
  BY <1>1, BusInvariant, PTL

(***************************************************************************)
(* The promise                                                             *)
(***************************************************************************)

\* The effects of the promise, as a function of the database d and the keys u
\* that callers have used.
OwnerIn(u, k) == CHOOSE c \in Callers : k \in u[c]
EffectsOf(d, u) == [t \in 1..d.revision |-> OwnerIn(u, d.transactions[t].key)]
OneOwner(u) == \A b, c \in Callers : b # c => u[b] \cap u[c] = {}

\* The owner of a key is the one caller that used it.
LEMMA OwnerIs ==
  ASSUME NEW u, OneOwner(u), NEW c \in Callers, NEW k \in u[c]
  PROVE  OwnerIn(u, k) = c
BY DEF OwnerIn, OneOwner

\* Each effect is the change of the caller that used the key of the transaction.
LEMMA EffectOfTransaction ==
  ASSUME NEW d, Consistent(d), NEW u, OneOwner(u), NEW c \in Callers,
         NEW t \in 1..d.revision, d.transactions[t].key \in u[c]
  PROVE  EffectsOf(d, u)[t] = c
BY OwnerIs DEF EffectsOf

\* A change took effect when the log has the key the caller is using.
LEMMA EffectiveIsCommitted ==
  ASSUME BusInv, NEW c \in Callers
  PROVE  Promise!Effective(c) <=> pending[c].key \in DOMAIN db.idempotency
<1> DEFINE d == db
           u == used
<1>1. /\ Consistent(d) /\ OneOwner(u) /\ pending[c].key \in u[c]
      /\ \A k \in DOMAIN d.idempotency : \E b \in Callers : k \in u[b]
      /\ \A k \in u[c] : k # pending[c].key => k \notin DOMAIN d.idempotency
  BY DEF BusInv, KeysAreOwned, OldKeysAreFree, OneOwner
<1>2. Promise!Effective(c) <=> \E t \in DOMAIN EffectsOf(d, u) : EffectsOf(d, u)[t] = c
  BY DEF Promise!Effective, EffectsOf, OwnerIn, CallerOf
<1> HIDE DEF d, u
<1>3. DOMAIN EffectsOf(d, u) = 1..d.revision /\ DOMAIN d.transactions = 1..d.revision
  BY <1>1 DEF EffectsOf, Consistent, Log
<1>4. ASSUME NEW t \in 1..d.revision, EffectsOf(d, u)[t] = c
      PROVE  pending[c].key \in DOMAIN d.idempotency
  <2>1. d.transactions[t].key \in DOMAIN d.idempotency
    BY <1>1, <1>3 DEF Consistent, Replayable
  <2>2. PICK b \in Callers : d.transactions[t].key \in u[b]
    BY <1>1, <2>1
  <2>3. b = c
    BY <1>1, <1>4, <2>2, EffectOfTransaction
  <2> QED
    BY <1>1, <2>1, <2>2, <2>3
<1>5. ASSUME pending[c].key \in DOMAIN d.idempotency
      PROVE  \E t \in 1..d.revision : EffectsOf(d, u)[t] = c
  <2>1. PICK t \in DOMAIN d.transactions : d.transactions[t].key = pending[c].key
    BY <1>1, <1>5, RowOfTransaction
  <2> QED
    BY <1>1, <1>3, <2>1, EffectOfTransaction
<1>6. Promise!Effective(c) <=> pending[c].key \in DOMAIN d.idempotency
  BY <1>2, <1>3, <1>4, <1>5
<1> QED
  BY <1>6 DEF d

\* A transaction is one more effect, of the caller whose key it carries.
LEMMA CommitIsEffect ==
  ASSUME NEW d, NEW r \in Requests, Consistent(d), Commits(d, r),
         NEW u, OneOwner(u), NEW c \in Callers, r.key \in u[c]
  PROVE  EffectsOf(Committed(d, r), u) = Append(EffectsOf(d, u), c)
<1> DEFINE e == Committed(d, r)
           n == d.revision
<1>1. /\ n \in Nat /\ e.revision = n + 1
      /\ e.transactions[n + 1] = TransactionRow(d, r)
      /\ \A t \in 1..n : e.transactions[t] = d.transactions[t]
  BY CommitRows DEF Consistent, Typed
<1>2. OwnerIn(u, e.transactions[n + 1].key) = c
  BY <1>1, OwnerIs DEF TransactionRow
<1> DEFINE E == EffectsOf(d, u)
<1>3. E = [t \in 1..n |-> OwnerIn(u, d.transactions[t].key)]
  BY DEF EffectsOf
<1>4. EffectsOf(e, u) = [t \in 1..(n + 1) |-> OwnerIn(u, e.transactions[t].key)]
  BY <1>1 DEF EffectsOf
<1> HIDE DEF e, n, E
<1> DEFINE F == EffectsOf(e, u)
           S == {F[t] : t \in 1..(n + 1)}
<1>5. F \in Seq(S) /\ Len(F) = n + 1 /\ F[n + 1] = c /\ c \in S
  BY <1>1, <1>2, <1>4
<1>6. E \in Seq(S) /\ Len(E) = n
  BY <1>1, <1>3, <1>4
<1>7. \A t \in 1..n : E[t] = F[t]
  BY <1>1, <1>3, <1>4
<1> HIDE DEF F, S
<1>8. Append(E, c) \in Seq(S) /\ Len(Append(E, c)) = n + 1
      /\ \A t \in 1..n : Append(E, c)[t] = E[t]
      /\ Append(E, c)[n + 1] = c
  BY <1>5, <1>6, AppendProperties
<1>9. ASSUME NEW t \in 1..(n + 1) PROVE F[t] = Append(E, c)[t]
  BY <1>1, <1>5, <1>7, <1>8
<1>10. F = Append(E, c)
  BY <1>5, <1>8, <1>9, SeqEqual
<1> QED
  BY <1>10 DEF e, E, F

\* Keys that callers add do not change whose effects there are.
LEMMA KeysKeepEffects ==
  ASSUME NEW d, Consistent(d), NEW u, OneOwner(u), NEW v, OneOwner(v),
         \A c \in Callers : u[c] \subseteq v[c],
         \A k \in DOMAIN d.idempotency : \E c \in Callers : k \in u[c]
  PROVE  EffectsOf(d, v) = EffectsOf(d, u)
<1>1. ASSUME NEW t \in 1..d.revision
      PROVE  OwnerIn(v, d.transactions[t].key) = OwnerIn(u, d.transactions[t].key)
  <2>1. d.transactions[t].key \in DOMAIN d.idempotency
    BY DEF Consistent, Log, Replayable
  <2>2. PICK c \in Callers : d.transactions[t].key \in u[c]
    BY <2>1
  <2> QED
    BY <2>2, OwnerIs
<1> QED
  BY <1>1 DEF EffectsOf

\* What ExactlyOnce sees of the log: the transactions, each with the caller whose key it has.
Effects == EffectsOf(db, used)

\* The call that is answered with a result is a new effect or confirms one.
LEMMA SucceedKeepsPromise ==
  ASSUME BusInv, NEW c \in Callers, NEW id \in CommandIds, Succeed(c, id)
  PROVE  Promise!Next
<1> DEFINE r == Command(c, id)
<1>1. /\ r \in Requests /\ r.key = pending[c].key /\ r.key \in used[c]
      /\ Consistent(db) /\ OneOwner(used)
  BY CommandIsRequest DEF BusInv, KeysAreOwned, OneOwner
<1>2. /\ used' = used /\ verdict' = [verdict EXCEPT ![c] = "done"]
      /\ verdict[c] = "waiting"
      /\ db' = IF Commits(db, r) THEN Committed(db, r) ELSE db
  BY DEF Succeed, After, Waiting
<1>3. Commits(db, r) \/ Replays(db, r)
  BY AnswerIsResult DEF Succeed
<1>4. CASE Commits(db, r)
  <2>1. Effects' = Append(Effects, c)
    BY <1>1, <1>2, <1>4, CommitIsEffect DEF Effects
  <2>2. ~ Promise!Effective(c)
    BY <1>1, <1>4, EffectiveIsCommitted DEF Commits, Known
  <2>3. Promise!Apply(c)
    BY <1>2, <2>1, <2>2 DEF Promise!Apply, Effects, EffectsOf, OwnerIn, CallerOf
  <2> QED
    BY <2>3 DEF Promise!Next
<1>5. CASE ~ Commits(db, r)
  <2>1. Effects' = Effects
    BY <1>2, <1>5 DEF Effects
  <2>2. Promise!Effective(c)
    BY <1>1, <1>3, <1>5, EffectiveIsCommitted DEF Replays, Known
  <2>3. Promise!Confirm(c)
    BY <1>2, <2>1, <2>2 DEF Promise!Confirm, Effects, EffectsOf, OwnerIn, CallerOf
  <2> QED
    BY <2>3 DEF Promise!Next
<1> QED
  BY <1>4, <1>5

\* A call whose answer is lost is a new effect or nothing.
LEMMA LoseAnswerKeepsPromise ==
  ASSUME BusInv, NEW c \in Callers, NEW id \in CommandIds, LoseAnswer(c, id)
  PROVE  Promise!Next \/ (Effects' = Effects /\ verdict' = verdict)
<1> DEFINE r == Command(c, id)
<1>1. /\ r \in Requests /\ r.key = pending[c].key /\ r.key \in used[c]
      /\ Consistent(db) /\ OneOwner(used)
  BY CommandIsRequest DEF BusInv, KeysAreOwned, OneOwner
<1>2. used' = used /\ verdict' = verdict /\ verdict[c] = "waiting"
  BY DEF LoseAnswer, Waiting
<1>3. db' = db \/ (Commits(db, r) /\ db' = Committed(db, r))
  BY LoseAnswerStep DEF Moves
<1>4. CASE db' = db
  BY <1>2, <1>4 DEF Effects
<1>5. CASE Commits(db, r) /\ db' = Committed(db, r)
  <2>1. Effects' = Append(Effects, c)
    BY <1>1, <1>2, <1>5, CommitIsEffect DEF Effects
  <2>2. ~ Promise!Effective(c)
    BY <1>1, <1>5, EffectiveIsCommitted DEF Commits, Known
  <2>3. Promise!Apply(c)
    BY <1>2, <2>1, <2>2 DEF Promise!Apply, Effects, EffectsOf, OwnerIn, CallerOf
  <2> QED
    BY <2>3 DEF Promise!Next
<1> QED
  BY <1>3, <1>4, <1>5

\* Nobody is refused whose change took effect.
LEMMA RefusedKeepsPromise ==
  ASSUME BusInv, NEW c \in Callers, NEW id \in CommandIds, Refused(c, id)
  PROVE  Promise!Next
<1>1. /\ used' = used /\ db' = db /\ verdict' = [verdict EXCEPT ![c] = "refused"]
      /\ verdict[c] = "waiting"
      /\ Answer(c, Command(c, id)) # ""
      /\ Answer(c, Command(c, id)) \in AboutPayload => Others(c) = {}
  BY DEF Refused, Waiting
<1>2. ASSUME pending[c].key \in DOMAIN db.idempotency
      PROVE  FALSE
  <2>1. PICK e \in tried[c] :
          /\ db.idempotency[pending[c].key].fingerprint = <<e, pending[c].change>>
          /\ Sound(db, pending[c], e)
    BY <1>1, <1>2 DEF BusInv, TriedIsRemembered, Waiting
  <2>2. /\ Answer(c, Command(c, id)) \in AboutPayload
        /\ pending[c].expected # e
    BY <1>1, <1>2, <2>1, KnownIsAnswered DEF BusInv
  <2> QED
    BY <1>1, <2>2 DEF Others
<1>3. ~ Promise!Effective(c)
  BY <1>2, EffectiveIsCommitted
<1>4. Promise!Refuse(c)
  <2>1. Effects' = Effects
    BY <1>1 DEF Effects
  <2> QED
    BY <1>1, <1>3, <2>1 DEF Promise!Refuse, Effects, EffectsOf, OwnerIn, CallerOf
<1> QED
  BY <1>4 DEF Promise!Next

\* A caller that rebuilds its command under another key has no other effects.
LEMMA ConflictKeepsPromise ==
  ASSUME BusInv, NEW c \in Callers, NEW id \in CommandIds, Conflict(c, id)
  PROVE  Effects' = Effects /\ verdict' = verdict
<1> DEFINE d == db
           u == used
           v == used'
<1>1. Consistent(d) /\ OneOwner(u) /\ \A k \in DOMAIN d.idempotency : \E b \in Callers : k \in u[b]
  BY DEF BusInv, KeysAreOwned, OneOwner
<1>2. OneOwner(v)
  BY ConflictStep DEF BusInv, KeysAreOwned, OneOwner
<1>3. \A b \in Callers : u[b] \subseteq v[b]
  BY DEF Conflict, BusInv, BusTypes
<1>4. db' = db /\ verdict' = verdict
  BY DEF Conflict
<1> HIDE DEF d, u, v
<1>5. EffectsOf(d, v) = EffectsOf(d, u)
  BY <1>1, <1>2, <1>3, KeysKeepEffects
<1> QED
  BY <1>4, <1>5 DEF Effects, d, u, v

\* Whatever answers get lost, each caller's change takes effect at most once,
\* and no caller is refused whose change took effect: every step of the callers
\* is a step of the promise or changes nothing of it.
THEOREM KeepsPromiseTheorem == Spec => KeepsPromise
<1>1. Init => Promise!Init
  <2> SUFFICES ASSUME Init PROVE Promise!Init
    OBVIOUS
  <2>1. db.revision = 0
    BY DEF Init, PublishedDatabases, NewDatabase, Migrated
  <2>2. [t \in 1..db.revision |-> CallerOf(db.transactions[t].key)] = <<>>
    BY <2>1
  <2> QED
    BY <2>2 DEF Init, Promise!Init
<1>2. BusInv /\ [Next]_vars =>
        [Promise!Next]_<<[t \in 1..db.revision |-> CallerOf(db.transactions[t].key)], verdict>>
  <2> SUFFICES ASSUME BusInv, [Next]_vars
               PROVE  Promise!Next \/ (Effects' = Effects /\ verdict' = verdict)
    BY DEF Effects, EffectsOf, OwnerIn, CallerOf
  <2>1. CASE UNCHANGED vars
    BY <2>1 DEF vars, Effects
  <2>2. CASE Next
    <3>1. PICK c \in Callers, id \in CommandIds :
            \/ Succeed(c, id) \/ Conflict(c, id) \/ FallBack(c, id) \/ Refused(c, id)
            \/ LoseAnswer(c, id)
      BY <2>2 DEF Next, Answered
    <3>2. CASE Succeed(c, id)
      BY <3>2, SucceedKeepsPromise
    <3>3. CASE Conflict(c, id)
      BY <3>3, ConflictKeepsPromise
    <3>4. CASE FallBack(c, id)
      BY <3>4 DEF FallBack, Effects
    <3>5. CASE Refused(c, id)
      BY <3>5, RefusedKeepsPromise
    <3>6. CASE LoseAnswer(c, id)
      BY <3>6, LoseAnswerKeepsPromise
    <3> QED
      BY <3>1, <3>2, <3>3, <3>4, <3>5, <3>6
  <2> QED
    BY <2>1, <2>2
<1> QED
  BY <1>1, <1>2, BusInvariant, PTL DEF Spec, KeepsPromise, Promise!Spec
=============================================================================
