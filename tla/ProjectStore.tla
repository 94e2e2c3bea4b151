---------------------------- MODULE ProjectStore ----------------------------
(***************************************************************************)
(* One published project directory and the sessions that open it: the      *)
(* exclusive lease on project.lock, the steps of ProjectStore::open, the   *)
(* transactions of execute with the ways their outcome can get lost, the   *)
(* read-only lease of a migration, close, the destructor that closes a     *)
(* store whose open failed, and the death of the process at any point.     *)
(*                                                                         *)
(* A session is one ProjectStore handle and the process that holds it.     *)
(* SQLite makes a transaction atomic and durable at COMMIT; the operating  *)
(* system drops the lease of a dead process.                               *)
(*                                                                         *)
(* A definition named Operator_Defect is a faulty variant of Operator.     *)
(***************************************************************************)
EXTENDS ProjectLedger

CONSTANTS
  Sessions,      \* processes that may open the project
  NoSession      \* nobody holds the lease

ASSUME SessionAssumption == NoSession \notin Sessions

VARIABLES
  clean,      \* meta.clean_shutdown
  marker,     \* the publication marker file is present
  object,     \* the source object file: "intact" or "damaged"
  lease,      \* the session that holds project.lock, or NoSession
  phase,      \* phase[s]: how far session s is
  recovered,  \* recovered[s]: recovered_unclean_shutdown of s's store
  acked,      \* the results returned to callers, each with its key
  unreported, \* a write session ended uncleanly and no open reported it yet
  erased      \* a failed open rewrote clean_shutdown while unreported

durable == <<db, clean, marker, object>>
history == <<acked, unreported, erased>>
vars == <<durable, lease, phase, recovered, history>>

(***************************************************************************)
(* Phases: "leased" holds the lease with the database open; "built" has    *)
(* read clean_shutdown and owns a ProjectStore; "verified" passed          *)
(* verify_integrity; "marked" committed clean_shutdown = 0; "open" was     *)
(* returned to the caller; "closing" has run close() and is releasing;     *)
(* "reading" is the read-only source of a migration.                       *)
(***************************************************************************)
Opening == {"leased", "built", "verified", "marked"}
Phases == Opening \cup {"idle", "open", "closing", "reading"}

Init ==
  /\ db \in PublishedDatabases
  /\ clean = 1
  /\ marker \in BOOLEAN
  /\ object = "intact"
  /\ lease = NoSession
  /\ phase = [s \in Sessions |-> "idle"]
  /\ recovered = [s \in Sessions |-> FALSE]
  /\ acked = {}
  /\ unreported = FALSE
  /\ erased = FALSE

Goto(s, p) == phase' = [phase EXCEPT ![s] = p]

\* The store object of the session, its lock file and its connection are gone.
Gone(s) ==
  /\ lease' = NoSession
  /\ recovered' = [recovered EXCEPT ![s] = FALSE]
  /\ Goto(s, "idle")

(***************************************************************************)
(* ProjectStore::open                                                      *)
(***************************************************************************)

\* Variant: the lock is shared.
TakeLease_Shared(s, p) ==
  /\ phase[s] = "idle"
  /\ lease' = s
  /\ Goto(s, p)
  /\ UNCHANGED <<durable, recovered, history>>

\* The lock is taken without waiting; a session that finds it held gets
\* IO_PROJECT_LOCKED and is where it was.
TakeLease(s, p) ==
  /\ phase[s] = "idle"
  /\ lease = NoSession
  /\ lease' = s
  /\ Goto(s, p)
  /\ UNCHANGED <<durable, recovered, history>>

BeginOpen(s) == TakeLease(s, "leased")

\* The format is validated and clean_shutdown read before the store is built.
BuildStore(s) ==
  /\ phase[s] = "leased"
  /\ recovered' = [recovered EXCEPT ![s] = clean = 0]
  /\ Goto(s, "built")
  /\ UNCHANGED <<durable, lease, history>>

\* An error before the store is built only gives the lease back.
FailBeforeStore(s) ==
  /\ phase[s] = "leased"
  /\ Gone(s)
  /\ UNCHANGED <<durable, history>>

VerifyOnOpen(s) ==
  /\ phase[s] = "built"
  /\ VerifyIntegrity(db) /\ object = "intact"
  /\ Goto(s, "verified")
  /\ UNCHANGED <<durable, lease, recovered, history>>

MarkUnclean(s) ==
  /\ phase[s] = "verified"
  /\ clean' = 0
  /\ Goto(s, "marked")
  /\ UNCHANGED <<db, marker, object, lease, recovered, history>>

\* The publication marker is removed and the store returned to the caller.
FinishOpen(s) ==
  /\ phase[s] = "marked"
  /\ marker' = FALSE
  /\ unreported' = FALSE
  /\ erased' = FALSE
  /\ Goto(s, "open")
  /\ UNCHANGED <<db, clean, object, lease, recovered, acked>>

\* Variant: a failed verification returns with the store still alive.
FailWithStore_Leaks(s) ==
  /\ phase[s] = "marked"
  /\ unreported' = TRUE
  /\ Goto(s, "closing")
  /\ UNCHANGED <<durable, lease, recovered, acked, erased>>

\* An error after the store is built: verification or input/output fails, and
\* the destructor of the store runs close(), whose own failure it swallows.
FailWithStore(s) ==
  /\ phase[s] \in {"built", "verified", "marked"}
  /\ \/ /\ clean' = 1
        /\ erased' = (erased \/ unreported)
        /\ UNCHANGED unreported
     \/ /\ unreported' = (unreported \/ phase[s] = "marked")
        /\ UNCHANGED <<clean, erased>>
  /\ Goto(s, "closing")
  /\ UNCHANGED <<db, marker, object, lease, recovered, acked>>

(***************************************************************************)
(* ProjectStore::execute                                                   *)
(***************************************************************************)
Acknowledge(r, result) == acked' = acked \cup {[key |-> r.key, result |-> result]}

\* The transaction commits and the caller learns its result.
Execute(s, r) ==
  /\ phase[s] = "open"
  /\ Commits(db, r)
  /\ db' = Committed(db, r)
  /\ Acknowledge(r, FirstResult(db', r))
  /\ UNCHANGED <<clean, marker, object, lease, phase, recovered, unreported, erased>>

\* Variant: the idempotency row is not part of the transaction.
ExecuteUnknown_RowLost(s, r) ==
  /\ phase[s] = "open"
  /\ Commits(db, r)
  /\ db' = [Committed(db, r) EXCEPT !.idempotency = db.idempotency]
  /\ UNCHANGED <<clean, marker, object, lease, phase, recovered, history>>

\* The transaction is durable but COMMIT reported an error: the caller gets
\* IO_COMMIT_RESULT_UNKNOWN.
ExecuteUnknown(s, r) ==
  /\ phase[s] = "open"
  /\ Commits(db, r)
  /\ db' = Committed(db, r)
  /\ UNCHANGED <<clean, marker, object, lease, phase, recovered, history>>

\* The key is known: the transaction is rolled back and the first result
\* returned.
Replay(s, r) ==
  /\ phase[s] = "open"
  /\ Replays(db, r)
  /\ Acknowledge(r, ReplayResult(db, r))
  /\ UNCHANGED <<durable, lease, phase, recovered, unreported, erased>>

(***************************************************************************)
(* Closing, dying, and the read-only lease of migrate_v1_to_v2             *)
(***************************************************************************)
Close(s) ==
  /\ phase[s] = "open"
  /\ \/ clean' = 1 /\ UNCHANGED unreported
     \/ clean' = clean /\ unreported' = TRUE
  /\ Goto(s, "closing")
  /\ UNCHANGED <<db, marker, object, lease, recovered, acked, erased>>

BeginRead(s) == db.format = V1 /\ TakeLease(s, "reading")

\* Variant: a read-only store also writes clean_shutdown on close.
Release_WritesClean(s) ==
  /\ phase[s] \in {"closing", "reading"}
  /\ clean' = IF phase[s] = "reading" THEN 1 ELSE clean
  /\ Gone(s)
  /\ UNCHANGED <<db, marker, object, history>>

\* The database connection and then the lock file are closed; close() of a
\* read-only store writes nothing before.
Release(s) ==
  /\ phase[s] \in {"closing", "reading"}
  /\ Gone(s)
  /\ UNCHANGED <<durable, history>>

\* The process dies, also between COMMIT and the answer (after ExecuteUnknown).
Crash(s) ==
  /\ phase[s] # "idle"
  /\ Gone(s)
  /\ unreported' = (unreported \/ phase[s] \in {"marked", "open"})
  /\ UNCHANGED <<durable, acked, erased>>

\* The object file is damaged, or restored from a copy, behind the program.
Environment ==
  /\ object' \in {"intact", "damaged"} \ {object}
  /\ UNCHANGED <<db, clean, marker, lease, phase, recovered, history>>

Step(s) ==
  \/ BeginOpen(s) \/ BuildStore(s) \/ FailBeforeStore(s) \/ VerifyOnOpen(s)
  \/ MarkUnclean(s) \/ FinishOpen(s) \/ FailWithStore(s)
  \/ \E r \in Requests : Execute(s, r) \/ ExecuteUnknown(s, r) \/ Replay(s, r)
  \/ Close(s) \/ BeginRead(s) \/ Release(s) \/ Crash(s)

Next == Environment \/ \E s \in Sessions : Step(s)

Spec == Init /\ [][Next]_vars

\* The steps of open, close and the destructor are straight-line code that
\* waits for nothing: a session in the middle of one goes on.
Proceed(s) ==
  \/ BuildStore(s) \/ FailBeforeStore(s) \/ VerifyOnOpen(s) \/ MarkUnclean(s)
  \/ FinishOpen(s) \/ FailWithStore(s) \/ Release(s)

FairSpec == Spec /\ \A s \in Sessions : WF_vars(Proceed(s))

(***************************************************************************)
(* Properties                                                              *)
(***************************************************************************)

\* While a store can commit edits its session holds the lease and the database
\* says so: clean_shutdown is 0 from before open returns until close.
EditingIsMarked ==
  \A s \in Sessions : phase[s] \in {"marked", "open"} => lease = s /\ clean = 0

\* open reports a recovery exactly when a write session ended uncleanly since
\* the last report, as long as no failed open came between: whatever crashed,
\* closed, read or was refused, clean_shutdown tells which.
RecoveryExact ==
  \A s \in Sessions :
    phase[s] \in {"built", "verified", "marked"} /\ ~erased => (recovered[s] <=> unreported)

\* The documented meaning of clean_shutdown, failed opens included: an open
\* that succeeds reports every unclean end that came before it.
RecoveryReported ==
  \A s \in Sessions : phase[s] = "marked" /\ unreported => recovered[s]

\* A result once returned to a caller stays the stored result of its key
\* through crashes, later edits, undo and redo, and every replay repeats it.
AcknowledgedDurable ==
  \A a \in acked :
    /\ a.key \in DOMAIN db.idempotency
    /\ a.result = ReplayResult(db, a)

\* Whatever the sessions do, the database evolves as the ledger.
ImplementsLedger == LedgerSpec

\* No call of open or close keeps the lease without end.
LeaseIsTemporary ==
  \A s \in Sessions :
    phase[s] \in Opening \cup {"closing", "reading"} ~> phase[s] \in {"idle", "open"}
=============================================================================
