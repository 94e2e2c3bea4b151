------------------------------ MODULE CommandBus ------------------------------
(***************************************************************************)
(* CommandBus::execute over an open project, and callers that follow what  *)
(* its answers tell them: a caller whose answer is lost (the process dies, *)
(* or COMMIT reports an error) sends the command again under the same      *)
(* idempotency key, as it was or rebuilt on the revision it reloads; one   *)
(* that is told REV_CONFLICT rebuilds it under a new key on the revision   *)
(* in the error; one that is told CMD_IDEMPOTENCY_REUSE goes back to a     *)
(* payload it sent before.  Calls are synchronous and the project is open  *)
(* in one session, so each call is one step.                               *)
(*                                                                         *)
(* A definition named Operator_Defect is a faulty variant of Operator.     *)
(***************************************************************************)
EXTENDS ProjectTables

CONSTANTS
  Callers,          \* whoever sends commands
  MaxSafeRevision,  \* largest expectedRevision validate_command accepts (2^53 - 1)
  FirstExpected,    \* revisions a caller may expect at first
  MaxLosses         \* bound on the answers that get lost

\* Callers name their commands, which the bus checks again, and start with
\* different keys.
ASSUME CallersAssumption ==
  /\ Empty \notin CommandIds
  /\ MaxSafeRevision \in Nat
  /\ FirstExpected \subseteq -1..MaxRevision
  /\ \E f \in [Callers -> Keys] : \A b, c \in Callers : b # c => f[b] # f[c]

VARIABLES
  db,        \* the committed database
  pending,   \* pending[c]: the command c is sending
  used,      \* used[c]: the keys c has used
  tried,     \* tried[c]: expected revisions c sent under its key without learning the outcome
  verdict,   \* verdict[c]: what c has been told
  result,    \* result[c]: the CommitResult c was given
  losses     \* answers lost so far

vars == <<db, pending, used, tried, verdict, result, losses>>

NoResult == [command |-> Empty]

FreshKeys(u) == Keys \ UNION {u[c] : c \in Callers}

\* Callers start with different keys; which ones makes no difference.
FirstKey ==
  CHOOSE f \in [Callers -> Keys] : \A b, c \in Callers : b # c => f[b] # f[c]

Init ==
  /\ db \in PublishedDatabases
  /\ pending \in {p \in [Callers -> [change   : Changes,
                                     document : {"this", "other"},
                                     key      : Keys,
                                     expected : FirstExpected]] :
                    \A c \in Callers : p[c].key = FirstKey[c]}
  /\ used = [c \in Callers |-> {FirstKey[c]}]
  /\ tried = [c \in Callers |-> {}]
  /\ verdict = [c \in Callers |-> "waiting"]
  /\ result = [c \in Callers |-> NoResult]
  /\ losses = 0

(***************************************************************************)
(* The bus                                                                 *)
(***************************************************************************)
Command(c, id) ==
  [command |-> id, key |-> pending[c].key,
   expected |-> pending[c].expected, change |-> pending[c].change]

\* validate_command and the check of the document.
Invalid(c, r) ==
  \/ Malformed(r)
  \/ r.expected > MaxSafeRevision
  \/ r.change.kind = "graph.replace" /\ ~GraphValid(r.change.nodes)
  \/ pending[c].document # "this"

\* Variant: the revision is compared before the key is looked up.
Answer_RevisionFirst(c, r) ==
  IF Invalid(c, r) THEN "CMD_SCHEMA_INVALID"
  ELSE IF r.expected # db.revision THEN "REV_CONFLICT"
  ELSE IF Commits(db, r) \/ Replays(db, r) THEN ""
  ELSE Refusal(db, r)

\* The code a call is answered with; "" is a CommitResult.
Answer(c, r) ==
  IF Invalid(c, r) THEN "CMD_SCHEMA_INVALID"
  ELSE IF Commits(db, r) \/ Replays(db, r) THEN ""
  ELSE Refusal(db, r)

\* What the call leaves in the database.
After(c, r) == IF Answer(c, r) = "" /\ Commits(db, r) THEN Committed(db, r) ELSE db

ResultOf(r) == IF Commits(db, r) THEN FirstResult(Committed(db, r), r) ELSE ReplayResult(db, r)

(***************************************************************************)
(* The callers                                                             *)
(***************************************************************************)
Waiting(c) == verdict[c] = "waiting"

\* The command committed now or under an earlier call.
Succeed(c, id) ==
  LET r == Command(c, id) IN
    /\ Waiting(c)
    /\ Answer(c, r) = ""
    /\ db' = After(c, r)
    /\ result' = [result EXCEPT ![c] = ResultOf(r)]
    /\ verdict' = [verdict EXCEPT ![c] = "done"]
    /\ UNCHANGED <<pending, used, tried, losses>>

\* Variant: the error carries the revision the caller expected.
Conflict_EchoesExpected(c, id) ==
  /\ Waiting(c)
  /\ Answer(c, Command(c, id)) = "REV_CONFLICT"
  /\ FreshKeys(used) # {}
  /\ LET k == CHOOSE k \in FreshKeys(used) : TRUE IN
       /\ used' = [used EXCEPT ![c] = @ \cup {k}]
       /\ pending' = [pending EXCEPT ![c].key = k]
  /\ tried' = [tried EXCEPT ![c] = {}]
  /\ UNCHANGED <<db, verdict, result, losses>>

\* REV_CONFLICT carries the current revision, which the store reads once the
\* transaction is rolled back.
Conflict(c, id) ==
  /\ Waiting(c)
  /\ Answer(c, Command(c, id)) = "REV_CONFLICT"
  /\ FreshKeys(used) # {}
  /\ LET k == CHOOSE k \in FreshKeys(used) : TRUE IN
       /\ used' = [used EXCEPT ![c] = @ \cup {k}]
       /\ pending' = [pending EXCEPT ![c].key = k, ![c].expected = db.revision]
  /\ tried' = [tried EXCEPT ![c] = {}]
  /\ UNCHANGED <<db, verdict, result, losses>>

\* Answers that say nothing of the payloads sent under the key before: the key
\* belongs to one of them, or this one is malformed, which the bus checks before
\* it looks the key up.
AboutPayload == {"CMD_IDEMPOTENCY_REUSE", "CMD_SCHEMA_INVALID"}

Others(c) == tried[c] \ {pending[c].expected}

\* The caller falls back on another payload it sent under the key.
FallBack(c, id) ==
  /\ Waiting(c)
  /\ Answer(c, Command(c, id)) \in AboutPayload
  /\ tried' = [tried EXCEPT ![c] = Others(c)]
  /\ \E e \in Others(c) : pending' = [pending EXCEPT ![c].expected = e]
  /\ UNCHANGED <<db, used, verdict, result, losses>>

\* Any other error ends the attempt: the caller is told nothing was modified.
Refused(c, id) ==
  /\ Waiting(c)
  /\ Answer(c, Command(c, id)) \notin {"", "REV_CONFLICT"}
  /\ Answer(c, Command(c, id)) \in AboutPayload => Others(c) = {}
  /\ verdict' = [verdict EXCEPT ![c] = "refused"]
  /\ UNCHANGED <<db, pending, used, tried, result, losses>>

\* The process dies before or after COMMIT, or COMMIT reports an error.  The
\* caller will send the same payload again, or one with the same key rebuilt on
\* the revision it finds.
LoseAnswer(c, id) ==
  LET r == Command(c, id) IN
    /\ Waiting(c)
    /\ losses < MaxLosses
    /\ losses' = losses + 1
    /\ db' \in {db, After(c, r)}
    /\ tried' = [tried EXCEPT ![c] = @ \cup {r.expected}]
    /\ \E e \in {r.expected, db'.revision} : pending' = [pending EXCEPT ![c].expected = e]
    /\ UNCHANGED <<used, verdict, result>>

Answered(c) ==
  \E id \in CommandIds : Succeed(c, id) \/ Conflict(c, id) \/ FallBack(c, id) \/ Refused(c, id)

Next ==
  \E c \in Callers : Answered(c) \/ \E id \in CommandIds : LoseAnswer(c, id)

\* A caller keeps calling until it is told, and a call returns.
Spec == Init /\ [][Next]_vars /\ \A c \in Callers : WF_vars(Answered(c))

(***************************************************************************)
(* Properties                                                              *)
(***************************************************************************)

\* The caller whose key a transaction of the log carries.
CallerOf(k) == CHOOSE c \in Callers : k \in used[c]

\* Whatever answers get lost, each caller's change takes effect at most once,
\* also when the caller rebuilds it under a new key after a conflict, and no
\* caller is refused whose change took effect.
Promise == INSTANCE ExactlyOnce
  WITH effects <- [t \in 1..db.revision |-> CallerOf(db.transactions[t].key)]
KeepsPromise == Promise!Spec

\* Every caller is told in the end: the revision REV_CONFLICT carries is one on
\* which the rebuilt command can succeed.
EveryCallerIsTold == \A c \in Callers : <>(verdict[c] # "waiting")

\* The result a caller is given is its own change, as the log has it: the
\* revision it produced and the snapshot that revision selected.
ResultIsCommitted ==
  \A c \in Callers : verdict[c] = "done" =>
    LET t == result[c].new IN
      /\ t \in DOMAIN db.transactions
      /\ db.transactions[t].key \in used[c]
      /\ db.transactions[t].kind = pending[c].change.kind
      /\ result[c].snapshot = db.transactions[t].snapshot
      /\ result[c].content = db.snapshots[db.transactions[t].snapshot]
      /\ result[c].base = t - 1
      /\ pending[c].change.kind = "adjust.exposure" =>
           result[c].content.ev =
             RoundEV(db.snapshots[result[c].content.parent].ev + pending[c].change.ev)
=============================================================================
