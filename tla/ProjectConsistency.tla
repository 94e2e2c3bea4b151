-------------------------- MODULE ProjectConsistency --------------------------
(***************************************************************************)
(* What holds of a database that ProjectStore creates, migrates and        *)
(* commits transactions to: the relations between the tables of a project  *)
(* that the invariants of its specifications are built from.               *)
(***************************************************************************)
EXTENDS ProjectTables

SnapshotRows == [parent : Nat, created : Nat, ev : Int, nodes : Nat]

Typed(d) ==
  /\ d.format \in {V1, V2}
  /\ d.revision \in 0..MaxRevision
  /\ d.current \in Nat /\ d.position \in Nat
  /\ d.snapshots \in Seq(SnapshotRows)
  /\ DOMAIN d.history \subseteq Nat
  /\ DOMAIN d.transactions \subseteq Nat
  /\ DOMAIN d.idempotency \subseteq Keys

\* Parents are older than their children, by id and by revision.
Ancestry(d) ==
  /\ Len(d.snapshots) > 0
  /\ d.snapshots[1].parent = NoParent /\ d.snapshots[1].created = 0
  /\ \A s \in 2..Len(d.snapshots) :
       /\ d.snapshots[s].parent \in 1..(s - 1)
       /\ d.snapshots[d.snapshots[s].parent].created < d.snapshots[s].created

\* The transaction of a snapshot's revision is the edit that made it.
Creation(d) ==
  \A s \in 2..Len(d.snapshots) :
    LET t == d.snapshots[s].created IN
      /\ t \in DOMAIN d.transactions
      /\ d.transactions[t].snapshot = s
      /\ d.transactions[t].kind \in EditKinds

\* History is a path down the tree, and the cursor is on the current snapshot.
Path(d) ==
  /\ MaximumHistoryPosition(d) \in 0..d.revision
  /\ DOMAIN d.history = 0..MaximumHistoryPosition(d)
  /\ d.history[0] = 1
  /\ \A p \in DOMAIN d.history \ {0} :
       /\ d.history[p] \in 2..Len(d.snapshots)
       /\ d.snapshots[d.history[p]].parent = d.history[p - 1]
  /\ d.position \in DOMAIN d.history
  /\ d.history[d.position] = d.current

Log(d) ==
  /\ DOMAIN d.transactions = 1..d.revision
  /\ \A t \in DOMAIN d.transactions :
       d.transactions[t].base = t - 1 /\ d.transactions[t].snapshot \in 1..Len(d.snapshots)
  /\ d.revision > 0 => d.transactions[d.revision].snapshot = d.current

\* The idempotency row a transaction must have.
RowOf(d, t) ==
  [fingerprint |-> d.transactions[t].fingerprint,
   command     |-> d.transactions[t].command,
   base        |-> d.transactions[t].base,
   new         |-> t,
   snapshot    |-> d.transactions[t].snapshot]

Replayable(d) ==
  /\ DOMAIN d.idempotency = {d.transactions[t].key : t \in DOMAIN d.transactions}
  /\ \A t \in DOMAIN d.transactions : d.idempotency[d.transactions[t].key] = RowOf(d, t)

UniqueRequests(d) ==
  \A t, u \in DOMAIN d.transactions :
    t # u => /\ d.transactions[t].key # d.transactions[u].key
             /\ d.transactions[t].command # d.transactions[u].command

\* After an undo, the next history row is what the undo left.
UndoneIsNext(d) ==
  d.revision > 0 /\ d.transactions[d.revision].kind = "history.undo" =>
    /\ d.revision > 1 /\ d.position + 1 \in DOMAIN d.history
    /\ d.history[d.position + 1] = d.transactions[d.revision - 1].snapshot

GraphsValid(d) ==
  d.format = V2 => \A s \in 1..Len(d.snapshots) : GraphValid(d.snapshots[s].nodes)

\* What every reachable database satisfies, in a form each step preserves.
Consistent(d) ==
  /\ Typed(d)
  /\ Ancestry(d)
  /\ Creation(d)
  /\ Path(d)
  /\ Log(d)
  /\ Replayable(d)
  /\ UniqueRequests(d)
  /\ UndoneIsNext(d)
  /\ GraphsValid(d)
=============================================================================
