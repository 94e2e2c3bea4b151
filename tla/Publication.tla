----------------------------- MODULE Publication -----------------------------
(***************************************************************************)
(* How projects come to exist: ProjectStore::create and                    *)
(* ProjectStore::migrate_v1_to_v2, run by several processes on the same    *)
(* paths, next to sessions that edit the projects, with input/output       *)
(* errors and the death of a process at any step.                          *)
(*                                                                         *)
(* A project is built in a staging directory with a random name, so each   *)
(* process has its own; rename moves it to its path, and fails on a path   *)
(* where a project exists.  The facts of a database are the number of      *)
(* changes made to it, which its fingerprint tells apart.                  *)
(*                                                                         *)
(* A definition named Operator_Defect is a faulty variant of Operator.     *)
(***************************************************************************)
EXTENDS Integers, FiniteSets

CONSTANTS
  Procs,      \* processes
  Paths,      \* sibling .npsproj paths
  Documents,  \* random document ids
  Nobody,     \* holds a lease nobody holds
  Nothing,    \* what is at a path without a project
  MaxFacts,   \* bound on the changes to one project
  MaxCrashes  \* bound on the deaths of processes

ASSUME PublicationAssumption ==
  /\ Nobody \notin Procs
  /\ MaxFacts \in Nat /\ MaxCrashes \in Nat

VARIABLES
  at,       \* at[p]: the project at path p, or Nothing
  lease,    \* lease[p]: the process that holds p/project.lock, or Nobody
  staging,  \* staging[i]: the project process i builds, or Nothing
  phase,    \* phase[i]: how far process i is
  job,      \* job[i]: the paths of i's call, the document it makes, the fingerprint it took
  outcome,  \* outcome[i]: how i's last call ended
  crashes   \* deaths so far

vars == <<at, lease, staging, phase, job, outcome, crashes>>

V1 == 1
V2 == 2
NoOrigin == <<>>
Fingerprint(p) == <<at[p].doc, at[p].facts>>

\* copied is the fingerprint of the facts that were copied into a v2 project;
\* origin is the one stored in migration_source_fingerprint.
Project(doc, format, facts, origin, copied) ==
  [doc |-> doc, format |-> format, facts |-> facts, origin |-> origin, copied |-> copied,
   objects |-> FALSE, database |-> FALSE, marker |-> TRUE]

\* Fingerprints, and what can be at a path.
Prints == Documents \X Nat
Projects ==
  [doc : Documents, format : {V1, V2}, facts : Nat, origin : Prints \cup {NoOrigin},
   copied : Prints \cup {NoOrigin}, objects : BOOLEAN, database : BOOLEAN, marker : BOOLEAN]

ASSUME NothingAssumption == Nothing \notin Projects \cup Paths \cup Documents

\* source and print are those of a migration, doc is the random id of a create.
NoJob == [source |-> Nothing, target |-> Nothing, doc |-> Nothing, print |-> NoOrigin]

Init ==
  /\ at = [p \in Paths |-> Nothing]
  /\ lease = [p \in Paths |-> Nobody]
  /\ staging = [i \in Procs |-> Nothing]
  /\ phase = [i \in Procs |-> "idle"]
  /\ job = [i \in Procs |-> NoJob]
  /\ outcome = [i \in Procs |-> "none"]
  /\ crashes = 0

Present(p) == at[p] # Nothing
Held(i) == {p \in Paths : lease[p] = i}
Goto(i, f) == phase' = [phase EXCEPT ![i] = f]
Dropped(i) == [p \in Paths |-> IF lease[p] = i THEN Nobody ELSE lease[p]]

\* The call ends without a session: it gives its leases back and removes the
\* staging directory it owns.
End(i, result) ==
  /\ outcome' = [outcome EXCEPT ![i] = result]
  /\ staging' = [staging EXCEPT ![i] = Nothing]
  /\ lease' = Dropped(i)
  /\ Goto(i, "idle")
  /\ UNCHANGED <<job, crashes>>

Return(i, result) == End(i, result) /\ UNCHANGED at

\* verify_integrity, as open runs it.
Opens(p) == at[p].objects /\ at[p].database

Unmarked(p) == [at EXCEPT ![p].marker = FALSE]

\* ProjectStore::open of path p succeeds in a call of process i, which then
\* returns: of its leases it keeps that of p only.
OpenedBy(i, p) ==
  /\ lease' = [Dropped(i) EXCEPT ![p] = i]
  /\ at' = Unmarked(p)
  /\ staging' = [staging EXCEPT ![i] = Nothing]
  /\ outcome' = [outcome EXCEPT ![i] = "ok"]
  /\ Goto(i, "session")
  /\ UNCHANGED crashes

(***************************************************************************)
(* ProjectStore::create                                                    *)
(***************************************************************************)
UsedDocuments ==
  {at[p].doc : p \in {q \in Paths : Present(q)}}
    \cup {staging[i].doc : i \in {j \in Procs : staging[j] # Nothing}}

\* The destination must not exist; the staging directory gets its marker.
CreateStage(i, p) ==
  /\ phase[i] = "idle"
  /\ ~Present(p)
  /\ \E d \in Documents \ UsedDocuments :
       /\ staging' = [staging EXCEPT ![i] = Project(d, V1, 0, NoOrigin, NoOrigin)]
       /\ job' = [job EXCEPT ![i] = [NoJob EXCEPT !.target = p, !.doc = d]]
  /\ Goto(i, "create.staged")
  /\ UNCHANGED <<at, lease, outcome, crashes>>

CreateExists(i, p) ==
  /\ phase[i] = "idle"
  /\ Present(p)
  /\ Return(i, "exists")

\* persist_object: the file is written, synchronised, renamed and read back.
CreatePersist(i) ==
  /\ phase[i] = "create.staged"
  /\ staging' = [staging EXCEPT ![i].objects = TRUE]
  /\ Goto(i, "create.object")
  /\ UNCHANGED <<at, lease, job, outcome, crashes>>

\* Tables and first rows are committed, checked, and the database closed.
CreateDatabase(i) ==
  /\ phase[i] = "create.object"
  /\ staging' = [staging EXCEPT ![i].database = TRUE]
  /\ Goto(i, "create.database")
  /\ UNCHANGED <<at, lease, job, outcome, crashes>>

\* Variant: rename replaces what it finds.
Rename_Replaces(i, f) ==
  /\ at' = [at EXCEPT ![job[i].target] = staging[i]]
  /\ staging' = [staging EXCEPT ![i] = Nothing]
  /\ Goto(i, f)
  /\ UNCHANGED <<lease, job, outcome, crashes>>

\* std::filesystem::rename of the staging directory.
Rename(i, f) ==
  /\ ~Present(job[i].target)
  /\ at' = [at EXCEPT ![job[i].target] = staging[i]]
  /\ staging' = [staging EXCEPT ![i] = Nothing]
  /\ Goto(i, f)
  /\ UNCHANGED <<lease, job, outcome, crashes>>

\* Variant: the directory is published before its database is committed.
CreateRename_BeforeDatabase(i) == phase[i] = "create.object" /\ Rename(i, "create.published")

CreateRename(i) == phase[i] = "create.database" /\ Rename(i, "create.published")

CreateLost(i) ==
  /\ phase[i] = "create.database"
  /\ Present(job[i].target)
  /\ Return(i, "exists")

\* The created project is opened like any other; another process may have
\* opened it first.
CreateOpen(i) ==
  LET p == job[i].target IN
    /\ phase[i] = "create.published"
    /\ IF lease[p] # Nobody THEN Return(i, "locked")
       ELSE Opens(p) /\ OpenedBy(i, p) /\ UNCHANGED job

(***************************************************************************)
(* ProjectStore::migrate_v1_to_v2                                          *)
(***************************************************************************)
MigrateLease(i, s, t) ==
  /\ phase[i] = "idle"
  /\ s # t
  /\ Present(s) /\ lease[s] = Nobody
  /\ lease' = [lease EXCEPT ![s] = i]
  /\ job' = [job EXCEPT ![i] = [NoJob EXCEPT !.source = s, !.target = t]]
  /\ Goto(i, "migrate.leased")
  /\ UNCHANGED <<at, staging, outcome, crashes>>

\* Format, integrity and semantics of the source; its fingerprint is taken.
MigrateValidate(i) ==
  LET s == job[i].source IN
    /\ phase[i] = "migrate.leased"
    /\ IF at[s].format = V1 /\ Opens(s)
       THEN /\ job' = [job EXCEPT ![i].print = Fingerprint(s)]
            /\ Goto(i, "migrate.validated")
            /\ UNCHANGED <<at, lease, staging, outcome, crashes>>
       ELSE Return(i, "refused")

\* Variant: the target must still have the facts it was migrated with.
Matches_Unedited(i, p) ==
  /\ at[p].format = V2 /\ at[p].doc = job[i].print[1] /\ at[p].origin = job[i].print
  /\ at[p].facts = job[i].print[2]

\* Variant: any migration of the document will do.
Matches_AnyState(i, p) == at[p].format = V2 /\ at[p].doc = job[i].print[1]

\* The project at p is the migration of the source state i validated.
Matches(i, p) ==
  at[p].format = V2 /\ at[p].doc = job[i].print[1] /\ at[p].origin = job[i].print

\* The endings with IO_MIGRATION_TARGET_CONFLICT, which their messages tell
\* apart: the target "belongs to a different source state", it "is not the
\* expected complete v2 project", "another process published" it "first".
Conflicts == {"different", "unusable", "overtaken"}

\* A target that exists is opened: it is returned when it matches, and closed
\* again when it does not.  Its publication marker is gone either way.
MigrateExisting(i) ==
  LET p == job[i].target IN
    /\ phase[i] = "migrate.validated"
    /\ Present(p)
    /\ \/ lease[p] # Nobody /\ Return(i, "locked")
       \/ lease[p] = Nobody /\ Opens(p) /\ Matches(i, p) /\ OpenedBy(i, p) /\ UNCHANGED job
       \/ lease[p] = Nobody /\ Opens(p) /\ ~Matches(i, p) /\ at' = Unmarked(p) /\ End(i, "different")

\* Any other error of opening or reading that target, a damaged object or an
\* input/output error before its lease is asked for or after its marker is
\* removed, is reported as a conflict too.
MigrateUnusable(i) ==
  LET p == job[i].target IN
    /\ phase[i] = "migrate.validated"
    /\ Present(p)
    /\ UNCHANGED at \/ (lease[p] = Nobody /\ at' = Unmarked(p))
    /\ End(i, "unusable")

MigrateStage(i) ==
  /\ phase[i] = "migrate.validated"
  /\ ~Present(job[i].target)
  /\ staging' = [staging EXCEPT ![i] =
                   Project(job[i].print[1], V1, 0, NoOrigin, NoOrigin)]
  /\ Goto(i, "migrate.staged")
  /\ UNCHANGED <<at, lease, job, outcome, crashes>>

\* Every registered object is read, hashed and persisted in the staging copy.
MigrateObjects(i) ==
  /\ phase[i] = "migrate.staged"
  /\ staging' = [staging EXCEPT ![i].objects = at[job[i].source].objects]
  /\ Goto(i, "migrate.copied")
  /\ UNCHANGED <<at, lease, job, outcome, crashes>>

\* Variant: the copy is transformed without comparing fingerprints.
MigrateTransform_Unchecked(i) ==
  LET s == job[i].source IN
    /\ phase[i] = "migrate.copied"
    /\ staging' = [staging EXCEPT ![i] =
                     [Project(at[s].doc, V2, at[s].facts, job[i].print, Fingerprint(s))
                        EXCEPT !.objects = staging[i].objects, !.database = TRUE]]
    /\ Goto(i, "migrate.verified")
    /\ UNCHANGED <<at, lease, job, outcome, crashes>>

\* The database is copied as one transaction; its fingerprint must be the one
\* that was validated; it is transformed, checked, reopened and verified, and
\* the publication marker written.
MigrateTransform(i) ==
  LET s == job[i].source IN
    /\ phase[i] = "migrate.copied"
    /\ IF Fingerprint(s) = job[i].print /\ staging[i].objects
       THEN /\ staging' = [staging EXCEPT ![i] =
                  [Project(at[s].doc, V2, at[s].facts, job[i].print, Fingerprint(s))
                     EXCEPT !.objects = staging[i].objects, !.database = TRUE]]
            /\ Goto(i, "migrate.verified")
            /\ UNCHANGED <<at, lease, job, outcome, crashes>>
       ELSE Return(i, "refused")

\* The last look at the target before the rename.
MigrateClear(i) ==
  /\ phase[i] = "migrate.verified"
  /\ IF Present(job[i].target) THEN Return(i, "overtaken")
     ELSE /\ Goto(i, "migrate.cleared")
          /\ UNCHANGED <<at, lease, staging, job, outcome, crashes>>

MigrateRename(i) == phase[i] = "migrate.cleared" /\ Rename(i, "migrate.published")

MigrateLost(i) ==
  /\ phase[i] = "migrate.cleared"
  /\ Present(job[i].target)
  /\ Return(i, "overtaken")

MigrateOpen(i) ==
  LET p == job[i].target IN
    /\ phase[i] = "migrate.published"
    /\ IF lease[p] # Nobody THEN Return(i, "locked")
       ELSE Opens(p) /\ OpenedBy(i, p) /\ UNCHANGED job

(***************************************************************************)
(* Sessions, errors, death, and other programs                             *)
(***************************************************************************)
OpenSession(i, p) ==
  /\ phase[i] = "idle"
  /\ Present(p) /\ lease[p] = Nobody
  /\ Opens(p) /\ OpenedBy(i, p)
  /\ job' = [job EXCEPT ![i] = [NoJob EXCEPT !.target = p]]

Edit(i) ==
  /\ phase[i] = "session"
  /\ \E p \in Held(i) :
       /\ at[p].facts < MaxFacts
       /\ at' = [at EXCEPT ![p].facts = @ + 1]
  /\ UNCHANGED <<lease, staging, phase, job, outcome, crashes>>

CloseSession(i) ==
  /\ phase[i] = "session"
  /\ lease' = Dropped(i)
  /\ Goto(i, "idle")
  /\ UNCHANGED <<at, staging, job, outcome, crashes>>

\* An error in a call that nothing translates: its staging directory is removed.
Fail(i) ==
  /\ phase[i] \notin {"idle", "session"}
  /\ Return(i, "failed")

\* The staging directory of a dead process stays behind under its random name,
\* which no later call uses.
Crash(i) ==
  /\ phase[i] # "idle"
  /\ crashes < MaxCrashes
  /\ crashes' = crashes + 1
  /\ staging' = [staging EXCEPT ![i] = Nothing]
  /\ outcome' = [outcome EXCEPT ![i] = "none"]
  /\ lease' = Dropped(i)
  /\ Goto(i, "idle")
  /\ UNCHANGED <<at, job>>

\* The lease does not stop a program that ignores it.
Tamper(p) ==
  /\ Present(p) /\ at[p].format = V1
  /\ at[p].facts < MaxFacts
  /\ at' = [at EXCEPT ![p].facts = @ + 1]
  /\ UNCHANGED <<lease, staging, phase, job, outcome, crashes>>

Create(i) ==
  \/ \E p \in Paths : CreateStage(i, p) \/ CreateExists(i, p)
  \/ CreatePersist(i) \/ CreateDatabase(i) \/ CreateRename(i) \/ CreateLost(i) \/ CreateOpen(i)

Migrate(i) ==
  \/ \E s, t \in Paths : MigrateLease(i, s, t)
  \/ MigrateValidate(i) \/ MigrateExisting(i) \/ MigrateUnusable(i) \/ MigrateStage(i)
  \/ MigrateObjects(i)
  \/ MigrateTransform(i) \/ MigrateClear(i) \/ MigrateRename(i) \/ MigrateLost(i)
  \/ MigrateOpen(i)

Session(i) == (\E p \in Paths : OpenSession(i, p)) \/ Edit(i) \/ CloseSession(i)

Next ==
  \/ \E i \in Procs : Create(i) \/ Migrate(i) \/ Session(i) \/ Fail(i) \/ Crash(i)
  \/ \E p \in Paths : Tamper(p)

Spec == Init /\ [][Next]_vars

(***************************************************************************)
(* Properties                                                              *)
(***************************************************************************)

\* Whatever dies or fails while a project is built, what is at a path is a
\* whole project: its objects and its database are there.
PublishedComplete == \A p \in Paths : Present(p) => Opens(p)

\* A path holds the first project published there for ever: no create and no
\* migration replaces it or takes it away, however their checks interleave.
NeverReplaced ==
  [][\A p \in Paths : Present(p) =>
       /\ at'[p] # Nothing
       /\ at'[p].doc = at[p].doc /\ at'[p].format = at[p].format
       /\ at'[p].origin = at[p].origin /\ at'[p].copied = at[p].copied
       /\ at'[p].facts >= at[p].facts]_vars

\* A migrated project holds the facts whose fingerprint it names, also when
\* another program changed the source during the migration.
MigrationFaithful ==
  \A p \in Paths : Present(p) /\ at[p].format = V2 =>
    /\ at[p].origin = at[p].copied
    /\ at[p].doc = at[p].copied[1]

\* The target of process i is a project, and not the migration of the state it
\* validated.
TargetIsAnother(i) ==
  LET p == job[i].target IN Present(p) /\ (at[p].format = V1 \/ at[p].origin # job[i].print)

\* A migration is told that its target belongs to a different source state, or
\* that another process was first, only when the target is not the migration of
\* the state it validated: migrating again after a crash, or after the target
\* was edited, meets no such conflict, and no two processes overtake each other
\* with one migration.  The third message, "unusable", says nothing of the kind:
\* a target that could not be opened may well be the expected one.
ConflictIsReal ==
  \A i \in Procs :
    phase[i] = "idle" /\ outcome[i] \in Conflicts \ {"unusable"} => TargetIsAnother(i)

\* A call that returns a session holds the lease of the path it was asked for
\* and no other, and the publication marker is gone.  What is at that path is,
\* after a create, the project this call made and, after a migration, the
\* migration of the source state this call validated, whoever published it.
SessionIsAskedFor ==
  \A i \in Procs : phase[i] = "session" =>
    LET p == job[i].target IN
      /\ Held(i) = {p} /\ ~at[p].marker
      /\ job[i].doc # Nothing => at[p].doc = job[i].doc
      /\ job[i].source # Nothing =>
           at[p].format = V2 /\ at[p].doc = job[i].print[1] /\ at[p].origin = job[i].print
=============================================================================
