----------------------------- MODULE CommandLine -----------------------------
(***************************************************************************)
(* The commands of nps-cli, each a process of its own, run side by side on *)
(* one project path: demo creates, edits, closes, reopens and compares;    *)
(* verify reads; crash-commit dies after COMMIT; verify-recovery retries   *)
(* what crash-commit committed; export-demo writes an image; migrate-v1-v2 *)
(* copies.  Every read and every commit of a command is a step, on the     *)
(* sessions of ProjectStore; "edit" is an application of the library that  *)
(* edits the same project.                                                 *)
(*                                                                         *)
(* A command ends with an exit code, 0, 2 (ProjectStoreError),             *)
(* 3 (AtomicPpmExportError), 4 (RenderError) or 1 (any other exception),   *)
(* or it dies.  Codes 2 to 4 are printed with "projectModified": false.    *)
(*                                                                         *)
(* A definition named Operator_Defect is a faulty variant of Operator.     *)
(***************************************************************************)
EXTENDS ProjectStore

CONSTANT EditRequests  \* what the application asks for

ASSUME EditAssumption == EditRequests \subseteq Requests

VARIABLES
  published,  \* the project exists at its path
  job         \* job[s]: the command process s runs, how far it is and what it has read

allvars == <<vars, published, job>>

Commands == {"demo", "verify", "crash-commit", "verify-recovery", "export-demo", "migrate-v1-v2"}

\* exposure stands for the pixels that were rendered; committed says that the
\* process committed a transaction.
Job(op, place) ==
  [op |-> op, at |-> place, code |-> 0, recovered |-> FALSE, revision |-> 0, snapshot |-> 0,
   exposure |-> 0, committed |-> FALSE]

NoJob == Job("none", "none")

CliInit ==
  /\ Init
  /\ marker
  /\ published = (db.format = V2)
  /\ job = [s \in Sessions |-> NoJob]

At(s, place) == job[s].at = place
Continue(s, place) == job' = [job EXCEPT ![s].at = place]

\* The exit code is settled; a project that is open is still to be closed.
Leave(s, code) == job' = [job EXCEPT ![s].at = "end", ![s].code = code]

Begin(s, op) ==
  /\ job[s] = NoJob
  /\ job' = [job EXCEPT ![s] = Job(op, IF op = "demo" THEN "create" ELSE "open")]
  /\ UNCHANGED <<vars, published>>

(***************************************************************************)
(* ProjectStore::create and ProjectStore::open as the commands call them.  *)
(***************************************************************************)
Create(s) ==
  /\ At(s, "create")
  /\ \/ /\ ~published /\ published' = TRUE
        /\ Continue(s, "open")
     \/ Leave(s, 2) /\ UNCHANGED published
  /\ UNCHANGED vars

\* Variant: a held lease is waited for.
Refused_Waits(s) ==
  /\ job[s].at \in {"open", "reopen"} /\ phase[s] = "idle"
  /\ ~published
  /\ Leave(s, 2)
  /\ UNCHANGED <<vars, published>>

\* There is no project, or its lease is held, or it is not a v1 project.
Refused(s) ==
  /\ job[s].at \in {"open", "reopen"} /\ phase[s] = "idle"
  /\ \/ ~published
     \/ lease # NoSession
     \/ job[s].op = "migrate-v1-v2" /\ db.format # V1
  /\ Leave(s, 2)
  /\ UNCHANGED <<vars, published>>

\* Where a command goes on once its project is open.
Body(s) ==
  CASE At(s, "reopen")                      -> "compare"
    [] At(s, "open") /\ job[s].op = "demo"  -> "commit"
    [] job[s].op = "crash-commit"            -> "revision"
    [] job[s].op = "edit"                    -> "editing"
    [] OTHER                                 -> "verify"

Open(s) ==
  /\ published /\ job[s].at \in {"open", "reopen"} /\ job[s].op # "migrate-v1-v2"
  /\ \/ (BeginOpen(s) \/ BuildStore(s) \/ VerifyOnOpen(s) \/ MarkUnclean(s)) /\ UNCHANGED job
     \/ FinishOpen(s) /\ Continue(s, Body(s))
     \/ FailBeforeStore(s) /\ Leave(s, 2)
     \/ FailWithStore(s) /\ Leave(s, 2)
  /\ UNCHANGED published

(***************************************************************************)
(* The reads of the commands.  Reading the source bytes checks their hash. *)
(***************************************************************************)
Reads(s, place) == phase[s] = "open" /\ At(s, place) /\ UNCHANGED <<vars, published>>

\* Any of them can fail, a file being gone or damaged or the disk reporting an
\* error; so can the preview that demo writes, and a transaction before COMMIT,
\* which is rolled back.
IOFails(s) ==
  /\ \E place \in {"verify", "read", "compare", "revision", "commit"} : Reads(s, place)
  /\ Leave(s, 2) \/ (At(s, "read") /\ job[s].op = "demo" /\ Leave(s, 1))

\* The format check of export-demo, verify_integrity, and what verify-recovery
\* makes of its report; the reopened demo already knows its code.
Verify(s) ==
  /\ Reads(s, "verify")
  /\ LET recovery == job[s].op = "verify-recovery"
         code     == IF \/ job[s].op = "export-demo" /\ db.format # V2
                        \/ ~VerifyIntegrity(db) THEN 2
                     ELSE IF recovery /\ (~recovered[s] \/ db.revision < 1) THEN 1
                     ELSE job[s].code
         place    == IF code # 0 \/ job[s].op = "demo" THEN "end"
                     ELSE IF recovery THEN "commit" ELSE "read"
     IN job' = [job EXCEPT ![s].at = place, ![s].code = code,
                           ![s].recovered = recovery /\ recovered[s],
                           ![s].revision = IF job[s].op = "demo" THEN @ ELSE db.revision]

\* Where a command goes on once it has rendered the current snapshot.
Rendered(s) ==
  CASE job[s].op = "demo"        -> "close"
    [] job[s].op = "export-demo" -> "revision"
    [] OTHER                     -> "end"

\* current_snapshot with read_source_bytes; demo and verify-recovery print the
\* snapshot of their result instead.
Render(s) ==
  /\ Reads(s, "read")
  /\ job' = [job EXCEPT
               ![s].at = Rendered(s),
               ![s].snapshot = IF job[s].op \in {"verify", "export-demo"} THEN db.current ELSE @,
               ![s].exposure = db.snapshots[db.current].ev]

\* demo renders again after reopening.
Compare(s) ==
  /\ Reads(s, "compare")
  /\ job' = [job EXCEPT
               ![s].at = "verify",
               ![s].code = IF db.snapshots[db.current].ev = job[s].exposure THEN 0 ELSE 1]

ReadRevision(s) ==
  /\ Reads(s, "revision")
  /\ job' = [job EXCEPT ![s].at = IF job[s].op = "export-demo" THEN "publish" ELSE "commit",
                        ![s].revision = db.revision]

\* The rendered pixels are published under the identity that was read, or
\* render or export_atomic_ppm16 throws.
Publish(s) ==
  /\ Reads(s, "publish")
  /\ \E code \in {0, 3, 4} : Leave(s, code)

\* The read-only source of a migration: what is read is what the new project
\* is published with, and printed.
Migrate(s) ==
  /\ At(s, "open") /\ job[s].op = "migrate-v1-v2" /\ published
  /\ BeginRead(s)
  /\ Continue(s, "migrate")
  /\ UNCHANGED published

CopySource(s) ==
  /\ At(s, "migrate")
  /\ \/ /\ VerifyIntegrity(db) /\ MigrationSemantics(db) /\ MigrationFits(db)
        /\ job' = [job EXCEPT ![s].at = "end", ![s].revision = db.revision, ![s].snapshot = db.current]
     \/ Leave(s, 2)
  /\ UNCHANGED <<vars, published>>

(***************************************************************************)
(* The commits of the commands                                             *)
(***************************************************************************)
DemoCommand == "demo-exposure-001"
CrashCommand == "recovery-exposure-001"
RetryCommand == "recovery-exposure-retry-002"

Exposure(command, key, expected, ev) ==
  [command |-> command, key |-> key, expected |-> expected,
   change |-> [kind |-> "adjust.exposure", ev |-> ev]]

\* Variant: the retry is based on the revision it finds.
RequestOf_CurrentBase(s) ==
  CASE job[s].op = "demo"            -> Exposure(DemoCommand, "demo/session:1", 0, 2)
    [] job[s].op = "crash-commit"    -> Exposure(CrashCommand, "recovery/session:1", job[s].revision, 1)
    [] job[s].op = "verify-recovery" -> Exposure(RetryCommand, "recovery/session:1", job[s].revision, 1)

\* Exposures in units of half an EV: demo asks for 1 EV, the others for 0.5.
RequestOf(s) ==
  CASE job[s].op = "demo"            -> Exposure(DemoCommand, "demo/session:1", 0, 2)
    [] job[s].op = "crash-commit"    -> Exposure(CrashCommand, "recovery/session:1", job[s].revision, 1)
    [] job[s].op = "verify-recovery" -> Exposure(RetryCommand, "recovery/session:1", job[s].revision - 1, 1)

\* These requests are among those the project is asked.
ASSUME CommandAssumption ==
  /\ {DemoCommand, CrashCommand, RetryCommand} \subseteq CommandIds
  /\ {"demo/session:1", "recovery/session:1"} \subseteq Keys
  /\ {1, 2} \subseteq Deltas

\* The application does not pass its edits off as those of crash-commit.
ASSUME ApplicationAssumption ==
  \A r \in EditRequests : r.command # CrashCommand /\ r.key # "recovery/session:1"

Submits(s) == phase[s] = "open" /\ At(s, "commit") /\ UNCHANGED published

\* The bus returns these two as values, which require_commit and crash-commit
\* turn into a runtime_error; it lets the other ProjectStoreErrors through.
RefusalCode(d, r) == IF Refusal(d, r) \in {"CMD_IDEMPOTENCY_REUSE", "REV_CONFLICT"} THEN 1 ELSE 2

\* verify-recovery gives up on a result that is no replay.
Commit(s) ==
  /\ Submits(s) /\ job[s].op # "crash-commit"
  /\ Execute(s, RequestOf(s))
  /\ job' = [job EXCEPT ![s].at = IF job[s].op = "demo" THEN "read" ELSE "end",
                        ![s].code = IF job[s].op = "demo" THEN 0 ELSE 1,
                        ![s].revision = db'.revision,
                        ![s].snapshot = db'.current,
                        ![s].committed = TRUE]

\* COMMIT took effect and reported an error.
CommitUnknown(s) ==
  /\ Submits(s)
  /\ ExecuteUnknown(s, RequestOf(s))
  /\ job' = [job EXCEPT ![s].at = "end", ![s].code = 2, ![s].committed = TRUE]

\* COMMIT took effect and the fault point comes next.
CommitFault(s) ==
  /\ Submits(s) /\ job[s].op = "crash-commit"
  /\ ExecuteUnknown(s, RequestOf(s))
  /\ job' = [job EXCEPT ![s].at = "exit", ![s].committed = TRUE]

ExitAtFault(s) ==
  /\ At(s, "exit")
  /\ Crash(s)
  /\ job' = [job EXCEPT ![s] = NoJob]
  /\ UNCHANGED published

\* Only verify-recovery can meet its key again; the result must be that of the
\* last revision.
CommitReplay(s) ==
  LET result == ReplayResult(db, RequestOf(s)) IN
  /\ Submits(s)
  /\ Replay(s, RequestOf(s))
  /\ IF result.new # job[s].revision THEN Leave(s, 1)
     ELSE job' = [job EXCEPT ![s].at = "read", ![s].snapshot = result.snapshot]

CommitRefused(s) ==
  /\ Submits(s)
  /\ ~Commits(db, RequestOf(s)) /\ ~Replays(db, RequestOf(s))
  /\ Leave(s, RefusalCode(db, RequestOf(s)))
  /\ UNCHANGED vars

\* The application edits as long as it likes.
Edit(s) ==
  /\ At(s, "editing")
  /\ \/ \E r \in EditRequests : Execute(s, r) /\ UNCHANGED job
     \/ phase[s] = "open" /\ Leave(s, 0) /\ UNCHANGED vars
  /\ UNCHANGED published

(***************************************************************************)
(* The end of a command                                                    *)
(***************************************************************************)
\* demo closes its project itself, and an error of that close is an error of
\* the command; the destructor swallows it.
CloseProject(s) ==
  /\ job[s].at \in {"close", "end"}
  /\ Close(s)
  /\ IF At(s, "end") THEN UNCHANGED job
     ELSE IF clean' = 1 THEN Continue(s, "reopen") ELSE Leave(s, 2)
  /\ UNCHANGED published

ReleaseProject(s) ==
  /\ job[s].at \in {"reopen", "end"}
  /\ Release(s)
  /\ UNCHANGED <<published, job>>

Exit(s) ==
  /\ At(s, "end") /\ phase[s] = "idle"
  /\ job' = [job EXCEPT ![s] = NoJob]
  /\ UNCHANGED <<vars, published>>

Kill(s) ==
  /\ job[s] # NoJob
  /\ Crash(s) \/ (phase[s] = "idle" /\ UNCHANGED vars)
  /\ job' = [job EXCEPT ![s] = NoJob]
  /\ UNCHANGED published

\* The steps of the commands of nps-cli, which wait for nothing.
Progress(s) ==
  \/ Create(s) \/ Refused(s) \/ Open(s)
  \/ IOFails(s) \/ Verify(s) \/ Render(s) \/ Compare(s) \/ ReadRevision(s) \/ Publish(s)
  \/ Migrate(s) \/ CopySource(s)
  \/ Commit(s) \/ CommitUnknown(s) \/ CommitFault(s) \/ ExitAtFault(s)
  \/ CommitReplay(s) \/ CommitRefused(s)
  \/ CloseProject(s) \/ ReleaseProject(s) \/ Exit(s)

CliNext ==
  \E s \in Sessions :
    \/ \E op \in Commands \cup {"edit"} : Begin(s, op)
    \/ Progress(s) \/ Edit(s) \/ Kill(s)

CliSpec == CliInit /\ [][CliNext]_allvars

(***************************************************************************)
(* Properties                                                              *)
(***************************************************************************)
Exits(s, op, code) == At(s, "end") /\ job[s].op = op /\ job[s].code = code

\* The revision and the snapshot belong together in the history of the project.
IsCommitted(revision, snapshot) ==
  IF revision = 0 THEN snapshot = 1
  ELSE revision \in DOMAIN db.transactions /\ db.transactions[revision].snapshot = snapshot

\* The revision and snapshot that a successful command prints or exports,
\* read by separate calls, are of one committed state, and the pixels it
\* exports are those of that snapshot, whoever edits around it.
PrintedIsCommitted ==
  \A s \in Sessions :
    At(s, "end") /\ job[s].code = 0 /\ job[s].op \in Commands =>
      /\ IsCommitted(job[s].revision, job[s].snapshot)
      /\ job[s].op = "export-demo" => job[s].exposure = db.snapshots[job[s].snapshot].ev

\* What the exit codes claim is true.  A dead crash-commit left its
\* transaction; verify-recovery succeeds when, and only when, the open it did
\* recovered from an unclean end and the last transaction is that one; demo
\* succeeds on its own transaction, and finds other pixels after reopening only
\* when others committed in between.
VerdictsAreTrue ==
  \A s \in Sessions :
    LET last    == job[s].revision
        crashed == /\ job[s].recovered /\ last \in DOMAIN db.transactions
                   /\ db.transactions[last].command = CrashCommand
    IN  /\ At(s, "exit") =>
             \E t \in DOMAIN db.transactions : db.transactions[t].command = CrashCommand
        /\ Exits(s, "verify-recovery", 0) => crashed
        /\ Exits(s, "verify-recovery", 1) => ~crashed
        /\ Exits(s, "demo", 0) => db.transactions[1].command = DemoCommand
        /\ job[s].op = "demo" /\ At(s, "verify") /\ job[s].code = 1 =>
             \E t \in DOMAIN db.transactions : db.transactions[t].command # DemoCommand

\* verify, verify-recovery, export-demo and migrate-v1-v2 commit nothing to the
\* project they look at, even when the key of a retry is unknown to it.
OnlyEditorsCommit ==
  [][db' # db => \E s \in Sessions :
       phase[s] = "open" /\ job[s].op \in {"demo", "crash-commit", "edit"}
         /\ job'[s].op = job[s].op /\ lease = s]_allvars

\* A command waits for nobody: whatever the other processes hold or leave
\* behind, it has a step of its own until it ends; a project in use is
\* reported.
NeverWaits == \A s \in Sessions : job[s].op \in Commands => ENABLED Progress(s)

\* The report of a failed command says whether the project was modified:
\* "projectModified": false is printed only by a process that committed nothing.
ReportsModification ==
  \A s \in Sessions : At(s, "end") /\ job[s].code \in {2, 3, 4} => ~job[s].committed
=============================================================================
