# Natural Photo Studio: TLA+ models and proofs

This directory holds a formal model of the core of Natural Photo Studio: the
project store, the command bus, the edit graph and its documents, the renderer down
to its pixels, the atomic export, and the command-line application that composes
them. TLC checks every module on small instances; TLAPS proves, for every value of the
constants, the safety properties of the ledger, the sessions, the publication, the
command bus, the command line, the edit graph and its texts, the tile renderer, its
pixels and the export, with the two refinements between them.

`PROJECT.json` is the index: which definition stands for which source lines, which
run checks what, which faulty variant each property notices, which hazards of the
code each property is about. Source paths below are relative to the repository,
`ps` is `src/core/project_store.cpp`.

    tlc -workers 2 -config MCProjectStore.cfg MCProjectStore.tla
    tlapm ProjectStoreProofs.tla

1. [The system](#1-the-system)
2. [Modules and code](#2-modules-and-code)
3. [What the runs check](#3-what-the-runs-check)
4. [Bounds](#4-bounds)
5. [Fairness](#5-fairness)
6. [Proofs](#6-proofs)
7. [Findings](#7-findings)
8. [What is not modelled](#8-what-is-not-modelled)
9. [Plan](#9-plan)

## 1. The system

Natural Photo Studio edits photographs without changing them. A *project* is a
directory with one SQLite database, one source object and a lock file. A *command*
adjusts the exposure, replaces the edit graph, undoes or redoes. The renderer applies
the edit graph to the source tile by tile; the export writes the result as a PPM
file. Everything runs in the process of whoever uses the library: there is no server
and no message queue, but processes compete for a project, threads render, and a
process may die anywhere.

| component | source | state | operations |
|---|---|---|---|
| project ledger | `ps` 2522-2955 | tables `meta`, `snapshots`, `history`, `transactions`, `idempotency` | `execute` (four mutations), `verify_integrity`, the v1 to v2 transformation |
| project sessions | `ps` 415-500, 2111-2210, 2469-2474, 2957-2980 | the lock on `project.lock`, `meta.clean_shutdown`, the publication marker, the open store | `open`, `execute`, `close`, the destructor, the read-only open of a migration |
| project publication | `ps` 1929-2109, 2212-2454 | staging directories, the project paths | `create`, `migrate_v1_to_v2` |
| command bus | `src/core/command_bus.cpp`, `command.cpp` | none of its own | `CommandBus::execute`: validation, execution, translation of errors |
| edit graph | `src/document/edit_graph.cpp`, `ps` 1043-1403 | the builder's nodes | `EditGraphBuilder`, `create_edit_graph`, `validate_canonical_edit_graph`, `append_exposure_to_graph` |
| graph documents | the same, `command.cpp` 164-197 | none | parsing, canonical text, hash, the store's editing of the text |
| tile renderer | `src/render/cpu_renderer.cpp` | per call: tile counter, output, first failure; shared: LRU cache, publication gate | `CpuRenderer::render`, `CpuTileCache`, `RenderPublicationGate`, `CancellationSource` |
| atomic export | `src/render/atomic_ppm_export.cpp` | temporary file, destination | `export_atomic_ppm16` |
| render numerics | `cpu_renderer.cpp` 155-732, `src/color/color_encoding.cpp`, `src/imaging/operations.cpp` | the output image | clipping, tile grid, exposure, curve and mask arithmetic, conversion from and to 16 bits |
| command line | `apps/cli/main.cpp` | what one process has read | `demo`, `verify`, `crash-commit`, `verify-recovery`, `export-demo`, `migrate-v1-v2` |
| codecs, hashing | `src/imaging` | none | pure functions of bytes |

How they interact:

    caller -> CommandBus::execute -> ProjectStore::execute -> SQLite transaction
                                     |-- validate_canonical_edit_graph / append_exposure_to_graph
    caller -> ProjectStore::open / create / migrate_v1_to_v2 -> project.lock, database, objects
    CLI export: open -> current_snapshot, read_source_bytes, current_revision
                     -> CpuRenderer::render -> export_atomic_ppm16, with the lock held throughout

All calls are synchronous. Shared state is reached by several processes (project
directory, export destination) or several threads (render call, tile cache, gate,
cancellation flag).

What is hard in this code, and what each component must therefore guarantee:

- **A committed command whose answer is lost.** `COMMIT` succeeds and reports an
  error, or the process dies behind it. A retry under the same key must return the
  first result, at any later revision; a caller that follows the error codes must
  end up with its change applied once or refused for good.
- **Long sequences of legal commands.** Edits, undo, redo and migration mix freely;
  history has to stay one path of the snapshot tree and the project has to stay one
  that `open` and the migration accept.
- **Recovery.** `clean_shutdown` has to distinguish a closed project from one whose
  last editor died, through failed opens, read-only opens and closes that fail.
- **Publication.** A path holds a whole project or none, whatever process dies or
  competes; a migration that is run again finds its own target.
- **Threads and caches.** Tiles are claimed from a counter and written without a
  lock; cancellation and failures race with the last tile; a tile of an incomplete
  or different image must not come out of the cache; a slow render must not overtake
  a newer one.
- **Tiles and pixels.** Coordinates of region, tile, mask and source differ by offsets
  that are zero in the easy cases; each pixel asked for must be written by exactly one
  tile and be what the graph makes of that pixel of the source; roundings must not
  accumulate.
- **One text.** A graph is stored, hashed and compared as canonical text, made in three
  places that have to agree to the byte.
- **Reads that belong together.** The command line reads revision, snapshot and pixels
  by separate calls and prints or exports them as one state, while other processes
  want the same project.
- **Export.** The destination has the old file or the whole new one, and the code
  returned says which.

`PROJECT.json` lists these as hazards, each at its line with the properties about it.

## 2. Modules and code

    ProjectTables            the tables, and the operators over them
      |- ProjectConsistency  what holds of the tables of every project
      |- ProjectLedger       one project, one transaction per step  (abstract)
      |    |- ProjectStore   sessions: lease, open, execute, close, crash;
      |         |            implements ProjectLedger
      |         |- CommandLine  the commands of nps-cli on one project
      |- CommandBus          callers, lost answers, retries
      |    | implements
      |    v
      |  ExactlyOnce         each change at most once, verdicts true  (abstract)
    Publication              create and migrate_v1_to_v2 by several processes
    EditGraph                builder, two validators, chain compiler, append
      |- GraphDocuments      the same graphs as texts
    TileRender               render calls, threads, cache, gate
    TileGeometry             clipping and tiles   -|
    PixelFormats             floats and samples   -|- RegionRender: what a call computes
    AtomicExport             export_atomic_ppm16 by several exporters
    ProjectTablesProofs      lemmas: a transaction and a migration keep the tables consistent
      |- ProjectStoreProofs  theorems about ProjectLedger, ProjectStore and CommandLine
      |- CommandBusProofs    theorems about CommandBus
    EditGraphProofs          theorems about EditGraph and GraphDocuments
    PublicationProofs, AtomicExportProofs, TileRenderProofs, RegionRenderProofs
                             theorems about the modules of these names
    MC*                      bounds for TLC

A definition named `Operator_Defect` next to `Operator` is a faulty variant a
plausible bug would make of it. It is used by no specification; substituting it for
`Operator` shows that a property notices.

### ProjectTables

A database is a record with one field per table or `meta` value; a table is a
function from primary key to row (`snapshots` is a sequence: rows are never
deleted and failed transactions roll back, so SQLite's next rowid is the largest plus
one and ids have no gap). The
operators follow `execute` in its order:

| code | operator |
|---|---|
| checks before `BEGIN IMMEDIATE` (`ps` 2701-2731) | `SchemaRefusal` |
| lookup of the key, replay or `CMD_IDEMPOTENCY_REUSE` (2737-2781) | `Known`, `Replays`, `ReplayResult` |
| revision, limits, history boundary, constraints (2783-2895) | `TransactionRefusal`, `ConstraintFails` |
| new snapshot row (2804-2863) | `EditedSnapshot` |
| truncation and insertion in `history` (2865-2880) | `EditedHistory`, `NextPosition`, `NextCurrent` |
| log and idempotency rows (2897-2925) | `TransactionRow`, `IdempotencyRow` |
| the transaction as a whole | `Commits`, `Committed` |
| `verify_integrity` on the tables | `VerifyIntegrity` |
| `validate_v1_migration_semantics`, `transform_database_v1_to_v2` | `MigrationSemantics`, `MigrationFits`, `Migrated` |

Exposures are integers in units of the smallest step a caller uses, added by
`RoundEV`: exact up to `ExactEV`, and rounded to a spacing that doubles with the
magnitude beyond it, ties to even, which is what IEEE doubles do. A graph is the
number of its nodes, the only thing the ledger's checks depend on once the graph is
valid by itself (that is EditGraph's subject). Rows have the same source object and
working colour, so both are left out.

### ProjectConsistency

`Consistent` says of a database, part by part, what every project's tables keep:
types, the snapshot tree, who made which snapshot, the history as a path, the log, the
replay table, unique requests, what an undo left, valid graphs. It takes the database as
an argument, so that the modules with a database of their own share its proofs.

### ProjectLedger

`db` is the committed database; a step is one transaction that commits
(`LedgerExecute`), or the migration (`LedgerMigrate`), after which the behaviour is that
of the migrated copy. It states what a project promises however it is used.

### ProjectStore

Extends ProjectLedger, whose `db` it shares, and states that it implements it
(`ImplementsLedger`). Sessions, each one handle and its process. Actions of `open`: `BeginOpen` (the lock,
without waiting), `BuildStore` (format, `clean_shutdown`, the store object),
`VerifyOnOpen`, `MarkUnclean` (`clean_shutdown = 0` committed), `FinishOpen` (marker
removed, store returned). Before the store object exists an error only drops the lock
(`FailBeforeStore`); afterwards the destructor runs `close()` (`FailWithStore`).
`Execute`, `Replay` and `ExecuteUnknown` are the ways a transaction ends:
acknowledged, replayed, or durable with its answer lost. `Crash` may follow any step.
`BeginRead`/`Release` are the read-only source of a migration. `Environment` damages
the object file and restores it, which is what makes an open fail its verification.
`unreported` and `erased` are history variables: an unclean end nobody has reported,
and a failed open that rewrote the flag meanwhile.

Taken at what they promise: SQLite's atomic, durable, isolated transactions, and the
operating system's exclusive lock, dropped when its process dies.

### ExactlyOnce and CommandBus

`CommandBus` is one bus over one open project and callers that do what the command
documents tell them: retry a lost answer with the same key; rebuild under a new key
on the revision that `REV_CONFLICT` carries; go back to an earlier payload on
`CMD_IDEMPOTENCY_REUSE`. `CMD_SCHEMA_INVALID` is answered before the key is looked
up and so says nothing about a payload sent earlier under that key; a caller whose
earlier answer was lost has to go back then too (`AboutPayload`). Calls are
synchronous and one session has the project, so a call is one step; what interleaves
is whole calls. The document id, the revision limit of JSON (2^53 - 1) and the graph
limits of `validate_command` are in `Invalid`.

`ExactlyOnce` maps each transaction of the log to the caller whose key it carries:
that a change is not applied twice, under one key or two, is then a statement about
the sequence of effects.

### Publication

Processes, each in a call of `create` or `migrate_v1_to_v2` or in a session. A call
is split where another process or a death can come between: staging directory with
its marker, objects persisted, database committed, `rename`, `open`; in a migration
also lease, validation with the fingerprint, look at the target, copy and check of
the fingerprint, last look, rename. `Rename` fails where a project is. `Return`
removes the staging directory a call owns, a death leaves it under its random name.
After publishing, both calls open the project and may find it locked by another
process: they fail with `IO_PROJECT_LOCKED` although the project is there. A change to
a project is one more *fact*; the fingerprint is the document and its facts.
`Tamper` is a program that ignores the lock.

`IO_MIGRATION_TARGET_CONFLICT` has three messages, and each is an outcome of its own:
the target belongs to a `"different"` source state (it was opened and does not match),
it is `"unusable"` (`MigrateUnusable`: any other error of opening or reading it, whatever
it has to do with the target), another process published first (`"overtaken"`). The
first and the last are truthful (`ConflictIsReal`); the second need not be (section 7). An
existing target that is opened loses its marker also when it is refused. `Fail` is an
error that nothing translates. `job` has the paths of a call, the document a create
makes and the fingerprint a migration took, which `SessionIsAskedFor` compares with the
project that is returned.

### EditGraph

Nodes are added, replaced and removed in the builder in any order, so the states of
the run are all definitions over the ids, not only sensible ones. `CreateAccepts` is
`create_edit_graph` (depth-first search for cycles, ancestors of the output);
`StoreChecks` is what the store checks of its own after parsing (Kahn's algorithm);
`Compiled` is the chain the renderer follows from the output; `Exposed` inserts an
exposure before the output under the first free id. Every kind of node has at most
one input, so an accepted graph is one chain. Inputs are a set, since a repeated
input is refused, and a definition is a function from ids to nodes, since a repeated
id is. A search is a recursive function over the sets of nodes being visited
(`MeetsCycle`), a worklist a step taken as often as there are nodes (`Iterated`, for
`Ancestors`, `Peeled` and `Compiled`).

### GraphDocuments

A graph written down: the nodes in some order, each with one number (an exposure; 1
where a node has none), zero with either sign. `Parsed` is what `parse_edit_graph_json`
makes of a document (numbers normalised, nodes sorted by id), `Canonical` the text of
`canonical_edit_graph_json`, `ReplaceAccepts` the hash check of `graph.replace`, which
parses the canonical text once more, `StoreAcceptsText` the store's check of a stored
text, and `Appended` the store's own editing of that text (`append_exposure_to_graph`).
A text is its content and a hash is its text. The module adds no variables: its
property quantifies over the graphs the builder of EditGraph has reached. Sorting by id
(`ById`) is the rank of an id among the others (`Place`); ids are unique when a list is
sorted, so that is what any sorting algorithm makes of it.

### TileRender

Calls with their worker threads. `Claim` is the check for a stop and the `fetch_add`;
the two commute with everything another thread does between them, because a stop
seen late only renders one tile more. The counter is not followed past the last tile.
`Lookup` is one critical section of the cache; `Produce` renders and copies the tile.
A thread that cannot be started (`unstarted`) leaves the others to be joined. After the join
come the first exception, the cancellation and, for a whole image only, the
admission of its tiles to the cache, one by one (`Admit`). A cancellation after the
join does not matter: the image is returned. The gate is used by callers outside the
repository's own CLI. The cache key includes the generation, so hits need a caller
that repeats one. Tiles are numbers and their content is a function of graph and
number here; what they are is RegionRender's subject.

### TileGeometry, PixelFormats and RegionRender

`TileGeometry` is the integer arithmetic: `Clipped` and `Intersects` (the region inside
the image), `TileGrid` and `TileAt`, `PeakTile`. Coordinates go up to `MaxCoordinate`
and sums are not reduced, as in the code, which forms them in 64 bits.

`PixelFormats` is the arithmetic of a pixel. A float is an integer in units of 1/`Unit`,
rounded by `ToFloat` to `Significand` (ties to even) with a largest value; doubles,
which the code computes in between, are exact fractions. One colour channel stands for
three, which the code treats alike. `Applied` is `apply_node` for one pixel, blending by
opacity and mask; `CurveAt` is `evaluate_curve`, extrapolation included; `Opaque` and
`Exported` convert from and to 16 bits; `Brightened` is the older `apply_exposure`.
Exposures are counted in steps, and `Exp2` gives `std::exp2` of a number of steps as a
fraction. The runs use half EVs and 181/128 for the root of two, so that a node
rounds in both directions; the proofs need only that the fractions are positive. The
points of a curve are on a grid of `CurveUnit` steps.

`RegionRender` is one call after another over one source image: `Begin` (request, masks
and memory checked, region clipped, output zeroed) or `Refuse`, `RenderTile` for the
tiles in any order the threads can come to them, from the cache or computed, and
`Finish`, which may admit the tiles to the cache, read back from the output. Masks are
looked up by id and used with the content that was supplied; a content hash is the
content's name. `MigratedGraph` is the chain that the store makes of a v1 exposure.
Whether tiles are admitted is all or none here; single tiles, eviction, cancellation and
the ways a call ends early are TileRender's.

### CommandLine

Each command of `nps-cli` is a process of its own, run on the sessions of ProjectStore,
so a command's `open`, its transaction and its close are the steps of that module. Every
read a command does is a step: `Verify`, `Render` (snapshot and source bytes),
`ReadRevision`, `Compare`. `job` holds how far a command is, its exit code and what it
has read. `demo` closes and opens again in the middle, and gives the lease up
between. `crash-commit` dies at the fault point behind COMMIT; `verify-recovery` retries
that command under another command id and the revision before the last. The bus returns
two errors as values and lets the others through as exceptions, which is why a refusal
is exit code 1 or 2 (`RefusalCode`). `Edit` is an application that links the library,
`Kill` the end of a process anywhere.

### AtomicExport

One action per stage of `export_atomic_ppm16`, `check_cancelled` between them
(`StopAt`, `Stop`), and three publications: a rename that replaces, a rename that
does not, a hard link followed by `unlink`. What was written may be garbled before
`Verify` reads it back, through whatever caches the system has; damage that comes later,
or below them, is not modelled. `Interfere` is another program at the
destination. The injected faults of the code are `Fail` (after the first write) and
`Crash` (hard exit after the flush). Directories, links and devices at the
destination are one value `Unsafe`. Removing the temporary file is assumed to work
when the destructor tries; the directory synchronisation after publication is best
effort in the code and leaves no state. A program that exchanges the temporary file
behind its private name is outside what the code claims.

## 3. What the runs check

| run | module, cfg | properties | shows |
|---|---|---|---|
| `ledger` | MCProjectLedger | `TypeOK` `TablesAgree` `ReplayTableExact` `AlwaysOpenable` `AlwaysMigratable` `NothingRewritten` `UndoRedoInverse` | every sequence of six transactions, before and after a migration, leaves tables that hang together, and a seventh is refused |
| `ledger_rounding` | MCLedgerRounding | `AlwaysMigratable` (violated) | finding 2 |
| `store` | MCProjectStore | `EditingIsMarked` `RecoveryExact` `AcknowledgedDurable` `ImplementsLedger` `LeaseIsTemporary` | two sessions that crash and fail anywhere |
| `failed_open` | MCFailedOpen | `RecoveryReported` (violated) | finding 1 |
| `bus` | MCCommandBus | `ResultIsCommitted` `KeepsPromise` `EveryCallerIsTold` | retries and rebuilds after lost answers: once or not at all, and everybody is told |
| `publication` | MCPublication | `PublishedComplete` `NeverReplaced` `MigrationFaithful` `ConflictIsReal` `SessionIsAskedFor` | two processes on two paths |
| `render` | MCTileRender | `CacheAccountsExactly` `OnlyFinishedTiles` `RenderIsPure` `NeverStale` `EveryCallReturns` | two calls of two threads with a shared cache and gate |
| `region` | MCRegionRender | `TilesFit` `ImageIsRegion` `ExportIsFaithful` | images of all small regions in all small tiles, masked, curved and exposed, one after the other with a cache; chains of up to seven exposures stay within a sample of the single one |
| `export` | MCAtomicExport | `NeverPartial` `OutcomeIsTrue` `CancelInTimeWins` `RefuseNeverReplaces` | two exporters and another program |
| `graph` | MCEditGraph | `ValidatorsAgree` `AcceptedIsCompiled` `ExposureIsLast` `StoredIsCanonical` | all definitions over four ids, written down in all orders |
| `cli` | MCCommandLine | `PrintedIsCommitted` `VerdictsAreTrue` `NeverWaits` `OnlyEditorsCommit` | two processes in any of the commands, next to an application that edits |
| `cli_report` | MCCommandReport | `ReportsModification` (violated) | finding 3 |

Two refinements are among them: `ImplementsLedger` (ProjectStore implements
ProjectLedger, with `db` as it is, so that the mapping is the identity and the modules
share their names: opening, crashing and replaying are stutters) and `KeepsPromise`
(CommandBus implements ExactlyOnce, with the effects read off the log by `INSTANCE`
`WITH`).

Each property is stated with a comment in its module. The comment says which
behaviour of the code it is about.

`CHECK_DEADLOCK FALSE` is set where the system stops: the ledger and the bus when
the revisions, keys or callers are used up; publication, render and export when the
bounds on calls are reached; the graph at its node limit. ProjectStore and CommandLine
never stop. For the commands, `NeverWaits` says more than that: each has a step of its
own whatever the others hold.

## 4. Bounds

| run | bounds | why they reach the interesting cases |
|---|---|---|
| `ledger` | 6 revisions, 7 keys and command ids, deltas -2, 1 and an illegal 3, graphs of 2 and an illegal 5 nodes, node limit 4 | five transactions are the fewest in which a truncation removes more than one row: two edits, two undos, an edit; a sixth can follow it. The seventh key is still fresh at the largest revision. The node limit is reached by exposures; requests of every refused kind are among the inputs. Keys and ids are interchangeable and used at most once, so only databases that use them in a fixed order are followed (`UsedInOrder`). |
| `ledger_rounding` | 2 revisions, deltas 5 and 10, four significant bits | 5 + 10 is rounded |
| `store` | 2 sessions, 2 revisions, 2 keys | one session can die and another take over twice; an acknowledged result can be followed by an undo and replayed |
| `failed_open` | 2 sessions, 1 revision | the counterexample needs a crash, a failing open and a second open |
| `bus` | 2 callers, 4 keys, 2 command ids, 3 revisions, 2 lost answers, first expected revisions 0 and 3 (above the safe limit of 2) | a caller can lose an answer, be overtaken, rebuild and lose again; every error code of the bus occurs. Four keys are one first key and one rebuild each. |
| `publication` | 2 processes, 2 paths, 3 documents, 1 change per project, 1 death | both processes can migrate the same source to the same target, and a migration can be run again after a death and an edit |
| `render` | 2 callers, 2 threads, 3 tiles of 2, 1 and 5 bytes, budget 4, 2 graphs, 1 generation, 2 calls | the tiles do not fit together, one is above the budget; the second call meets the tiles of the first, of its own graph or of the other |
| `region` | 3 x 2 pixels; regions at any place with widths 0 to 3 and 7 and heights 1 and 7, coordinates up to 7; tiles of 0 to 4 (limit 3), at most 5 tiles, 4 pixels of transient memory; samples 0 to 6; floats of 6 significant bits from 1/512 to nearly 32; exposures in half EVs, up to 4 EV in a node and 12 EV in a chain; 6 graphs, 6 sets of masks, 68 chains, 2 calls | regions lie inside, stick out on either side, miss the image or end beyond the coordinate range; the last tile of a row and of a column is smaller; the limits on tiles, their size and the transient memory are met from both sides (the output always fits); opaque, half-transparent and transparent pixels; an exposure overflows the float range; masks are missing, of the wrong size, of another content than claimed, duplicate; the second call meets tiles the first has cached. 64 is the least significand that allows seven nodes of such samples in `RoundingsAreSmall`: chains of two, five and seven nodes that go to and fro reach a difference of one sample, some are too bright for the upper row and finish on the lower, and the other condition of `ChainIsSingle` bites: without `StaysNormal`, three times -4 EV and three times +4 EV fail it |
| `export` | 2 exporters, 2 chunks, 2 calls each, 1 interference | a file appears between any two steps, by the other exporter or a program; a second call follows a dead one |
| `graph` | 4 ids, 1 input, node limit 6 | source, two adjustments and output, with cycles, strays and every wiring; two exposures reach the limit from four nodes, and asked-for ids collide with the caller's; each accepted graph is written down in every order with -0, 0 and 1 |
| `cli`, `cli_report` | 2 (1) processes, one after another in any commands; an application with one undo; 3 revisions | a demo, a crash and a retry fit one project; the undo comes between any two steps of another process that the lease allows; demo closes and reopens around it |

The bounds `MaxFacts`, `MaxCrashes`, `MaxLosses`, `MaxCalls` and `MaxForeign` appear as
guards of the actions they bound and have no counterpart in the code. `MaxRevision`
has one (the largest int64), and so have `MaxNodes` (4096), `ExposureLimit` (10 EV) and
`MaxSafeRevision`.

## 5. Fairness

- `ProjectStore`: weak fairness of `Proceed(s)`, the steps of `open`, `close` and the
  destructor. They are straight-line code that waits for nothing: the lock is tried
  once. Nothing is assumed of callers, who may keep a session open for ever.
- `CommandBus`: weak fairness of `Answered(c)`: a caller goes on until it is told, and
  a call returns. Lost answers are bounded; without a bound nobody could ever be told.
- `TileRender` needs none: `EveryCallReturns` says that each step of a call lowers its
  `Rank`, a natural number, that no other call raises it, and that a call which has not
  returned has a step. Any scheduler that runs its threads lets it return.
- The other modules have safety properties only. `NeverWaits` of CommandLine is one:
  that a process has a step, not that it is scheduled.

## 6. Proofs

Eight modules hold the theorems. Each is about every behaviour of the specification it
names, for all sets of sessions, processes, callers, exporters, threads, keys, paths and
requests and for all limits. What a proof takes on trust are the named assumptions about
constants, which TLC evaluates in every run:

| assumption | says |
|---|---|
| `LimitsAssumption` (ProjectTables) | limits are natural numbers, the exposure limit and the precision positive, a graph may have two nodes |
| `SessionAssumption`, `PublicationAssumption`, `NothingAssumption`, `ExportAssumption` | the values for "nobody" and "nothing" are no session, process or project (in Publication no path and no document either); bounds are numbers |
| `CallersAssumption` (CommandBus) | callers have different keys to begin with; no command id is empty; a first expected revision is at most the largest revision |
| `CommandAssumption` (CommandLine) | the ids and keys the commands use are ids and keys, their two exposures legal inputs |
| `EditAssumption`, `ApplicationAssumption` (CommandLine) | what the application sends are requests; it does not send them under the ids of `crash-commit` |
| `GraphAssumption` (EditGraph) | ids are positive integers, whose order stands for that of the identifiers; the limits on nodes and inputs are numbers |
| `RenderAssumption` (TileRender) | there is a thread, there are finitely many, and a tile; sizes and the budget are positive |
| `GeometryAssumption`, `FormatAssumption`, `RegionAssumption` | tiles and the image are not empty; requests are made of coordinates; a supplied mask has a content that exists |
| `ExponentialAssumption` (PixelFormats) | `Exp2` has a positive fraction for each exposure within the limit |
| `PrecisionAssumption` (PixelFormats) | floats tell samples apart: the significand has one bit more than a sample (24 and 16 bits in the code), 1.0 is within the range, and the smallest float is less than one sample |
| `ImageAssumption` (RegionRender) | images, masks and graphs are such as can be made: a pixel without alpha has no colour (`ImageF32::validate`), a mask has a sample per pixel, the parameters of each node passed `create_edit_graph` |

The invariants themselves are rarely inductive. Each module states the one that is and
proves that it holds at the start, that every step keeps it (one lemma or step for each
action) and that it implies the properties. TLC has checked each of them on the run of
its module.

### Tables and ledger: ProjectTablesProofs, ProjectStoreProofs

| theorem | states |
|---|---|
| `ConsistentInvariant` | the inductive invariant |
| `TypeCorrect` | `TypeOK` |
| `TablesAgreeInvariant` | `TablesAgree` |
| `ReplayTableInvariant` | `ReplayTableExact` |
| `AlwaysOpenableInvariant` | `AlwaysOpenable` |
| `NothingRewrittenAlways` | `NothingRewritten` |
| `UndoRedoInverseAlways` | `UndoRedoInverse` |
| `MigratableWhenExact` | `AlwaysMigratable`, while all exposures are exact sums |

That history is a path needs the snapshot tree (an edit's parent is the current
snapshot, which the cursor is on); that open accepts the database needs the path, the
log and the graphs; the replay table needs that requests are unique, and that needs the
constraints of the log; that redo brings back what undo left needs a fact about the last
transaction (`UndoneIsNext`). `Consistent` is their conjunction, and the argument is:

1. `CommitFacts`: what the checks of `execute` guarantee of a request that commits.
2. `CommitRows`: what the transaction leaves in each table, relative to before.
3. `CommitConsistent`, `MigrationConsistent`: both keep `Consistent`, one step per
   conjunct; `NewDatabaseConsistent`, `PublishedConsistent`: it holds at the start.
4. `CommitKeepsReplies`, `CommitIsReplayed`: a stored answer survives every transaction,
   and a new one is stored as it was given.

`AlwaysMigratable` itself is false (finding 2). `MigratableWhenExact` says that rounding
is the only reason: in every state in which each stored exposure is within `ExactEV`, the
range in which sums are exact, the migration accepts the project. Its invariant,
`ExposuresAreSums`, ties each snapshot to the rounded sum of its parent's exposure and the
command; a rounded sum inside the range is the sum (`RoundedIsNear`, `ExactIsKept`), so
the difference the migration recomputes is a legal command (`ExactDifference`). It asks
that the exposure limit itself be in the exact range. In the code that is so for callers
whose steps are binary fractions (a quarter EV, say), in units of that step; a decimal
step, like the 6.1 of finding 2, is outside the theorem from the first sum on.

### Sessions and commands: ProjectStoreProofs

| theorem | states |
|---|---|
| `StoreInvariant` | the inductive invariant of the sessions |
| `EditingIsMarkedAlways` | `EditingIsMarked` |
| `RecoveryExactAlways` | `RecoveryExact` |
| `AcknowledgedDurableAlways` | `AcknowledgedDurable` |
| `ImplementsLedgerTheorem` | `ImplementsLedger`, the refinement |
| `CommandInvariant` | the inductive invariant of the commands |
| `CommandsAreSessions` | CommandLine's `CliSpec` implies ProjectStore's `Spec` |
| `OnlyEditorsCommitAlways` | `OnlyEditorsCommit` |
| `PrintedIsCommittedAlways` | `PrintedIsCommitted` |
| `VerdictsAreTrueAlways` | `VerdictsAreTrue` |

`RecoveryExact` speaks of an open in progress. What makes it inductive is what the flag
says between sessions (`CleanTells`), that an open store has reported everything
(`OpenHasReported`), and that a session is somewhere exactly if it holds the lease
(`LeaseHeld`), so that no two sessions look at the flag. `TablesInv` adds `Consistent`
and the acknowledged results. The refinement needs it for one step only: a replay or a
refusal leaves `db`, and a commit is `Execute` of the ledger.

`CliInv` says of a process and its place in the command what it knows: `JobInv` ties each
number it has read to the log, and where it was read under the lease and the lease is
still held, to the database as it is. `RequestsKept` says that the log has the expected
revision and the key of each request; with it `RecoveryKnows` shows that
`verify-recovery` finds its key or is refused, and never commits.

### Publication: PublicationProofs

`PublicationInvariant`, `PublishedCompleteAlways`, `MigrationFaithfulAlways`,
`ConflictIsRealAlways`, `SessionIsAskedForAlways`, `NeverReplacedAlways`, for
`PublishedComplete`, `MigrationFaithful`, `ConflictIsReal`, `SessionIsAskedFor`,
`NeverReplaced`.

`ProcessInv` follows one call: which leases it has (`Leases`), what its arguments and the
fingerprint are of (`Arguments`), what its staging directory already contains
(`Building`), and what the project at its target is once it is its own or accepted
(`Answers`). That a conflict stays one after the call has returned needs that a
published project keeps its format and origin (`NeverReplaced`), and that a target which
was no migration of this source does not become one (`Differs`, `OriginalsDiffer`).
`QuietStep` covers every step that only moves one process, so that the proof of an
action is about that process.

### Command bus: CommandBusProofs

`BusInvariant`, `ResultIsCommittedAlways`, and `KeepsPromiseTheorem`: the refinement of
ExactlyOnce.

A caller that lost an answer does not know whether its change took effect. The
invariant keeps what makes it find out: keys have one owner (`KeysAreOwned`), a key it
gave up is in no log (`OldKeysAreFree`), and if the key in use is in the log, it is there
with a payload the caller has tried under it (`TriedIsRemembered`). So going back to that
payload is answered with the stored result (`KnownIsAnswered`), and a conflict means that
nothing was committed under the key (`ConflictMeansNew`). In the refinement a commit adds
the caller to the effects (`CommitIsEffect`); the other steps leave them, and a verdict
agrees with them (`EffectiveIsCommitted`).

### Export: AtomicExportProofs

`ExportInvariant`, `NeverPartialAlways`, `OutcomeIsTrueAlways`,
`CancelInTimeWinsAlways`, `RefuseNeverReplacesAlways`. The invariant follows the file of
a call from its creation (`FileOf`) through the comparison, behind which it is whole, to
the publication; a call publishes at most once (`PublishedOnce`), and not after it has
seen a stop (`StopSeen`). A link that is made counts as published although the temporary
name may still be there: that is why the outcome behind it is success (`ToldTruth`).

### Tile renderer: TileRenderProofs

`RenderInvariant`, `OnlyFinishedTilesAlways`, `RenderIsPureAlways`, `NeverStaleAlways`,
`CacheAccountsExactlyAlways`, and `EvictionStops`: eviction makes room for any tile
within the budget before it runs out of entries.

That an image is whole when all threads have left normally needs, for every tile below
the counter, that it is written or a thread holds it, or that the call is failing
(`ClaimsAreKept`), and that a thread leaves only with nothing left to claim or a reason
to stop (`ExitsAreEarned`); `JoinedIsWhole` combines them. The cache part says that the
entries are tiles of finished images with distinct keys, and that the byte count is the
sum. The sum is recursive over the entries and needs induction. The library's induction
theorems are stated for an operator, which the provers here cannot instantiate;
`SetInduction` is stated for a set instead and derived from `LeastElement`.

`StepsCountAlways` is the safety half of `EveryCallReturns`: each step of a call or of
one of its threads lowers `Rank`, which stays a natural number, and no other step
touches it. A thread is worth what it may still do with its tile (`Weight`), the sum over
the threads is taken as three cardinalities, and a thread that moves is counted where it
is instead of where it was (`CountMoves`, `WorkMoves`). A tile nobody claimed is worth
three, so claiming it lowers the rank although the thread has more to do
(`ClaimCounts`); every other step of a thread leaves it less (`ThreadFinishes`).

### Edit graph and its texts: EditGraphProofs

| theorem | states |
|---|---|
| `GraphInvariant` | the inductive invariant |
| `ValidatorsAgreeAlways` | `ValidatorsAgree` |
| `AcceptedIsCompiledAlways` | `AcceptedIsCompiled` |
| `ExposureIsLastAlways` | `ExposureIsLast` |
| `StoredIsCanonicalAlways` | `StoredIsCanonical` |

`GraphInvariant` says that the builder's nodes are finitely many and typed, and that every
graph handed out is accepted by `create_edit_graph`. The properties quantify over what
these states contain; none of them is inductive by itself, because an exposure is
accepted on account of what the graph was before, not of a property of its size. Most of
the argument is about the graphs. The validators, the compiler and the two orders are
algorithms with nothing in common but their answers, so each is related to one notion:
the graph is a chain `c` from source to output (`IsChain`, and `Linked` with its length).

1. `IteratedRounds`: what `Iterated` computes satisfies its recursion. The recursive
   functions of `MeetsCycle`, `OrderTo` and `Iterated` are first shown to exist
   (`RoundsExist`, `MeetsCycleVisits`); `SetInduction` is the induction used throughout.
2. `AncestorsWalked`, `MeetsStep`: the ancestors are the nodes that a walk along inputs
   reaches, and the depth-first search meets a cycle where a walk comes back to a node
   being visited. `VisitedIsAcyclic` and `PeeledIsAcyclic`: what either validator lets
   pass has no walk back to its start, in the second case because the node of such a walk
   that is peeled first would have been peeled after its input.
3. `AcyclicIsChain`: one source, one output, at most one input each, no cycle and all
   nodes ancestors of the output make a chain. `CreatedIsChain`, `CheckedIsChain` follow.
4. `ChainVisited`, `ChainAncestors`, `ChainPeeled`, `ChainAccepted`: a chain within the
   node limit passes both validators. With 3, they agree.
5. `ChainCompiled`, `ChainOrdered`: the compiler and the topological order give the chain.
6. `FreeIdIsFree`, `WithNodeIsChain`, `ExposedAccepted`: of one candidate more than there
   are nodes one is free, and the graph with it is the chain with one node more.
7. `PlacesInOrder`, `IncreasingLists`, `SortedDocument`: places among finitely many ids
   are 1 to their number, so sorting gives the same list whatever the order was.
8. `ParsedDocument`, `CanonicalDocument`, `StoredText`, `DescribedDocument`: every way to
   write a graph down is parsed to one text, which is its own canonical text and
   describes that graph.
9. `AppendedDocument`: the store's editing of the text gives the text of the longer graph.

### Tiles and pixels: RegionRenderProofs

`TilesFitAlways`, `RegionInvariant`, `ImageIsRegionAlways`, for `TilesFit` and
`ImageIsRegion`; `UntouchedComesBackAlways`, for two of the three parts of
`ExportIsFaithful`: a transparent pixel stays clear and a sample no adjustment reaches
comes back, for every image, chain of nodes, set of masks, width of the numbers and table
of `Exp2`.

1. `Division`, `ProductMonotone`: quotient and remainder determine each other. The
   provers know no more of division by a variable.
2. `TiledBounds`, `CellInside`, `CellOf`, `CellsApart`: along one side, cells of the
   tile size cover the length, stay inside it when the last is cut off, and are apart.
3. `IndexSplit`, `IndexJoin`, `TileIsCell`: an index is one pair of column and row, so a
   tile is the product of two cells.
4. `TilesCover`, `TilesInside`, `TilesApart`: the tiles partition the region.
5. `ClippedIsAskedFor`, `BesideAsksNothing`: the clipped region is exactly the pixels of
   the image that were asked for, none of a region that is refused as lying beside it.
6. `TilesFitMemory`: no tile is larger than `PeakTile`, so the check covers them all.
7. `PreparedInvariant`: while a call renders, its request was an accepted one.
8. `PlacesOfRegion`, `PlacesOfTile`: row-major places of the output and pixels of the
   region correspond one to one, also along a tile.
9. `TileIsReference`: rendering a tile, with its coordinates and the masks looked up,
   gives each pixel what the graph makes of it alone. The chain of nodes is a fold; both
   sides are one fold (`Developed`) over sequences of steps that are shown equal, so that
   no induction over the chain is needed.
10. `CopyPaints`, `CopyKeeps`, `ReadBackIsReference`: copying a tile paints its pixels and
    no others, and reading it back returns them.
11. `RegionInvariant`: what is no longer to do is painted with the reference, and the
    cache has only tiles of the reference; `ImageIsRegionAlways` follows at the end.
12. `Powers`, `SpacingIsLeast`, `ToFloatNear`: what rounding to a float does. `Powers`
    shows first that a function with the recursion of `PowerOfTwo` exists.
13. `FloatIsKept`, `SampleFloat`, `SampleComesBack`: a float is its own rounding, and the
    float of a sample is so near to it that quantising it returns the sample. This is
    where the spare bit of `PrecisionAssumption` is used.
14. `CurveFraction`, `AdjustedFraction`, `AppliedKeeps`: no curve divides by zero, so a
    node that is skipped or does not reach a pixel leaves it, and every node leaves a
    clear one. `DevelopedKeeps` is the induction over the chain.

### Only model-checked

- Liveness and what says `ENABLED`: `LeaseIsTemporary`, `EveryCallerIsTold`,
  `NeverWaits`, and `NeverStuck`, the other half of `EveryCallReturns`. They are out of
  this prover's reach.
- `ChainIsSingle`, the third part of `ExportIsFaithful`, a bound on accumulated
  rounding under two conditions: the roundings
  of so many nodes amount to less than a sample (`RoundingsAreSmall`: up to 255 nodes with
  the widths of the code), and no step darkens the sample so far that a float has fewer
  bits for it (`StaysNormal`). Without the second it is false of the code as well: twenty
  times -10 EV and twenty times +10 EV leave nothing of a sample.

## 7. Findings

1. **A failed open forgets that the last session ended uncleanly** (`failed_open`).
   Once `open` has built its store (`ps` 2159), an error in `verify_integrity` (2160)
   or in the checks of the marker (2172-2208) runs the destructor (2469-2474), and its
   `close()` (2962-2969) commits `clean_shutdown = 1`. The next open that succeeds
   reports no recovery. `specs/project-format/nps.project.v1.md:171` defines 0 as "open
   or not closed cleanly"; lines 283-285 want the checks of `open` done without
   writing the database. `RecoveryExact` shows, within the bounds of `store`, that this is the
   only way the flag goes wrong: without a failed open in between it is exact.

2. **A project built from accepted commands may be refused by the migration**
   (`ledger_rounding`). `validate_v1_migration_semantics` recomputes each exposure
   command as the difference of two stored, rounded sums and refuses more than 10.0
   (`ps` 1688-1693). A +10 EV on a sum that rounds up, 6.1 for instance, is stored with
   a difference slightly above 10, and the project is refused as inconsistent.
   `specs/project-format/nps.project.v2.md:92` promises that every v1 snapshot is
   mapped; only the node limit is excepted (104-108). While sums are exact,
   `AlwaysMigratable` holds (`ledger`).

3. **A failed command may deny its own transaction** (`cli_report`). `main` prints
   `"projectModified": false` with every `ProjectStoreError` (`apps/cli/main.cpp`
   481-489), `IO_COMMIT_RESULT_UNKNOWN` included, which `execute` throws when COMMIT
   reported an error that may have come after it took effect (`ps` 2936-2951).
   `docs/09-command-and-plugin-contracts.md:180` wants the message of an error to say
   whether the project was modified. The exit codes themselves are truthful
   (`VerdictsAreTrue`).

Two more statements of the documents are weaker in the code. They are the reason why
two properties have the conditions they have, and no run is about them.

- **An error in opening an existing migration target is reported as a conflict.**
  `migrate_v1_to_v2` turns every error of opening or reading an existing target, other
  than a conflict found and the lock, into `IO_MIGRATION_TARGET_CONFLICT` with "The
  existing migration target is not the expected complete v2 project." (`ps` 2314-2321). A
  `BEGIN IMMEDIATE` that SQLite refuses because another program writes to the file (2163) is
  one of them. So a migration that ended after its rename, run again, can be told that
  its own complete target is another project, where
  `specs/project-format/nps.project.v2.md:174-175` promises that it is completed and
  returned. `MigrateUnusable` does this; `ConflictIsReal` is about the other two messages.
- **A migrated project may not render although the v1 project did.** A v1 exposure becomes
  a chain of nodes of at most 10 EV (`ps` 1768-1815), and between nodes pixels are floats,
  whose range the render must not leave (`src/render/cpu_renderer.cpp` 488-494). Thirteen
  commands of +10 EV are a picture that clips to white in v1, and an error from the
  migrated chain. `docs/18-milestone-m1.md:126-127` wants the visible result kept.
  `ChainIsSingle` is about chains that finish and lose no bits.

## 8. What is not modelled

- **Power loss.** Parent directories of a project are not synchronised, and the code
  promises nothing; process deaths are modelled everywhere.
- **Data formats**: the grammar of JSON and its limits (4 MiB, nesting), the spelling of
  numbers, identifiers and paths, SHA-256, PPM bytes, the object layout. They are pure
  functions of bytes; tests enumerate them.
- **Matrices between colour encodings**: the reference export has one encoding.
- **Exact widths of floats**: 6 significant bits stand for 24 and samples up to 6 for 16
  bits, which leaves roundings less room than the code has; doubles are exact, and
  floats below the smallest normal one are spaced like those above it. That a chain of
  exposures stays within one sample of the single exposure is shown at this width;
  equality is not claimed by the code.
- **Partial admission to the cache** and **the budget** are TileRender's and not combined
  with pixels.
- **Argument parsing, usage texts and the layout of output** of the command line.
- **Build files and repository scripts.**

## 9. Plan

Modelled so far, in this order: the ledger with its proofs, the sessions and their
refinement, the command bus; publication, render, export, graph; then the tiles and
pixels with the proof of their geometry, graph documents, and the command line.

Then the theorems: the invariants and action properties of all modules, the refinements
of ProjectLedger and ExactlyOnce, and the ranks of TileRender.

What could be proved next:

1. `NeverReplaced` down to the two calls: an abstract directory that `Publication` and
   `AtomicExport` both implement.
2. `ChainIsSingle`, by induction over the chain: each rounding changes a sample that
   `StaysNormal` by at most one part in `Significand`.
