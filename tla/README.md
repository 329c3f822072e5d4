# Back-Orbit: verification project

Back-Orbit is a self-hosted service that backs up Docker Compose projects with
restic: it finds projects, stages their volumes, exports their databases, takes a
snapshot, reads it back, and restores it. This directory models the parts of it
in which the order of things matters, checks them with TLC on small instances,
and proves with TLAPS, for every size, each safety invariant those checks state and
three refinements: what a backup, the history of restores and the secret store promise.

Paths are relative to `src/`; Go packages to `src/internal/`.

## 1. The system

| Component | State | Operations | Hard |
|---|---|---|---|
| backup runner (`backuprun`) | `backup_runs`, `snapshots` rows; `Runner.active`, `Runner.byProject` in memory; the staging directory of a project | `Start`, `Cancel`, the goroutine `execute`, `CloseInterruptedRuns` | requests against goroutines, cancellation against completion, stops between two writes, writes that fail and are only logged |
| restore runner (`restore`, `dbdump/load.go`) | `restore_runs` rows; `Runner.bySnapshot`, `Runner.active`; the target directory; live databases; an archive file inside a container | `Start`, `RestoreDatabase`, `Cancel`, two goroutines, `CloseInterruptedRuns` | writes into something live that cannot be rolled back; reservation per snapshot, conflict per database |
| repositories (`repositories`) | `repositories` row, its password in the secret store, the directory on disk | `Create`, `Delete` (with or without data), `Check`, `Initialize` | three stores no transaction spans; deletion of data |
| secret store (`secrets`, `crypto`) | key record (salt, wrapped key, version), sealed secrets, the data key in memory | `Initialize`, `Unlock`, `Lock`, `Put`, `Get`, `Delete`, `RotateDataKey`, `ChangeMasterPassphrase` | a key copied out of the mutex is used after it was replaced |
| projects (`projects`) | `projects` rows | `Scan`, `Register`, `Remove` | a removal and its audit event; a scan against a removal; a project removed and found again during its backup |
| start and stop (`cmd/back-orbit`, `api/server.go`) | - | open the database, unlock from the key file, sweep helpers, close interrupted runs, serve, shut down | the shutdown waits for HTTP requests, not for goroutines |
| staging (`storage`) | helper containers, files below the staging root | stage a volume or bind mount, sweep, SQLite capture | a container whose creation was answered too late |
| database exports (`dbdump`) | export files and their restore check | dump, verify, protection level | a dump that succeeds and cannot be restored |
| restic engine (`backup`) | a process per call, the probed version | init, list, backup, verify, restore, retention | exit code 3, a probe cached with its error, output that is cut or closed before it is read, a repository somebody else has locked |
| events (`events`) | `events` rows, subscriber channels | record, publish, subscribe | slow subscribers, order of publication |
| analyzer (`projectanalyzer`, `protectionblueprints`, `imageref`) | `project_blueprints` rows | `Analyze`, `Confirm`, `Get` | a confirmation that crosses an analysis; readings of different moments in one fingerprint |
| authentication (`auth`) | users, sessions, the login limiter | setup, login, logout, CSRF | two setups at once, windows of the limiter |
| database access, Docker client, HTTP API, configuration, web interface | - | plumbing | - |

How they interact. An HTTP handler calls one component and waits, except for a
backup or a restore, where it returns once the run's row is written and a
goroutine goes on by itself. The backup goroutine calls staging, exports and
restic in turn and writes to `backup_runs` and `snapshots`; `projects` and
`repositories` may remove the rows these point at meanwhile (foreign keys refuse
an insert, `ON DELETE SET NULL` empties a column). A repository's password is
read from the secret store at the start of each operation. Every component emits
events, which are stored or lost without changing the outcome of the operation.
All SQL goes through one connection (`database/database.go:31-60`): a statement
or a transaction is atomic, two of them are not.

What makes each correct:

- backups: a run has one outcome; "completed" means that a snapshot was read back,
  is recorded, and holds every volume of the project and nothing else; "failed"
  and "cancelled" mean that no usable snapshot hides behind the run; nothing says
  "running" for ever; no project stays locked.
- restores: one at a time per snapshot; a run that says it did not touch the
  database did not; a completed one left what the snapshot held and nothing else -
  as far as it had the database to itself, and a client that stops at errors.
- repositories: a configured repository has its password; data goes only when
  somebody asked for it; other people's files go with a repository that was
  initialised among them, and not otherwise (the code claims more, section 5); the
  audit trail tells what was destroyed.
- secrets: whatever was stored can be read after any sequence of calls and stops.
- captures: what the manifest calls an export or a consistent database is whole in
  the snapshot, with the exceptions of section 5; a run without warnings holds every
  database that was found; no helper container and no copy of the data is left behind.
- projects: a confirmation is not undone by an analysis that began before it; a
  change is reported and an unchanged project, read as before, is not; a removal is
  on record.
- engine: what a restic process did is what its caller is told.

`PROJECT.json` lists under `hazards` where in the code each of these could go
wrong, and which property would show it; a hazard without a property says why.

## 2. Modules

| Module | What it is |
|---|---|
| `VerifiedBackup` | abstract specification: what a backup run promises, without steps |
| `BackupRun` | `backuprun`, with the projects and repositories rows, disk and restic as far as it touches them; implements `VerifiedBackup` |
| `BackupRunProofs` | theorems about `BackupRun`, checked by TLAPS |
| `Repositories` | `repositories` over table, secret and directory |
| `RepositoriesProofs` | theorems about `Repositories`, checked by TLAPS |
| `Vault` | abstract specification: what the secret store promises, without keys |
| `SecretStore` | `secrets` and the guarantees of `crypto`; implements `Vault` where maintenance runs alone |
| `SecretStoreProofs` | theorems about `SecretStore`, checked by TLAPS |
| `RestoreReport` | abstract specification: what the history of restores says of them, and when |
| `Restore` | `restore` and the loading half of `dbdump`; implements `RestoreReport` |
| `RestoreProofs` | theorems about `Restore`, checked by TLAPS |
| `Capture` | `storage`, the exporting half of `dbdump`, `dumps.go` and `consistency.go` of `backuprun`, and the containers and streams of `docker` they use |
| `CaptureProofs` | theorems about `Capture`, checked by TLAPS |
| `Projects` | `projects` and `projectanalyzer` over their two tables |
| `ProjectsProofs` | theorems about `Projects`, checked by TLAPS |
| `ResticEngine` | `backup`: calls side by side on one engine and one repository |
| `ResticEngineProofs` | theorems about `ResticEngine`, checked by TLAPS |
| `MC...` | small instances of the module of that name |

How they fit. `BackupRun` is the frame: a run's request, reservation, rows, steps and
end, where staging, exports and restic are one step each that succeeds, succeeds in
part or fails. `Capture` is what lies inside its `StageSource` and `DumpDatabases`,
and `ResticEngine` what lies inside `CreateSnapshot` and `VerifySnapshot` (and inside
`Check`, `Initialize` and the restores' extraction): the choices the frame makes
freely are the outcomes these modules work out. `Projects` has the registry whose
rows `BackupRun` sees come and go. They are not composed in one state space: the
frame takes every outcome the inner modules can produce, and the inner modules take
their runs one after the other, as the reservation that `BackupRun` proves
exclusive has it.

Operators whose comment begins with "Fault:" are not part of any specification.
Each is a plausible bug in the definition it stands beside, and is what
`PROJECT.json` substitutes to show that a property can fail.

### BackupRun

| Code | Definition |
|---|---|
| `Start`: read project, repository, password | `Resolve` |
| `Start`: `r.mu`, busy check, reservation | `Reserve`, `Refuse` |
| `insertRun`, its rollback | `InsertRun`, `InsertRunFails` |
| `r.active[id] = cancel`, `go r.execute` | `Launch` |
| `Cancel` | `CancelRun` |
| `execute`: `RemoveAll` + `MkdirAll` of the working directory | `ClearStaging`, `ClearStagingFails` |
| `execute`: the loop over sources | `StageSource`, `StagingStops` |
| `dumpDatabases`, manifest, consistency warnings | `DumpDatabases` |
| `engine.CreateSnapshot`, exit code 3 | `CreateSnapshot`, `CreateSnapshotFails` |
| `engine.VerifySnapshot`, size shortfall | `VerifySnapshot`, `VerifySnapshotFails` |
| `insertSnapshot` on a detached context | `RecordSnapshot`, `RecordSnapshotFails` |
| `fail`, `cancelRun`, the closing update and event | `Decide`, `Finish` |
| deferred `RemoveAll`, deferred `release` | `CleanStaging`, `Leave` |
| `projects.Scan/Register/Remove`, `repositories.Delete` | `RegisterProject`, `RemoveProject`, `DeleteRepository` |
| end of the process, planned or not | `Crash` |
| `main`, `closeInterruptedRuns` | `Restart` |

`pc[r]` is where a run's request or goroutine stands, `job[r]` its local
variables. The staging directory is a function of the project's *name* through
`pathSegment`, so `staging` is indexed by directory and not by project or run,
and what it holds is the set of `<<run, source>>` pairs whose files lie there: a
stale or foreign file is visible as a pair of another run. `archive[r]` is the
set restic captured. `verified` and `outcomeLost` are history variables; the
second names the runs whose closing write failed, which the code logs and nothing
else shows. An error ends a run as cancelled when its context was cancelled, and may do so
when the error is a cancellation of another's making (`wasCancelled`, `Stopped`).

### Repositories

A directory is a set of entries (`dir`, restic's `config`, `keys`, `data`, and
`other` for somebody else's files), so a purge is several steps that can stop in
any order, as `os.RemoveAll` does. Requests interleave and may fail at every
statement, as any of their contexts may be done. `Foreign` and `Mount` give the
directories that hold other files and those that cannot be unlinked. An initialisation
ends with a repository, finds one, or fails at any point of making it: restic writes
`config` last, so that it may leave part of a layout, or all of it (`Layout`,
`InitRepositoryFails`).

### SecretStore

A ciphertext is what sealed it; it opens with the same key and associated data
only, which is what AES-GCM gives the code. Calls are two or more steps: reading
the record or copying the key, and the statement or transaction that uses it.
`Exclusive` keeps a rotation or a change of passphrase apart from other calls:
neither has a caller outside the tests at this commit, so nothing in the program
can run them beside anything else *yet*. Before something does, `Put` needs the
lock: with `Exclusive = FALSE` a `Put` that copied its key before a rotation commits
writes a secret that nothing can open.

`Vault` has no keys: a set of secrets that are listed, of those that can be read, and of
the passphrases that open it. They are mapped to `Stored`, `Readable` (somebody can open
the record, and it wraps the key that sealed the secret) and `Openers`. Storing the first
record is `SetUp`, storing a rewrapped key `Change`, the two statements on `secrets` `Put`
and `Delete`; everything else, the transaction of a rotation above all, must not be seen.

### Restore

A live database holds a set of origins: `Before`, the run whose export an object
comes from, or `Stray`, a file that is no export. A load replaces objects one after
another, so between its first and its last step both origins are there. `Archived`
databases are loaded from an archive copied to one fixed path in their container,
`Tolerant` ones by a client that goes on after errors (psql with `ON_ERROR_STOP=0`,
mongorestore without `--stopOnError`). The extraction filter is a file name, and what
is loaded is the first file of that name (`findExtracted`); snapshots in `Namesake` have
another one. A load whose stream was cut leaves a client at work in the container
(`lingers`), which replaces objects until it ends (`LeftBehind`), and an archive that was
placed may stay there (`Cleared`). Of a run's variables `alone` says whether no other
load or client was near its own, and `left` what its load left in the database.

| Code | Definition |
|---|---|
| `Start`, `RestoreDatabase`: check and reserve under `r.mu` | `Reserve`, `Refuse` |
| directory, `insert`, their failure, `go` | `MakeTarget`, `InsertRun`, `StartFails`, `Launch` |
| `Cancel` | `CancelRun` |
| `engine.RestoreSnapshot`, `findExtracted`, and what follows their errors | `Extract` (`ExtractAll`, `ExtractExport`), `ExtractFails` |
| `dbdump.Load`: archive, first object, the rest, the verdict; a client nobody waits for | `Upload`, `OpenLoad`, `Load`, `LoadFails`; `LeftBehind` |
| the closing update and event, `RemoveAll`, `release` | `Finish`, `RemoveTarget`, `Leave` |
| end of the process; `CloseInterruptedRuns` | `Crash`, `Restart` |

`RestoreReport` keeps the row (`outcome`, `told`), whether the directory holds everything
(`extracted`, mapped to `Extracted`) and whether a database was written (`touched`).

### Capture

Runs of one project follow each other. `tree`, `copy`, `sidecar` and `dump` say what
lies in the staging directory, `helper` which containers with Back-Orbit's label the
daemon has, `job` what the goroutine knows. The daemon is a party of its own: it is
asked for a container (`asked`), creates it or not, and its answer arrives or is
lost (`Answer`, `NoAnswer`) - an answer that is lost leaves a container whose name
nobody has.

| Code | Definition |
|---|---|
| `stage`: create, copy out, extract, deferred removal | `StageSource`, `Ask`, `Answer`, `NoAnswer`, `Extract`, `ExtractFails`, `StageFails`, `CloseSource` |
| `captureSQLiteDatabases`: second helper, `.backup`, archive, replacement, `-wal` and `-shm` | `NothingToCapture`, `AskCapture`, `RunCapture`, `RunCaptureFails`, `Replace`, `ReplaceFails`, `Replaced`, `CloseCapture` |
| `dumpDatabases`, `dumpOne`, the exporters and `removeFailedDump` | `ReadFindings`, `CannotExport`, `StartExport`, `Export`, `ExportCut`, `ExportFails` |
| `VerifyRestorable` | `SkipCheck`, `AskServer`, `CannotCheck`, `Load`, `LoadInPart`, `LoadRefuted`, `CloseServer` |
| `manifestEntries`; `databaseConsistencyWarnings` | `Describe`; `Compare` |
| restic reads the directory; deferred `RemoveAll` | `Snapshot`; `Clean` |
| `SweepOrphans` before the server starts | `Start`, `SweepList`, `SweepRemove`, `Serve` |

`Sealed` sources have a directory without the write bit, whose mode the copy is given;
`Tolerant` servers have a client that goes on after errors; the streams of `Cut` ones
may end early and cleanly, which the code cannot tell from their end. The sqlite3 that
reads a `Killable` database may be killed over its copy, whose exit code the script
drops. `FileOf` is the file an export is written to: `pathSegment` of the service's name
and the technology, which two services may share; what the second overwrites is `"none"`.

### Projects

Requests (`at`, `req`) run any number of times; each SQL statement is a step, and so is
each reading of an analysis, so files and containers change in between. `blueprint` has
the row of `project_blueprints`: the stored fingerprint and drift flag, and the column
with the confirmed fingerprint. A fingerprint is the evidence it was computed from:
the version of the files *on the record's list of Compose files*, the containers with
their mounts *in the order Docker lists them*, and the order of a document's services.
`Hash` sorts the last, as the code does, and nothing else; `Reorder` is Docker listing
the mounts in another order, and `Update` is a scan that replaces path and list. Two
history variables tell what may explain a drift: `touched` (files or containers changed,
or could not be read) and `reread` (the mounts or the record were not as before).

| Code | Definition |
|---|---|
| `Scan`: lookup by name, update or insert, next name | `Scan`, `Lookup`, `Update`, `Discover`, `Upserted`, `Scanned` |
| `Register`; `Remove`: select, event, delete | `Register`, `InsertRow`; `Remove`, `Audit`, `Delete` |
| `Analyze`: Docker state, files, confirmation, fingerprint, upsert | `Analyze`, `Attach`, `Show`, `ReadFiles`, `Read`, `Misses`, `ReadConfirmation`, `Hash`, `SaveAnalysis` |
| `Confirm`: get, update of one column | `Confirm`, `UpdateConfirmation` |

### ResticEngine

`probe` is `checkVersionOnce` with its error: the first caller probes under its own
context, the others wait, and all keep the result. From there a call and its process
are two parties: `proc[c]` opens the repository (or finds it locked), works, commits
and exits by itself; `at[c]` and `output[c]` are the engine's side, a goroutine that
scans a pipe and a `Wait` that closes it. A verification is a check and, if that
passes, the statistics of one snapshot.

| Code | Definition |
|---|---|
| `EnsureAvailable`, `probeVersion` | `Probe`, `Probed`, `ProbeCutOff`, `Unavailable` |
| `run`: `cmd.Start` | `StartProcess`, `StartCancelled` |
| `run`: scanner goroutine; `cmd.Wait` | `ReadSummary`; `Waited` |
| `run`: context before exit code, `classify` | `ErrorOf` |
| `CreateSnapshot`: exit code 3, missing summary | `Succeeds`, `ResultOf` |
| `ListSnapshots`, `boundedBuffer` | `ListExits`, `ResultOf` |
| `VerifyRepository`, `VerifySnapshot` | `Verdict`, `CheckedStructure`, `ResultOf` |
| restic itself (external) | `Open`, `Locked`, `Refused`, `Commit`, `BackupExits`, `ProofExits`, `PlainExits`, `Fails`, `Kill` |

## 3. Runs

`captures` and `projects` check for deadlock; the other runs set `CHECK_DEADLOCK
FALSE`: their number of runs, requests or calls is bounded, and once it is used up the
system really is at rest.

| Run | Instance | Shows |
|---|---|---|
| `backups` | two projects, the second registered while the first is backed up, one with a database; one repository, two runs | the eight properties below, with removal of project and repository, cancellation, failure and crash anywhere |
| `backups_end` | one project, two runs, fair | every run ends, every reservation is given back |
| `repositories` | two repositories, two locations (one absent, one a mount point with other files), four requests | passwords, data, foreign files, audit |
| `repositories_purge` | one location, which holds other files | violated: finding 2 |
| `secrets` | one secret, two passphrases, three data keys, five calls, exclusive maintenance | secrets stay readable, the key in memory is current; `KeepsVault`, the refinement |
| `restores` | two snapshots that carry one database, loaded by a client that stops at errors; one of them carries another, loaded from an archive by a tolerant client, and the other has a namesake of the export; two restores of either kind | reservations, honest notes, a load that had its database for itself replayed its own export; `KeepsReport`, the refinement |
| `restores_merge` | two snapshots that carry one database, a client that stops at errors | violated: finding 1 |
| `captures` | one project: three sources, two with a SQLite database (one of these not writable, its sqlite3 killable), two servers (one behind a proxy), each with a file of its own, three helpers, two runs | manifest and warnings are honest, no helper and no copy is left |
| `projects` | one project in one directory, with files that parse or do not, containers that run or do not, two orders of services and mounts, two requests at a time, any number of them | confirmations, changes, what drift has for a cause, removals |
| `engine` | one engine, three calls, a list of one snapshot fits | what a process did is what its caller is told |
| `engine_probe`, `engine_wait` | as `engine` | violated: findings 3 and 4 |

Properties of the backup runs: `OneRunPerProject`; `StagingHoldsOwnFiles` (what
restic reads is what this run staged); `CleanRunHoldsEverySource` ("completed"
without warnings means every volume is in the snapshot); `NoRowBehindFailure`;
`AuditedBackupExists`; `RunningRowIsAlive`; `KeepsPromise` (the refinement);
`EveryRunEnds` and `ReservationsEnd` under fairness.

Of captures: `HeldHelperIsThere` (nobody removes a container in use, the sweep least of
all); `NoHelperForgotten` (what is there is in use, or lost its creator to a crash or its
name with an answer); `ExportIsWhole` (what the manifest claims is so, its exceptions
named); `QuietRunIsWhole`; `FinishedRunLeavesNothing`. Of restores:
`OneRestorePerSnapshot` and `ReservationIsHeld` (a snapshot is reserved for one restore, and
for one that is on its way to release it), `UntouchedIsUntouched`, `UndisturbedLoadIsWhole`,
`KeepsReport` (the refinement). Of projects: `ChangeIsReported` (drift is said when there is
some), `DriftIsExplained` (and otherwise only where the project was read in another way
than before), `ApprovalSurvives` (an action property: no step but a removal takes a
confirmation away or replaces it by an older one), `RemovalIsAudited`. Of the engine:
`SuccessIsReported` (a process that ended well, and whose output was read, is a success
with the right warning), `StopIsNotFailure` (a killed process is a cancellation, in a
verification too), `VerifiedIsReadable`.

Why the bounds are enough. Runs interact only through a project's reservation, its
staging directory and the rows of its repository; every interaction the code has
is between two parties: the run that left or holds something and the one that
meets it. Two runs give both roles to either, one after the other or side by side,
over any number of crashes and restarts (those are not bounded). Two sources tell
"all" from "some". Loads meet in a database: two of them, of two snapshots, are a load and
what is beside it or was there before - a load, the archive or the client of one that was
cut off, or a stop in between. Repositories need four requests: one creates, one initialises,
two delete or check in between. Five calls of the secret store are an
initialisation, a put and three more that rotate, change the passphrase, lock or
unlock between them; three keys bound the number of rotations to two. One captured
project needs a source without a database, one with, and one whose copy of it cannot be
removed, which also tells a failed one from the next, three helpers because a
capture holds two while a forgotten one is still there, and two runs for what a crash
leaves to the next. Requests on projects act on one row; two at a time give every pair of
them every interleaving, and nothing bounds their number. The instance has one list of
Compose files; what follows when a scan replaces it is in `MCProjectsScan` (section 5) and
in the theorem, which has any number of lists. Three calls of the engine are a
backup, its verification, and one in their way. Symmetry is used over runs, requests,
helpers and calls in the safety runs, which all of them treat alike (as do `VerifiedBackup`, which names runs, and `Vault`,
which names no calls), and not in the runs with a liveness property.

Fairness (`FairSpec`): weak fairness of each run's `Begin` and of its `Execute`,
and of `Restart`. A goroutine is scheduled by the Go runtime, and every call it makes
returns: restic and the Docker daemon answer, fail, or are cut off by the run's
context. A stopped container is restarted by its policy (`deploy/docker-compose.yml:54`). Nothing is
assumed of operators, of cancellation, of writes succeeding, or of crashes coming
to an end: `EveryRunEnds` and `ReservationsEnd` hold although the process may
crash for ever, because a run does not survive its process. "Ends" includes the
case the code accepts: the write that closes the row fails and is logged
(`outcomeLost`).

Assumptions that narrow a run: the projects of `backups` have distinct staging directories (`pathSegment` is not injective; the hazard is
listed); one id per project name; `Exclusive` in `secrets`; locations that do not
contain one another in `Repositories`; sources with a directory of their own in the
staging directory in `Capture` (it is named by `pathSegment` too); the storage of the
repository answers in
`engine`, so that nothing but damage and locks fails a check. `ExportIsWhole` and
`QuietRunIsWhole` except the servers in `Cut`, services that share a file, and databases in
`Killable`; `UndisturbedLoadIsWhole` loads that had company, `Namesake` snapshots and, for
what else the database holds, `Tolerant` clients; `DriftIsExplained` what is in `reread`;
`ForeignFilesGoWithRepository` directories in which restic was initialised;
`FinishedRunLeavesNothing` the sources in
`Sealed`, `SuccessIsReported` lists beyond `Capacity` and summaries that were not read:
section 5 says what happens to those.

## 4. Proofs

Each proof module states an inductive invariant `Inv` and proves `Invariance`,
`Spec => []Inv`, with one step per action and a lemma per group of conjuncts; the
properties follow from it. None of the properties is inductive by itself, and what
`Inv` adds is said below for each. TLC checked every `Inv` on the module's run first.
Lemmas about the operators (what `Goto`, `Ask`, `Remove`, `Fate` and the like do to
the variables) come first in each module and are cited by name.

### BackupRun

`BackupRunProofs` proves, for any sets of projects, repositories, runs and
sources, any names and any map from names to directories:

- `TypeCorrect`: `Spec => []TypeOK`
- `OneBackupAtATime`: `Spec => []OneRunPerProject`
- `FailureIsHonest`: `Spec => []NoRowBehindFailure`
- `AuditIsHonest`: `Spec => []AuditedBackupExists`
- `NoPhantomRun`: `Spec => []RunningRowIsAlive`
- `BackupKeepsPromise`: `Spec => KeepsPromise`, the refinement of `VerifiedBackup`

all from `Invariance`. `Inv` adds what ties a goroutine's position to the tables:

- `DownMeansStill`: while the process is down nothing is reserved or under way;
- `HolderIsReserved`: a run from its reservation to its release is the one
  `byProject` names for its project - two holders of one project would be equal;
- `RowFollowsStep`: the status and cause columns each position allows, so that a
  run that executes has an open row, and one that was not inserted has none;
- `SnapshotFollowsStep`: a snapshot row exists only from the recording step on, for
  runs that were read back, and an outcome other than "completed" excludes it;
- `DecidedWhenFinishing`: no run closes its row before an outcome is set.

There is one lemma per conjunct, with one step per action. For the refinement, each
action of `Next` is shown to be a step of `VerifiedBackup` or to leave its variables
alone: `InsertRun` is `Begin`, `VerifySnapshot` is `ReadBack`, `RecordSnapshot` is
`Publish`, `Finish` is `Succeed`, `Cancel` or `Fail({r})`, `Restart` is
`Fail(RunningRows)`, the rest stutters. The constants are assumed to be no more
than what the code gives: ids of runs, repositories and sources are none of the
marker values, and there is a project and a repository.

Two more theorems have the hypothesis `OwnDirectories`: distinct project ids have
distinct staging directories. The code does not ensure it - a project removed and
found again has a new id and the old directory, and `pathSegment` maps some names to
one - which is the hazard listed at `projects/service.go:137`; it holds where no two
ids ever share a name and the names stay apart as directory names.

- `StagingIsOwn`: `Spec => []StagingHoldsOwnFiles`
- `CleanRunsAreWhole`: `Spec => []CleanRunHoldsEverySource`

Their invariant, `Contents`, holds on top of `Inv`: what a run has staged is all that
lies in its directory from the clearing on (`HolderIsReserved` keeps other runs of the
project out of it, `OwnDirectories` those of other projects), a run at the snapshot has
staged every source, and a run behind it has an archive of its own files with every
source in it unless it noted a warning.

### Repositories

`RepositoriesProofs` proves, for any number of repositories, locations, passwords and
requests, that every safety property of the run `repositories` holds: `TypeCorrect`,
`ConfiguredCanBeOpened` (`RowHasPassword`), `NoUnaskedErasure`
(`DataOutlivesConfiguration`), `StrangersAreSafe` (`ForeignFilesGoWithRepository`) and
`AuditClaimsNoMore` (`AuditedErasureIsReal`). The invariant has a part for each store:

- `RowInv`: the request that creates an id is alone with it until the row is there, and
  has stored its password by then; a deletion reaches the password only after the row;
- `MemoryInv`: whatever is remembered of an id (asked, erased, audited) is of an id that
  was drawn, so that its location no longer changes; a purge was asked for;
- `DiskInv`: only restic writes `config`, so the signature check of the purge means that
  restic was initialised there, and what a purge may still remove includes nothing else;
- `ErasedInv`: a deletion that says it found data has restic's `config` before it, or the
  data at its location was erased - by it, or by another deletion of the same location.

### SecretStore

`SecretStoreProofs` proves `TypeCorrect` (`TypeOK`) for any interleaving, and where
maintenance runs alone (`ASSUME Exclusive`, section 2) `SecretsReadable`
(`SecretsStayReadable`), `MemoryIsCurrent` (`LoadedKeyIsCurrent`), `MasterAlwaysOpens`
(`Spec => []MasterOpens`, which no run states by itself: it is part of the refinement) and
`StoreKeepsVault` (`KeepsVault`), that the store implements `Vault`. The invariant has two
parts:

- `Counted`, without the hypothesis: a key version is at most the number of data keys
  drawn, a salt at most the number of calls that stored one. This bounds two counters
  in `TypeOK` that no guard bounds, and is why keys and requests are assumed finite
  (`BoundAssumption`);
- `Safe`: a call that maintains is the only one under way; the key a call carries is the
  one the record wraps, and what a rotation read as the old key still is; the key in
  memory differs from it only between the commit of a rotation and its publication. So
  what `Put` seals, the record opens. Without `Exclusive`, `CallsHoldCurrentKey` is what
  fails.

For the refinement, `InvSeesVault` derives from `Inv` that everything listed is readable
and that the only opener is the passphrase set last, before and after a step; each action
is then a step of `Vault` (`InsertKeyRecord`, `Rewrap`, `Write`, `Delete`) or leaves the
rows that exist, the salt and the last passphrase alone. The old passphrase no longer
opens the record after a change because the record is wrapped by one KEK, and that of
another passphrase is a different one.

### Restore

`RestoreProofs` proves, for any number of snapshots, databases and restores:
`TypeCorrect`, `OneAtATime` (`OneRestorePerSnapshot`), `ReservationsAreHeld`
(`ReservationIsHeld`), `UntouchedTold`
(`UntouchedIsUntouched`), `CompletedTold` (`Spec => []CompletedIsWhole`) and
`RestoreKeepsReport` (`KeepsReport`), that `Restore` implements `RestoreReport`. `Inv` says that
whoever works on a snapshot is the one it is reserved for, that the outcome a run is
about to write, and has written, agrees with what it did (`SaysUntouched`,
`SaysCompleted`), and that a target directory is removed after that only if what was
restored is a database.

`LoadedDatabaseIsWhole` is not true: finding 1 is two snapshots of one project loaded into
one database together, and a tolerant client is enough by itself (section 5).
`UndisturbedIsWhole` proves what is (`Spec => []UndisturbedLoadIsWhole`), for databases
that any number of snapshots carry and any number of loads have gone before: a load beside which there was no other,
and no client left behind, replays its own snapshot's export, from the archive in the
container too, and a client that stops at errors leaves nothing else. `AloneIsAlone` is
the step that takes several actors: `alone` is decided when a run comes near the
database, and taken away when another does. `LoadsOwnFile` says what such a run reads.

The refinement says more than the invariants: that a report is never taken back, that a
database is written only after the whole export was extracted, and that what a completed
extraction left is not removed. It needs `Follows` on top of `Inv`: the row is open
exactly from its insertion until the goroutine ends (`RowFollows`), whatever goes near a
database has the export on disk (`LoadsWhole`), a run ends with one of three verdicts
(`FinishesWithVerdict`), and nothing runs between a stop and the next start
(`DownIsQuiet`), so that a restart closes only rows that nobody works on. `InsertRun` is
`Begin`, `OpenLoad` is `Touch`, `Finish` is `Complete`, `Cancel` or `Fail({r}, "failed")`,
`Restart` is `Fail` of all open rows, and every step that empties or removes a directory
is `Discard`.

### Capture

`CaptureProofs` proves, for any number of sources, databases, servers, containers and
runs: `TypeCorrect`, `HelpersStay` (`HeldHelperIsThere`), `HelpersRemembered`
(`NoHelperForgotten`), `ManifestTrue` (`ExportIsWhole`), `QuietRunsWhole`
(`QuietRunIsWhole`) and `NothingLeft` (`FinishedRunLeavesNothing`). `Inv` has

- `HelperInv`: the sweep is over before a run begins, and the containers a run waits
  for or holds are different ones, so that no removal takes another's;
- `CaptureInv`: a source is staged once, and a capture follows the copy of its source,
  so that no later copy overwrites it; a database whose source is done with was
  captured or is warned of (`CapturesOrWarns`);
- `ExportInv`: a server is exported once, so that an accepted file is not written again
  or removed as a failed one; the manifest says of each what the run knows of it
  (`Describes`), and a server seen in the end that was not exported is warned of
  (`Compares`). Of services that share a file nothing is said.

### Projects

`ProjectsProofs` proves, for any number of projects, requests and versions of what they
read: `TypeCorrect`, `RemovalsAudited` (`RemovalIsAudited`), `ChangesReported`
(`ChangeIsReported`), `NoFalseDrift` (`DriftIsExplained`) and the action property
`ApprovalsSurvive` (`ApprovalSurvives`). `Inv` says that a request which is about to
delete has written its event; that an analysis about to store the *first* blueprint of
a project carries no confirmation (`FirstUnconfirmed`: the upsert keeps the column
otherwise); and, for a project that nothing has changed, that could be read, and whose
mounts and list of files are what they were (outside `Disturbed`), that
what is stored, what was confirmed and what analyses carry are one fingerprint
(`SettledStored`, `SettledCarried`) - which needs all of them in the one order that
`Hash` sorts into (`InOneOrder`). It is conditional on purpose: `DriftHasCause`, without the
last condition, is false (section 5). Assumed: there is a name, an order
and a list (`SomeAssumption`), and the markers for "no row" and "no fingerprint" are neither
(`NoneAssumption`).

### ResticEngine

`ResticEngineProofs` proves, for any number of calls side by side and any capacity of
the buffer: `TypeCorrect`, `SuccessesReported` (`SuccessIsReported`), `StopsReported`
(`StopIsNotFailure`) and `VerificationsMean` (`VerifiedIsReadable`). `Inv` says that
one call probes, that a process belongs to a call which waits for it or has its answer
and is killed only when its context ends, what a process that ended well has printed,
and how much a verification has proved at each stage: a call at the statistics had a
sound repository, and one whose statistics succeeded a readable snapshot
(`ProvenSound`). Damage is part of the initial state and does not come later, which is
an assumption of the model.

### What is only model-checked

Liveness, which is outside the prover's reach, as is `ENABLED`: `EveryRunEnds` and
`ReservationsEnd` of `BackupRun`. The four findings
are counterexamples on an instance and need no proof. Every safety invariant of the
passing runs, the action property `ApprovalSurvives` and the refinements `KeepsPromise`,
`KeepsVault` and `KeepsReport` are stated by a theorem; those with a
hypothesis are the ones named above (`OwnDirectories`, `Exclusive`), and the instances of
the runs satisfy it.

## 5. Findings

Each is a run that ends in a counterexample, of something the repository says:

1. `LoadedDatabaseIsWhole` (`restores_merge`) - the reservation is per snapshot: two of one
   project can be loaded into one live database at a time, and both are completed, against
   "a restore that merges into whatever is already there produces a state that never
   existed" (`restore/database.go:51-53`).
2. `ForeignFilesStay` (`repositories_purge`) - "a directory holding anything else is left
   alone" (`repositories/purge.go:70-71`) is a check that restic's own files are there: what
   lies beside them is erased too.
3. `MissingIsMissing` (`engine_probe`) - the first call is cancelled while it probes the
   version; "restic is not available" is what every later call gets until a restart.
4. `NoSnapshotIsLost` (`engine_wait`) - `cmd.Wait` closes the pipe before its reader is
   done; without the summary line a backup that was written is a failure.

More of what the repository says is false of the model, and is written down as a property
of its own. TLC finds these counterexamples too, on the instance named; they are not among
the runs, whose passing properties make an exception of each or say nothing of it:

| Property | Configuration | What happens |
|---|---|---|
| `LoadedDatabaseIsWhole` | `MCRestorePostgres` | psql passes over errors ("already exists", a database that is in use; `dbdump/load.go:100-106, 131, 140`), and the load is completed on top of what was there |
| `OnlyExportsAreLoaded` | `MCRestoreNamesake` | "Only the export is pulled out of the snapshot" (`restore/database.go:172-173`), by its file name alone: a file of that name in a volume may be loaded instead |
| `UnsoundIsDamage` | `MCResticEngineVerdict` | a check that finds the repository locked is reported as damage (`backup/restic.go:254-259`): a good snapshot fails its verification and is not recorded |
| `ExportedIsThere` | `MCCaptureFile` | `pathSegment` gives two services one file (`dbdump/postgres.go:93, 182-198`), the second export overwrites the first, and the manifest calls both exported |
| `ConsistentIsWhole` | `MCCaptureKilled` | what a killed sqlite3 left is not "missing output" (`storage/sqlite.go:147-153`), and is called consistent without a warning |
| `ConsistentStandsAlone` | `MCCaptureLog` | a stale log that cannot be removed is warned of, but the database beside it is called consistent (`storage/sqlite.go:114-123`) |
| `DriftHasCause` | `MCProjectsMounts` | Docker lists the mounts of a service in another order, which is hashed as it comes (`projectanalyzer/service.go:320-343`): a project nobody touched announces drift, which `fingerprint_test.go:16-20` says is what sorting is for |
| `DriftHasCause` | `MCProjectsScan` | a scan replaces the list of Compose files that `Register` found (`projects/store.go:88-93`), and the next analysis reads other files |

Seen while modelling, and either excepted by name in a property or outside the runs:

- A list of snapshots longer than 8 KiB does not decode (`restic.go:115`, `boundedBuffer`):
  a repository with some ten snapshots answers every check with an error.
- A restart closes a run that was stopped between `insertSnapshot` and its closing update
  with "No verified snapshot was recorded." (`store.go:206`), although one was.
- A purge that fails part way can leave a directory that `verifyResticLayout` then refuses
  for ever, and a retry that succeeds is audited as the removal of a configuration only.
- A stream that something between Back-Orbit and the daemon closes cleanly leaves half an
  export that is recorded as one (`docker/exec.go:214`; constant `Cut`).
- A staged directory gets the mode of its original; without the write bit it cannot be
  removed, and the next run of the project fails at its start (`staging.go:367`; `Sealed`).
- `Confirm` moves the confirmed fingerprint and leaves the drift flag in the stored
  analysis: the blueprint just confirmed is shown as changed (`projectanalyzer/service.go:165`).
- A `Put` beside a rotation writes a secret that nothing can open (section 2, `Exclusive`).

## 6. Not modelled

- Authentication: users, sessions and the login limiter share nothing with backups. Two
  setup requests at once can create two administrators (listed as a hazard).
- The live event stream (`events/broker.go`): it loses events for slow subscribers by
  design, and nothing reads it back; the stored trail is in the modules that write it.
- `pathSegment`, image references and version strings: rules on strings. What follows
  from two names with one segment is in `Capture` for exports (`FileOf`), and assumed away
  for staging directories.
- Configuration, HTTP routing, the Docker client's plumbing, the web interface, the
  lab fixtures: no state of the backup system lives there.
- The catalogue of images and the analyzer's detectors: pure pattern matching on
  strings, which table tests cover better than a model.
- Migrations: they run once, before anything else.
- Progress columns, log lines, wording; the content of manifests.
- A snapshot restic wrote for a run that then failed: nothing points at it.
- Retention (`ApplyRetention`, `PruneRepository`): no caller in the program.

## 7. Plan

Done, in this order: `VerifiedBackup` and `BackupRun`, its runs, its proofs;
`Repositories` and its proofs; `SecretStore`; `Restore`; `Capture`; `Projects`;
`ResticEngine`.

Done after these: the proofs of `Restore`, `Projects`, `ResticEngine`, `Capture` and
`SecretStore`, and those about the contents of snapshots in `BackupRun`.

And the abstract specifications `Vault` and `RestoreReport`, with the proofs that
`SecretStore` and `Restore` implement them.

Next: what the frame assumes of the modules inside it, stated as theorems of these: the
outcomes of `Capture` and `ResticEngine` are among those `BackupRun` takes. If the model
is to grow: `Auth` and the events broker.
