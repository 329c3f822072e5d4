------------------------------ MODULE BackupRun ------------------------------
(***************************************************************************)
(* The backup runner of internal/backuprun: Start, Cancel, the goroutine   *)
(* that executes a run, what a crash leaves behind and what the next start *)
(* makes of it, together with the rows of the projects, repositories,      *)
(* backup_runs and snapshots tables it reads and writes, the staging       *)
(* directories on disk and the snapshots restic holds.                     *)
(*                                                                         *)
(* Abstractions:                                                           *)
(* - the database has one connection (database.go:31-60), so a statement   *)
(*   is one atomic step; any write may fail, and then changes nothing;     *)
(* - a staged file tree is the set of <<run, source>> pairs whose files lie*)
(*   in it; a restic snapshot is the set of pairs it captured;             *)
(* - the progress columns (phase, counters) and log lines are left out; a  *)
(*   progress write still writes the status column, as updateRun does;     *)
(* - a restic that fails may leave a snapshot nothing points at; it is     *)
(*   left out, since nothing reads it again.                               *)
(***************************************************************************)
EXTENDS FiniteSets

CONSTANTS
  Project,        \* project ids ever registered
  Repo,           \* repository ids ever configured
  Run,            \* run ids ever drawn: bounds the number of backups started
  Source,         \* the backupable volumes and bind mounts of a project
  WithDatabase,   \* the projects in which a database was detected
  Dumps,          \* the staged directory of database exports, "back-orbit-dumps"
  Registered,     \* the projects registered when the first process starts
  NameOf,         \* NameOf[p]: the name of project p, unique among present rows
  SegmentOf,      \* SegmentOf[n]: pathSegment(n), a directory below the staging root
  NoRun, NoRepo

ASSUME DumpsAssumption == Dumps \notin Source
ASSUME NoRunAssumption == NoRun \notin Run
ASSUME NoRepoAssumption == NoRepo \notin Repo /\ "none" \notin Repo \union {NoRepo}
ASSUME ProjectAssumption == Project # {}
ASSUME RegisteredAssumption ==
  /\ Registered \subseteq Project
  /\ \A a, b \in Registered : a # b => NameOf[a] # NameOf[b]
ASSUME RepoAssumption == Repo # {}

VARIABLES
  up,             \* the process is running
  projects,       \* projects table: "new" (id not drawn yet), "present" or "removed"
  repos,          \* configured repository ids
  status,         \* backup_runs.status; "absent": no row
  cause,          \* what backup_runs.error says of a run without a backup
  snapshotOf,     \* snapshots row of a run: "none", or its repository_id
  audit,          \* terminal audit events that were stored
  active,         \* Runner.active: runs that can be cancelled
  byProject,      \* Runner.byProject: the reservation of each project
  cancelled,      \* runs whose context was cancelled
  pc,             \* where each run's goroutine (or its Start request) stands
  job,            \* the goroutine's own variables
  staging,        \* staging root on disk: what lies in each project directory
  archive,        \* restic: what the snapshot of each run captured, {} if none
  verified,       \* history: runs whose VerifySnapshot answered OK
  outcomeLost     \* history: running rows whose closing write failed and was logged

tables  == <<projects, repos, status, cause, snapshotOf, audit>>
memory  == <<active, byProject, cancelled, pc, job>>
outside == <<staging, archive>>
history == <<verified, outcomeLost>>
vars    == <<up, tables, memory, outside, history>>

Item  == Source \union {Dumps}
Files == Run \X Item
Dir   == {SegmentOf[NameOf[p]] : p \in Project}

(* Fault: one working directory for all projects.                          *)
WorkDirOfAll(p) == SegmentOf[NameOf[CHOOSE p2 \in Project : TRUE]]

WorkDir(p) == SegmentOf[NameOf[p]]

Successful == {"completed", "completed_with_warnings"}
Status     == {"absent", "running", "failed", "cancelled"} \union Successful
Outcome    == {"none", "completed", "failed", "cancelled"}

(* The goroutine's steps, in the order execute takes them. *)
Executing == {"clearing", "staging", "snapshotting", "verifying",
              "recording", "finishing", "cleaning", "releasing"}
Holding   == {"reserved", "inserted"} \union Executing
Step      == {"idle", "resolved", "gone"} \union Holding

Job == [project : Project, repo : Repo, staged : SUBSET Item,
        warned : BOOLEAN, cleanup : BOOLEAN, outcome : Outcome]

TypeOK ==
  /\ up \in BOOLEAN
  /\ projects \in [Project -> {"new", "present", "removed"}]
  /\ repos \subseteq Repo
  /\ status \in [Run -> Status]
  /\ cause \in [Run -> {"none", "failed", "cancelled", "interrupted"}]
  /\ snapshotOf \in [Run -> Repo \union {NoRepo, "none"}]
  /\ audit \subseteq ({"completed", "failed", "cancelled"} \X Run)
  /\ active \subseteq Run
  /\ byProject \in [Project -> Run \union {NoRun}]
  /\ cancelled \subseteq Run
  /\ pc \in [Run -> Step]
  /\ job \in [Run -> Job]
  /\ staging \in [Dir -> SUBSET Files]
  /\ archive \in [Run -> SUBSET Files]
  /\ verified \subseteq Run
  /\ outcomeLost \subseteq Run

NewJob(p, q) == [project |-> p, repo |-> q, staged |-> {},
                 warned |-> FALSE, cleanup |-> FALSE, outcome |-> "none"]

(* The variables of a request that has not been made: no step reads them.  *)
AnyJob == NewJob(CHOOSE p \in Project : TRUE, CHOOSE q \in Repo : TRUE)

(* The first process: every repository is configured, nothing has run.     *)
Init ==
  /\ up = TRUE
  /\ projects = [p \in Project |-> IF p \in Registered THEN "present" ELSE "new"]
  /\ repos = Repo
  /\ status = [r \in Run |-> "absent"]
  /\ cause = [r \in Run |-> "none"]
  /\ snapshotOf = [r \in Run |-> "none"]
  /\ audit = {}
  /\ active = {}
  /\ byProject = [p \in Project |-> NoRun]
  /\ cancelled = {}
  /\ pc = [r \in Run |-> "idle"]
  /\ job = [r \in Run |-> AnyJob]
  /\ staging = [d \in Dir |-> {}]
  /\ archive = [r \in Run |-> {}]
  /\ verified = {}
  /\ outcomeLost = {}

-----------------------------------------------------------------------------
(* Small steps shared by the handlers.                                     *)

Goto(r, l) == pc' = [pc EXCEPT ![r] = l]

(* The request or goroutine is over, its variables with it.                *)
Vanish(r) ==
  /\ Goto(r, "gone")
  /\ job' = [job EXCEPT ![r] = AnyJob]

(* release: forget the cancel function, give the reservation back only if  *)
(* it is this run's.                                                       *)
Release(r, p) ==
  /\ active' = active \ {r}
  /\ byProject' = IF byProject[p] = r THEN [byProject EXCEPT ![p] = NoRun]
                                      ELSE byProject
  /\ cancelled' = cancelled \ {r}

(* persist: an UPDATE by id with no look at the row it overwrites.  It     *)
(* fails when the run was cancelled or the write fails, and is only logged.*)
Progress(r) ==
  \/ /\ r \notin cancelled
     /\ status' = [status EXCEPT ![r] = "running"]
     /\ cause' = [cause EXCEPT ![r] = "none"]
  \/ UNCHANGED <<status, cause>>

(* An error inside execute ends the run: as cancelled when its context or  *)
(* the error is a cancellation, whosesoever (wasCancelled); as failed      *)
(* otherwise.                                                              *)
Stopped(r) == {"cancelled"} \union IF r \in cancelled THEN {} ELSE {"failed"}

Decide(r, outcome) ==
  /\ job' = [job EXCEPT ![r].outcome = outcome]
  /\ Goto(r, "finishing")

-----------------------------------------------------------------------------
(* Start: the request up to the point where the goroutine is launched.     *)

(* Project, repository and repository password are read; nothing is held.  *)
Resolve(r, p, q) ==
  /\ up
  /\ pc[r] = "idle"
  /\ projects[p] = "present"
  /\ q \in repos
  /\ job' = [job EXCEPT ![r] = NewJob(p, q)]
  /\ Goto(r, "resolved")
  /\ UNCHANGED <<up, tables, active, byProject, cancelled, outside, history>>

(* Fault: the busy check is skipped.                                       *)
ReserveUnchecked(r) ==
  /\ pc[r] = "resolved"
  /\ byProject' = [byProject EXCEPT ![job[r].project] = r]
  /\ Goto(r, "reserved")
  /\ UNCHANGED <<up, tables, active, cancelled, job, outside, history>>

(* The check and the reservation are one critical section of Runner.mu.    *)
Reserve(r) ==
  /\ pc[r] = "resolved"
  /\ byProject[job[r].project] = NoRun
  /\ byProject' = [byProject EXCEPT ![job[r].project] = r]
  /\ Goto(r, "reserved")
  /\ UNCHANGED <<up, tables, active, cancelled, job, outside, history>>

(* ErrAlreadyRunning *)
Refuse(r) ==
  /\ pc[r] = "resolved"
  /\ byProject[job[r].project] # NoRun
  /\ Vanish(r)
  /\ UNCHANGED <<up, tables, active, byProject, cancelled, outside, history>>

(* insertRun: its foreign keys need both rows to be there still.           *)
InsertRun(r) ==
  /\ pc[r] = "reserved"
  /\ projects[job[r].project] = "present"
  /\ job[r].repo \in repos
  /\ status' = [status EXCEPT ![r] = "running"]
  /\ Goto(r, "inserted")
  /\ UNCHANGED <<up, projects, repos, cause, snapshotOf, audit,
                 active, byProject, cancelled, job, outside, history>>

(* Fault: the reservation is kept when the insert fails.                   *)
InsertRunFailsHolding(r) ==
  /\ pc[r] = "reserved"
  /\ Vanish(r)
  /\ UNCHANGED <<up, tables, active, byProject, cancelled, outside, history>>

(* A foreign key, a closed request or a database error.                    *)
InsertRunFails(r) ==
  /\ pc[r] = "reserved"
  /\ Release(r, job[r].project)
  /\ Vanish(r)
  /\ UNCHANGED <<up, tables, outside, history>>

(* The cancel function is published and the goroutine launched.            *)
Launch(r) ==
  /\ pc[r] = "inserted"
  /\ active' = active \union {r}
  /\ Goto(r, "clearing")
  /\ UNCHANGED <<up, tables, byProject, cancelled, job, outside, history>>

(* Cancel: only a run this process registered can be cancelled.            *)
CancelRun(r) ==
  /\ up
  /\ r \in active
  /\ cancelled' = cancelled \union {r}
  /\ UNCHANGED <<up, tables, active, byProject, pc, job, outside, history>>

-----------------------------------------------------------------------------
(* execute: the goroutine.                                                 *)

(* Fault: what an earlier run left in the directory stays there.           *)
ClearStagingKeeping(r) ==
  /\ pc[r] = "clearing"
  /\ job' = [job EXCEPT ![r].cleanup = TRUE]
  /\ Progress(r)
  /\ Goto(r, "staging")
  /\ UNCHANGED <<up, projects, repos, snapshotOf, audit,
                 active, byProject, cancelled, outside, history>>

(* The directory is derived from the project, so it is emptied first; from *)
(* here on every exit empties it again.                                    *)
ClearStaging(r) ==
  /\ pc[r] = "clearing"
  /\ staging' = [staging EXCEPT ![WorkDir(job[r].project)] = {}]
  /\ job' = [job EXCEPT ![r].cleanup = TRUE]
  /\ Progress(r)
  /\ Goto(r, "staging")
  /\ UNCHANGED <<up, projects, repos, snapshotOf, audit,
                 active, byProject, cancelled, archive, history>>

(* Fault: the error ends the run, no outcome is set.                       *)
ClearStagingFailsUndecided(r) ==
  /\ pc[r] = "clearing"
  /\ Goto(r, "finishing")
  /\ UNCHANGED <<up, tables, active, byProject, cancelled, job, outside, history>>

(* Reported as a failure even when the run was cancelled meanwhile.        *)
ClearStagingFails(r) ==
  /\ pc[r] = "clearing"
  /\ Decide(r, "failed")
  /\ UNCHANGED <<up, tables, active, byProject, cancelled, outside, history>>

(* One turn of the staging loop; the context is looked at first.  A        *)
(* cancellation that arrives during the copy may still let it succeed.     *)
StageSource(r, s) ==
  /\ pc[r] = "staging"
  /\ s \in Source \ job[r].staged
  /\ r \notin cancelled
  /\ staging' = [staging EXCEPT ![WorkDir(job[r].project)] = @ \union {<<r, s>>}]
  /\ \E warning \in BOOLEAN :
       job' = [job EXCEPT ![r].staged = @ \union {s},
                          ![r].warned = @ \/ warning]
  /\ Progress(r)
  /\ UNCHANGED <<up, projects, repos, snapshotOf, audit,
                 active, byProject, cancelled, pc, archive, history>>

(* The loop ends early: the context is done, or the copy failed.           *)
StagingStops(r) ==
  /\ pc[r] = "staging"
  /\ Source \ job[r].staged # {}
  /\ \E outcome \in Stopped(r) : Decide(r, outcome)
  /\ UNCHANGED <<up, tables, active, byProject, cancelled, outside, history>>

(* dumpDatabases, the manifest and the consistency warnings: exports land  *)
(* in a directory of their own, and nothing that goes wrong here ends the  *)
(* run - it becomes a warning.                                             *)
DumpDatabases(r) ==
  /\ pc[r] = "staging"
  /\ Source \subseteq job[r].staged
  /\ \E exported, warning \in BOOLEAN :
       /\ exported => job[r].project \in WithDatabase
       /\ staging' = IF exported
                       THEN [staging EXCEPT ![WorkDir(job[r].project)] =
                               @ \union {<<r, Dumps>>}]
                       ELSE staging
       /\ job' = [job EXCEPT ![r].staged = IF exported THEN @ \union {Dumps} ELSE @,
                             ![r].warned = @ \/ warning]
  /\ Progress(r)
  /\ Goto(r, "snapshotting")
  /\ UNCHANGED <<up, projects, repos, snapshotOf, audit,
                 active, byProject, cancelled, archive, history>>

(* What lies below the paths handed to restic, whoever put it there.       *)
Found(r) == {f \in staging[WorkDir(job[r].project)] : f[2] \in job[r].staged}

Own(r) == {r} \X job[r].staged

(* Fault: exit code 3 is taken for a clean exit.                           *)
CreateSnapshotSilent(r) ==
  /\ pc[r] = "snapshotting"
  /\ \E captured \in (SUBSET Found(r)) \ {{}} :
       archive' = [archive EXCEPT ![r] = captured]
  /\ Progress(r)
  /\ Goto(r, "verifying")
  /\ UNCHANGED <<up, projects, repos, snapshotOf, audit,
                 active, byProject, cancelled, job, staging, history>>

(* restic writes a snapshot of what it could read.  Files it could not     *)
(* read, and paths that are gone, make it exit with 3: a snapshot with     *)
(* warnings.                                                               *)
CreateSnapshot(r) ==
  /\ pc[r] = "snapshotting"
  /\ \E captured \in (SUBSET Found(r)) \ {{}} :
       LET missed == captured # Found(r)
                     \/ \E i \in job[r].staged : \A f \in Found(r) : f[2] # i
       IN /\ archive' = [archive EXCEPT ![r] = captured]
          /\ job' = [job EXCEPT ![r].warned = @ \/ missed]
  /\ Progress(r)
  /\ Goto(r, "verifying")
  /\ UNCHANGED <<up, projects, repos, snapshotOf, audit,
                 active, byProject, cancelled, staging, history>>

CreateSnapshotFails(r) ==
  /\ pc[r] = "snapshotting"
  /\ \E outcome \in Stopped(r) : Decide(r, outcome)
  /\ UNCHANGED <<up, tables, active, byProject, cancelled, outside, history>>

(* Fault: a verification that answers "not OK" is taken for one that ran.  *)
VerifySnapshotAnswers(r) ==
  /\ pc[r] = "verifying"
  /\ \E ok \in BOOLEAN : verified' = IF ok THEN verified \union {r} ELSE verified
  /\ Goto(r, "recording")
  /\ UNCHANGED <<up, tables, active, byProject, cancelled, job, outside, outcomeLost>>

(* The snapshot reads back.  A restore size below the staged size becomes  *)
(* a warning; sizes that say nothing (hard links, no size) do not.         *)
VerifySnapshot(r) ==
  /\ pc[r] = "verifying"
  /\ archive[r] # {}
  /\ verified' = verified \union {r}
  /\ \E shortfall \in {FALSE, ~(Own(r) \subseteq archive[r])} :
       job' = [job EXCEPT ![r].warned = @ \/ shortfall]
  /\ Goto(r, "recording")
  /\ UNCHANGED <<up, tables, active, byProject, cancelled, outside, outcomeLost>>

(* The engine could not verify (an error: cancelled or failed), or it read *)
(* the snapshot and it is not sound (always failed).                       *)
VerifySnapshotFails(r) ==
  /\ pc[r] = "verifying"
  /\ \E outcome \in Stopped(r) \union {"failed"} : Decide(r, outcome)
  /\ UNCHANGED <<up, tables, active, byProject, cancelled, outside, history>>

(* Fault: cancelling is still honoured once the row is written.            *)
RecordSnapshotCancellable(r) ==
  /\ pc[r] = "recording"
  /\ job[r].repo \in repos
  /\ snapshotOf' = [snapshotOf EXCEPT ![r] = job[r].repo]
  /\ Decide(r, IF r \in cancelled THEN "cancelled" ELSE "completed")
  /\ UNCHANGED <<up, projects, repos, status, cause, audit,
                 active, byProject, cancelled, outside, history>>

(* insertSnapshot, on a context cancellation does not reach; its foreign   *)
(* key needs the repository to be configured still.                        *)
RecordSnapshot(r) ==
  /\ pc[r] = "recording"
  /\ job[r].repo \in repos
  /\ snapshotOf' = [snapshotOf EXCEPT ![r] = job[r].repo]
  /\ Decide(r, "completed")
  /\ UNCHANGED <<up, projects, repos, status, cause, audit,
                 active, byProject, cancelled, outside, history>>

RecordSnapshotFails(r) ==
  /\ pc[r] = "recording"
  /\ Decide(r, "failed")
  /\ UNCHANGED <<up, tables, active, byProject, cancelled, outside, history>>

(* What the run's row is closed with.                                      *)
FinalStatus(r) ==
  IF job[r].outcome # "completed" THEN job[r].outcome
  ELSE IF job[r].warned THEN "completed_with_warnings" ELSE "completed"

FinalCause(r) == IF job[r].outcome = "completed" THEN "none" ELSE job[r].outcome

(* persistDetached, then the audit event: each may fail, and is then only  *)
(* logged - the event is emitted whether or not the row was written.       *)
Finish(r) ==
  /\ pc[r] = "finishing"
  /\ \/ /\ status' = [status EXCEPT ![r] = FinalStatus(r)]
        /\ cause' = [cause EXCEPT ![r] = FinalCause(r)]
        /\ UNCHANGED outcomeLost
     \/ /\ outcomeLost' = outcomeLost \union {r}
        /\ UNCHANGED <<status, cause>>
  /\ audit' \in {audit, audit \union {<<job[r].outcome, r>>}}
  /\ Goto(r, IF job[r].cleanup THEN "cleaning" ELSE "releasing")
  /\ UNCHANGED <<up, projects, repos, snapshotOf,
                 active, byProject, cancelled, job, outside, verified>>

(* Fault: the whole staging root is removed, not the project's directory.  *)
CleanStagingEverything(r) ==
  /\ pc[r] = "cleaning"
  /\ staging' \in {staging, [d \in Dir |-> {}]}
  /\ Goto(r, "releasing")
  /\ UNCHANGED <<up, tables, active, byProject, cancelled, job, archive, history>>

(* The deferred RemoveAll; a failure leaves the files on disk.             *)
CleanStaging(r) ==
  /\ pc[r] = "cleaning"
  /\ staging' \in {staging, [staging EXCEPT ![WorkDir(job[r].project)] = {}]}
  /\ Goto(r, "releasing")
  /\ UNCHANGED <<up, tables, active, byProject, cancelled, job, archive, history>>

(* The deferred release: the last thing the goroutine does.                *)
Leave(r) ==
  /\ pc[r] = "releasing"
  /\ Release(r, job[r].project)
  /\ Vanish(r)
  /\ UNCHANGED <<up, tables, outside, history>>

-----------------------------------------------------------------------------
(* What happens around a run.                                              *)

(* Scan or Register: a fresh id for a name no present row has.             *)
RegisterProject(p) ==
  /\ up
  /\ projects[p] = "new"
  /\ \A p2 \in Project : projects[p2] = "present" => NameOf[p2] # NameOf[p]
  /\ projects' = [projects EXCEPT ![p] = "present"]
  /\ UNCHANGED <<up, repos, status, cause, snapshotOf, audit,
                 memory, outside, history>>

(* Remove deletes the row whether or not a backup of it is under way.      *)
RemoveProject(p) ==
  /\ up
  /\ projects[p] = "present"
  /\ projects' = [projects EXCEPT ![p] = "removed"]
  /\ UNCHANGED <<up, repos, status, cause, snapshotOf, audit,
                 memory, outside, history>>

(* ON DELETE SET NULL takes the repository from its snapshots.  Erasing    *)
(* the data as well only makes restic fail, which it may do in any case.   *)
DeleteRepository(q) ==
  /\ up
  /\ q \in repos
  /\ repos' = repos \ {q}
  /\ snapshotOf' = [r \in Run |-> IF snapshotOf[r] = q THEN NoRepo ELSE snapshotOf[r]]
  /\ UNCHANGED <<up, projects, status, cause, audit, memory, outside, history>>

(* The process ends, killed or told to: the shutdown in main waits for     *)
(* HTTP requests only, so either way every goroutine stops where it is.    *)
Crash ==
  /\ up
  /\ up' = FALSE
  /\ active' = {}
  /\ byProject' = [p \in Project |-> NoRun]
  /\ cancelled' = {}
  /\ pc' = [r \in Run |-> IF pc[r] = "idle" THEN "idle" ELSE "gone"]
  /\ job' = [r \in Run |-> AnyJob]
  /\ UNCHANGED <<tables, outside, history>>

RunningRows == {r \in Run : status[r] = "running"}

(* Fault: every row is closed, whatever its status.                        *)
RestartClosingAll ==
  /\ ~up
  /\ up' = TRUE
  /\ status' = [r \in Run |-> IF status[r] # "absent" THEN "failed" ELSE status[r]]
  /\ cause' = [r \in Run |-> IF status[r] # "absent" THEN "interrupted" ELSE cause[r]]
  /\ UNCHANGED <<projects, repos, snapshotOf, audit, memory, outside, history>>

(* Fault: interrupted runs are not closed.                                 *)
RestartKeepingRows ==
  /\ ~up
  /\ up' = TRUE
  /\ UNCHANGED <<tables, memory, outside, history>>

(* main: interrupted runs are closed before a request is served; if that   *)
(* write fails it is logged and the service starts all the same.           *)
Restart ==
  /\ ~up
  /\ up' = TRUE
  /\ \/ /\ status' = [r \in Run |-> IF r \in RunningRows THEN "failed" ELSE status[r]]
        /\ cause' = [r \in Run |-> IF r \in RunningRows THEN "interrupted" ELSE cause[r]]
        /\ UNCHANGED outcomeLost
     \/ /\ outcomeLost' = outcomeLost \union RunningRows
        /\ UNCHANGED <<status, cause>>
  /\ UNCHANGED <<projects, repos, snapshotOf, audit, memory, outside, verified>>

-----------------------------------------------------------------------------
(* Starting a run: between the request and the goroutine.                  *)
Begin(r) ==
  \/ Reserve(r) \/ Refuse(r)
  \/ InsertRun(r) \/ InsertRunFails(r) \/ Launch(r)

Execute(r) ==
  \/ ClearStaging(r) \/ ClearStagingFails(r)
  \/ \E s \in Source : StageSource(r, s)
  \/ StagingStops(r) \/ DumpDatabases(r)
  \/ CreateSnapshot(r) \/ CreateSnapshotFails(r)
  \/ VerifySnapshot(r) \/ VerifySnapshotFails(r)
  \/ RecordSnapshot(r) \/ RecordSnapshotFails(r)
  \/ Finish(r) \/ CleanStaging(r) \/ Leave(r)

Operator ==
  \/ \E r \in Run, p \in Project, q \in Repo : Resolve(r, p, q)
  \/ \E r \in Run : CancelRun(r)
  \/ \E p \in Project : RegisterProject(p) \/ RemoveProject(p)
  \/ \E q \in Repo : DeleteRepository(q)

Next ==
  \/ \E r \in Run : Begin(r) \/ Execute(r)
  \/ Operator
  \/ Crash \/ Restart

(* Every call a run makes returns (restic, the Docker daemon and the disk  *)
(* answer or fail), and a process that died is started again; operators    *)
(* and crashes owe nothing.                                                *)
Fairness ==
  /\ \A r \in Run : WF_vars(Begin(r)) /\ WF_vars(Execute(r))
  /\ WF_vars(Restart)

Spec     == Init /\ [][Next]_vars
FairSpec == Spec /\ Fairness

-----------------------------------------------------------------------------
(* Safety.                                                                 *)

(* The reservation in Runner.byProject keeps a project to one backup at a  *)
(* time (runner.go:51-54, 162-170): from the reservation until release no  *)
(* two runs are under way for the same project id.                         *)
OneRunPerProject ==
  \A r1, r2 \in Run :
    pc[r1] \in Holding /\ pc[r2] \in Holding /\ r1 # r2
      => job[r1].project # job[r2].project

(* A run from which the staging loop is working until restic has read the  *)
(* tree finds in its directory exactly what it staged itself: nothing a    *)
(* crashed run left (runner.go:257-263), nothing another run put or        *)
(* removed there.  Holds where no two project ids share a directory.       *)
StagingHoldsOwnFiles ==
  \A r \in Run :
    pc[r] \in {"staging", "snapshotting"} => staging[WorkDir(job[r].project)] = Own(r)

(* "Completed", without warnings, says that every volume of the project is *)
(* in the snapshot that was recorded, and nothing but this run's files     *)
(* (runner.go:410-423; restic.go:181-189).                                 *)
CleanRunHoldsEverySource ==
  \A r \in Run :
    status[r] = "completed" =>
      /\ {r} \X Source \subseteq archive[r]
      /\ archive[r] \subseteq {r} \X Item

(* A snapshot row of a finished run and its history agree: a cancelled run *)
(* and a run that failed by itself have no row ("cancelled before a        *)
(* verified snapshot was recorded", runner.go:522).                        *)
NoRowBehindFailure ==
  \A r \in Run :
    cause[r] \in {"failed", "cancelled"} => snapshotOf[r] = "none"

(* The audit trail never claims a backup that is not there: an event       *)
(* backup.completed is stored only for a run with a snapshot row that was  *)
(* read back, even if the run's own row could not be closed.               *)
AuditedBackupExists ==
  \A r \in Run :
    <<"completed", r>> \in audit => snapshotOf[r] # "none" /\ r \in verified

(* A row says "running" only while a goroutine works on it, or its process *)
(* is down, or the write that should have closed it was lost and logged    *)
(* (store.go:199-205: "the most misleading state a backup tool can         *)
(* display").                                                              *)
RunningRowIsAlive ==
  \A r \in Run :
    status[r] = "running" => ~up \/ pc[r] \in Holding \/ r \in outcomeLost

-----------------------------------------------------------------------------
(* Liveness, of FairSpec.                                                  *)

(* Every backup that was started gets an outcome in its row, through the   *)
(* goroutine or through the next start - or the log says that the write    *)
(* was lost.                                                               *)
EveryRunEnds ==
  \A r \in Run :
    status[r] = "running" ~> status[r] # "running" \/ r \in outcomeLost

(* A project is never locked out of its backups: each reservation is given *)
(* back, whatever happened to the run that took it.                        *)
ReservationsEnd ==
  \A p \in Project, r \in Run : byProject[p] = r ~> byProject[p] # r

-----------------------------------------------------------------------------
(* BackupRun implements what VerifiedBackup promises.                      *)

usable == {r \in Run : snapshotOf[r] # "none"}

Promise == INSTANCE VerifiedBackup
             WITH outcome <- status, readBack <- verified, usable <- usable

(* Each step of the runner, the database and the operators is a step of    *)
(* the promise or leaves it alone.                                         *)
KeepsPromise == Promise!Spec

=============================================================================
