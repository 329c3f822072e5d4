------------------------------- MODULE Restore -------------------------------
(***************************************************************************)
(* Restores: internal/restore and the loading half of internal/dbdump.     *)
(* A restore extracts a snapshot into a directory of its own ("extract"),  *)
(* or extracts one database export and replays it into the running         *)
(* service it came from ("database").  The reservation is per snapshot.    *)
(*                                                                         *)
(* Abstractions:                                                           *)
(* - of a live database only the objects that the exports name count: it   *)
(*   holds the set of their origins, Before (what was there), the run      *)
(*   whose export they come from, or Stray (a file that is no export); a   *)
(*   load replaces them one after another, so in its course both are there;*)
(* - Preview, the manifest, the repository's password and the container    *)
(*   are looked up before anything is held and only refuse.                *)
(***************************************************************************)
EXTENDS FiniteSets

CONSTANTS
  Snapshot,       \* recorded snapshots
  Database,       \* live databases, a service's container each
  ExportOf,       \* ExportOf[s]: the databases whose exports snapshot s carries
  Archived,       \* databases loaded from an archive put into their container
  Tolerant,       \* databases whose client goes on after an error: psql, mongorestore
  Namesake,       \* snapshots with a file that is called like the export
  Run,            \* restores ever started
  Before, Stray, NoRun

ASSUME NoRunAssumption == NoRun \notin Run \union {Stray}
ASSUME OriginAssumption == Before \notin Run \union {Stray} /\ Stray \notin Run
ASSUME ExportAssumption == ExportOf \in [Snapshot -> SUBSET Database]
ASSUME ArchivedAssumption == Archived \subseteq Tolerant /\ Tolerant \subseteq Database
ASSUME SomeSnapshot == Snapshot # {}

VARIABLES
  up,             \* the process is running
  status, note,   \* restore_runs: the status column, and what the error says
  audit,          \* stored events that end a restore
  bySnapshot,     \* Runner.bySnapshot: the reservation of each snapshot
  active,         \* Runner.active
  cancelled,      \* runs whose context was cancelled
  pc, job,        \* where each run stands, and the goroutine's variables
  target,         \* the directory of each run
  live,           \* what each database holds
  box,            \* the archive file in each container, by the origin of its objects
  lingers,        \* clients still at work in each container that nobody waits for
  touched         \* history: runs that wrote into a database

tables == <<status, note, audit>>
memory == <<bySnapshot, active, cancelled>>
run    == <<pc, job>>
world  == <<target, live, box, lingers>>
vars   == <<up, tables, memory, run, world, touched>>

Mode      == {"extract", "database"}
Terminal  == {"completed", "failed", "cancelled"}
Executing == {"extracting", "uploading", "opening", "loading", "finishing",
              "removing", "leaving"}
Holding   == {"reserved", "made", "inserted"} \union Executing
NoDatabase == "none"

(* What a load reads, and where the objects of a database come from.       *)
Source == Run \union {Stray}
Origin == Source \union {Before}

(* Of the variables the last two are history: whether no other load came   *)
(* near the run's own, and what that left in the database.                 *)
Job == [snapshot : Snapshot, mode : Mode, database : Database \union {NoDatabase},
        source : Source \union {NoRun}, met : SUBSET Source,
        alone : BOOLEAN, left : SUBSET Origin,
        outcome : Terminal \union {"none"}, note : {"none", "untouched", "partial", "failed"}]

TypeOK ==
  /\ up \in BOOLEAN
  /\ status \in [Run -> {"absent", "running"} \union Terminal]
  /\ note \in [Run -> {"none", "untouched", "partial", "failed", "interrupted"}]
  /\ audit \subseteq Terminal \X Run
  /\ bySnapshot \in [Snapshot -> Run \union {NoRun}]
  /\ active \subseteq Run
  /\ cancelled \subseteq Run
  /\ pc \in [Run -> {"idle", "gone"} \union Holding]
  /\ job \in [Run -> Job]
  /\ target \in [Run -> {"absent", "empty", "part", "whole"}]
  /\ live \in [Database -> SUBSET Origin]
  /\ box \in [Database -> Source \union {NoRun}]
  /\ lingers \in [Database -> SUBSET Source]
  /\ touched \subseteq Run

NewJob(s, m, d) ==
  [snapshot |-> s, mode |-> m, database |-> d, source |-> NoRun, met |-> {},
   alone |-> TRUE, left |-> {}, outcome |-> "none", note |-> "none"]

NoJob == NewJob(CHOOSE s \in Snapshot : TRUE, "extract", NoDatabase)

Init ==
  /\ up = TRUE
  /\ status = [r \in Run |-> "absent"]
  /\ note = [r \in Run |-> "none"]
  /\ audit = {}
  /\ bySnapshot = [s \in Snapshot |-> NoRun]
  /\ active = {}
  /\ cancelled = {}
  /\ pc = [r \in Run |-> "idle"]
  /\ job = [r \in Run |-> NoJob]
  /\ target = [r \in Run |-> "absent"]
  /\ live = [d \in Database |-> {Before}]
  /\ box = [d \in Database |-> NoRun]
  /\ lingers = [d \in Database |-> {}]
  /\ touched = {}

-----------------------------------------------------------------------------
Goto(r, l) == pc' = [pc EXCEPT ![r] = l]

Vanish(r) ==
  /\ Goto(r, "gone")
  /\ job' = [job EXCEPT ![r] = NoJob]

Release(r) ==
  LET s == job[r].snapshot IN
  /\ active' = active \ {r}
  /\ cancelled' = cancelled \ {r}
  /\ bySnapshot' = IF bySnapshot[s] = r THEN [bySnapshot EXCEPT ![s] = NoRun]
                                        ELSE bySnapshot

DecideLeaving(r, outcome, why, left) ==
  /\ job' = [job EXCEPT ![r].outcome = outcome, ![r].note = why, ![r].left = left]
  /\ Goto(r, "finishing")

Decide(r, outcome, why) == DecideLeaving(r, outcome, why, {})

(* How an error ends a run: as cancelled, saying why, when its context was *)
(* or the error is a cancellation whosesoever; as failed otherwise.        *)
Stop(r, why) ==
  \/ Decide(r, "cancelled", why)
  \/ r \notin cancelled /\ Decide(r, "failed", "failed")

-----------------------------------------------------------------------------
(* Start and RestoreDatabase                                               *)

(* Fault: the reservation of another restore is overwritten.               *)
ReserveUnchecked(r, s, m, d) ==
  /\ up
  /\ pc[r] = "idle"
  /\ IF m = "database" THEN d \in ExportOf[s] ELSE d = NoDatabase
  /\ bySnapshot' = [bySnapshot EXCEPT ![s] = r]
  /\ job' = [job EXCEPT ![r] = NewJob(s, m, d)]
  /\ Goto(r, "reserved")
  /\ UNCHANGED <<up, tables, active, cancelled, world, touched>>

(* Checked and reserved under Runner.mu.                                   *)
Reserve(r, s, m, d) ==
  /\ up
  /\ pc[r] = "idle"
  /\ IF m = "database" THEN d \in ExportOf[s] ELSE d = NoDatabase
  /\ bySnapshot[s] = NoRun
  /\ bySnapshot' = [bySnapshot EXCEPT ![s] = r]
  /\ job' = [job EXCEPT ![r] = NewJob(s, m, d)]
  /\ Goto(r, "reserved")
  /\ UNCHANGED <<up, tables, active, cancelled, world, touched>>

(* ErrAlreadyRunning                                                       *)
Refuse(r, s) ==
  /\ up
  /\ pc[r] = "idle"
  /\ bySnapshot[s] # NoRun
  /\ Vanish(r)
  /\ UNCHANGED <<up, tables, memory, world, touched>>

MakeTarget(r) ==
  /\ pc[r] = "reserved"
  /\ target' = [target EXCEPT ![r] = "empty"]
  /\ Goto(r, "made")
  /\ UNCHANGED <<up, tables, memory, job, live, box, lingers, touched>>

InsertRun(r) ==
  /\ pc[r] = "made"
  /\ status' = [status EXCEPT ![r] = "running"]
  /\ Goto(r, "inserted")
  /\ UNCHANGED <<up, note, audit, memory, job, world, touched>>

(* Fault: the snapshot stays reserved.                                     *)
StartFailsHolding(r) ==
  /\ pc[r] \in {"reserved", "made"}
  /\ Vanish(r)
  /\ UNCHANGED <<up, tables, memory, world, touched>>

(* The directory or the row cannot be made; the directory is left.         *)
StartFails(r) ==
  /\ pc[r] \in {"reserved", "made"}
  /\ Release(r)
  /\ Vanish(r)
  /\ UNCHANGED <<up, tables, world, touched>>

Launch(r) ==
  /\ pc[r] = "inserted"
  /\ active' = active \union {r}
  /\ Goto(r, "extracting")
  /\ UNCHANGED <<up, tables, bySnapshot, cancelled, job, world, touched>>

CancelRun(r) ==
  /\ up
  /\ r \in active
  /\ cancelled' = cancelled \union {r}
  /\ UNCHANGED <<up, tables, bySnapshot, active, run, world, touched>>

-----------------------------------------------------------------------------
(* The goroutine                                                           *)

At(d) == {r \in Run : pc[r] \in {"uploading", "opening", "loading"} /\ job[r].database = d}

(* restic restore of everything.                                           *)
ExtractAll(r) ==
  /\ pc[r] = "extracting"
  /\ job[r].mode = "extract"
  /\ target' = [target EXCEPT ![r] = "whole"]
  /\ Decide(r, "completed", "none")
  /\ UNCHANGED <<up, tables, memory, live, box, lingers, touched>>

(* restic restore of what is called like the export, and of that the first *)
(* file on the way.                                                        *)
ExtractExport(r) ==
  LET d == job[r].database IN
  /\ pc[r] = "extracting"
  /\ job[r].mode = "database"
  /\ target' = [target EXCEPT ![r] = "whole"]
  /\ \E file \in {r} \union {f \in {Stray} : job[r].snapshot \in Namesake} :
       job' = [q \in Run |->
                 IF q = r THEN [job[q] EXCEPT !.source = file,
                                              !.alone = At(d) = {} /\ lingers[d] = {}]
                 ELSE IF q \in At(d) THEN [job[q] EXCEPT !.alone = FALSE]
                 ELSE job[q]]
  /\ Goto(r, IF d \in Archived THEN "uploading" ELSE "opening")
  /\ UNCHANGED <<up, tables, memory, live, box, lingers, touched>>

Extract(r) == ExtractAll(r) \/ ExtractExport(r)

(* Fault: the error ends the run, no outcome is set.                       *)
ExtractFailsUndecided(r) ==
  /\ pc[r] = "extracting"
  /\ target' \in {target, [target EXCEPT ![r] = "part"]}
  /\ Goto(r, "finishing")
  /\ UNCHANGED <<up, tables, memory, job, live, box, lingers, touched>>

(* It fails or is cancelled part of the way; or the export is not in what  *)
(* it extracted.                                                           *)
ExtractFails(r) ==
  /\ pc[r] = "extracting"
  /\ target' \in {target, [target EXCEPT ![r] = "part"]}
  /\ \/ Stop(r, IF job[r].mode = "database" THEN "untouched" ELSE "failed")
     \/ job[r].mode = "database" /\ Decide(r, "failed", "failed")
  /\ UNCHANGED <<up, tables, memory, live, box, lingers, touched>>

(* Fault: an archive that lies there is taken for the run's own.           *)
UploadUnlessThere(r) ==
  /\ pc[r] = "uploading"
  /\ box' = [box EXCEPT ![job[r].database] = IF @ = NoRun THEN job[r].source ELSE @]
  /\ Goto(r, "opening")
  /\ UNCHANGED <<up, tables, memory, job, target, live, lingers, touched>>

(* loadMongo puts the archive at one fixed path in the container.          *)
Upload(r) ==
  /\ pc[r] = "uploading"
  /\ box' = [box EXCEPT ![job[r].database] = job[r].source]
  /\ Goto(r, "opening")
  /\ UNCHANGED <<up, tables, memory, job, target, live, lingers, touched>>

Loading(d) == {r \in Run : pc[r] = "loading" /\ job[r].database = d}

(* The client begins to replace objects: from the run's own file, or from  *)
(* whatever lies in the container by now.                                  *)
OpenLoad(r) ==
  LET d == job[r].database
      s == IF d \in Archived THEN box[d] ELSE job[r].source
  IN /\ pc[r] = "opening"
     /\ s # NoRun
     /\ live' = [live EXCEPT ![d] = @ \union {s}]
     /\ job' = [q \in Run |->
                  IF q = r THEN [job[q] EXCEPT !.source = s,
                                               !.met = lingers[d] \union
                                                         {job[x].source : x \in Loading(d)}]
                  ELSE IF q \in Loading(d) THEN [job[q] EXCEPT !.met = @ \union {s}]
                  ELSE job[q]]
     /\ touched' = touched \union {r}
     /\ Goto(r, "loading")
     /\ UNCHANGED <<up, tables, memory, target, box, lingers>>

(* What a load may leave: every object replaced, except that where another *)
(* client wrote beside it an object may be either's.  psql (ON_ERROR_STOP  *)
(* is 0) and mongorestore (no --stopOnError) go on after an error, so any  *)
(* object may keep what it held; something is there, no more.              *)
Loaded(r) ==
  LET d == job[r].database
      s == job[r].source
  IN IF d \in Tolerant THEN (SUBSET (live[d] \union job[r].met)) \ {{}}
                        ELSE {{s} \union mixed : mixed \in SUBSET job[r].met}

(* The client is done.  The archive is removed on every path; a removal    *)
(* that fails is only logged.                                              *)
Load(r) ==
  LET d == job[r].database IN
  /\ pc[r] = "loading"
  /\ \E left \in Loaded(r) :
       /\ live' = [live EXCEPT ![d] = left]
       /\ DecideLeaving(r, "completed", "none", left)
  /\ box' \in {box, IF d \in Archived THEN [box EXCEPT ![d] = NoRun] ELSE box}
  /\ UNCHANGED <<up, tables, memory, target, lingers, touched>>

(* What becomes of the archive when a load ends early: PutArchive may have *)
(* placed it before it failed, and it is removed only after that - if it   *)
(* is, for an error of the removal is only logged.                         *)
Cleared(r) ==
  LET d == job[r].database IN
  IF pc[r] = "uploading" THEN {box, [box EXCEPT ![d] = job[r].source]}
  ELSE {box, IF d \in Archived THEN [box EXCEPT ![d] = NoRun] ELSE box}

(* Fault: a cancelled load claims that the database was not touched.       *)
LoadFailsUntouched(r) ==
  /\ pc[r] \in {"uploading", "opening", "loading"}
  /\ box' \in Cleared(r)
  /\ Stop(r, "untouched")
  /\ UNCHANGED <<up, tables, memory, target, live, lingers, touched>>

(* It stops anywhere: before the first object, half way, or when its       *)
(* result cannot be checked.  Cancelled, it claims no more than that the   *)
(* database may hold a partial restore.  Where only the stream to the      *)
(* client was cut the client may go on.                                    *)
LoadFails(r) ==
  LET d == job[r].database IN
  /\ pc[r] \in {"uploading", "opening", "loading"}
  /\ box' \in Cleared(r)
  /\ \/ UNCHANGED <<live, lingers>>
     \/ /\ pc[r] = "loading"
        /\ lingers' = [lingers EXCEPT ![d] = @ \union {job[r].source}]
        /\ UNCHANGED live
     \/ /\ pc[r] = "loading"
        /\ \E left \in Loaded(r) : live' = [live EXCEPT ![d] = left]
        /\ UNCHANGED lingers
  /\ Stop(r, "partial")
  /\ UNCHANGED <<up, tables, memory, target, touched>>

(* A client that nobody waits for replaces objects, perhaps the last of an *)
(* origin, until it ends.                                                  *)
LeftBehind(d, s) ==
  /\ s \in lingers[d]
  /\ \/ /\ \E o \in live[d] \union {s} : live' = [live EXCEPT ![d] = (@ \ {o}) \union {s}]
        /\ UNCHANGED lingers
     \/ /\ lingers' = [lingers EXCEPT ![d] = @ \ {s}]
        /\ UNCHANGED live
  /\ UNCHANGED <<up, tables, memory, run, target, box, touched>>

(* The row and the event; an error of either is dropped.                   *)
Finish(r) ==
  /\ pc[r] = "finishing"
  /\ \/ /\ status' = [status EXCEPT ![r] = job[r].outcome]
        /\ note' = [note EXCEPT ![r] = job[r].note]
     \/ UNCHANGED <<status, note>>
  /\ audit' \in {audit, audit \union {<<job[r].outcome, r>>}}
  /\ Goto(r, IF job[r].mode = "database" THEN "removing" ELSE "leaving")
  /\ UNCHANGED <<up, memory, job, world, touched>>

(* A database restore removes its working copy; an error is dropped.       *)
RemoveTarget(r) ==
  /\ pc[r] = "removing"
  /\ target' \in {target, [target EXCEPT ![r] = "absent"]}
  /\ Goto(r, "leaving")
  /\ UNCHANGED <<up, tables, memory, job, live, box, lingers, touched>>

Leave(r) ==
  /\ pc[r] = "leaving"
  /\ Release(r)
  /\ Vanish(r)
  /\ UNCHANGED <<up, tables, world, touched>>

-----------------------------------------------------------------------------
(* The process stops: goroutines and reservations end where they are;      *)
(* directories, rows and containers stay, and in these a client may go on. *)
Crash ==
  /\ up
  /\ up' = FALSE
  /\ bySnapshot' = [s \in Snapshot |-> NoRun]
  /\ active' = {}
  /\ cancelled' = {}
  /\ pc' = [r \in Run |-> IF pc[r] = "idle" THEN "idle" ELSE "gone"]
  /\ job' = [r \in Run |-> NoJob]
  /\ \E on \in SUBSET Run :
       lingers' = [d \in Database |->
                     lingers[d] \union {job[r].source : r \in Loading(d) \intersect on}]
  /\ UNCHANGED <<tables, target, live, box, touched>>

(* Fault: the next start takes an interrupted restore for a finished one.  *)
RestartOptimistic ==
  /\ ~up
  /\ up' = TRUE
  /\ status' = [r \in Run |-> IF status[r] = "running" THEN "completed" ELSE status[r]]
  /\ UNCHANGED <<note, audit, memory, run, world, touched>>

(* CloseInterruptedRuns, after that of the backups: if either fails it is  *)
(* logged, and the service starts all the same.                            *)
Restart ==
  /\ ~up
  /\ up' = TRUE
  /\ \/ /\ status' = [r \in Run |-> IF status[r] = "running" THEN "failed" ELSE status[r]]
        /\ note' = [r \in Run |-> IF status[r] = "running" THEN "interrupted" ELSE note[r]]
     \/ UNCHANGED <<status, note>>
  /\ UNCHANGED <<audit, memory, run, world, touched>>

-----------------------------------------------------------------------------
Prepare(r) == MakeTarget(r) \/ InsertRun(r) \/ StartFails(r) \/ Launch(r)

Begin(r) ==
  \/ \E s \in Snapshot, m \in Mode, d \in Database \union {NoDatabase} : Reserve(r, s, m, d)
  \/ \E s \in Snapshot : Refuse(r, s)
  \/ Prepare(r) \/ CancelRun(r)

Execute(r) ==
  \/ Extract(r) \/ ExtractFails(r)
  \/ Upload(r) \/ OpenLoad(r) \/ Load(r) \/ LoadFails(r)
  \/ Finish(r) \/ RemoveTarget(r) \/ Leave(r)

Next ==
  \/ \E r \in Run : Begin(r) \/ Execute(r)
  \/ \E d \in Database, s \in Source : LeftBehind(d, s)
  \/ Crash \/ Restart

Spec == Init /\ [][Next]_vars

-----------------------------------------------------------------------------
(* "this snapshot already has a restore running": from the reservation     *)
(* until release, a snapshot is restored once (restore.go:179-185,         *)
(* database.go:90-96).                                                     *)
OneRestorePerSnapshot ==
  \A r1, r2 \in Run :
    pc[r1] \in Holding /\ pc[r2] \in Holding /\ r1 # r2
      => job[r1].snapshot # job[r2].snapshot

(* And a snapshot is reserved only for a restore that is on its way to     *)
(* release it: whichever step of the preparation fails, however the work   *)
(* ends, or if the process does, none stays reserved for nobody, which     *)
(* could not be restored again before the next start (restore.go:201,      *)
(* 240-247; database.go:123).                                              *)
ReservationIsHeld ==
  \A s \in Snapshot, r \in Run :
    bySnapshot[s] = r => pc[r] \in Holding /\ job[r].snapshot = s

(* "cancelled before the database was touched" (database.go:183) is said   *)
(* only where no object of the database was replaced.                      *)
UntouchedIsUntouched ==
  \A r \in Run : note[r] = "untouched" => r \notin touched

(* An extraction that is reported as completed is all there, in a          *)
(* directory nothing else writes to.                                       *)
CompletedIsWhole ==
  \A r \in Run :
    status[r] = "completed" => r \in touched \/ target[r] = "whole"

(* The directories that hold all of what the restore is to extract.        *)
Extracted == {r \in Run : target[r] = "whole"}

Promise ==
  INSTANCE RestoreReport WITH outcome <- status, told <- note,
                              extracted <- Extracted

(* What the history promises: every step of a request, of a goroutine, a   *)
(* stop and a start is one of the report's or changes nothing that it      *)
(* shows.  A restore is completed only when all of it is extracted, a      *)
(* database is written only after that, and no end is ever taken back      *)
(* (restore.go:199-228, 270-276, database.go:168-222).                     *)
KeepsReport == Promise!Spec

(* A database restore that is to be called completed.                      *)
LoadCompleted(r) ==
  pc[r] = "finishing" /\ job[r].mode = "database" /\ job[r].outcome = "completed"

(* A load that is called completed left every object of its export in the  *)
(* database as the export has it: "a restore that merges into whatever is  *)
(* already there produces a state that never existed" (database.go:51-53). *)
(* Where psql goes on after errors, or two snapshots are loaded into one   *)
(* database at a time, it is not so.                                       *)
LoadedDatabaseIsWhole ==
  \A r \in Run : LoadCompleted(r) => job[r].left = {r}

(* "Only the export is pulled out of the snapshot, not the volume copies   *)
(* beside it" (database.go:172-173): what a load finds or puts in place    *)
(* comes from an export.  The filter is the file's name alone (line 180),  *)
(* and the first file of that name is loaded (lines 242-261): where a      *)
(* volume holds such a file it is not so.                                  *)
OnlyExportsAreLoaded ==
  \A d \in Database : Stray \notin live[d]

(* What does hold, also after loads that were cut off, processes that      *)
(* ended, and archives and clients they left behind in the container: a    *)
(* load that had the database for itself replays the export of its own     *)
(* snapshot, and if its client stops at errors leaves nothing else         *)
(* (database.go:90-96, load.go:182-210, 226-281).                          *)
UndisturbedLoadIsWhole ==
  \A r \in Run :
    LoadCompleted(r) /\ job[r].alone /\ job[r].snapshot \notin Namesake
      => /\ job[r].source = r
         /\ job[r].database \notin Tolerant => job[r].left = {r}

=============================================================================
