-------------------------------- MODULE Capture --------------------------------
(***************************************************************************)
(* What a backup reads and how: internal/storage copies the sources of one *)
(* project through helper containers and takes their SQLite databases      *)
(* again, internal/dbdump exports the database servers and loads the       *)
(* exports into throwaway servers, internal/backuprun describes in the     *)
(* manifest and in warnings what came of it, and internal/docker carries   *)
(* all of it.  BackupRun has the run around it: its rows, its reservation  *)
(* and its end; here runs of one project follow each other.                *)
(*                                                                         *)
(* Abstractions:                                                           *)
(* - a cancellation shows as the failure of the call it interrupts;        *)
(* - a file is "part" or "whole", a copied live database is "plain"; an    *)
(*   export that another one has overwritten is "none";                    *)
(* - sources have directories of their own in the staging directory;       *)
(* - an identifier of a container that is gone stands for a new one later; *)
(* - the tools MySQL tries in turn are one export: only the last leaves a  *)
(*   trace;                                                                *)
(* - the image, the container of a service and its credentials are looked  *)
(*   up, which can only refuse the operation they are for.                 *)
(***************************************************************************)
EXTENDS FiniteSets

CONSTANTS
  Source,         \* the volumes and bind mounts of the project
  Sqlite,         \* SQLite databases in them
  SourceOf,       \* SourceOf[d]: the source database d lies in
  Killable,       \* databases whose sqlite3 may be killed over its copy
  Sealed,         \* sources with a directory that its owner may not write to
  Service,        \* services that run a database server
  Exportable,     \* those whose engine has an exporter (dumpEngines)
  Tolerant,       \* those whose client goes on after an error: PostgreSQL
  Cut,            \* those whose output stream may be cut off by a proxy in between
  File,           \* names of files for exports
  FileOf,         \* FileOf[v]: pathSegment of the service, and the technology
  Run,            \* bounds the runs of the project
  Container,      \* bounds the containers asked for at a time
  NoSource, NoService, NoContainer

ASSUME SourceAssumption ==
  /\ SourceOf \in [Sqlite -> Source]
  /\ Killable \subseteq Sqlite
  /\ Sealed \subseteq Source
  /\ NoSource \notin Source
ASSUME ServiceAssumption ==
  /\ Exportable \union Tolerant \union Cut \subseteq Service
  /\ FileOf \in [Service -> File]
  /\ NoService \notin Service
  /\ Sqlite \intersect Service = {}
ASSUME ContainerAssumption == NoContainer \notin Container

VARIABLES
  phase,          \* the process: "down", "starting", "sweeping" or "serving"
  listed,         \* SweepOrphans: the containers it has yet to remove
  helper,         \* the daemon's containers with the helper label
  left,           \* runs not begun yet
  pc, job,        \* where the run stands, and its goroutine's variables
  tree,           \* disk: the staged copy of each source
  copy, sidecar,  \* disk: the staged copy of each SQLite database; its -wal file
  dump,           \* disk: the export of each service
  orphan          \* history: containers that nobody could remove

process == <<phase, listed>>
run     == <<left, pc, job>>
disk    == <<tree, copy, sidecar, dump>>
vars    == <<process, helper, run, disk, orphan>>

(* The stored blueprint: how sure the analyzer is of each service.  It may *)
(* be analyzed anew at any time, so each reading may see another one, and  *)
(* a reading may fail.                                                     *)
Finding    == {"absent", "possible", "likely"}
Unreadable == [v \in Service |-> "unread"]
Blueprint  == [Service -> Finding] \union {Unreadable}
Level      == {"absent", "exported", "consistent", "files_only"}
Check      == {"none", "unproven", "refuted", "loaded"}

Step == {"idle", "picking", "asking", "copying", "scanning", "asking_capture",
         "capturing", "closing_capture", "replacing", "closing", "choosing",
         "exporting", "checking", "asking_server", "loading", "closing_server",
         "comparing", "snapshotting", "cleaning", "done"}

(* Where a call, or a deferred removal, is pending.                        *)
Asking    == {"asking", "asking_capture", "asking_server"}
InHelper  == {"copying", "scanning", "asking_capture", "capturing",
              "closing_capture", "replacing", "closing"}
InSecond  == {"capturing", "closing_capture", "loading", "closing_server"}
InService == {"exporting", "checking", "asking_server", "loading", "closing_server"}
InStaging == {"asking"} \union InHelper

Job == [todo     : SUBSET Source,                   \* sources not staged yet
        source   : Source \union {NoSource},        \* the one being staged
        service  : Service \union {NoService},      \* the one being exported
        asked    : Container \union {NoContainer},  \* named in a call without answer
        outer    : Container \union {NoContainer},  \* to be removed: stage
        inner    : Container \union {NoContainer},  \* to be removed: capture, check
        failed   : BOOLEAN,                         \* the run cannot go on
        output   : SUBSET Sqlite,                   \* what sqlite3 wrote
        dumps    : SUBSET Service,                  \* exports still to be made
        verify   : BOOLEAN,                         \* exports are test-restored
        captured : SUBSET Sqlite,
        exported : SUBSET Service,
        check    : [Service -> Check],
        warned   : SUBSET (Sqlite \union Service),
        manifest : [Sqlite \union Service -> Level],
        seen     : [Service -> Finding \union {"unread"}]]

TypeOK ==
  /\ phase \in {"down", "starting", "sweeping", "serving"}
  /\ listed \subseteq Container
  /\ helper \in [Container -> {"gone", "asked", "there"}]
  /\ left \subseteq Run
  /\ pc \in Step
  /\ job \in Job
  /\ tree \in [Source -> {"none", "part", "whole", "stuck"}]
  /\ copy \in [Sqlite -> {"none", "plain", "part", "whole"}]
  /\ sidecar \subseteq Sqlite
  /\ dump \in [Service -> {"none", "part", "whole"}]
  /\ orphan \subseteq Container
  /\ pc \in Asking <=> job.asked # NoContainer
  /\ pc \in InHelper <=> job.outer # NoContainer
  /\ pc \in InSecond <=> job.inner # NoContainer
  /\ pc \in InService <=> job.service # NoService
  /\ pc \in InStaging => job.source # NoSource

NewJob(verify) ==
  [todo |-> Source, source |-> NoSource, service |-> NoService,
   asked |-> NoContainer, outer |-> NoContainer, inner |-> NoContainer,
   failed |-> FALSE, output |-> {}, dumps |-> {}, verify |-> verify,
   captured |-> {}, exported |-> {}, check |-> [v \in Service |-> "none"],
   warned |-> {},
   manifest |-> [x \in Sqlite \union Service |-> "absent"], seen |-> Unreadable]

NoJob == NewJob(FALSE)

Init ==
  /\ phase = "serving"
  /\ listed = {}
  /\ helper = [c \in Container |-> "gone"]
  /\ left = Run
  /\ pc = "idle"
  /\ job = NoJob
  /\ tree = [s \in Source |-> "none"]
  /\ copy = [d \in Sqlite |-> "none"]
  /\ sidecar = {}
  /\ dump = [v \in Service |-> "none"]
  /\ orphan = {}

InSource(s) == {d \in Sqlite : SourceOf[d] = s}

-----------------------------------------------------------------------------
(* Helper containers                                                       *)

(* CreateHelperContainer is called; j are the goroutine's variables.       *)
Ask(j, to) ==
  /\ \E c \in Container :
       /\ helper[c] = "gone"
       /\ helper' = [helper EXCEPT ![c] = "asked"]
       /\ job' = [j EXCEPT !.asked = c]
  /\ pc' = to
  /\ UNCHANGED <<process, left, disk, orphan>>

(* The daemon makes the container, now or after its caller has given up.   *)
DaemonCreates(c) ==
  /\ helper[c] = "asked"
  /\ helper' = [helper EXCEPT ![c] = "there"]
  /\ UNCHANGED <<process, run, disk, orphan>>

(* It refuses, or drops a request whose caller is gone.                    *)
DaemonDrops(c) ==
  /\ helper[c] = "asked"
  /\ c # job.asked
  /\ helper' = [helper EXCEPT ![c] = "gone"]
  /\ orphan' = orphan \ {c}
  /\ UNCHANGED <<process, run, disk>>

(* The answer names the container; from here on its removal is deferred.   *)
Answer ==
  /\ pc \in Asking
  /\ helper[job.asked] = "there"
  /\ \/ pc = "asking" /\ pc' = "copying"
     \/ pc = "asking_capture" /\ pc' = "capturing"
     \/ pc = "asking_server" /\ pc' = "loading"
  /\ job' = [job EXCEPT !.asked = NoContainer,
               !.outer = IF pc = "asking" THEN job.asked ELSE @,
               !.inner = IF pc = "asking" THEN @ ELSE job.asked]
  /\ UNCHANGED <<process, helper, left, disk, orphan>>

(* Every database of the source is left as the plain copy, and said to be. *)
CaptureFailed == [job EXCEPT !.warned = @ \union InSource(job.source)]

(* The export stays, unproven, and the run says so.                        *)
Unproven == [job EXCEPT !.check[job.service] = "unproven",
                        !.warned = @ \union {job.service}]

(* The turn of this export is over.                                        *)
Done(j) == [j EXCEPT !.service = NoService]

(* No answer within callTimeout, a refusal, a cancelled run.               *)
NoAnswer ==
  /\ pc \in Asking
  /\ \/ /\ pc = "asking"
        /\ job' = [job EXCEPT !.asked = NoContainer]
        /\ pc' = "cleaning"
     \/ /\ pc = "asking_capture"
        /\ job' = [CaptureFailed EXCEPT !.asked = NoContainer]
        /\ pc' = "closing"
     \/ /\ pc = "asking_server"
        /\ job' = [Done(Unproven) EXCEPT !.asked = NoContainer]
        /\ pc' = "choosing"
  /\ orphan' = orphan \union {job.asked}
  /\ UNCHANGED <<process, helper, left, disk>>

(* RemoveContainer, on a context of its own; a container that is gone is   *)
(* as good as removed, and an error is only logged.                        *)
Remove(c) ==
  \/ helper' = [helper EXCEPT ![c] = "gone"] /\ UNCHANGED orphan
  \/ orphan' = orphan \union {c} /\ UNCHANGED helper

-----------------------------------------------------------------------------
(* Staging: the sources one after the other                                *)

(* RemoveAll of the project's directory.  It goes on after an error, and   *)
(* errs where the copy of a directory carries the original's mode and its  *)
(* owner may not write to it: a database that lies in there stays, too.    *)
Stuck(s) == s \in Sealed /\ tree[s] \in {"whole", "stuck"}

EmptyDirectory ==
  /\ tree' = [s \in Source |-> IF Stuck(s) THEN "stuck" ELSE "none"]
  /\ \E kept \in SUBSET {d \in Sqlite : Stuck(SourceOf[d])} :
       /\ copy' = [d \in Sqlite |-> IF d \in kept THEN copy[d] ELSE "none"]
       /\ sidecar' = sidecar \intersect kept
  /\ dump' = [v \in Service |-> "none"]

(* Fault: requests are served while the sweep still goes on.               *)
BeginUnswept ==
  /\ phase # "down"
  /\ pc \in {"idle", "done"}
  /\ \E r \in left : left' = left \ {r}
  /\ \E verify \in BOOLEAN : job' = NewJob(verify)
  /\ EmptyDirectory
  /\ pc' = "picking"
  /\ UNCHANGED <<process, helper, orphan>>

(* The directory is the project's, so it is emptied first; a run that      *)
(* cannot do so has failed.                                                *)
Begin ==
  /\ phase = "serving"
  /\ pc \in {"idle", "done"}
  /\ \E r \in left : left' = left \ {r}
  /\ \E verify \in BOOLEAN : job' = NewJob(verify)
  /\ EmptyDirectory
  /\ pc' = IF \E s \in Source : Stuck(s) THEN "done" ELSE "picking"
  /\ UNCHANGED <<process, helper, orphan>>

StageSource(s) ==
  /\ pc = "picking"
  /\ s \in job.todo
  /\ Ask([job EXCEPT !.todo = @ \ {s}, !.source = s], "asking")

(* extractTar wrote everything; directory modes come last.  A database     *)
(* that is in use is copied file by file.                                  *)
Extract ==
  /\ pc = "copying"
  /\ tree' = [tree EXCEPT ![job.source] = "whole"]
  /\ copy' = [d \in Sqlite |-> IF d \in InSource(job.source) THEN "plain" ELSE copy[d]]
  /\ sidecar' = sidecar \union InSource(job.source)
  /\ pc' = "scanning"
  /\ UNCHANGED <<process, helper, left, job, dump, orphan>>

(* Fault: the container is forgotten when the copy fails.                  *)
ExtractFailsForgetting ==
  /\ pc = "copying"
  /\ tree' = [tree EXCEPT ![job.source] = "part"]
  /\ job' = [job EXCEPT !.outer = NoContainer]
  /\ pc' = "cleaning"
  /\ UNCHANGED <<process, helper, left, copy, sidecar, dump, orphan>>

(* The archive cannot be read to its end, or an entry is refused.          *)
ExtractFails ==
  /\ pc = "copying"
  /\ tree' = [tree EXCEPT ![job.source] = "part"]
  /\ job' = [job EXCEPT !.failed = TRUE]
  /\ pc' = "closing"
  /\ UNCHANGED <<process, helper, left, copy, sidecar, dump, orphan>>

(* The staged tree cannot be walked, the image is unknown, or the totals   *)
(* cannot be counted again.                                                *)
StageFails ==
  /\ \/ pc = "scanning"
     \/ pc = "closing" /\ InSource(job.source) \intersect job.captured # {}
  /\ job' = [job EXCEPT !.failed = TRUE]
  /\ pc' = "closing"
  /\ UNCHANGED <<process, helper, left, disk, orphan>>

(* The deferred removal of stage, on every way out of it.                  *)
CloseSource ==
  /\ pc = "closing"
  /\ Remove(job.outer)
  /\ job' = [job EXCEPT !.outer = NoContainer, !.source = NoSource]
  /\ pc' = IF job.failed THEN "cleaning" ELSE "picking"
  /\ UNCHANGED <<process, left, disk>>

-----------------------------------------------------------------------------
(* SQLite: one writable helper takes every database of the source again    *)

NothingToCapture ==
  /\ pc = "scanning"
  /\ InSource(job.source) = {}
  /\ pc' = "closing"
  /\ UNCHANGED <<process, helper, left, job, disk, orphan>>

AskCapture ==
  /\ pc = "scanning"
  /\ InSource(job.source) # {}
  /\ Ask(job, "asking_capture")

(* The script goes on after a database it could not read; its copies come  *)
(* back through the archive.                                               *)
RunCapture ==
  /\ pc = "capturing"
  /\ \E output \in SUBSET InSource(job.source) : job' = [job EXCEPT !.output = output]
  /\ pc' = "closing_capture"
  /\ UNCHANGED <<process, helper, left, disk, orphan>>

(* It does not start, exits with an error, or its archive is cut off.      *)
RunCaptureFails ==
  /\ pc = "capturing"
  /\ job' = CaptureFailed
  /\ pc' = "closing_capture"
  /\ UNCHANGED <<process, helper, left, disk, orphan>>

CloseCapture ==
  /\ pc = "closing_capture"
  /\ Remove(job.inner)
  /\ job' = [job EXCEPT !.inner = NoContainer]
  /\ pc' = "replacing"
  /\ UNCHANGED <<process, left, disk>>

Pending == InSource(job.source) \ (job.captured \union job.warned)

(* The plain copy is overwritten with the captured one, whatever a killed  *)
(* sqlite3 left of it, as long as it is not empty; then its sidecars are   *)
(* removed; a sidecar that stays is worth a warning.                       *)
Replace(d) ==
  /\ pc = "replacing"
  /\ d \in Pending \intersect job.output
  /\ \E kept \in {"whole"} \union IF d \in Killable THEN {"part"} ELSE {} :
       copy' = [copy EXCEPT ![d] = kept]
  /\ \/ /\ sidecar' = sidecar \ {d}
        /\ job' = [job EXCEPT !.captured = @ \union {d}]
     \/ /\ UNCHANGED sidecar
        /\ job' = [job EXCEPT !.captured = @ \union {d}, !.warned = @ \union {d}]
  /\ UNCHANGED <<process, helper, left, pc, tree, dump, orphan>>

(* Fault: it counts as captured all the same.                              *)
ReplaceFailsCaptured(d) ==
  /\ pc = "replacing"
  /\ d \in Pending
  /\ copy' \in {copy, [copy EXCEPT ![d] = "part"]}
  /\ job' = [job EXCEPT !.captured = @ \union {d}, !.warned = @ \union {d}]
  /\ UNCHANGED <<process, helper, left, pc, tree, sidecar, dump, orphan>>

(* There is no output for it, or writing failed: before the plain copy was *)
(* opened, or after it was emptied.                                        *)
ReplaceFails(d) ==
  /\ pc = "replacing"
  /\ d \in Pending
  /\ \/ copy' = copy
     \/ d \in job.output /\ copy' = [copy EXCEPT ![d] = "part"]
  /\ job' = [job EXCEPT !.warned = @ \union {d}]
  /\ UNCHANGED <<process, helper, left, pc, tree, sidecar, dump, orphan>>

Replaced ==
  /\ pc = "replacing"
  /\ Pending = {}
  /\ job' = [job EXCEPT !.output = {}]
  /\ pc' = "closing"
  /\ UNCHANGED <<process, helper, left, disk, orphan>>

-----------------------------------------------------------------------------
(* dumpDatabases: the blueprint is read a first time                       *)

Finished == pc = "picking" /\ job.todo = {}

ReadFindings ==
  /\ Finished
  /\ \E found \in Blueprint :
       job' = [job EXCEPT !.dumps = {v \in Exportable : found[v] = "likely"}]
  /\ pc' = "choosing"
  /\ UNCHANGED <<process, helper, left, disk, orphan>>

(* The container is not running, its user or password cannot be read or is *)
(* refused, its databases cannot be listed, or there is none.              *)
CannotExport(v) ==
  /\ pc = "choosing"
  /\ v \in job.dumps
  /\ job' = [job EXCEPT !.dumps = @ \ {v}, !.warned = @ \union {v}]
  /\ UNCHANGED <<process, helper, left, pc, disk, orphan>>

SameFile(v) == {w \in Service : FileOf[w] = FileOf[v]}

(* The file is opened, and emptied if an export of this run is in it, and  *)
(* the tool started in the service's own container.                        *)
StartExport(v) ==
  /\ pc = "choosing"
  /\ v \in job.dumps
  /\ job' = [job EXCEPT !.dumps = @ \ {v}, !.service = v]
  /\ dump' = [w \in Service |-> IF w = v THEN "part"
                              ELSE IF w \in SameFile(v) THEN "none" ELSE dump[w]]
  /\ pc' = "exporting"
  /\ UNCHANGED <<process, helper, left, tree, copy, sidecar, orphan>>

Accept ==
  /\ job' = [job EXCEPT !.exported = @ \union {job.service}]
  /\ pc' = "checking"

(* The stream came to its end, the tool exited with 0, the file is flushed.*)
Export ==
  /\ pc = "exporting"
  /\ dump' = [dump EXCEPT ![job.service] = "whole"]
  /\ Accept
  /\ UNCHANGED <<process, helper, left, tree, copy, sidecar, orphan>>

(* demultiplex takes any end of the stream for its end, and of an exec     *)
(* that is still running execExitCode reads 0.                             *)
ExportCut ==
  /\ pc = "exporting"
  /\ job.service \in Cut
  /\ Accept
  /\ UNCHANGED <<process, helper, left, disk, orphan>>

(* Fault: the exit code of the tool is not looked at.                      *)
ExportFailsAccepted ==
  /\ pc = "exporting"
  /\ Accept
  /\ UNCHANGED <<process, helper, left, disk, orphan>>

(* An error, an exit code, nothing written: the file is removed, if it can *)
(* be.  Flushed or measured in vain it stays.                              *)
ExportFails ==
  /\ pc = "exporting"
  /\ dump' \in {[dump EXCEPT ![job.service] = f] : f \in {"none", "part", "whole"}}
  /\ job' = [Done(job) EXCEPT !.warned = @ \union {job.service}]
  /\ pc' = "choosing"
  /\ UNCHANGED <<process, helper, left, tree, copy, sidecar, orphan>>

(* VerifyRestorable, when it was asked for                                 *)
SkipCheck ==
  /\ pc = "checking"
  /\ job' = IF job.verify THEN Done(Unproven) ELSE Done(job)
  /\ pc' = "choosing"
  /\ UNCHANGED <<process, helper, left, disk, orphan>>

AskServer ==
  /\ pc = "checking"
  /\ job.verify
  /\ Ask(job, "asking_server")

CloseWith(j) ==
  /\ job' = j
  /\ pc' = "closing_server"
  /\ UNCHANGED <<process, helper, left, disk, orphan>>

CannotCheck ==
  /\ pc = "loading"
  /\ CloseWith(Unproven)

Refuted == [job EXCEPT !.check[job.service] = "refuted", !.warned = @ \union {job.service}]

(* Not ready in time, the client failed, or there is nothing to be seen.   *)
LoadRefuted ==
  /\ pc = "loading"
  /\ CloseWith(Refuted)

(* Every statement of the file was replayed.                               *)
Load ==
  /\ pc = "loading"
  /\ dump[job.service] = "whole"
  /\ CloseWith([job EXCEPT !.check[job.service] = "loaded"])

(* Errors were passed over, or the client's stream was cut; some tables    *)
(* are there, or cannot be counted.                                        *)
LoadInPart ==
  /\ pc = "loading"
  /\ job.service \in Tolerant \union Cut
  /\ CloseWith([job EXCEPT !.check[job.service] = "loaded"])

(* Fault: the service is taken for the one still being exported.           *)
CloseServerKeeping ==
  /\ pc = "closing_server"
  /\ Remove(job.inner)
  /\ job' = [job EXCEPT !.inner = NoContainer]
  /\ pc' = "choosing"
  /\ UNCHANGED <<process, left, disk>>

CloseServer ==
  /\ pc = "closing_server"
  /\ Remove(job.inner)
  /\ job' = [Done(job) EXCEPT !.inner = NoContainer]
  /\ pc' = "choosing"
  /\ UNCHANGED <<process, left, disk>>

-----------------------------------------------------------------------------
(* What is said of it                                                      *)

(* manifestEntries, reading the blueprint again; it may have changed, and  *)
(* what cannot be read is left out.                                        *)
Describe ==
  /\ pc = "choosing"
  /\ job.dumps = {}
  /\ \E found \in Blueprint :
       job' = [job EXCEPT !.manifest =
         [x \in Sqlite \union Service |->
            CASE x \in job.exported -> "exported"
              [] x \in job.captured -> "consistent"
              [] x \in Service \ job.exported /\ found[x] = "likely" -> "files_only"
              [] OTHER -> "absent"]]
  /\ pc' = "comparing"
  /\ UNCHANGED <<process, helper, left, disk, orphan>>

(* Fault: only databases the analyzer is sure of are compared.             *)
CompareSure ==
  /\ pc = "comparing"
  /\ \E found \in Blueprint :
       job' = [job EXCEPT !.seen = found,
                 !.warned = @ \union {v \in Service \ job.exported : found[v] = "likely"}]
  /\ pc' = "snapshotting"
  /\ UNCHANGED <<process, helper, left, disk, orphan>>

(* databaseConsistencyWarnings: read a third time; no blueprint, nothing   *)
(* to compare with, and only a log line.                                   *)
Compare ==
  /\ pc = "comparing"
  /\ \E found \in Blueprint :
       job' = [job EXCEPT !.seen = found,
                 !.warned = @ \union {v \in Service \ job.exported :
                                        found[v] \in {"possible", "likely"}}]
  /\ pc' = "snapshotting"
  /\ UNCHANGED <<process, helper, left, disk, orphan>>

(* restic reads the directory, or fails.                                   *)
Snapshot ==
  /\ pc = "snapshotting"
  /\ pc' = "cleaning"
  /\ UNCHANGED <<process, helper, left, job, disk, orphan>>

(* Fault: a run that failed keeps its staging directory.                   *)
CleanAfterSuccess ==
  /\ pc = "cleaning"
  /\ IF job.failed THEN UNCHANGED disk ELSE EmptyDirectory
  /\ pc' = "done"
  /\ UNCHANGED <<process, helper, left, job, orphan>>

(* On every way out of the run; an error is only logged.                   *)
Clean ==
  /\ pc = "cleaning"
  /\ EmptyDirectory
  /\ pc' = "done"
  /\ UNCHANGED <<process, helper, left, job, orphan>>

-----------------------------------------------------------------------------
(* Around the run                                                          *)

(* The goroutine and its deferred removals end; the daemon goes on.        *)
Crash ==
  /\ phase # "down"
  /\ phase' = "down"
  /\ listed' = {}
  /\ pc' = "idle"
  /\ job' = NoJob
  /\ orphan' = orphan \union ({job.asked, job.outer, job.inner} \ {NoContainer})
  /\ UNCHANGED <<helper, left, disk>>

Start ==
  /\ phase = "down"
  /\ phase' = "starting"
  /\ UNCHANGED <<listed, helper, run, disk, orphan>>

(* SweepOrphans: every container with the label, the daemon's answer being *)
(* a list of what is there by now.  Without an answer nothing is swept.    *)
SweepList ==
  /\ phase = "starting"
  /\ \/ /\ listed' = {c \in Container : helper[c] = "there"}
        /\ phase' = "sweeping"
     \/ /\ UNCHANGED listed
        /\ phase' = "serving"
  /\ UNCHANGED <<helper, run, disk, orphan>>

(* One removal after the other; one that fails is passed over.             *)
SweepRemove(c) ==
  /\ phase = "sweeping"
  /\ c \in listed
  /\ Remove(c)
  /\ listed' = listed \ {c}
  /\ UNCHANGED <<phase, run, disk>>

(* The server is started after the sweep.                                  *)
Serve ==
  /\ phase = "sweeping"
  /\ listed = {}
  /\ phase' = "serving"
  /\ UNCHANGED <<listed, helper, run, disk, orphan>>

-----------------------------------------------------------------------------
Stage ==
  \/ Begin \/ (\E s \in Source : StageSource(s)) \/ Answer \/ NoAnswer
  \/ Extract \/ ExtractFails \/ StageFails \/ CloseSource
  \/ NothingToCapture \/ AskCapture \/ RunCapture \/ RunCaptureFails \/ CloseCapture
  \/ (\E d \in Sqlite : Replace(d) \/ ReplaceFails(d)) \/ Replaced

Dump ==
  \/ ReadFindings \/ (\E v \in Service : CannotExport(v) \/ StartExport(v))
  \/ Export \/ ExportCut \/ ExportFails
  \/ SkipCheck \/ AskServer \/ CannotCheck \/ LoadRefuted \/ Load \/ LoadInPart
  \/ CloseServer

Next ==
  \/ Stage \/ Dump
  \/ Describe \/ Compare \/ Snapshot \/ Clean
  \/ Crash \/ Start
  \/ SweepList \/ Serve
  \/ \E c \in Container : DaemonCreates(c) \/ DaemonDrops(c) \/ SweepRemove(c)

Spec == Init /\ [][Next]_vars

-----------------------------------------------------------------------------
(* A container that the run still works with is there: the sweep, which    *)
(* takes every container with the label, is over before requests are       *)
(* served (main.go:113-115), and nothing else removes one early.           *)
HeldHelperIsThere ==
  \A c \in {job.outer, job.inner} \ {NoContainer} : helper[c] = "there"

(* "The helper container is always removed, including when staging fails   *)
(* part way through" (staging.go:108): what is there and not in use lost   *)
(* its creator to a crash, its name with an answer, or resisted removal.   *)
NoHelperForgotten ==
  \A c \in Container :
    helper[c] # "gone" => c \in {job.asked, job.outer, job.inner} \union orphan

Captured == pc = "snapshotting"

Alone(v) == SameFile(v) = {v}

(* "ProtectionExported is a logical dump: the database described itself,   *)
(* and the export can be replayed" (run.go:154-155).  It is not so of two  *)
(* services whose exports are one file: both count as exported.            *)
ExportedIsThere ==
  Captured => \A v \in Service \ Cut : job.manifest[v] = "exported" => dump[v] = "whole"

(* "A failure on one database is left to be detected from its missing      *)
(* output" (sqlite.go:147-148): what the manifest calls consistent is      *)
(* whole.  It is not so of a sqlite3 that was killed over its copy.        *)
ConsistentIsWhole ==
  Captured => \A d \in Sqlite : job.manifest[d] = "consistent" => copy[d] = "whole"

(* "Leaving a stale -wal beside it would make SQLite try to replay a log   *)
(* that no longer matches" (sqlite.go:115-116): what the manifest calls    *)
(* consistent, the database and no part of it, has none.  It has where the *)
(* log could not be removed.                                               *)
ConsistentStandsAlone ==
  Captured => \A d \in Sqlite : job.manifest[d] = "consistent" => d \notin sidecar

(* Elsewhere what the manifest calls exported or consistent is whole in    *)
(* the snapshot (dumps.go:199-256): where a stream that is cut off shows   *)
(* it, the file is the service's own, and sqlite3 leaves all or nothing.   *)
(* A log that stayed beside a consistent database is warned of.            *)
ExportIsWhole ==
  Captured =>
    /\ \A v \in Service \ Cut : job.manifest[v] = "exported" /\ Alone(v) => dump[v] = "whole"
    /\ \A d \in Sqlite \ Killable : job.manifest[d] = "consistent" => copy[d] = "whole"
    /\ \A d \in sidecar : job.manifest[d] = "consistent" => d \in job.warned

(* A run without a warning, whose blueprint could be read in the end, has  *)
(* every detected database whole, with the same exceptions: servers as     *)
(* exports that the manifest names, SQLite files as captures, and no stale *)
(* log beside any.                                                         *)
QuietRunIsWhole ==
  Captured /\ job.warned = {} /\ job.seen # Unreadable =>
    /\ \A v \in Service \ Cut : job.seen[v] # "absent" /\ Alone(v) =>
         dump[v] = "whole" /\ job.manifest[v] = "exported"
    /\ \A d \in Sqlite \ Killable : copy[d] = "whole"
    /\ sidecar = {}

(* However it ended, a run leaves no copy of the data behind, except where *)
(* its own user may not remove it.                                         *)
FinishedRunLeavesNothing ==
  pc = "done" =>
    /\ \A s \in Source \ Sealed : tree[s] = "none"
    /\ \A v \in Service : dump[v] = "none"
    /\ \A d \in Sqlite : SourceOf[d] \notin Sealed => copy[d] = "none"

=============================================================================
