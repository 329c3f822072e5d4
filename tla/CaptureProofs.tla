----------------------------- MODULE CaptureProofs -----------------------------
(***************************************************************************)
(* Theorems about Capture, for any number of sources, databases, services, *)
(* runs and containers.                                                    *)
(***************************************************************************)
EXTENDS Capture, TLAPS

-----------------------------------------------------------------------------
(* The inductive invariant.                                                *)

(* No run is under way before requests are served, so the sweep, which     *)
(* runs before, meets no container of a run.                               *)
SweepsAlone == phase # "serving" => pc = "idle"

(* The containers a run has to do with are different ones, and the one it  *)
(* waits for has not been removed.                                         *)
HelpersApart ==
  /\ job.outer # NoContainer => job.outer \notin {job.asked, job.inner}
  /\ job.asked # NoContainer => helper[job.asked] # "gone"

(* A source is staged once in a run; a database of it that counts as       *)
(* captured was captured after its source was copied.                      *)
StagesOnce ==
  /\ pc \in InStaging => job.source \notin job.todo
  /\ \A d \in job.captured :
       /\ SourceOf[d] \notin job.todo
       /\ pc \in {"asking", "copying"} => SourceOf[d] # job.source

(* The stages of a run that fails lie behind it.                           *)
GoesOn ==
  /\ job.failed => pc \in {"closing", "cleaning", "done"}
  /\ pc \in {"choosing", "comparing", "snapshotting"} \union InService => job.todo = {}

(* As long as the staging directory is the run's, a captured database is   *)
(* whole, unless its sqlite3 may have been killed; unless the run warns of *)
(* it, no log lies beside it.                                              *)
CapturesWhole ==
  /\ pc # "done" => \A d \in job.captured \ Killable : copy[d] = "whole"
  /\ sidecar \intersect (job.captured \ job.warned) = {}

(* A database whose source the run has done with was captured, or the run  *)
(* warns of it.                                                            *)
Over(d) ==
  /\ SourceOf[d] \notin job.todo
  /\ pc \in InStaging \ {"closing"} => SourceOf[d] # job.source

CapturesOrWarns ==
  pc \notin {"idle", "cleaning", "done"} /\ ~job.failed =>
    \A d \in Sqlite : Over(d) => d \in job.captured \union job.warned

(* A service is exported once in a run.                                    *)
ExportsOnce ==
  /\ job.dumps \intersect (job.exported \union {job.service}) = {}
  /\ pc = "exporting" => job.service \notin job.exported
  /\ pc \in {"picking"} \union InStaging => job.exported = {}

(* As long as the staging directory is the run's, an accepted export is    *)
(* whole, unless its stream may have been cut off or its file is that of   *)
(* another service, too.                                                   *)
ExportsWhole ==
  pc # "done" => \A v \in job.exported \ Cut : Alone(v) => dump[v] = "whole"

(* The manifest calls exported what was accepted and consistent what was   *)
(* captured, and once it is written it leaves out no export.               *)
Describes ==
  /\ \A v \in Service : job.manifest[v] = "exported" => v \in job.exported
  /\ \A d \in Sqlite : job.manifest[d] = "consistent" => d \in job.captured
  /\ pc \in {"comparing", "snapshotting"} =>
       \A v \in job.exported : job.manifest[v] = "exported"

(* A service that was seen in the end was exported, or the run warns of it.*)
Compares ==
  pc = "snapshotting" /\ job.seen # Unreadable =>
    \A v \in Service \ job.exported : job.seen[v] # "absent" => v \in job.warned

HelperInv  == SweepsAlone /\ HelpersApart /\ HeldHelperIsThere /\ NoHelperForgotten
CaptureInv == StagesOnce /\ GoesOn /\ CapturesWhole /\ CapturesOrWarns
ExportInv  == ExportsOnce /\ ExportsWhole /\ Describes /\ Compares

Inv == TypeOK /\ HelperInv /\ CaptureInv /\ ExportInv /\ FinishedRunLeavesNothing

-----------------------------------------------------------------------------
(* Lemmas about the operators: the goroutine's variables.                  *)

LEMMA NewJobType ==
  ASSUME NEW verify \in BOOLEAN
  PROVE  /\ NewJob(verify) \in Job
         /\ NewJob(verify).asked = NoContainer
         /\ NewJob(verify).outer = NoContainer /\ NewJob(verify).inner = NoContainer
         /\ NewJob(verify).service = NoService
         /\ NewJob(verify).captured = {} /\ NewJob(verify).exported = {}
         /\ NewJob(verify).dumps = {} /\ ~NewJob(verify).failed
         /\ NewJob(verify).todo = Source
         /\ NewJob(verify).manifest = [x \in Sqlite \union Service |-> "absent"]
  BY DEF NewJob, Job, Unreadable, Finding, Check, Level

LEMMA JobFields ==
  ASSUME TypeOK
  PROVE  /\ job \in Job
         /\ job.todo \subseteq Source
         /\ job.source \in Source \union {NoSource}
         /\ job.service \in Service \union {NoService}
         /\ job.asked \in Container \union {NoContainer}
         /\ job.outer \in Container \union {NoContainer}
         /\ job.inner \in Container \union {NoContainer}
         /\ job.failed \in BOOLEAN /\ job.verify \in BOOLEAN
         /\ job.output \subseteq Sqlite /\ job.captured \subseteq Sqlite
         /\ job.dumps \subseteq Service /\ job.exported \subseteq Service
         /\ job.check \in [Service -> Check]
         /\ job.warned \subseteq Sqlite \union Service
         /\ job.manifest \in [Sqlite \union Service -> Level]
         /\ job.seen \in [Service -> Finding \union {"unread"}]
  BY DEF TypeOK, Job

(* What two records have in common when one goes on from the other.        *)
SameHelpers(j, k) == j.asked = k.asked /\ j.outer = k.outer /\ j.inner = k.inner
SameStaging(j, k) ==
  /\ j.todo = k.todo /\ j.source = k.source /\ j.failed = k.failed
  /\ j.captured = k.captured
SameExports(j, k) ==
  /\ j.dumps = k.dumps /\ j.exported = k.exported /\ j.manifest = k.manifest
  /\ j.seen = k.seen

LEMMA CaptureFailedType ==
  ASSUME job \in Job
  PROVE  /\ CaptureFailed \in Job
         /\ SameHelpers(CaptureFailed, job) /\ SameStaging(CaptureFailed, job)
         /\ SameExports(CaptureFailed, job) /\ CaptureFailed.service = job.service
         /\ CaptureFailed.warned = job.warned \union InSource(job.source)
  BY DEF CaptureFailed, Job, InSource, SameHelpers, SameStaging, SameExports

LEMMA UnprovenType ==
  ASSUME job \in Job, job.service \in Service
  PROVE  /\ Unproven \in Job
         /\ SameHelpers(Unproven, job) /\ SameStaging(Unproven, job)
         /\ SameExports(Unproven, job) /\ Unproven.service = job.service
         /\ Unproven.warned = job.warned \union {job.service}
  BY DEF Unproven, Job, Check, SameHelpers, SameStaging, SameExports

LEMMA RefutedType ==
  ASSUME job \in Job, job.service \in Service
  PROVE  /\ Refuted \in Job
         /\ SameHelpers(Refuted, job) /\ SameStaging(Refuted, job)
         /\ SameExports(Refuted, job) /\ Refuted.service = job.service
         /\ Refuted.warned = job.warned \union {job.service}
  BY DEF Refuted, Job, Check, SameHelpers, SameStaging, SameExports

(* A captured database, with or without a warning.                         *)
LEMMA ReplaceType ==
  ASSUME job \in Job, NEW d \in Sqlite, Replace(d)
  PROVE  /\ job' \in Job
         /\ SameHelpers(job', job) /\ SameExports(job', job)
         /\ job'.service = job.service /\ job'.source = job.source
         /\ job'.todo = job.todo /\ job'.failed = job.failed
         /\ job'.captured = job.captured \union {d}
         /\ job'.warned \in {job.warned, job.warned \union {d}}
         /\ d \in sidecar' => d \in job'.warned
<1>1. CASE job' = [job EXCEPT !.captured = @ \union {d}] /\ sidecar' = sidecar \ {d}
      BY <1>1 DEF Job, SameHelpers, SameExports
<1>2. CASE job' = [job EXCEPT !.captured = @ \union {d}, !.warned = @ \union {d}]
      BY <1>2 DEF Job, SameHelpers, SameExports
<1> QED BY <1>1, <1>2 DEF Replace

LEMMA DoneType ==
  ASSUME NEW j \in Job
  PROVE  /\ Done(j) \in Job
         /\ SameHelpers(Done(j), j) /\ SameStaging(Done(j), j)
         /\ SameExports(Done(j), j) /\ Done(j).service = NoService
         /\ Done(j).warned = j.warned
  BY DEF Done, Job, SameHelpers, SameStaging, SameExports

LEMMA Emptied ==
  ASSUME EmptyDirectory, copy \in [Sqlite -> {"none", "plain", "part", "whole"}],
         sidecar \subseteq Sqlite
  PROVE  /\ tree' \in [Source -> {"none", "part", "whole", "stuck"}]
         /\ copy' \in [Sqlite -> {"none", "plain", "part", "whole"}]
         /\ sidecar' \subseteq sidecar
         /\ dump' \in [Service -> {"none", "part", "whole"}]
         /\ \A s \in Source \ Sealed : tree'[s] = "none"
         /\ \A v \in Service : dump'[v] = "none"
         /\ \A d \in Sqlite : SourceOf[d] \notin Sealed => copy'[d] = "none"
  BY DEF EmptyDirectory, Stuck

(* A container is asked for: one whose name is free.                       *)
LEMMA Asked ==
  ASSUME TypeOK, NEW j \in Job, NEW to \in Step, Ask(j, to)
  PROVE  \E c \in Container :
           /\ helper[c] = "gone"
           /\ helper' = [helper EXCEPT ![c] = "asked"]
           /\ helper' \in [Container -> {"gone", "asked", "there"}]
           /\ job' \in Job
           /\ job'.asked = c /\ job'.outer = j.outer /\ job'.inner = j.inner
           /\ SameStaging(job', j) /\ SameExports(job', j)
           /\ job'.service = j.service /\ job'.warned = j.warned
           /\ pc' = to /\ UNCHANGED <<process, left, disk, orphan>>
<1>1. PICK c \in Container :
        /\ helper[c] = "gone"
        /\ helper' = [helper EXCEPT ![c] = "asked"]
        /\ job' = [j EXCEPT !.asked = c]
      BY DEF Ask
<1>2. /\ job' \in Job
      /\ job'.asked = c /\ job'.outer = j.outer /\ job'.inner = j.inner
      /\ SameStaging(job', j) /\ SameExports(job', j)
      /\ job'.service = j.service /\ job'.warned = j.warned
      BY <1>1 DEF Job, SameStaging, SameExports
<1>3. helper' \in [Container -> {"gone", "asked", "there"}]
      BY <1>1 DEF TypeOK
<1> QED BY <1>1, <1>2, <1>3 DEF Ask

LEMMA Removed ==
  ASSUME TypeOK, NEW c \in Container, Remove(c)
  PROVE  /\ helper' \in [Container -> {"gone", "asked", "there"}]
         /\ orphan' \subseteq Container
         /\ \A c2 \in Container \ {c} : helper'[c2] = helper[c2]
         /\ helper'[c] # "gone" => c \in orphan'
         /\ orphan \subseteq orphan'
<1>1. helper \in [Container -> {"gone", "asked", "there"}] /\ orphan \subseteq Container
      BY DEF TypeOK
<1> QED BY <1>1 DEF Remove

-----------------------------------------------------------------------------
(* Every step keeps the types.                                             *)

(* What a goroutine's steps leave to be shown.                             *)
Placed ==
  /\ pc \in Step
  /\ job \in Job
  /\ pc \in Asking <=> job.asked # NoContainer
  /\ pc \in InHelper <=> job.outer # NoContainer
  /\ pc \in InSecond <=> job.inner # NoContainer
  /\ pc \in InService <=> job.service # NoService
  /\ pc \in InStaging => job.source # NoSource

Held ==
  /\ phase \in {"down", "starting", "sweeping", "serving"}
  /\ listed \subseteq Container
  /\ helper \in [Container -> {"gone", "asked", "there"}]
  /\ left \subseteq Run
  /\ orphan \subseteq Container

Copied ==
  /\ tree \in [Source -> {"none", "part", "whole", "stuck"}]
  /\ copy \in [Sqlite -> {"none", "plain", "part", "whole"}]
  /\ sidecar \subseteq Sqlite
  /\ dump \in [Service -> {"none", "part", "whole"}]

LEMMA TypeParts == TypeOK <=> Placed /\ Held /\ Copied
  BY DEF TypeOK, Placed, Held, Copied

LEMMA PlacedByStaging ==
  ASSUME TypeOK, Stage
  PROVE  Placed'
<1> USE DEF Placed, Asking, InHelper, InSecond, InService, InStaging, Step
<1> USE JobFields, TypeParts
<1>1. CASE Begin
      BY <1>1, NewJobType DEF Begin
<1>2. ASSUME NEW s \in Source, StageSource(s) PROVE Placed'
  <2> DEFINE j == [job EXCEPT !.todo = @ \ {s}, !.source = s]
  <2>1. /\ j \in Job /\ j.source = s /\ j.outer = job.outer /\ j.inner = job.inner
        /\ j.service = job.service
        BY DEF Job
  <2>2. Ask(j, "asking") /\ pc = "picking" /\ s \in Source
        BY <1>2 DEF StageSource
  <2> HIDE DEF j
  <2> QED BY <2>1, <2>2, Asked, SourceAssumption, ContainerAssumption DEF SameStaging
<1>3. CASE Answer
  <2> DEFINE j == [job EXCEPT !.asked = NoContainer,
                     !.outer = IF pc = "asking" THEN job.asked ELSE @,
                     !.inner = IF pc = "asking" THEN @ ELSE job.asked]
  <2>1. /\ j \in Job /\ j.asked = NoContainer /\ j.source = job.source
        /\ j.outer = (IF pc = "asking" THEN job.asked ELSE job.outer)
        /\ j.inner = (IF pc = "asking" THEN job.inner ELSE job.asked)
        /\ j.service = job.service
        BY DEF Job
  <2>2. job' = j
        BY <1>3 DEF Answer
  <2> HIDE DEF j
  <2> QED BY <1>3, <2>1, <2>2 DEF Answer
<1>4. CASE NoAnswer
  <2>1. CASE pc = "asking"
        BY <1>4, <2>1 DEF NoAnswer, Job
  <2>2. CASE pc = "asking_capture"
    <3>1. job' = [CaptureFailed EXCEPT !.asked = NoContainer] /\ pc' = "closing"
          BY <1>4, <2>2 DEF NoAnswer
    <3> QED BY <2>2, <3>1, CaptureFailedType DEF Job, SameHelpers, SameStaging
  <2>3. CASE pc = "asking_server"
    <3> DEFINE j == Done(Unproven)
    <3>1. job' = [j EXCEPT !.asked = NoContainer] /\ pc' = "choosing"
          BY <1>4, <2>3 DEF NoAnswer
    <3>2. j \in Job /\ SameHelpers(j, job) /\ j.service = NoService
          BY <2>3, UnprovenType, DoneType DEF SameHelpers
    <3> HIDE DEF j
    <3> QED BY <2>3, <3>1, <3>2 DEF Job, SameHelpers
  <2> QED BY <1>4, <2>1, <2>2, <2>3 DEF NoAnswer
<1>5. CASE Extract \/ NothingToCapture
      BY <1>5 DEF Extract, NothingToCapture
<1>6. CASE ExtractFails
      BY <1>6 DEF ExtractFails, Job
<1>7. CASE StageFails
      BY <1>7 DEF StageFails, Job
<1>8. CASE CloseSource
      BY <1>8 DEF CloseSource, Job
<1>9. CASE AskCapture
  <2>1. Ask(job, "asking_capture") /\ pc = "scanning" /\ "asking_capture" \in Step
        BY <1>9 DEF AskCapture
  <2> QED BY <2>1, Asked, ContainerAssumption DEF SameStaging
<1>10. CASE RunCapture
  <2>1. PICK output \in SUBSET InSource(job.source) : job' = [job EXCEPT !.output = output]
        BY <1>10 DEF RunCapture
  <2>2. output \subseteq Sqlite
        BY DEF InSource
  <2> QED BY <1>10, <2>1, <2>2 DEF RunCapture, Job
<1>11. CASE RunCaptureFails
      BY <1>11, CaptureFailedType DEF RunCaptureFails, SameHelpers, SameStaging
<1>12. CASE CloseCapture
      BY <1>12 DEF CloseCapture, Job
<1>13. ASSUME NEW d \in Sqlite, Replace(d) PROVE Placed'
  <2>1. pc = "replacing" /\ UNCHANGED pc
        BY <1>13 DEF Replace
  <2> QED BY <1>13, <2>1, ReplaceType DEF SameHelpers
<1>14. ASSUME NEW d \in Sqlite, ReplaceFails(d) PROVE Placed'
  <2>1. /\ job' = [job EXCEPT !.warned = @ \union {d}]
        /\ pc = "replacing" /\ UNCHANGED pc
        BY <1>14 DEF ReplaceFails
  <2> QED BY <2>1 DEF Job
<1>15. CASE Replaced
      BY <1>15 DEF Replaced, Job
<1> QED BY <1>1, <1>2, <1>3, <1>4, <1>5, <1>6, <1>7, <1>8, <1>9, <1>10, <1>11, <1>12,
           <1>13, <1>14, <1>15 DEF Stage

(* A server that is not exported is warned of; nothing else of the run     *)
(* changes.                                                                *)
LEMMA SetAside ==
  ASSUME NEW q \in Job, NEW v \in Service
  PROVE  LET j == [q EXCEPT !.dumps = @ \ {v}, !.warned = @ \union {v}] IN
           /\ j \in Job /\ j.source = q.source /\ j.service = q.service
           /\ j.asked = q.asked /\ j.outer = q.outer /\ j.inner = q.inner
  BY DEF Job

LEMMA PlacedByDump ==
  ASSUME TypeOK, Dump
  PROVE  Placed'
<1> USE DEF Placed, Asking, InHelper, InSecond, InService, InStaging, Step
<1> USE JobFields, TypeParts
<1>1. CASE ReadFindings
  <2>1. PICK found \in Blueprint :
          job' = [job EXCEPT !.dumps = {v \in Exportable : found[v] = "likely"}]
        BY <1>1 DEF ReadFindings
  <2>2. {v \in Exportable : found[v] = "likely"} \subseteq Service
        BY ServiceAssumption
  <2> QED BY <1>1, <2>1, <2>2 DEF ReadFindings, Finished, Job
<1>2. ASSUME NEW v \in Service, CannotExport(v) PROVE Placed'
  <2> DEFINE j == [job EXCEPT !.dumps = @ \ {v}, !.warned = @ \union {v}]
  <2>0. job \in Job /\ job.warned \subseteq Sqlite \union Service /\ job.dumps \subseteq Service
        OBVIOUS
  <2>1. /\ j \in Job /\ j.source = job.source /\ j.service = job.service
        /\ j.asked = job.asked /\ j.outer = job.outer /\ j.inner = job.inner
        BY <2>0, SetAside
  <2>2. job' = j /\ pc = "choosing" /\ pc' = pc
        BY <1>2 DEF CannotExport
  <2> HIDE DEF j
  <2> QED BY <2>1, <2>2
<1>3. ASSUME NEW v \in Service, StartExport(v) PROVE Placed'
      BY <1>3, ServiceAssumption DEF StartExport, Job
<1>4. CASE Export \/ ExportCut
      BY <1>4 DEF Export, ExportCut, Accept, Job
<1>5. CASE ExportFails
  <2> DEFINE j == Done(job)
  <2>1. job' = [j EXCEPT !.warned = @ \union {job.service}] /\ pc = "exporting" /\ pc' = "choosing"
        BY <1>5 DEF ExportFails
  <2>2. j \in Job /\ SameHelpers(j, job) /\ j.service = NoService /\ job.service \in Service
        BY <2>1, DoneType DEF SameHelpers
  <2> HIDE DEF j
  <2> QED BY <2>1, <2>2 DEF Job, SameHelpers
<1>6. CASE SkipCheck
  <2>1. job.service \in Service /\ pc = "checking" /\ pc' = "choosing"
        BY <1>6 DEF SkipCheck
  <2>2. job' = Done(Unproven) \/ job' = Done(job)
        BY <1>6 DEF SkipCheck
  <2> QED BY <2>1, <2>2, UnprovenType, DoneType DEF SameHelpers
<1>7. CASE AskServer
  <2>1. Ask(job, "asking_server") /\ pc = "checking" /\ "asking_server" \in Step
        BY <1>7 DEF AskServer
  <2> QED BY <2>1, Asked, ContainerAssumption DEF SameStaging
<1>8. CASE CannotCheck \/ LoadRefuted
  <2>1. job.service \in Service /\ pc = "loading" /\ pc' = "closing_server"
        BY <1>8 DEF CannotCheck, LoadRefuted, CloseWith
  <2>2. job' = Unproven \/ job' = Refuted
        BY <1>8 DEF CannotCheck, LoadRefuted, CloseWith
  <2> QED BY <2>1, <2>2, UnprovenType, RefutedType DEF SameHelpers
<1>9. CASE Load \/ LoadInPart
  <2>1. /\ job.service \in Service /\ pc = "loading" /\ pc' = "closing_server"
        /\ job' = [job EXCEPT !.check[job.service] = "loaded"]
        BY <1>9 DEF Load, LoadInPart, CloseWith
  <2> QED BY <2>1 DEF Job, Check
<1>10. CASE CloseServer
  <2> DEFINE j == Done(job)
  <2>1. job' = [j EXCEPT !.inner = NoContainer] /\ pc = "closing_server" /\ pc' = "choosing"
        BY <1>10 DEF CloseServer
  <2>2. j \in Job /\ SameHelpers(j, job) /\ j.service = NoService
        BY DoneType
  <2> HIDE DEF j
  <2> QED BY <2>1, <2>2 DEF Job, SameHelpers
<1> QED BY <1>1, <1>2, <1>3, <1>4, <1>5, <1>6, <1>7, <1>8, <1>9, <1>10 DEF Dump

LEMMA PlacedByReport ==
  ASSUME TypeOK, Describe \/ Compare \/ Snapshot \/ Clean
  PROVE  Placed'
<1> USE DEF Placed, Asking, InHelper, InSecond, InService, InStaging, Step
<1> USE JobFields, TypeParts
<1>1. CASE Describe
  <2>1. PICK found \in Blueprint :
          job' = [job EXCEPT !.manifest =
                    [x \in Sqlite \union Service |->
                       CASE x \in job.exported -> "exported"
                         [] x \in job.captured -> "consistent"
                         [] x \in Service \ job.exported /\ found[x] = "likely" -> "files_only"
                         [] OTHER -> "absent"]]
        BY <1>1 DEF Describe
  <2> DEFINE manifest == [x \in Sqlite \union Service |->
                            CASE x \in job.exported -> "exported"
                              [] x \in job.captured -> "consistent"
                              [] x \in Service \ job.exported /\ found[x] = "likely" -> "files_only"
                              [] OTHER -> "absent"]
  <2>2. manifest \in [Sqlite \union Service -> Level]
        BY DEF Level
  <2>3. job' = [job EXCEPT !.manifest = manifest]
        BY <2>1
  <2> HIDE DEF manifest
  <2> QED BY <1>1, <2>2, <2>3 DEF Describe, Job
<1>2. CASE Compare
  <2>1. PICK found \in Blueprint :
          job' = [job EXCEPT !.seen = found,
                    !.warned = @ \union {v \in Service \ job.exported :
                                           found[v] \in {"possible", "likely"}}]
        BY <1>2 DEF Compare
  <2>2. found \in [Service -> Finding \union {"unread"}]
        BY DEF Blueprint, Unreadable
  <2> QED BY <1>2, <2>1, <2>2 DEF Compare, Job
<1>3. CASE Snapshot \/ Clean
      BY <1>3 DEF Snapshot, Clean
<1> QED BY <1>1, <1>2, <1>3

LEMMA PlacedAround ==
  ASSUME TypeOK,
         \/ Crash \/ Start \/ SweepList \/ Serve
         \/ \E c \in Container : DaemonCreates(c) \/ DaemonDrops(c) \/ SweepRemove(c)
  PROVE  Placed'
<1> USE DEF Placed, Asking, InHelper, InSecond, InService, InStaging, Step
<1> USE JobFields, TypeParts
<1>1. CASE Crash
      BY <1>1, NewJobType DEF Crash, NoJob
<1>2. CASE ~Crash
      BY <1>2 DEF Start, SweepList, Serve, DaemonCreates, DaemonDrops, SweepRemove, run
<1> QED BY <1>1, <1>2

(* Where a step puts the staged files and the containers.                  *)
LEMMA CopiedNext ==
  ASSUME TypeOK, Next
  PROVE  Copied'
<1>1. Copied
      BY TypeParts
<1>2. CASE Begin \/ Clean
      BY <1>1, <1>2, Emptied DEF Begin, Clean, Copied
<1>3. CASE Extract
      BY <1>1, <1>3 DEF Extract, InSource, Copied
<1>4. CASE ExtractFails
      BY <1>1, <1>4 DEF ExtractFails, Copied
<1>5. ASSUME NEW d \in Sqlite, Replace(d) \/ ReplaceFails(d) PROVE Copied'
      BY <1>1, <1>5 DEF Replace, ReplaceFails, Copied
<1>6. ASSUME NEW v \in Service, StartExport(v) PROVE Copied'
      BY <1>1, <1>6 DEF StartExport, Copied
<1>7. CASE Export
      BY <1>1, <1>7 DEF Export, Copied
<1>8. CASE ExportFails
      BY <1>1, <1>8 DEF ExportFails, Copied
<1>9. ASSUME UNCHANGED disk PROVE Copied'
      BY <1>1, <1>9 DEF disk, Copied
<1>10. CASE Stage
      BY <1>2, <1>3, <1>4, <1>5, <1>9, <1>10
      DEF Stage, StageSource, Ask, Answer, NoAnswer, StageFails, CloseSource, NothingToCapture,
          AskCapture, RunCapture, RunCaptureFails, CloseCapture, Replaced
<1>11. CASE Dump
      BY <1>6, <1>7, <1>8, <1>9, <1>11
      DEF Dump, ReadFindings, CannotExport, ExportCut, SkipCheck, AskServer, Ask, CannotCheck,
          LoadRefuted, Load, LoadInPart, CloseWith, CloseServer
<1> QED BY <1>2, <1>9, <1>10, <1>11
        DEF Next, Describe, Compare, Snapshot, Crash, Start, SweepList, Serve,
            DaemonCreates, DaemonDrops, SweepRemove

LEMMA HeldNext ==
  ASSUME TypeOK, Next
  PROVE  Held'
<1>1. Held
      BY TypeParts
<1> USE JobFields
<1>2. CASE Begin
      BY <1>1, <1>2 DEF Begin, process, Held
<1>3. ASSUME NEW j, NEW to, Ask(j, to) PROVE Held'
      BY <1>1, <1>3 DEF Ask, process, Held
<1>4. ASSUME NEW c \in Container, Remove(c), UNCHANGED <<phase, left>>, listed' \subseteq Container
      PROVE  Held'
      BY <1>1, <1>4, Removed DEF Held
<1>5. CASE NoAnswer
      BY <1>1, <1>5 DEF NoAnswer, process, Held, TypeOK
<1>6. CASE CloseSource \/ CloseCapture \/ CloseServer
  <2>1. \/ job.outer \in Container /\ Remove(job.outer)
        \/ job.inner \in Container /\ Remove(job.inner)
        BY <1>6 DEF CloseSource, CloseCapture, CloseServer, TypeOK, InHelper, InSecond
  <2> QED BY <1>1, <1>4, <1>6, <2>1
          DEF CloseSource, CloseCapture, CloseServer, process, Held
<1>7. ASSUME UNCHANGED <<process, left, helper, orphan>> PROVE Held'
      BY <1>1, <1>7 DEF process, Held
<1>8. CASE Stage
      BY <1>2, <1>3, <1>5, <1>6, <1>7, <1>8
      DEF Stage, StageSource, Answer, Extract, ExtractFails, StageFails, NothingToCapture,
          AskCapture, RunCapture, RunCaptureFails, Replace, ReplaceFails, Replaced
<1>9. CASE Dump
      BY <1>3, <1>6, <1>7, <1>9
      DEF Dump, ReadFindings, CannotExport, StartExport, Export, ExportCut, ExportFails,
          SkipCheck, AskServer, CannotCheck, LoadRefuted, Load, LoadInPart, CloseWith
<1>10. CASE Describe \/ Compare \/ Snapshot \/ Clean
      BY <1>7, <1>10 DEF Describe, Compare, Snapshot, Clean
<1>11. CASE Crash \/ Start \/ SweepList \/ Serve
      BY <1>1, <1>11 DEF Crash, Start, SweepList, Serve, Held, run
<1>12. ASSUME NEW c \in Container, DaemonCreates(c) \/ DaemonDrops(c) PROVE Held'
      BY <1>1, <1>12 DEF DaemonCreates, DaemonDrops, Held, run, process
<1>13. ASSUME NEW c \in Container, SweepRemove(c) PROVE Held'
      BY <1>1, <1>4, <1>13 DEF SweepRemove, Held, run
<1> QED BY <1>8, <1>9, <1>10, <1>11, <1>12, <1>13 DEF Next

LEMMA TypeNext ==
  ASSUME TypeOK, Next
  PROVE  TypeOK'
<1>1. Placed'
      BY PlacedByStaging, PlacedByDump, PlacedByReport, PlacedAround DEF Next
<1> QED BY <1>1, CopiedNext, HeldNext DEF TypeOK, Placed, Held, Copied

-----------------------------------------------------------------------------
(* Helper containers.                                                      *)

(* Steps that no container has a part in.                                  *)
Quiet ==
  \/ Extract \/ ExtractFails \/ StageFails \/ NothingToCapture
  \/ RunCapture \/ RunCaptureFails \/ Replaced
  \/ \E d \in Sqlite : Replace(d) \/ ReplaceFails(d)
  \/ ReadFindings \/ (\E v \in Service : CannotExport(v) \/ StartExport(v))
  \/ Export \/ ExportCut \/ ExportFails \/ SkipCheck
  \/ CannotCheck \/ LoadRefuted \/ Load \/ LoadInPart
  \/ Describe \/ Compare \/ Snapshot \/ Clean

LEMMA Quietly ==
  ASSUME TypeOK, Quiet
  PROVE  /\ UNCHANGED <<process, helper, orphan>>
         /\ SameHelpers(job', job)
         /\ pc # "idle"
<1> USE JobFields
<1> USE DEF SameHelpers, Job
<1>1. CASE Extract \/ NothingToCapture \/ Snapshot \/ Clean
      BY <1>1 DEF Extract, NothingToCapture, Snapshot, Clean
<1>2. CASE ExtractFails \/ StageFails \/ RunCapture \/ Replaced \/ ReadFindings
      BY <1>2 DEF ExtractFails, StageFails, RunCapture, Replaced, ReadFindings, Finished
<1>3. CASE RunCaptureFails
      BY <1>3, CaptureFailedType DEF RunCaptureFails
<1>4. ASSUME NEW d \in Sqlite, Replace(d)
      PROVE  UNCHANGED <<process, helper, orphan>> /\ SameHelpers(job', job) /\ pc # "idle"
      BY <1>4, ReplaceType DEF Replace
<1>5. ASSUME NEW d \in Sqlite, ReplaceFails(d)
      PROVE  UNCHANGED <<process, helper, orphan>> /\ SameHelpers(job', job) /\ pc # "idle"
      BY <1>5 DEF ReplaceFails
<1>6. ASSUME NEW v \in Service, CannotExport(v) \/ StartExport(v)
      PROVE  UNCHANGED <<process, helper, orphan>> /\ SameHelpers(job', job) /\ pc # "idle"
      BY <1>6 DEF CannotExport, StartExport
<1>7. CASE Export \/ ExportCut
      BY <1>7 DEF Export, ExportCut, Accept
<1>8. CASE ExportFails
  <2> DEFINE j == Done(job)
  <2>1. job' = [j EXCEPT !.warned = @ \union {job.service}] /\ pc = "exporting"
        BY <1>8 DEF ExportFails
  <2>2. j \in Job /\ SameHelpers(j, job)
        BY DoneType
  <2> HIDE DEF j
  <2> QED BY <1>8, <2>1, <2>2 DEF ExportFails
<1>9. CASE SkipCheck
  <2>1. job.service \in Service
        BY <1>9 DEF SkipCheck, TypeOK, InService
  <2> QED BY <1>9, <2>1, UnprovenType, DoneType DEF SkipCheck
<1>10. CASE CannotCheck \/ LoadRefuted \/ Load \/ LoadInPart
  <2>1. job.service \in Service
        BY <1>10 DEF CannotCheck, LoadRefuted, Load, LoadInPart, TypeOK, InService
  <2> QED BY <1>10, <2>1, UnprovenType, RefutedType
          DEF CannotCheck, LoadRefuted, Load, LoadInPart, CloseWith
<1>11. CASE Describe \/ Compare
      BY <1>11 DEF Describe, Compare
<1> QED BY <1>1, <1>2, <1>3, <1>4, <1>5, <1>6, <1>7, <1>8, <1>9, <1>10, <1>11 DEF Quiet

(* Steps that ask for a container.                                         *)
Asks == (\E s \in Source : StageSource(s)) \/ AskCapture \/ AskServer

LEMMA AsksFor ==
  ASSUME TypeOK, Asks
  PROVE  /\ UNCHANGED <<process, disk, orphan>>
         /\ pc # "idle"
         /\ job.asked = NoContainer
         /\ SameExports(job', job) /\ job'.warned = job.warned
         /\ job'.service = job.service
         /\ \E c \in Container :
              /\ helper[c] = "gone" /\ helper' = [helper EXCEPT ![c] = "asked"]
              /\ job'.asked = c /\ job'.outer = job.outer /\ job'.inner = job.inner
<1> USE JobFields
<1> DEFINE Goes(j, to) == /\ SameHelpers(j, job) /\ SameExports(j, job)
                          /\ j.warned = job.warned /\ j.service = job.service
                          /\ Ask(j, to)
<1>1. ASSUME NEW s \in Source, StageSource(s)
      PROVE  \E j \in Job : \E to \in Step : Goes(j, to)
  <2> DEFINE j == [job EXCEPT !.todo = @ \ {s}, !.source = s]
  <2>1. /\ j \in Job /\ SameHelpers(j, job) /\ SameExports(j, job)
        /\ j.warned = job.warned /\ j.service = job.service
        BY DEF Job, SameHelpers, SameExports
  <2>2. Ask(j, "asking") /\ "asking" \in Step
        BY <1>1 DEF StageSource, Step
  <2> QED BY <2>1, <2>2
<1>2. ASSUME AskCapture \/ AskServer
      PROVE  \E j \in Job : \E to \in Step : Goes(j, to)
  <2>1. Ask(job, "asking_capture") \/ Ask(job, "asking_server")
        BY <1>2 DEF AskCapture, AskServer
  <2>2. "asking_capture" \in Step /\ "asking_server" \in Step
        BY DEF Step
  <2>3. SameHelpers(job, job) /\ SameExports(job, job)
        BY DEF SameHelpers, SameExports
  <2> QED BY <2>1, <2>2, <2>3
<1>3. PICK j \in Job, to \in Step : Goes(j, to)
      BY <1>1, <1>2 DEF Asks
<1>4. pc \in {"picking", "scanning", "checking"}
      BY DEF Asks, StageSource, AskCapture, AskServer
<1>5. job.asked = NoContainer
      BY <1>4 DEF TypeOK, Asking
<1> QED BY <1>3, <1>4, <1>5, Asked DEF SameHelpers, SameExports, disk

(* The deferred removals: of a run's second container, then of its first.  *)
Closes(c) ==
  \/ CloseSource /\ c = job.outer
  \/ (CloseCapture \/ CloseServer) /\ c = job.inner

LEMMA ClosesOne ==
  ASSUME TypeOK, NEW c, Closes(c)
  PROVE  /\ c \in Container
         /\ Remove(c)
         /\ UNCHANGED <<process, disk>>
         /\ pc # "idle"
         /\ job'.asked = NoContainer /\ job'.inner = NoContainer
         /\ \/ c = job.outer /\ job.inner = NoContainer /\ job'.outer = NoContainer
            \/ c = job.inner /\ job'.outer = job.outer
<1> USE JobFields DEF Asking, InHelper, InSecond
<1>1. CASE CloseSource
  <2>1. /\ c = job.outer /\ pc = "closing"
        /\ Remove(job.outer) /\ UNCHANGED <<process, disk>>
        /\ job' = [job EXCEPT !.outer = NoContainer, !.source = NoSource]
        BY <1>1 DEF Closes, CloseSource, CloseCapture, CloseServer
  <2>2. job.outer \in Container /\ job.asked = NoContainer /\ job.inner = NoContainer
        BY <2>1 DEF TypeOK
  <2> QED BY <2>1, <2>2 DEF Job
<1>2. CASE CloseCapture
  <2>1. /\ c = job.inner /\ pc = "closing_capture"
        /\ Remove(job.inner) /\ UNCHANGED <<process, disk>>
        /\ job' = [job EXCEPT !.inner = NoContainer]
        BY <1>2 DEF Closes, CloseSource, CloseCapture, CloseServer
  <2>2. job.inner \in Container /\ job.asked = NoContainer
        BY <2>1 DEF TypeOK
  <2> QED BY <2>1, <2>2 DEF Job
<1>3. CASE CloseServer
  <2> DEFINE j == Done(job)
  <2>1. job' = [j EXCEPT !.inner = NoContainer] /\ pc = "closing_server" /\ Remove(job.inner)
        BY <1>3 DEF CloseServer
  <2>2. j \in Job /\ SameHelpers(j, job)
        BY DoneType
  <2>3. c = job.inner
        BY <1>3, <2>1 DEF Closes, CloseSource, CloseCapture, CloseServer
  <2>4. job.inner \in Container /\ job.asked = NoContainer
        BY <2>1 DEF TypeOK
  <2> HIDE DEF j
  <2>5. UNCHANGED <<process, disk>>
        BY <1>3 DEF CloseServer
  <2> QED BY <2>1, <2>2, <2>3, <2>4, <2>5 DEF Job, SameHelpers
<1> QED BY <1>1, <1>2, <1>3 DEF Closes

(* Every step is one of these.                                             *)
LEMMA Kinds ==
  ASSUME Next
  PROVE  \/ Begin \/ Asks \/ Answer \/ NoAnswer \/ Quiet
         \/ \E c : Closes(c)
         \/ Crash \/ Start \/ SweepList \/ Serve
         \/ \E c \in Container : DaemonCreates(c) \/ DaemonDrops(c) \/ SweepRemove(c)
<1>1. CASE Stage
      BY <1>1 DEF Stage, Asks, Quiet, Closes
<1>2. CASE Dump
      BY <1>2 DEF Dump, Asks, Quiet, Closes
<1> QED BY <1>1, <1>2 DEF Next, Quiet

(* What a call without an answer leaves.                                   *)
LEMMA Unanswered ==
  ASSUME TypeOK, NoAnswer
  PROVE  /\ job.asked \in Container /\ job.inner = NoContainer
         /\ orphan' = orphan \union {job.asked}
         /\ UNCHANGED <<process, helper, disk>>
         /\ job' \in Job
         /\ job'.asked = NoContainer /\ job'.outer = job.outer /\ job'.inner = job.inner
         /\ SameStaging(job', job) /\ SameExports(job', job)
<1> USE JobFields DEF SameHelpers, SameStaging, SameExports
<1>1. /\ job.asked \in Container /\ job.inner = NoContainer
      /\ orphan' = orphan \union {job.asked} /\ UNCHANGED <<process, helper, disk>>
      BY DEF NoAnswer, TypeOK, Asking, InSecond
<1>2. PICK j \in Job : /\ job' = [j EXCEPT !.asked = NoContainer]
                       /\ SameHelpers(j, job) /\ SameStaging(j, job) /\ SameExports(j, job)
  <2>1. CASE pc = "asking"
        BY <2>1 DEF NoAnswer
  <2>2. CASE pc = "asking_capture"
        BY <2>2, CaptureFailedType DEF NoAnswer
  <2>3. CASE pc = "asking_server"
    <3>1. job.service \in Service
          BY <2>3 DEF TypeOK, InService
    <3>2. Done(Unproven) \in Job
          BY <3>1, UnprovenType, DoneType
    <3> QED BY <2>3, <3>1, <3>2, UnprovenType, DoneType DEF NoAnswer
  <2> QED BY <2>1, <2>2, <2>3 DEF NoAnswer
<1>3. /\ job' \in Job
      /\ job'.asked = NoContainer /\ job'.outer = job.outer /\ job'.inner = job.inner
      /\ SameStaging(job', job) /\ SameExports(job', job)
      BY <1>2 DEF Job
<1> QED BY <1>1, <1>3

LEMMA SweepsAloneNext ==
  ASSUME TypeOK, SweepsAlone, Next
  PROVE  SweepsAlone'
<1> USE DEF SweepsAlone, process
<1>1. CASE Begin
      BY <1>1 DEF Begin
<1>2. CASE Asks
      BY <1>2, AsksFor
<1>3. CASE Answer \/ NoAnswer
      BY <1>3 DEF Answer, NoAnswer, Asking
<1>4. CASE Quiet
      BY <1>4, Quietly
<1>5. ASSUME NEW c, Closes(c) PROVE SweepsAlone'
      BY <1>5, ClosesOne
<1>6. CASE Crash \/ Start \/ SweepList \/ Serve
      BY <1>6 DEF Crash, Start, SweepList, Serve, run
<1>7. ASSUME NEW c \in Container, DaemonCreates(c) \/ DaemonDrops(c) \/ SweepRemove(c)
      PROVE  SweepsAlone'
      BY <1>7 DEF DaemonCreates, DaemonDrops, SweepRemove, run
<1> QED BY <1>1, <1>2, <1>3, <1>4, <1>5, <1>6, <1>7, Kinds

(* A run that is not under way has no container.                           *)
LEMMA IdleHoldsNothing ==
  ASSUME TypeOK, pc \in {"idle", "done"}
  PROVE  job.asked = NoContainer /\ job.outer = NoContainer /\ job.inner = NoContainer
  BY DEF TypeOK, Asking, InHelper, InSecond

(* The containers of a run through a step: what is asked for is new, what  *)
(* is removed is let go of in the same step, and one that the run holds    *)
(* is neither dropped by the daemon nor met by the sweep.                  *)
LEMMA HelperInvNext ==
  ASSUME TypeOK, HelperInv, Next
  PROVE  HelperInv'
<1> DEFINE H == HelpersApart /\ HeldHelperIsThere /\ NoHelperForgotten
<1> USE JobFields, ContainerAssumption
<1>t. helper \in [Container -> {"gone", "asked", "there"}]
      BY DEF TypeOK
<1>h. H
      BY DEF HelperInv
<1> USE DEF HelpersApart, HeldHelperIsThere, NoHelperForgotten
<1>1. ASSUME Begin PROVE H'
      BY <1>t, <1>h, <1>1, NewJobType, IdleHoldsNothing DEF Begin
<1>2. ASSUME Asks PROVE H'
      BY <1>t, <1>h, <1>2, AsksFor
<1>3. ASSUME Answer PROVE H'
      BY <1>t, <1>h, <1>3 DEF Answer, TypeOK, Job, Asking, InHelper, InSecond
<1>4. ASSUME NoAnswer PROVE H'
      BY <1>t, <1>h, <1>4, Unanswered
<1>5. ASSUME Quiet PROVE H'
      BY <1>t, <1>h, <1>5, Quietly DEF SameHelpers
<1>6. ASSUME NEW c, Closes(c) PROVE H'
  <2>1. /\ c \in Container /\ Remove(c)
        /\ job'.asked = NoContainer /\ job'.inner = NoContainer
        /\ \/ c = job.outer /\ job.inner = NoContainer /\ job'.outer = NoContainer
           \/ c = job.inner /\ job'.outer = job.outer
        BY <1>6, ClosesOne
  <2>2. /\ \A c2 \in Container \ {c} : helper'[c2] = helper[c2]
        /\ helper'[c] # "gone" => c \in orphan'
        /\ orphan \subseteq orphan'
        BY <2>1, Removed
  <2>3. job.asked = NoContainer
        BY <1>6 DEF Closes, CloseSource, CloseCapture, CloseServer, TypeOK, Asking
  <2> QED BY <1>h, <2>1, <2>2, <2>3
<1>7. ASSUME Crash PROVE H'
      BY <1>t, <1>h, <1>7, NewJobType DEF Crash, NoJob
<1>8. ASSUME Start \/ SweepList \/ Serve PROVE H'
      BY <1>h, <1>8 DEF Start, SweepList, Serve, run
<1>9. ASSUME NEW c \in Container, DaemonCreates(c) PROVE H'
      BY <1>t, <1>h, <1>9 DEF DaemonCreates, run
<1>10. ASSUME NEW c \in Container, DaemonDrops(c) PROVE H'
      BY <1>t, <1>h, <1>10 DEF DaemonDrops, run
<1>11. ASSUME NEW c \in Container, SweepRemove(c) PROVE H'
  <2>1. pc = "idle" /\ Remove(c) /\ UNCHANGED run
        BY <1>11 DEF HelperInv, SweepsAlone, SweepRemove
  <2> QED BY <1>t, <1>h, <2>1, Removed, IdleHoldsNothing DEF run
<1>12. H'
      BY <1>1, <1>2, <1>3, <1>4, <1>5, <1>6, <1>7, <1>8, <1>9, <1>10, <1>11, Kinds
<1> QED BY <1>12, SweepsAloneNext DEF HelperInv

-----------------------------------------------------------------------------
(* Staging and the databases in it.                                        *)

(* The exports and the reports leave the staged sources alone.             *)
Late == {"choosing", "comparing", "snapshotting"} \union InService

LEMMA DumpKeeps ==
  ASSUME TypeOK, Dump
  PROVE  /\ SameStaging(job', job) /\ job.warned \subseteq job'.warned
         /\ UNCHANGED <<tree, copy, sidecar>>
         /\ pc' \in Late
         /\ pc \in Late \/ Finished
<1> USE JobFields DEF SameStaging, Late, InService
<1>1. CASE ReadFindings
  <2>1. PICK dumps : job' = [job EXCEPT !.dumps = dumps]
        BY <1>1 DEF ReadFindings
  <2>2. Finished /\ pc' = "choosing" /\ UNCHANGED disk
        BY <1>1 DEF ReadFindings
  <2> QED BY <2>1, <2>2 DEF Job, disk
<1>2. ASSUME NEW v \in Service, CannotExport(v) \/ StartExport(v)
      PROVE  /\ SameStaging(job', job) /\ job.warned \subseteq job'.warned
             /\ UNCHANGED <<tree, copy, sidecar>> /\ pc' \in Late /\ pc \in Late
  <2>1. /\ UNCHANGED <<tree, copy, sidecar>> /\ pc' \in Late /\ pc \in Late
        /\ \/ job' = [job EXCEPT !.dumps = @ \ {v}, !.warned = @ \union {v}]
           \/ job' = [job EXCEPT !.dumps = @ \ {v}, !.service = v]
        BY <1>2 DEF CannotExport, StartExport, disk
  <2>2. job \in Job
        OBVIOUS
  <2>3. SameStaging(job', job) /\ job.warned \subseteq job'.warned
    <3>1. CASE job' = [job EXCEPT !.dumps = @ \ {v}, !.warned = @ \union {v}]
          BY <2>2, <3>1 DEF Job
    <3>2. CASE job' = [job EXCEPT !.dumps = @ \ {v}, !.service = v]
          BY <2>2, <3>2 DEF Job
    <3> QED BY <2>1, <3>1, <3>2
  <2> QED BY <2>1, <2>3
<1>3. CASE Export \/ ExportCut
      BY <1>3 DEF Export, ExportCut, Accept, Job, disk
<1>4. CASE ExportFails
  <2> DEFINE j == Done(job)
  <2>1. job' = [j EXCEPT !.warned = @ \union {job.service}] /\ pc = "exporting" /\ pc' = "choosing"
        BY <1>4 DEF ExportFails
  <2>2. j \in Job /\ SameStaging(j, job) /\ j.warned = job.warned
        BY DoneType
  <2> HIDE DEF j
  <2> QED BY <1>4, <2>1, <2>2 DEF ExportFails, Job
<1>5. CASE SkipCheck
  <2>1. job.service \in Service
        BY <1>5 DEF SkipCheck, TypeOK
  <2> QED BY <1>5, <2>1, UnprovenType, DoneType DEF SkipCheck, disk
<1>6. CASE AskServer
  <2>1. Ask(job, "asking_server") /\ pc = "checking" /\ "asking_server" \in Step
        BY <1>6 DEF AskServer, Step
  <2> QED BY <2>1, Asked DEF disk
<1>7. CASE CannotCheck \/ LoadRefuted \/ Load \/ LoadInPart
  <2>1. job.service \in Service
        BY <1>7 DEF CannotCheck, LoadRefuted, Load, LoadInPart, TypeOK
  <2>2. /\ job' \in {Unproven, Refuted, [job EXCEPT !.check[job.service] = "loaded"]}
        /\ pc = "loading" /\ pc' = "closing_server" /\ UNCHANGED disk
        BY <1>7 DEF CannotCheck, LoadRefuted, Load, LoadInPart, CloseWith
  <2>3. CASE job' \in {Unproven, Refuted}
        BY <2>1, <2>2, <2>3, UnprovenType, RefutedType DEF disk
  <2>4. CASE job' = [job EXCEPT !.check[job.service] = "loaded"]
        BY <2>2, <2>4 DEF disk, Job
  <2> QED BY <2>2, <2>3, <2>4
<1>8. CASE CloseServer
  <2> DEFINE j == Done(job)
  <2>1. job' = [j EXCEPT !.inner = NoContainer] /\ pc = "closing_server" /\ pc' = "choosing"
        BY <1>8 DEF CloseServer
  <2>2. j \in Job /\ SameStaging(j, job) /\ j.warned = job.warned
        BY DoneType
  <2> HIDE DEF j
  <2> QED BY <1>8, <2>1, <2>2 DEF CloseServer, Job, disk
<1> QED BY <1>1, <1>2, <1>3, <1>4, <1>5, <1>6, <1>7, <1>8 DEF Dump, ReadFindings

LEMMA ReportKeeps ==
  ASSUME TypeOK, Describe \/ Compare \/ Snapshot
  PROVE  /\ SameStaging(job', job) /\ job.warned \subseteq job'.warned
         /\ UNCHANGED <<tree, copy, sidecar, dump>>
         /\ pc \in Late
         /\ pc' \in {"comparing", "snapshotting", "cleaning"}
<1> USE JobFields DEF SameStaging, Late, InService, disk
<1>1. CASE Describe
      BY <1>1 DEF Describe, Job
<1>2. CASE Compare
      BY <1>2 DEF Compare, Job
<1>3. CASE Snapshot
      BY <1>3 DEF Snapshot
<1> QED BY <1>1, <1>2, <1>3

(* Once the sources are staged nothing more becomes of them in the run.    *)
LEMMA CapturesStay ==
  ASSUME TypeOK, CaptureInv,
         SameStaging(job', job), job.warned \subseteq job'.warned,
         UNCHANGED <<copy, sidecar>>,
         pc' \in Late \union {"cleaning"},
         pc \in Late \/ Finished
  PROVE  CaptureInv'
<1> USE JobFields DEF CaptureInv, SameStaging, Late, InService, Finished
<1>1. StagesOnce'
      BY DEF StagesOnce, InStaging, InHelper
<1>2. GoesOn'
      BY DEF GoesOn
<1>3. CapturesWhole'
      BY DEF CapturesWhole
<1>4. CapturesOrWarns'
      BY DEF CapturesOrWarns, Over, InStaging, InHelper
<1> QED BY <1>1, <1>2, <1>3, <1>4

LEMMA CaptureInvByStaging ==
  ASSUME TypeOK, CaptureInv, Stage
  PROVE  CaptureInv'
<1> USE JobFields, SourceAssumption
<1> USE DEF CaptureInv, SameStaging, InStaging, InHelper
<1> DEFINE C == StagesOnce /\ GoesOn /\ CapturesWhole /\ CapturesOrWarns
<1> USE DEF StagesOnce, GoesOn, CapturesWhole, CapturesOrWarns, Over, InService
<1>c. C
      OBVIOUS
<1>1. ASSUME Begin PROVE C'
  <2>1. /\ pc' \in {"picking", "done"} /\ job'.captured = {}
        /\ ~job'.failed /\ job'.todo = Source
        BY <1>1, NewJobType DEF Begin
  <2>2. \A d \in Sqlite : SourceOf[d] \in Source
        OBVIOUS
  <2> QED BY <2>1, <2>2
<1>2. ASSUME NEW s \in Source, StageSource(s) PROVE C'
  <2> DEFINE j == [job EXCEPT !.todo = @ \ {s}, !.source = s]
  <2>1. /\ j \in Job /\ j.todo = job.todo \ {s} /\ j.source = s /\ j.failed = job.failed
        /\ j.captured = job.captured /\ j.warned = job.warned
        BY DEF Job
  <2>2. Ask(j, "asking") /\ pc = "picking" /\ s \in job.todo /\ "asking" \in Step
        BY <1>2 DEF StageSource, Step
  <2> HIDE DEF j
  <2>3. /\ job'.todo = job.todo \ {s} /\ job'.source = s /\ job'.failed = job.failed
        /\ job'.captured = job.captured /\ job'.warned = job.warned
        /\ UNCHANGED <<copy, sidecar>> /\ pc' = "asking"
        BY <2>1, <2>2, Asked DEF disk
  <2> QED BY <1>c, <2>2, <2>3
<1>3. ASSUME Answer PROVE C'
  <2>1. /\ SameStaging(job', job) /\ job'.warned = job.warned /\ UNCHANGED <<copy, sidecar>>
        /\ \/ pc = "asking" /\ pc' = "copying"
           \/ pc = "asking_capture" /\ pc' = "capturing"
           \/ pc = "asking_server" /\ pc' = "loading"
        BY <1>3 DEF Answer, Job, disk
  <2> QED BY <1>c, <2>1
<1>4. ASSUME NoAnswer PROVE C'
  <2>1. SameStaging(job', job) /\ UNCHANGED <<copy, sidecar>>
        BY <1>4, Unanswered DEF disk
  <2>2. CASE pc = "asking"
    <3>1. job'.warned = job.warned /\ pc' = "cleaning"
          BY <1>4, <2>2 DEF NoAnswer, Job
    <3> QED BY <1>c, <2>1, <2>2, <3>1
  <2>3. CASE pc = "asking_capture"
    <3>1. job' = [CaptureFailed EXCEPT !.asked = NoContainer] /\ pc' = "closing"
          BY <1>4, <2>3 DEF NoAnswer
    <3>2. job'.warned = job.warned \union InSource(job.source)
          BY <3>1, CaptureFailedType DEF Job
    <3>3. \A d \in Sqlite : SourceOf[d] = job.source => d \in InSource(job.source)
          BY DEF InSource
    <3> QED BY <1>c, <2>1, <2>3, <3>1, <3>2, <3>3
  <2>4. CASE pc = "asking_server"
    <3> DEFINE j == Done(Unproven)
    <3>1. job' = [j EXCEPT !.asked = NoContainer] /\ pc' = "choosing"
          BY <1>4, <2>4 DEF NoAnswer
    <3>2. job.service \in Service
          BY <2>4 DEF TypeOK
    <3>3. j \in Job /\ job.warned \subseteq j.warned
          BY <3>2, UnprovenType, DoneType
    <3> HIDE DEF j
    <3>4. job.warned \subseteq job'.warned
          BY <3>1, <3>3 DEF Job
    <3> QED BY <2>1, <2>4, <3>1, <3>4, CapturesStay DEF Late
  <2> QED BY <1>4, <2>2, <2>3, <2>4 DEF NoAnswer
<1>5. ASSUME Extract PROVE C'
  <2>1. /\ UNCHANGED job /\ pc = "copying" /\ pc' = "scanning"
        /\ \A d \in Sqlite : SourceOf[d] # job.source => copy'[d] = copy[d]
        /\ \A d \in sidecar' : d \in sidecar \/ SourceOf[d] = job.source
        BY <1>5 DEF Extract, InSource
  <2> QED BY <1>c, <2>1
<1>6. ASSUME ExtractFails \/ StageFails PROVE C'
  <2>1. /\ job'.todo = job.todo /\ job'.source = job.source /\ job'.failed
        /\ job'.captured = job.captured /\ job'.warned = job.warned
        /\ UNCHANGED <<copy, sidecar>>
        /\ pc \in {"copying", "scanning", "closing"} /\ pc' = "closing"
        BY <1>6 DEF ExtractFails, StageFails, Job, disk
  <2> QED BY <1>c, <2>1
<1>7. ASSUME CloseSource PROVE C'
  <2>1. /\ job'.todo = job.todo /\ job'.failed = job.failed
        /\ job'.captured = job.captured /\ job'.warned = job.warned
        /\ UNCHANGED <<copy, sidecar>>
        /\ pc = "closing" /\ pc' = IF job.failed THEN "cleaning" ELSE "picking"
        BY <1>7 DEF CloseSource, Job, disk
  <2> QED BY <1>c, <2>1
<1>8. ASSUME NothingToCapture PROVE C'
  <2>1. /\ UNCHANGED <<job, copy, sidecar>> /\ pc = "scanning" /\ pc' = "closing"
        /\ \A d \in Sqlite : SourceOf[d] # job.source
        BY <1>8 DEF NothingToCapture, InSource, disk
  <2> QED BY <1>c, <2>1
<1>9. ASSUME AskCapture PROVE C'
  <2>1. Ask(job, "asking_capture") /\ pc = "scanning" /\ "asking_capture" \in Step
        BY <1>9 DEF AskCapture, Step
  <2>2. /\ SameStaging(job', job) /\ job'.warned = job.warned
        /\ UNCHANGED <<copy, sidecar>> /\ pc' = "asking_capture"
        BY <2>1, Asked DEF disk
  <2> QED BY <1>c, <2>1, <2>2
<1>10. ASSUME RunCapture PROVE C'
  <2>1. PICK output : job' = [job EXCEPT !.output = output]
        BY <1>10 DEF RunCapture
  <2>2. /\ SameStaging(job', job) /\ job'.warned = job.warned
        BY <2>1 DEF Job
  <2>3. UNCHANGED <<copy, sidecar>> /\ pc = "capturing" /\ pc' = "closing_capture"
        BY <1>10 DEF RunCapture, disk
  <2> QED BY <1>c, <2>2, <2>3
<1>11. ASSUME RunCaptureFails PROVE C'
  <2>1. /\ SameStaging(job', job) /\ job.warned \subseteq job'.warned
        /\ UNCHANGED <<copy, sidecar>> /\ pc = "capturing" /\ pc' = "closing_capture"
        BY <1>11, CaptureFailedType DEF RunCaptureFails, disk
  <2> QED BY <1>c, <2>1
<1>12. ASSUME CloseCapture PROVE C'
  <2>1. /\ SameStaging(job', job) /\ job'.warned = job.warned
        /\ UNCHANGED <<copy, sidecar>> /\ pc = "closing_capture" /\ pc' = "replacing"
        BY <1>12 DEF CloseCapture, Job, disk
  <2> QED BY <1>c, <2>1
<1>13. ASSUME NEW d \in Sqlite, Replace(d) PROVE C'
  <2>1. /\ pc = "replacing" /\ UNCHANGED pc /\ SourceOf[d] = job.source
        /\ \A d2 \in Sqlite \ {d} : copy'[d2] = copy[d2]
        /\ d \notin Killable => copy'[d] = "whole"
        /\ sidecar' \subseteq sidecar
        BY <1>13 DEF Replace, Pending, InSource, TypeOK
  <2>2. /\ job'.todo = job.todo /\ job'.source = job.source /\ job'.failed = job.failed
        /\ job'.captured = job.captured \union {d} /\ job.warned \subseteq job'.warned
        /\ d \in sidecar' => d \in job'.warned
        BY <1>13, ReplaceType
  <2> QED BY <1>c, <2>1, <2>2
<1>14. ASSUME NEW d \in Sqlite, ReplaceFails(d) PROVE C'
  <2>1. /\ SameStaging(job', job) /\ job.warned \subseteq job'.warned
        /\ pc = "replacing" /\ UNCHANGED <<pc, sidecar>> /\ d \notin job.captured
        BY <1>14 DEF ReplaceFails, Pending, Job
  <2>2. \A d2 \in Sqlite \ {d} : copy'[d2] = copy[d2]
        BY <1>14 DEF ReplaceFails, TypeOK
  <2> QED BY <1>c, <2>1, <2>2
<1>15. ASSUME Replaced PROVE C'
  <2>1. /\ SameStaging(job', job) /\ job'.warned = job.warned
        /\ UNCHANGED <<copy, sidecar>> /\ pc = "replacing" /\ pc' = "closing"
        BY <1>15 DEF Replaced, Job, disk
  <2>2. \A d \in Sqlite : SourceOf[d] = job.source => d \in job.captured \union job.warned
        BY <1>15 DEF Replaced, Pending, InSource
  <2> QED BY <1>c, <2>1, <2>2
<1> QED BY <1>1, <1>2, <1>3, <1>4, <1>5, <1>6, <1>7, <1>8, <1>9, <1>10, <1>11, <1>12,
           <1>13, <1>14, <1>15 DEF Stage

LEMMA CaptureInvNext ==
  ASSUME TypeOK, CaptureInv, Next
  PROVE  CaptureInv'
<1> USE JobFields DEF CaptureInv
<1>1. CASE Dump
      BY <1>1, DumpKeeps, CapturesStay
<1>2. CASE Describe \/ Compare \/ Snapshot
      BY <1>2, ReportKeeps, CapturesStay DEF Late
<1> USE DEF StagesOnce, GoesOn, CapturesWhole, CapturesOrWarns, Over, InStaging, InHelper, InService
<1>3. CASE Clean
  <2>1. sidecar' \subseteq sidecar
        BY <1>3, Emptied DEF Clean, TypeOK
  <2> QED BY <1>3, <2>1 DEF Clean
<1>4. CASE Crash
      BY <1>4, NewJobType DEF Crash, NoJob, disk
<1>5. ASSUME UNCHANGED <<run, disk>> PROVE CaptureInv'
      BY <1>5 DEF run, disk
<1> HIDE DEF StagesOnce, GoesOn, CapturesWhole, CapturesOrWarns
<1> QED BY <1>1, <1>2, <1>3, <1>4, <1>5, CaptureInvByStaging
        DEF Next, Start, SweepList, Serve, DaemonCreates, DaemonDrops, SweepRemove

-----------------------------------------------------------------------------
(* Exports, and what is said of them.                                      *)

(* The staging of sources has no part in the exports.                      *)
LEMMA StagingKeeps ==
  ASSUME TypeOK, Stage, ~Begin
  PROVE  /\ SameExports(job', job) /\ UNCHANGED dump
         /\ job.captured \subseteq job'.captured
         /\ job'.service \in {job.service, NoService}
         /\ pc \notin {"idle", "done"}
         /\ pc' \notin {"exporting", "comparing", "snapshotting", "done"}
         /\ pc' \in {"picking"} \union InStaging => pc \in {"picking"} \union InStaging
<1> USE JobFields DEF SameExports, InStaging, InHelper, disk
<1> DEFINE K == /\ SameExports(job', job) /\ UNCHANGED dump
                /\ job.captured \subseteq job'.captured
                /\ job'.service \in {job.service, NoService}
                /\ pc \notin {"idle", "done"}
                /\ pc' \notin {"exporting", "comparing", "snapshotting", "done"}
                /\ pc' \in {"picking"} \union InStaging => pc \in {"picking"} \union InStaging
<1>1. ASSUME NEW s \in Source, StageSource(s) PROVE K
  <2> DEFINE j == [job EXCEPT !.todo = @ \ {s}, !.source = s]
  <2>1. /\ j \in Job /\ SameExports(j, job) /\ j.captured = job.captured
        /\ j.service = job.service
        BY DEF Job
  <2>2. Ask(j, "asking") /\ pc = "picking" /\ "asking" \in Step
        BY <1>1 DEF StageSource, Step
  <2> HIDE DEF j
  <2> QED BY <2>1, <2>2, Asked DEF SameStaging
<1>2. ASSUME Answer PROVE K
  <2>1. /\ UNCHANGED dump
        /\ \/ pc = "asking" /\ pc' = "copying"
           \/ pc = "asking_capture" /\ pc' = "capturing"
           \/ pc = "asking_server" /\ pc' = "loading"
        BY <1>2 DEF Answer
  <2>2. /\ SameExports(job', job) /\ job'.captured = job.captured
        /\ job'.service = job.service
        BY <1>2 DEF Answer, Job
  <2> QED BY <2>1, <2>2
<1>3. ASSUME NoAnswer PROVE K
  <2>1. SameExports(job', job) /\ job'.captured = job.captured /\ UNCHANGED dump
        BY <1>3, Unanswered DEF SameStaging
  <2>2. \/ pc = "asking" /\ pc' = "cleaning"
        \/ pc = "asking_capture" /\ pc' = "closing"
        \/ pc = "asking_server" /\ pc' = "choosing"
        BY <1>3 DEF NoAnswer
  <2>3. job'.service \in {job.service, NoService}
    <3>1. CASE pc = "asking"
          BY <1>3, <3>1 DEF NoAnswer, Job
    <3>2. CASE pc = "asking_capture"
      <4>1. job' = [CaptureFailed EXCEPT !.asked = NoContainer]
            BY <1>3, <3>2 DEF NoAnswer
      <4> QED BY <4>1, CaptureFailedType DEF Job
    <3>3. CASE pc = "asking_server"
      <4> DEFINE j == Done(Unproven)
      <4>1. job' = [j EXCEPT !.asked = NoContainer] /\ job.service \in Service
            BY <1>3, <3>3 DEF NoAnswer, TypeOK, InService
      <4>2. j \in Job /\ j.service = NoService
            BY <4>1, UnprovenType, DoneType
      <4> HIDE DEF j
      <4> QED BY <4>1, <4>2 DEF Job
    <3> QED BY <2>2, <3>1, <3>2, <3>3
  <2> QED BY <2>1, <2>2, <2>3
<1>4. ASSUME Extract \/ NothingToCapture PROVE K
      BY <1>4 DEF Extract, NothingToCapture
<1>5. ASSUME ExtractFails \/ StageFails PROVE K
      BY <1>5 DEF ExtractFails, StageFails, Job
<1>6. ASSUME CloseSource PROVE K
      BY <1>6 DEF CloseSource, Job
<1>7. ASSUME AskCapture PROVE K
  <2>1. Ask(job, "asking_capture") /\ pc = "scanning" /\ "asking_capture" \in Step
        BY <1>7 DEF AskCapture, Step
  <2> QED BY <2>1, Asked DEF SameStaging
<1>8. ASSUME RunCapture \/ Replaced PROVE K
  <2>1. PICK output : job' = [job EXCEPT !.output = output]
        BY <1>8 DEF RunCapture, Replaced
  <2> QED BY <1>8, <2>1 DEF RunCapture, Replaced, Job
<1>9. ASSUME RunCaptureFails PROVE K
      BY <1>9, CaptureFailedType DEF RunCaptureFails, SameStaging
<1>10. ASSUME CloseCapture PROVE K
      BY <1>10 DEF CloseCapture, Job
<1>11. ASSUME NEW d \in Sqlite, Replace(d) PROVE K
      BY <1>11, ReplaceType DEF Replace
<1>12. ASSUME NEW d \in Sqlite, ReplaceFails(d) PROVE K
  <2>1. /\ job' = [job EXCEPT !.warned = @ \union {d}]
        /\ pc = "replacing" /\ UNCHANGED <<pc, dump>>
        BY <1>12 DEF ReplaceFails
  <2> QED BY <2>1 DEF Job
<1> QED BY <1>1, <1>2, <1>3, <1>4, <1>5, <1>6, <1>7, <1>8, <1>9, <1>10, <1>11, <1>12
        DEF Stage

LEMMA ExportInvByStaging ==
  ASSUME TypeOK, ExportInv, Stage
  PROVE  ExportInv'
<1> USE JobFields, ServiceAssumption
<1> USE DEF ExportInv, ExportsOnce, ExportsWhole, Describes, Compares
<1>1. CASE Begin
  <2>1. /\ job'.dumps = {} /\ job'.exported = {} /\ pc' \in {"picking", "done"}
        /\ job'.manifest = [x \in Sqlite \union Service |-> "absent"]
        BY <1>1, NewJobType DEF Begin
  <2> QED BY <2>1
<1>2. CASE ~Begin
      BY <1>2, StagingKeeps DEF SameExports
<1> QED BY <1>1, <1>2

(* The check of an export has no part in it either.                        *)
Checks == SkipCheck \/ AskServer \/ CannotCheck \/ LoadRefuted \/ Load \/ LoadInPart \/ CloseServer

LEMMA CheckKeeps ==
  ASSUME TypeOK, Checks
  PROVE  /\ SameExports(job', job) /\ UNCHANGED dump
         /\ job'.captured = job.captured
         /\ job'.service \in {job.service, NoService}
         /\ pc \in InService
         /\ pc' \in {"choosing", "asking_server", "closing_server"}
<1> USE JobFields DEF InService, disk
<1>1. ASSUME SkipCheck \/ CannotCheck \/ LoadRefuted \/ Load \/ LoadInPart
      PROVE  job.service \in Service
      BY <1>1 DEF SkipCheck, CannotCheck, LoadRefuted, Load, LoadInPart, TypeOK
<1> USE DEF SameStaging
<1>2. CASE SkipCheck
  <2>1. /\ Unproven \in Job /\ SameStaging(Unproven, job) /\ SameExports(Unproven, job)
        /\ Unproven.service = job.service
        BY <1>1, <1>2, UnprovenType
  <2>2. /\ Done(Unproven).service = NoService /\ Done(Unproven).captured = job.captured
        /\ SameExports(Done(Unproven), job)
        BY <2>1, DoneType DEF SameExports
  <2> QED BY <1>2, <2>2, DoneType DEF SkipCheck
<1>3. CASE AskServer
  <2>1. Ask(job, "asking_server") /\ pc = "checking" /\ "asking_server" \in Step
        BY <1>3 DEF AskServer, Step
  <2> QED BY <2>1, Asked
<1>4. CASE CannotCheck
      BY <1>1, <1>4, UnprovenType DEF CannotCheck, CloseWith
<1>5. CASE LoadRefuted
      BY <1>1, <1>5, RefutedType DEF LoadRefuted, CloseWith
<1>6. CASE Load \/ LoadInPart
  <2>1. /\ job' = [job EXCEPT !.check[job.service] = "loaded"]
        /\ pc = "loading" /\ pc' = "closing_server" /\ UNCHANGED disk
        BY <1>6 DEF Load, LoadInPart, CloseWith
  <2> QED BY <2>1 DEF Job, SameExports
<1>7. CASE CloseServer
  <2> DEFINE j == Done(job)
  <2>1. /\ job' = [j EXCEPT !.inner = NoContainer]
        /\ pc = "closing_server" /\ pc' = "choosing" /\ UNCHANGED disk
        BY <1>7 DEF CloseServer
  <2>2. j \in Job /\ SameStaging(j, job) /\ SameExports(j, job) /\ j.service = NoService
        BY DoneType
  <2> HIDE DEF j
  <2> QED BY <2>1, <2>2 DEF Job, SameExports
<1> QED BY <1>2, <1>3, <1>4, <1>5, <1>6, <1>7 DEF Checks

LEMMA ExportInvByDump ==
  ASSUME TypeOK, ExportInv, Dump
  PROVE  ExportInv'
<1> USE JobFields, ServiceAssumption DEF ExportInv, InStaging, InHelper
<1> DEFINE X == ExportsOnce /\ ExportsWhole /\ Describes /\ Compares
<1> USE DEF ExportsOnce, ExportsWhole, Describes, Compares
<1>d. dump \in [Service -> {"none", "part", "whole"}]
      BY DEF TypeOK
<1>x. X
      OBVIOUS
<1>1. ASSUME ReadFindings PROVE X'
  <2>1. PICK found \in Blueprint :
          job' = [job EXCEPT !.dumps = {v \in Exportable : found[v] = "likely"}]
        BY <1>1 DEF ReadFindings
  <2>2. /\ job.exported = {} /\ UNCHANGED dump /\ pc = "picking" /\ pc' = "choosing"
        /\ job.service = NoService
        BY <1>1 DEF ReadFindings, Finished, disk, TypeOK, InService
  <2>3. /\ job'.dumps = {v \in Exportable : found[v] = "likely"}
        /\ job'.exported = job.exported /\ job'.manifest = job.manifest
        /\ job'.seen = job.seen /\ job'.captured = job.captured /\ job'.service = job.service
        BY <2>1 DEF Job
  <2> QED BY <1>x, <2>2, <2>3
<1>2. ASSUME NEW v \in Service, CannotExport(v) PROVE X'
  <2>1. /\ job' = [job EXCEPT !.dumps = @ \ {v}, !.warned = @ \union {v}]
        /\ pc = "choosing" /\ UNCHANGED <<pc, dump>>
        BY <1>2 DEF CannotExport, disk
  <2>2. /\ job'.dumps = job.dumps \ {v}
        /\ job'.exported = job.exported /\ job'.manifest = job.manifest
        /\ job'.captured = job.captured /\ job'.service = job.service
        BY <2>1 DEF Job
  <2> QED BY <1>x, <2>1, <2>2
<1>3. ASSUME NEW v \in Service, StartExport(v) PROVE X'
  <2>1. /\ job' = [job EXCEPT !.dumps = @ \ {v}, !.service = v] /\ v \in job.dumps
        /\ pc = "choosing" /\ pc' = "exporting"
        /\ \A w \in Service \ SameFile(v) : dump'[w] = dump[w]
        BY <1>3 DEF StartExport, SameFile
  <2>2. /\ job'.dumps = job.dumps \ {v} /\ job'.service = v
        /\ job'.exported = job.exported /\ job'.manifest = job.manifest
        /\ job'.captured = job.captured
        BY <2>1 DEF Job
  <2>3. ASSUME NEW w \in job.exported, Alone(w) PROVE w \in Service \ SameFile(v)
        BY <1>x, <2>1, <2>3 DEF Alone, SameFile
  <2> QED BY <1>x, <2>1, <2>2, <2>3
<1>4. ASSUME Export \/ ExportCut PROVE X'
  <2>1. /\ job' = [job EXCEPT !.exported = @ \union {job.service}]
        /\ pc = "exporting" /\ pc' = "checking"
        /\ \/ dump' = [dump EXCEPT ![job.service] = "whole"]
           \/ UNCHANGED dump /\ job.service \in Cut
        BY <1>4 DEF Export, ExportCut, Accept, disk
  <2>2. /\ job'.dumps = job.dumps /\ job'.service = job.service
        /\ job'.exported = job.exported \union {job.service} /\ job'.manifest = job.manifest
        /\ job'.captured = job.captured
        BY <2>1 DEF Job
  <2>3. job.service \in Service
        BY <2>1 DEF TypeOK, InService
  <2> QED BY <1>d, <1>x, <2>1, <2>2, <2>3
<1>5. ASSUME ExportFails PROVE X'
  <2> DEFINE j == Done(job)
  <2>1. /\ job' = [j EXCEPT !.warned = @ \union {job.service}]
        /\ pc = "exporting" /\ pc' = "choosing"
        BY <1>5 DEF ExportFails
  <2>2. \A v \in Service \ {job.service} : dump'[v] = dump[v]
        BY <1>d, <1>5 DEF ExportFails
  <2>3. /\ j \in Job /\ SameStaging(j, job) /\ SameExports(j, job)
        /\ j.service = NoService
        BY DoneType
  <2> HIDE DEF j
  <2>4. /\ SameExports(job', job) /\ job'.captured = job.captured /\ job'.service = NoService
        BY <2>1, <2>3 DEF Job, SameExports, SameStaging
  <2> QED BY <1>x, <2>1, <2>2, <2>4 DEF SameExports
<1>6. ASSUME Checks PROVE X'
      BY <1>x, <1>6, CheckKeeps DEF SameExports, InService
<1> QED BY <1>1, <1>2, <1>3, <1>4, <1>5, <1>6 DEF Dump, Checks

LEMMA ExportInvByReport ==
  ASSUME TypeOK, ExportInv, Describe \/ Compare \/ Snapshot \/ Clean
  PROVE  ExportInv'
<1> USE JobFields, ServiceAssumption DEF ExportInv, InStaging, InHelper
<1> DEFINE X == ExportsOnce /\ ExportsWhole /\ Describes /\ Compares
<1> USE DEF ExportsOnce, ExportsWhole, Describes, Compares
<1>x. X
      OBVIOUS
<1>1. ASSUME Describe PROVE X'
  <2>1. PICK found \in Blueprint :
          job' = [job EXCEPT !.manifest =
                    [x \in Sqlite \union Service |->
                       CASE x \in job.exported -> "exported"
                         [] x \in job.captured -> "consistent"
                         [] x \in Service \ job.exported /\ found[x] = "likely" -> "files_only"
                         [] OTHER -> "absent"]]
        BY <1>1 DEF Describe
  <2> DEFINE manifest == [x \in Sqlite \union Service |->
                            CASE x \in job.exported -> "exported"
                              [] x \in job.captured -> "consistent"
                              [] x \in Service \ job.exported /\ found[x] = "likely" -> "files_only"
                              [] OTHER -> "absent"]
  <2>2. \A v \in Service : manifest[v] = "exported" <=> v \in job.exported
        OBVIOUS
  <2>3. \A d \in Sqlite : manifest[d] = "consistent" => d \in job.captured
        OBVIOUS
  <2>4. job' = [job EXCEPT !.manifest = manifest]
        BY <2>1
  <2> HIDE DEF manifest
  <2>5. /\ job'.manifest = manifest /\ job'.dumps = job.dumps
        /\ job'.service = job.service /\ job'.exported = job.exported
        /\ job'.captured = job.captured
        BY <2>4 DEF Job
  <2>6. UNCHANGED dump /\ pc' = "comparing" /\ pc # "done"
        BY <1>1 DEF Describe, disk
  <2> QED BY <1>x, <2>2, <2>3, <2>5, <2>6
<1>2. ASSUME Compare PROVE X'
  <2>1. PICK found \in Blueprint :
          job' = [job EXCEPT !.seen = found,
                    !.warned = @ \union {v \in Service \ job.exported :
                                           found[v] \in {"possible", "likely"}}]
        BY <1>2 DEF Compare
  <2>2. /\ job'.seen = found /\ job'.manifest = job.manifest /\ job'.dumps = job.dumps
        /\ job'.service = job.service /\ job'.exported = job.exported
        /\ job'.captured = job.captured
        /\ job'.warned = job.warned \union {v \in Service \ job.exported :
                                              found[v] \in {"possible", "likely"}}
        BY <2>1 DEF Job
  <2>3. found # Unreadable => \A v \in Service : found[v] \in {"absent", "possible", "likely"}
        BY DEF Blueprint, Finding
  <2>4. UNCHANGED dump /\ pc = "comparing" /\ pc' = "snapshotting"
        BY <1>2 DEF Compare, disk
  <2>5. ExportsOnce' /\ ExportsWhole' /\ Describes'
        BY <1>x, <2>2, <2>4
  <2>6. Compares'
        BY <2>2, <2>3 DEF Unreadable
  <2> QED BY <2>5, <2>6
<1>3. ASSUME Snapshot PROVE X'
      BY <1>x, <1>3 DEF Snapshot, disk
<1>4. ASSUME Clean PROVE X'
      BY <1>x, <1>4 DEF Clean
<1> QED BY <1>1, <1>2, <1>3, <1>4

LEMMA ExportInvNext ==
  ASSUME TypeOK, ExportInv, Next
  PROVE  ExportInv'
<1>1. CASE Crash
  <2>1. /\ job'.dumps = {} /\ job'.exported = {} /\ pc' = "idle"
        /\ job'.manifest = [x \in Sqlite \union Service |-> "absent"]
        BY <1>1, NewJobType DEF Crash, NoJob
  <2> QED BY <2>1 DEF ExportInv, ExportsOnce, ExportsWhole, Describes, Compares
<1>2. ASSUME UNCHANGED <<run, disk>> PROVE ExportInv'
      BY <1>2 DEF run, disk, ExportInv, ExportsOnce, ExportsWhole, Describes, Compares
<1> QED BY <1>1, <1>2, ExportInvByStaging, ExportInvByDump, ExportInvByReport
        DEF Next, Start, SweepList, Serve, DaemonCreates, DaemonDrops, SweepRemove

-----------------------------------------------------------------------------
(* The end of a run.                                                       *)

LEMMA FinishedNext ==
  ASSUME TypeOK, FinishedRunLeavesNothing, Next
  PROVE  FinishedRunLeavesNothing'
<1> USE DEF FinishedRunLeavesNothing
<1>1. CASE Begin \/ Clean
  <2>1. EmptyDirectory
        BY <1>1 DEF Begin, Clean
  <2> QED BY <2>1, Emptied DEF TypeOK
<1>2. CASE Stage /\ ~Begin
      BY <1>2, StagingKeeps
<1>3. CASE Dump
      BY <1>3, DumpKeeps DEF Late, InService
<1>4. CASE Describe \/ Compare \/ Snapshot
      BY <1>4, ReportKeeps
<1>5. CASE Crash
      BY <1>5 DEF Crash
<1>6. ASSUME UNCHANGED <<run, disk>> PROVE FinishedRunLeavesNothing'
      BY <1>6 DEF run, disk
<1> QED BY <1>1, <1>2, <1>3, <1>4, <1>5, <1>6
        DEF Next, Start, SweepList, Serve, DaemonCreates, DaemonDrops, SweepRemove

-----------------------------------------------------------------------------
(* The theorems.                                                           *)

LEMMA InvInit == Init => Inv
<1> SUFFICES ASSUME Init PROVE Inv
    OBVIOUS
<1> USE DEF Init, NoJob
<1>1. TypeOK
      BY NewJobType, SourceAssumption
      DEF TypeOK, Step, Asking, InHelper, InSecond, InService, InStaging
<1>2. HelperInv
      BY NewJobType
      DEF HelperInv, SweepsAlone, HelpersApart, HeldHelperIsThere, NoHelperForgotten
<1>3. CaptureInv
      BY NewJobType
      DEF CaptureInv, StagesOnce, GoesOn, CapturesWhole, CapturesOrWarns, InStaging, InHelper,
          InService
<1>4. ExportInv
      BY NewJobType DEF ExportInv, ExportsOnce, ExportsWhole, Describes, Compares
<1>5. FinishedRunLeavesNothing
      BY DEF FinishedRunLeavesNothing
<1> QED BY <1>1, <1>2, <1>3, <1>4, <1>5 DEF Inv

LEMMA InvNext == Inv /\ [Next]_vars => Inv'
<1> SUFFICES ASSUME Inv, [Next]_vars PROVE Inv'
    OBVIOUS
<1>1. CASE Next
      BY <1>1, TypeNext, HelperInvNext, CaptureInvNext, ExportInvNext, FinishedNext DEF Inv
<1>2. CASE UNCHANGED vars
  <2> USE <1>2 DEF vars, process, run, disk
  <2>1. TypeOK'
        BY DEF Inv, TypeOK
  <2>2. HelperInv'
        BY DEF Inv, HelperInv, SweepsAlone, HelpersApart, HeldHelperIsThere, NoHelperForgotten
  <2>3. CaptureInv'
        BY DEF Inv, CaptureInv, StagesOnce, GoesOn, CapturesWhole, CapturesOrWarns, Over
  <2>4. ExportInv'
        BY DEF Inv, ExportInv, ExportsOnce, ExportsWhole, Describes, Compares
  <2>5. FinishedRunLeavesNothing'
        BY DEF Inv, FinishedRunLeavesNothing
  <2> QED BY <2>1, <2>2, <2>3, <2>4, <2>5 DEF Inv
<1> QED BY <1>1, <1>2

(* The inductive invariant holds in every state of every run of the        *)
(* project, whatever the helper containers, the daemon and crashes do.     *)
THEOREM Invariance == Spec => []Inv
BY InvInit, InvNext, PTL DEF Spec

(* The goroutine's variables, the staging directory and the containers     *)
(* keep their types, and a container is named exactly where a call or a    *)
(* deferred removal is pending.                                            *)
THEOREM TypeCorrect == Spec => []TypeOK
<1>1. Inv => TypeOK
      BY DEF Inv
<1> QED BY <1>1, Invariance, PTL

(* No container is removed under the stage or the check that works in it:  *)
(* not by the sweep of a starting process, nor by another removal.         *)
THEOREM HelpersStay == Spec => []HeldHelperIsThere
<1>1. Inv => HeldHelperIsThere
      BY DEF Inv, HelperInv
<1> QED BY <1>1, Invariance, PTL

(* Every way out of a stage and of a check removes its container: one that *)
(* exists is in use, or lost its creator to a crash or its name with an    *)
(* answer, or could not be removed.                                        *)
THEOREM HelpersRemembered == Spec => []NoHelperForgotten
<1>1. Inv => NoHelperForgotten
      BY DEF Inv, HelperInv
<1> QED BY <1>1, Invariance, PTL

(* What the manifest of a snapshot calls exported or consistent is whole,  *)
(* where a cut stream shows, a service has a file of its own and sqlite3   *)
(* leaves all or nothing; a log that stayed beside it is warned of.        *)
THEOREM ManifestTrue == Spec => []ExportIsWhole
<1>1. Inv => ExportIsWhole
  <2> SUFFICES ASSUME Inv, Captured
               PROVE  /\ \A v \in Service \ Cut :
                           job.manifest[v] = "exported" /\ Alone(v) => dump[v] = "whole"
                      /\ \A d \in Sqlite \ Killable :
                           job.manifest[d] = "consistent" => copy[d] = "whole"
                      /\ \A d \in sidecar : job.manifest[d] = "consistent" => d \in job.warned
      BY DEF ExportIsWhole
  <2>1. /\ \A v \in Service : job.manifest[v] = "exported" => v \in job.exported
        /\ \A d \in Sqlite : job.manifest[d] = "consistent" => d \in job.captured
        BY DEF Inv, ExportInv, Describes
  <2>2. sidecar \subseteq Sqlite /\ pc # "done"
        BY DEF Inv, TypeOK, Captured
  <2> QED BY <2>1, <2>2 DEF Inv, ExportInv, CaptureInv, ExportsWhole, CapturesWhole
<1> QED BY <1>1, Invariance, PTL

(* A run that warns of nothing and saw the blueprint in the end holds      *)
(* every detected server as a whole export, said to be one, and every      *)
(* SQLite database as a whole capture, with the same exceptions, and no    *)
(* log lies beside any.                                                    *)
THEOREM QuietRunsWhole == Spec => []QuietRunIsWhole
<1>1. Inv => QuietRunIsWhole
  <2> SUFFICES ASSUME Inv, Captured, job.warned = {}, job.seen # Unreadable
               PROVE  /\ \A v \in Service \ Cut : job.seen[v] # "absent" /\ Alone(v) =>
                           dump[v] = "whole" /\ job.manifest[v] = "exported"
                      /\ \A d \in Sqlite \ Killable : copy[d] = "whole"
                      /\ sidecar = {}
      BY DEF QuietRunIsWhole
  <2>1. pc = "snapshotting"
        BY DEF Captured
  <2>2. ASSUME NEW v \in Service \ Cut, job.seen[v] # "absent", Alone(v)
        PROVE  dump[v] = "whole" /\ job.manifest[v] = "exported"
    <3>1. v \in job.exported
          BY <2>1, <2>2 DEF Inv, ExportInv, Compares
    <3> QED BY <2>1, <2>2, <3>1 DEF Inv, ExportInv, ExportsWhole, Describes
  <2>3. ASSUME NEW d \in Sqlite
        PROVE  (d \notin Killable => copy[d] = "whole") /\ d \notin sidecar
    <3>1. ~job.failed /\ job.todo = {}
          BY <2>1 DEF Inv, CaptureInv, GoesOn
    <3>2. Over(d)
          BY <2>1, <3>1 DEF Over, InStaging, InHelper
    <3>3. d \in job.captured
          BY <2>1, <3>1, <3>2 DEF Inv, CaptureInv, CapturesOrWarns
    <3> QED BY <2>1, <3>3 DEF Inv, CaptureInv, CapturesWhole
  <2>4. sidecar \subseteq Sqlite
        BY DEF Inv, TypeOK
  <2> QED BY <2>2, <2>3, <2>4
<1> QED BY <1>1, Invariance, PTL

(* A run that is over has emptied its staging directory, however it ended, *)
(* but for the directories that its own user may not write to.             *)
THEOREM NothingLeft == Spec => []FinishedRunLeavesNothing
<1>1. Inv => FinishedRunLeavesNothing
      BY DEF Inv
<1> QED BY <1>1, Invariance, PTL

=============================================================================
