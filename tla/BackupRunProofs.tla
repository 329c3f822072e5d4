--------------------------- MODULE BackupRunProofs ---------------------------
(***************************************************************************)
(* Theorems about BackupRun, for any number of projects, repositories,     *)
(* volumes and backups.                                                    *)
(***************************************************************************)
EXTENDS BackupRun, TLAPS

-----------------------------------------------------------------------------
(* The inductive invariant: what each point of a run's way through Start   *)
(* and execute says about its reservation, its rows and its snapshot.      *)

NotInserted == {"idle", "resolved", "reserved"}
Open        == {"inserted", "clearing", "staging", "snapshotting", "verifying",
                "recording", "finishing"}
Closed      == {"cleaning", "releasing"}

(* A process that is down has no goroutine.                                *)
DownMeansStill == ~up => \A r \in Run : pc[r] \in {"idle", "gone"}

(* A run that holds its project's reservation is the one it names.         *)
HolderIsReserved ==
  \A r \in Run : pc[r] \in Holding => byProject[job[r].project] = r

(* The row follows the goroutine: no row before insertRun, "running" until *)
(* it is closed, and then not "running" unless that write was lost.        *)
RowFollowsStep ==
  \A r \in Run :
    /\ pc[r] \in NotInserted => status[r] = "absent"
    /\ pc[r] \in Open => status[r] = "running"
    /\ pc[r] \in Closed => status[r] # "running" \/ r \in outcomeLost

(* A run that is finishing was decided: it has an outcome to write, and    *)
(* the outcome is "completed" just where a verified snapshot is recorded.  *)
DecidedWhenFinishing ==
  \A r \in Run : pc[r] = "finishing" => job[r].outcome # "none"

SnapshotFollowsStep ==
  \A r \in Run :
    /\ pc[r] \in NotInserted \union Open => cause[r] = "none"
    /\ pc[r] \in (NotInserted \union Open) \ {"finishing"} => snapshotOf[r] = "none"
    /\ pc[r] = "recording" => r \in verified
    /\ pc[r] = "finishing" /\ job[r].outcome = "completed"
         => snapshotOf[r] # "none" /\ r \in verified
    /\ pc[r] = "finishing" /\ job[r].outcome # "completed"
         => snapshotOf[r] = "none"

Inv ==
  /\ TypeOK
  /\ DecidedWhenFinishing
  /\ DownMeansStill
  /\ HolderIsReserved
  /\ RowFollowsStep
  /\ SnapshotFollowsStep
  /\ NoRowBehindFailure
  /\ AuditedBackupExists
  /\ RunningRowIsAlive

-----------------------------------------------------------------------------
(* Types.                                                                  *)

(* The blank variables of a request are variables of some request.         *)
LEMMA AnyJobType == AnyJob \in Job
  BY ProjectAssumption, RepoAssumption DEF AnyJob, NewJob, Job, Outcome

(* The staging directory of a project is one of the directories.           *)
LEMMA WorkDirType == \A p \in Project : WorkDir(p) \in Dir
  BY DEF WorkDir, Dir

(* What a step of execute assigns to the goroutine's variables fits them.  *)
LEMMA JobProgress ==
  ASSUME NEW j \in Job, NEW S \in SUBSET Item, NEW w \in BOOLEAN
  PROVE  [j EXCEPT !.staged = S, !.warned = w] \in Job
  BY DEF Job

(* So do the outcome, the warning and the duty to clean up.                *)
LEMMA JobOutcome ==
  ASSUME NEW j \in Job, NEW outcome \in Outcome
  PROVE  [j EXCEPT !.outcome = outcome] \in Job
  BY DEF Job

LEMMA JobWarned ==
  ASSUME NEW j \in Job, NEW w \in BOOLEAN
  PROVE  [j EXCEPT !.warned = w] \in Job
  BY DEF Job

LEMMA JobCleanup ==
  ASSUME NEW j \in Job
  PROVE  [j EXCEPT !.cleanup = TRUE] \in Job
  BY DEF Job

(* A decided run is about to finish, and its variables remember how.       *)
LEMMA DecideType ==
  ASSUME TypeOK, NEW r \in Run, NEW outcome \in Outcome, Decide(r, outcome)
  PROVE  job' \in [Run -> Job] /\ pc' \in [Run -> Step]
<1>1. [job[r] EXCEPT !.outcome = outcome] \in Job
      BY JobOutcome DEF TypeOK
<1>2. job' = [job EXCEPT ![r] = [job[r] EXCEPT !.outcome = outcome]]
      BY DEF Decide
<1>3. job' \in [Run -> Job]
      BY <1>1, <1>2 DEF TypeOK
<1>4. "finishing" \in Step
      BY DEF Step, Holding, Executing
<1> QED BY <1>3, <1>4 DEF TypeOK, Decide, Goto

(* What a run is closed with is a terminal status.                         *)
LEMMA FinalType ==
  ASSUME TypeOK, DecidedWhenFinishing, NEW r \in Run, pc[r] = "finishing"
  PROVE  /\ job[r].outcome \in {"completed", "failed", "cancelled"}
         /\ FinalStatus(r) \in Status \ {"absent", "running"}
         /\ FinalCause(r) \in {"none", "failed", "cancelled"}
<1>1. job[r].outcome \in {"completed", "failed", "cancelled"}
      BY DEF TypeOK, DecidedWhenFinishing, Job, Outcome
<1> QED BY <1>1 DEF FinalStatus, FinalCause, Status, Successful

(* Every step of BackupRun keeps every variable within its type.           *)
LEMMA TypeStep == TypeOK /\ DecidedWhenFinishing /\ [Next]_vars => TypeOK'
<1> SUFFICES ASSUME TypeOK, DecidedWhenFinishing, [Next]_vars PROVE TypeOK'
    OBVIOUS
<1> USE AnyJobType, WorkDirType DEF TypeOK
<1> USE DEF tables, memory, outside, history
<1>1. ASSUME NEW r \in Run, Begin(r) PROVE TypeOK'
  <2>1. CASE Reserve(r) BY <2>1 DEF Reserve, Goto, Step, Holding, Job
  <2>2. CASE Refuse(r) BY <2>2 DEF Refuse, Vanish, Goto, Step
  <2>3. CASE InsertRun(r) BY <2>3 DEF InsertRun, Goto, Step, Holding, Status
  <2>4. CASE InsertRunFails(r)
        BY <2>4 DEF InsertRunFails, Release, Vanish, Goto, Step, Job
  <2>5. CASE Launch(r) BY <2>5 DEF Launch, Goto, Step, Holding, Executing
  <2> QED BY <1>1, <2>1, <2>2, <2>3, <2>4, <2>5 DEF Begin
<1>2. ASSUME NEW r \in Run, Execute(r) PROVE TypeOK'
  <2> USE DEF Goto, Step, Holding, Executing
  <2>1. CASE ClearStaging(r)
    <3>1. job' \in [Run -> Job]
          BY <2>1, JobCleanup DEF ClearStaging
    <3>2. staging' \in [Dir -> SUBSET Files]
          BY <2>1 DEF ClearStaging
    <3>3. /\ status' \in [Run -> Status]
          /\ cause' \in [Run -> {"none", "failed", "cancelled", "interrupted"}]
          BY <2>1 DEF ClearStaging, Progress, Status
    <3> QED BY <2>1, <3>1, <3>2, <3>3 DEF ClearStaging
  <2>2. CASE ClearStagingFails(r)
        BY <2>2, DecideType DEF ClearStagingFails, Outcome
  <2>3. ASSUME NEW s \in Source, StageSource(r, s) PROVE TypeOK'
    <3>1. staging' \in [Dir -> SUBSET Files]
          BY <2>3 DEF StageSource, Files, Item, Job
    <3>2. job' \in [Run -> Job]
      <4>1. PICK warning \in BOOLEAN :
              job' = [job EXCEPT ![r].staged = @ \union {s},
                                 ![r].warned = @ \/ warning]
            BY <2>3 DEF StageSource
      <4>2. job[r].staged \union {s} \in SUBSET Item
            BY DEF Job, Item
      <4> QED BY <4>1, <4>2, JobProgress
    <3> QED BY <2>3, <3>1, <3>2 DEF StageSource, Progress, Status
  <2>4. CASE StagingStops(r)
        BY <2>4, DecideType DEF StagingStops, Stopped, Outcome
  <2>5. CASE DumpDatabases(r)
    <3>1. staging' \in [Dir -> SUBSET Files]
          BY <2>5 DEF DumpDatabases, Files, Item, Job
    <3>2. job' \in [Run -> Job]
      <4>1. PICK exported \in BOOLEAN, warning \in BOOLEAN :
              job' = [job EXCEPT
                        ![r].staged = IF exported THEN @ \union {Dumps} ELSE @,
                        ![r].warned = @ \/ warning]
            BY <2>5 DEF DumpDatabases
      <4>2. /\ job[r].staged \union {Dumps} \in SUBSET Item
            /\ job[r].staged \in SUBSET Item
            BY DEF Job, Item
      <4>3. ASSUME NEW S \in SUBSET Item,
                   job' = [job EXCEPT ![r].staged = S, ![r].warned = @ \/ warning]
            PROVE  job' \in [Run -> Job]
            BY <4>3, JobProgress
      <4> QED BY <4>1, <4>2, <4>3
    <3> QED BY <2>5, <3>1, <3>2 DEF DumpDatabases, Progress, Status
  <2>6. CASE CreateSnapshot(r)
    <3>1. Found(r) \subseteq Files
          BY DEF Found, Job
    <3>2. archive' \in [Run -> SUBSET Files]
          BY <2>6, <3>1 DEF CreateSnapshot
    <3>3. job' \in [Run -> Job]
      <4>1. PICK missed \in BOOLEAN :
              job' = [job EXCEPT ![r].warned = @ \/ missed]
            BY <2>6 DEF CreateSnapshot
      <4>2. (job[r].warned \/ missed) \in BOOLEAN
            OBVIOUS
      <4>3. [job[r] EXCEPT !.warned = @ \/ missed] \in Job
            BY <4>2, JobWarned
      <4> QED BY <4>1, <4>3
    <3> QED BY <2>6, <3>2, <3>3 DEF CreateSnapshot, Progress, Status
  <2>7. CASE CreateSnapshotFails(r)
        BY <2>7, DecideType DEF CreateSnapshotFails, Stopped, Outcome
  <2>8. CASE VerifySnapshot(r)
    <3>1. PICK shortfall \in BOOLEAN :
            job' = [job EXCEPT ![r].warned = @ \/ shortfall]
          BY <2>8 DEF VerifySnapshot
    <3>2. (job[r].warned \/ shortfall) \in BOOLEAN
          OBVIOUS
    <3>3. [job[r] EXCEPT !.warned = @ \/ shortfall] \in Job
          BY <3>2, JobWarned
    <3>4. job' \in [Run -> Job]
          BY <3>1, <3>3
    <3> QED BY <2>8, <3>4 DEF VerifySnapshot
  <2>9. CASE VerifySnapshotFails(r)
        BY <2>9, DecideType DEF VerifySnapshotFails, Stopped, Outcome
  <2>10. CASE RecordSnapshot(r)
        BY <2>10, DecideType DEF RecordSnapshot, Outcome
  <2>11. CASE RecordSnapshotFails(r)
        BY <2>11, DecideType DEF RecordSnapshotFails, Outcome
  <2>12. CASE Finish(r)
    <3>1. job[r].outcome \in {"completed", "failed", "cancelled"}
          BY <2>12, FinalType DEF Finish
    <3>2. FinalStatus(r) \in Status /\ FinalCause(r) \in {"none", "failed", "cancelled"}
          BY <2>12, FinalType DEF Finish
    <3>3. status' \in [Run -> Status]
          BY <2>12, <3>2 DEF Finish
    <3>4. cause' \in [Run -> {"none", "failed", "cancelled", "interrupted"}]
          BY <2>12, <3>2 DEF Finish
    <3>5. audit' \subseteq ({"completed", "failed", "cancelled"} \X Run)
          BY <2>12, <3>1 DEF Finish
    <3>6. pc' \in [Run -> Step] /\ outcomeLost' \subseteq Run
          BY <2>12 DEF Finish
    <3> QED BY <2>12, <3>3, <3>4, <3>5, <3>6 DEF Finish
  <2>13. CASE CleanStaging(r) BY <2>13 DEF CleanStaging
  <2>14. CASE Leave(r) BY <2>14 DEF Leave, Release, Vanish, Job
  <2> QED BY <1>2, <2>1, <2>2, <2>3, <2>4, <2>5, <2>6, <2>7, <2>8, <2>9,
             <2>10, <2>11, <2>12, <2>13, <2>14 DEF Execute
<1>3. ASSUME Operator PROVE TypeOK'
  <2>1. ASSUME NEW r \in Run, NEW p \in Project, NEW q \in Repo, Resolve(r, p, q)
        PROVE TypeOK'
        BY <2>1 DEF Resolve, NewJob, Goto, Step, Job, Outcome
  <2>2. ASSUME NEW r \in Run, CancelRun(r) PROVE TypeOK'
        BY <2>2 DEF CancelRun
  <2>3. ASSUME NEW p \in Project, RegisterProject(p) \/ RemoveProject(p) PROVE TypeOK'
        BY <2>3 DEF RegisterProject, RemoveProject
  <2>4. ASSUME NEW q \in Repo, DeleteRepository(q) PROVE TypeOK'
        BY <2>4 DEF DeleteRepository
  <2> QED BY <1>3, <2>1, <2>2, <2>3, <2>4 DEF Operator
<1>4. CASE Crash BY <1>4 DEF Crash, Step
<1>5. CASE Restart BY <1>5 DEF Restart, RunningRows, Status
<1>6. CASE UNCHANGED vars BY <1>6 DEF vars
<1> QED BY <1>1, <1>2, <1>3, <1>4, <1>5, <1>6 DEF Next

-----------------------------------------------------------------------------
(* Each part of the invariant, step by step.                               *)

(* Only a running process starts a run.                                    *)
LEMMA DownStep == Inv /\ [Next]_vars => DownMeansStill'
<1> SUFFICES ASSUME Inv, [Next]_vars PROVE DownMeansStill'
    OBVIOUS
<1> USE DEF Inv, TypeOK, DownMeansStill
<1> USE DEF tables, memory, outside, history, Goto, Vanish, Release, Decide, Progress
<1>1. ASSUME NEW r \in Run, Begin(r) PROVE DownMeansStill'
  <2>1. CASE Reserve(r) BY <2>1 DEF Reserve
  <2>2. CASE Refuse(r) BY <2>2 DEF Refuse
  <2>3. CASE InsertRun(r) BY <2>3 DEF InsertRun
  <2>4. CASE InsertRunFails(r) BY <2>4 DEF InsertRunFails
  <2>5. CASE Launch(r) BY <2>5 DEF Launch
  <2> QED BY <1>1, <2>1, <2>2, <2>3, <2>4, <2>5 DEF Begin
<1>2. ASSUME NEW r \in Run, Execute(r) PROVE DownMeansStill'
  <2>1. CASE ClearStaging(r) BY <2>1 DEF ClearStaging
  <2>2. CASE ClearStagingFails(r) BY <2>2 DEF ClearStagingFails
  <2>3. ASSUME NEW s \in Source, StageSource(r, s) PROVE DownMeansStill'
        BY <2>3 DEF StageSource
  <2>4. CASE StagingStops(r) BY <2>4 DEF StagingStops, Stopped
  <2>5. CASE DumpDatabases(r) BY <2>5 DEF DumpDatabases
  <2>6. CASE CreateSnapshot(r) BY <2>6 DEF CreateSnapshot
  <2>7. CASE CreateSnapshotFails(r) BY <2>7 DEF CreateSnapshotFails, Stopped
  <2>8. CASE VerifySnapshot(r) BY <2>8 DEF VerifySnapshot
  <2>9. CASE VerifySnapshotFails(r) BY <2>9 DEF VerifySnapshotFails, Stopped
  <2>10. CASE RecordSnapshot(r) BY <2>10 DEF RecordSnapshot
  <2>11. CASE RecordSnapshotFails(r) BY <2>11 DEF RecordSnapshotFails
  <2>12. CASE Finish(r) BY <2>12 DEF Finish, FinalStatus, FinalCause
  <2>13. CASE CleanStaging(r) BY <2>13 DEF CleanStaging
  <2>14. CASE Leave(r) BY <2>14 DEF Leave
  <2> QED BY <1>2, <2>1, <2>2, <2>3, <2>4, <2>5, <2>6, <2>7, <2>8,
             <2>9, <2>10, <2>11, <2>12, <2>13, <2>14 DEF Execute
<1>3. ASSUME Operator PROVE DownMeansStill'
  <2>1. ASSUME NEW r \in Run, NEW p \in Project, NEW q \in Repo, Resolve(r, p, q)
        PROVE DownMeansStill'
        BY <2>1 DEF Resolve, NewJob
  <2>2. ASSUME NEW r \in Run, CancelRun(r) PROVE DownMeansStill'
        BY <2>2 DEF CancelRun
  <2>3. ASSUME NEW p \in Project, RegisterProject(p) \/ RemoveProject(p) PROVE DownMeansStill'
        BY <2>3 DEF RegisterProject, RemoveProject
  <2>4. ASSUME NEW q \in Repo, DeleteRepository(q) PROVE DownMeansStill'
        BY <2>4 DEF DeleteRepository
  <2> QED BY <1>3, <2>1, <2>2, <2>3, <2>4 DEF Operator
<1>4. CASE Crash BY <1>4 DEF Crash
<1>5. CASE Restart BY <1>5 DEF Restart, RunningRows
<1>6. CASE UNCHANGED vars BY <1>6 DEF vars
<1> QED BY <1>1, <1>2, <1>3, <1>4, <1>5, <1>6 DEF Next

(* Reserve finds the project free, and only the holder gives it back.       *)
LEMMA HolderStep == Inv /\ [Next]_vars => HolderIsReserved'
<1> SUFFICES ASSUME Inv, [Next]_vars PROVE HolderIsReserved'
    OBVIOUS
<1> USE DEF Inv, TypeOK, HolderIsReserved, Holding, Executing
<1> USE DEF tables, memory, outside, history, Goto, Vanish, Release, Decide, Progress
<1>1. ASSUME NEW r \in Run, Begin(r) PROVE HolderIsReserved'
  <2>1. CASE Reserve(r) BY <2>1, NoRunAssumption DEF Reserve, Job
  <2>2. CASE Refuse(r) BY <2>2 DEF Refuse
  <2>3. CASE InsertRun(r) BY <2>3 DEF InsertRun
  <2>4. CASE InsertRunFails(r) BY <2>4 DEF InsertRunFails
  <2>5. CASE Launch(r) BY <2>5 DEF Launch
  <2> QED BY <1>1, <2>1, <2>2, <2>3, <2>4, <2>5 DEF Begin
<1>2. ASSUME NEW r \in Run, Execute(r) PROVE HolderIsReserved'
  <2>1. CASE ClearStaging(r) BY <2>1 DEF ClearStaging
  <2>2. CASE ClearStagingFails(r) BY <2>2 DEF ClearStagingFails
  <2>3. ASSUME NEW s \in Source, StageSource(r, s) PROVE HolderIsReserved'
        BY <2>3 DEF StageSource
  <2>4. CASE StagingStops(r) BY <2>4 DEF StagingStops, Stopped
  <2>5. CASE DumpDatabases(r) BY <2>5 DEF DumpDatabases
  <2>6. CASE CreateSnapshot(r) BY <2>6 DEF CreateSnapshot
  <2>7. CASE CreateSnapshotFails(r) BY <2>7 DEF CreateSnapshotFails, Stopped
  <2>8. CASE VerifySnapshot(r) BY <2>8 DEF VerifySnapshot
  <2>9. CASE VerifySnapshotFails(r) BY <2>9 DEF VerifySnapshotFails, Stopped
  <2>10. CASE RecordSnapshot(r) BY <2>10 DEF RecordSnapshot
  <2>11. CASE RecordSnapshotFails(r) BY <2>11 DEF RecordSnapshotFails
  <2>12. CASE Finish(r) BY <2>12 DEF Finish, FinalStatus, FinalCause
  <2>13. CASE CleanStaging(r) BY <2>13 DEF CleanStaging
  <2>14. CASE Leave(r) BY <2>14 DEF Leave
  <2> QED BY <1>2, <2>1, <2>2, <2>3, <2>4, <2>5, <2>6, <2>7, <2>8,
             <2>9, <2>10, <2>11, <2>12, <2>13, <2>14 DEF Execute
<1>3. ASSUME Operator PROVE HolderIsReserved'
  <2>1. ASSUME NEW r \in Run, NEW p \in Project, NEW q \in Repo, Resolve(r, p, q)
        PROVE HolderIsReserved'
        BY <2>1 DEF Resolve, NewJob, Job
  <2>2. ASSUME NEW r \in Run, CancelRun(r) PROVE HolderIsReserved'
        BY <2>2 DEF CancelRun
  <2>3. ASSUME NEW p \in Project, RegisterProject(p) \/ RemoveProject(p) PROVE HolderIsReserved'
        BY <2>3 DEF RegisterProject, RemoveProject
  <2>4. ASSUME NEW q \in Repo, DeleteRepository(q) PROVE HolderIsReserved'
        BY <2>4 DEF DeleteRepository
  <2> QED BY <1>3, <2>1, <2>2, <2>3, <2>4 DEF Operator
<1>4. CASE Crash BY <1>4 DEF Crash
<1>5. CASE Restart BY <1>5 DEF Restart, RunningRows
<1>6. CASE UNCHANGED vars BY <1>6 DEF vars
<1> QED BY <1>1, <1>2, <1>3, <1>4, <1>5, <1>6 DEF Next

(* The rows keep up with the goroutines, and with the restart.             *)
LEMMA RowStep == Inv /\ [Next]_vars => (RowFollowsStep /\ RunningRowIsAlive)'
<1> SUFFICES ASSUME Inv, [Next]_vars PROVE (RowFollowsStep /\ RunningRowIsAlive)'
    OBVIOUS
<1> USE DEF Inv, TypeOK, RowFollowsStep, RunningRowIsAlive, DownMeansStill, NotInserted, Open, Closed, Holding, Executing
<1> USE DEF tables, memory, outside, history, Goto, Vanish, Release, Decide, Progress
<1>1. ASSUME NEW r \in Run, Begin(r) PROVE (RowFollowsStep /\ RunningRowIsAlive)'
  <2>1. CASE Reserve(r) BY <2>1 DEF Reserve
  <2>2. CASE Refuse(r) BY <2>2 DEF Refuse
  <2>3. CASE InsertRun(r) BY <2>3 DEF InsertRun
  <2>4. CASE InsertRunFails(r) BY <2>4 DEF InsertRunFails
  <2>5. CASE Launch(r) BY <2>5 DEF Launch
  <2> QED BY <1>1, <2>1, <2>2, <2>3, <2>4, <2>5 DEF Begin
<1>2. ASSUME NEW r \in Run, Execute(r) PROVE (RowFollowsStep /\ RunningRowIsAlive)'
  <2>1. CASE ClearStaging(r) BY <2>1 DEF ClearStaging
  <2>2. CASE ClearStagingFails(r) BY <2>2 DEF ClearStagingFails
  <2>3. ASSUME NEW s \in Source, StageSource(r, s) PROVE (RowFollowsStep /\ RunningRowIsAlive)'
        BY <2>3 DEF StageSource
  <2>4. CASE StagingStops(r) BY <2>4 DEF StagingStops, Stopped
  <2>5. CASE DumpDatabases(r) BY <2>5 DEF DumpDatabases
  <2>6. CASE CreateSnapshot(r) BY <2>6 DEF CreateSnapshot
  <2>7. CASE CreateSnapshotFails(r) BY <2>7 DEF CreateSnapshotFails, Stopped
  <2>8. CASE VerifySnapshot(r) BY <2>8 DEF VerifySnapshot
  <2>9. CASE VerifySnapshotFails(r) BY <2>9 DEF VerifySnapshotFails, Stopped
  <2>10. CASE RecordSnapshot(r) BY <2>10 DEF RecordSnapshot
  <2>11. CASE RecordSnapshotFails(r) BY <2>11 DEF RecordSnapshotFails
  <2>12. CASE Finish(r) BY <2>12, FinalType DEF Finish, FinalStatus, FinalCause
  <2>13. CASE CleanStaging(r) BY <2>13 DEF CleanStaging
  <2>14. CASE Leave(r) BY <2>14 DEF Leave
  <2> QED BY <1>2, <2>1, <2>2, <2>3, <2>4, <2>5, <2>6, <2>7, <2>8,
             <2>9, <2>10, <2>11, <2>12, <2>13, <2>14 DEF Execute
<1>3. ASSUME Operator PROVE (RowFollowsStep /\ RunningRowIsAlive)'
  <2>1. ASSUME NEW r \in Run, NEW p \in Project, NEW q \in Repo, Resolve(r, p, q)
        PROVE (RowFollowsStep /\ RunningRowIsAlive)'
        BY <2>1 DEF Resolve, NewJob
  <2>2. ASSUME NEW r \in Run, CancelRun(r) PROVE (RowFollowsStep /\ RunningRowIsAlive)'
        BY <2>2 DEF CancelRun
  <2>3. ASSUME NEW p \in Project, RegisterProject(p) \/ RemoveProject(p) PROVE (RowFollowsStep /\ RunningRowIsAlive)'
        BY <2>3 DEF RegisterProject, RemoveProject
  <2>4. ASSUME NEW q \in Repo, DeleteRepository(q) PROVE (RowFollowsStep /\ RunningRowIsAlive)'
        BY <2>4 DEF DeleteRepository
  <2> QED BY <1>3, <2>1, <2>2, <2>3, <2>4 DEF Operator
<1>4. CASE Crash BY <1>4 DEF Crash
<1>5. CASE Restart BY <1>5 DEF Restart, RunningRows
<1>6. CASE UNCHANGED vars BY <1>6 DEF vars
<1> QED BY <1>1, <1>2, <1>3, <1>4, <1>5, <1>6 DEF Next

(* A snapshot is recorded by RecordSnapshot alone, and that run then ends   *)
(* as completed.                                                           *)
LEMMA SnapshotStep == Inv /\ [Next]_vars => (SnapshotFollowsStep /\ NoRowBehindFailure)'
<1> SUFFICES ASSUME Inv, [Next]_vars PROVE (SnapshotFollowsStep /\ NoRowBehindFailure)'
    OBVIOUS
<1> USE DEF Inv, TypeOK, SnapshotFollowsStep, NoRowBehindFailure, DownMeansStill, RowFollowsStep, NotInserted, Open
<1> USE DEF tables, memory, outside, history, Goto, Vanish, Release, Decide, Progress
<1>1. ASSUME NEW r \in Run, Begin(r) PROVE (SnapshotFollowsStep /\ NoRowBehindFailure)'
  <2>1. CASE Reserve(r) BY <2>1 DEF Reserve
  <2>2. CASE Refuse(r) BY <2>2 DEF Refuse
  <2>3. CASE InsertRun(r) BY <2>3 DEF InsertRun
  <2>4. CASE InsertRunFails(r) BY <2>4 DEF InsertRunFails
  <2>5. CASE Launch(r) BY <2>5 DEF Launch
  <2> QED BY <1>1, <2>1, <2>2, <2>3, <2>4, <2>5 DEF Begin
<1>2. ASSUME NEW r \in Run, Execute(r) PROVE (SnapshotFollowsStep /\ NoRowBehindFailure)'
  <2>1. CASE ClearStaging(r) BY <2>1 DEF ClearStaging
  <2>2. CASE ClearStagingFails(r) BY <2>2 DEF ClearStagingFails
  <2>3. ASSUME NEW s \in Source, StageSource(r, s) PROVE (SnapshotFollowsStep /\ NoRowBehindFailure)'
        BY <2>3 DEF StageSource
  <2>4. CASE StagingStops(r) BY <2>4 DEF StagingStops, Stopped
  <2>5. CASE DumpDatabases(r) BY <2>5 DEF DumpDatabases
  <2>6. CASE CreateSnapshot(r) BY <2>6 DEF CreateSnapshot
  <2>7. CASE CreateSnapshotFails(r) BY <2>7 DEF CreateSnapshotFails, Stopped
  <2>8. CASE VerifySnapshot(r) BY <2>8 DEF VerifySnapshot
  <2>9. CASE VerifySnapshotFails(r) BY <2>9 DEF VerifySnapshotFails, Stopped
  <2>10. CASE RecordSnapshot(r) BY <2>10, NoRepoAssumption DEF RecordSnapshot, Job
  <2>11. CASE RecordSnapshotFails(r) BY <2>11 DEF RecordSnapshotFails
  <2>12. CASE Finish(r) BY <2>12, FinalType DEF Finish, FinalStatus, FinalCause
  <2>13. CASE CleanStaging(r) BY <2>13 DEF CleanStaging
  <2>14. CASE Leave(r) BY <2>14 DEF Leave
  <2> QED BY <1>2, <2>1, <2>2, <2>3, <2>4, <2>5, <2>6, <2>7, <2>8,
             <2>9, <2>10, <2>11, <2>12, <2>13, <2>14 DEF Execute
<1>3. ASSUME Operator PROVE (SnapshotFollowsStep /\ NoRowBehindFailure)'
  <2>1. ASSUME NEW r \in Run, NEW p \in Project, NEW q \in Repo, Resolve(r, p, q)
        PROVE (SnapshotFollowsStep /\ NoRowBehindFailure)'
        BY <2>1 DEF Resolve, NewJob
  <2>2. ASSUME NEW r \in Run, CancelRun(r) PROVE (SnapshotFollowsStep /\ NoRowBehindFailure)'
        BY <2>2 DEF CancelRun
  <2>3. ASSUME NEW p \in Project, RegisterProject(p) \/ RemoveProject(p) PROVE (SnapshotFollowsStep /\ NoRowBehindFailure)'
        BY <2>3 DEF RegisterProject, RemoveProject
  <2>4. ASSUME NEW q \in Repo, DeleteRepository(q) PROVE (SnapshotFollowsStep /\ NoRowBehindFailure)'
        BY <2>4, NoRepoAssumption DEF DeleteRepository
  <2> QED BY <1>3, <2>1, <2>2, <2>3, <2>4 DEF Operator
<1>4. CASE Crash BY <1>4 DEF Crash
<1>5. CASE Restart BY <1>5 DEF Restart, RunningRows
<1>6. CASE UNCHANGED vars BY <1>6 DEF vars
<1> QED BY <1>1, <1>2, <1>3, <1>4, <1>5, <1>6 DEF Next

(* Whatever ends a run says how it ended.                                  *)
LEMMA DecidedStep == Inv /\ [Next]_vars => DecidedWhenFinishing'
<1> SUFFICES ASSUME Inv, [Next]_vars PROVE DecidedWhenFinishing'
    OBVIOUS
<1> USE DEF Inv, TypeOK, DecidedWhenFinishing
<1> USE DEF tables, memory, outside, history, Goto, Vanish, Release, Decide, Progress
<1>1. ASSUME NEW r \in Run, Begin(r) PROVE DecidedWhenFinishing'
  <2>1. CASE Reserve(r) BY <2>1 DEF Reserve
  <2>2. CASE Refuse(r) BY <2>2 DEF Refuse
  <2>3. CASE InsertRun(r) BY <2>3 DEF InsertRun
  <2>4. CASE InsertRunFails(r) BY <2>4 DEF InsertRunFails
  <2>5. CASE Launch(r) BY <2>5 DEF Launch
  <2> QED BY <1>1, <2>1, <2>2, <2>3, <2>4, <2>5 DEF Begin
<1>2. ASSUME NEW r \in Run, Execute(r) PROVE DecidedWhenFinishing'
  <2>1. CASE ClearStaging(r) BY <2>1 DEF ClearStaging
  <2>2. CASE ClearStagingFails(r) BY <2>2 DEF ClearStagingFails
  <2>3. ASSUME NEW s \in Source, StageSource(r, s) PROVE DecidedWhenFinishing'
        BY <2>3 DEF StageSource
  <2>4. CASE StagingStops(r) BY <2>4 DEF StagingStops, Stopped
  <2>5. CASE DumpDatabases(r) BY <2>5 DEF DumpDatabases
  <2>6. CASE CreateSnapshot(r) BY <2>6 DEF CreateSnapshot
  <2>7. CASE CreateSnapshotFails(r) BY <2>7 DEF CreateSnapshotFails, Stopped
  <2>8. CASE VerifySnapshot(r) BY <2>8 DEF VerifySnapshot
  <2>9. CASE VerifySnapshotFails(r) BY <2>9 DEF VerifySnapshotFails, Stopped
  <2>10. CASE RecordSnapshot(r) BY <2>10 DEF RecordSnapshot
  <2>11. CASE RecordSnapshotFails(r) BY <2>11 DEF RecordSnapshotFails
  <2>12. CASE Finish(r) BY <2>12 DEF Finish, FinalStatus, FinalCause
  <2>13. CASE CleanStaging(r) BY <2>13 DEF CleanStaging
  <2>14. CASE Leave(r) BY <2>14 DEF Leave
  <2> QED BY <1>2, <2>1, <2>2, <2>3, <2>4, <2>5, <2>6, <2>7, <2>8,
             <2>9, <2>10, <2>11, <2>12, <2>13, <2>14 DEF Execute
<1>3. ASSUME Operator PROVE DecidedWhenFinishing'
  <2>1. ASSUME NEW r \in Run, NEW p \in Project, NEW q \in Repo, Resolve(r, p, q)
        PROVE DecidedWhenFinishing'
        BY <2>1 DEF Resolve, NewJob
  <2>2. ASSUME NEW r \in Run, CancelRun(r) PROVE DecidedWhenFinishing'
        BY <2>2 DEF CancelRun
  <2>3. ASSUME NEW p \in Project, RegisterProject(p) \/ RemoveProject(p) PROVE DecidedWhenFinishing'
        BY <2>3 DEF RegisterProject, RemoveProject
  <2>4. ASSUME NEW q \in Repo, DeleteRepository(q) PROVE DecidedWhenFinishing'
        BY <2>4 DEF DeleteRepository
  <2> QED BY <1>3, <2>1, <2>2, <2>3, <2>4 DEF Operator
<1>4. CASE Crash BY <1>4 DEF Crash
<1>5. CASE Restart BY <1>5 DEF Restart, RunningRows
<1>6. CASE UNCHANGED vars BY <1>6 DEF vars
<1> QED BY <1>1, <1>2, <1>3, <1>4, <1>5, <1>6 DEF Next

(* Only a run that recorded its snapshot is announced as completed.        *)
LEMMA AuditStep == Inv /\ [Next]_vars => AuditedBackupExists'
<1> SUFFICES ASSUME Inv, [Next]_vars PROVE AuditedBackupExists'
    OBVIOUS
<1> USE DEF Inv, TypeOK, AuditedBackupExists, SnapshotFollowsStep
<1> USE DEF tables, memory, outside, history, Goto, Vanish, Release, Decide, Progress
<1>1. ASSUME NEW r \in Run, Begin(r) PROVE AuditedBackupExists'
  <2>1. CASE Reserve(r) BY <2>1 DEF Reserve
  <2>2. CASE Refuse(r) BY <2>2 DEF Refuse
  <2>3. CASE InsertRun(r) BY <2>3 DEF InsertRun
  <2>4. CASE InsertRunFails(r) BY <2>4 DEF InsertRunFails
  <2>5. CASE Launch(r) BY <2>5 DEF Launch
  <2> QED BY <1>1, <2>1, <2>2, <2>3, <2>4, <2>5 DEF Begin
<1>2. ASSUME NEW r \in Run, Execute(r) PROVE AuditedBackupExists'
  <2>1. CASE ClearStaging(r) BY <2>1 DEF ClearStaging
  <2>2. CASE ClearStagingFails(r) BY <2>2 DEF ClearStagingFails
  <2>3. ASSUME NEW s \in Source, StageSource(r, s) PROVE AuditedBackupExists'
        BY <2>3 DEF StageSource
  <2>4. CASE StagingStops(r) BY <2>4 DEF StagingStops, Stopped
  <2>5. CASE DumpDatabases(r) BY <2>5 DEF DumpDatabases
  <2>6. CASE CreateSnapshot(r) BY <2>6 DEF CreateSnapshot
  <2>7. CASE CreateSnapshotFails(r) BY <2>7 DEF CreateSnapshotFails, Stopped
  <2>8. CASE VerifySnapshot(r) BY <2>8 DEF VerifySnapshot
  <2>9. CASE VerifySnapshotFails(r) BY <2>9 DEF VerifySnapshotFails, Stopped
  <2>10. CASE RecordSnapshot(r) BY <2>10, NoRepoAssumption DEF RecordSnapshot
  <2>11. CASE RecordSnapshotFails(r) BY <2>11 DEF RecordSnapshotFails
  <2>12. CASE Finish(r) BY <2>12, FinalType DEF Finish, FinalStatus, FinalCause
  <2>13. CASE CleanStaging(r) BY <2>13 DEF CleanStaging
  <2>14. CASE Leave(r) BY <2>14 DEF Leave
  <2> QED BY <1>2, <2>1, <2>2, <2>3, <2>4, <2>5, <2>6, <2>7, <2>8,
             <2>9, <2>10, <2>11, <2>12, <2>13, <2>14 DEF Execute
<1>3. ASSUME Operator PROVE AuditedBackupExists'
  <2>1. ASSUME NEW r \in Run, NEW p \in Project, NEW q \in Repo, Resolve(r, p, q)
        PROVE AuditedBackupExists'
        BY <2>1 DEF Resolve, NewJob
  <2>2. ASSUME NEW r \in Run, CancelRun(r) PROVE AuditedBackupExists'
        BY <2>2 DEF CancelRun
  <2>3. ASSUME NEW p \in Project, RegisterProject(p) \/ RemoveProject(p) PROVE AuditedBackupExists'
        BY <2>3 DEF RegisterProject, RemoveProject
  <2>4. ASSUME NEW q \in Repo, DeleteRepository(q) PROVE AuditedBackupExists'
        BY <2>4, NoRepoAssumption DEF DeleteRepository
  <2> QED BY <1>3, <2>1, <2>2, <2>3, <2>4 DEF Operator
<1>4. CASE Crash BY <1>4 DEF Crash
<1>5. CASE Restart BY <1>5 DEF Restart, RunningRows
<1>6. CASE UNCHANGED vars BY <1>6 DEF vars
<1> QED BY <1>1, <1>2, <1>3, <1>4, <1>5, <1>6 DEF Next

(* No backup has been started yet.                                         *)
LEMMA InvInit == Init => Inv
<1> SUFFICES ASSUME Init PROVE Inv
    OBVIOUS
<1>1. TypeOK
      BY AnyJobType, RegisteredAssumption DEF Init, TypeOK, Step, Status
<1>2. DownMeansStill /\ HolderIsReserved /\ DecidedWhenFinishing
      BY DEF Init, DownMeansStill, HolderIsReserved, DecidedWhenFinishing,
             Holding, Executing
<1>3. RowFollowsStep /\ SnapshotFollowsStep
      BY DEF Init, RowFollowsStep, SnapshotFollowsStep, NotInserted, Open, Closed
<1>4. NoRowBehindFailure /\ AuditedBackupExists /\ RunningRowIsAlive
      BY DEF Init, NoRowBehindFailure, AuditedBackupExists, RunningRowIsAlive
<1> QED BY <1>1, <1>2, <1>3, <1>4 DEF Inv

(* The parts of Inv support one another: it is kept by every step.         *)
LEMMA InvStep == Inv /\ [Next]_vars => Inv'
<1>1. Inv => TypeOK /\ DecidedWhenFinishing
      BY DEF Inv
<1> QED BY <1>1, TypeStep, DownStep, HolderStep, RowStep, SnapshotStep,
           DecidedStep, AuditStep DEF Inv

(* Rows, reservations and snapshots follow the runs in every behaviour.    *)
THEOREM Invariance == Spec => []Inv
  BY InvInit, InvStep, PTL DEF Spec

(* The variables stay within their types.                                  *)
THEOREM TypeCorrect == Spec => []TypeOK
<1>1. Inv => TypeOK
      BY DEF Inv
<1> QED BY <1>1, Invariance, PTL

(* Runner.byProject keeps a project id to one backup at a time.            *)
THEOREM OneBackupAtATime == Spec => []OneRunPerProject
<1>1. Inv => OneRunPerProject
      BY DEF Inv, HolderIsReserved, OneRunPerProject
<1> QED BY <1>1, Invariance, PTL

(* A run reported as failed or cancelled left no snapshot row.             *)
THEOREM FailureIsHonest == Spec => []NoRowBehindFailure
<1>1. Inv => NoRowBehindFailure
      BY DEF Inv
<1> QED BY <1>1, Invariance, PTL

(* The audit trail never announces a backup that cannot be restored.       *)
THEOREM AuditIsHonest == Spec => []AuditedBackupExists
<1>1. Inv => AuditedBackupExists
      BY DEF Inv
<1> QED BY <1>1, Invariance, PTL

(* No row says "running" for ever without a word in the log.               *)
THEOREM NoPhantomRun == Spec => []RunningRowIsAlive
<1>1. Inv => RunningRowIsAlive
      BY DEF Inv
<1> QED BY <1>1, Invariance, PTL

-----------------------------------------------------------------------------
(* Where every project id has a directory of its own.                      *)

(* Two ids share one where a project was removed and found again under the *)
(* name it had, or where pathSegment maps two names to one.                *)
OwnDirectories == \A a, b \in Project : a # b => WorkDir(a) # WorkDir(b)

(* A run has staged nothing before its directory is emptied, and hands     *)
(* restic every source.                                                    *)
StagesEverything ==
  \A r \in Run :
    /\ pc[r] \in {"resolved", "reserved", "inserted", "clearing"} => job[r].staged = {}
    /\ pc[r] = "snapshotting" => Source \subseteq job[r].staged

(* A snapshot holds files of its run only, and those of every source,      *)
(* unless the run has noted a warning.                                     *)
CapturesOwnFiles ==
  \A r \in Run :
    (pc[r] \in {"verifying", "recording"} \/ (pc[r] = "finishing" /\ job[r].outcome = "completed"))
      => /\ archive[r] \subseteq {r} \X Item
         /\ ~job[r].warned => {r} \X Source \subseteq archive[r]

Contents == /\ StagesEverything /\ StagingHoldsOwnFiles
            /\ CapturesOwnFiles /\ CleanRunHoldsEverySource

(* A step of a goroutine, or of its Start, that leaves the staging root    *)
(* and restic alone and takes the run to a point where nothing is said of  *)
(* them, or to one where the same is said.                                 *)
LEMMA ContentsKept ==
  ASSUME TypeOK, Contents, NEW r \in Run, NEW j \in Job, NEW l \in Step,
         Goto(r, l), job' = [job EXCEPT ![r] = j],
         UNCHANGED outside,
         status' = status \/ status' = [status EXCEPT ![r] = "running"],
         l \in {"resolved", "reserved", "inserted", "clearing"} => j.staged = {},
         l \notin {"staging", "snapshotting", "verifying"},
         l = "recording" => /\ archive[r] \subseteq {r} \X Item
                            /\ ~j.warned => {r} \X Source \subseteq archive[r],
         l = "finishing" => \/ j.outcome # "completed"
                            \/ /\ archive[r] \subseteq {r} \X Item
                               /\ ~j.warned => {r} \X Source \subseteq archive[r]
  PROVE  Contents'
<1>1. /\ pc' \in [Run -> Step] /\ pc'[r] = l /\ job'[r] = j
      /\ \A r2 \in Run \ {r} : pc'[r2] = pc[r2] /\ job'[r2] = job[r2]
      /\ \A r2 \in Run : status'[r2] \in {status[r2], "running"}
      BY DEF TypeOK, Goto
<1>2. StagesEverything'
      BY <1>1 DEF Contents, StagesEverything
<1>3. StagingHoldsOwnFiles'
      BY <1>1 DEF Contents, StagingHoldsOwnFiles, Own, WorkDir, outside
<1>4. CapturesOwnFiles'
      BY <1>1 DEF Contents, CapturesOwnFiles, outside
<1>5. CleanRunHoldsEverySource'
      BY <1>1 DEF Contents, CleanRunHoldsEverySource, outside
<1> QED BY <1>2, <1>3, <1>4, <1>5 DEF Contents

(* The directory of a run at work is its own, whatever other runs do.      *)
LEMMA DirectoryApart ==
  ASSUME Inv, OwnDirectories, NEW r1 \in Run, NEW r2 \in Run, r1 # r2,
         pc[r1] \in Holding, pc[r2] \in Holding
  PROVE  /\ WorkDir(job[r1].project) # WorkDir(job[r2].project)
         /\ WorkDir(job[r1].project) \in Dir /\ WorkDir(job[r2].project) \in Dir
<1>1. job[r1].project # job[r2].project
      BY DEF Inv, HolderIsReserved
<1>2. job[r1].project \in Project /\ job[r2].project \in Project
      BY DEF Inv, TypeOK, Job
<1> QED BY <1>1, <1>2, WorkDirType DEF OwnDirectories

LEMMA BeginContents ==
  ASSUME Inv, Contents, NEW r \in Run, Begin(r)
  PROVE  Contents'
<1> USE AnyJobType DEF Step, Holding, Executing, outside
<1>0. /\ TypeOK /\ job[r] \in Job /\ job = [job EXCEPT ![r] = job[r]]
      /\ AnyJob.staged = {}
      BY DEF Inv, TypeOK, AnyJob, NewJob
<1>1. CASE Reserve(r)
  <2>1. Goto(r, "reserved") /\ job' = [job EXCEPT ![r] = job[r]] /\ UNCHANGED <<status, outside>>
        BY <1>0, <1>1 DEF Reserve, tables
  <2>2. job[r].staged = {}
        BY <1>1 DEF Reserve, Contents, StagesEverything
  <2> QED BY <1>0, <2>1, <2>2, ContentsKept
<1>2. CASE Refuse(r) \/ InsertRunFails(r)
  <2>1. /\ Goto(r, "gone") /\ job' = [job EXCEPT ![r] = AnyJob]
        /\ UNCHANGED <<status, outside>>
        BY <1>2 DEF Refuse, InsertRunFails, Vanish, tables
  <2> QED BY <1>0, <2>1, ContentsKept
<1>3. CASE InsertRun(r)
  <2>1. /\ Goto(r, "inserted") /\ job' = [job EXCEPT ![r] = job[r]]
        /\ status' = [status EXCEPT ![r] = "running"] /\ UNCHANGED outside
        BY <1>0, <1>3 DEF InsertRun
  <2>2. job[r].staged = {}
        BY <1>3 DEF InsertRun, Contents, StagesEverything
  <2> QED BY <1>0, <2>1, <2>2, ContentsKept
<1>4. CASE Launch(r)
  <2>1. Goto(r, "clearing") /\ job' = [job EXCEPT ![r] = job[r]] /\ UNCHANGED <<status, outside>>
        BY <1>0, <1>4 DEF Launch, tables
  <2>2. job[r].staged = {}
        BY <1>4 DEF Launch, Contents, StagesEverything
  <2> QED BY <1>0, <2>1, <2>2, ContentsKept
<1> QED BY <1>1, <1>2, <1>3, <1>4 DEF Begin

(* The files of a run while it stages, beside runs in other directories.   *)
LEMMA StageContents ==
  ASSUME Inv, Contents, OwnDirectories, NEW r \in Run, NEW j \in Job, NEW l \in Step,
         pc[r] \in {"clearing", "staging"},
         Goto(r, l), job' = [job EXCEPT ![r] = j], j.project = job[r].project,
         l \in {"staging", "snapshotting"},
         l = "snapshotting" => Source \subseteq j.staged,
         staging' = [staging EXCEPT ![WorkDir(job[r].project)] = {r} \X j.staged],
         UNCHANGED archive,
         status' = status \/ status' = [status EXCEPT ![r] = "running"]
  PROVE  Contents'
<1>0. TypeOK
      BY DEF Inv
<1>1. /\ pc' \in [Run -> Step] /\ pc'[r] = l /\ job'[r] = j
      /\ \A r2 \in Run \ {r} : pc'[r2] = pc[r2] /\ job'[r2] = job[r2]
      /\ \A r2 \in Run : status'[r2] \in {status[r2], "running"}
      BY <1>0 DEF TypeOK, Goto
<1>2. WorkDir(job[r].project) \in Dir
      BY <1>0, WorkDirType DEF TypeOK, Job
<1>3. staging'[WorkDir(j.project)] = {r} \X j.staged
      BY <1>0, <1>2 DEF TypeOK
<1>4. ASSUME NEW r2 \in Run \ {r}, pc[r2] \in {"staging", "snapshotting"}
      PROVE  staging'[WorkDir(job[r2].project)] = {r2} \X job[r2].staged
  <2>1. /\ WorkDir(job[r].project) # WorkDir(job[r2].project)
        /\ WorkDir(job[r2].project) \in Dir
        BY <1>4, DirectoryApart DEF Holding, Executing
  <2>2. staging'[WorkDir(job[r2].project)] = staging[WorkDir(job[r2].project)]
        BY <1>0, <2>1 DEF TypeOK
  <2> QED BY <1>4, <2>2 DEF Contents, StagingHoldsOwnFiles, Own
<1>5. StagesEverything'
      BY <1>1 DEF Contents, StagesEverything
<1>6. StagingHoldsOwnFiles'
  <2> SUFFICES ASSUME NEW r2 \in Run, pc'[r2] \in {"staging", "snapshotting"}
               PROVE  staging'[WorkDir(job'[r2].project)] = {r2} \X job'[r2].staged
      BY DEF StagingHoldsOwnFiles, Own, WorkDir
  <2> QED BY <1>1, <1>3, <1>4
<1>7. CapturesOwnFiles'
      BY <1>1 DEF Contents, CapturesOwnFiles
<1>8. CleanRunHoldsEverySource'
      BY <1>1 DEF Contents, CleanRunHoldsEverySource
<1> QED BY <1>5, <1>6, <1>7, <1>8 DEF Contents

(* What restic captures of a directory that holds what the run staged.     *)
LEMMA CaptureContents ==
  ASSUME Inv, Contents, NEW r \in Run, CreateSnapshot(r)
  PROVE  Contents'
<1>0. TypeOK /\ job[r] \in Job /\ pc[r] = "snapshotting" /\ status[r] = "running"
      BY DEF CreateSnapshot, Inv, TypeOK, RowFollowsStep, Open
<1>1. Found(r) = {r} \X job[r].staged /\ Source \subseteq job[r].staged
      BY <1>0 DEF Contents, StagingHoldsOwnFiles, StagesEverything, Found, Own
<1>2. PICK captured \in (SUBSET Found(r)) \ {{}}, missed \in BOOLEAN :
        /\ archive' = [archive EXCEPT ![r] = captured]
        /\ job' = [job EXCEPT ![r].warned = @ \/ missed]
        /\ captured # Found(r) => missed
  <2>1. PICK captured \in (SUBSET Found(r)) \ {{}} :
          LET missed == captured # Found(r)
                        \/ \E i \in job[r].staged : \A f \in Found(r) : f[2] # i
          IN /\ archive' = [archive EXCEPT ![r] = captured]
             /\ job' = [job EXCEPT ![r].warned = @ \/ missed]
        BY DEF CreateSnapshot
  <2> DEFINE missed == captured # Found(r)
                       \/ \E i \in job[r].staged : \A f \in Found(r) : f[2] # i
  <2>2. /\ missed \in BOOLEAN
        /\ archive' = [archive EXCEPT ![r] = captured]
        /\ job' = [job EXCEPT ![r].warned = @ \/ missed]
        /\ captured # Found(r) => missed
        BY <2>1
  <2> HIDE DEF missed
  <2> QED BY <2>2
<1>3. /\ archive'[r] = captured
      /\ \A r2 \in Run \ {r} : archive'[r2] = archive[r2]
      BY <1>0, <1>2 DEF TypeOK
<1>4. /\ pc' = [pc EXCEPT ![r] = "verifying"] /\ UNCHANGED staging
      /\ \A r2 \in Run : status'[r2] \in {status[r2], "running"}
      BY <1>0 DEF CreateSnapshot, Goto, Progress, TypeOK
<1>5. /\ pc'[r] = "verifying" /\ \A r2 \in Run \ {r} : pc'[r2] = pc[r2]
      BY <1>0, <1>4 DEF TypeOK
<1>6. /\ \A r2 \in Run \ {r} : job'[r2] = job[r2]
      /\ job'[r].warned = (job[r].warned \/ missed)
      BY <1>0, <1>2 DEF TypeOK, Job
<1>7. captured \subseteq {r} \X Item
      BY <1>0, <1>1 DEF Job
<1>8. ~job'[r].warned => {r} \X Source \subseteq captured
      BY <1>1, <1>2, <1>6
<1>9. StagesEverything'
      BY <1>5, <1>6 DEF Contents, StagesEverything
<1>10. StagingHoldsOwnFiles'
       BY <1>4, <1>5, <1>6 DEF Contents, StagingHoldsOwnFiles, Own, WorkDir
<1>11. CapturesOwnFiles'
       BY <1>3, <1>5, <1>6, <1>7, <1>8 DEF Contents, CapturesOwnFiles
<1>12. CleanRunHoldsEverySource'
  <2>1. status'[r] = "running"
        BY <1>0, <1>4
  <2> QED BY <1>3, <1>4, <2>1 DEF Contents, CleanRunHoldsEverySource
<1> QED BY <1>9, <1>10, <1>11, <1>12 DEF Contents

(* A row that is closed as completed is closed over such a snapshot.       *)
LEMMA FinishContents ==
  ASSUME Inv, Contents, NEW r \in Run, Finish(r)
  PROVE  Contents'
<1>0. TypeOK /\ pc[r] = "finishing"
      BY DEF Finish, Inv
<1>1. /\ UNCHANGED <<job, outside>>
      /\ pc'[r] \in {"cleaning", "releasing"} /\ \A r2 \in Run \ {r} : pc'[r2] = pc[r2]
      /\ \A r2 \in Run \ {r} : status'[r2] = status[r2]
      /\ status'[r] \in {status[r], FinalStatus(r)}
      BY <1>0 DEF Finish, Goto, TypeOK
<1>2. /\ FinalStatus(r) = "completed" => job[r].outcome = "completed" /\ ~job[r].warned
      BY <1>0, FinalType DEF Inv, FinalStatus
<1>3. StagesEverything' /\ StagingHoldsOwnFiles' /\ CapturesOwnFiles'
      BY <1>1 DEF Contents, StagesEverything, StagingHoldsOwnFiles, CapturesOwnFiles, Own, WorkDir,
                  outside
<1>4. CleanRunHoldsEverySource'
      BY <1>0, <1>1, <1>2 DEF Contents, CleanRunHoldsEverySource, CapturesOwnFiles, outside
<1> QED BY <1>3, <1>4 DEF Contents

(* The directory that is removed is no other run's.                        *)
LEMMA CleanContents ==
  ASSUME Inv, Contents, OwnDirectories, NEW r \in Run, CleanStaging(r)
  PROVE  Contents'
<1>0. TypeOK /\ pc[r] = "cleaning"
      BY DEF CleanStaging, Inv
<1>1. /\ UNCHANGED <<job, archive, status>>
      /\ pc'[r] = "releasing" /\ \A r2 \in Run \ {r} : pc'[r2] = pc[r2]
      BY <1>0 DEF CleanStaging, Goto, TypeOK, tables
<1>2. ASSUME NEW r2 \in Run \ {r}, pc[r2] \in {"staging", "snapshotting"}
      PROVE  staging'[WorkDir(job[r2].project)] = staging[WorkDir(job[r2].project)]
  <2>1. /\ WorkDir(job[r].project) # WorkDir(job[r2].project)
        /\ WorkDir(job[r2].project) \in Dir
        BY <1>0, <1>2, DirectoryApart DEF Holding, Executing
  <2> QED BY <1>0, <2>1 DEF CleanStaging, TypeOK
<1>3. StagingHoldsOwnFiles'
      BY <1>1, <1>2 DEF Contents, StagingHoldsOwnFiles, Own, WorkDir
<1>4. StagesEverything' /\ CapturesOwnFiles' /\ CleanRunHoldsEverySource'
      BY <1>1 DEF Contents, StagesEverything, CapturesOwnFiles, CleanRunHoldsEverySource
<1> QED BY <1>3, <1>4 DEF Contents

LEMMA ExecuteContents ==
  ASSUME Inv, Contents, OwnDirectories, NEW r \in Run, Execute(r)
  PROVE  Contents'
<1> USE AnyJobType DEF Step, Holding, Executing
<1>0. /\ TypeOK /\ job[r] \in Job /\ job = [job EXCEPT ![r] = job[r]]
      /\ AnyJob.staged = {}
      BY DEF Inv, TypeOK, AnyJob, NewJob
<1>1. CASE ClearStaging(r)
  <2> DEFINE j == [job[r] EXCEPT !.cleanup = TRUE]
  <2>1. job[r].staged = {}
        BY <1>1 DEF ClearStaging, Contents, StagesEverything
  <2>2. j \in Job /\ j.staged = {} /\ j.project = job[r].project
        BY <1>0, <2>1 DEF Job
  <2>3. {r} \X {} = {}
        OBVIOUS
  <2>4. /\ Goto(r, "staging") /\ job' = [job EXCEPT ![r] = j]
        /\ staging' = [staging EXCEPT ![WorkDir(job[r].project)] = {}]
        /\ UNCHANGED archive /\ pc[r] = "clearing"
        /\ status' = status \/ status' = [status EXCEPT ![r] = "running"]
        BY <1>1 DEF ClearStaging, Progress
  <2> HIDE DEF j
  <2> QED BY <2>2, <2>3, <2>4, StageContents
<1>2. ASSUME NEW outcome \in {"failed", "cancelled"}, Decide(r, outcome),
             UNCHANGED outside, UNCHANGED status
      PROVE  Contents'
  <2> DEFINE j == [job[r] EXCEPT !.outcome = outcome]
  <2>1. j \in Job /\ j.outcome = outcome
        BY <1>0, JobOutcome DEF Job, Outcome
  <2>2. job' = [job EXCEPT ![r] = j] /\ Goto(r, "finishing")
        BY <1>2 DEF Decide
  <2> HIDE DEF j
  <2> QED BY <1>0, <1>2, <2>1, <2>2, ContentsKept
<1>3. CASE \/ ClearStagingFails(r) \/ StagingStops(r) \/ CreateSnapshotFails(r)
           \/ VerifySnapshotFails(r) \/ RecordSnapshotFails(r)
      BY <1>2, <1>3
      DEF ClearStagingFails, StagingStops, CreateSnapshotFails, VerifySnapshotFails,
          RecordSnapshotFails, Stopped, tables
<1>4. ASSUME NEW s \in Source, StageSource(r, s) PROVE Contents'
  <2>1. PICK warning \in BOOLEAN :
          job' = [job EXCEPT ![r].staged = @ \union {s}, ![r].warned = @ \/ warning]
        BY <1>4 DEF StageSource
  <2> DEFINE j == [job[r] EXCEPT !.staged = @ \union {s}, !.warned = @ \/ warning]
  <2>2. j \in Job /\ j.staged = job[r].staged \union {s} /\ j.project = job[r].project
        BY <1>0 DEF Job, Item
  <2>3. pc[r] = "staging" /\ Goto(r, "staging") /\ UNCHANGED archive
        BY <1>0, <1>4 DEF StageSource, Goto, TypeOK
  <2>4. staging[WorkDir(job[r].project)] = {r} \X job[r].staged
        BY <2>3 DEF Contents, StagingHoldsOwnFiles, Own
  <2>5. {r} \X (job[r].staged \union {s}) = ({r} \X job[r].staged) \union {<<r, s>>}
        OBVIOUS
  <2>6. staging' = [staging EXCEPT ![WorkDir(job[r].project)] = {r} \X j.staged]
        BY <1>4, <2>2, <2>4, <2>5 DEF StageSource
  <2>7. job' = [job EXCEPT ![r] = j]
        BY <2>1
  <2>8. status' = status \/ status' = [status EXCEPT ![r] = "running"]
        BY <1>4 DEF StageSource, Progress
  <2> HIDE DEF j
  <2> QED BY <2>2, <2>3, <2>6, <2>7, <2>8, StageContents
<1>5. CASE DumpDatabases(r)
  <2>1. PICK exported \in BOOLEAN, warning \in BOOLEAN :
          /\ staging' = IF exported
                          THEN [staging EXCEPT ![WorkDir(job[r].project)] = @ \union {<<r, Dumps>>}]
                          ELSE staging
          /\ job' = [job EXCEPT ![r].staged = IF exported THEN @ \union {Dumps} ELSE @,
                                ![r].warned = @ \/ warning]
        BY <1>5 DEF DumpDatabases
  <2> DEFINE all == IF exported THEN job[r].staged \union {Dumps} ELSE job[r].staged
  <2> DEFINE j == [job[r] EXCEPT !.staged = all, !.warned = @ \/ warning]
  <2>2. j \in Job /\ j.staged = all /\ j.project = job[r].project
        BY <1>0 DEF Job, Item
  <2>3. /\ pc[r] = "staging" /\ Goto(r, "snapshotting") /\ UNCHANGED archive
        /\ Source \subseteq job[r].staged
        /\ status' = status \/ status' = [status EXCEPT ![r] = "running"]
        BY <1>5 DEF DumpDatabases, Progress
  <2>4. staging[WorkDir(job[r].project)] = {r} \X job[r].staged
        BY <2>3 DEF Contents, StagingHoldsOwnFiles, Own
  <2>5. {r} \X (job[r].staged \union {Dumps}) = ({r} \X job[r].staged) \union {<<r, Dumps>>}
        OBVIOUS
  <2>6. staging' = [staging EXCEPT ![WorkDir(job[r].project)] = {r} \X all]
    <3>1. WorkDir(job[r].project) \in Dir /\ staging \in [Dir -> SUBSET Files]
          BY <1>0, WorkDirType DEF TypeOK, Job
    <3> QED BY <2>1, <2>4, <2>5, <3>1
  <2>7. job' = [job EXCEPT ![r] = j]
        BY <2>1
  <2>8. Source \subseteq all
        BY <2>3
  <2> HIDE DEF j, all
  <2> QED BY <2>2, <2>3, <2>6, <2>7, <2>8, StageContents
<1>6. CASE CreateSnapshot(r)
      BY <1>6, CaptureContents
<1>7. CASE VerifySnapshot(r)
  <2>1. PICK shortfall \in BOOLEAN : job' = [job EXCEPT ![r].warned = @ \/ shortfall]
        BY <1>7 DEF VerifySnapshot
  <2> DEFINE j == [job[r] EXCEPT !.warned = @ \/ shortfall]
  <2>2. j \in Job /\ (~j.warned => ~job[r].warned)
        BY <1>0 DEF Job
  <2>3. pc[r] = "verifying" /\ Goto(r, "recording") /\ UNCHANGED <<status, outside>>
        BY <1>7 DEF VerifySnapshot, tables
  <2>4. /\ archive[r] \subseteq {r} \X Item
        /\ ~job[r].warned => {r} \X Source \subseteq archive[r]
        BY <2>3 DEF Contents, CapturesOwnFiles
  <2>5. job' = [job EXCEPT ![r] = j]
        BY <2>1
  <2> HIDE DEF j
  <2> QED BY <1>0, <2>2, <2>3, <2>4, <2>5, ContentsKept
<1>8. CASE RecordSnapshot(r)
  <2> DEFINE j == [job[r] EXCEPT !.outcome = "completed"]
  <2>1. j \in Job /\ j.warned = job[r].warned
        BY <1>0 DEF Job, Outcome
  <2>2. /\ pc[r] = "recording" /\ Goto(r, "finishing") /\ job' = [job EXCEPT ![r] = j]
        /\ UNCHANGED <<status, outside>>
        BY <1>8 DEF RecordSnapshot, Decide
  <2>3. /\ archive[r] \subseteq {r} \X Item
        /\ ~job[r].warned => {r} \X Source \subseteq archive[r]
        BY <2>2 DEF Contents, CapturesOwnFiles
  <2> HIDE DEF j
  <2> QED BY <1>0, <2>1, <2>2, <2>3, ContentsKept
<1>9. CASE Finish(r)
      BY <1>9, FinishContents
<1>10. CASE CleanStaging(r)
      BY <1>10, CleanContents
<1>11. CASE Leave(r)
  <2>1. /\ Goto(r, "gone") /\ job' = [job EXCEPT ![r] = AnyJob]
        /\ UNCHANGED <<status, outside>>
        BY <1>11 DEF Leave, Vanish, tables
  <2> QED BY <1>0, <2>1, ContentsKept
<1> QED BY <1>1, <1>3, <1>4, <1>5, <1>6, <1>7, <1>8, <1>9, <1>10, <1>11 DEF Execute

LEMMA SurroundingContents ==
  ASSUME Inv, Contents, Operator \/ Crash \/ Restart
  PROVE  Contents'
<1>0. TypeOK
      BY DEF Inv
<1> USE DEF Contents, StagesEverything, StagingHoldsOwnFiles, CapturesOwnFiles,
            CleanRunHoldsEverySource, Own, WorkDir
<1>1. ASSUME NEW r \in Run, NEW p \in Project, NEW q \in Repo, Resolve(r, p, q)
      PROVE  Contents'
  <2>1. NewJob(p, q) \in Job /\ NewJob(p, q).staged = {}
        BY DEF NewJob, Job, Outcome
  <2>2. /\ Goto(r, "resolved") /\ job' = [job EXCEPT ![r] = NewJob(p, q)]
        /\ UNCHANGED <<status, outside>>
        BY <1>1 DEF Resolve, tables
  <2> HIDE DEF Contents
  <2> QED BY <1>0, <2>1, <2>2, ContentsKept DEF Step
<1>2. ASSUME UNCHANGED <<pc, job, staging, archive, status>> PROVE Contents'
      BY <1>2
<1>3. CASE Crash
  <2>1. /\ \A r \in Run : pc'[r] \in {"idle", "gone"}
        /\ UNCHANGED <<staging, archive, status>>
        BY <1>3 DEF Crash, tables, outside
  <2> QED BY <2>1
<1>4. CASE Restart
  <2>1. /\ UNCHANGED <<pc, job, staging, archive>>
        /\ \A r \in Run : status'[r] \in {status[r], "failed"}
        BY <1>4 DEF Restart, memory, outside
  <2> QED BY <2>1
<1> HIDE DEF Contents
<1> QED BY <1>1, <1>2, <1>3, <1>4
        DEF Operator, CancelRun, RegisterProject, RemoveProject, DeleteRepository,
            tables, memory, outside

(* What the runs stage and capture is their own, in every behaviour.       *)
THEOREM ContentsInvariance ==
  ASSUME OwnDirectories
  PROVE  Spec => []Contents
<1>1. Init => Contents
      BY DEF Init, Contents, StagesEverything, StagingHoldsOwnFiles, CapturesOwnFiles,
             CleanRunHoldsEverySource
<1>2. Inv /\ Contents /\ [Next]_vars => Contents'
  <2> SUFFICES ASSUME Inv, Contents, [Next]_vars PROVE Contents'
      OBVIOUS
  <2>1. CASE UNCHANGED vars
        BY <2>1 DEF vars, tables, memory, outside, Contents, StagesEverything,
                    StagingHoldsOwnFiles, CapturesOwnFiles, CleanRunHoldsEverySource, Own, WorkDir
  <2> QED BY <2>1, BeginContents, ExecuteContents, SurroundingContents DEF Next
<1> QED BY <1>1, <1>2, Invariance, PTL DEF Spec

(* Nothing a crashed run left, and nothing another run does, is in the     *)
(* directory between its clearing and restic's reading it: ClearStaging    *)
(* empties it, and the reservation keeps every other run out of it.        *)
THEOREM StagingIsOwn ==
  ASSUME OwnDirectories
  PROVE  Spec => []StagingHoldsOwnFiles
<1>1. Contents => StagingHoldsOwnFiles
      BY DEF Contents
<1> QED BY <1>1, ContentsInvariance, PTL

(* A row closed as completed, without warnings, stands for a snapshot that *)
(* holds every volume of the project, and no file of another run.          *)
THEOREM CleanRunsAreWhole ==
  ASSUME OwnDirectories
  PROVE  Spec => []CleanRunHoldsEverySource
<1>1. Contents => CleanRunHoldsEverySource
      BY DEF Contents
<1> QED BY <1>1, ContentsInvariance, PTL

-----------------------------------------------------------------------------
(* BackupRun implements VerifiedBackup.                                    *)

(* What the promise speaks of stays as it is.                              *)
Quiet == UNCHANGED <<status, verified, snapshotOf>>

LEMMA QuietStutters == Quiet => UNCHANGED Promise!vars
  BY DEF Quiet, Promise!vars, usable

(* A progress write finds the row of an open run saying "running" already. *)
LEMMA ProgressIsQuiet ==
  ASSUME TypeOK, NEW r \in Run, status[r] = "running", Progress(r)
  PROVE  status' = status
  BY DEF TypeOK, Progress

(* Start shows one thing: the row that says the run has begun.             *)
LEMMA BeginStep ==
  ASSUME Inv, NEW r \in Run, Begin(r)
  PROVE  [Promise!Next]_(Promise!vars)
<1> USE DEF tables, memory, outside, history
<1>1. CASE Reserve(r) \/ Refuse(r) \/ InsertRunFails(r) \/ Launch(r)
      BY <1>1, QuietStutters DEF Reserve, Refuse, InsertRunFails, Launch, Quiet
<1>2. CASE InsertRun(r)
  <2>1. status[r] = "absent"
        BY <1>2 DEF InsertRun, Inv, RowFollowsStep, NotInserted
  <2>2. Promise!Begin(r)
        BY <1>2, <2>1 DEF InsertRun, Promise!Begin, usable
  <2> QED BY <2>2 DEF Promise!Next
<1> QED BY <1>1, <1>2 DEF Begin

(* execute: the snapshot is read back, then published, then announced;     *)
(* every other step is out of sight.                                       *)
LEMMA ExecuteStep ==
  ASSUME Inv, NEW r \in Run, Execute(r)
  PROVE  [Promise!Next]_(Promise!vars)
<1> USE DEF tables, memory, outside, history
<1> DEFINE Goal == [Promise!Next]_(Promise!vars)
<1>1. pc[r] \in Open => status[r] = "running"
      BY DEF Inv, RowFollowsStep
<1>2. TypeOK
      BY DEF Inv
<1>3. ASSUME ClearStaging(r) \/ (\E s \in Source : StageSource(r, s))
             \/ DumpDatabases(r) \/ CreateSnapshot(r)
      PROVE  Goal
  <2>1. status[r] = "running" /\ Progress(r)
        BY <1>1, <1>3 DEF Open, ClearStaging, StageSource, DumpDatabases, CreateSnapshot
  <2>2. status' = status
        BY <1>2, <2>1, ProgressIsQuiet
  <2> QED BY <1>3, <2>2, QuietStutters
          DEF ClearStaging, StageSource, DumpDatabases, CreateSnapshot, Quiet
<1>4. ASSUME ClearStagingFails(r) \/ StagingStops(r) \/ CreateSnapshotFails(r)
             \/ VerifySnapshotFails(r) \/ RecordSnapshotFails(r)
             \/ CleanStaging(r) \/ Leave(r)
      PROVE  Goal
      BY <1>4, QuietStutters
      DEF ClearStagingFails, StagingStops, CreateSnapshotFails, VerifySnapshotFails,
          RecordSnapshotFails, CleanStaging, Leave, Quiet
<1>5. ASSUME VerifySnapshot(r) PROVE Goal
  <2>1. status[r] = "running"
        BY <1>1, <1>5 DEF Open, VerifySnapshot
  <2>2. Promise!ReadBack(r)
        BY <1>5, <2>1 DEF VerifySnapshot, Promise!ReadBack, usable
  <2> QED BY <2>2 DEF Promise!Next
<1>6. ASSUME RecordSnapshot(r) PROVE Goal
  <2>1. status[r] = "running" /\ r \in verified
        BY <1>1, <1>6 DEF Open, RecordSnapshot, Inv, SnapshotFollowsStep
  <2>2. usable' = usable \union {r}
    <3>1. job[r].repo \in Repo
          BY <1>2 DEF TypeOK, Job
    <3>2. snapshotOf' = [snapshotOf EXCEPT ![r] = job[r].repo]
          BY <1>6 DEF RecordSnapshot
    <3> QED BY <1>2, <3>1, <3>2, NoRepoAssumption DEF TypeOK, usable
  <2>3. Promise!Publish(r)
        BY <1>6, <2>1, <2>2 DEF RecordSnapshot, Promise!Publish
  <2> QED BY <2>3 DEF Promise!Next
<1>7. ASSUME Finish(r) PROVE Goal
  <2>1. /\ pc[r] = "finishing"
        /\ UNCHANGED <<snapshotOf, verified>>
        /\ \/ status' = [status EXCEPT ![r] = FinalStatus(r)]
           \/ UNCHANGED status
        BY <1>7 DEF Finish
  <2>2. UNCHANGED usable
        BY <2>1 DEF usable
  <2>3. status[r] = "running"
        BY <1>1, <2>1 DEF Open
  <2>4. CASE UNCHANGED status
        BY <2>1, <2>4, QuietStutters DEF Quiet
  <2>5. CASE status' = [status EXCEPT ![r] = FinalStatus(r)]
    <3>1. CASE job[r].outcome = "completed"
      <4>1. r \in usable
            BY <2>1, <3>1 DEF Inv, SnapshotFollowsStep, usable
      <4>2. FinalStatus(r) \in Promise!Successful
            BY <3>1 DEF FinalStatus, Promise!Successful
      <4>3. Promise!Succeed(r)
            BY <2>1, <2>2, <2>3, <2>5, <4>1, <4>2 DEF Promise!Succeed
      <4> QED BY <4>3 DEF Promise!Next
    <3>2. CASE job[r].outcome = "cancelled"
      <4>1. r \notin usable
            BY <2>1, <3>2 DEF Inv, SnapshotFollowsStep, usable
      <4>2. Promise!Cancel(r)
            BY <2>1, <2>2, <2>3, <2>5, <3>2, <4>1 DEF Promise!Cancel, FinalStatus
      <4> QED BY <4>2 DEF Promise!Next
    <3>3. CASE job[r].outcome = "failed"
      <4>1. Promise!Fail({r})
            BY <1>2, <2>1, <2>2, <2>3, <2>5, <3>3
            DEF Promise!Fail, FinalStatus, TypeOK
      <4>2. {r} \in SUBSET Run
            OBVIOUS
      <4> QED BY <4>1, <4>2 DEF Promise!Next
    <3> QED BY <2>1, <3>1, <3>2, <3>3, FinalType DEF Inv
  <2> QED BY <2>1, <2>4, <2>5
<1> QED BY <1>3, <1>4, <1>5, <1>6, <1>7 DEF Execute

(* Operators, and the process itself: a restart fails the runs it finds    *)
(* open, a deleted repository takes no snapshot row away.                  *)
LEMMA SurroundingsStep ==
  ASSUME Inv, Operator \/ Crash \/ Restart
  PROVE  [Promise!Next]_(Promise!vars)
<1> USE DEF tables, memory, outside, history
<1>1. CASE Crash
      BY <1>1, QuietStutters DEF Crash, Quiet
<1>2. CASE Restart
  <2>1. CASE UNCHANGED status
        BY <1>2, <2>1, QuietStutters DEF Restart, Quiet
  <2>2. CASE status' = [r \in Run |-> IF r \in RunningRows THEN "failed" ELSE status[r]]
    <3>1. Promise!Fail(RunningRows)
          BY <1>2, <2>2 DEF Restart, RunningRows, Promise!Fail, usable
    <3>2. RunningRows \in SUBSET Run
          BY DEF RunningRows
    <3> QED BY <3>1, <3>2 DEF Promise!Next
  <2> QED BY <1>2, <2>1, <2>2 DEF Restart
<1>3. CASE Operator
  <2>1. ASSUME NEW q \in Repo, DeleteRepository(q)
        PROVE  UNCHANGED Promise!vars
        BY <2>1, NoRepoAssumption DEF DeleteRepository, Inv, TypeOK, Promise!vars, usable
  <2>2. CASE \/ \E r \in Run, p \in Project, q \in Repo : Resolve(r, p, q)
             \/ \E r \in Run : CancelRun(r)
             \/ \E p \in Project : RegisterProject(p) \/ RemoveProject(p)
        BY <2>2, QuietStutters
        DEF Resolve, CancelRun, RegisterProject, RemoveProject, Quiet
  <2> QED BY <1>3, <2>1, <2>2 DEF Operator
<1> QED BY <1>1, <1>2, <1>3

(* The runner, the operators, crashes and restarts together never break    *)
(* the promise: completed means read back and recorded, and no outcome is  *)
(* ever taken back.                                                        *)
THEOREM BackupKeepsPromise == Spec => KeepsPromise
<1>1. Init => Promise!Init
      BY DEF Init, Promise!Init, usable
<1>2. Inv /\ [Next]_vars => [Promise!Next]_(Promise!vars)
  <2> SUFFICES ASSUME Inv, [Next]_vars PROVE [Promise!Next]_(Promise!vars)
      OBVIOUS
  <2>1. CASE UNCHANGED vars
        BY <2>1, QuietStutters DEF vars, tables, history, Quiet
  <2> QED BY <2>1, BeginStep, ExecuteStep, SurroundingsStep DEF Next
<1> QED BY <1>1, <1>2, Invariance, PTL DEF Spec, KeepsPromise, Promise!Spec

=============================================================================
