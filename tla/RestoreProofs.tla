----------------------------- MODULE RestoreProofs -----------------------------
(***************************************************************************)
(* Theorems about Restore, for any number of snapshots, databases and      *)
(* restores.                                                               *)
(***************************************************************************)
EXTENDS Restore, TLAPS

-----------------------------------------------------------------------------
(* The inductive invariant.                                                *)

(* Whoever works on a snapshot is whom the snapshot is reserved for.       *)
WorksOnReserved ==
  \A r \in Run : pc[r] \in Holding => bySnapshot[job[r].snapshot] = r

(* A database restore loads an export that its snapshot carries; only such *)
(* a restore gets as far as a database.                                    *)
LoadsCarriedExport ==
  \A r \in Run :
    /\ pc[r] \in Holding /\ job[r].mode = "database"
         => job[r].database \in ExportOf[job[r].snapshot]
    /\ pc[r] \in {"uploading", "opening", "loading", "removing"} => job[r].mode = "database"
    /\ pc[r] \in {"uploading", "opening", "loading"} => job[r].source \in Source

(* A run writes into its database from "loading" on.                       *)
TouchedByLoading ==
  \A r \in Run :
    /\ r \in touched => pc[r] \in {"loading", "finishing", "removing", "leaving", "gone"}
    /\ pc[r] = "loading" => r \in touched

(* What is about to be said of the database, and what was said, is true,   *)
(* and it is said last.                                                    *)
SaysUntouched ==
  \A r \in Run :
    /\ pc[r] = "finishing" /\ job[r].note = "untouched" => r \notin touched
    /\ note[r] = "untouched" => pc[r] \in {"removing", "leaving", "gone"}

(* What is about to be called completed is, and what was called completed  *)
(* loses its directory only if it was loaded from there.                   *)
SaysCompleted ==
  \A r \in Run :
    /\ pc[r] = "finishing" /\ job[r].outcome = "completed"
         => IF job[r].mode = "database" THEN r \in touched ELSE target[r] = "whole"
    /\ status[r] = "completed" => pc[r] \in {"removing", "leaving", "gone"}
    /\ status[r] = "completed" /\ pc[r] = "removing" => r \in touched

(* Where a run has to do with a database.                                  *)
AtDatabase == {"uploading", "opening", "loading"}

(* A load that is alone is: no other run is at its database, and no client *)
(* is left behind there.                                                   *)
AloneIsAlone ==
  \A r \in Run :
    pc[r] \in AtDatabase /\ job[r].alone
      => At(job[r].database) = {r} /\ lingers[job[r].database] = {}

(* It reads what its own snapshot gave it, and meets no other.             *)
LoadsOwnFile ==
  \A r \in Run :
    pc[r] \in AtDatabase /\ job[r].alone =>
      /\ job[r].snapshot \notin Namesake => job[r].source = r
      /\ pc[r] = "opening" /\ job[r].database \in Archived
           => box[job[r].database] = job[r].source
      /\ pc[r] = "loading" => job[r].met = {}

(* Whoever finishes knows how it ended.                                    *)
FinishesDecided == \A r \in Run : pc[r] = "finishing" => job[r].outcome \in Terminal

ReportInv == SaysUntouched /\ UntouchedIsUntouched /\ SaysCompleted /\ CompletedIsWhole
LoadInv   == AloneIsAlone /\ LoadsOwnFile /\ UndisturbedLoadIsWhole

Inv == TypeOK /\ WorksOnReserved /\ ReservationIsHeld /\ LoadsCarriedExport /\ FinishesDecided
         /\ TouchedByLoading /\ ReportInv /\ LoadInv

-----------------------------------------------------------------------------
(* Lemmas about the operators.                                             *)

LEMMA NoJobType == NoJob \in Job /\ NoJob.mode = "extract"
  BY SomeSnapshot DEF NoJob, NewJob, Job, Mode, Terminal, Source, Origin

LEMMA NewJobType ==
  ASSUME NEW s \in Snapshot, NEW m \in Mode, NEW d \in Database \union {NoDatabase}
  PROVE  /\ NewJob(s, m, d) \in Job
         /\ NewJob(s, m, d).snapshot = s
         /\ NewJob(s, m, d).mode = m
         /\ NewJob(s, m, d).database = d
  BY DEF NewJob, Job, Mode, Terminal, Source, Origin

(* A decision is noted in the run's own job, which goes on to finish.      *)
LEMMA DecidedLeaving ==
  ASSUME TypeOK, NEW r \in Run, NEW outcome \in Terminal,
         NEW why \in {"none", "untouched", "partial", "failed"},
         NEW left \in SUBSET Origin, DecideLeaving(r, outcome, why, left)
  PROVE  /\ job' \in [Run -> Job]
         /\ pc' = [pc EXCEPT ![r] = "finishing"]
         /\ job'[r].outcome = outcome /\ job'[r].note = why
         /\ job'[r].left = left
         /\ job'[r].snapshot = job[r].snapshot
         /\ job'[r].mode = job[r].mode
         /\ job'[r].database = job[r].database
         /\ job'[r].source = job[r].source
         /\ job'[r].alone = job[r].alone
         /\ \A q \in Run \ {r} : job'[q] = job[q]
<1> DEFINE new == [job[r] EXCEPT !.outcome = outcome, !.note = why, !.left = left]
<1>1. job[r] \in Job /\ job \in [Run -> Job]
      BY DEF TypeOK
<1>2. /\ new \in Job
      /\ new.outcome = outcome /\ new.note = why /\ new.left = left
      /\ new.snapshot = job[r].snapshot
      /\ new.mode = job[r].mode
      /\ new.database = job[r].database
      /\ new.source = job[r].source
      /\ new.alone = job[r].alone
      BY <1>1 DEF Job
<1>3. job' = [job EXCEPT ![r] = new]
      BY DEF DecideLeaving
<1>4. pc' = [pc EXCEPT ![r] = "finishing"]
      BY DEF DecideLeaving, Goto
<1> HIDE DEF new
<1>5. /\ job' \in [Run -> Job] /\ job'[r] = new
      /\ \A q \in Run \ {r} : job'[q] = job[q]
      BY <1>1, <1>2, <1>3
<1> QED BY <1>2, <1>4, <1>5

LEMMA Decided ==
  ASSUME TypeOK, NEW r \in Run, NEW outcome \in Terminal,
         NEW why \in {"none", "untouched", "partial", "failed"}, Decide(r, outcome, why)
  PROVE  /\ job' \in [Run -> Job]
         /\ pc' = [pc EXCEPT ![r] = "finishing"]
         /\ job'[r].outcome = outcome /\ job'[r].note = why
         /\ job'[r].snapshot = job[r].snapshot
         /\ job'[r].mode = job[r].mode
         /\ job'[r].database = job[r].database
         /\ \A q \in Run \ {r} : job'[q] = job[q]
<1>1. DecideLeaving(r, outcome, why, {}) /\ {} \in SUBSET Origin
      BY DEF Decide
<1> QED BY <1>1, DecidedLeaving

(* A run that is stopped is never called completed.                        *)
LEMMA Stopped ==
  ASSUME TypeOK, NEW r \in Run, NEW why \in {"none", "untouched", "partial", "failed"},
         Stop(r, why)
  PROVE  \E outcome \in {"cancelled", "failed"}, said \in {why, "failed"} :
           Decide(r, outcome, said)
  BY DEF Stop

(* A run that loads does so into a database.                               *)
LEMMA LoaderType ==
  ASSUME TypeOK, LoadsCarriedExport, NEW r \in Run,
         pc[r] \in {"uploading", "opening", "loading"}
  PROVE  job[r].database \in Database /\ job[r].database \in ExportOf[job[r].snapshot]
<1>1. job[r].mode = "database" /\ pc[r] \in Holding
      BY DEF LoadsCarriedExport, Holding, Executing
<1>2. job[r].database \in ExportOf[job[r].snapshot]
      BY <1>1 DEF LoadsCarriedExport
<1>3. job[r].snapshot \in Snapshot
      BY DEF TypeOK, Job
<1> QED BY <1>2, <1>3, ExportAssumption

(* What a load may leave consists of what the origins of objects are.      *)
LEMMA LoadedType ==
  ASSUME TypeOK, NEW r \in Run, job[r].source \in Source, NEW left \in Loaded(r),
         job[r].database \in Database
  PROVE  left \in SUBSET Origin
<1>1. job[r].met \subseteq Source /\ live[job[r].database] \subseteq Origin
      BY DEF TypeOK, Job
<1> QED BY <1>1 DEF Loaded, Origin

(* A load that ends well.                                                  *)
LEMMA LoadEnds ==
  ASSUME TypeOK, LoadsCarriedExport, NEW r \in Run, Load(r)
  PROVE  /\ job' \in [Run -> Job]
         /\ pc' = [pc EXCEPT ![r] = "finishing"]
         /\ job'[r].outcome = "completed" /\ job'[r].note = "none"
         /\ job'[r].left \in Loaded(r)
         /\ live' = [live EXCEPT ![job[r].database] = job'[r].left]
         /\ live' \in [Database -> SUBSET Origin]
         /\ job'[r].snapshot = job[r].snapshot
         /\ job'[r].mode = job[r].mode
         /\ job'[r].database = job[r].database
         /\ job'[r].source = job[r].source
         /\ job'[r].alone = job[r].alone
         /\ \A q \in Run \ {r} : job'[q] = job[q]
<1>1. PICK left \in Loaded(r) : /\ live' = [live EXCEPT ![job[r].database] = left]
                                /\ DecideLeaving(r, "completed", "none", left)
      BY DEF Load
<1>2. job[r].database \in Database /\ job[r].source \in Source
      BY LoaderType DEF Load, LoadsCarriedExport
<1>3. left \in SUBSET Origin
      BY <1>2, LoadedType
<1>4. live' \in [Database -> SUBSET Origin]
      BY <1>1, <1>3 DEF TypeOK
<1>5. "completed" \in Terminal /\ "none" \in {"none", "untouched", "partial", "failed"}
      BY DEF Terminal
<1>6. /\ job' \in [Run -> Job]
      /\ pc' = [pc EXCEPT ![r] = "finishing"]
      /\ job'[r].outcome = "completed" /\ job'[r].note = "none"
      /\ job'[r].left = left
      /\ job'[r].snapshot = job[r].snapshot
      /\ job'[r].mode = job[r].mode
      /\ job'[r].database = job[r].database
      /\ job'[r].source = job[r].source
      /\ job'[r].alone = job[r].alone
      /\ \A q \in Run \ {r} : job'[q] = job[q]
      BY <1>1, <1>3, <1>5, DecidedLeaving
<1> QED BY <1>1, <1>4, <1>6

(* An export that was extracted for a load.                                *)
LEMMA Begun ==
  ASSUME TypeOK, NEW r \in Run, ExtractExport(r)
  PROVE  LET d == job[r].database IN
         /\ job' \in [Run -> Job]
         /\ job'[r].source \in Source
         /\ job[r].snapshot \notin Namesake => job'[r].source = r
         /\ job'[r].alone = (At(d) = {} /\ lingers[d] = {})
         /\ \A q \in Run : /\ job'[q].snapshot = job[q].snapshot
                           /\ job'[q].mode = job[q].mode
                           /\ job'[q].database = job[q].database
                           /\ job'[q].outcome = job[q].outcome
                           /\ job'[q].note = job[q].note
                           /\ job'[q].left = job[q].left
                           /\ job'[q].met = job[q].met
         /\ \A q \in Run \ {r} : /\ job'[q].source = job[q].source
                                 /\ job'[q].alone => job[q].alone
                                 /\ q \in At(d) => ~job'[q].alone
                                 /\ q \notin At(d) => job'[q] = job[q]
<1> DEFINE d == job[r].database
           first == At(d) = {} /\ lingers[d] = {}
<1>1. PICK file \in {r} \union {f \in {Stray} : job[r].snapshot \in Namesake} :
        job' = [q \in Run |->
                 IF q = r THEN [job[q] EXCEPT !.source = file, !.alone = first]
                 ELSE IF q \in At(d) THEN [job[q] EXCEPT !.alone = FALSE]
                 ELSE job[q]]
      BY DEF ExtractExport
<1>2. /\ file \in Source
      /\ job[r].snapshot \notin Namesake => file = r
      BY DEF Source
<1>3. first \in BOOLEAN
      OBVIOUS
<1> HIDE DEF first
<1> DEFINE next(q) == IF q = r THEN [job[q] EXCEPT !.source = file, !.alone = first]
                      ELSE IF q \in At(d) THEN [job[q] EXCEPT !.alone = FALSE]
                      ELSE job[q]
<1>4. job' = [q \in Run |-> next(q)]
      BY <1>1
<1>5. ASSUME NEW q \in Run
      PROVE  /\ next(q) \in Job
             /\ next(q).snapshot = job[q].snapshot
             /\ next(q).mode = job[q].mode
             /\ next(q).database = job[q].database
             /\ next(q).outcome = job[q].outcome
             /\ next(q).note = job[q].note
             /\ next(q).left = job[q].left
             /\ next(q).met = job[q].met
             /\ q = r => next(q).source = file /\ next(q).alone = first
             /\ q # r => /\ next(q).source = job[q].source
                         /\ (next(q).alone => job[q].alone)
                         /\ (q \in At(d) => ~next(q).alone)
                         /\ (q \notin At(d) => next(q) = job[q])
  <2>1. job[q] \in Job
        BY DEF TypeOK
  <2> HIDE DEF d
  <2>2. CASE q = r
        BY <1>2, <1>3, <2>1, <2>2 DEF Job
  <2>3. CASE q # r /\ q \in At(d)
        BY <2>1, <2>3 DEF Job
  <2>4. CASE q # r /\ q \notin At(d)
        BY <2>1, <2>4
  <2> QED BY <2>2, <2>3, <2>4
<1> HIDE DEF next
<1>6. \A q \in Run : job'[q] = next(q)
      BY <1>4
<1>7. job' \in [Run -> Job]
      BY <1>4, <1>5
<1>8. job'[r].alone = first
      BY <1>5, <1>6
<1> QED BY <1>2, <1>5, <1>6, <1>7, <1>8 DEF first

(* A load that begins.                                                     *)
LEMMA Opened ==
  ASSUME TypeOK, LoadsCarriedExport, NEW r \in Run, OpenLoad(r)
  PROVE  LET d == job[r].database
             s == IF d \in Archived THEN box[d] ELSE job[r].source
         IN /\ job' \in [Run -> Job]
            /\ s \in Source
            /\ job'[r].source = s
            /\ job'[r].met = lingers[d] \union {job[x].source : x \in Loading(d)}
            /\ \A q \in Run : /\ job'[q].snapshot = job[q].snapshot
                              /\ job'[q].mode = job[q].mode
                              /\ job'[q].database = job[q].database
                              /\ job'[q].outcome = job[q].outcome
                              /\ job'[q].note = job[q].note
                              /\ job'[q].alone = job[q].alone
                              /\ job'[q].left = job[q].left
            /\ \A q \in Run \ {r} : job'[q].source = job[q].source
            /\ \A q \in Run \ {r} : q \notin Loading(d) => job'[q] = job[q]
<1> DEFINE d == job[r].database
           s == IF d \in Archived THEN box[d] ELSE job[r].source
           found == lingers[d] \union {job[x].source : x \in Loading(d)}
           next(q) == IF q = r THEN [job[q] EXCEPT !.source = s, !.met = found]
                      ELSE IF q \in Loading(d) THEN [job[q] EXCEPT !.met = @ \union {s}]
                      ELSE job[q]
<1>0. d \in Database /\ job[r].source \in Source
      BY LoaderType DEF OpenLoad, LoadsCarriedExport
<1>1. s \in Source
      BY <1>0, NoRunAssumption DEF TypeOK, OpenLoad
<1>2. found \subseteq Source
      BY <1>0 DEF LoadsCarriedExport, Loading, TypeOK
<1>3. job' = [q \in Run |-> next(q)]
      BY DEF OpenLoad
<1>4. ASSUME NEW q \in Run
      PROVE  /\ next(q) \in Job
             /\ next(q).snapshot = job[q].snapshot
             /\ next(q).mode = job[q].mode
             /\ next(q).database = job[q].database
             /\ next(q).outcome = job[q].outcome
             /\ next(q).note = job[q].note
             /\ next(q).alone = job[q].alone
             /\ next(q).left = job[q].left
             /\ q # r => next(q).source = job[q].source
  <2>1. job[q] \in Job
        BY DEF TypeOK
  <2> HIDE DEF d, s, found
  <2>2. CASE q = r
        BY <1>1, <1>2, <2>1, <2>2 DEF Job
  <2>3. CASE q # r /\ q \in Loading(d)
        BY <1>1, <2>1, <2>3 DEF Job
  <2>4. CASE q # r /\ q \notin Loading(d)
        BY <2>1, <2>4
  <2> QED BY <2>2, <2>3, <2>4
<1>5. job'[r].source = s /\ job'[r].met = found
  <2>1. job[r] \in Job
        BY DEF TypeOK
  <2> HIDE DEF d, s, found
  <2> QED BY <1>3, <2>1 DEF Job
<1>6. \A q \in Run \ {r} : q \notin Loading(d) => job'[q] = job[q]
      BY <1>3
<1> HIDE DEF next
<1>7. \A q \in Run : job'[q] = next(q)
      BY <1>3
<1>8. job' \in [Run -> Job]
      BY <1>3, <1>4
<1> QED BY <1>1, <1>4, <1>5, <1>6, <1>7, <1>8

(* The steps of a run.                                                     *)
Step(r) == Begin(r) \/ Execute(r)

-----------------------------------------------------------------------------
(* Type correctness.                                                       *)

LEMMA TypeInit == Init => TypeOK
  BY NoJobType DEF Init, TypeOK, Origin

LEMMA TypeStart ==
  ASSUME TypeOK, NEW r \in Run, Begin(r)
  PROVE  TypeOK'
<1>1. ASSUME NEW s \in Snapshot, NEW m \in Mode, NEW d \in Database \union {NoDatabase},
             Reserve(r, s, m, d)
      PROVE  TypeOK'
      BY <1>1, NewJobType DEF TypeOK, Reserve, Goto, tables, world, Holding
<1>2. ASSUME NEW s \in Snapshot, Refuse(r, s) PROVE TypeOK'
      BY <1>2, NoJobType DEF TypeOK, Refuse, Vanish, Goto, tables, memory, world
<1>3. CASE MakeTarget(r)
      BY <1>3 DEF TypeOK, MakeTarget, Goto, tables, memory, Holding
<1>4. CASE InsertRun(r)
      BY <1>4 DEF TypeOK, InsertRun, Goto, memory, world, Holding
<1>5. CASE StartFails(r)
      BY <1>5, NoJobType DEF TypeOK, StartFails, Release, Vanish, Goto, tables, world
<1>6. CASE Launch(r)
      BY <1>6 DEF TypeOK, Launch, Goto, tables, world, Holding, Executing
<1>7. CASE CancelRun(r)
      BY <1>7 DEF TypeOK, CancelRun, tables, run, world
<1> QED BY <1>1, <1>2, <1>3, <1>4, <1>5, <1>6, <1>7 DEF Begin, Prepare

LEMMA TypeGoroutine ==
  ASSUME TypeOK, LoadsCarriedExport, FinishesDecided, NEW r \in Run, Execute(r)
  PROVE  TypeOK'
<1>1. CASE Extract(r)
  <2>1. target' \in [Run -> {"absent", "empty", "part", "whole"}]
        BY <1>1 DEF TypeOK, Extract, ExtractAll, ExtractExport
  <2>2. job' \in [Run -> Job] /\ pc' \in [Run -> {"idle", "gone"} \union Holding]
    <3>1. CASE ExtractAll(r)
          BY <3>1, Decided DEF TypeOK, ExtractAll, Terminal, Holding, Executing
    <3>2. CASE ExtractExport(r)
      <4>1. job' \in [Run -> Job]
            BY <3>2, Begun
      <4>2. pc' \in {[pc EXCEPT ![r] = "uploading"], [pc EXCEPT ![r] = "opening"]}
            BY <3>2 DEF ExtractExport, Goto
      <4> QED BY <4>1, <4>2 DEF TypeOK, Holding, Executing
    <3> QED BY <1>1, <3>1, <3>2 DEF Extract
  <2>3. UNCHANGED <<up, tables, memory, live, box, lingers, touched>>
        BY <1>1 DEF Extract, ExtractAll, ExtractExport
  <2> QED BY <2>1, <2>2, <2>3 DEF TypeOK, tables, memory
<1>2. CASE ExtractFails(r)
  <2>1. \E outcome \in Terminal, why \in {"none", "untouched", "partial", "failed"} :
          Decide(r, outcome, why)
        BY <1>2, Stopped DEF ExtractFails, Terminal
  <2>2. job' \in [Run -> Job] /\ pc' \in [Run -> {"idle", "gone"} \union Holding]
        BY <2>1, Decided DEF TypeOK, Holding, Executing
  <2>3. target' \in [Run -> {"absent", "empty", "part", "whole"}]
        BY <1>2 DEF TypeOK, ExtractFails
  <2> QED BY <1>2, <2>2, <2>3 DEF TypeOK, ExtractFails, tables, memory
<1>3. CASE Upload(r)
  <2>1. job[r].source \in Source
        BY <1>3 DEF Upload, LoadsCarriedExport
  <2> QED BY <1>3, <2>1 DEF TypeOK, Upload, Goto, tables, memory, Holding, Executing
<1>4. CASE OpenLoad(r)
  <2>1. job' \in [Run -> Job]
        BY <1>4, Opened
  <2>2. live' \in [Database -> SUBSET Origin]
    <3>1. PICK s \in Source : live' = [live EXCEPT ![job[r].database] = @ \union {s}]
          BY <1>4, Opened, Zenon DEF OpenLoad
    <3> QED BY <3>1 DEF TypeOK, Origin
  <2>3. /\ pc' = [pc EXCEPT ![r] = "loading"]
        /\ touched' = touched \union {r}
        /\ UNCHANGED <<up, tables, memory, target, box, lingers>>
        BY <1>4 DEF OpenLoad, Goto
  <2>4. pc' \in [Run -> {"idle", "gone"} \union Holding]
        BY <2>3 DEF TypeOK, Holding, Executing
  <2> QED BY <2>1, <2>2, <2>3, <2>4 DEF TypeOK, tables, memory
<1>5. CASE Load(r)
  <2>1. /\ job' \in [Run -> Job] /\ pc' \in [Run -> {"idle", "gone"} \union Holding]
        /\ live' \in [Database -> SUBSET Origin]
        BY <1>5, LoadEnds DEF TypeOK, Holding, Executing
  <2>2. box' \in [Database -> Source \union {NoRun}]
        BY <1>5 DEF TypeOK, Load
  <2> QED BY <1>5, <2>1, <2>2 DEF TypeOK, Load, tables, memory
<1>6. CASE LoadFails(r)
  <2>0. job[r].database \in Database /\ job[r].source \in Source
        BY <1>6, LoaderType DEF LoadFails, LoadsCarriedExport
  <2>1. \E outcome \in Terminal, why \in {"none", "untouched", "partial", "failed"} :
          Decide(r, outcome, why)
        BY <1>6, Stopped DEF LoadFails, Terminal
  <2>2. job' \in [Run -> Job] /\ pc' \in [Run -> {"idle", "gone"} \union Holding]
        BY <2>1, Decided DEF TypeOK, Holding, Executing
  <2>3. live' \in [Database -> SUBSET Origin]
        BY <1>6, <2>0, LoadedType DEF TypeOK, LoadFails
  <2>4. box' \in [Database -> Source \union {NoRun}]
        BY <1>6, <2>0 DEF TypeOK, LoadFails, Cleared
  <2>5. lingers' \in [Database -> SUBSET Source]
        BY <1>6, <2>0 DEF TypeOK, LoadFails
  <2> QED BY <1>6, <2>2, <2>3, <2>4, <2>5 DEF TypeOK, LoadFails, tables, memory
<1>7. CASE Finish(r)
  <2>1. job[r].outcome \in Terminal
        BY <1>7 DEF Finish, FinishesDecided
  <2>2. job[r].note \in {"none", "untouched", "partial", "failed"}
        BY DEF TypeOK, Job
  <2>3. /\ status' \in [Run -> {"absent", "running"} \union Terminal]
        /\ note' \in [Run -> {"none", "untouched", "partial", "failed", "interrupted"}]
        BY <1>7, <2>1, <2>2 DEF TypeOK, Finish
  <2>4. audit' \subseteq Terminal \X Run
        BY <1>7, <2>1 DEF TypeOK, Finish
  <2>5. pc' \in [Run -> {"idle", "gone"} \union Holding]
        BY <1>7 DEF TypeOK, Finish, Goto, Holding, Executing
  <2> QED BY <1>7, <2>3, <2>4, <2>5 DEF TypeOK, Finish, memory, world
<1>8. CASE RemoveTarget(r)
      BY <1>8 DEF TypeOK, RemoveTarget, Goto, tables, memory, Holding, Executing
<1>9. CASE Leave(r)
      BY <1>9, NoJobType DEF TypeOK, Leave, Release, Vanish, Goto, tables, world
<1> QED BY <1>1, <1>2, <1>3, <1>4, <1>5, <1>6, <1>7, <1>8, <1>9 DEF Execute

LEMMA TypeStop ==
  ASSUME TypeOK, LoadsCarriedExport, Crash \/ Restart
  PROVE  TypeOK'
<1>1. CASE Crash
  <2>1. PICK on \in SUBSET Run :
          lingers' = [d \in Database |->
                        lingers[d] \union {job[r].source : r \in Loading(d) \intersect on}]
        BY <1>1 DEF Crash
  <2>2. \A d \in Database : {job[r].source : r \in Loading(d) \intersect on} \subseteq Source
        BY DEF Loading, LoadsCarriedExport
  <2>3. lingers' \in [Database -> SUBSET Source]
        BY <2>1, <2>2 DEF TypeOK
  <2> QED BY <1>1, <2>3, NoJobType DEF TypeOK, Crash, tables, Holding
<1>2. CASE Restart
      BY <1>2 DEF TypeOK, Restart, memory, run, world, Terminal
<1> QED BY <1>1, <1>2

-----------------------------------------------------------------------------
(* A step of one run leaves the others where they are, with what they work *)
(* on, what is said of them and their directories.                         *)
LEMMA OthersKept ==
  ASSUME TypeOK, LoadsCarriedExport, NEW r \in Run, Step(r), NEW q \in Run \ {r}
  PROVE  /\ pc'[q] = pc[q]
         /\ job'[q].snapshot = job[q].snapshot
         /\ job'[q].mode = job[q].mode
         /\ job'[q].database = job[q].database
         /\ job'[q].source = job[q].source
         /\ job'[q].outcome = job[q].outcome
         /\ job'[q].note = job[q].note
         /\ status'[q] = status[q]
         /\ note'[q] = note[q]
         /\ target'[q] = target[q]
         /\ job'[q].left = job[q].left
         /\ job'[q].alone => job[q].alone
         /\ pc[q] \notin AtDatabase => job'[q] = job[q]
         /\ q \in touched' <=> q \in touched
<1> USE DEF TypeOK, Goto, tables, memory, run, world
<1>1. ASSUME NEW s \in Snapshot, NEW m \in Mode, NEW d \in Database \union {NoDatabase},
             Reserve(r, s, m, d)
      PROVE  pc'[q] = pc[q] /\ job'[q] = job[q] /\ UNCHANGED <<status, note, target, touched>>
      BY <1>1 DEF Reserve
<1>2. ASSUME NEW s \in Snapshot, Refuse(r, s)
      PROVE  pc'[q] = pc[q] /\ job'[q] = job[q] /\ UNCHANGED <<status, note, target, touched>>
      BY <1>2 DEF Refuse, Vanish
<1>3. CASE Prepare(r) \/ CancelRun(r)
      BY <1>3 DEF Prepare, MakeTarget, InsertRun, StartFails, Release, Vanish, Launch, CancelRun
<1>4. CASE ExtractAll(r) \/ ExtractFails(r)
      BY <1>4 DEF ExtractAll, ExtractFails, Stop, Decide, DecideLeaving
<1>5. CASE Upload(r) \/ Load(r) \/ LoadFails(r)
      BY <1>5 DEF Upload, Load, LoadFails, Stop, Decide, DecideLeaving
<1>6. CASE OpenLoad(r)
  <2>1. q \notin Loading(job[r].database) => job'[q] = job[q]
        BY <1>6, Opened
  <2>2. pc[q] \notin AtDatabase => job'[q] = job[q]
        BY <2>1 DEF Loading, AtDatabase
  <2> QED BY <1>6, <2>2, Opened DEF OpenLoad
<1>8. CASE ExtractExport(r)
  <2>1. /\ q \notin At(job[r].database) => job'[q] = job[q]
        /\ job'[q].alone => job[q].alone
        BY <1>8, Begun
  <2>2. pc[q] \notin AtDatabase => job'[q] = job[q]
        BY <2>1 DEF At, AtDatabase
  <2>3. /\ job'[q].snapshot = job[q].snapshot
        /\ job'[q].mode = job[q].mode
        /\ job'[q].database = job[q].database
        /\ job'[q].source = job[q].source
        /\ job'[q].outcome = job[q].outcome
        /\ job'[q].note = job[q].note
        /\ job'[q].left = job[q].left
        BY <1>8, Begun
  <2>4. /\ pc'[q] = pc[q] /\ target'[q] = target[q]
        /\ UNCHANGED <<status, note, touched>>
        BY <1>8 DEF ExtractExport
  <2> HIDE DEF TypeOK, Goto, tables, memory, run, world
  <2> QED BY <2>1, <2>2, <2>3, <2>4
<1>7. CASE Finish(r) \/ RemoveTarget(r) \/ Leave(r)
      BY <1>7 DEF Finish, RemoveTarget, Leave, Release, Vanish
<1> QED BY <1>1, <1>2, <1>3, <1>4, <1>5, <1>6, <1>7, <1>8 DEF Step, Begin, Execute, Extract

-----------------------------------------------------------------------------
(* The parts of the invariant, preserved by the steps of one run.          *)

(* What the steps of a run keep of its job: the snapshot, the mode and the *)
(* database, from the reservation on.                                      *)
LEMMA JobKept ==
  ASSUME TypeOK, LoadsCarriedExport, NEW r \in Run, Step(r), pc[r] \in Holding,
         pc'[r] # "gone"
  PROVE  /\ job'[r].snapshot = job[r].snapshot
         /\ job'[r].mode = job[r].mode
         /\ job'[r].database = job[r].database
<1> USE DEF TypeOK, Goto, Holding, Executing
<1>1. pc[r] # "idle"
      OBVIOUS
<1>2. CASE Prepare(r) \/ CancelRun(r)
      BY <1>2 DEF Prepare, MakeTarget, InsertRun, StartFails, Vanish, Launch, CancelRun, run
<1>3. CASE Extract(r)
  <2>1. CASE ExtractAll(r)
        BY <2>1, Decided DEF ExtractAll, Terminal
  <2>2. CASE ExtractExport(r)
        BY <2>2, Begun
  <2> QED BY <1>3, <2>1, <2>2 DEF Extract
<1>4. CASE ExtractFails(r) \/ LoadFails(r)
  <2>1. \E outcome \in Terminal, why \in {"none", "untouched", "partial", "failed"} :
          Decide(r, outcome, why)
        BY <1>4, Stopped DEF ExtractFails, LoadFails, Terminal
  <2> QED BY <2>1, Decided
<1>5. CASE OpenLoad(r) \/ Load(r)
      BY <1>5, Opened, LoadEnds
<1>6. CASE Upload(r) \/ Finish(r) \/ RemoveTarget(r)
      BY <1>6 DEF Upload, Finish, RemoveTarget
<1>7. CASE Leave(r)
      BY <1>7 DEF Leave, Vanish
<1>8. CASE \/ \E s \in Snapshot, m \in Mode, d \in Database \union {NoDatabase} : Reserve(r, s, m, d)
           \/ \E s \in Snapshot : Refuse(r, s)
      BY <1>1, <1>8 DEF Reserve, Refuse
<1> QED BY <1>2, <1>3, <1>4, <1>5, <1>6, <1>7, <1>8 DEF Step, Begin, Execute

(* What a step does to the reservations.                                   *)
LEMMA ReservationsKept ==
  ASSUME TypeOK, NEW r \in Run, Step(r)
  PROVE  \A s \in Snapshot :
           \/ bySnapshot'[s] = bySnapshot[s]
           \/ bySnapshot[s] = NoRun /\ pc[r] = "idle"
           \/ bySnapshot[s] = r /\ pc'[r] = "gone"
<1> USE DEF TypeOK, Goto, memory
<1>1. ASSUME NEW s \in Snapshot, NEW m \in Mode, NEW d \in Database \union {NoDatabase},
             Reserve(r, s, m, d)
      PROVE  \A t \in Snapshot :
               bySnapshot'[t] = bySnapshot[t] \/ (bySnapshot[t] = NoRun /\ pc[r] = "idle")
      BY <1>1 DEF Reserve
<1>2. CASE StartFails(r) \/ Leave(r)
      BY <1>2 DEF StartFails, Leave, Release, Vanish
<1>3. ASSUME NEW s \in Snapshot, Refuse(r, s) PROVE UNCHANGED bySnapshot
      BY <1>3 DEF Refuse
<1>4. CASE MakeTarget(r) \/ InsertRun(r) \/ Launch(r) \/ CancelRun(r)
      BY <1>4 DEF MakeTarget, InsertRun, Launch, CancelRun
<1>5. CASE Extract(r) \/ ExtractFails(r) \/ Upload(r) \/ OpenLoad(r) \/ Load(r)
             \/ LoadFails(r) \/ Finish(r) \/ RemoveTarget(r)
      BY <1>5 DEF Extract, ExtractAll, ExtractExport, ExtractFails, Upload, OpenLoad, Load,
         LoadFails, Finish, RemoveTarget
<1> QED BY <1>1, <1>2, <1>3, <1>4, <1>5 DEF Step, Begin, Prepare, Execute

LEMMA WorksOnReservedStep ==
  ASSUME TypeOK, WorksOnReserved, LoadsCarriedExport, NEW r \in Run, Step(r)
  PROVE  WorksOnReserved'
<1> SUFFICES ASSUME NEW q \in Run, pc'[q] \in Holding
             PROVE  bySnapshot'[job'[q].snapshot] = q
    BY DEF WorksOnReserved
<1>0. job[q].snapshot \in Snapshot /\ q # NoRun
      BY NoRunAssumption DEF TypeOK, Job
<1>1. CASE q # r
  <2>1. pc[q] \in Holding /\ job'[q].snapshot = job[q].snapshot
        BY <1>1, OthersKept
  <2>2. bySnapshot[job[q].snapshot] = q
        BY <2>1 DEF WorksOnReserved
  <2> QED BY <1>0, <1>1, <2>1, <2>2, ReservationsKept
<1>2. CASE q = r /\ pc[r] \in Holding
  <2>1. pc'[q] # "gone" /\ pc[r] # "idle"
        BY <1>2 DEF Holding, Executing
  <2>2. job'[q].snapshot = job[q].snapshot
        BY <1>2, <2>1, JobKept
  <2>3. bySnapshot[job[q].snapshot] = q
        BY <1>2 DEF WorksOnReserved
  <2> QED BY <1>0, <1>2, <2>1, <2>2, <2>3, ReservationsKept
<1>3. CASE q = r /\ pc[r] \notin Holding
  <2>1. \E s \in Snapshot, m \in Mode, d \in Database \union {NoDatabase} : Reserve(r, s, m, d)
    <3>1. ~Prepare(r) /\ ~Execute(r)
          BY <1>3 DEF Prepare, Execute, MakeTarget, InsertRun, StartFails, Launch, Extract,
             ExtractAll, ExtractExport, ExtractFails, Upload, OpenLoad, Load, LoadFails, Finish, RemoveTarget, Leave,
             Holding, Executing
    <3>2. ASSUME NEW s \in Snapshot, Refuse(r, s) PROVE FALSE
          BY <1>3, <3>2 DEF TypeOK, Refuse, Vanish, Goto, Holding, Executing
    <3>3. ~CancelRun(r)
          BY <1>3 DEF CancelRun, run
    <3> QED BY <3>1, <3>2, <3>3 DEF Step, Begin
  <2>2. PICK s \in Snapshot, m \in Mode, d \in Database \union {NoDatabase} : Reserve(r, s, m, d)
        BY <2>1
  <2>3. job'[r] = NewJob(s, m, d) /\ bySnapshot'[s] = r
        BY <2>2 DEF TypeOK, Reserve
  <2> QED BY <1>3, <2>3, NewJobType
<1> QED BY <1>1, <1>2, <1>3

(* The way of a run: what is known of the step that brings it to a point.  *)
LEMMA Way ==
  ASSUME TypeOK, LoadsCarriedExport, NEW r \in Run, Step(r), pc'[r] # pc[r]
  PROVE  /\ pc'[r] \in {"reserved", "made", "inserted", "extracting", "uploading", "opening",
                        "loading", "finishing", "removing", "leaving", "gone"}
         /\ pc'[r] = "uploading" => Extract(r) /\ job[r].mode = "database"
         /\ pc'[r] = "opening" =>
              \/ Extract(r) /\ job[r].mode = "database" /\ job[r].database \notin Archived
              \/ Upload(r)
         /\ pc'[r] = "loading" => OpenLoad(r)
         /\ pc'[r] = "finishing" =>
              \/ Extract(r) /\ job[r].mode = "extract"
              \/ ExtractFails(r) \/ Load(r) \/ LoadFails(r)
         /\ pc'[r] = "removing" => Finish(r) /\ job[r].mode = "database"
         /\ pc'[r] = "leaving" => \/ Finish(r) /\ job[r].mode = "extract"
                                  \/ RemoveTarget(r)
<1> USE DEF TypeOK, Goto
<1>0. job[r].mode \in Mode
      BY DEF Job
<1>1. ASSUME NEW s \in Snapshot, NEW m \in Mode, NEW d \in Database \union {NoDatabase},
             Reserve(r, s, m, d)
      PROVE  pc'[r] = "reserved"
      BY <1>1 DEF Reserve
<1>2. ASSUME NEW s \in Snapshot, Refuse(r, s) PROVE pc'[r] = "gone"
      BY <1>2 DEF Refuse, Vanish
<1>3. CASE Prepare(r) \/ CancelRun(r)
      BY <1>3 DEF Prepare, MakeTarget, InsertRun, StartFails, Vanish, Launch, CancelRun, run
<1>4. CASE Extract(r)
      BY <1>0, <1>4 DEF Extract, ExtractAll, ExtractExport, Decide, DecideLeaving, Mode
<1>5. CASE ExtractFails(r) \/ Load(r) \/ LoadFails(r)
      BY <1>5 DEF ExtractFails, Load, LoadFails, Stop, Decide, DecideLeaving
<1>6. CASE Upload(r)
      BY <1>6 DEF Upload
<1>7. CASE OpenLoad(r)
      BY <1>7 DEF OpenLoad
<1>8. CASE Finish(r)
      BY <1>0, <1>8 DEF Finish, Mode
<1>9. CASE RemoveTarget(r) \/ Leave(r)
      BY <1>9 DEF RemoveTarget, Leave, Vanish
<1> QED BY <1>1, <1>2, <1>3, <1>4, <1>5, <1>6, <1>7, <1>8, <1>9 DEF Step, Begin, Execute

(* A step reserves nothing but for its own run, which it sends on its way, *)
(* and a run that goes takes its reservation with it.                      *)
LEMMA ReservedBy ==
  ASSUME TypeOK, NEW r \in Run, Step(r), NEW s \in Snapshot
  PROVE  /\ \/ bySnapshot'[s] \in {bySnapshot[s], NoRun}
            \/ bySnapshot'[s] = r /\ pc'[r] = "reserved" /\ job'[r].snapshot = s
         /\ bySnapshot[s] = r /\ job[r].snapshot = s /\ pc'[r] = "gone" /\ pc[r] \in Holding
              => bySnapshot'[s] = NoRun
<1> USE DEF TypeOK, Goto, memory, Holding, Executing
<1>1. ASSUME NEW t \in Snapshot, NEW m \in Mode, NEW d \in Database \union {NoDatabase},
             Reserve(r, t, m, d)
      PROVE  /\ pc[r] = "idle" /\ pc'[r] = "reserved" /\ job'[r].snapshot = t
             /\ bySnapshot' = [bySnapshot EXCEPT ![t] = r]
      BY <1>1, NewJobType DEF Reserve
<1>2. CASE StartFails(r) \/ Leave(r)
      BY <1>2 DEF StartFails, Leave, Release
<1>3. ASSUME NEW t \in Snapshot, Refuse(r, t) PROVE pc[r] = "idle" /\ UNCHANGED bySnapshot
      BY <1>3 DEF Refuse
<1>4. CASE CancelRun(r)
      BY <1>4 DEF CancelRun, run, Release
<1>5. CASE MakeTarget(r) \/ InsertRun(r) \/ Launch(r) \/ Upload(r) \/ OpenLoad(r)
             \/ Extract(r) \/ Finish(r) \/ RemoveTarget(r)
      BY <1>5 DEF MakeTarget, InsertRun, Launch, Upload, OpenLoad, Extract, ExtractAll,
         ExtractExport, Finish, RemoveTarget, Decide, DecideLeaving
<1>6. CASE ExtractFails(r) \/ Load(r) \/ LoadFails(r)
      BY <1>6 DEF ExtractFails, Load, LoadFails, Stop, Decide, DecideLeaving
<1> QED BY <1>1, <1>2, <1>3, <1>4, <1>5, <1>6 DEF Step, Begin, Prepare, Execute

LEMMA ReservationIsHeldStep ==
  ASSUME TypeOK, ReservationIsHeld, LoadsCarriedExport, NEW r \in Run, Step(r)
  PROVE  ReservationIsHeld'
<1> SUFFICES ASSUME NEW s \in Snapshot, NEW q \in Run, bySnapshot'[s] = q
             PROVE  pc'[q] \in Holding /\ job'[q].snapshot = s
    BY DEF ReservationIsHeld
<1>1. CASE bySnapshot'[s] # bySnapshot[s]
  <2>1. q # NoRun
        BY NoRunAssumption
  <2>2. q = r /\ pc'[r] = "reserved" /\ job'[r].snapshot = s
        BY <1>1, <2>1, ReservedBy
  <2> QED BY <2>2 DEF Holding
<1>2. CASE bySnapshot'[s] = bySnapshot[s]
  <2>1. pc[q] \in Holding /\ job[q].snapshot = s
        BY <1>2 DEF ReservationIsHeld
  <2>2. CASE q # r
        BY <2>1, <2>2, OthersKept
  <2>3. CASE q = r
    <3>1. q # NoRun
          BY NoRunAssumption
    <3>2. pc'[r] # "gone"
      <4>1. bySnapshot[s] = r /\ bySnapshot'[s] # NoRun
            BY <1>2, <2>3, <3>1
      <4>2. pc[r] \in Holding /\ job[r].snapshot = s
            BY <2>1, <2>3
      <4> QED BY <4>1, <4>2, ReservedBy
    <3>3. job'[r].snapshot = s
          BY <2>1, <2>3, <3>2, JobKept
    <3>4. pc'[r] \in Holding
          BY <2>1, <2>3, <3>2, Way DEF Holding, Executing
    <3> QED BY <2>3, <3>3, <3>4
  <2> QED BY <2>2, <2>3
<1> QED BY <1>1, <1>2

(* From where a run may take the steps that write.                         *)
LEMMA From ==
  ASSUME NEW r \in Run
  PROVE  /\ Extract(r) \/ ExtractFails(r) => pc[r] = "extracting"
         /\ Upload(r) => pc[r] = "uploading"
         /\ OpenLoad(r) => pc[r] = "opening"
         /\ Load(r) => pc[r] = "loading"
         /\ LoadFails(r) => pc[r] \in {"uploading", "opening", "loading"}
         /\ Finish(r) => pc[r] = "finishing"
         /\ RemoveTarget(r) => pc[r] = "removing"
  BY DEF Extract, ExtractAll, ExtractExport, ExtractFails, Upload, OpenLoad, Load, LoadFails,
     Finish, RemoveTarget

(* How a run comes to a point at its database.                             *)
LEMMA Near ==
  ASSUME TypeOK, LoadsCarriedExport, NEW r \in Run, Step(r), pc'[r] \in AtDatabase
  PROVE  \/ pc[r] = "extracting" /\ ExtractExport(r) /\ pc'[r] \in {"uploading", "opening"}
         \/ /\ pc[r] \in AtDatabase
            /\ \/ Upload(r) /\ pc'[r] = "opening"
               \/ OpenLoad(r) /\ pc'[r] = "loading"
               \/ pc'[r] = pc[r] /\ CancelRun(r)
<1> USE DEF TypeOK, Goto, AtDatabase
<1>1. ~ \E s \in Snapshot, m \in Mode, d \in Database \union {NoDatabase} : Reserve(r, s, m, d)
      BY DEF Reserve
<1>2. ~ \E s \in Snapshot : Refuse(r, s)
      BY DEF Refuse, Vanish
<1>3. ~Prepare(r)
      BY DEF Prepare, MakeTarget, InsertRun, StartFails, Vanish, Launch
<1>4. CASE CancelRun(r)
      BY <1>4 DEF CancelRun, run
<1>5. CASE Extract(r)
  <2>1. ~ExtractAll(r)
        BY DEF ExtractAll, Decide, DecideLeaving
  <2> QED BY <1>5, <2>1 DEF Extract, ExtractExport
<1>6. CASE Upload(r) \/ OpenLoad(r)
      BY <1>6 DEF Upload, OpenLoad
<1>7. ~ExtractFails(r) /\ ~Load(r) /\ ~LoadFails(r)
      BY DEF ExtractFails, Load, LoadFails, Stop, Decide, DecideLeaving
<1>8. ~Finish(r) /\ ~RemoveTarget(r) /\ ~Leave(r)
      BY DEF Finish, RemoveTarget, Leave, Vanish
<1> QED BY <1>1, <1>2, <1>3, <1>4, <1>5, <1>6, <1>7, <1>8 DEF Step, Begin, Execute

LEMMA LoadsCarriedExportStep ==
  ASSUME TypeOK, LoadsCarriedExport, NEW r \in Run, Step(r)
  PROVE  LoadsCarriedExport'
<1>1. ASSUME NEW q \in Run, q # r
      PROVE  /\ pc'[q] \in Holding /\ job'[q].mode = "database"
                  => job'[q].database \in ExportOf[job'[q].snapshot]
             /\ pc'[q] \in {"uploading", "opening", "loading", "removing"}
                  => job'[q].mode = "database"
             /\ pc'[q] \in {"uploading", "opening", "loading"} => job'[q].source \in Source
      BY <1>1, OthersKept DEF LoadsCarriedExport
<1>2. ASSUME pc'[r] \in Holding, job'[r].mode = "database"
      PROVE  job'[r].database \in ExportOf[job'[r].snapshot]
  <2>1. CASE pc[r] \in Holding
    <3>1. pc'[r] # "gone"
          BY <1>2 DEF Holding, Executing
    <3> QED BY <1>2, <2>1, <3>1, JobKept DEF LoadsCarriedExport
  <2>2. CASE pc[r] \notin Holding
    <3>1. PICK s \in Snapshot, m \in Mode, d \in Database \union {NoDatabase} : Reserve(r, s, m, d)
          BY <1>2, <2>2 DEF TypeOK, Step, Begin, Prepare, Execute, Refuse, MakeTarget, InsertRun,
             StartFails, Launch, CancelRun, Extract, ExtractAll, ExtractExport, ExtractFails,
             Upload, OpenLoad, Load, LoadFails, Finish, RemoveTarget, Leave, Vanish, Goto, run,
             Holding, Executing
    <3>2. job'[r] = NewJob(s, m, d) /\ (m = "database" => d \in ExportOf[s])
          BY <3>1 DEF TypeOK, Reserve
    <3> QED BY <1>2, <3>2, NewJobType
  <2> QED BY <2>1, <2>2
<1>3. ASSUME pc'[r] \in {"uploading", "opening", "loading", "removing"}
      PROVE  job'[r].mode = "database"
  <2>1. job[r].mode = "database" /\ pc[r] \in Holding
        BY <1>3, Way, From DEF LoadsCarriedExport, Holding, Executing
  <2> QED BY <1>3, <2>1, JobKept
<1>4. ASSUME pc'[r] \in {"uploading", "opening", "loading"} PROVE job'[r].source \in Source
  <2>1. CASE OpenLoad(r)
        BY <2>1, Opened
  <2>2. CASE ExtractExport(r)
        BY <2>2, Begun
  <2>3. CASE Upload(r)
        BY <2>3 DEF Upload, LoadsCarriedExport
  <2>4. CASE CancelRun(r) /\ pc[r] \in AtDatabase
        BY <2>4 DEF CancelRun, run, LoadsCarriedExport, AtDatabase
  <2> QED BY <1>4, <2>1, <2>2, <2>3, <2>4, Near DEF AtDatabase
<1> QED BY <1>1, <1>2, <1>3, <1>4, Zenon DEF LoadsCarriedExport

(* A run that stays where it is does nothing but be cancelled.             *)
LEMMA Stays ==
  ASSUME TypeOK, NEW r \in Run, Step(r), pc'[r] = pc[r], pc[r] # "idle", pc[r] # "gone"
  PROVE  CancelRun(r) /\ job' = job /\ UNCHANGED <<status, note, target, touched, live, box, lingers>>
<1> USE DEF TypeOK, Goto
<1>1. CASE Prepare(r)
      BY <1>1 DEF Prepare, MakeTarget, InsertRun, StartFails, Vanish, Launch
<1>2. CASE \/ \E s \in Snapshot, m \in Mode, d \in Database \union {NoDatabase} : Reserve(r, s, m, d)
           \/ \E s \in Snapshot : Refuse(r, s)
      BY <1>2 DEF Reserve, Refuse
<1>3. CASE Execute(r)
      BY <1>3 DEF Execute, Extract, ExtractAll, ExtractExport, ExtractFails, Upload, OpenLoad,
         Load, LoadFails, Stop, Decide, DecideLeaving, Finish, RemoveTarget, Leave, Vanish
<1>4. CASE CancelRun(r)
      BY <1>4 DEF CancelRun, tables, run, world
<1> QED BY <1>1, <1>2, <1>3, <1>4 DEF Step, Begin

LEMMA FinishesDecidedStep ==
  ASSUME TypeOK, LoadsCarriedExport, FinishesDecided, NEW r \in Run, Step(r)
  PROVE  FinishesDecided'
<1>1. ASSUME NEW q \in Run, q # r, pc'[q] = "finishing" PROVE job'[q].outcome \in Terminal
      BY <1>1, OthersKept DEF FinishesDecided
<1>2. ASSUME pc'[r] = "finishing" PROVE job'[r].outcome \in Terminal
  <2>1. CASE pc[r] = "finishing"
        BY <1>2, <2>1, Stays DEF FinishesDecided
  <2>2. CASE pc[r] # "finishing"
    <3>1. \/ Load(r)
          \/ \E outcome \in Terminal, why \in {"none", "untouched", "partial", "failed"} :
               Decide(r, outcome, why)
          BY <1>2, <2>2, Way, Stopped
          DEF Extract, ExtractAll, ExtractExport, ExtractFails, LoadFails, Terminal
    <3> QED BY <3>1, Decided, LoadEnds DEF Terminal
  <2> QED BY <2>1, <2>2
<1> QED BY <1>1, <1>2 DEF FinishesDecided

(* Only the step that opens a load touches a database.                     *)
LEMMA TouchedByOpening ==
  ASSUME TypeOK, NEW r \in Run, Step(r), ~OpenLoad(r)
  PROVE  touched' = touched
  BY DEF Step, Begin, Prepare, Execute, Reserve, Refuse, MakeTarget, InsertRun, StartFails,
     Launch, CancelRun, Extract, ExtractAll, ExtractExport, ExtractFails, Upload, Load, LoadFails, Finish, RemoveTarget, Leave

LEMMA TouchedByLoadingStep ==
  ASSUME TypeOK, LoadsCarriedExport, TouchedByLoading, NEW r \in Run, Step(r)
  PROVE  TouchedByLoading'
<1>1. ASSUME NEW q \in Run, q # r
      PROVE  /\ q \in touched'
                  => pc'[q] \in {"loading", "finishing", "removing", "leaving", "gone"}
             /\ pc'[q] = "loading" => q \in touched'
      BY <1>1, OthersKept DEF TouchedByLoading
<1>2. CASE OpenLoad(r)
      BY <1>1, <1>2 DEF TypeOK, OpenLoad, Goto, TouchedByLoading
<1>3. CASE ~OpenLoad(r)
  <2>1. touched' = touched
        BY <1>3, TouchedByOpening
  <2>2. pc'[r] = "loading" => r \in touched'
    <3> SUFFICES ASSUME pc'[r] = "loading" PROVE r \in touched
        BY <2>1
    <3>1. pc[r] = "loading"
          BY <1>3, Way
    <3> QED BY <3>1 DEF TouchedByLoading
  <2>3. r \in touched' => pc'[r] \in {"loading", "finishing", "removing", "leaving", "gone"}
    <3> SUFFICES ASSUME r \in touched, pc'[r] # pc[r]
                 PROVE  pc'[r] \in {"finishing", "removing", "leaving", "gone"}
        BY <2>1 DEF TouchedByLoading
    <3>1. pc[r] \in {"loading", "finishing", "removing", "leaving", "gone"}
          BY DEF TouchedByLoading
    <3>2. CASE Prepare(r) \/ CancelRun(r)
          BY <3>1, <3>2 DEF Prepare, MakeTarget, InsertRun, StartFails, Launch, CancelRun, run
    <3>3. CASE \/ \E s \in Snapshot, m \in Mode, d \in Database \union {NoDatabase} : Reserve(r, s, m, d)
               \/ \E s \in Snapshot : Refuse(r, s)
          BY <3>1, <3>3 DEF Reserve, Refuse
    <3>4. CASE Execute(r)
          BY <1>3, <3>1, <3>4 DEF TypeOK, Execute, Extract, ExtractAll, ExtractExport, ExtractFails,
             Upload, Load, LoadFails, Stop, Decide, DecideLeaving, Finish, RemoveTarget, Leave, Vanish, Goto
    <3> QED BY <3>2, <3>3, <3>4 DEF Step, Begin
  <2> QED BY <1>1, <2>2, <2>3, Zenon DEF TouchedByLoading
<1> QED BY <1>2, <1>3

(* What is decided of a run: why, and what it left.                        *)
LEMMA DecidedTruly ==
  ASSUME TypeOK, LoadsCarriedExport, TouchedByLoading, NEW r \in Run, Step(r),
         pc'[r] = "finishing", pc[r] # "finishing"
  PROVE  /\ job'[r].note = "untouched" => r \notin touched'
         /\ job'[r].outcome = "completed"
              => \/ job'[r].mode = "extract" /\ target'[r] = "whole"
                 \/ job'[r].mode = "database" /\ r \in touched' /\ Load(r)
<1>1. CASE Extract(r)
  <2>1. Decide(r, "completed", "none") /\ job[r].mode = "extract"
        BY <1>1 DEF TypeOK, Extract, ExtractAll, ExtractExport, Goto
  <2>2. target'[r] = "whole"
        BY <1>1 DEF TypeOK, Extract, ExtractAll, ExtractExport
  <2> QED BY <2>1, <2>2, Decided DEF Terminal
<1>2. CASE ExtractFails(r)
  <2>1. pc[r] = "extracting" /\ touched' = touched
        BY <1>2 DEF ExtractFails
  <2>2. \E outcome \in {"cancelled", "failed"}, why \in {"none", "untouched", "partial", "failed"} :
          Decide(r, outcome, why)
        BY <1>2, Stopped DEF ExtractFails, Terminal
  <2>3. job'[r].outcome # "completed"
        BY <2>2, Decided DEF Terminal
  <2> QED BY <2>1, <2>3 DEF TouchedByLoading
<1>3. CASE Load(r)
  <2>1. job'[r].note = "none" /\ job'[r].mode = job[r].mode
        BY <1>3, LoadEnds
  <2>2. r \in touched' /\ job[r].mode = "database"
        BY <1>3 DEF Load, LoadsCarriedExport, TouchedByLoading
  <2> QED BY <1>3, <2>1, <2>2
<1>4. CASE LoadFails(r)
  <2>1. \E outcome \in {"cancelled", "failed"}, why \in {"partial", "failed"} :
          Decide(r, outcome, why)
        BY <1>4, Stopped DEF LoadFails
  <2> QED BY <2>1, Decided DEF Terminal
<1> QED BY <1>1, <1>2, <1>3, <1>4, Way

(* Only what was decided is reported, by the step that ends the restore.   *)
LEMMA Reported ==
  ASSUME TypeOK, NEW r \in Run, Step(r)
  PROVE  \/ status'[r] = status[r] /\ note'[r] = note[r]
         \/ pc'[r] = "inserted" /\ status'[r] = "running" /\ note'[r] = note[r]
         \/ /\ Finish(r)
            /\ status'[r] = job[r].outcome
            /\ note'[r] = job[r].note
            /\ touched' = touched /\ target' = target
<1> USE DEF TypeOK, Goto, tables, world
<1>1. CASE InsertRun(r)
      BY <1>1 DEF InsertRun
<1>2. CASE Finish(r)
      BY <1>2 DEF Finish
<1> QED BY <1>1, <1>2 DEF Step, Begin, Prepare, Execute, Reserve, Refuse, MakeTarget,
     StartFails, Launch, CancelRun, Extract, ExtractAll, ExtractExport, ExtractFails, Upload,
     OpenLoad, Load, LoadFails, RemoveTarget, Leave

(* A run that ended does not begin again.                                  *)
LEMMA GoesOn ==
  ASSUME TypeOK, NEW r \in Run, Step(r), pc[r] \in {"removing", "leaving", "gone"}
  PROVE  pc'[r] \in {"removing", "leaving", "gone"} /\ touched' = touched
  BY DEF TypeOK, Goto, Vanish, Step, Begin, Prepare, Execute, Reserve, Refuse, MakeTarget,
     InsertRun, StartFails, Launch, CancelRun, Extract, ExtractAll, ExtractExport, ExtractFails,
     Upload, OpenLoad, Load, LoadFails, Finish, RemoveTarget, Leave, run

LEMMA SaysUntouchedStep ==
  ASSUME TypeOK, LoadsCarriedExport, TouchedByLoading, SaysUntouched, UntouchedIsUntouched,
         NEW r \in Run, Step(r)
  PROVE  SaysUntouched' /\ UntouchedIsUntouched'
<1>1. ASSUME NEW q \in Run, q # r
      PROVE  /\ pc'[q] = "finishing" /\ job'[q].note = "untouched" => q \notin touched'
             /\ note'[q] = "untouched" => pc'[q] \in {"removing", "leaving", "gone"}
             /\ note'[q] = "untouched" => q \notin touched'
      BY <1>1, OthersKept DEF SaysUntouched, UntouchedIsUntouched
<1>2. ASSUME pc'[r] = "finishing", job'[r].note = "untouched" PROVE r \notin touched'
  <2>1. CASE pc[r] = "finishing"
        BY <1>2, <2>1, Stays DEF SaysUntouched
  <2>2. CASE pc[r] # "finishing"
        BY <1>2, <2>2, DecidedTruly
  <2> QED BY <2>1, <2>2
<1>3. ASSUME note'[r] = "untouched"
      PROVE  pc'[r] \in {"removing", "leaving", "gone"} /\ r \notin touched'
  <2>1. CASE note[r] = "untouched"
        BY <2>1, GoesOn DEF SaysUntouched, UntouchedIsUntouched
  <2>2. CASE note[r] # "untouched"
    <3>1. Finish(r) /\ job[r].note = "untouched" /\ touched' = touched
          BY <1>3, <2>2, Reported
    <3>2. pc[r] = "finishing" /\ pc'[r] \in {"removing", "leaving"}
          BY <3>1 DEF TypeOK, Finish, Goto
    <3> QED BY <3>1, <3>2 DEF SaysUntouched
  <2> QED BY <2>1, <2>2
<1> QED BY <1>1, <1>2, <1>3, Zenon DEF SaysUntouched, UntouchedIsUntouched

LEMMA SaysCompletedStep ==
  ASSUME TypeOK, LoadsCarriedExport, TouchedByLoading, SaysCompleted, CompletedIsWhole,
         NEW r \in Run, Step(r)
  PROVE  SaysCompleted' /\ CompletedIsWhole'
<1>1. ASSUME NEW q \in Run, q # r
      PROVE  /\ pc'[q] = "finishing" /\ job'[q].outcome = "completed"
                  => IF job'[q].mode = "database" THEN q \in touched' ELSE target'[q] = "whole"
             /\ status'[q] = "completed" => pc'[q] \in {"removing", "leaving", "gone"}
             /\ status'[q] = "completed" /\ pc'[q] = "removing" => q \in touched'
             /\ status'[q] = "completed" => q \in touched' \/ target'[q] = "whole"
      BY <1>1, OthersKept DEF SaysCompleted, CompletedIsWhole
<1>2. ASSUME pc'[r] = "finishing", job'[r].outcome = "completed"
      PROVE  IF job'[r].mode = "database" THEN r \in touched' ELSE target'[r] = "whole"
  <2>1. CASE pc[r] = "finishing"
        BY <1>2, <2>1, Stays DEF SaysCompleted
  <2>2. CASE pc[r] # "finishing"
        BY <1>2, <2>2, DecidedTruly
  <2> QED BY <2>1, <2>2
<1>3. ASSUME status'[r] = "completed"
      PROVE  /\ pc'[r] \in {"removing", "leaving", "gone"}
             /\ pc'[r] = "removing" => r \in touched'
             /\ r \in touched' \/ target'[r] = "whole"
  <2>1. CASE status[r] = "completed"
    <3>1. /\ pc[r] \in {"removing", "leaving", "gone"}
          /\ pc[r] = "removing" => r \in touched
          /\ r \in touched \/ target[r] = "whole"
          BY <2>1 DEF SaysCompleted, CompletedIsWhole
    <3>2. pc'[r] \in {"removing", "leaving", "gone"} /\ touched' = touched
          BY <3>1, GoesOn
    <3>3. pc'[r] = "removing" => pc[r] = "removing"
          BY <3>1, Way, From
    <3>4. pc[r] # "removing" => target' = target
          BY <3>1 DEF Step, Begin, Prepare, Execute, Reserve, Refuse, MakeTarget,
             InsertRun, StartFails, Launch, CancelRun, Extract, ExtractAll, ExtractExport,
             ExtractFails, Upload, OpenLoad, Load, LoadFails, Finish, RemoveTarget, Leave, world
    <3> QED BY <3>1, <3>2, <3>3, <3>4
  <2>2. CASE status[r] # "completed"
    <3>1. /\ Finish(r) /\ job[r].outcome = "completed"
          /\ touched' = touched /\ target' = target
          BY <1>3, <2>2, Reported
    <3>2. /\ pc[r] = "finishing" /\ pc'[r] \in {"removing", "leaving"}
          /\ pc'[r] = "removing" => job[r].mode = "database"
          BY <3>1 DEF TypeOK, Finish, Goto
    <3> QED BY <3>1, <3>2 DEF SaysCompleted
  <2> QED BY <2>1, <2>2
<1> QED BY <1>1, <1>2, <1>3, Zenon DEF SaysCompleted, CompletedIsWhole

(* What a step changes of the databases and their containers is in the     *)
(* database the run works on.                                              *)
LEMMA WorldKept ==
  ASSUME TypeOK, LoadsCarriedExport, NEW r \in Run, Step(r), NEW d \in Database
  PROVE  \/ live'[d] = live[d] /\ box'[d] = box[d] /\ lingers'[d] = lingers[d]
         \/ r \in At(d)
<1>1. CASE Upload(r) \/ OpenLoad(r) \/ Load(r) \/ LoadFails(r)
  <2>0. pc[r] \in {"uploading", "opening", "loading"}
        BY <1>1, From
  <2>1. CASE job[r].database = d
        BY <2>0, <2>1 DEF At
  <2>2. CASE job[r].database # d
    <3>1. CASE Upload(r) \/ OpenLoad(r)
          BY <2>2, <3>1 DEF TypeOK, Upload, OpenLoad
    <3>2. CASE Load(r)
          BY <2>2, <3>2 DEF TypeOK, Load
    <3>3. CASE LoadFails(r)
      <4>1. live'[d] = live[d]
            BY <2>2, <3>3 DEF TypeOK, LoadFails
      <4>2. box'[d] = box[d]
            BY <2>2, <3>3 DEF TypeOK, LoadFails, Cleared
      <4>3. lingers'[d] = lingers[d]
            BY <2>2, <3>3 DEF TypeOK, LoadFails
      <4> QED BY <4>1, <4>2, <4>3
    <3> QED BY <1>1, <3>1, <3>2, <3>3
  <2> QED BY <2>1, <2>2
<1>2. CASE ~Upload(r) /\ ~OpenLoad(r) /\ ~Load(r) /\ ~LoadFails(r)
      BY <1>2 DEF Step, Begin, Prepare, Execute, Reserve, Refuse, MakeTarget, InsertRun,
         StartFails, Launch, CancelRun, Extract, ExtractAll, ExtractExport, ExtractFails, Finish,
         RemoveTarget, Leave, world
<1> QED BY <1>1, <1>2

(* Who is at a database after a step was there before, or has just come.   *)
LEMMA Comes ==
  ASSUME TypeOK, LoadsCarriedExport, NEW r \in Run, Step(r), NEW d \in Database,
         NEW x \in Run, x \in At(d)'
  PROVE  x \in At(d) \/ (x = r /\ ExtractExport(r) /\ job[r].database = d)
<1>0. pc'[x] \in {"uploading", "opening", "loading"} /\ job'[x].database = d
      BY DEF At
<1>1. CASE x # r
      BY <1>0, <1>1, OthersKept DEF At
<1>2. CASE x = r
  <2>1. pc'[r] # "gone" /\ pc[r] \in Holding
        BY <1>0, <1>2, Near DEF AtDatabase, Holding, Executing
  <2>2. job[r].database = d
        BY <1>0, <1>2, <2>1, JobKept
  <2> QED BY <1>0, <1>2, <2>2, Near DEF At, AtDatabase
<1> QED BY <1>1, <1>2

(* No step of another run comes near a load that is alone after it.        *)
LEMMA AloneApart ==
  ASSUME TypeOK, LoadsCarriedExport, AloneIsAlone, NEW r \in Run, Step(r),
         NEW q \in Run \ {r}, pc'[q] \in AtDatabase, job'[q].alone
  PROVE  LET d == job[q].database IN
         /\ pc[q] = pc'[q] /\ job'[q] = job[q]
         /\ d \in Database
         /\ At(d) = {q} /\ lingers[d] = {} /\ lingers'[d] = {} /\ box'[d] = box[d]
         /\ ~(ExtractExport(r) /\ job[r].database = d)
<1> DEFINE d == job[q].database
<1>1. pc[q] \in AtDatabase /\ pc'[q] = pc[q] /\ job[q].alone
      BY OthersKept
<1>2. d \in Database /\ q \in At(d)
      BY <1>1, LoaderType DEF AtDatabase, At
<1>3. At(d) = {q} /\ lingers[d] = {}
      BY <1>1 DEF AloneIsAlone
<1>4. r \notin At(d)
      BY <1>3
<1>5. lingers'[d] = {} /\ box'[d] = box[d]
      BY <1>2, <1>3, <1>4, WorldKept
<1>6. ~(ExtractExport(r) /\ job[r].database = d)
      BY <1>2, Begun
<1>7. job'[q] = job[q]
  <2>1. CASE OpenLoad(r)
    <3>1. job[r].database # d
          BY <1>4, <2>1 DEF OpenLoad, At
    <3>2. q \notin Loading(job[r].database)
          BY <3>1 DEF Loading
    <3> QED BY <2>1, <3>2, Opened
  <2>2. CASE ExtractExport(r)
    <3>1. q \notin At(job[r].database)
          BY <1>6, <2>2 DEF At
    <3> QED BY <2>2, <3>1, Begun
  <2>3. CASE ~OpenLoad(r) /\ ~ExtractExport(r)
        BY <2>3 DEF TypeOK, Goto, Vanish, Step, Begin, Prepare, Execute, Reserve, Refuse,
           MakeTarget, InsertRun, StartFails, Launch, CancelRun, Extract, ExtractAll, ExtractFails,
           Upload, Load, LoadFails, Stop, Decide, DecideLeaving, Finish, RemoveTarget, Leave, run
  <2> QED BY <2>1, <2>2, <2>3
<1> QED BY <1>1, <1>2, <1>3, <1>5, <1>6, <1>7

LEMMA AloneIsAloneStep ==
  ASSUME TypeOK, LoadsCarriedExport, AloneIsAlone, NEW r \in Run, Step(r)
  PROVE  AloneIsAlone'
<1> SUFFICES ASSUME NEW q \in Run, pc'[q] \in AtDatabase, job'[q].alone,
                    NEW d, d = job'[q].database
             PROVE  At(d)' = {q} /\ lingers'[d] = {}
    BY DEF AloneIsAlone, At
<1>0. q \in At(d)'
      BY DEF At, AtDatabase
<1>1. CASE q # r
  <2>1. /\ d = job[q].database /\ d \in Database /\ At(d) = {q} /\ lingers'[d] = {}
        /\ ~(ExtractExport(r) /\ job[r].database = d)
        BY <1>1, AloneApart
  <2>2. \A x \in Run : x \in At(d)' => x = q
        BY <2>1, Comes
  <2>3. At(d)' \subseteq Run
        BY DEF At
  <2> QED BY <1>0, <2>1, <2>2, <2>3
<1>2. CASE q = r
  <2>1. pc[r] \in Holding /\ pc'[r] # "gone"
        BY <1>2, Near DEF AtDatabase, Holding, Executing
  <2>2. d = job[r].database
        BY <1>2, <2>1, JobKept
  <2>3. At(d) \subseteq {r} /\ lingers[d] = {} /\ lingers' = lingers
    <3>1. CASE ExtractExport(r)
          BY <1>2, <2>2, <3>1, Begun DEF ExtractExport
    <3>2. CASE pc[r] \in AtDatabase /\ (Upload(r) \/ OpenLoad(r) \/ CancelRun(r))
      <4>1. job[r].alone
            BY <1>2, <3>2, Opened DEF Upload, CancelRun, run
      <4>2. lingers' = lingers
            BY <3>2 DEF Upload, OpenLoad, CancelRun, world
      <4> QED BY <2>2, <3>2, <4>1, <4>2 DEF AloneIsAlone
    <3> QED BY <1>2, <3>1, <3>2, Near
  <2>4. d \in Database
    <3>1. job[r].database \in ExportOf[job[r].snapshot] /\ job[r].snapshot \in Snapshot
      <4>1. job[r].mode = "database"
            BY <1>2, Near DEF LoadsCarriedExport, ExtractExport, AtDatabase
      <4> QED BY <2>1, <4>1 DEF LoadsCarriedExport, TypeOK, Job
    <3> QED BY <2>2, <3>1, ExportAssumption
  <2>5. \A x \in Run : x \in At(d)' => x = r
        BY <2>3, <2>4, Comes
  <2>6. At(d)' \subseteq Run
        BY DEF At
  <2> QED BY <1>0, <1>2, <2>3, <2>5, <2>6
<1> QED BY <1>1, <1>2

LEMMA LoadsOwnFileStep ==
  ASSUME TypeOK, LoadsCarriedExport, AloneIsAlone, LoadsOwnFile, NEW r \in Run, Step(r)
  PROVE  LoadsOwnFile'
<1> SUFFICES ASSUME NEW q \in Run, pc'[q] \in AtDatabase, job'[q].alone
             PROVE  /\ job'[q].snapshot \notin Namesake => job'[q].source = q
                    /\ pc'[q] = "opening" /\ job'[q].database \in Archived
                         => box'[job'[q].database] = job'[q].source
                    /\ pc'[q] = "loading" => job'[q].met = {}
    BY DEF LoadsOwnFile
<1>1. CASE q # r
  <2>1. pc[q] = pc'[q] /\ job'[q] = job[q] /\ box'[job[q].database] = box[job[q].database]
        BY <1>1, AloneApart
  <2> QED BY <2>1 DEF LoadsOwnFile
<1>2. CASE q = r /\ ExtractExport(r)
  <2>1. job[r].snapshot \notin Namesake => job'[r].source = r
        BY <1>2, Begun
  <2>2. job'[r].snapshot = job[r].snapshot /\ job'[r].database = job[r].database
        BY <1>2, Begun
  <2>3. pc'[r] \in {"uploading", "opening"}
        /\ (pc'[r] = "opening" => job[r].database \notin Archived)
        BY <1>2 DEF TypeOK, ExtractExport, Goto
  <2> QED BY <1>2, <2>1, <2>2, <2>3
<1>3. CASE q = r /\ Upload(r)
  <2>1. pc[r] = "uploading" /\ pc'[r] = "opening" /\ job' = job
        BY <1>3 DEF TypeOK, Upload, Goto
  <2>2. box'[job[r].database] = job[r].source
        BY <1>3, <2>1, LoaderType DEF TypeOK, Upload
  <2> QED BY <1>3, <2>1, <2>2 DEF LoadsOwnFile, AtDatabase
<1>4. CASE q = r /\ OpenLoad(r)
  <2> DEFINE d == job[r].database
  <2>1. /\ pc[r] = "opening" /\ pc'[r] = "loading" /\ job[r].alone
        /\ job'[r].snapshot = job[r].snapshot /\ job'[r].database = d
        BY <1>4, Opened DEF TypeOK, OpenLoad, Goto
  <2>2. At(d) = {r} /\ lingers[d] = {}
        BY <2>1 DEF AloneIsAlone, AtDatabase
  <2>3. Loading(d) = {}
    <3>1. r \notin Loading(d)
          BY <2>1 DEF Loading
    <3>2. Loading(d) \subseteq At(d)
          BY DEF Loading, At
    <3> QED BY <2>2, <3>1, <3>2
  <2>4. job'[r].met = {}
        BY <1>4, <2>2, <2>3, Opened
  <2>5. job'[r].source = job[r].source
        BY <1>4, <2>1, Opened DEF LoadsOwnFile, AtDatabase
  <2> QED BY <1>4, <2>1, <2>4, <2>5 DEF LoadsOwnFile, AtDatabase
<1>5. CASE q = r /\ pc'[r] = pc[r] /\ CancelRun(r)
      BY <1>5 DEF CancelRun, run, world, LoadsOwnFile
<1> QED BY <1>1, <1>2, <1>3, <1>4, <1>5, Near

(* A load that ends well and was alone leaves its own export.              *)
LEMMA LeavesOwn ==
  ASSUME TypeOK, LoadsCarriedExport, LoadsOwnFile, NEW r \in Run, Load(r),
         job'[r].alone, job'[r].snapshot \notin Namesake
  PROVE  /\ job'[r].source = r
         /\ job'[r].database \notin Tolerant => job'[r].left = {r}
<1>1. /\ pc[r] = "loading" /\ job[r].alone /\ job[r].snapshot \notin Namesake
      /\ job'[r].source = job[r].source /\ job'[r].database = job[r].database
      /\ job'[r].left \in Loaded(r)
      BY LoadEnds DEF Load
<1>2. job[r].source = r /\ job[r].met = {}
      BY <1>1 DEF LoadsOwnFile, AtDatabase
<1> QED BY <1>1, <1>2 DEF Loaded

LEMMA UndisturbedStep ==
  ASSUME TypeOK, LoadsCarriedExport, TouchedByLoading, LoadsOwnFile, UndisturbedLoadIsWhole,
         NEW r \in Run, Step(r)
  PROVE  UndisturbedLoadIsWhole'
<1> SUFFICES ASSUME NEW q \in Run, pc'[q] = "finishing", job'[q].mode = "database",
                    job'[q].outcome = "completed", job'[q].alone,
                    job'[q].snapshot \notin Namesake
             PROVE  /\ job'[q].source = q
                    /\ job'[q].database \notin Tolerant => job'[q].left = {q}
    BY DEF UndisturbedLoadIsWhole, LoadCompleted
<1>1. CASE q # r
  <2>1. pc[q] = "finishing" /\ job'[q] = job[q]
        BY <1>1, OthersKept DEF AtDatabase
  <2> QED BY <2>1 DEF UndisturbedLoadIsWhole, LoadCompleted
<1>2. CASE q = r /\ pc[r] = "finishing"
  <2>1. job' = job
        BY <1>2, Stays
  <2> QED BY <1>2, <2>1 DEF UndisturbedLoadIsWhole, LoadCompleted
<1>3. CASE q = r /\ pc[r] # "finishing"
  <2>1. Load(r)
        BY <1>3, DecidedTruly
  <2> QED BY <1>3, <2>1, LeavesOwn
<1> QED BY <1>1, <1>2, <1>3

-----------------------------------------------------------------------------
(* A client that nobody waits for.                                         *)

(* It changes what its database holds, and may end.                        *)
LEMMA Lingers ==
  ASSUME TypeOK, NEW d \in Database, NEW s \in Source, LeftBehind(d, s)
  PROVE  /\ UNCHANGED <<up, status, note, audit, bySnapshot, active, cancelled, pc, job,
                       target, box, touched>>
         /\ live' \in [Database -> SUBSET Origin]
         /\ \A e \in Database : lingers'[e] \subseteq lingers[e]
         /\ lingers' \in [Database -> SUBSET Source]
<1>1. UNCHANGED <<up, status, note, audit, bySnapshot, active, cancelled, pc, job,
                 target, box, touched>>
      BY DEF LeftBehind, tables, memory, run
<1>2. live' \in [Database -> SUBSET Origin]
  <2>1. CASE UNCHANGED live
        BY <2>1 DEF TypeOK
  <2>2. ASSUME NEW o \in live[d] \union {s},
               live' = [live EXCEPT ![d] = (@ \ {o}) \union {s}]
        PROVE  live' \in [Database -> SUBSET Origin]
    <3>1. (live[d] \ {o}) \union {s} \subseteq Origin
          BY DEF TypeOK, Origin
    <3> QED BY <2>2, <3>1 DEF TypeOK
  <2> QED BY <2>1, <2>2 DEF LeftBehind
<1>3. lingers' \in {lingers, [lingers EXCEPT ![d] = @ \ {s}]}
      BY DEF LeftBehind
<1>4. \A e \in Database : lingers'[e] \subseteq lingers[e]
      BY <1>3 DEF TypeOK
<1>5. lingers' \in [Database -> SUBSET Source]
      BY <1>3 DEF TypeOK
<1> QED BY <1>1, <1>2, <1>4, <1>5

LEMMA InvLingers ==
  ASSUME Inv, NEW d \in Database, NEW s \in Source, LeftBehind(d, s)
  PROVE  Inv'
<1>0. TypeOK /\ LoadsCarriedExport
      BY DEF Inv
<1>1. /\ UNCHANGED <<up, status, note, audit, bySnapshot, active, cancelled, pc, job,
                    target, box, touched>>
      /\ \A e \in Database : lingers'[e] \subseteq lingers[e]
      BY <1>0, Lingers
<1>2. TypeOK'
      BY <1>0, <1>1, Lingers DEF TypeOK
<1>3. /\ WorksOnReserved' /\ ReservationIsHeld' /\ LoadsCarriedExport'
      /\ FinishesDecided' /\ TouchedByLoading'
      BY <1>1 DEF Inv, WorksOnReserved, ReservationIsHeld, LoadsCarriedExport, FinishesDecided, TouchedByLoading
<1>4. ReportInv'
      BY <1>1 DEF Inv, ReportInv, SaysUntouched, UntouchedIsUntouched, SaysCompleted,
         CompletedIsWhole
<1>5. LoadsOwnFile' /\ UndisturbedLoadIsWhole'
      BY <1>1 DEF Inv, LoadInv, LoadsOwnFile, UndisturbedLoadIsWhole, LoadCompleted
<1>6. AloneIsAlone'
  <2> SUFFICES ASSUME NEW r \in Run, pc[r] \in AtDatabase, job[r].alone
               PROVE  At(job[r].database)' = {r} /\ lingers'[job[r].database] = {}
      BY <1>1 DEF AloneIsAlone
  <2>1. At(job[r].database) = {r} /\ lingers[job[r].database] = {}
        BY DEF Inv, LoadInv, AloneIsAlone
  <2>2. At(job[r].database)' = At(job[r].database)
        BY <1>1 DEF At
  <2>3. job[r].database \in Database
        BY <1>0, LoaderType DEF AtDatabase
  <2> QED BY <1>1, <2>1, <2>2, <2>3
<1> QED BY <1>2, <1>3, <1>4, <1>5, <1>6 DEF Inv, LoadInv

-----------------------------------------------------------------------------
(* The process stops and starts.                                           *)

LEMMA InvStop ==
  ASSUME Inv, Crash \/ Restart
  PROVE  Inv'
<1> USE DEF Inv, ReportInv, LoadInv
<1>0. TypeOK'
      BY TypeStop
<1>1. CASE Crash
  <2>1. \A r \in Run : pc'[r] \in {"idle", "gone"} /\ (pc[r] # "idle" => pc'[r] = "gone")
        BY <1>1 DEF TypeOK, Crash
  <2>2. UNCHANGED <<status, note, target, touched>>
        BY <1>1 DEF Crash, tables, world
  <2>3. /\ WorksOnReserved' /\ LoadsCarriedExport' /\ FinishesDecided'
        /\ AloneIsAlone' /\ LoadsOwnFile' /\ UndisturbedLoadIsWhole'
        BY <2>1 DEF WorksOnReserved, LoadsCarriedExport, FinishesDecided, AloneIsAlone,
           LoadsOwnFile, UndisturbedLoadIsWhole, LoadCompleted, AtDatabase, Holding, Executing
  <2>4. TouchedByLoading' /\ ReservationIsHeld'
    <3>1. \A s \in Snapshot : bySnapshot'[s] = NoRun
          BY <1>1 DEF Crash
    <3> QED BY <2>1, <2>2, <3>1, NoRunAssumption DEF TouchedByLoading, ReservationIsHeld
  <2>5. SaysUntouched' /\ UntouchedIsUntouched'
        BY <2>1, <2>2 DEF SaysUntouched, UntouchedIsUntouched
  <2>6. SaysCompleted' /\ CompletedIsWhole'
        BY <2>1, <2>2 DEF SaysCompleted, CompletedIsWhole
  <2> QED BY <1>0, <2>3, <2>4, <2>5, <2>6
<1>2. CASE Restart
  <2>1. UNCHANGED <<bySnapshot, pc, job, target, live, box, lingers, touched>>
        BY <1>2 DEF Restart, memory, run, world
  <2>2. \A r \in Run : /\ note'[r] = "untouched" => note[r] = "untouched"
                       /\ status'[r] = "completed" => status[r] = "completed"
        BY <1>2 DEF TypeOK, Restart
  <2>3. /\ WorksOnReserved' /\ ReservationIsHeld' /\ LoadsCarriedExport' /\ FinishesDecided'
        /\ AloneIsAlone' /\ LoadsOwnFile' /\ UndisturbedLoadIsWhole' /\ TouchedByLoading'
        BY <2>1 DEF WorksOnReserved, ReservationIsHeld, LoadsCarriedExport, FinishesDecided, AloneIsAlone, At,
           LoadsOwnFile, UndisturbedLoadIsWhole, LoadCompleted, TouchedByLoading
  <2>4. /\ pc' = pc /\ job' = job /\ target' = target
        /\ touched' = touched
        BY <2>1
  <2> HIDE DEF Inv, ReportInv, LoadInv
  <2>5. SaysUntouched' /\ UntouchedIsUntouched'
    <3>1. SaysUntouched /\ UntouchedIsUntouched
          BY DEF Inv, ReportInv
    <3> QED BY <2>2, <2>4, <3>1 DEF SaysUntouched, UntouchedIsUntouched
  <2>6. SaysCompleted' /\ CompletedIsWhole'
    <3>1. SaysCompleted /\ CompletedIsWhole
          BY DEF Inv, ReportInv
    <3> QED BY <2>2, <2>4, <3>1 DEF SaysCompleted, CompletedIsWhole
  <2> QED BY <1>0, <2>3, <2>5, <2>6 DEF Inv, ReportInv, LoadInv
<1> QED BY <1>1, <1>2

-----------------------------------------------------------------------------
(* The invariant.                                                          *)

LEMMA InvInit == Init => Inv
<1> SUFFICES ASSUME Init PROVE Inv
    OBVIOUS
<1>1. TypeOK
      BY TypeInit
<1>2. /\ \A r \in Run : pc[r] = "idle" /\ status[r] = "absent" /\ note[r] = "none"
      /\ touched = {}
      /\ \A s \in Snapshot : bySnapshot[s] = NoRun
      BY DEF Init
<1> QED BY <1>1, <1>2, NoRunAssumption DEF Inv, ReportInv, LoadInv, WorksOnReserved,
     ReservationIsHeld, LoadsCarriedExport,
     FinishesDecided, TouchedByLoading, SaysUntouched, UntouchedIsUntouched, SaysCompleted,
     CompletedIsWhole, AloneIsAlone, LoadsOwnFile, UndisturbedLoadIsWhole, LoadCompleted,
     AtDatabase, Holding, Executing

LEMMA InvStep ==
  ASSUME Inv, NEW r \in Run, Step(r)
  PROVE  Inv'
<1>1. TypeOK'
      BY TypeStart, TypeGoroutine DEF Inv, Step
<1>2. /\ WorksOnReserved' /\ ReservationIsHeld' /\ LoadsCarriedExport'
      /\ FinishesDecided' /\ TouchedByLoading'
      BY WorksOnReservedStep, ReservationIsHeldStep, LoadsCarriedExportStep, FinishesDecidedStep, TouchedByLoadingStep
      DEF Inv
<1>3. SaysUntouched' /\ UntouchedIsUntouched'
      BY SaysUntouchedStep DEF Inv, ReportInv
<1>4. SaysCompleted' /\ CompletedIsWhole'
      BY SaysCompletedStep DEF Inv, ReportInv
<1>5. AloneIsAlone' /\ LoadsOwnFile'
      BY AloneIsAloneStep, LoadsOwnFileStep DEF Inv, LoadInv
<1>6. UndisturbedLoadIsWhole'
      BY UndisturbedStep DEF Inv, LoadInv
<1> QED BY <1>1, <1>2, <1>3, <1>4, <1>5, <1>6 DEF Inv, ReportInv, LoadInv

LEMMA InvNext == Inv /\ [Next]_vars => Inv'
<1> SUFFICES ASSUME Inv, [Next]_vars PROVE Inv'
    OBVIOUS
<1>1. ASSUME NEW r \in Run, Begin(r) \/ Execute(r) PROVE Inv'
      BY <1>1, InvStep DEF Step
<1>2. CASE Crash \/ Restart
      BY <1>2, InvStop
<1>3. ASSUME NEW d \in Database, NEW s \in Source, LeftBehind(d, s) PROVE Inv'
      BY <1>3, InvLingers
<1>4. CASE UNCHANGED vars
      BY <1>4 DEF vars, tables, memory, run, world, Inv, ReportInv, LoadInv, TypeOK,
         WorksOnReserved, ReservationIsHeld, LoadsCarriedExport, FinishesDecided,
         TouchedByLoading, SaysUntouched,
         UntouchedIsUntouched, SaysCompleted, CompletedIsWhole, AloneIsAlone, At, LoadsOwnFile,
         UndisturbedLoadIsWhole, LoadCompleted
<1> QED BY <1>1, <1>2, <1>3, <1>4 DEF Next

(* Inv holds in every state the restores can reach.                        *)
THEOREM Invariance == Spec => []Inv
  BY InvInit, InvNext, PTL DEF Spec

(* Every table, variable and directory keeps to its type.                  *)
THEOREM TypeCorrect == Spec => []TypeOK
<1>1. Inv => TypeOK
      BY DEF Inv
<1> QED BY <1>1, Invariance, PTL

(* From the reservation until release a snapshot is restored once, however *)
(* restores start, fail, are cancelled and end (Runner.bySnapshot).        *)
THEOREM OneAtATime == Spec => []OneRestorePerSnapshot
<1>1. Inv => OneRestorePerSnapshot
      BY DEF Inv, WorksOnReserved, OneRestorePerSnapshot
<1> QED BY <1>1, Invariance, PTL

(* A snapshot is reserved only for a restore that is on its way to release *)
(* it: no failure leaves it reserved for nobody (Start, RestoreDatabase,   *)
(* release).                                                               *)
THEOREM ReservationsAreHeld == Spec => []ReservationIsHeld
<1>1. Inv => ReservationIsHeld
      BY DEF Inv
<1> QED BY <1>1, Invariance, PTL

(* A restore that reports to have been cancelled before the database was   *)
(* touched never wrote into it (runDatabaseRestore).                       *)
THEOREM UntouchedTold == Spec => []UntouchedIsUntouched
<1>1. Inv => UntouchedIsUntouched
      BY DEF Inv, ReportInv
<1> QED BY <1>1, Invariance, PTL

(* What is stored as completed was extracted whole or loaded (Start,       *)
(* runDatabaseRestore, CloseInterruptedRuns).                              *)
THEOREM CompletedTold == Spec => []CompletedIsWhole
<1>1. Inv => CompletedIsWhole
      BY DEF Inv, ReportInv
<1> QED BY <1>1, Invariance, PTL

(* Whatever snapshots carry the database, and whatever loads before it     *)
(* left in the container: a load that had the database for itself replays  *)
(* its own snapshot's export, and with a client that stops at errors       *)
(* leaves nothing else (loadMongo, loadStreamed, findExtracted).           *)
THEOREM UndisturbedIsWhole == Spec => []UndisturbedLoadIsWhole
<1>1. Inv => UndisturbedLoadIsWhole
      BY DEF Inv, LoadInv
<1> QED BY <1>1, Invariance, PTL

-----------------------------------------------------------------------------
(* The restores implement the report.                                      *)

(* The row follows the goroutine: it is there from the insertion on, is    *)
(* open as long as the goroutine works, and says nothing until it ends.    *)
RowFollows ==
  \A r \in Run :
    /\ pc[r] \in {"idle", "reserved", "made"} => status[r] = "absent"
    /\ pc[r] \in {"inserted", "extracting", "uploading", "opening", "loading", "finishing"}
         => status[r] = "running"
    /\ status[r] \in {"absent", "running"} => note[r] = "none"

(* Whatever goes near a database has the whole export on disk.             *)
LoadsWhole ==
  \A r \in Run : pc[r] \in {"uploading", "opening", "loading"} => target[r] = "whole"

(* The three ways in which a run can be about to end.                      *)
Verdict(r) ==
  \/ job[r].outcome = "completed" /\ job[r].note = "none" /\ target[r] = "whole"
  \/ job[r].outcome = "cancelled" /\ job[r].note \in {"untouched", "partial", "failed"}
  \/ job[r].outcome = "failed" /\ job[r].note = "failed"

FinishesWithVerdict == \A r \in Run : pc[r] = "finishing" => Verdict(r)

(* Nothing runs between a stop and the next start.                         *)
DownIsQuiet == ~up => \A r \in Run : pc[r] \in {"idle", "gone"}

Follows == RowFollows /\ LoadsWhole /\ FinishesWithVerdict /\ DownIsQuiet

(* A step of a run is taken while the process is up.                       *)
LEMMA StepsWhileUp ==
  ASSUME TypeOK, DownIsQuiet, NEW r \in Run, Step(r)
  PROVE  up /\ up' = up
<1>1. CASE Prepare(r)
      BY <1>1 DEF DownIsQuiet, TypeOK, Prepare, MakeTarget, InsertRun, StartFails, Launch
<1>2. CASE Begin(r) /\ ~Prepare(r)
      BY <1>2 DEF Begin, Reserve, Refuse, CancelRun
<1>3. CASE Execute(r)
      BY <1>3 DEF DownIsQuiet, TypeOK, Execute, Extract, ExtractAll, ExtractExport, ExtractFails,
         Upload, OpenLoad, Load, LoadFails, Finish, RemoveTarget, Leave
<1> QED BY <1>1, <1>2, <1>3 DEF Step

(* The status of a run and where it stands change together.                *)
LEMMA RowOfRun ==
  ASSUME TypeOK, LoadsCarriedExport, RowFollows, FinishesWithVerdict, NEW r \in Run, Step(r)
  PROVE  /\ pc'[r] \in {"idle", "reserved", "made"} => status'[r] = "absent"
         /\ pc'[r] \in {"inserted", "extracting", "uploading", "opening", "loading", "finishing"}
              => status'[r] = "running"
         /\ status'[r] \in {"absent", "running"} => note'[r] = "none"
<1> DEFINE Row == /\ pc'[r] \in {"idle", "reserved", "made"} => status'[r] = "absent"
                  /\ pc'[r] \in {"inserted", "extracting", "uploading", "opening", "loading",
                                 "finishing"} => status'[r] = "running"
                  /\ status'[r] \in {"absent", "running"} => note'[r] = "none"
<1>0. /\ pc[r] \in {"idle", "reserved", "made"} => status[r] = "absent"
      /\ pc[r] \in {"inserted", "extracting", "uploading", "opening", "loading", "finishing"}
           => status[r] = "running"
      /\ status[r] \in {"absent", "running"} => note[r] = "none"
      BY DEF RowFollows
<1>1. ASSUME NEW s \in Snapshot, NEW m \in Mode, NEW d \in Database \union {NoDatabase},
             Reserve(r, s, m, d)
      PROVE  Row
      BY <1>0, <1>1 DEF TypeOK, Reserve, Goto, tables
<1>2. ASSUME NEW s \in Snapshot, Refuse(r, s) PROVE Row
      BY <1>0, <1>2 DEF TypeOK, Refuse, Vanish, Goto, tables
<1>3. CASE MakeTarget(r) \/ StartFails(r) \/ Launch(r) \/ CancelRun(r)
      BY <1>0, <1>3 DEF TypeOK, MakeTarget, StartFails, Launch, CancelRun, Vanish, Goto, tables, run
<1>4. CASE InsertRun(r)
      BY <1>0, <1>4 DEF TypeOK, InsertRun, Goto
<1>5. CASE Extract(r) \/ ExtractFails(r) \/ Upload(r) \/ OpenLoad(r) \/ Load(r) \/ LoadFails(r)
  <2>1. /\ UNCHANGED <<status, note>>
        /\ pc[r] \in {"extracting", "uploading", "opening", "loading"}
        BY <1>5, From DEF Extract, ExtractAll, ExtractExport, ExtractFails, Upload, OpenLoad, Load,
           LoadFails, tables
  <2>2. pc'[r] \in {"uploading", "opening", "loading", "finishing"}
        BY <1>5 DEF TypeOK, Extract, ExtractAll, ExtractExport, ExtractFails, Upload, OpenLoad,
           Load, LoadFails, Stop, Decide, DecideLeaving, Goto
  <2> QED BY <1>0, <2>1, <2>2
<1>6. CASE Finish(r)
  <2>1. pc[r] = "finishing" /\ pc'[r] \in {"removing", "leaving"}
        BY <1>6 DEF TypeOK, Finish, Goto
  <2>2. \/ status'[r] = status[r] /\ note'[r] = note[r]
        \/ status'[r] = job[r].outcome
        BY <1>6 DEF TypeOK, Finish
  <2>3. job[r].outcome \notin {"absent", "running"}
        BY <2>1 DEF FinishesWithVerdict, Verdict
  <2> QED BY <1>0, <2>1, <2>2, <2>3
<1>7. CASE RemoveTarget(r) \/ Leave(r)
  <2>1. UNCHANGED <<status, note>> /\ pc'[r] \in {"leaving", "gone"}
        BY <1>7 DEF TypeOK, RemoveTarget, Leave, Vanish, Goto, tables
  <2> QED BY <1>0, <2>1
<1> QED BY <1>1, <1>2, <1>3, <1>4, <1>5, <1>6, <1>7 DEF Step, Begin, Prepare, Execute

(* A run that ends does so with a verdict; one that goes near a database   *)
(* has extracted all of the export.                                        *)
LEMMA VerdictOfRun ==
  ASSUME TypeOK, LoadsCarriedExport, LoadsWhole, FinishesWithVerdict, NEW r \in Run, Step(r)
  PROVE  /\ pc'[r] \in {"uploading", "opening", "loading"} => target'[r] = "whole"
         /\ pc'[r] = "finishing" => Verdict(r)'
<1> DEFINE Has == pc'[r] \in {"uploading", "opening", "loading"} => target'[r] = "whole"
           Ends == pc'[r] = "finishing" => Verdict(r)'
<1>1. ASSUME pc'[r] = pc[r], pc[r] # "idle", pc[r] # "gone" PROVE Has /\ Ends
  <2>1. job' = job /\ target' = target
        BY <1>1, Stays
  <2> QED BY <1>1, <2>1 DEF LoadsWhole, FinishesWithVerdict, Verdict
<1>2. CASE pc'[r] # pc[r]
  <2>1. CASE pc'[r] \notin {"uploading", "opening", "loading", "finishing"}
        BY <2>1
  <2>2. CASE Extract(r)
    <3>1. target'[r] = "whole"
          BY <2>2 DEF TypeOK, Extract, ExtractAll, ExtractExport
    <3>2. ASSUME pc'[r] = "finishing" PROVE Decide(r, "completed", "none")
          BY <2>2, <3>2 DEF TypeOK, Extract, ExtractAll, ExtractExport, Goto
    <3>3. pc'[r] = "finishing" => job'[r].outcome = "completed" /\ job'[r].note = "none"
          BY <3>2, Decided DEF Terminal
    <3> QED BY <3>1, <3>3 DEF Verdict
  <2>3. CASE ExtractFails(r)
    <3>1. PICK why \in {"untouched", "failed"} :
            Stop(r, why) \/ Decide(r, "failed", "failed")
          BY <2>3 DEF ExtractFails
    <3>2. \E outcome \in {"cancelled", "failed"}, said \in {why, "failed"} :
            /\ Decide(r, outcome, said)
            /\ outcome = "failed" => said = "failed"
          BY <3>1 DEF Stop
    <3>3. pc'[r] = "finishing" /\ Verdict(r)'
          BY <3>2, Decided DEF TypeOK, Terminal, Verdict
    <3> QED BY <3>3
  <2>4. CASE LoadFails(r)
    <3>1. \E outcome \in {"cancelled", "failed"}, said \in {"partial", "failed"} :
            /\ Decide(r, outcome, said)
            /\ outcome = "failed" => said = "failed"
          BY <2>4 DEF LoadFails, Stop
    <3>2. pc'[r] = "finishing" /\ Verdict(r)'
          BY <3>1, Decided DEF TypeOK, Terminal, Verdict
    <3> QED BY <3>2
  <2>5. CASE Load(r)
    <3>1. target' = target /\ target[r] = "whole"
          BY <2>5 DEF Load, LoadsWhole
    <3>2. pc'[r] = "finishing" /\ job'[r].outcome = "completed" /\ job'[r].note = "none"
          BY <2>5, LoadEnds DEF TypeOK
    <3> QED BY <3>1, <3>2 DEF Verdict
  <2>6. CASE Upload(r) \/ OpenLoad(r)
    <3>1. /\ target' = target /\ target[r] = "whole"
          /\ pc'[r] \in {"opening", "loading"}
          BY <2>6 DEF TypeOK, Upload, OpenLoad, LoadsWhole, Goto
    <3> QED BY <3>1
  <2> QED BY <1>2, <2>1, <2>2, <2>3, <2>4, <2>5, <2>6, Way
<1> QED BY <1>1, <1>2

LEMMA FollowsStep ==
  ASSUME TypeOK, LoadsCarriedExport, Follows, NEW r \in Run, Step(r)
  PROVE  Follows'
<1>0. RowFollows /\ LoadsWhole /\ FinishesWithVerdict /\ DownIsQuiet
      BY DEF Follows
<1>1. ASSUME NEW q \in Run \ {r}
      PROVE  /\ pc'[q] = pc[q] /\ status'[q] = status[q] /\ note'[q] = note[q]
             /\ target'[q] = target[q]
             /\ job'[q].outcome = job[q].outcome /\ job'[q].note = job[q].note
      BY OthersKept
<1>2. RowFollows'
  <2> SUFFICES ASSUME NEW q \in Run
               PROVE  /\ pc'[q] \in {"idle", "reserved", "made"} => status'[q] = "absent"
                      /\ pc'[q] \in {"inserted", "extracting", "uploading", "opening",
                                     "loading", "finishing"} => status'[q] = "running"
                      /\ status'[q] \in {"absent", "running"} => note'[q] = "none"
      BY DEF RowFollows
  <2>1. CASE q = r
        BY <1>0, <2>1, RowOfRun
  <2>2. CASE q # r
        BY <1>0, <1>1, <2>2 DEF RowFollows
  <2> QED BY <2>1, <2>2
<1>3. LoadsWhole'
  <2> SUFFICES ASSUME NEW q \in Run, pc'[q] \in {"uploading", "opening", "loading"}
               PROVE  target'[q] = "whole"
      BY DEF LoadsWhole
  <2>1. CASE q = r
        BY <1>0, <2>1, VerdictOfRun
  <2>2. CASE q # r
        BY <1>0, <1>1, <2>2 DEF LoadsWhole
  <2> QED BY <2>1, <2>2
<1>4. FinishesWithVerdict'
  <2> SUFFICES ASSUME NEW q \in Run, pc'[q] = "finishing" PROVE Verdict(q)'
      BY DEF FinishesWithVerdict
  <2>1. CASE q = r
        BY <1>0, <2>1, VerdictOfRun
  <2>2. CASE q # r
    <3>1. Verdict(q)
          BY <1>0, <1>1, <2>2 DEF FinishesWithVerdict
    <3> QED BY <1>1, <2>2, <3>1 DEF Verdict
  <2> QED BY <2>1, <2>2
<1>5. DownIsQuiet'
      BY <1>0, StepsWhileUp DEF DownIsQuiet
<1> QED BY <1>2, <1>3, <1>4, <1>5 DEF Follows

LEMMA FollowsNext == Inv /\ Follows /\ [Next]_vars => Follows'
<1> SUFFICES ASSUME Inv, Follows, [Next]_vars PROVE Follows'
    OBVIOUS
<1>0. TypeOK /\ LoadsCarriedExport
      BY DEF Inv
<1>1. ASSUME NEW r \in Run, Begin(r) \/ Execute(r) PROVE Follows'
      BY <1>0, <1>1, FollowsStep DEF Step
<1>2. CASE Crash
  <2>1. /\ UNCHANGED <<status, note, target>>
        /\ \A r \in Run : pc'[r] = IF pc[r] = "idle" THEN "idle" ELSE "gone"
        BY <1>2 DEF Crash, tables, world
  <2> QED BY <2>1 DEF Follows, RowFollows, LoadsWhole, FinishesWithVerdict, DownIsQuiet
<1>3. CASE Restart
  <2>1. /\ up' /\ \A r \in Run : pc'[r] = pc[r] /\ pc[r] \in {"idle", "gone"}
        BY <1>3 DEF Restart, run, Follows, DownIsQuiet
  <2>2. LoadsWhole' /\ FinishesWithVerdict' /\ DownIsQuiet'
        BY <2>1 DEF LoadsWhole, FinishesWithVerdict, DownIsQuiet
  <2>3. \A r \in Run : \/ status'[r] = status[r] /\ note'[r] = note[r]
                       \/ status[r] = "running" /\ status'[r] = "failed"
        BY <1>0, <1>3 DEF Restart, TypeOK
  <2>4. RowFollows'
        BY <2>1, <2>3 DEF RowFollows, Follows
  <2> QED BY <2>2, <2>4 DEF Follows
<1>4. CASE \/ UNCHANGED vars
           \/ \E d \in Database, s \in Source : LeftBehind(d, s)
  <2>1. UNCHANGED <<up, status, note, pc, job, target>>
        BY <1>4 DEF vars, LeftBehind, tables, run, world
  <2> QED BY <2>1 DEF Follows, RowFollows, LoadsWhole, FinishesWithVerdict, Verdict, DownIsQuiet
<1> QED BY <1>1, <1>2, <1>3, <1>4 DEF Next

(* Steps that the report does not show.                                    *)
LEMMA UnreportedStutters ==
  ASSUME UNCHANGED <<status, note, target, touched>>
  PROVE  UNCHANGED Promise!vars
  BY DEF Promise!vars, Extracted

(* A directory that is emptied, or filled in part, or removed.             *)
LEMMA Discards ==
  ASSUME TypeOK, NEW r \in Run, status[r] = "completed" => r \in touched,
         NEW left \in {"absent", "empty", "part"},
         target' = [target EXCEPT ![r] = left], UNCHANGED <<status, note, touched>>
  PROVE  [Promise!Next]_(Promise!vars)
<1>1. Extracted' = Extracted \ {r}
      BY DEF TypeOK, Extracted
<1>2. Promise!Discard(r)
      BY <1>1 DEF Promise!Discard
<1> QED BY <1>2 DEF Promise!Next

LEMMA FinishReports ==
  ASSUME Inv, Follows, NEW r \in Run, Finish(r)
  PROVE  [Promise!Next]_(Promise!vars)
<1>1. /\ pc[r] = "finishing" /\ UNCHANGED <<target, touched>>
      /\ \/ /\ status' = [status EXCEPT ![r] = job[r].outcome]
            /\ note' = [note EXCEPT ![r] = job[r].note]
         \/ UNCHANGED <<status, note>>
      BY DEF Finish, world
<1>2. CASE UNCHANGED <<status, note>>
      BY <1>1, <1>2, UnreportedStutters
<1>3. CASE /\ status' = [status EXCEPT ![r] = job[r].outcome]
           /\ note' = [note EXCEPT ![r] = job[r].note]
  <2>1. status[r] = "running" /\ note[r] = "none" /\ Verdict(r)
        BY <1>1 DEF Follows, RowFollows, FinishesWithVerdict
  <2>2. UNCHANGED <<Extracted, touched>>
        BY <1>1 DEF Extracted
  <2>3. TypeOK /\ (job[r].note = "untouched" => r \notin touched)
        BY <1>1 DEF Inv, ReportInv, SaysUntouched
  <2>4. CASE job[r].outcome = "completed"
    <3>1. job[r].note = "none" /\ r \in Extracted
          BY <2>1, <2>4 DEF Verdict, Extracted
    <3>2. UNCHANGED note
          BY <1>3, <2>1, <2>3, <3>1 DEF TypeOK
    <3>3. Promise!Complete(r)
          BY <1>3, <2>1, <2>2, <2>4, <3>1, <3>2 DEF Promise!Complete
    <3> QED BY <3>3 DEF Promise!Next
  <2>5. CASE job[r].outcome = "cancelled"
    <3>1. job[r].note \in {"untouched", "partial", "failed"}
          BY <2>1, <2>5 DEF Verdict
    <3>2. Promise!Cancel(r)
          BY <1>3, <2>1, <2>2, <2>3, <2>5, <3>1 DEF Promise!Cancel
    <3> QED BY <3>2 DEF Promise!Next
  <2>6. CASE job[r].outcome = "failed"
    <3>1. job[r].note = "failed"
          BY <2>1, <2>6 DEF Verdict
    <3>2. Promise!Fail({r}, "failed")
          BY <1>3, <2>1, <2>2, <2>3, <2>6, <3>1 DEF Promise!Fail, TypeOK
    <3>3. {r} \in SUBSET Run
          OBVIOUS
    <3> QED BY <3>2, <3>3 DEF Promise!Next
  <2> QED BY <2>1, <2>4, <2>5, <2>6 DEF Verdict
<1> QED BY <1>1, <1>2, <1>3

(* What one step of a run is of the report.                                *)
LEMMA StepReports ==
  ASSUME Inv, Follows, NEW r \in Run, Step(r)
  PROVE  [Promise!Next]_(Promise!vars)
<1> DEFINE Goal == [Promise!Next]_(Promise!vars)
<1>0. TypeOK /\ SaysCompleted /\ RowFollows /\ LoadsWhole
      BY DEF Inv, ReportInv, Follows
<1>1. ASSUME \/ \E s \in Snapshot, m \in Mode, d \in Database \union {NoDatabase} :
                  Reserve(r, s, m, d)
             \/ \E s \in Snapshot : Refuse(r, s)
             \/ StartFails(r) \/ Launch(r) \/ CancelRun(r)
             \/ Upload(r) \/ Load(r) \/ LoadFails(r) \/ Leave(r)
      PROVE  Goal
  <2>1. UNCHANGED <<status, note, target, touched>>
        BY <1>1 DEF Reserve, Refuse, StartFails, Launch, CancelRun, Upload, Load, LoadFails,
           Leave, tables, world
  <2> QED BY <2>1, UnreportedStutters
<1>2. ASSUME MakeTarget(r) PROVE Goal
  <2>1. status[r] = "absent"
        BY <1>0, <1>2 DEF MakeTarget, RowFollows
  <2> QED BY <1>0, <1>2, <2>1, Discards DEF MakeTarget, tables
<1>3. ASSUME InsertRun(r) PROVE Goal
  <2>1. status[r] = "absent"
        BY <1>0, <1>3 DEF InsertRun, RowFollows
  <2>2. Promise!Begin(r)
        BY <1>3, <2>1 DEF InsertRun, Promise!Begin, Extracted, world
  <2> QED BY <2>2 DEF Promise!Next
<1>4. ASSUME Extract(r) PROVE Goal
  <2>0. /\ pc[r] = "extracting" /\ target' = [target EXCEPT ![r] = "whole"]
        /\ UNCHANGED <<status, note, touched>>
        BY <1>4 DEF Extract, ExtractAll, ExtractExport, tables
  <2>1. status[r] = "running"
        BY <1>0, <2>0 DEF RowFollows
  <2>2. Extracted' = Extracted \union {r}
        BY <1>0, <2>0 DEF Extracted, TypeOK
  <2>3. Promise!Extract(r)
        BY <2>0, <2>1, <2>2 DEF Promise!Extract
  <2> QED BY <2>3 DEF Promise!Next
<1>5. ASSUME ExtractFails(r) PROVE Goal
  <2>1. status[r] = "running" /\ UNCHANGED <<status, note, touched>>
        BY <1>0, <1>5 DEF ExtractFails, RowFollows, tables
  <2>2. target' \in {target, [target EXCEPT ![r] = "part"]}
        BY <1>5 DEF ExtractFails
  <2> QED BY <1>0, <2>1, <2>2, Discards, UnreportedStutters
<1>6. ASSUME OpenLoad(r) PROVE Goal
  <2>1. status[r] = "running" /\ r \in Extracted
        BY <1>0, <1>6 DEF OpenLoad, RowFollows, LoadsWhole, Extracted
  <2>2. /\ UNCHANGED <<status, note, Extracted>>
        /\ touched' = touched \union {r}
        BY <1>6 DEF OpenLoad, Extracted, tables
  <2>3. Promise!Touch(r)
        BY <2>1, <2>2 DEF Promise!Touch
  <2> QED BY <2>3 DEF Promise!Next
<1>7. ASSUME Finish(r) PROVE Goal
      BY <1>7, FinishReports
<1>8. ASSUME RemoveTarget(r) PROVE Goal
  <2>1. /\ status[r] = "completed" => r \in touched
        /\ UNCHANGED <<status, note, touched>>
        BY <1>0, <1>8 DEF RemoveTarget, SaysCompleted, tables
  <2>2. target' \in {target, [target EXCEPT ![r] = "absent"]}
        BY <1>8 DEF RemoveTarget
  <2> QED BY <1>0, <2>1, <2>2, Discards, UnreportedStutters
<1> QED BY <1>1, <1>2, <1>3, <1>4, <1>5, <1>6, <1>7, <1>8
        DEF Step, Begin, Prepare, Execute

(* What a stop and a start are of the report.                              *)
LEMMA StopReports ==
  ASSUME Inv, Follows, Crash \/ Restart
  PROVE  [Promise!Next]_(Promise!vars)
<1>1. CASE Crash
      BY <1>1, UnreportedStutters DEF Crash, tables, world
<1>2. CASE Restart
  <2>1. UNCHANGED <<target, touched>>
        BY <1>2 DEF Restart, world
  <2>2. CASE UNCHANGED <<status, note>>
        BY <2>1, <2>2, UnreportedStutters
  <2>3. CASE ~UNCHANGED <<status, note>>
    <3> DEFINE S == {r \in Run : status[r] = "running"}
    <3>1. /\ status' = [r \in Run |-> IF r \in S THEN "failed" ELSE status[r]]
          /\ note' = [r \in Run |-> IF r \in S THEN "interrupted" ELSE note[r]]
          BY <1>2, <2>3 DEF Restart
    <3>2. S \in SUBSET Run /\ \A r \in S : status[r] = "running"
          OBVIOUS
    <3> HIDE DEF S
    <3>3. Promise!Fail(S, "interrupted")
          BY <2>1, <3>1, <3>2 DEF Promise!Fail, Extracted
    <3> QED BY <3>2, <3>3 DEF Promise!Next
  <2> QED BY <2>2, <2>3
<1> QED BY <1>1, <1>2

(* Whatever restores are started, cancelled, interrupted and resumed, the  *)
(* history keeps its promise: completed only with everything extracted,    *)
(* no database written before that, "untouched" only where it is so, and   *)
(* no end taken back (Runner.Start, runDatabaseRestore,                    *)
(* CloseInterruptedRuns).                                                  *)
THEOREM RestoreKeepsReport == Spec => KeepsReport
<1>1. Init => Promise!Init /\ Follows
  <2> SUFFICES ASSUME Init PROVE Promise!Init /\ Follows
      OBVIOUS
  <2>1. Extracted = {}
        BY DEF Init, Extracted
  <2>2. Promise!Init
        BY <2>1 DEF Init, Promise!Init
  <2>3. Follows
        BY DEF Init, Follows, RowFollows, LoadsWhole, FinishesWithVerdict, DownIsQuiet
  <2> QED BY <2>2, <2>3
<1>2. Inv /\ Follows /\ [Next]_vars => [Promise!Next]_(Promise!vars)
  <2> SUFFICES ASSUME Inv, Follows, [Next]_vars PROVE [Promise!Next]_(Promise!vars)
      OBVIOUS
  <2>1. CASE \/ UNCHANGED vars
             \/ \E d \in Database, s \in Source : LeftBehind(d, s)
        BY <2>1, UnreportedStutters DEF vars, LeftBehind, tables, world
  <2> QED BY <2>1, StepReports, StopReports DEF Next, Step
<1> QED BY <1>1, <1>2, FollowsNext, Invariance, PTL DEF Spec, KeepsReport, Promise!Spec

=============================================================================
