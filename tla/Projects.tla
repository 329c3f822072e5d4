-------------------------------- MODULE Projects --------------------------------
(***************************************************************************)
(* The registry of projects (internal/projects) and the blueprint that an  *)
(* analysis stores for each (internal/projectanalyzer): requests that      *)
(* scan, register, remove, analyze and confirm, over two tables of one     *)
(* database, whose statements are atomic, while files and containers       *)
(* change as they please.                                                  *)
(*                                                                         *)
(* Abstractions:                                                           *)
(* - evidence is the version of what was read: of the files (those on the  *)
(*   record's list of Compose files, and the databases under the path and  *)
(*   in the sources) and of the containers, with their mounts in Docker's  *)
(*   order; detectors, template matches and the hash are functions of it,  *)
(*   so the evidence stands for the fingerprint;                           *)
(* - the audit trail has the events that must not be lost: removals;       *)
(* - a request that is cancelled, meets a database error or dies with the  *)
(*   process just ends: nothing in memory outlives it;                     *)
(* - warnings are left out: which there are follows from the evidence;     *)
(* - the helper container of an analysis is created and removed by the     *)
(*   calls that Capture has in full.                                       *)
(***************************************************************************)
CONSTANTS
  Name,           \* names of Compose projects
  Id,             \* bounds the projects ever registered
  Request,        \* bounds the requests served at a time
  Path,           \* directories with Compose files
  WorkDirOf,      \* WorkDirOf[n]: where Docker says project n was started
  Version,        \* what Compose files may look like
  List,           \* lists of Compose files a record may have
  ListOf,         \* ListOf[n]: the files with which Docker says it was started
  Deployment,     \* what the containers of a project may look like
  Order,          \* orders of a document's services, and of a service's mounts
  NoId, NoPath, NoFingerprint, NoBlueprint

ASSUME WorkDirAssumption == WorkDirOf \in [Name -> Path] /\ ListOf \in [Name -> List]
ASSUME NullAssumption ==
  /\ NoId \notin Id
  /\ NoPath \notin Path
  /\ {"none", "unread"} \intersect (Version \union Deployment) = {}
ASSUME SomeAssumption == Name # {} /\ Order # {} /\ List # {}

VARIABLES
  files,          \* the Compose files under each path; "unread" when they do not parse
  live,           \* the containers of each name; "none" when it does not run
  mounted,        \* the order in which Docker lists their mounts
  row,            \* table projects, by id, and what became of the id
  blueprint,      \* table project_blueprints
  at, req,        \* where each request stands, and its goroutine's variables
  events,         \* the audit trail: projects whose removal is recorded
  overlapped,     \* history: ids for which a confirmation met an analysis
  touched,        \* history: ids that changed, or could not be read in full
  reread          \* history: ids that were to be read in another way than before

world   == <<files, live, mounted>>
tables  == <<row, blueprint>>
history == <<overlapped, touched, reread>>
vars    == <<world, tables, at, req, events, history>>

Running == Deployment \union {"none"}

Content     == [version : Version \union {"unread"}, list : List]
Shown       == [deployment : Running, mounts : Order]
Evidence    == [files : Content, live : Shown, order : Order]
Fingerprint == Evidence \union {NoFingerprint}

Row == [state : {"new", "present", "removed"}, name : Name,
        path : Path \union {NoPath}, list : List,
        source : {"discovered", "registered"}]

(* drifted is part of analysis_json, confirmed is a column of its own.     *)
Stored == [fp : Evidence, drifted : BOOLEAN, confirmed : Fingerprint]

ASSUME NoneAssumption == NoFingerprint \notin Evidence /\ NoBlueprint \notin Stored

Step == {"idle", "scanning", "updating", "inserting", "auditing", "deleting",
         "attaching", "reading", "comparing", "saving",
         "confirming"}

Req == [todo      : SUBSET Name,                \* Scan: names not upserted yet
        name      : SUBSET Name,                \* Scan: the one being upserted
        id        : Id \union {NoId},
        path      : Path \union {NoPath},       \* as the record was read
        list      : List,                       \* likewise
        found     : Evidence,
        confirmed : Fingerprint]                \* Analyze: as read before saving

AnyOrder == CHOOSE o \in Order : TRUE
AnyList  == CHOOSE l \in List : TRUE

Unread  == [version |-> "unread", list |-> AnyList]
Unseen  == [deployment |-> "none", mounts |-> AnyOrder]
Nothing == [files |-> Unread, live |-> Unseen, order |-> AnyOrder]

NoReq == [todo |-> {}, name |-> {}, id |-> NoId, path |-> NoPath, list |-> AnyList,
          found |-> Nothing, confirmed |-> NoFingerprint]

Present(i) == row[i].state = "present"
Known(i)   == blueprint[i] # NoBlueprint
Named(n)   == {i \in Id : Present(i) /\ row[i].name = n}

TypeOK ==
  /\ files \in [Path -> Version \union {"unread"}]
  /\ live \in [Name -> Running]
  /\ mounted \in [Name -> Order]
  /\ row \in [Id -> Row]
  /\ blueprint \in [Id -> Stored \union {NoBlueprint}]
  /\ at \in [Request -> Step]
  /\ req \in [Request -> Req]
  /\ events \subseteq Id
  /\ overlapped \subseteq Id
  /\ touched \subseteq Id
  /\ reread \subseteq Id
  /\ \A i \in Id : Known(i) => Present(i)      \* ON DELETE CASCADE
  /\ \A i \in Id : Present(i) => row[i].path # NoPath
  /\ \A r \in Request :
       at[r] \in {"auditing", "deleting", "attaching", "reading", "comparing",
                  "saving", "confirming"} => req[r].id # NoId

AnyName == CHOOSE n \in Name : TRUE

Init ==
  /\ files \in [Path -> Version \union {"unread"}]
  /\ live \in [Name -> Running]
  /\ mounted \in [Name -> Order]
  /\ row = [i \in Id |-> [state |-> "new", name |-> AnyName, path |-> NoPath,
                          list |-> AnyList, source |-> "discovered"]]
  /\ blueprint = [i \in Id |-> NoBlueprint]
  /\ at = [r \in Request |-> "idle"]
  /\ req = [r \in Request |-> NoReq]
  /\ events = {}
  /\ overlapped = {}
  /\ touched = {}
  /\ reread = {}

-----------------------------------------------------------------------------
(* The world                                                               *)

EditFiles(p) ==
  /\ \E v \in (Version \union {"unread"}) \ {files[p]} : files' = [files EXCEPT ![p] = v]
  /\ touched' = touched \union {i \in Id : row[i].path = p}
  /\ UNCHANGED <<live, mounted, tables, at, req, events, overlapped, reread>>

(* Containers are replaced, started or stopped.                            *)
ChangeContainers(n) ==
  /\ \E v \in Running \ {live[n]} : live' = [live EXCEPT ![n] = v]
  /\ touched' = touched \union Named(n)
  /\ UNCHANGED <<files, mounted, tables, at, req, events, overlapped, reread>>

(* Docker lists the mounts of the same containers in another order.        *)
Reorder(n) ==
  /\ \E o \in Order \ {mounted[n]} : mounted' = [mounted EXCEPT ![n] = o]
  /\ reread' = reread \union Named(n)
  /\ UNCHANGED <<files, live, tables, at, req, events, overlapped, touched>>

-----------------------------------------------------------------------------
(* Requests                                                                *)

Goto(r, s) == at' = [at EXCEPT ![r] = s]
Set(r, q)  == req' = [req EXCEPT ![r] = q]

(* It answers, and forgets what it knew.                                   *)
End(r) == Goto(r, "idle") /\ Set(r, NoReq)

(* A new id gets a row; the index on the name refuses a second one.        *)
InsertRow(n, p, l, s) ==
  /\ Named(n) = {}
  /\ \E i \in Id :
       /\ row[i].state = "new"
       /\ row' = [row EXCEPT ![i] = [state |-> "present", name |-> n, path |-> p, list |-> l,
                                     source |-> s]]
  /\ UNCHANGED <<blueprint, events, history>>

(* Cancelled, a database error, an event that must not be lost and was, a  *)
(* process that stops.                                                     *)
Fail(r) ==
  /\ at[r] # "idle"
  /\ End(r)
  /\ UNCHANGED <<world, tables, events, history>>

(* Register, with the Compose files it finds there; one statement decides  *)
(* whether the name is taken.                                              *)
Register(r, n, p, found) ==
  /\ at[r] = "idle"
  /\ End(r)
  /\ \/ InsertRow(n, p, found, "registered")
     \/ Named(n) # {} /\ UNCHANGED <<tables, events, history>>
  /\ UNCHANGED world

-----------------------------------------------------------------------------
(* Scan                                                                    *)

(* Docker lists the projects that run; unreachable, nothing is changed.    *)
Scan(r) ==
  /\ at[r] = "idle"
  /\ Set(r, [NoReq EXCEPT !.todo = {n \in Name : live[n] # "none"}])
  /\ Goto(r, "scanning")
  /\ UNCHANGED <<world, tables, events, history>>

(* upsertDiscovered looks for the name ...                                 *)
Lookup(r, n) ==
  /\ at[r] = "scanning"
  /\ n \in req[r].todo
  /\ LET q == [req[r] EXCEPT !.todo = @ \ {n}, !.name = {n}]
     IN \/ \E i \in Named(n) : Set(r, [q EXCEPT !.id = i]) /\ Goto(r, "updating")
        \/ Named(n) = {} /\ Set(r, q) /\ Goto(r, "inserting")
  /\ UNCHANGED <<world, tables, events, history>>

Upserted(r) == Set(r, [req[r] EXCEPT !.name = {}, !.id = NoId]) /\ Goto(r, "scanning")

(* ... and updates the row it found, path and list, to what Docker says;   *)
(* the row may be gone: that is no error.                                  *)
Update(r) ==
  /\ at[r] = "updating"
  /\ \E n \in req[r].name :
       IF Present(req[r].id)
         THEN /\ row' = [row EXCEPT ![req[r].id] =
                         [@ EXCEPT !.path = WorkDirOf[n], !.list = ListOf[n]]]
              /\ reread' = IF row' = row THEN reread ELSE reread \union {req[r].id}
         ELSE UNCHANGED <<row, reread>>
  /\ Upserted(r)
  /\ UNCHANGED <<world, blueprint, events, overlapped, touched>>

(* ... or inserts one; a name that was taken meanwhile aborts the scan.    *)
Discover(r) ==
  /\ at[r] = "inserting"
  /\ \E n \in req[r].name :
       \/ InsertRow(n, WorkDirOf[n], ListOf[n], "discovered") /\ Upserted(r)
       \/ Named(n) # {} /\ End(r) /\ UNCHANGED <<tables, events, history>>
  /\ UNCHANGED world

Scanned(r) ==
  /\ at[r] = "scanning"
  /\ req[r].todo = {}
  /\ End(r)
  /\ UNCHANGED <<world, tables, events, history>>

-----------------------------------------------------------------------------
(* Remove: the event first, since it must not be lost                      *)

Remove(r, i) ==
  /\ at[r] = "idle"
  /\ Present(i)
  /\ Set(r, [NoReq EXCEPT !.id = i])
  /\ Goto(r, "auditing")
  /\ UNCHANGED <<world, tables, events, history>>

(* Fault: an event that could not be stored does not stop the removal.     *)
AuditLosing(r) ==
  /\ at[r] = "auditing"
  /\ events' \in {events, events \union {req[r].id}}
  /\ Goto(r, "deleting")
  /\ UNCHANGED <<world, tables, req, history>>

Audit(r) ==
  /\ at[r] = "auditing"
  /\ events' = events \union {req[r].id}
  /\ Goto(r, "deleting")
  /\ UNCHANGED <<world, tables, req, history>>

(* Fault: the blueprint does not go with the project.                      *)
DeleteKeepingBlueprint(r) ==
  /\ at[r] = "deleting"
  /\ row' = [row EXCEPT ![req[r].id].state = "removed"]
  /\ End(r)
  /\ UNCHANGED <<world, blueprint, events, history>>

(* The blueprint goes with the project; a project that is gone by now is   *)
(* not found.                                                              *)
Delete(r) ==
  /\ at[r] = "deleting"
  /\ IF Present(req[r].id)
       THEN /\ row' = [row EXCEPT ![req[r].id].state = "removed"]
            /\ blueprint' = [blueprint EXCEPT ![req[r].id] = NoBlueprint]
       ELSE UNCHANGED tables
  /\ End(r)
  /\ UNCHANGED <<world, events, history>>

-----------------------------------------------------------------------------
(* Analyze                                                                 *)

(* projects.Get reads the record ...                                       *)
Analyze(r, i) ==
  /\ at[r] = "idle"
  /\ Present(i)
  /\ Set(r, [NoReq EXCEPT !.id = i, !.path = row[i].path, !.list = row[i].list])
  /\ Goto(r, "attaching")
  /\ UNCHANGED <<world, tables, events, history>>

Misses(r) == touched' = touched \union {req[r].id}

(* What Docker shows of a project.                                         *)
Show(n) == IF live[n] = "none" THEN Unseen
                               ELSE [deployment |-> live[n], mounts |-> mounted[n]]

(* ... and what runs under its name.  A daemon that does not answer looks  *)
(* like a project that does not run; the analysis drops the warning.       *)
Attach(r) ==
  /\ at[r] = "attaching"
  /\ \/ Set(r, [req[r] EXCEPT !.found.live = Show(row[req[r].id].name)]) /\ UNCHANGED touched
     \/ UNCHANGED req /\ Misses(r)
  /\ Goto(r, "reading")
  /\ UNCHANGED <<world, tables, events, overlapped, reread>>

(* What the files on a list under a path say, if they can be parsed.       *)
Read(p, l) == IF files[p] = "unread" THEN Unread ELSE [version |-> files[p], list |-> l]

(* composeEvidence on the record's list and findSQLite under its path,     *)
(* findSQLiteInSources through helpers: what cannot be read or parsed is   *)
(* worth a warning.                                                        *)
ReadFiles(r) ==
  /\ at[r] = "reading"
  /\ \/ /\ Set(r, [req[r] EXCEPT !.found.files = Read(req[r].path, req[r].list)])
        /\ UNCHANGED touched
     \/ UNCHANGED req /\ Misses(r)
  /\ Goto(r, "comparing")
  /\ UNCHANGED <<world, tables, events, overlapped, reread>>

(* confirmation: what was confirmed before, if anything.                   *)
ReadConfirmation(r) ==
  /\ at[r] = "comparing"
  /\ LET b == blueprint[req[r].id]
     IN Set(r, [req[r] EXCEPT !.confirmed =
                  IF b = NoBlueprint THEN NoFingerprint ELSE b.confirmed])
  /\ Goto(r, "saving")
  /\ UNCHANGED <<world, tables, events, history>>

(* Fault: the services are hashed as the document's map gave them.         *)
HashUnsorted(e, o) == [e EXCEPT !.order = o]

(* fingerprintAnalysis, of services that came in order o: they are sorted, *)
(* and so are the findings; the mounts of a service stay as they came.     *)
Hash(e, o) == [e EXCEPT !.order = AnyOrder]

(* What q's analysis stores beside a confirmation.                         *)
Analysis(q, o, confirmed) ==
  LET fp == Hash(q.found, o)
  IN [fp |-> fp, drifted |-> q.confirmed \notin {NoFingerprint, fp}, confirmed |-> confirmed]

(* The foreign key refuses the blueprint of a project that is gone.        *)
Save(r, stored) ==
  LET i == req[r].id
  IN /\ at[r] = "saving"
     /\ Present(i)
     /\ blueprint' = [blueprint EXCEPT ![i] = stored]
     /\ overlapped' = IF Known(i) /\ blueprint[i].confirmed # req[r].confirmed
                        THEN overlapped \union {i} ELSE overlapped
     /\ End(r)
     /\ UNCHANGED <<world, row, events, touched, reread>>

(* On conflict, the columns of the confirmation stay as they are by now.   *)
Kept(r) ==
  LET b == blueprint[req[r].id]
  IN IF b = NoBlueprint THEN req[r].confirmed ELSE b.confirmed

(* Fault: the confirmation that was read is written back.                  *)
SaveAnalysisReplacing(r) ==
  \E o \in Order : Save(r, Analysis(req[r], o, req[r].confirmed))

(* Fault: on conflict the flag stays as well.                              *)
SaveAnalysisKeepingFlag(r) ==
  LET b == blueprint[req[r].id]
  IN \E o \in Order :
       Save(r, [Analysis(req[r], o, Kept(r)) EXCEPT
                  !.drifted = IF b = NoBlueprint THEN @ ELSE b.drifted])

SaveAnalysis(r) == \E o \in Order : Save(r, Analysis(req[r], o, Kept(r)))

-----------------------------------------------------------------------------
(* Confirm                                                                 *)

Confirm(r, i) ==
  /\ at[r] = "idle"
  /\ Known(i)
  /\ Set(r, [NoReq EXCEPT !.id = i])
  /\ Goto(r, "confirming")
  /\ UNCHANGED <<world, tables, events, history>>

(* Whatever is stored by now is confirmed, if the project is still there;  *)
(* the flag inside the stored analysis is cleared in the answer only.      *)
UpdateConfirmation(r) ==
  /\ at[r] = "confirming"
  /\ LET i == req[r].id
         b == blueprint[i]
     IN /\ Known(i)
        /\ blueprint' = [blueprint EXCEPT ![i].confirmed = b.fp]
  /\ End(r)
  /\ UNCHANGED <<world, row, events, history>>

-----------------------------------------------------------------------------
Registry(r) ==
  \/ \E n \in Name, p \in Path, found \in List : Register(r, n, p, found)
  \/ Scan(r) \/ (\E n \in Name : Lookup(r, n)) \/ Update(r) \/ Discover(r) \/ Scanned(r)
  \/ (\E i \in Id : Remove(r, i)) \/ Audit(r) \/ Delete(r)

Analyzer(r) ==
  \/ (\E i \in Id : Analyze(r, i)) \/ Attach(r) \/ ReadFiles(r)
  \/ ReadConfirmation(r) \/ SaveAnalysis(r)
  \/ (\E i \in Id : Confirm(r, i)) \/ UpdateConfirmation(r)

Next ==
  \/ \E r \in Request : Registry(r) \/ Analyzer(r) \/ Fail(r)
  \/ \E p \in Path : EditFiles(p)
  \/ \E n \in Name : ChangeContainers(n) \/ Reorder(n)

Spec == Init /\ [][Next]_vars

-----------------------------------------------------------------------------
(* A project that is gone left an event: the removal was recorded before   *)
(* it took place, whatever failed in between (service.go:137-149).         *)
RemovalIsAudited ==
  \A i \in Id : row[i].state = "removed" => i \in events

Confirmed(i) == IF Known(i) THEN blueprint[i].confirmed ELSE NoFingerprint

(* An analysis that goes on while its blueprint is confirmed does not undo *)
(* the confirmation (save, service.go:179-193): only another one changes   *)
(* it, and only the removal of the project takes it away.                  *)
ApprovalSurvives ==
  [][\A i \in Id : Confirmed(i)' # Confirmed(i) =>
       \/ row'[i].state = "removed"
       \/ \E r \in Request :
            at[r] = "confirming" /\ at'[r] = "idle" /\ req[r].id = i]_vars

(* Of an analysis that differs from what was confirmed, the flag says so   *)
(* (service.go:105): there is no exception but a confirmation that is read *)
(* or written while an analysis is between its last read and its write.    *)
ChangeIsReported ==
  \A i \in Id \ overlapped :
    Confirmed(i) \notin {NoFingerprint} /\ Confirmed(i) # blueprint[i].fp
      => blueprint[i].drifted

(* "The fingerprint is the whole drift mechanism ... an unsorted list      *)
(* produced a different fingerprint on every analysis - a project nobody   *)
(* had touched kept announcing that it had drifted" (fingerprint_test.go   *)
(* :16-20): drift has a cause in files or containers, be it only that they *)
(* were not read.  It is not so where Docker lists the mounts of a service *)
(* in another order, or a scan replaces the list of Compose files.         *)
DriftHasCause ==
  \A i \in Id \ touched : Known(i) => ~blueprint[i].drifted

(* These two are the only exceptions: of a project that did not change and *)
(* is read in the way it was before, no analysis reports drift, whichever  *)
(* way Go's map gives its services (service.go:62-73).                     *)
DriftIsExplained ==
  \A i \in Id \ (touched \union reread) : Known(i) => ~blueprint[i].drifted

=============================================================================
