----------------------------- MODULE Repositories -----------------------------
(***************************************************************************)
(* Backup destinations: internal/repositories.  Create, Delete (with and   *)
(* without the data), Check and Initialize as HTTP requests that run side  *)
(* by side, over three stores that no transaction spans: the repositories  *)
(* table, the secrets table and the directory restic writes to.            *)
(*                                                                         *)
(* Abstractions:                                                           *)
(* - a directory is the set of its entries: "dir" when it exists, restic's *)
(*   own "config", "keys" and "data", and "other" for files of someone     *)
(*   else's; locations do not contain one another;                         *)
(* - every statement, every call of restic and every unlink may fail - the *)
(*   request's context may be done, the disk full, a file not removable;   *)
(* - names are left out: insert may fail, which covers a name taken.       *)
(***************************************************************************)
EXTENDS FiniteSets

CONSTANTS
  Repository,     \* ids ever drawn for a repository
  Location,       \* directories an operator may name
  Password,
  Request,        \* HTTP requests: bounds the number of operations
  Foreign,        \* locations that hold someone else's files from the start
  Mount,          \* locations that are mount points: they cannot be unlinked
  NoPassword

ASSUME NoPasswordAssumption == NoPassword \notin Password
ASSUME LocationAssumption == Foreign \subseteq Location /\ Mount \subseteq Location
ASSUME SomeRepository == Repository # {} /\ Location # {}

VARIABLES
  row,            \* repositories table: "new", "drawn" (id only), "present", "deleted"
  location,       \* the location column
  status,         \* the status column: the last observation
  password,       \* secrets table, kind repository, keyed by the id
  content,        \* the directory at each location
  openedBy,       \* the password restic initialised the location with
  audit,          \* stored events of deletions: <<id, dataDeleted>>
  at, req,        \* where each request stands, and its variables
  initialised,    \* history: locations that have held a restic repository
  asked,          \* history: ids whose data an operator asked to delete
  eraser          \* history: ids whose Delete removed restic's files

tables  == <<row, location, status, password, audit>>
disk    == <<content, openedBy>>
request == <<at, req>>
history == <<initialised, asked, eraser>>
vars    == <<tables, disk, request, history>>

Restic == {"config", "keys", "data"}
Entry  == {"dir", "other"} \union Restic
Status == {"unknown", "uninitialized", "ready", "error"}
Step   == {"waiting", "storing", "inserting", "rollback", "inspecting", "erasing",
           "unlinking", "forgetting", "auditing", "listing", "initializing",
           "reporting", "done"}

Req == [id : Repository, password : Password \union {NoPassword},
        found : BOOLEAN, result : Status]

TypeOK ==
  /\ row \in [Repository -> {"new", "drawn", "present", "deleted"}]
  /\ location \in [Repository -> Location]
  /\ status \in [Repository -> Status]
  /\ password \in [Repository -> Password \union {NoPassword}]
  /\ content \in [Location -> SUBSET Entry]
  /\ openedBy \in [Location -> Password \union {NoPassword}]
  /\ audit \subseteq Repository \X BOOLEAN
  /\ at \in [Request -> Step]
  /\ req \in [Request -> Req]
  /\ initialised \subseteq Location
  /\ asked \subseteq Repository
  /\ eraser \subseteq Repository

(* The variables of a request that is not being served.                    *)
NoReq == [id |-> CHOOSE i \in Repository : TRUE, password |-> NoPassword,
          found |-> FALSE, result |-> "unknown"]

Init ==
  /\ row = [i \in Repository |-> "new"]
  /\ location = [i \in Repository |-> CHOOSE l \in Location : TRUE]
  /\ status = [i \in Repository |-> "unknown"]
  /\ password = [i \in Repository |-> NoPassword]
  /\ content = [l \in Location |-> IF l \in Foreign THEN {"dir", "other"}
                                   ELSE IF l \in Mount THEN {"dir"} ELSE {}]
  /\ openedBy = [l \in Location |-> NoPassword]
  /\ audit = {}
  /\ at = [r \in Request |-> "waiting"]
  /\ req = [r \in Request |-> NoReq]
  /\ initialised = {}
  /\ asked = {}
  /\ eraser = {}

-----------------------------------------------------------------------------
Goto(r, l) == at' = [at EXCEPT ![r] = l]

(* The answer is sent, whatever it says.                                   *)
Answer(r) ==
  /\ Goto(r, "done")
  /\ req' = [req EXCEPT ![r] = NoReq]

Here(r) == location[req[r].id]

-----------------------------------------------------------------------------
(* Create.                                                                 *)

(* The path is validated, which writes nothing, and an id is drawn.        *)
StartCreate(r, i, l, w) ==
  /\ at[r] = "waiting"
  /\ row[i] = "new"
  /\ row' = [row EXCEPT ![i] = "drawn"]
  /\ location' = [location EXCEPT ![i] = l]
  /\ req' = [req EXCEPT ![r].id = i, ![r].password = w]
  /\ Goto(r, "storing")
  /\ UNCHANGED <<status, password, audit, disk, history>>

StorePassword(r) ==
  /\ at[r] = "storing"
  /\ password' = [password EXCEPT ![req[r].id] = req[r].password]
  /\ Goto(r, "inserting")
  /\ UNCHANGED <<row, location, status, audit, disk, req, history>>

StorePasswordFails(r) ==
  /\ at[r] = "storing"
  /\ Answer(r)
  /\ UNCHANGED <<tables, disk, history>>

InsertRow(r) ==
  /\ at[r] = "inserting"
  /\ row' = [row EXCEPT ![req[r].id] = "present"]
  /\ Answer(r)
  /\ UNCHANGED <<location, status, password, audit, disk, history>>

InsertRowFails(r) ==
  /\ at[r] = "inserting"
  /\ Goto(r, "rollback")
  /\ UNCHANGED <<tables, disk, req, history>>

(* The password is taken back; an error here is ignored.                   *)
RollBack(r) ==
  /\ at[r] = "rollback"
  /\ password' \in {password, [password EXCEPT ![req[r].id] = NoPassword]}
  /\ Answer(r)
  /\ UNCHANGED <<row, location, status, audit, disk, history>>

-----------------------------------------------------------------------------
(* Delete.                                                                 *)

(* Fault: the data goes whether or not the operator asked for it.          *)
StartDeleteErasing(r, i, deleteData) ==
  /\ at[r] = "waiting"
  /\ row[i] = "present"
  /\ req' = [req EXCEPT ![r].id = i]
  /\ asked' = IF deleteData THEN asked \union {i} ELSE asked
  /\ Goto(r, "inspecting")
  /\ UNCHANGED <<tables, disk, initialised, eraser>>

StartDelete(r, i, deleteData) ==
  /\ at[r] = "waiting"
  /\ row[i] = "present"
  /\ req' = [req EXCEPT ![r].id = i]
  /\ asked' = IF deleteData THEN asked \union {i} ELSE asked
  /\ Goto(r, IF deleteData THEN "inspecting" ELSE "unlinking")
  /\ UNCHANGED <<tables, disk, initialised, eraser>>

(* purgeLocalRepository's guards: nothing there, an empty directory, or    *)
(* one that carries restic's signature.                                    *)
Absent(l)  == content[l] = {}
Empty(l)   == content[l] = {"dir"}
Resticky(l) == {"config", "keys"} \subseteq content[l]

Purgeable(l) == Absent(l) \/ Empty(l) \/ Resticky(l)

NothingToErase(r) ==
  /\ at[r] = "inspecting"
  /\ Absent(Here(r))
  /\ Goto(r, "unlinking")
  /\ UNCHANGED <<tables, disk, req, history>>

(* Fault: any directory is taken for a repository.                         *)
InspectNothing(r) ==
  /\ at[r] = "inspecting"
  /\ ~Absent(Here(r))
  /\ req' = [req EXCEPT ![r].found = ~Empty(Here(r))]
  /\ Goto(r, "erasing")
  /\ UNCHANGED <<tables, disk, history>>

(* Fault: an empty directory is reported as deleted data.                  *)
InspectBoasting(r) ==
  /\ at[r] = "inspecting"
  /\ ~Absent(Here(r)) /\ Purgeable(Here(r))
  /\ req' = [req EXCEPT ![r].found = TRUE]
  /\ Goto(r, "erasing")
  /\ UNCHANGED <<tables, disk, history>>

Inspect(r) ==
  /\ at[r] = "inspecting"
  /\ ~Absent(Here(r)) /\ Purgeable(Here(r))
  /\ req' = [req EXCEPT ![r].found = ~Empty(Here(r))]
  /\ Goto(r, "erasing")
  /\ UNCHANGED <<tables, disk, history>>

(* ErrNotARepository, or the directory cannot be read.                     *)
InspectRefuses(r) ==
  /\ at[r] = "inspecting"
  /\ ~Absent(Here(r))
  /\ Answer(r)
  /\ UNCHANGED <<tables, disk, history>>

(* os.RemoveAll takes the entries one after another, in no fixed order.    *)
Erase(r) ==
  /\ at[r] = "erasing"
  /\ \E e \in content[Here(r)] \ {"dir"} :
       content' = [content EXCEPT ![Here(r)] = @ \ {e}]
  /\ eraser' = eraser \union {req[r].id}
  /\ UNCHANGED <<tables, openedBy, request, initialised, asked>>

EraseEnds(r) ==
  /\ at[r] = "erasing"
  /\ content[Here(r)] \subseteq {"dir"}
  /\ Here(r) \notin Mount
  /\ content' = [content EXCEPT ![Here(r)] = {}]
  /\ Goto(r, "unlinking")
  /\ UNCHANGED <<tables, openedBy, req, history>>

(* Something could not be removed - the mount point itself never can be.   *)
(* RemoveAll goes on with the rest before it says so.                      *)
EraseFails(r) ==
  /\ at[r] = "erasing"
  /\ Answer(r)
  /\ UNCHANGED <<tables, disk, history>>

(* Fault: the password goes before the row that needs it.                  *)
UnlinkBothWays(r) ==
  /\ at[r] = "unlinking"
  /\ password' = [password EXCEPT ![req[r].id] = NoPassword]
  /\ \/ /\ row' = [row EXCEPT ![req[r].id] = "deleted"]
        /\ Goto(r, "forgetting")
        /\ UNCHANGED req
     \/ Answer(r) /\ UNCHANGED row
  /\ UNCHANGED <<location, status, audit, disk, history>>

Unlink(r) ==
  /\ at[r] = "unlinking"
  /\ row' = [row EXCEPT ![req[r].id] = "deleted"]
  /\ Goto(r, "forgetting")
  /\ UNCHANGED <<location, status, password, audit, disk, req, history>>

UnlinkFails(r) ==
  /\ at[r] = "unlinking"
  /\ Answer(r)
  /\ UNCHANGED <<tables, disk, history>>

Forget(r) ==
  /\ at[r] = "forgetting"
  /\ password' = [password EXCEPT ![req[r].id] = NoPassword]
  /\ Goto(r, "auditing")
  /\ UNCHANGED <<row, location, status, audit, disk, req, history>>

(* Reported: the password stays behind.                                    *)
ForgetFails(r) ==
  /\ at[r] = "forgetting"
  /\ Answer(r)
  /\ UNCHANGED <<tables, disk, history>>

(* The event says whether the purge found data.  It may not be stored:     *)
(* reported when data was deleted, only logged otherwise.                  *)
Audit(r) ==
  /\ at[r] = "auditing"
  /\ audit' \in {audit, audit \union {<<req[r].id, req[r].found>>}}
  /\ Answer(r)
  /\ UNCHANGED <<row, location, status, password, disk, history>>

-----------------------------------------------------------------------------
(* Check and Initialize.                                                   *)

(* engineConfig: the row, then its password; a locked store refuses.       *)
StartEngine(r, i, l) ==
  /\ at[r] = "waiting"
  /\ row[i] = "present"
  /\ req' = [req EXCEPT ![r].id = i, ![r].password = password[i]]
  /\ Goto(r, l)
  /\ UNCHANGED <<tables, disk, history>>

StartCheck(r, i)      == StartEngine(r, i, "listing")
StartInitialize(r, i) == StartEngine(r, i, "initializing")

Found(r, result) ==
  /\ req' = [req EXCEPT ![r].result = result]
  /\ Goto(r, "reporting")

(* restic snapshots: what it finds, or an error that has nothing to do     *)
(* with it (a lock, a cancelled request, the disk).                        *)
ListSnapshots(r) ==
  /\ at[r] = "listing"
  /\ \/ "config" \notin content[Here(r)] /\ Found(r, "uninitialized")
     \/ Resticky(Here(r)) /\ openedBy[Here(r)] = req[r].password /\ Found(r, "ready")
     \/ Found(r, "error")
  /\ UNCHANGED <<tables, disk, history>>

InitRepository(r) ==
  /\ at[r] = "initializing"
  /\ "config" \notin content[Here(r)]
  /\ content' = [content EXCEPT ![Here(r)] = @ \union {"dir"} \union Restic]
  /\ openedBy' = [openedBy EXCEPT ![Here(r)] = req[r].password]
  /\ initialised' = initialised \union {Here(r)}
  /\ Found(r, "ready")
  /\ UNCHANGED <<tables, asked, eraser>>

(* Fault: a status the table does not know.                                *)
AlreadyInitialisedUnknown(r) ==
  /\ at[r] = "initializing"
  /\ "config" \in content[Here(r)]
  /\ Found(r, "initialized")
  /\ UNCHANGED <<tables, disk, history>>

(* "Already initialised" is not a failure: the status becomes ready.       *)
AlreadyInitialised(r) ==
  /\ at[r] = "initializing"
  /\ "config" \in content[Here(r)]
  /\ Found(r, "ready")
  /\ UNCHANGED <<tables, disk, history>>

(* What an init that does not end well leaves of its layout: config comes  *)
(* last, and with it the repository is there.                              *)
Layout == {{}, {"dir"}, {"dir", "data"}, {"dir", "data", "keys"}, {"dir"} \union Restic}

(* Any other error: restic is killed or cancelled on its way, if only      *)
(* before it could say that it was done, or gives up before it looks.      *)
InitRepositoryFails(r) ==
  /\ at[r] = "initializing"
  /\ \E made \in Layout :
       /\ made # {} => "config" \notin content[Here(r)]
       /\ content' = [content EXCEPT ![Here(r)] = @ \union made]
       /\ IF "config" \in made
            THEN /\ openedBy' = [openedBy EXCEPT ![Here(r)] = req[r].password]
                 /\ initialised' = initialised \union {Here(r)}
            ELSE UNCHANGED <<openedBy, initialised>>
  /\ Found(r, "error")
  /\ UNCHANGED <<tables, asked, eraser>>

(* updateStatus: by id, so a deleted row stays deleted; it may fail.       *)
Report(r) ==
  /\ at[r] = "reporting"
  /\ \/ /\ row[req[r].id] = "present"
        /\ status' = [status EXCEPT ![req[r].id] = req[r].result]
     \/ UNCHANGED status
  /\ Answer(r)
  /\ UNCHANGED <<row, location, password, audit, disk, history>>

(* The process ends and is started again: requests are gone, the stores    *)
(* keep what they hold.                                                    *)
Crash ==
  /\ \E r \in Request : at[r] \notin {"waiting", "done"}
  /\ at' = [r \in Request |-> IF at[r] = "waiting" THEN "waiting" ELSE "done"]
  /\ req' = [r \in Request |-> NoReq]
  /\ UNCHANGED <<tables, disk, history>>

-----------------------------------------------------------------------------
Create(r) ==
  \/ \E i \in Repository, l \in Location, w \in Password : StartCreate(r, i, l, w)
  \/ StorePassword(r) \/ StorePasswordFails(r)
  \/ InsertRow(r) \/ InsertRowFails(r) \/ RollBack(r)

Delete(r) ==
  \/ \E i \in Repository, deleteData \in BOOLEAN : StartDelete(r, i, deleteData)
  \/ NothingToErase(r) \/ Inspect(r) \/ InspectRefuses(r)
  \/ Erase(r) \/ EraseEnds(r) \/ EraseFails(r)
  \/ Unlink(r) \/ UnlinkFails(r) \/ Forget(r) \/ ForgetFails(r) \/ Audit(r)

Engine(r) ==
  \/ \E i \in Repository : StartCheck(r, i) \/ StartInitialize(r, i)
  \/ ListSnapshots(r)
  \/ InitRepository(r) \/ AlreadyInitialised(r) \/ InitRepositoryFails(r)
  \/ Report(r)

Next == (\E r \in Request : Create(r) \/ Delete(r) \/ Engine(r)) \/ Crash

Spec == Init /\ [][Next]_vars

-----------------------------------------------------------------------------
(* A configured repository can be opened: its row never outlives its       *)
(* password, whichever request is stopped or fails where, and however the  *)
(* requests interleave (service.go:101-113, 172-179).                      *)
RowHasPassword ==
  \A i \in Repository : row[i] = "present" => password[i] # NoPassword

(* Removing a configuration does not destroy backups (service.go:139-140): *)
(* a restic repository stays whole until some operator asked for the data  *)
(* at its location to be deleted.                                          *)
DataOutlivesConfiguration ==
  \A l \in initialised :
    Restic \subseteq content[l] \/ \E i \in asked : location[i] = l

(* "A directory holding anything else is left alone" (purge.go:70-71): what *)
(* was at a location before Back-Orbit stays there.  It is not so where    *)
(* restic was initialised beside it: RemoveAll takes the directory whole   *)
(* (purge.go:59-64).                                                       *)
ForeignFilesStay ==
  \A l \in Foreign : "other" \in content[l]

(* What the signature check does ensure (purge.go:26-33, 70-85): other     *)
(* people's files go only together with a repository that was initialised  *)
(* among them and that somebody asked to erase - not from a directory in   *)
(* which an initialisation got half way, nor because a second purge of the *)
(* location found the rest of a first.                                     *)
ForeignFilesGoWithRepository ==
  \A l \in Foreign :
    \/ "other" \in content[l]
    \/ l \in initialised /\ \E i \in asked : location[i] = l

(* The audit trail claims an erasure only where restic's files were erased *)
(* ("saying deleted about it would be a lie", purge.go:34-36).             *)
AuditedErasureIsReal ==
  \A i \in Repository :
    <<i, TRUE>> \in audit => \E j \in eraser : location[j] = location[i]

=============================================================================
