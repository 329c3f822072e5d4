-------------------------- MODULE RepositoriesProofs --------------------------
(***************************************************************************)
(* Theorems about Repositories, for any number of repositories, locations, *)
(* passwords and requests.                                                 *)
(***************************************************************************)
EXTENDS Repositories, TLAPS

-----------------------------------------------------------------------------
(* The inductive invariant.                                                *)

Creating == {"storing", "inserting", "rollback"}
Erasing  == {"inspecting", "erasing"}
Leaving  == {"unlinking", "forgetting", "auditing"}

(* An id is drawn by one request, which alone works on it until its row is *)
(* there; what it will insert has a password.                              *)
CreatorAlone ==
  /\ \A r \in Request :
       /\ at[r] \in Creating => row[req[r].id] = "drawn"
       /\ at[r] = "storing" => req[r].password # NoPassword
       /\ at[r] = "inserting" => password[req[r].id] # NoPassword
  /\ \A r1, r2 \in Request :
       at[r1] \in Creating /\ at[r2] \in Creating /\ r1 # r2
         => req[r1].id # req[r2].id

(* A deletion works on a row that was inserted, and takes the password     *)
(* only of a row that is gone.                                             *)
DeleterFindsRow ==
  \A r \in Request :
    /\ at[r] \in Erasing \union Leaving => row[req[r].id] \in {"present", "deleted"}
    /\ at[r] = "forgetting" => row[req[r].id] = "deleted"

(* Ids that anything is remembered about keep their location.              *)
RememberedIsDrawn ==
  \A i \in Repository :
    i \in asked \/ i \in eraser \/ <<i, TRUE>> \in audit => row[i] # "new"

(* Only a deletion that was asked for reaches the purge.                   *)
ErasingWasAsked == \A r \in Request : at[r] \in Erasing => req[r].id \in asked

(* Only restic writes its config, and a purge meets somebody else's files  *)
(* only beside restic's.                                                   *)
ConfigIsRestics == \A l \in Location : "config" \in content[l] => l \in initialised

ForeignFilesAvoided ==
  \A r \in Request :
    at[r] = "erasing" /\ "other" \in content[Here(r)] => Here(r) \in initialised

(* The locations at which restic's files were erased.                      *)
Erased == {location[j] : j \in eraser}

(* Who found data to erase has it before them, or it was erased.           *)
FoundIsErased ==
  \A r \in Request :
    /\ at[r] \in {"waiting", "inspecting"} => ~req[r].found
    /\ at[r] = "erasing" /\ req[r].found
         => "config" \in content[Here(r)] \/ Here(r) \in Erased
    /\ at[r] \in Leaving /\ req[r].found => Here(r) \in Erased

(* What the audit trail claims, in terms of these locations.               *)
AuditedIsErased ==
  \A i \in Repository : <<i, TRUE>> \in audit => location[i] \in Erased

RowInv    == CreatorAlone /\ DeleterFindsRow /\ RowHasPassword
MemoryInv == RememberedIsDrawn /\ ErasingWasAsked
DiskInv   == DataOutlivesConfiguration /\ ConfigIsRestics
               /\ ForeignFilesAvoided /\ ForeignFilesGoWithRepository
ErasedInv == FoundIsErased /\ AuditedIsErased

Inv == TypeOK /\ RowInv /\ MemoryInv /\ DiskInv /\ ErasedInv

-----------------------------------------------------------------------------
(* The variables of a request that is not served are of their type.        *)
LEMMA NoReqType == NoReq \in Req /\ ~NoReq.found
  BY SomeRepository DEF NoReq, Req, Status

(* restic's listing answers one status or another.                         *)
LEMMA Listed ==
  ASSUME NEW r \in Request, ListSnapshots(r)
  PROVE  /\ at[r] = "listing"
         /\ \E result \in Status : Found(r, result)
         /\ UNCHANGED <<tables, disk, history>>
  BY DEF ListSnapshots, Status

(* An answer of restic is noted for the report, and nothing else.          *)
LEMMA Noted ==
  ASSUME TypeOK, NEW r \in Request, NEW result \in Status, Found(r, result)
  PROVE  /\ req' \in [Request -> Req]
         /\ at' = [at EXCEPT ![r] = "reporting"]
         /\ \A r2 \in Request : /\ req'[r2].id = req[r2].id
                                /\ req'[r2].found = req[r2].found
  BY DEF TypeOK, Found, Goto, Req

(* What an initialisation that does not end well leaves: the layout, or a  *)
(* part of it, beside what was there, and restic's config only at a        *)
(* location that is remembered for it.                                     *)
LEMMA InitFailed ==
  ASSUME TypeOK, NEW r \in Request, InitRepositoryFails(r)
  PROVE  /\ at[r] = "initializing"
         /\ req' \in [Request -> Req]
         /\ at' = [at EXCEPT ![r] = "reporting"]
         /\ \A r2 \in Request : /\ req'[r2].id = req[r2].id
                                /\ req'[r2].found = req[r2].found
         /\ content' \in [Location -> SUBSET Entry]
         /\ openedBy' \in [Location -> Password \union {NoPassword}]
         /\ initialised \subseteq initialised' /\ initialised' \subseteq Location
         /\ \A l \in Location : content[l] \subseteq content'[l]
         /\ \A l \in Location : "other" \in content'[l] => "other" \in content[l]
         /\ \A l \in Location : "config" \in content'[l]
              => "config" \in content[l] \/ l \in initialised'
         /\ \A l \in initialised' \ initialised : Restic \subseteq content'[l]
         /\ UNCHANGED <<tables, asked, eraser>>
<1> DEFINE l0 == Here(r)
<1>1. PICK made \in Layout :
        /\ made # {} => "config" \notin content[l0]
        /\ content' = [content EXCEPT ![l0] = @ \union made]
        /\ IF "config" \in made
             THEN /\ openedBy' = [openedBy EXCEPT ![l0] = req[r].password]
                  /\ initialised' = initialised \union {l0}
             ELSE UNCHANGED <<openedBy, initialised>>
      BY DEF InitRepositoryFails
<1>2. /\ at[r] = "initializing"
      /\ Found(r, "error") /\ UNCHANGED <<tables, asked, eraser>>
      BY DEF InitRepositoryFails
<1>3. /\ req' \in [Request -> Req]
      /\ at' = [at EXCEPT ![r] = "reporting"]
      /\ \A r2 \in Request : /\ req'[r2].id = req[r2].id
                             /\ req'[r2].found = req[r2].found
      BY <1>2, Noted, "error" \in Status DEF Status
<1>4. /\ made \subseteq Entry /\ "other" \notin made
      /\ "config" \in made => Restic \subseteq made
      BY DEF Layout, Entry, Restic
<1>5. /\ l0 \in Location /\ content[l0] \subseteq Entry
      /\ req[r].password \in Password \union {NoPassword}
      BY DEF TypeOK, Here, Req
<1> HIDE DEF l0
<1>6. content'[l0] = content[l0] \union made
      BY <1>1, <1>5 DEF TypeOK
<1>7. content' \in [Location -> SUBSET Entry]
      BY <1>1, <1>4, <1>5 DEF TypeOK
<1>8. \A l \in Location \ {l0} : content'[l] = content[l]
      BY <1>1 DEF TypeOK
<1>9. /\ openedBy' \in [Location -> Password \union {NoPassword}]
      /\ initialised \subseteq initialised' /\ initialised' \subseteq Location
      /\ initialised' \ initialised \subseteq {l0}
      /\ "config" \in made => l0 \in initialised'
      /\ l0 \in initialised' \ initialised => "config" \in made
      BY <1>1, <1>5 DEF TypeOK
<1>10. /\ \A l \in Location : content[l] \subseteq content'[l]
       /\ \A l \in Location : "other" \in content'[l] => "other" \in content[l]
       /\ \A l \in Location : "config" \in content'[l]
            => "config" \in content[l] \/ l \in initialised'
      BY <1>4, <1>5, <1>6, <1>8, <1>9
<1>11. \A l \in initialised' \ initialised : Restic \subseteq content'[l]
      BY <1>4, <1>6, <1>9
<1> QED BY <1>2, <1>3, <1>7, <1>9, <1>10, <1>11

(* What a deletion knows once it looked at the directory.                  *)
LEMMA Inspected ==
  ASSUME TypeOK, NEW r \in Request, Inspect(r)
  PROVE  /\ req' \in [Request -> Req]
         /\ at[r] = "inspecting"
         /\ at' = [at EXCEPT ![r] = "erasing"]
         /\ \A r2 \in Request : req'[r2].id = req[r2].id
         /\ \A r2 \in Request \ {r} : req'[r2] = req[r2]
         /\ content[Here(r)] = {"dir"} \/ "config" \in content[Here(r)]
         /\ req'[r].found => "config" \in content[Here(r)]
         /\ UNCHANGED <<tables, disk, history>>
<1> USE DEF TypeOK, Inspect, Goto, Req, Here
<1>1. content[Here(r)] = {"dir"} \/ "config" \in content[Here(r)]
      BY DEF Absent, Purgeable, Empty, Resticky
<1>2. req'[r].found = ~Empty(Here(r))
      OBVIOUS
<1>3. req'[r].found => "config" \in content[Here(r)]
      BY <1>1, <1>2 DEF Empty
<1> QED BY <1>1, <1>3, ZenonT(60)

(* A deletion that begins has found nothing yet.                           *)
LEMMA DeleteBegun ==
  ASSUME TypeOK, NEW r \in Request, NEW i \in Repository, NEW deleteData \in BOOLEAN,
         StartDelete(r, i, deleteData)
  PROVE  /\ req' \in [Request -> Req]
         /\ at[r] = "waiting"
         /\ at' \in {[at EXCEPT ![r] = "inspecting"], [at EXCEPT ![r] = "unlinking"]}
         /\ \A r2 \in Request \ {r} : req'[r2] = req[r2]
         /\ req'[r].id = i
         /\ req'[r].found = req[r].found
  BY ZenonT(60) DEF TypeOK, StartDelete, Goto, Req

(* A creation that begins is given an id that was new.                     *)
LEMMA CreateBegun ==
  ASSUME TypeOK, NEW r \in Request, NEW i \in Repository, NEW l \in Location,
         NEW w \in Password, StartCreate(r, i, l, w)
  PROVE  /\ req' \in [Request -> Req]
         /\ at[r] = "waiting"
         /\ at' = [at EXCEPT ![r] = "storing"]
         /\ \A r2 \in Request \ {r} : req'[r2] = req[r2]
         /\ req'[r].id = i
         /\ req'[r].found = req[r].found
         /\ row[i] = "new"
         /\ row' = [row EXCEPT ![i] = "drawn"]
         /\ UNCHANGED <<disk, history, audit>>
  BY ZenonT(60) DEF TypeOK, StartCreate, Goto, Req, tables

(* A check or an initialisation that begins carries the row's password.    *)
LEMMA EngineBegun ==
  ASSUME TypeOK, NEW r \in Request, NEW i \in Repository,
         StartCheck(r, i) \/ StartInitialize(r, i)
  PROVE  /\ req' \in [Request -> Req]
         /\ at' \in {[at EXCEPT ![r] = "listing"], [at EXCEPT ![r] = "initializing"]}
         /\ UNCHANGED <<tables, disk, history>>
<1> DEFINE begun == [req[r] EXCEPT !.id = i, !.password = password[i]]
<1>1. req' = [req EXCEPT ![r].id = i, ![r].password = password[i]]
      BY DEF StartCheck, StartInitialize, StartEngine
<1>2. req[r] \in Req /\ password[i] \in Password \union {NoPassword}
      BY DEF TypeOK
<1>3. begun \in Req
      BY <1>2 DEF Req
<1>4. req' = [req EXCEPT ![r] = begun]
      BY <1>1, <1>2, Zenon DEF TypeOK
<1> HIDE DEF begun
<1>5. req' \in [Request -> Req]
      BY <1>3, <1>4 DEF TypeOK
<1> QED BY <1>5 DEF StartCheck, StartInitialize, StartEngine, Goto

(* A location is only given to an id that is new.                          *)
LEMMA LocationStays ==
  ASSUME Inv, [Next]_vars, NEW i \in Repository, row[i] # "new"
  PROVE  location'[i] = location[i]
<1>1. ASSUME NEW r \in Request, NEW j \in Repository, NEW l \in Location,
             NEW w \in Password, StartCreate(r, j, l, w)
      PROVE  location'[i] = location[i]
      BY <1>1 DEF StartCreate, Inv, TypeOK
<1> USE DEF tables
<1>2. ASSUME NEW r \in Request, Create(r) PROVE location'[i] = location[i]
      BY <1>1, <1>2 DEF Create, StorePassword, StorePasswordFails, InsertRow,
           InsertRowFails, RollBack
<1>3. ASSUME NEW r \in Request, Delete(r) PROVE location' = location
      BY <1>3 DEF Delete, StartDelete, NothingToErase, Inspect, InspectRefuses, Erase,
           EraseEnds, EraseFails, Unlink, UnlinkFails, Forget, ForgetFails, Audit
<1>4. ASSUME NEW r \in Request, Engine(r) PROVE location' = location
      BY <1>4 DEF Engine, StartCheck, StartInitialize, StartEngine, ListSnapshots,
           InitRepository, AlreadyInitialised, InitRepositoryFails, Report
<1> QED BY <1>2, <1>3, <1>4 DEF Next, Crash, vars

(* What was erased at a location stays erased there.                       *)
LEMMA ErasedStays ==
  ASSUME Inv, [Next]_vars
  PROVE  Erased \subseteq Erased'
<1>1. \A j \in eraser : location'[j] = location[j]
      BY LocationStays DEF Inv, TypeOK, MemoryInv, RememberedIsDrawn
<1>2. eraser \subseteq eraser'
  <2> USE DEF history
  <2>1. ASSUME NEW r \in Request, Create(r) PROVE eraser' = eraser
        BY <2>1 DEF Create, StartCreate, StorePassword, StorePasswordFails, InsertRow,
             InsertRowFails, RollBack
  <2>2. ASSUME NEW r \in Request, Delete(r) PROVE eraser \subseteq eraser'
        BY <2>2 DEF Delete, StartDelete, NothingToErase, Inspect, InspectRefuses, Erase,
             EraseEnds, EraseFails, Unlink, UnlinkFails, Forget, ForgetFails, Audit
  <2>3. ASSUME NEW r \in Request, Engine(r) PROVE eraser' = eraser
        BY <2>3 DEF Engine, StartCheck, StartInitialize, StartEngine, ListSnapshots,
             InitRepository, AlreadyInitialised, InitRepositoryFails, Report
  <2> QED BY <2>1, <2>2, <2>3 DEF Next, Crash, vars
<1> QED BY <1>1, <1>2 DEF Erased

(* Every step keeps every variable within its type.                        *)
LEMMA TypeStep == Inv /\ [Next]_vars => TypeOK'
<1> SUFFICES ASSUME Inv, [Next]_vars PROVE TypeOK'
    OBVIOUS
<1> USE NoReqType DEF Inv, TypeOK, Req, Goto, Step, tables, disk, request, history,
            Here, Entry, Status, Restic
<1>1. ASSUME NEW r \in Request, Create(r) PROVE TypeOK'
  <2>1. ASSUME NEW i \in Repository, NEW l \in Location, NEW w \in Password,
              StartCreate(r, i, l, w)
        PROVE  TypeOK'
        BY <2>1, CreateBegun DEF StartCreate
  <2>2. CASE StorePassword(r) BY <2>2 DEF StorePassword
  <2>3. CASE StorePasswordFails(r) BY <2>3 DEF StorePasswordFails, Answer
  <2>4. CASE InsertRow(r) BY <2>4 DEF InsertRow, Answer
  <2>5. CASE InsertRowFails(r) BY <2>5 DEF InsertRowFails
  <2>6. CASE RollBack(r) BY <2>6 DEF RollBack, Answer
  <2> QED BY <1>1, <2>1, <2>2, <2>3, <2>4, <2>5, <2>6 DEF Create
<1>2. ASSUME NEW r \in Request, Delete(r) PROVE TypeOK'
  <2>1. ASSUME NEW i \in Repository, NEW deleteData \in BOOLEAN,
              StartDelete(r, i, deleteData)
        PROVE  TypeOK'
        BY <2>1, ZenonT(60) DEF StartDelete
  <2>2. CASE NothingToErase(r) BY <2>2 DEF NothingToErase, Absent
  <2>3. CASE Inspect(r)
        BY <2>3, Inspected
  <2>4. CASE InspectRefuses(r) BY <2>4 DEF InspectRefuses, Answer
  <2>5. CASE Erase(r) BY <2>5 DEF Erase
  <2>6. CASE EraseEnds(r) BY <2>6 DEF EraseEnds
  <2>7. CASE EraseFails(r) BY <2>7 DEF EraseFails, Answer
  <2>8. CASE Unlink(r) BY <2>8 DEF Unlink
  <2>9. CASE UnlinkFails(r) BY <2>9 DEF UnlinkFails, Answer
  <2>10. CASE Forget(r) BY <2>10 DEF Forget
  <2>11. CASE ForgetFails(r) BY <2>11 DEF ForgetFails, Answer
  <2>12. CASE Audit(r) BY <2>12 DEF Audit, Answer
  <2> QED BY <1>2, <2>1, <2>2, <2>3, <2>4, <2>5, <2>6, <2>7, <2>8,
           <2>9, <2>10, <2>11, <2>12 DEF Delete
<1>3. ASSUME NEW r \in Request, Engine(r) PROVE TypeOK'
  <2>1. ASSUME NEW i \in Repository, StartCheck(r, i)
        PROVE  TypeOK'
        BY <2>1, EngineBegun
  <2>2. ASSUME NEW i \in Repository, StartInitialize(r, i)
        PROVE  TypeOK'
        BY <2>2, EngineBegun
  <2>3. CASE ListSnapshots(r)
    <3> HIDE DEF Req, Goto, Here, Status
    <3>1. PICK result \in Status : Found(r, result)
          BY <2>3, Listed
    <3>2. req' \in [Request -> Req] /\ at' = [at EXCEPT ![r] = "reporting"]
          BY <3>1, Noted
    <3>3. UNCHANGED <<tables, disk, history>>
          BY <2>3, Listed
    <3> QED BY <3>2, <3>3
  <2>4. CASE InitRepository(r) BY <2>4 DEF InitRepository, Found, Restic
  <2>5. CASE AlreadyInitialised(r)
    <3>1. Found(r, "ready") /\ UNCHANGED <<tables, disk, history>>
          BY <2>5 DEF AlreadyInitialised
    <3>2. req' \in [Request -> Req] /\ at' = [at EXCEPT ![r] = "reporting"]
          BY <3>1, Noted
    <3> HIDE DEF Req, Goto, Here, Status
    <3> QED BY <3>1, <3>2
  <2>6. CASE InitRepositoryFails(r)
    <3> HIDE DEF Req, Goto, Here, Status, Entry, Restic
    <3> QED BY <2>6, InitFailed
  <2>7. CASE Report(r) BY <2>7 DEF Report, Answer
  <2> QED BY <1>3, <2>1, <2>2, <2>3, <2>4, <2>5, <2>6, <2>7 DEF Engine
<1>4. CASE Crash BY <1>4 DEF Crash, NoReq
<1>5. CASE UNCHANGED vars BY <1>5 DEF vars
<1> QED BY <1>1, <1>2, <1>3, <1>4, <1>5 DEF Next

(* A row and its password come and go in an order that keeps them together. *)
LEMMA RowStep == Inv /\ [Next]_vars => RowInv'
<1> SUFFICES ASSUME Inv, [Next]_vars PROVE RowInv'
    OBVIOUS
<1> USE NoPasswordAssumption DEF Inv, TypeOK, Req, Goto, Step, tables, request, RowInv,
            CreatorAlone, DeleterFindsRow, RowHasPassword, Creating, Erasing, Leaving
<1>1. ASSUME NEW r \in Request, Create(r) PROVE RowInv'
  <2>1. ASSUME NEW i \in Repository, NEW l \in Location, NEW w \in Password,
              StartCreate(r, i, l, w)
        PROVE  RowInv'
        BY <2>1 DEF StartCreate
  <2>2. CASE StorePassword(r) BY <2>2 DEF StorePassword
  <2>3. CASE StorePasswordFails(r) BY <2>3 DEF StorePasswordFails, Answer
  <2>4. CASE InsertRow(r) BY <2>4 DEF InsertRow, Answer
  <2>5. CASE InsertRowFails(r) BY <2>5 DEF InsertRowFails
  <2>6. CASE RollBack(r) BY <2>6 DEF RollBack, Answer
  <2> QED BY <1>1, <2>1, <2>2, <2>3, <2>4, <2>5, <2>6 DEF Create
<1>2. ASSUME NEW r \in Request, Delete(r) PROVE RowInv'
  <2>1. ASSUME NEW i \in Repository, NEW deleteData \in BOOLEAN,
              StartDelete(r, i, deleteData)
        PROVE  RowInv'
        BY <2>1 DEF StartDelete
  <2>2. CASE NothingToErase(r) BY <2>2 DEF NothingToErase, Absent
  <2>3. CASE Inspect(r)
        BY <2>3 DEF Inspect, Absent, Empty, Purgeable, Resticky, Restic
  <2>4. CASE InspectRefuses(r) BY <2>4 DEF InspectRefuses, Answer
  <2>5. CASE Erase(r) BY <2>5 DEF Erase
  <2>6. CASE EraseEnds(r) BY <2>6 DEF EraseEnds
  <2>7. CASE EraseFails(r) BY <2>7 DEF EraseFails, Answer
  <2>8. CASE Unlink(r) BY <2>8 DEF Unlink
  <2>9. CASE UnlinkFails(r) BY <2>9 DEF UnlinkFails, Answer
  <2>10. CASE Forget(r) BY <2>10 DEF Forget
  <2>11. CASE ForgetFails(r) BY <2>11 DEF ForgetFails, Answer
  <2>12. CASE Audit(r) BY <2>12 DEF Audit, Answer
  <2> HIDE DEF Inv, TypeOK, Req, Goto, Step, tables, request, RowInv, CreatorAlone,
               DeleterFindsRow, RowHasPassword, Creating, Erasing, Leaving
  <2> QED BY <1>2, <2>1, <2>2, <2>3, <2>4, <2>5, <2>6, <2>7, <2>8,
           <2>9, <2>10, <2>11, <2>12 DEF Delete
<1>3. ASSUME NEW r \in Request, Engine(r) PROVE RowInv'
  <2>1. ASSUME NEW i \in Repository, StartCheck(r, i)
        PROVE  RowInv'
        BY <2>1 DEF StartCheck, StartEngine
  <2>2. ASSUME NEW i \in Repository, StartInitialize(r, i)
        PROVE  RowInv'
        BY <2>2 DEF StartInitialize, StartEngine
  <2>3. CASE ListSnapshots(r) BY <2>3 DEF ListSnapshots, Found
  <2>4. CASE InitRepository(r) BY <2>4 DEF InitRepository, Found, Restic
  <2>5. CASE AlreadyInitialised(r) BY <2>5 DEF AlreadyInitialised, Found
  <2>6. CASE InitRepositoryFails(r)
        BY <2>6 DEF InitRepositoryFails, Found, Restic
  <2>7. CASE Report(r) BY <2>7 DEF Report, Answer
  <2> QED BY <1>3, <2>1, <2>2, <2>3, <2>4, <2>5, <2>6, <2>7 DEF Engine
<1>4. CASE Crash BY <1>4 DEF Crash, NoReq
<1>5. CASE UNCHANGED vars BY <1>5 DEF vars
<1> QED BY <1>1, <1>2, <1>3, <1>4, <1>5 DEF Next

(* What is remembered is about ids that were drawn.                        *)
LEMMA MemoryStep == Inv /\ [Next]_vars => MemoryInv'
<1> SUFFICES ASSUME Inv, [Next]_vars PROVE MemoryInv'
    OBVIOUS
<1> USE DEF Inv, TypeOK, Req, Goto, Step, tables, request, history, RowInv, MemoryInv,
            DeleterFindsRow, RememberedIsDrawn, ErasingWasAsked, Erasing, Leaving
<1>1. ASSUME NEW r \in Request, Create(r) PROVE MemoryInv'
  <2>1. ASSUME NEW i \in Repository, NEW l \in Location, NEW w \in Password,
              StartCreate(r, i, l, w)
        PROVE  MemoryInv'
        BY <2>1 DEF StartCreate
  <2>2. CASE StorePassword(r) BY <2>2 DEF StorePassword
  <2>3. CASE StorePasswordFails(r) BY <2>3 DEF StorePasswordFails, Answer
  <2>4. CASE InsertRow(r) BY <2>4 DEF InsertRow, Answer
  <2>5. CASE InsertRowFails(r) BY <2>5 DEF InsertRowFails
  <2>6. CASE RollBack(r) BY <2>6 DEF RollBack, Answer
  <2> QED BY <1>1, <2>1, <2>2, <2>3, <2>4, <2>5, <2>6 DEF Create
<1>2. ASSUME NEW r \in Request, Delete(r) PROVE MemoryInv'
  <2>1. ASSUME NEW i \in Repository, NEW deleteData \in BOOLEAN,
              StartDelete(r, i, deleteData)
        PROVE  MemoryInv'
        BY <2>1, ZenonT(60) DEF StartDelete
  <2>2. CASE NothingToErase(r) BY <2>2 DEF NothingToErase, Absent
  <2>3. CASE Inspect(r)
        BY <2>3, Inspected, ZenonT(60)
  <2>4. CASE InspectRefuses(r) BY <2>4 DEF InspectRefuses, Answer
  <2>5. CASE Erase(r) BY <2>5 DEF Erase
  <2>6. CASE EraseEnds(r) BY <2>6 DEF EraseEnds
  <2>7. CASE EraseFails(r) BY <2>7 DEF EraseFails, Answer
  <2>8. CASE Unlink(r) BY <2>8 DEF Unlink
  <2>9. CASE UnlinkFails(r) BY <2>9 DEF UnlinkFails, Answer
  <2>10. CASE Forget(r) BY <2>10 DEF Forget
  <2>11. CASE ForgetFails(r) BY <2>11 DEF ForgetFails, Answer
  <2>12. CASE Audit(r) BY <2>12 DEF Audit, Answer
  <2> QED BY <1>2, <2>1, <2>2, <2>3, <2>4, <2>5, <2>6, <2>7, <2>8,
           <2>9, <2>10, <2>11, <2>12 DEF Delete
<1>3. ASSUME NEW r \in Request, Engine(r) PROVE MemoryInv'
  <2>1. ASSUME NEW i \in Repository, StartCheck(r, i)
        PROVE  MemoryInv'
        BY <2>1 DEF StartCheck, StartEngine
  <2>2. ASSUME NEW i \in Repository, StartInitialize(r, i)
        PROVE  MemoryInv'
        BY <2>2 DEF StartInitialize, StartEngine
  <2>3. CASE ListSnapshots(r)
    <3>1. PICK result \in Status : Found(r, result)
          BY <2>3, Listed
    <3>2. at[r] = "listing" /\ UNCHANGED <<tables, disk, history>>
          BY <2>3, Listed
    <3> QED BY <3>1, <3>2 DEF Found
  <2>4. CASE InitRepository(r) BY <2>4 DEF InitRepository, Found, Restic
  <2>5. CASE AlreadyInitialised(r) BY <2>5 DEF AlreadyInitialised, Found
  <2>6. CASE InitRepositoryFails(r) BY <2>6, InitFailed DEF Inv
  <2>7. CASE Report(r) BY <2>7 DEF Report, Answer
  <2> QED BY <1>3, <2>1, <2>2, <2>3, <2>4, <2>5, <2>6, <2>7 DEF Engine
<1>4. CASE Crash BY <1>4 DEF Crash, NoReq
<1>5. CASE UNCHANGED vars BY <1>5 DEF vars
<1> QED BY <1>1, <1>2, <1>3, <1>4, <1>5 DEF Next

(* No request but the creation itself moves, and no location of theirs.    *)
LEMMA CreateFrame ==
  ASSUME Inv, [Next]_vars, NEW r \in Request, NEW i \in Repository, NEW l \in Location,
         NEW w \in Password, StartCreate(r, i, l, w)
  PROVE  /\ UNCHANGED <<disk, history, audit>>
         /\ \A j \in asked : location'[j] = location[j]
         /\ at'[r] = "storing"
         /\ \A r2 \in Request \ {r} : at'[r2] = at[r2] /\ req'[r2] = req[r2]
         /\ \A r2 \in Request : at[r2] \in Erasing \union Leaving
              => r2 # r /\ Here(r2)' = Here(r2)
<1>1. UNCHANGED <<disk, history, audit>> /\ at'[r] = "storing"
      BY CreateBegun DEF Inv, TypeOK
<1>2. \A j \in Repository : row[j] # "new" => location'[j] = location[j]
      BY LocationStays
<1>3. \A j \in asked : location'[j] = location[j]
      BY <1>2 DEF Inv, TypeOK, MemoryInv, RememberedIsDrawn
<1>4. \A r2 \in Request \ {r} : at'[r2] = at[r2] /\ req'[r2] = req[r2]
      BY CreateBegun DEF Inv, TypeOK
<1>5. at[r] = "waiting"
      BY DEF StartCreate
<1>6. \A r2 \in Request : at[r2] \in Erasing \union Leaving
        => req[r2].id \in Repository /\ row[req[r2].id] # "new"
      BY DEF Inv, RowInv, DeleterFindsRow, TypeOK, Req
<1>7. \A r2 \in Request : at[r2] \in Erasing \union Leaving
        => r2 # r /\ Here(r2)' = Here(r2)
      BY <1>2, <1>4, <1>5, <1>6 DEF Here, Erasing, Leaving
<1> QED BY <1>1, <1>3, <1>4, <1>7

(* Drawing an id changes nothing on disk.                                  *)
LEMMA CreateKeepsDisk ==
  ASSUME Inv, [Next]_vars, NEW r \in Request, NEW i \in Repository, NEW l \in Location,
         NEW w \in Password, StartCreate(r, i, l, w)
  PROVE  DiskInv'
<1>1. DataOutlivesConfiguration'
      BY CreateFrame DEF Inv, DiskInv, DataOutlivesConfiguration, disk, history
<1>2. ConfigIsRestics' /\ ForeignFilesGoWithRepository'
      BY CreateFrame DEF Inv, DiskInv, ConfigIsRestics, ForeignFilesGoWithRepository, disk, history
<1>3. \A r2 \in Request : at'[r2] = "erasing" => at[r2] = "erasing" /\ Here(r2)' = Here(r2)
      BY CreateFrame DEF Erasing
<1>4. ForeignFilesAvoided'
      BY <1>3, CreateFrame DEF Inv, DiskInv, ForeignFilesAvoided, disk, history
<1> QED BY <1>1, <1>2, <1>4 DEF DiskInv

(* What lies at a location goes only with what was asked for.              *)
LEMMA DiskStep == Inv /\ [Next]_vars => DiskInv'
<1> SUFFICES ASSUME Inv, [Next]_vars PROVE DiskInv'
    OBVIOUS
<1>a. /\ at \in [Request -> Step] /\ req \in [Request -> Req]
      /\ \A r \in Request : req[r].id \in Repository
      /\ location \in [Repository -> Location]
      /\ content \in [Location -> SUBSET Entry]
      /\ initialised \subseteq Location
      /\ ErasingWasAsked /\ DiskInv
      BY DEF Inv, TypeOK, Req, MemoryInv
<1> USE <1>a DEF Goto, tables, disk, request, history, DiskInv, ErasingWasAsked,
            DataOutlivesConfiguration, ConfigIsRestics, ForeignFilesAvoided,
            ForeignFilesGoWithRepository, Erasing, Here, Restic
<1>1. ASSUME NEW r \in Request, Create(r) PROVE DiskInv'
  <2>1. ASSUME NEW i \in Repository, NEW l \in Location, NEW w \in Password,
              StartCreate(r, i, l, w)
        PROVE  DiskInv'
        BY <2>1, CreateKeepsDisk
  <2>2. CASE StorePassword(r) BY <2>2 DEF StorePassword
  <2>3. CASE StorePasswordFails(r) BY <2>3 DEF StorePasswordFails, Answer
  <2>4. CASE InsertRow(r) BY <2>4 DEF InsertRow, Answer
  <2>5. CASE InsertRowFails(r) BY <2>5 DEF InsertRowFails
  <2>6. CASE RollBack(r) BY <2>6 DEF RollBack, Answer
  <2> QED BY <1>1, <2>1, <2>2, <2>3, <2>4, <2>5, <2>6 DEF Create
<1>2. ASSUME NEW r \in Request, Delete(r) PROVE DiskInv'
  <2>1. ASSUME NEW i \in Repository, NEW deleteData \in BOOLEAN,
              StartDelete(r, i, deleteData)
        PROVE  DiskInv'
        BY <2>1 DEF StartDelete
  <2>2. CASE NothingToErase(r) BY <2>2 DEF NothingToErase, Absent
  <2>3. CASE Inspect(r) BY <2>3, Inspected DEF Inv
  <2>4. CASE InspectRefuses(r) BY <2>4 DEF InspectRefuses, Answer
  <2>5. CASE Erase(r) BY <2>5 DEF Erase
  <2>6. CASE EraseEnds(r) BY <2>6 DEF EraseEnds
  <2>7. CASE EraseFails(r) BY <2>7 DEF EraseFails, Answer
  <2>8. CASE Unlink(r) BY <2>8 DEF Unlink
  <2>9. CASE UnlinkFails(r) BY <2>9 DEF UnlinkFails, Answer
  <2>10. CASE Forget(r) BY <2>10 DEF Forget
  <2>11. CASE ForgetFails(r) BY <2>11 DEF ForgetFails, Answer
  <2>12. CASE Audit(r) BY <2>12 DEF Audit, Answer
  <2> QED BY <1>2, <2>1, <2>2, <2>3, <2>4, <2>5, <2>6, <2>7, <2>8,
           <2>9, <2>10, <2>11, <2>12 DEF Delete
<1>3. ASSUME NEW r \in Request, Engine(r) PROVE DiskInv'
  <2>1. ASSUME NEW i \in Repository, StartCheck(r, i)
        PROVE  DiskInv'
        BY <2>1 DEF StartCheck, StartEngine
  <2>2. ASSUME NEW i \in Repository, StartInitialize(r, i)
        PROVE  DiskInv'
        BY <2>2 DEF StartInitialize, StartEngine
  <2>3. CASE ListSnapshots(r)
    <3>1. PICK result \in Status : Found(r, result)
          BY <2>3, Listed
    <3>2. at[r] = "listing" /\ UNCHANGED <<tables, disk, history>>
          BY <2>3, Listed
    <3> QED BY <3>1, <3>2 DEF Found
  <2>4. CASE InitRepository(r) BY <2>4 DEF InitRepository, Found, Restic
  <2>5. CASE AlreadyInitialised(r) BY <2>5 DEF AlreadyInitialised, Found
  <2>6. CASE InitRepositoryFails(r)
    <3>1. /\ \A l \in Location : content[l] \subseteq content'[l]
          /\ \A l \in Location : "config" \in content'[l]
               => "config" \in content[l] \/ l \in initialised'
          /\ \A l \in Location : "other" \in content'[l] => "other" \in content[l]
          /\ \A l \in initialised' \ initialised : Restic \subseteq content'[l]
          /\ initialised \subseteq initialised'
          BY <2>6, InitFailed DEF Inv
    <3>2. /\ at' = [at EXCEPT ![r] = "reporting"]
          /\ \A r2 \in Request : req'[r2].id = req[r2].id
          /\ initialised' \subseteq Location
          /\ UNCHANGED <<tables, asked, eraser>>
          BY <2>6, InitFailed DEF Inv
    <3>3. \A r2 \in Request :
            at'[r2] = "erasing" => at[r2] = "erasing" /\ Here(r2)' = Here(r2)
          BY <3>2
    <3>4. DataOutlivesConfiguration' /\ ConfigIsRestics'
          BY <3>1, <3>2
    <3>5. ForeignFilesGoWithRepository'
          BY <3>1, <3>2, LocationAssumption
    <3>6. \A r2 \in Request : Here(r2) \in Location
          OBVIOUS
    <3>7. ForeignFilesAvoided'
          BY <3>1, <3>2, <3>3, <3>6
    <3> QED BY <3>4, <3>5, <3>7
  <2>7. CASE Report(r) BY <2>7 DEF Report, Answer
  <2> QED BY <1>3, <2>1, <2>2, <2>3, <2>4, <2>5, <2>6, <2>7 DEF Engine
<1>4. CASE Crash BY <1>4 DEF Crash, NoReq
<1>5. CASE UNCHANGED vars BY <1>5 DEF vars
<1> QED BY <1>1, <1>2, <1>3, <1>4, <1>5 DEF Next

(* ... nor does it change what was erased, or who knows of it.            *)
LEMMA CreateKeepsErased ==
  ASSUME Inv, [Next]_vars, NEW r \in Request, NEW i \in Repository, NEW l \in Location,
         NEW w \in Password, StartCreate(r, i, l, w), Erased \subseteq Erased'
  PROVE  ErasedInv'
<1>1. \A j \in Repository : row[j] # "new" => location'[j] = location[j]
      BY LocationStays
<1>2. \A j \in Repository : <<j, TRUE>> \in audit => row[j] # "new" /\ location[j] \in Erased
      BY DEF Inv, MemoryInv, RememberedIsDrawn, ErasedInv, AuditedIsErased
<1>3. AuditedIsErased'
      BY <1>1, <1>2, CreateFrame DEF AuditedIsErased
<1>4. \A r2 \in Request : at'[r2] \in Erasing \union Leaving =>
         /\ at'[r2] = at[r2] /\ req'[r2] = req[r2]
         /\ Here(r2)' = Here(r2)
      BY CreateFrame DEF Erasing, Leaving
<1>5. \A r2 \in Request : at'[r2] = "waiting" => at[r2] = "waiting" /\ req'[r2] = req[r2]
      BY CreateFrame
<1>6. FoundIsErased'
      BY <1>4, <1>5, CreateFrame DEF Inv, ErasedInv, FoundIsErased, Erasing, Leaving, disk
<1> QED BY <1>3, <1>6 DEF ErasedInv

(* A look at the directory finds data only where restic's config is.       *)
LEMMA InspectKeepsErased ==
  ASSUME Inv, [Next]_vars, NEW r \in Request, Inspect(r)
  PROVE  ErasedInv'
<1>1. UNCHANGED <<tables, disk, history>>
      BY Inspected DEF Inv
<1>2. /\ at[r] = "inspecting" /\ at'[r] = "erasing"
      /\ req'[r].found => "config" \in content[Here(r)]
      BY Inspected DEF Inv, TypeOK
<1>3. \A r2 \in Request \ {r} : at'[r2] = at[r2] /\ req'[r2] = req[r2]
      BY Inspected DEF Inv, TypeOK
<1>4. \A r2 \in Request : Here(r2)' = Here(r2)
      BY <1>1, Inspected DEF Here, Inv, tables
<1>5. AuditedIsErased' /\ Erased' = Erased
      BY <1>1 DEF Inv, ErasedInv, AuditedIsErased, Erased, tables, history
<1>6. FoundIsErased'
      BY <1>1, <1>2, <1>3, <1>4, <1>5 DEF Inv, ErasedInv, FoundIsErased, Leaving, disk
<1> QED BY <1>5, <1>6 DEF ErasedInv

(* A deletion that begins claims nothing.                                  *)
LEMMA DeleteKeepsErased ==
  ASSUME Inv, NEW r \in Request,
         \E i \in Repository, deleteData \in BOOLEAN : StartDelete(r, i, deleteData)
  PROVE  ErasedInv'
<1> PICK i \in Repository, deleteData \in BOOLEAN : StartDelete(r, i, deleteData)
    OBVIOUS
<1>1. UNCHANGED <<tables, disk, eraser>>
      BY DEF StartDelete
<1>2. /\ at[r] = "waiting" /\ at'[r] \in {"inspecting", "unlinking"}
      /\ ~req[r].found /\ req'[r].found = req[r].found
      BY DeleteBegun DEF Inv, TypeOK, ErasedInv, FoundIsErased
<1>3. \A r2 \in Request \ {r} : at'[r2] = at[r2] /\ req'[r2] = req[r2]
      BY DeleteBegun DEF Inv, TypeOK
<1>4. \A r2 \in Request \ {r} : Here(r2)' = Here(r2)
      BY <1>1, <1>3 DEF Here, tables
<1>5. AuditedIsErased' /\ Erased' = Erased
      BY <1>1 DEF Inv, ErasedInv, AuditedIsErased, Erased, tables
<1>6. FoundIsErased'
      BY <1>1, <1>2, <1>3, <1>4, <1>5 DEF Inv, ErasedInv, FoundIsErased, Leaving, disk
<1> QED BY <1>5, <1>6 DEF ErasedInv

(* A deletion that says it erased something has seen it erased.            *)
LEMMA ErasedStep == Inv /\ [Next]_vars => ErasedInv'
<1> SUFFICES ASSUME Inv, [Next]_vars PROVE ErasedInv'
    OBVIOUS
<1>a. Erased \subseteq Erased'
      BY ErasedStays
<1>b. /\ at \in [Request -> Step] /\ req \in [Request -> Req]
      /\ \A r \in Request : req[r].id \in Repository
      /\ location \in [Repository -> Location]
      /\ content \in [Location -> SUBSET Entry]
      /\ ErasedInv
      BY DEF Inv, TypeOK, Req
<1> USE NoReqType, <1>a, <1>b
<1> USE DEF Goto, tables, disk, request, history, ErasedInv, FoundIsErased,
            AuditedIsErased, Leaving, Here, Restic
<1>1. ASSUME NEW r \in Request, Create(r) PROVE ErasedInv'
  <2>1. ASSUME NEW i \in Repository, NEW l \in Location, NEW w \in Password,
              StartCreate(r, i, l, w)
        PROVE  ErasedInv'
        BY <2>1, <1>a, CreateKeepsErased
  <2>2. CASE StorePassword(r) BY <2>2 DEF StorePassword
  <2>3. CASE StorePasswordFails(r) BY <2>3 DEF StorePasswordFails, Answer
  <2>4. CASE InsertRow(r) BY <2>4 DEF InsertRow, Answer
  <2>5. CASE InsertRowFails(r) BY <2>5 DEF InsertRowFails
  <2>6. CASE RollBack(r) BY <2>6 DEF RollBack, Answer
  <2> QED BY <1>1, <2>1, <2>2, <2>3, <2>4, <2>5, <2>6 DEF Create
<1>2. ASSUME NEW r \in Request, Delete(r) PROVE ErasedInv'
  <2>1. ASSUME NEW i \in Repository, NEW deleteData \in BOOLEAN,
              StartDelete(r, i, deleteData)
        PROVE  ErasedInv'
    <3>1. \E j \in Repository, d \in BOOLEAN : StartDelete(r, j, d)
          BY <2>1, Zenon
    <3> QED BY <3>1, DeleteKeepsErased
  <2>2. CASE NothingToErase(r) BY <2>2 DEF NothingToErase, Absent
  <2>3. CASE Inspect(r) BY <2>3, InspectKeepsErased
  <2>4. CASE InspectRefuses(r) BY <2>4 DEF InspectRefuses, Answer
  <2>5. CASE Erase(r)
    <3>1. Here(r)' \in Erased'
          BY <2>5 DEF Erase, Erased
    <3>2. \A l \in Location : l # Here(r) => content'[l] = content[l]
          BY <2>5 DEF Erase
    <3> QED BY <2>5, <3>1, <3>2 DEF Erase
  <2>6. CASE EraseEnds(r)
    <3>1. req[r].found => Here(r)' \in Erased'
          BY <2>6 DEF EraseEnds
    <3>2. \A l \in Location : "config" \in content[l] => "config" \in content'[l]
          BY <2>6 DEF EraseEnds
    <3> QED BY <2>6, <3>1, <3>2 DEF EraseEnds
  <2>7. CASE EraseFails(r) BY <2>7 DEF EraseFails, Answer
  <2>8. CASE Unlink(r) BY <2>8 DEF Unlink
  <2>9. CASE UnlinkFails(r) BY <2>9 DEF UnlinkFails, Answer
  <2>10. CASE Forget(r) BY <2>10 DEF Forget
  <2>11. CASE ForgetFails(r) BY <2>11 DEF ForgetFails, Answer
  <2>12. CASE Audit(r) BY <2>12 DEF Audit, Answer
  <2> QED BY <1>2, <2>1, <2>2, <2>3, <2>4, <2>5, <2>6, <2>7, <2>8,
           <2>9, <2>10, <2>11, <2>12 DEF Delete
<1>3. ASSUME NEW r \in Request, Engine(r) PROVE ErasedInv'
  <2>1. ASSUME NEW i \in Repository, StartCheck(r, i)
        PROVE  ErasedInv'
        BY <2>1 DEF StartCheck, StartEngine
  <2>2. ASSUME NEW i \in Repository, StartInitialize(r, i)
        PROVE  ErasedInv'
        BY <2>2 DEF StartInitialize, StartEngine
  <2>3. CASE ListSnapshots(r)
    <3>1. PICK result \in Status : Found(r, result)
          BY <2>3, Listed
    <3>2. at[r] = "listing" /\ UNCHANGED <<tables, disk, history>>
          BY <2>3, Listed
    <3> QED BY <3>1, <3>2 DEF Found
  <2>4. CASE InitRepository(r) BY <2>4 DEF InitRepository, Found, Restic
  <2>5. CASE AlreadyInitialised(r) BY <2>5 DEF AlreadyInitialised, Found
  <2>6. CASE InitRepositoryFails(r)
    <3>1. \A l \in Location : "config" \in content[l] => "config" \in content'[l]
          BY <2>6, InitFailed DEF Inv
    <3>2. /\ at' = [at EXCEPT ![r] = "reporting"]
          /\ \A r2 \in Request : /\ req'[r2].id = req[r2].id
                                /\ req'[r2].found = req[r2].found
          /\ UNCHANGED <<tables, asked, eraser>>
          BY <2>6, InitFailed DEF Inv
    <3> QED BY <3>1, <3>2
  <2>7. CASE Report(r) BY <2>7 DEF Report, Answer
  <2> QED BY <1>3, <2>1, <2>2, <2>3, <2>4, <2>5, <2>6, <2>7 DEF Engine
<1>4. CASE Crash BY <1>4 DEF Crash, NoReq
<1>5. CASE UNCHANGED vars BY <1>5 DEF vars
<1> QED BY <1>1, <1>2, <1>3, <1>4, <1>5 DEF Next

(* The first state: nothing is configured, asked for or erased.            *)
LEMMA InvInit == Init => Inv
<1> SUFFICES ASSUME Init PROVE Inv
    OBVIOUS
<1> USE NoReqType, SomeRepository, LocationAssumption DEF Init
<1>1. TypeOK
      BY DEF TypeOK, Step, Status, Entry, Restic
<1>2. RowInv
      BY DEF RowInv, CreatorAlone, DeleterFindsRow, RowHasPassword,
             Creating, Erasing, Leaving
<1>3. MemoryInv
      BY DEF MemoryInv, RememberedIsDrawn, ErasingWasAsked, Erasing
<1>4. DiskInv
      BY DEF DiskInv, DataOutlivesConfiguration, ConfigIsRestics,
             ForeignFilesAvoided, ForeignFilesGoWithRepository
<1>5. ErasedInv
      BY DEF ErasedInv, FoundIsErased, AuditedIsErased, Leaving
<1> QED BY <1>1, <1>2, <1>3, <1>4, <1>5 DEF Inv

(* Every step preserves the invariant.                                     *)
LEMMA InvStep == Inv /\ [Next]_vars => Inv'
  BY TypeStep, RowStep, MemoryStep, DiskStep, ErasedStep DEF Inv

-----------------------------------------------------------------------------
(* The invariant holds in every reachable state.                           *)
THEOREM Invariance == Spec => []Inv
  BY InvInit, InvStep, PTL DEF Spec

(* Every variable stays within its type, whatever requests do.             *)
THEOREM TypeCorrect == Spec => []TypeOK
<1>1. Inv => TypeOK
      BY DEF Inv
<1> QED BY Invariance, <1>1, PTL

(* service.go:101-113, 172-179: whichever request is stopped or fails      *)
(* where, a configured repository keeps the password that opens it.        *)
THEOREM ConfiguredCanBeOpened == Spec => []RowHasPassword
<1>1. Inv => RowHasPassword
      BY DEF Inv, RowInv
<1> QED BY Invariance, <1>1, PTL

(* service.go:139-140, purge.go:36-76: backups are destroyed only where    *)
(* somebody asked for the data at their location to be deleted.            *)
THEOREM NoUnaskedErasure == Spec => []DataOutlivesConfiguration
<1>1. Inv => DataOutlivesConfiguration
      BY DEF Inv, DiskInv
<1> QED BY Invariance, <1>1, PTL

(* purge.go:26-33, 70-85: the signature check of the purge keeps it away   *)
(* from directories that restic never was initialised in; elsewhere files  *)
(* of others go only where somebody asked to erase the repository.         *)
THEOREM StrangersAreSafe == Spec => []ForeignFilesGoWithRepository
<1>1. Inv => ForeignFilesGoWithRepository
      BY DEF Inv, DiskInv
<1> QED BY Invariance, <1>1, PTL

(* purge.go:34-36, service.go:185-196: the audit trail claims no erasure   *)
(* that did not happen.                                                    *)
THEOREM AuditClaimsNoMore == Spec => []AuditedErasureIsReal
<1>1. Inv => AuditedErasureIsReal
      BY DEF Inv, ErasedInv, AuditedIsErased, AuditedErasureIsReal, Erased
<1> QED BY Invariance, <1>1, PTL

=============================================================================
