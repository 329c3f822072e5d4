----------------------------- MODULE ProjectsProofs -----------------------------
(***************************************************************************)
(* Theorems about Projects, for any number of projects, requests and       *)
(* versions of what they read.                                             *)
(***************************************************************************)
EXTENDS Projects, TLAPS

-----------------------------------------------------------------------------
(* The inductive invariant.                                                *)

(* A request works on an id that has a row or had one, and read its path.  *)
WorksOnRow ==
  \A r \in Request :
    /\ at[r] \notin {"idle", "scanning", "inserting"} => req[r].id # NoId
    /\ req[r].id # NoId => row[req[r].id].state # "new"
    /\ at[r] \in {"attaching", "reading"} => req[r].path \in Path

(* What is deleted was recorded.                                           *)
DeletesAudited == \A r \in Request : at[r] = "deleting" => req[r].id \in events

(* What an analysis found is in the one order, and so is what it stores.   *)
InOneOrder ==
  /\ \A r \in Request : req[r].found.order = AnyOrder
  /\ \A i \in Id : Known(i) => blueprint[i].fp.order = AnyOrder

(* An analysis that will store the first blueprint of a project read no    *)
(* confirmation.                                                           *)
FirstUnconfirmed ==
  \A r \in Request :
    at[r] = "saving" /\ Present(req[r].id) /\ ~Known(req[r].id)
      => req[r].confirmed = NoFingerprint

(* What an analysis of i finds when it can read everything.                *)
Actual(i) == [files |-> Read(row[i].path, row[i].list), live |-> Show(row[i].name),
              order |-> AnyOrder]

(* Ids whose evidence may differ from one analysis to the next.            *)
Disturbed == touched \union reread

(* As long as nothing about a project changes, all of it can be read, and  *)
(* in the way it was read before, that is what is stored, what was         *)
(* confirmed, and what analyses carry.                                     *)
SettledStored ==
  \A i \in Id \ Disturbed :
    Known(i) => /\ blueprint[i].fp = Actual(i)
                /\ blueprint[i].confirmed \in {NoFingerprint, Actual(i)}

SettledCarried ==
  \A r \in Request : \A i \in Id \ Disturbed :
    req[r].id = i /\ Present(i) =>
      /\ at[r] \in {"attaching", "reading"}
           => req[r].path = row[i].path /\ req[r].list = row[i].list
      /\ at[r] \in {"reading", "comparing", "saving"} => req[r].found.live = Actual(i).live
      /\ at[r] \in {"comparing", "saving"} => req[r].found.files = Actual(i).files
      /\ at[r] = "saving" => req[r].confirmed \in {NoFingerprint, Actual(i)}

RemovalInv == RemovalIsAudited /\ DeletesAudited
ConfirmInv == FirstUnconfirmed /\ ChangeIsReported
SettledInv == InOneOrder /\ SettledStored /\ SettledCarried /\ DriftIsExplained

Inv == TypeOK /\ WorksOnRow /\ RemovalInv /\ ConfirmInv /\ SettledInv

-----------------------------------------------------------------------------
(* Lemmas about the operators.                                             *)

LEMMA NoReqType ==
  /\ NoReq \in Req
  /\ NoReq.id = NoId
  /\ NoReq.found.order = AnyOrder
  /\ NoReq.found = Nothing
  /\ AnyOrder \in Order
  /\ AnyName \in Name
  /\ AnyList \in List
  /\ Unseen \in Shown /\ Unread \in Content
<1>1. AnyOrder \in Order /\ AnyName \in Name /\ AnyList \in List
      BY SomeAssumption DEF AnyOrder, AnyName, AnyList
<1>2. Unseen \in Shown /\ Unread \in Content
      BY <1>1 DEF Unseen, Unread, Shown, Content, Running
<1>3. Nothing \in Evidence /\ Nothing.order = AnyOrder
      BY <1>1, <1>2 DEF Nothing, Evidence
<1>4. NoFingerprint \in Fingerprint
      BY DEF Fingerprint
<1> QED BY <1>1, <1>2, <1>3, <1>4 DEF NoReq, Req

LEMMA WorkDirType == ASSUME NEW n \in Name PROVE WorkDirOf[n] \in Path /\ ListOf[n] \in List
  BY WorkDirAssumption

(* What can be read and seen.                                              *)
LEMMA SightType ==
  ASSUME TypeOK
  PROVE  /\ \A p \in Path, l \in List : Read(p, l) \in Content
         /\ \A n \in Name : Show(n) \in Shown
<1>1. ASSUME NEW p \in Path, NEW l \in List, files[p] # "unread"
      PROVE  [version |-> files[p], list |-> l] \in Content
      BY <1>1 DEF TypeOK, Content
<1>2. \A p \in Path, l \in List : Read(p, l) \in Content
      BY <1>1, NoReqType DEF Read
<1>3. \A n \in Name : Show(n) \in Shown
      BY NoReqType DEF TypeOK, Show, Shown
<1> QED BY <1>2, <1>3

(* A request that goes on: it alone is somewhere else.                     *)
LEMMA Moved ==
  ASSUME TypeOK, NEW r \in Request, NEW s \in Step, NEW q \in Req, Set(r, q), Goto(r, s)
  PROVE  /\ at' \in [Request -> Step] /\ req' \in [Request -> Req]
         /\ at'[r] = s /\ req'[r] = q
         /\ \A r2 \in Request \ {r} : at'[r2] = at[r2] /\ req'[r2] = req[r2]
  BY DEF TypeOK, Set, Goto

(* The services come in any order and are hashed in one.                   *)
LEMMA HashType ==
  ASSUME NEW e \in Evidence, NEW o \in Order
  PROVE  /\ Hash(e, o) \in Evidence
         /\ Hash(e, o).order = AnyOrder
         /\ Hash(e, o).files = e.files /\ Hash(e, o).live = e.live
  BY NoReqType DEF Hash, Evidence

LEMMA AnalysisType ==
  ASSUME NEW q \in Req, NEW o \in Order, NEW c \in Fingerprint
  PROVE  /\ Analysis(q, o, c) \in Stored
         /\ Analysis(q, o, c).fp = Hash(q.found, o)
         /\ Analysis(q, o, c).confirmed = c
         /\ Analysis(q, o, c).drifted = (q.confirmed \notin {NoFingerprint, Hash(q.found, o)})
<1>1. Hash(q.found, o) \in Evidence
      BY HashType DEF Req
<1> QED BY <1>1 DEF Analysis, Stored

LEMMA StoredFields ==
  ASSUME TypeOK, NEW i \in Id, Known(i)
  PROVE  /\ blueprint[i] \in Stored
         /\ blueprint[i].fp \in Evidence
         /\ blueprint[i].confirmed \in Fingerprint
         /\ blueprint[i].drifted \in BOOLEAN
  BY DEF TypeOK, Known, Stored

(* The records of requests, field by field.                                *)
LEMMA ReqFields ==
  ASSUME TypeOK, NEW r \in Request
  PROVE  /\ req[r] \in Req
         /\ req[r].todo \subseteq Name /\ req[r].name \subseteq Name
         /\ req[r].id \in Id \union {NoId}
         /\ req[r].path \in Path \union {NoPath}
         /\ req[r].list \in List
         /\ req[r].found \in Evidence
         /\ req[r].confirmed \in Fingerprint
  BY DEF TypeOK, Req

-----------------------------------------------------------------------------
(* What the requests do, step by step.                                     *)

RequestStep(r) == Registry(r) \/ Analyzer(r) \/ Fail(r)

LEMMA Ended ==
  ASSUME TypeOK, NEW r \in Request, End(r)
  PROVE  /\ at' \in [Request -> Step] /\ req' \in [Request -> Req]
         /\ at'[r] = "idle" /\ req'[r] = NoReq
         /\ \A r2 \in Request \ {r} : at'[r2] = at[r2] /\ req'[r2] = req[r2]
<1>1. Goto(r, "idle") /\ Set(r, NoReq)
      BY DEF End
<1> QED BY <1>1, Moved, NoReqType DEF Step

(* A row that appears.                                                     *)
LEMMA Inserted ==
  ASSUME TypeOK, NEW n \in Name, NEW p \in Path, NEW l \in List,
         NEW s \in {"discovered", "registered"}, InsertRow(n, p, l, s)
  PROVE  /\ row' \in [Id -> Row]
         /\ \E i \in Id :
              /\ row[i].state = "new"
              /\ row'[i].state = "present" /\ row'[i].path = p /\ p # NoPath
              /\ \A j \in Id \ {i} : row'[j] = row[j]
         /\ UNCHANGED <<blueprint, events, history>>
<1>1. PICK i \in Id :
        /\ row[i].state = "new"
        /\ row' = [row EXCEPT ![i] = [state |-> "present", name |-> n, path |-> p, list |-> l,
                                      source |-> s]]
      BY DEF InsertRow
<1> QED BY <1>1, NullAssumption DEF TypeOK, InsertRow, Row

LEMMA Started ==
  ASSUME TypeOK, NEW r \in Request, Scan(r)
  PROVE  /\ at' \in [Request -> Step] /\ req' \in [Request -> Req]
         /\ at'[r] = "scanning" /\ req'[r].id = NoId /\ req'[r].found = Nothing
         /\ \A r2 \in Request \ {r} : at'[r2] = at[r2] /\ req'[r2] = req[r2]
<1> DEFINE q == [NoReq EXCEPT !.todo = {n \in Name : live[n] # "none"}]
<1>1. q \in Req /\ q.id = NoId /\ q.found = Nothing
      BY NoReqType DEF Req
<1>2. Set(r, q) /\ Goto(r, "scanning")
      BY DEF Scan
<1> HIDE DEF q
<1> QED BY <1>1, <1>2, Moved DEF Step

LEMMA LookedUp ==
  ASSUME TypeOK, NEW r \in Request, NEW n \in Name, Lookup(r, n)
  PROVE  /\ at' \in [Request -> Step] /\ req' \in [Request -> Req]
         /\ at'[r] \in {"updating", "inserting"}
         /\ at'[r] = "updating" => req'[r].id \in Id /\ Present(req'[r].id)
         /\ at'[r] = "inserting" => req'[r].id = req[r].id
         /\ req'[r].found = req[r].found
         /\ \A r2 \in Request \ {r} : at'[r2] = at[r2] /\ req'[r2] = req[r2]
<1> DEFINE q == [req[r] EXCEPT !.todo = @ \ {n}, !.name = {n}]
<1>1. q \in Req /\ q.id = req[r].id /\ q.found = req[r].found
      BY ReqFields DEF Req
<1>2. CASE \E i \in Named(n) : Set(r, [q EXCEPT !.id = i]) /\ Goto(r, "updating")
  <2>1. PICK i \in Named(n) : Set(r, [q EXCEPT !.id = i]) /\ Goto(r, "updating")
        BY <1>2
  <2> DEFINE p == [q EXCEPT !.id = i]
  <2>2. i \in Id /\ Present(i)
        BY <2>1 DEF Named
  <2>3. p \in Req /\ p.id = i /\ p.found = req[r].found
    <3> HIDE DEF q
    <3> QED BY <1>1, <2>2 DEF Req
  <2> HIDE DEF p
  <2>4. Set(r, p) /\ Goto(r, "updating") /\ "updating" \in Step
        BY <2>1 DEF Step, p
  <2>5. /\ at' \in [Request -> Step] /\ req' \in [Request -> Req]
        /\ at'[r] = "updating" /\ req'[r] = p
        /\ \A r2 \in Request \ {r} : at'[r2] = at[r2] /\ req'[r2] = req[r2]
        BY <2>3, <2>4, Moved
  <2> QED BY <2>2, <2>3, <2>5
<1>3. CASE Set(r, q) /\ Goto(r, "inserting")
  <2> HIDE DEF q
  <2> QED BY <1>1, <1>3, Moved DEF Step
<1> QED BY <1>2, <1>3 DEF Lookup

LEMMA UpsertedType ==
  ASSUME TypeOK, NEW r \in Request, Upserted(r)
  PROVE  /\ at' \in [Request -> Step] /\ req' \in [Request -> Req]
         /\ at'[r] = "scanning" /\ req'[r].id = NoId /\ req'[r].found = req[r].found
         /\ \A r2 \in Request \ {r} : at'[r2] = at[r2] /\ req'[r2] = req[r2]
<1> DEFINE q == [req[r] EXCEPT !.name = {}, !.id = NoId]
<1>1. q \in Req /\ q.id = NoId /\ q.found = req[r].found
      BY ReqFields DEF Req
<1>2. Set(r, q) /\ Goto(r, "scanning")
      BY DEF Upserted
<1> HIDE DEF q
<1> QED BY <1>1, <1>2, Moved DEF Step

(* A request for a project that is there.                                  *)
LEMMA Addressed ==
  ASSUME TypeOK, NEW r \in Request, NEW i \in Id, Remove(r, i) \/ Analyze(r, i) \/ Confirm(r, i)
  PROVE  /\ at' \in [Request -> Step] /\ req' \in [Request -> Req]
         /\ at'[r] \in {"auditing", "attaching", "confirming"}
         /\ at'[r] = "attaching" => /\ req'[r].path = row[i].path /\ row[i].path \in Path
                                    /\ req'[r].list = row[i].list
         /\ req'[r].id = i /\ req'[r].found = Nothing
         /\ Present(i)
         /\ \A r2 \in Request \ {r} : at'[r2] = at[r2] /\ req'[r2] = req[r2]
<1>0. /\ [NoReq EXCEPT !.id = i] \in Req /\ [NoReq EXCEPT !.id = i].id = i
      /\ [NoReq EXCEPT !.id = i].found = Nothing
      BY NoReqType DEF Req
<1>1. CASE Remove(r, i)
      BY <1>0, <1>1, Moved DEF Remove, Step
<1>2. CASE Analyze(r, i)
  <2> DEFINE q == [NoReq EXCEPT !.id = i, !.path = row[i].path, !.list = row[i].list]
  <2>1. row[i].path \in Path /\ row[i].list \in List /\ Present(i)
        BY <1>2 DEF Analyze, TypeOK, Row
  <2>2. q \in Req /\ q.id = i /\ q.path = row[i].path /\ q.list = row[i].list
        /\ q.found = Nothing
        BY <2>1, NoReqType DEF Req
  <2>3. Set(r, q) /\ Goto(r, "attaching")
        BY <1>2 DEF Analyze
  <2> HIDE DEF q
  <2> QED BY <2>1, <2>2, <2>3, Moved DEF Step
<1>3. CASE Confirm(r, i)
  <2>1. Present(i)
        BY <1>3 DEF Confirm, TypeOK
  <2> QED BY <1>0, <1>3, <2>1, Moved DEF Confirm, Step
<1> QED BY <1>1, <1>2, <1>3

(* What an analysis carries on: its project, and what it found so far.     *)
LEMMA AnalysisGoesOn ==
  ASSUME TypeOK, WorksOnRow, NEW r \in Request, Attach(r) \/ ReadFiles(r) \/ ReadConfirmation(r)
  PROVE  /\ at' \in [Request -> Step] /\ req' \in [Request -> Req]
         /\ <<at[r], at'[r]>> \in {<<"attaching", "reading">>, <<"reading", "comparing">>,
                                   <<"comparing", "saving">>}
         /\ req'[r].id = req[r].id /\ req[r].id \in Id
         /\ req'[r].path = req[r].path /\ req'[r].list = req[r].list
         /\ req'[r].found.order = req[r].found.order
         /\ \A r2 \in Request \ {r} : at'[r2] = at[r2] /\ req'[r2] = req[r2]
         /\ UNCHANGED <<world, tables, events, overlapped, reread>>
         /\ touched \subseteq touched' /\ touched' \subseteq Id
         /\ ReadConfirmation(r) <=> at'[r] = "saving"
         /\ req[r].id \notin touched' =>
              /\ Attach(r) => req'[r].found.live = Show(row[req[r].id].name)
              /\ ~Attach(r) => req'[r].found.live = req[r].found.live
              /\ ReadFiles(r) => req'[r].found.files = Read(req[r].path, req[r].list)
              /\ ReadConfirmation(r) => req'[r].found = req[r].found
         /\ ReadConfirmation(r) =>
              IF Known(req[r].id) THEN req'[r].confirmed = blueprint[req[r].id].confirmed
                                  ELSE req'[r].confirmed = NoFingerprint
<1> DEFINE i == req[r].id
<1>0. i \in Id /\ row[i].name \in Name /\ req[r] \in Req /\ req[r].found \in Evidence
  <2>1. i # NoId
        BY DEF WorksOnRow, Attach, ReadFiles, ReadConfirmation
  <2> QED BY <2>1, ReqFields DEF TypeOK, Row
<1>1. CASE Attach(r)
  <2> DEFINE shown == Show(row[i].name)
             q == [req[r] EXCEPT !.found.live = shown]
  <2>1. shown \in Shown
        BY <1>0, SightType
  <2> HIDE DEF shown
  <2>2. /\ q \in Req /\ q.id = i /\ q.path = req[r].path
        /\ q.found.order = req[r].found.order
        /\ q.found.live = shown /\ q.list = req[r].list
        BY <1>0, <2>1 DEF Req, Evidence
  <2>3. /\ at[r] = "attaching" /\ Goto(r, "reading")
        /\ UNCHANGED <<world, tables, events, overlapped, reread>>
        /\ \/ Set(r, q) /\ UNCHANGED touched
           \/ UNCHANGED req /\ Misses(r)
        BY <1>1 DEF Attach, shown
  <2> HIDE DEF q
  <2>4. CASE Set(r, q) /\ UNCHANGED touched
        BY <1>0, <1>1, <2>2, <2>3, <2>4, Moved DEF Step, TypeOK, ReadFiles, ReadConfirmation, shown
  <2>5. CASE UNCHANGED req /\ Misses(r)
    <3>1. i \in touched' /\ touched \subseteq touched' /\ touched' \subseteq Id
          BY <1>0, <2>5 DEF Misses, TypeOK
    <3> QED BY <1>0, <1>1, <2>3, <2>5, <3>1 DEF Step, TypeOK, Goto, ReadFiles, ReadConfirmation
  <2> QED BY <2>3, <2>4, <2>5
<1>2. CASE ReadFiles(r)
  <2> DEFINE read == Read(req[r].path, req[r].list)
             q == [req[r] EXCEPT !.found.files = read]
  <2>1. read \in Content
        BY <1>2, ReqFields, SightType DEF WorksOnRow, ReadFiles
  <2> HIDE DEF read
  <2>2. /\ q \in Req /\ q.id = i /\ q.path = req[r].path
        /\ q.found.order = req[r].found.order
        /\ q.found.live = req[r].found.live
        /\ q.found.files = read /\ q.list = req[r].list
        BY <1>0, <2>1 DEF Req, Evidence
  <2>3. /\ at[r] = "reading" /\ Goto(r, "comparing")
        /\ UNCHANGED <<world, tables, events, overlapped, reread>>
        /\ \/ Set(r, q) /\ UNCHANGED touched
           \/ UNCHANGED req /\ Misses(r)
        BY <1>2 DEF ReadFiles, read
  <2> HIDE DEF q
  <2>4. CASE Set(r, q) /\ UNCHANGED touched
        BY <1>0, <1>2, <2>2, <2>3, <2>4, Moved DEF Step, TypeOK, Attach, ReadConfirmation, read
  <2>5. CASE UNCHANGED req /\ Misses(r)
    <3>1. i \in touched' /\ touched \subseteq touched' /\ touched' \subseteq Id
          BY <1>0, <2>5 DEF Misses, TypeOK
    <3> QED BY <1>0, <1>2, <2>3, <2>5, <3>1 DEF Step, TypeOK, Goto, Attach, ReadConfirmation
  <2> QED BY <2>3, <2>4, <2>5
<1>3. CASE ReadConfirmation(r)
  <2> DEFINE c == IF Known(i) THEN blueprint[i].confirmed ELSE NoFingerprint
             q == [req[r] EXCEPT !.confirmed = c]
  <2>1. c \in Fingerprint
        BY <1>0, StoredFields DEF Fingerprint
  <2>2. /\ q \in Req /\ q.id = i /\ q.path = req[r].path /\ q.list = req[r].list
        /\ q.found = req[r].found /\ q.confirmed = c
    <3> HIDE DEF c
    <3> QED BY <1>0, <2>1 DEF Req
  <2>3. /\ at[r] = "comparing" /\ Goto(r, "saving") /\ Set(r, q)
        /\ UNCHANGED <<world, tables, events, history>>
        BY <1>3 DEF ReadConfirmation, Known
  <2> HIDE DEF q
  <2> QED BY <1>0, <1>3, <2>2, <2>3, Moved DEF Step, TypeOK, Attach, ReadFiles, history
<1> QED BY <1>1, <1>2, <1>3

(* It has read the confirmation: that of the row, if there is one.         *)
LEMMA ConfirmationRead ==
  ASSUME TypeOK, WorksOnRow, NEW r \in Request, ReadConfirmation(r)
  PROVE  /\ at[r] = "comparing" /\ at'[r] = "saving" /\ req'[r].found = req[r].found
         /\ Known(req[r].id) => req'[r].confirmed = blueprint[req[r].id].confirmed
         /\ ~Known(req[r].id) => req'[r].confirmed = NoFingerprint
<1> DEFINE c == IF Known(req[r].id) THEN blueprint[req[r].id].confirmed ELSE NoFingerprint
           q == [req[r] EXCEPT !.confirmed = c]
<1>1. req \in [Request -> Req] /\ at \in [Request -> Step]
      BY DEF TypeOK
<1>2. q.found = req[r].found /\ q.confirmed = c
  <2> HIDE DEF c
  <2> QED BY <1>1 DEF Req
<1>3. at[r] = "comparing" /\ Goto(r, "saving") /\ Set(r, q)
      BY DEF ReadConfirmation, Known
<1> HIDE DEF q
<1> QED BY <1>1, <1>2, <1>3 DEF Goto, Set

(* An analysis that is stored: what becomes of the blueprint.              *)
LEMMA Saved ==
  ASSUME TypeOK, WorksOnRow, NEW r \in Request, SaveAnalysis(r)
  PROVE  LET i == req[r].id IN
         /\ at[r] = "saving" /\ End(r) /\ i \in Id /\ Present(i)
         /\ UNCHANGED <<world, row, events, touched, reread>>
         /\ blueprint' \in [Id -> Stored \union {NoBlueprint}]
         /\ \A j \in Id \ {i} : blueprint'[j] = blueprint[j]
         /\ blueprint'[i] # NoBlueprint
         /\ \E o \in Order : blueprint'[i].fp = Hash(req[r].found, o)
         /\ IF Known(i) THEN blueprint'[i].confirmed = blueprint[i].confirmed
                        ELSE blueprint'[i].confirmed = req[r].confirmed
         /\ blueprint'[i].drifted = (req[r].confirmed \notin {NoFingerprint, blueprint'[i].fp})
         /\ overlapped \subseteq overlapped' /\ overlapped' \subseteq Id
         /\ (i \notin overlapped' /\ Known(i)) => blueprint[i].confirmed = req[r].confirmed
<1> DEFINE i == req[r].id
<1>1. PICK o \in Order : Save(r, Analysis(req[r], o, Kept(r)))
      BY DEF SaveAnalysis
<1>2. at[r] = "saving" /\ i \in Id /\ req[r] \in Req
      BY <1>1, ReqFields DEF Save, WorksOnRow
<1>3. Kept(r) \in Fingerprint
      BY <1>2, StoredFields, ReqFields DEF Kept, Known
<1>4. Kept(r) = IF Known(i) THEN blueprint[i].confirmed ELSE req[r].confirmed
      BY DEF Kept, Known
<1> DEFINE s == Analysis(req[r], o, Kept(r))
<1>5. /\ s \in Stored /\ s.fp = Hash(req[r].found, o) /\ s.confirmed = Kept(r)
      /\ s.drifted = (req[r].confirmed \notin {NoFingerprint, Hash(req[r].found, o)})
      BY <1>2, <1>3, AnalysisType
<1>6. Save(r, s)
      BY <1>1
<1> HIDE DEF s
<1>7. blueprint' \in [Id -> Stored \union {NoBlueprint}] /\ blueprint'[i] = s
        /\ \A j \in Id \ {i} : blueprint'[j] = blueprint[j]
      BY <1>2, <1>5, <1>6 DEF Save, TypeOK
<1>8. blueprint'[i] # NoBlueprint
      BY <1>5, <1>7, NoneAssumption
<1>9. /\ overlapped \subseteq overlapped' /\ overlapped' \subseteq Id
      /\ (i \notin overlapped' /\ Known(i)) => blueprint[i].confirmed = req[r].confirmed
      BY <1>2, <1>6 DEF Save, TypeOK
<1>10. Present(i) /\ End(r) /\ UNCHANGED <<world, row, events, touched, reread>>
      BY <1>6 DEF Save
<1>11. /\ \E o2 \in Order : blueprint'[i].fp = Hash(req[r].found, o2)
       /\ blueprint'[i].drifted = (req[r].confirmed \notin {NoFingerprint, blueprint'[i].fp})
      BY <1>5, <1>7
<1>12. IF Known(i) THEN blueprint'[i].confirmed = blueprint[i].confirmed
                   ELSE blueprint'[i].confirmed = req[r].confirmed
      BY <1>4, <1>5, <1>7
<1> QED BY <1>2, <1>7, <1>8, <1>9, <1>10, <1>11, <1>12

(* A row that is brought up to date changed, or its project did not.       *)
LEMMA Updated ==
  ASSUME TypeOK, WorksOnRow, NEW r \in Request, Update(r)
  PROVE  /\ at[r] = "updating" /\ Upserted(r)
         /\ row' \in [Id -> Row]
         /\ \A i \in Id : \/ row'[i] = row[i]
                          \/ /\ i \in reread' /\ Present(i)
                             /\ row'[i].state = "present" /\ row'[i].path # NoPath
         /\ reread \subseteq reread' /\ reread' \subseteq Id
         /\ UNCHANGED <<world, blueprint, events, overlapped, touched>>
<1> DEFINE i == req[r].id
<1>1. i \in Id
      BY ReqFields DEF Update, WorksOnRow
<1>2. PICK n \in req[r].name :
        IF Present(i)
          THEN /\ row' = [row EXCEPT ![i] = [@ EXCEPT !.path = WorkDirOf[n], !.list = ListOf[n]]]
               /\ reread' = IF row' = row THEN reread ELSE reread \union {i}
          ELSE UNCHANGED <<row, reread>>
      BY DEF Update
<1>3. WorkDirOf[n] \in Path /\ WorkDirOf[n] # NoPath /\ ListOf[n] \in List
      BY ReqFields, WorkDirType, NullAssumption
<1>4. CASE Present(i)
  <2> DEFINE new == [row[i] EXCEPT !.path = WorkDirOf[n], !.list = ListOf[n]]
  <2>0. row[i] \in Row /\ row[i].state = "present"
        BY <1>1, <1>4 DEF TypeOK, Present
  <2>1. new \in Row /\ new.state = "present" /\ new.path # NoPath
        BY <1>3, <2>0 DEF Row
  <2>2. row' = [row EXCEPT ![i] = new]
        BY <1>2, <1>4
  <2> HIDE DEF new
  <2>3. row' \in [Id -> Row] /\ row'[i] = new /\ \A j \in Id \ {i} : row'[j] = row[j]
        BY <1>1, <2>1, <2>2 DEF TypeOK
  <2>4. i \in reread' \/ row' = row
        BY <1>2, <1>4
  <2>5. reread \subseteq reread' /\ reread' \subseteq Id
        BY <1>1, <1>2, <1>4 DEF TypeOK
  <2> QED BY <1>4, <2>1, <2>3, <2>4, <2>5 DEF Update
<1>5. CASE ~Present(i)
      BY <1>2, <1>5 DEF Update, TypeOK
<1> QED BY <1>4, <1>5

(* A row goes with its blueprint.                                          *)
LEMMA Deleted ==
  ASSUME TypeOK, WorksOnRow, NEW r \in Request, Delete(r)
  PROVE  LET i == req[r].id IN
         /\ at[r] = "deleting" /\ End(r) /\ i \in Id
         /\ UNCHANGED <<world, events, history>>
         /\ row' \in [Id -> Row] /\ blueprint' \in [Id -> Stored \union {NoBlueprint}]
         /\ \A j \in Id \ {i} : row'[j] = row[j] /\ blueprint'[j] = blueprint[j]
         /\ IF Present(i) THEN row'[i].state = "removed" /\ blueprint'[i] = NoBlueprint
                          ELSE row'[i] = row[i] /\ blueprint'[i] = blueprint[i]
<1> DEFINE i == req[r].id
<1>1. i \in Id /\ at[r] = "deleting" /\ End(r) /\ UNCHANGED <<world, events, history>>
      BY ReqFields DEF Delete, WorksOnRow
<1>2. CASE Present(i)
  <2> DEFINE new == [row[i] EXCEPT !.state = "removed"]
  <2>1. new \in Row /\ new.state = "removed"
        BY <1>1 DEF TypeOK, Row
  <2>2. row' = [row EXCEPT ![i] = new] /\ blueprint' = [blueprint EXCEPT ![i] = NoBlueprint]
        BY <1>2 DEF Delete
  <2> HIDE DEF new
  <2> QED BY <1>1, <1>2, <2>1, <2>2 DEF TypeOK
<1>3. CASE ~Present(i)
      BY <1>1, <1>3 DEF Delete, TypeOK, tables
<1> QED BY <1>2, <1>3

(* What is confirmed is what is stored.                                    *)
LEMMA ConfirmationUpdated ==
  ASSUME TypeOK, WorksOnRow, NEW r \in Request, UpdateConfirmation(r)
  PROVE  LET i == req[r].id IN
         /\ at[r] = "confirming" /\ End(r) /\ i \in Id
         /\ UNCHANGED <<world, row, events, history>>
         /\ blueprint' \in [Id -> Stored \union {NoBlueprint}]
         /\ \A j \in Id \ {i} : blueprint'[j] = blueprint[j]
         /\ Known(i) /\ blueprint'[i] # NoBlueprint
         /\ blueprint'[i].fp = blueprint[i].fp
         /\ blueprint'[i].drifted = blueprint[i].drifted
         /\ blueprint'[i].confirmed = blueprint[i].fp
<1> DEFINE i == req[r].id
           new == [blueprint[i] EXCEPT !.confirmed = blueprint[i].fp]
<1>1. /\ i \in Id /\ at[r] = "confirming" /\ End(r) /\ Known(i)
      /\ UNCHANGED <<world, row, events, history>>
      BY ReqFields DEF UpdateConfirmation, WorksOnRow
<1>2. /\ new \in Stored /\ new # NoBlueprint
      /\ new.fp = blueprint[i].fp /\ new.drifted = blueprint[i].drifted
      /\ new.confirmed = blueprint[i].fp
      BY <1>1, StoredFields, NoneAssumption DEF Stored, Fingerprint
<1>3. blueprint' = [blueprint EXCEPT ![i] = new]
      BY DEF UpdateConfirmation
<1> HIDE DEF new
<1> QED BY <1>1, <1>2, <1>3 DEF TypeOK

(* The event is stored before the request goes on.                         *)
LEMMA Audited ==
  ASSUME TypeOK, WorksOnRow, NEW r \in Request, Audit(r)
  PROVE  /\ at[r] = "auditing" /\ at' = [at EXCEPT ![r] = "deleting"] /\ req' = req
         /\ req[r].id \in Id /\ events' = events \union {req[r].id}
         /\ UNCHANGED <<world, tables, history>>
  BY ReqFields DEF Audit, Goto, WorksOnRow

(* The kinds of steps of a request, by what they change.                   *)
Silent(r) ==         \* only the request itself
  /\ UNCHANGED <<world, tables, events, history>>
  /\ \/ End(r) \/ Scan(r) \/ \E n \in Name : Lookup(r, n)
     \/ \E i \in Id : Remove(r, i) \/ Analyze(r, i) \/ Confirm(r, i)

Adds(r) ==           \* a row appears
  /\ UNCHANGED world
  /\ End(r) \/ Upserted(r)
  /\ \E n \in Name, p \in Path, l \in List, s \in {"discovered", "registered"} :
       InsertRow(n, p, l, s)

Reads(r) == Attach(r) \/ ReadFiles(r) \/ ReadConfirmation(r)

LEMMA Kinds ==
  ASSUME TypeOK, NEW r \in Request, RequestStep(r)
  PROVE  \/ Silent(r) \/ Adds(r) \/ Update(r) \/ Audit(r) \/ Delete(r)
         \/ Reads(r) \/ SaveAnalysis(r) \/ UpdateConfirmation(r)
<1>1. ASSUME NEW n \in Name, NEW p \in Path, NEW l \in List, Register(r, n, p, l)
      PROVE Silent(r) \/ Adds(r)
      BY <1>1 DEF Register, Silent, Adds
<1>2. CASE Discover(r)
  <2>1. PICK n \in req[r].name :
          \/ InsertRow(n, WorkDirOf[n], ListOf[n], "discovered") /\ Upserted(r)
          \/ Named(n) # {} /\ End(r) /\ UNCHANGED <<tables, events, history>>
        BY <1>2 DEF Discover
  <2>2. n \in Name /\ WorkDirOf[n] \in Path /\ ListOf[n] \in List /\ UNCHANGED world
        BY <1>2, ReqFields, WorkDirType DEF Discover
  <2> QED BY <2>1, <2>2 DEF Silent, Adds
<1>3. CASE Fail(r) \/ Scan(r) \/ Scanned(r)
      BY <1>3 DEF Fail, Scan, Scanned, Silent
<1>4. CASE \E n \in Name : Lookup(r, n)
      BY <1>4 DEF Lookup, Silent
<1>5. CASE \E i \in Id : Remove(r, i) \/ Analyze(r, i) \/ Confirm(r, i)
      BY <1>5 DEF Remove, Analyze, Confirm, Silent
<1> QED BY <1>1, <1>2, <1>3, <1>4, <1>5, Zenon DEF RequestStep, Registry, Analyzer, Reads

(* Where a silent step leaves its request.                                 *)
LEMMA SilentMoves ==
  ASSUME TypeOK, WorksOnRow, NEW r \in Request, Silent(r)
  PROVE  /\ at' \in [Request -> Step] /\ req' \in [Request -> Req]
         /\ at'[r] \in {"idle", "scanning", "updating", "inserting", "auditing", "attaching",
                        "confirming"}
         /\ at'[r] \notin {"idle", "scanning", "inserting"} => req'[r].id # NoId
         /\ req'[r].id # NoId =>
              \/ req'[r].id \in Id /\ Present(req'[r].id)
              \/ req'[r].id = req[r].id
         /\ at'[r] = "attaching" => /\ req'[r].path \in Path
                                    /\ req'[r].path = row[req'[r].id].path
                                    /\ req'[r].list = row[req'[r].id].list
         /\ req'[r].found = Nothing \/ req'[r].found = req[r].found
         /\ \A r2 \in Request \ {r} : at'[r2] = at[r2] /\ req'[r2] = req[r2]
<1>1. CASE End(r)
      BY <1>1, Ended, NoReqType
<1>2. CASE Scan(r)
      BY <1>2, Started
<1>3. CASE \E n \in Name : Lookup(r, n)
  <2>1. PICK n \in Name : Lookup(r, n)
        BY <1>3
  <2> QED BY <2>1, LookedUp, NullAssumption
<1>4. CASE \E i \in Id : Remove(r, i) \/ Analyze(r, i) \/ Confirm(r, i)
  <2>1. PICK i \in Id : Remove(r, i) \/ Analyze(r, i) \/ Confirm(r, i)
        BY <1>4
  <2> QED BY <2>1, Addressed, NullAssumption
<1> QED BY <1>1, <1>2, <1>3, <1>4 DEF Silent

LEMMA AddsMoves ==
  ASSUME TypeOK, NEW r \in Request, Adds(r)
  PROVE  /\ at' \in [Request -> Step] /\ req' \in [Request -> Req]
         /\ at'[r] \in {"idle", "scanning"} /\ req'[r].id = NoId
         /\ req'[r].found = Nothing \/ req'[r].found = req[r].found
         /\ \A r2 \in Request \ {r} : at'[r2] = at[r2] /\ req'[r2] = req[r2]
         /\ row' \in [Id -> Row]
         /\ \E i \in Id :
              /\ row[i].state = "new"
              /\ row'[i].state = "present" /\ row'[i].path # NoPath
              /\ \A j \in Id \ {i} : row'[j] = row[j]
         /\ UNCHANGED <<world, blueprint, events, history>>
<1>1. PICK n \in Name, p \in Path, l \in List, s \in {"discovered", "registered"} :
        InsertRow(n, p, l, s)
      BY DEF Adds
<1>2. /\ row' \in [Id -> Row]
      /\ \E i \in Id :
           /\ row[i].state = "new"
           /\ row'[i].state = "present" /\ row'[i].path # NoPath
           /\ \A j \in Id \ {i} : row'[j] = row[j]
      /\ UNCHANGED <<blueprint, events, history>>
      BY <1>1, Inserted
<1>3. CASE End(r)
      BY <1>2, <1>3, Ended, NoReqType DEF Adds
<1>4. CASE Upserted(r)
      BY <1>2, <1>4, UpsertedType DEF Adds
<1> QED BY <1>3, <1>4 DEF Adds

-----------------------------------------------------------------------------
(* Type correctness.                                                       *)

LEMMA TypeStep ==
  ASSUME TypeOK, WorksOnRow, NEW r \in Request, RequestStep(r)
  PROVE  TypeOK' /\ WorksOnRow'
<1> DEFINE
      Typed == /\ row' \in [Id -> Row]
               /\ blueprint' \in [Id -> Stored \union {NoBlueprint}]
               /\ at' \in [Request -> Step] /\ req' \in [Request -> Req]
               /\ events' \subseteq Id /\ overlapped' \subseteq Id /\ touched' \subseteq Id
               /\ reread' \subseteq Id
               /\ UNCHANGED world
      Rows  == \A i \in Id : /\ row'[i].state = "new" => row[i].state = "new"
                             /\ row'[i].state = "present" => row'[i].path # NoPath
                             /\ blueprint'[i] # NoBlueprint => row'[i].state = "present"
      Mine  == /\ at'[r] \notin {"idle", "scanning", "inserting"} => req'[r].id # NoId
               /\ req'[r].id # NoId => row'[req'[r].id].state # "new"
               /\ at'[r] \in {"attaching", "reading"} => req'[r].path \in Path
      Rest  == \A r2 \in Request \ {r} : at'[r2] = at[r2] /\ req'[r2] = req[r2]
<1>a. /\ files \in [Path -> Version \union {"unread"}] /\ live \in [Name -> Running]
      /\ row \in [Id -> Row] /\ blueprint \in [Id -> Stored \union {NoBlueprint}]
      /\ events \subseteq Id /\ overlapped \subseteq Id /\ touched \subseteq Id
      /\ reread \subseteq Id /\ mounted \in [Name -> Order]
      /\ at \in [Request -> Step] /\ req \in [Request -> Req]
      BY DEF TypeOK
<1>b. \A i \in Id : /\ row[i].state = "present" => row[i].path # NoPath
                    /\ blueprint[i] # NoBlueprint => row[i].state = "present"
      BY DEF TypeOK, Known, Present
<1>c. /\ at[r] \notin {"idle", "scanning", "inserting"} => req[r].id # NoId
      /\ req[r].id # NoId => req[r].id \in Id /\ row[req[r].id].state # "new"
      /\ at[r] \in {"attaching", "reading"} => req[r].path \in Path
      BY ReqFields DEF WorksOnRow
<1>d. NoReq.id = NoId
      BY NoReqType
<1>1. ASSUME Silent(r) PROVE Typed /\ Rows /\ Mine /\ Rest
  <2>1. Typed /\ Rows /\ Rest
        BY <1>1, <1>a, <1>b, SilentMoves DEF Silent, tables, history
  <2>2. Mine
    <3>1. UNCHANGED row
          BY <1>1 DEF Silent, tables
    <3> QED BY <1>1, <1>c, <3>1, SilentMoves DEF Present
  <2> QED BY <2>1, <2>2
<1>2. ASSUME Adds(r) PROVE Typed /\ Rows /\ Mine /\ Rest
  <2>1. Typed /\ Rest /\ Mine
        BY <1>2, <1>a, AddsMoves DEF history
  <2>2. Rows
        BY <1>2, <1>b, AddsMoves
  <2> QED BY <2>1, <2>2
<1>3. ASSUME Update(r) PROVE Typed /\ Rows /\ Mine /\ Rest
  <2>1. Typed /\ Rest /\ Mine
        BY <1>3, <1>a, Updated, UpsertedType
  <2>2. Rows
    <3> SUFFICES ASSUME NEW i \in Id
                 PROVE  /\ row'[i].state = "new" => row[i].state = "new"
                        /\ row'[i].state = "present" => row'[i].path # NoPath
                        /\ blueprint'[i] # NoBlueprint => row'[i].state = "present"
        OBVIOUS
    <3>1. blueprint'[i] = blueprint[i]
          BY <1>3, Updated
    <3> QED BY <1>3, <1>b, <3>1, Updated
  <2> QED BY <2>1, <2>2
<1>4. ASSUME Audit(r) PROVE Typed /\ Rows /\ Mine /\ Rest
  <2>1. Typed /\ Rows /\ Rest
        BY <1>4, <1>a, <1>b, Audited DEF tables, history, Step
  <2>2. Mine
        BY <1>4, <1>a, <1>c, Audited DEF tables
  <2> QED BY <2>1, <2>2
<1>5. ASSUME Delete(r) PROVE Typed /\ Rows /\ Mine /\ Rest
  <2>1. Typed /\ Rest /\ Mine
        BY <1>5, <1>a, <1>d, Deleted, Ended DEF history
  <2>2. Rows
        BY <1>5, <1>b, Deleted DEF Present
  <2> QED BY <2>1, <2>2
<1>6. ASSUME Reads(r) PROVE Typed /\ Rows /\ Mine /\ Rest
  <2>1. Typed /\ Rows /\ Rest
        BY <1>6, <1>a, <1>b, AnalysisGoesOn DEF Reads, tables, history
  <2>2. Mine
    <3>1. UNCHANGED row
          BY <1>6, AnalysisGoesOn DEF Reads, tables
    <3> QED BY <1>6, <1>c, <3>1, AnalysisGoesOn DEF Reads
  <2> QED BY <2>1, <2>2
<1>7. ASSUME SaveAnalysis(r) PROVE Typed /\ Rows /\ Mine /\ Rest
  <2>1. Typed /\ Rest /\ Mine
        BY <1>7, <1>a, <1>d, Saved, Ended
  <2>2. Rows
        BY <1>7, <1>b, Saved DEF Present
  <2> QED BY <2>1, <2>2
<1>8. ASSUME UpdateConfirmation(r) PROVE Typed /\ Rows /\ Mine /\ Rest
  <2>1. Typed /\ Rest /\ Mine
        BY <1>8, <1>a, <1>d, ConfirmationUpdated, Ended DEF history
  <2>2. Rows
        BY <1>8, <1>b, ConfirmationUpdated DEF Known
  <2> QED BY <2>1, <2>2
<1>9. Typed /\ Rows /\ Mine /\ Rest
  <2> HIDE DEF Typed, Rows, Mine, Rest
  <2> QED BY <1>1, <1>2, <1>3, <1>4, <1>5, <1>6, <1>7, <1>8, Kinds
<1>10. WorksOnRow'
  <2> SUFFICES ASSUME NEW q \in Request, q # r
               PROVE  /\ at'[q] \notin {"idle", "scanning", "inserting"} => req'[q].id # NoId
                      /\ req'[q].id # NoId => row'[req'[q].id].state # "new"
                      /\ at'[q] \in {"attaching", "reading"} => req'[q].path \in Path
      BY <1>9 DEF WorksOnRow
  <2>1. at'[q] = at[q] /\ req'[q] = req[q] /\ req[q].id \in Id \union {NoId}
        BY <1>9, ReqFields
  <2> QED BY <1>9, <2>1 DEF WorksOnRow
<1>11. TypeOK'
  <2>1. /\ files' \in [Path -> Version \union {"unread"}] /\ live' \in [Name -> Running]
        /\ mounted' \in [Name -> Order]
        BY <1>9, <1>a DEF world
  <2>2. /\ \A i \in Id : Known(i)' => Present(i)'
        /\ \A i \in Id : Present(i)' => row'[i].path # NoPath
        BY <1>9 DEF Known, Present
  <2>3. \A q \in Request :
          at'[q] \in {"auditing", "deleting", "attaching", "reading", "comparing",
                      "saving", "confirming"} => req'[q].id # NoId
        BY <1>10 DEF WorksOnRow
  <2> QED BY <1>9, <2>1, <2>2, <2>3 DEF TypeOK
<1> QED BY <1>10, <1>11

-----------------------------------------------------------------------------
(* What becomes of rows, blueprints and other requests in a step of one.   *)

LEMMA Fate ==
  ASSUME TypeOK, WorksOnRow, NEW r \in Request, RequestStep(r)
  PROVE  /\ \A q \in Request \ {r} : at'[q] = at[q] /\ req'[q] = req[q]
         /\ events \subseteq events' /\ Disturbed \subseteq Disturbed'
         /\ overlapped \subseteq overlapped'
         /\ files' = files /\ live' = live /\ mounted' = mounted
         /\ \A i \in Id :
              /\ row'[i].state = "removed"
                   => row[i].state = "removed" \/ (Delete(r) /\ req[r].id = i)
              /\ row'[i].state = "present" /\ row[i].state # "new"
                   => /\ row[i].state = "present"
                      /\ row'[i] = row[i] \/ i \in Disturbed'
              /\ \/ blueprint'[i] = blueprint[i]
                 \/ row'[i].state = "removed"
                 \/ SaveAnalysis(r) /\ req[r].id = i
                 \/ UpdateConfirmation(r) /\ req[r].id = i
<1> DEFINE
      Grows  == /\ \A q \in Request \ {r} : at'[q] = at[q] /\ req'[q] = req[q]
                /\ events \subseteq events' /\ touched \subseteq touched'
                /\ reread \subseteq reread'
                /\ overlapped \subseteq overlapped'
                /\ files' = files /\ live' = live /\ mounted' = mounted
      RowOf(i)  == /\ row'[i].state = "removed"
                        => row[i].state = "removed" \/ (Delete(r) /\ req[r].id = i)
                   /\ row'[i].state = "present" /\ row[i].state # "new"
                        => /\ row[i].state = "present"
                           /\ row'[i] = row[i] \/ i \in reread'
      Printed(i) == \/ blueprint'[i] = blueprint[i]
                    \/ row'[i].state = "removed"
                    \/ SaveAnalysis(r) /\ req[r].id = i
                    \/ UpdateConfirmation(r) /\ req[r].id = i
<1>1. ASSUME Silent(r) PROVE Grows /\ \A i \in Id : RowOf(i) /\ Printed(i)
  <2>1. UNCHANGED <<files, live, mounted, row, blueprint, events, touched, reread, overlapped>>
        BY <1>1 DEF Silent, tables, history, world
  <2> QED BY <1>1, <2>1, SilentMoves
<1>2. ASSUME Adds(r) PROVE Grows /\ \A i \in Id : RowOf(i) /\ Printed(i)
  <2>1. \A i \in Id : row'[i] = row[i] \/ (row[i].state = "new" /\ row'[i].state = "present")
        BY <1>2, AddsMoves
  <2>2. UNCHANGED <<files, live, mounted, blueprint, events, touched, reread, overlapped>>
        BY <1>2, AddsMoves DEF history, world
  <2>3. Grows
        BY <1>2, <2>2, AddsMoves
  <2> QED BY <2>1, <2>2, <2>3
<1>3. ASSUME Update(r) PROVE Grows /\ \A i \in Id : RowOf(i) /\ Printed(i)
  <2>1. \A i \in Id : row'[i] = row[i]
                        \/ (i \in reread' /\ row[i].state = "present" /\ row'[i].state = "present")
        BY <1>3, Updated DEF Present
  <2>2. /\ UNCHANGED <<files, live, mounted, blueprint, events, touched, overlapped>>
        /\ reread \subseteq reread'
        BY <1>3, Updated DEF world
  <2>3. Grows
        BY <1>3, <2>2, Updated, UpsertedType
  <2> QED BY <2>1, <2>2, <2>3
<1>4. ASSUME Audit(r) PROVE Grows /\ \A i \in Id : RowOf(i) /\ Printed(i)
  <2>1. UNCHANGED <<files, live, mounted, row, blueprint, touched, reread, overlapped>>
        BY <1>4, Audited DEF world, tables, history
  <2> QED BY <1>4, <2>1, Audited DEF TypeOK
<1>5. ASSUME Delete(r) PROVE Grows /\ \A i \in Id : RowOf(i) /\ Printed(i)
  <2>1. UNCHANGED <<files, live, mounted, events, touched, reread, overlapped>>
        BY <1>5, Deleted DEF world, history
  <2>2. Grows
        BY <1>5, <2>1, Deleted, Ended
  <2>3. \A i \in Id : \/ row'[i] = row[i] /\ blueprint'[i] = blueprint[i]
                      \/ row'[i].state = "removed" /\ req[r].id = i
        BY <1>5, Deleted
  <2> QED BY <1>5, <2>2, <2>3
<1>6. ASSUME Reads(r) PROVE Grows /\ \A i \in Id : RowOf(i) /\ Printed(i)
  <2>1. /\ UNCHANGED <<files, live, mounted, row, blueprint, events, reread, overlapped>>
        /\ touched \subseteq touched'
        BY <1>6, AnalysisGoesOn DEF Reads, world, tables
  <2> QED BY <1>6, <2>1, AnalysisGoesOn DEF Reads
<1>7. ASSUME SaveAnalysis(r) PROVE Grows /\ \A i \in Id : RowOf(i) /\ Printed(i)
  <2>1. /\ UNCHANGED <<files, live, mounted, row, events, touched, reread>>
        /\ overlapped \subseteq overlapped'
        BY <1>7, Saved DEF world
  <2>2. Grows
        BY <1>7, <2>1, Saved, Ended
  <2> QED BY <1>7, <2>1, <2>2, Saved
<1>8. ASSUME UpdateConfirmation(r) PROVE Grows /\ \A i \in Id : RowOf(i) /\ Printed(i)
  <2>1. UNCHANGED <<files, live, mounted, row, events, touched, reread, overlapped>>
        BY <1>8, ConfirmationUpdated DEF world, history
  <2>2. Grows
        BY <1>8, <2>1, ConfirmationUpdated, Ended
  <2> QED BY <1>8, <2>1, <2>2, ConfirmationUpdated
<1>9. Grows /\ \A i \in Id : RowOf(i) /\ Printed(i)
  <2> HIDE DEF Grows, RowOf, Printed
  <2> QED BY <1>1, <1>2, <1>3, <1>4, <1>5, <1>6, <1>7, <1>8, Kinds
<1>10. Disturbed \subseteq Disturbed' /\ \A i \in reread' : i \in Disturbed'
       BY <1>9 DEF Disturbed
<1> QED BY <1>9, <1>10

(* How a request gets where an invariant is about it.                      *)
LEMMA Way ==
  ASSUME TypeOK, WorksOnRow, NEW r \in Request, RequestStep(r)
  PROVE  /\ at'[r] = "deleting" => Audit(r)
         /\ at'[r] = "saving" => ReadConfirmation(r)
         /\ at'[r] = "comparing" => ReadFiles(r)
         /\ at'[r] = "reading" => Attach(r)
         /\ at'[r] = "attaching" => Silent(r)
<1>1. CASE Silent(r)
      BY <1>1, SilentMoves
<1>2. CASE Adds(r)
      BY <1>2, AddsMoves
<1>3. CASE Update(r)
      BY <1>3, Updated, UpsertedType
<1>4. CASE Audit(r)
      BY <1>4, Audited DEF TypeOK
<1>5. CASE Delete(r)
      BY <1>5, Deleted, Ended
<1>6. CASE Reads(r)
      BY <1>6, AnalysisGoesOn DEF Reads, Attach, ReadFiles, ReadConfirmation
<1>7. CASE SaveAnalysis(r)
      BY <1>7, Saved, Ended
<1>8. CASE UpdateConfirmation(r)
      BY <1>8, ConfirmationUpdated, Ended
<1> QED BY <1>1, <1>2, <1>3, <1>4, <1>5, <1>6, <1>7, <1>8, Kinds

-----------------------------------------------------------------------------
(* The parts of the invariant.                                             *)

LEMMA RemovalStep ==
  ASSUME TypeOK, WorksOnRow, RemovalInv, NEW r \in Request, RequestStep(r)
  PROVE  RemovalInv'
<1>1. ASSUME NEW i \in Id, row'[i].state = "removed" PROVE i \in events'
  <2>1. CASE row[i].state = "removed"
        BY <2>1, Fate DEF RemovalInv, RemovalIsAudited
  <2>2. CASE Delete(r) /\ req[r].id = i
        BY <2>2, Fate DEF Delete, RemovalInv, DeletesAudited
  <2> QED BY <1>1, <2>1, <2>2, Fate
<1>2. ASSUME NEW q \in Request, at'[q] = "deleting" PROVE req'[q].id \in events'
  <2>1. CASE q = r
        BY <1>2, <2>1, Way, Audited
  <2>2. CASE q # r
        BY <1>2, <2>2, Fate DEF RemovalInv, DeletesAudited
  <2> QED BY <2>1, <2>2
<1> QED BY <1>1, <1>2 DEF RemovalInv, RemovalIsAudited, DeletesAudited

LEMMA ConfirmStep ==
  ASSUME TypeOK, WorksOnRow, ConfirmInv, NEW r \in Request, RequestStep(r)
  PROVE  ConfirmInv'
<1>1. ASSUME NEW q \in Request, at'[q] = "saving",
             row'[req'[q].id].state = "present", blueprint'[req'[q].id] = NoBlueprint
      PROVE  req'[q].confirmed = NoFingerprint
  <2>1. CASE q = r
    <3>1. ReadConfirmation(r)
          BY <1>1, <2>1, Way
    <3> QED BY <1>1, <2>1, <3>1, AnalysisGoesOn DEF Known, tables
  <2>2. CASE q # r
    <3> DEFINE i == req[q].id
    <3>1. at[q] = "saving" /\ req'[q] = req[q]
          BY <1>1, <2>2, Fate
    <3>2. i \in Id /\ row[i].state # "new"
          BY <3>1, ReqFields DEF WorksOnRow
    <3>3. row[i].state = "present"
          BY <1>1, <3>1, <3>2, Fate
    <3>4. blueprint'[i] = blueprint[i]
      <4>1. ~ (SaveAnalysis(r) /\ req[r].id = i)
            BY <1>1, <3>1, Saved
      <4>2. ~ (UpdateConfirmation(r) /\ req[r].id = i)
            BY <1>1, <3>1, ConfirmationUpdated
      <4>3. row'[i].state # "removed"
            BY <1>1, <3>1
      <4> QED BY <3>2, <4>1, <4>2, <4>3, Fate
    <3> QED BY <1>1, <3>1, <3>3, <3>4 DEF ConfirmInv, FirstUnconfirmed, Known, Present
  <2> QED BY <2>1, <2>2
<1>2. ASSUME NEW i \in Id, i \notin overlapped', blueprint'[i] # NoBlueprint,
             blueprint'[i].confirmed # NoFingerprint,
             blueprint'[i].confirmed # blueprint'[i].fp
      PROVE  blueprint'[i].drifted
  <2>1. CASE blueprint'[i] = blueprint[i]
        BY <1>2, <2>1, Fate DEF ConfirmInv, ChangeIsReported, Confirmed, Known
  <2>2. CASE SaveAnalysis(r) /\ req[r].id = i
    <3>1. CASE Known(i)
          BY <1>2, <2>2, <3>1, Saved
    <3>2. CASE ~Known(i)
          BY <1>2, <2>2, <3>2, Saved
    <3> QED BY <3>1, <3>2
  <2>3. CASE UpdateConfirmation(r) /\ req[r].id = i
        BY <1>2, <2>3, ConfirmationUpdated
  <2>4. row'[i].state # "removed"
        BY <1>2, TypeStep DEF TypeOK, Known, Present
  <2> QED BY <2>1, <2>2, <2>3, <2>4, Fate
<1>3. FirstUnconfirmed'
      BY <1>1 DEF FirstUnconfirmed, Known, Present
<1>4. ChangeIsReported'
      BY <1>2 DEF ChangeIsReported, Confirmed, Known
<1> QED BY <1>3, <1>4 DEF ConfirmInv

(* A project that is there and did not change is what it was.              *)
LEMMA SettledKept ==
  ASSUME TypeOK, WorksOnRow, NEW r \in Request, RequestStep(r),
         NEW i \in Id, i \notin Disturbed', row'[i].state = "present", row[i].state # "new"
  PROVE  /\ i \notin Disturbed /\ Present(i)
         /\ row'[i] = row[i]
         /\ Actual(i)' = Actual(i)
<1>1. row'[i] = row[i] /\ Present(i) /\ i \notin Disturbed
      /\ files' = files /\ live' = live /\ mounted' = mounted
      BY Fate DEF Present
<1> QED BY <1>1 DEF Actual, Read, Show

LEMMA ActualType ==
  ASSUME TypeOK, NEW i \in Id, Present(i)
  PROVE  Actual(i) \in Evidence /\ Actual(i).order = AnyOrder
<1>1. row[i].path \in Path /\ row[i].name \in Name /\ row[i].list \in List
      BY DEF TypeOK, Row
<1> QED BY <1>1, NoReqType, SightType DEF Actual, Evidence

LEMMA InOneOrderStep ==
  ASSUME TypeOK, WorksOnRow, InOneOrder, NEW r \in Request, RequestStep(r)
  PROVE  InOneOrder'
<1>1. req'[r].found.order = AnyOrder
  <2>1. req[r].found.order = AnyOrder /\ Nothing.order = AnyOrder
        BY NoReqType DEF InOneOrder
  <2>2. CASE Silent(r)
        BY <2>1, <2>2, SilentMoves
  <2>3. CASE Adds(r)
        BY <2>1, <2>3, AddsMoves
  <2>4. CASE Update(r)
        BY <2>1, <2>4, Updated, UpsertedType
  <2>5. CASE Audit(r)
        BY <2>1, <2>5, Audited
  <2>6. CASE Reads(r)
        BY <2>1, <2>6, AnalysisGoesOn DEF Reads
  <2>7. CASE Delete(r) \/ SaveAnalysis(r) \/ UpdateConfirmation(r)
    <3>1. End(r)
          BY <2>7, Deleted, Saved, ConfirmationUpdated
    <3> QED BY <3>1, Ended, NoReqType
  <2> QED BY <2>2, <2>3, <2>4, <2>5, <2>6, <2>7, Kinds
<1>2. ASSUME NEW i \in Id, blueprint'[i] # NoBlueprint PROVE blueprint'[i].fp.order = AnyOrder
  <2>1. CASE blueprint'[i] = blueprint[i]
        BY <1>2, <2>1 DEF InOneOrder, Known
  <2>2. CASE SaveAnalysis(r) /\ req[r].id = i
    <3>1. PICK o \in Order : blueprint'[i].fp = Hash(req[r].found, o)
          BY <2>2, Saved
    <3> QED BY <3>1, HashType, ReqFields
  <2>3. CASE UpdateConfirmation(r) /\ req[r].id = i
        BY <2>3, ConfirmationUpdated DEF InOneOrder
  <2>4. row'[i].state # "removed"
        BY <1>2, TypeStep DEF TypeOK, Known, Present
  <2> QED BY <2>1, <2>2, <2>3, <2>4, Fate
<1>3. \A q \in Request : req'[q].found.order = AnyOrder
      BY <1>1, Fate DEF InOneOrder
<1> QED BY <1>2, <1>3 DEF InOneOrder, Known

(* An analysis of a project that did not change stores what there is, and  *)
(* finds no drift.                                                         *)
LEMMA SettledSaved ==
  ASSUME TypeOK, WorksOnRow, SettledInv, NEW r \in Request, SaveAnalysis(r),
         NEW i \in Id, i = req[r].id, i \notin Disturbed
  PROVE  /\ blueprint'[i].fp = Actual(i)
         /\ blueprint'[i].confirmed \in {NoFingerprint, Actual(i)}
         /\ ~blueprint'[i].drifted
<1>1. PICK o \in Order : blueprint'[i].fp = Hash(req[r].found, o)
      BY Saved
<1>2. at[r] = "saving" /\ Present(i)
      BY Saved
<1>3. /\ req[r].found.live = Actual(i).live
      /\ req[r].found.files = Actual(i).files
      /\ req[r].confirmed \in {NoFingerprint, Actual(i)}
      BY <1>2 DEF SettledInv, SettledCarried
<1>4. blueprint'[i].fp = Actual(i)
  <2>1. /\ Hash(req[r].found, o) \in Evidence
        /\ Hash(req[r].found, o).order = Actual(i).order
        /\ Hash(req[r].found, o).files = Actual(i).files
        /\ Hash(req[r].found, o).live = Actual(i).live
        BY <1>2, <1>3, HashType, ReqFields, ActualType
  <2>2. Actual(i) \in Evidence
        BY <1>2, ActualType
  <2> HIDE DEF Actual, Hash
  <2> QED BY <1>1, <2>1, <2>2 DEF Evidence
<1>5. blueprint'[i].confirmed \in {NoFingerprint, Actual(i)}
      BY <1>2, <1>3, Saved DEF SettledInv, SettledStored
<1> QED BY <1>3, <1>4, <1>5, Saved

LEMMA SettledStoredStep ==
  ASSUME TypeOK, WorksOnRow, SettledInv, NEW r \in Request, RequestStep(r)
  PROVE  SettledStored' /\ DriftIsExplained'
<1>1. ASSUME NEW i \in Id, i \notin Disturbed', blueprint'[i] # NoBlueprint
      PROVE  /\ blueprint'[i].fp = Actual(i)'
             /\ blueprint'[i].confirmed \in {NoFingerprint, Actual(i)'}
             /\ ~blueprint'[i].drifted
  <2>1. row'[i].state = "present"
        BY <1>1, TypeStep DEF TypeOK, Known, Present
  <2>2. \/ blueprint'[i] = blueprint[i]
        \/ SaveAnalysis(r) /\ req[r].id = i
        \/ UpdateConfirmation(r) /\ req[r].id = i
        BY <2>1, Fate
  <2>3. row[i].state = "present"
    <3>1. Known(i) => row[i].state = "present"
          BY DEF TypeOK, Present
    <3> QED BY <1>1, <2>2, <3>1, Saved, ConfirmationUpdated DEF Known, Present
  <2>4. Actual(i)' = Actual(i) /\ i \notin Disturbed
        BY <1>1, <2>1, <2>3, SettledKept
  <2>5. Known(i) => /\ blueprint[i].fp = Actual(i)
                    /\ blueprint[i].confirmed \in {NoFingerprint, Actual(i)}
                    /\ ~blueprint[i].drifted
        BY <2>4 DEF SettledInv, SettledStored, DriftIsExplained, Disturbed
  <2>6. CASE blueprint'[i] = blueprint[i]
        BY <1>1, <2>4, <2>5, <2>6 DEF Known
  <2>7. CASE SaveAnalysis(r) /\ req[r].id = i
        BY <2>4, <2>7, SettledSaved
  <2>8. CASE UpdateConfirmation(r) /\ req[r].id = i
        BY <2>4, <2>5, <2>8, ConfirmationUpdated
  <2> QED BY <2>2, <2>6, <2>7, <2>8
<1> QED BY <1>1 DEF SettledStored, DriftIsExplained, Known, Disturbed

LEMMA SettledCarriedStep ==
  ASSUME TypeOK, WorksOnRow, SettledInv, NEW r \in Request, RequestStep(r)
  PROVE  SettledCarried'
<1> SUFFICES ASSUME NEW q \in Request, NEW i \in Id, i \notin Disturbed', req'[q].id = i,
                    row'[i].state = "present"
             PROVE  /\ at'[q] \in {"attaching", "reading"}
                         => req'[q].path = row'[i].path /\ req'[q].list = row'[i].list
                    /\ at'[q] \in {"reading", "comparing", "saving"}
                         => req'[q].found.live = Actual(i)'.live
                    /\ at'[q] \in {"comparing", "saving"}
                         => req'[q].found.files = Actual(i)'.files
                    /\ at'[q] = "saving" => req'[q].confirmed \in {NoFingerprint, Actual(i)'}
    BY DEF SettledCarried, Present
<1> DEFINE Carries(s) ==
             /\ s \in {"attaching", "reading"}
                  => req[q].path = row[i].path /\ req[q].list = row[i].list
             /\ s \in {"reading", "comparing", "saving"} => req[q].found.live = Actual(i).live
             /\ s \in {"comparing", "saving"} => req[q].found.files = Actual(i).files
             /\ s = "saving" => req[q].confirmed \in {NoFingerprint, Actual(i)}
<1>0. i \notin touched'
      BY DEF Disturbed
<1>1. ASSUME req[q].id = i
      PROVE  /\ row'[i] = row[i] /\ Actual(i)' = Actual(i) /\ i \notin Disturbed
             /\ Present(i) /\ Carries(at[q])
  <2>1. row[i].state # "new"
        BY <1>1, NullAssumption DEF WorksOnRow
  <2>2. row'[i] = row[i] /\ Actual(i)' = Actual(i) /\ i \notin Disturbed /\ Present(i)
        BY <2>1, SettledKept
  <2>3. Carries(at[q])
        BY <1>1, <2>2 DEF SettledInv, SettledCarried
  <2> QED BY <2>2, <2>3
<1>2. CASE q # r
  <2>1. at'[q] = at[q] /\ req'[q] = req[q]
        BY <1>2, Fate
  <2> QED BY <1>1, <2>1
<1>3. CASE q = r /\ at'[r] = "attaching"
  <2>1. Silent(r)
        BY <1>3, Way
  <2>2. row' = row
        BY <2>1 DEF Silent, tables
  <2> QED BY <1>3, <2>1, <2>2, SilentMoves
<1>4. CASE q = r /\ at'[r] \in {"reading", "comparing", "saving"}
  <2>1. Attach(r) \/ ReadFiles(r) \/ ReadConfirmation(r)
        BY <1>4, Way
  <2>2. req[r].id = i
        BY <1>4, <2>1, AnalysisGoesOn
  <2>3. Actual(i)' = Actual(i) /\ i \notin Disturbed /\ Carries(at[r]) /\ row'[i] = row[i]
        BY <1>1, <1>4, <2>2
  <2>4. /\ Actual(i).live = Show(row[i].name)
        /\ Actual(i).files = Read(row[i].path, row[i].list)
        BY DEF Actual
  <2> HIDE DEF Actual
  <2>5. CASE Attach(r)
    <3>1. /\ at[r] = "attaching" /\ at'[r] = "reading" /\ req'[r].path = req[r].path
          /\ req'[r].list = req[r].list
          /\ req'[r].found.live = Show(row[i].name)
          BY <1>0, <2>2, <2>5, AnalysisGoesOn DEF Attach
    <3>2. req[r].path = row[i].path /\ req[r].list = row[i].list
          BY <1>4, <2>3, <3>1
    <3> HIDE DEF Carries
    <3> QED BY <1>4, <2>3, <2>4, <3>1, <3>2
  <2>6. CASE ReadFiles(r)
    <3>1. /\ at[r] = "reading" /\ at'[r] = "comparing"
          /\ req'[r].found.live = req[r].found.live
          /\ req'[r].found.files = Read(req[r].path, req[r].list)
          BY <1>0, <2>2, <2>6, AnalysisGoesOn DEF Attach, ReadFiles
    <3>2. req[r].path = row[i].path /\ req[r].list = row[i].list
          BY <1>4, <2>3, <3>1
    <3>3. req[r].found.live = Actual(i).live
          BY <1>4, <2>3, <3>1
    <3> HIDE DEF Carries
    <3> QED BY <1>4, <2>3, <2>4, <3>1, <3>2, <3>3
  <2>7. CASE ReadConfirmation(r)
    <3> HIDE DEF Carries
    <3>1. /\ at[r] = "comparing" /\ at'[r] = "saving"
          /\ req'[r].found = req[r].found
          /\ Known(i) => req'[r].confirmed = blueprint[i].confirmed
          /\ ~Known(i) => req'[r].confirmed = NoFingerprint
          BY <2>2, <2>7, ConfirmationRead
    <3>2. Known(i) => blueprint[i].confirmed \in {NoFingerprint, Actual(i)}
          BY <2>3 DEF SettledInv, SettledStored
    <3>3. /\ req'[r].found.live = Actual(i).live /\ req'[r].found.files = Actual(i).files
          /\ req'[r].confirmed \in {NoFingerprint, Actual(i)}
      <4>1. req[r].found.live = Actual(i).live
            BY <1>4, <2>3, <3>1 DEF Carries
      <4>2. req[r].found.files = Actual(i).files
        <5>1. at[q] = "comparing" /\ req[q].found.files = Actual(i).files
              BY <1>4, <2>3, <3>1 DEF Carries
        <5> QED BY <1>4, <5>1
      <4> QED BY <3>1, <3>2, <4>1, <4>2
    <3> QED BY <1>4, <2>3, <3>1, <3>3
  <2> QED BY <2>1, <2>5, <2>6, <2>7
<1> QED BY <1>2, <1>3, <1>4

-----------------------------------------------------------------------------
(* The invariant.                                                          *)

LEMMA InvInit == Init => Inv
<1> SUFFICES ASSUME Init PROVE Inv
    OBVIOUS
<1>1. /\ \A r \in Request : at[r] = "idle" /\ req[r] = NoReq
      /\ \A i \in Id : blueprint[i] = NoBlueprint /\ row[i].state = "new"
      /\ events = {} /\ touched = {} /\ reread = {} /\ overlapped = {}
      BY DEF Init
<1>2. TypeOK
  <2>1. /\ row \in [Id -> Row] /\ blueprint \in [Id -> Stored \union {NoBlueprint}]
        BY NoReqType DEF Init, Row
  <2>2. at \in [Request -> Step] /\ req \in [Request -> Req]
        BY NoReqType DEF Init, Step
  <2> QED BY <1>1, <2>1, <2>2 DEF Init, TypeOK, Known, Present
<1>3. WorksOnRow
      BY <1>1, NoReqType DEF WorksOnRow
<1>4. RemovalInv
      BY <1>1 DEF RemovalInv, RemovalIsAudited, DeletesAudited
<1>5. ConfirmInv
      BY <1>1 DEF ConfirmInv, FirstUnconfirmed, ChangeIsReported, Confirmed, Known
<1>6. SettledInv
      BY <1>1, NoReqType DEF SettledInv, InOneOrder, SettledStored, SettledCarried,
         DriftIsExplained, Known, Present
<1> QED BY <1>2, <1>3, <1>4, <1>5, <1>6 DEF Inv

LEMMA InvRequest ==
  ASSUME Inv, NEW r \in Request, RequestStep(r)
  PROVE  Inv'
<1> USE DEF Inv
<1>1. TypeOK' /\ WorksOnRow'
      BY TypeStep
<1>2. RemovalInv'
      BY RemovalStep
<1>3. ConfirmInv'
      BY ConfirmStep
<1>4. InOneOrder'
      BY InOneOrderStep DEF SettledInv
<1>5. SettledStored' /\ DriftIsExplained'
      BY SettledStoredStep
<1>6. SettledCarried'
      BY SettledCarriedStep
<1> QED BY <1>1, <1>2, <1>3, <1>4, <1>5, <1>6 DEF SettledInv

(* Files and containers change under the eyes of the requests; whom it     *)
(* concerns is touched.                                                    *)
LEMMA InvWorld ==
  ASSUME Inv, \/ \E p \in Path : EditFiles(p)
              \/ \E n \in Name : ChangeContainers(n) \/ Reorder(n)
  PROVE  Inv'
<1>1. UNCHANGED <<row, blueprint, at, req, events, overlapped>>
      BY DEF EditFiles, ChangeContainers, Reorder, tables
<1>2. /\ touched \subseteq touched' /\ touched' \subseteq Id
      /\ reread \subseteq reread' /\ reread' \subseteq Id
      /\ files' \in [Path -> Version \union {"unread"}] /\ live' \in [Name -> Running]
      /\ mounted' \in [Name -> Order]
      BY DEF Inv, TypeOK, EditFiles, ChangeContainers, Reorder, Named
<1>d. Disturbed \subseteq Disturbed'
      BY <1>2 DEF Disturbed
<1>3. ASSUME NEW i \in Id, i \notin Disturbed', Present(i)
      PROVE  Actual(i)' = Actual(i)
  <2>0. row[i].path \in Path /\ row[i].name \in Name
        /\ i \notin touched' /\ i \notin reread'
        BY <1>3 DEF Inv, TypeOK, Row, Disturbed
  <2>1. files'[row[i].path] = files[row[i].path]
    <3>1. ASSUME NEW p \in Path, EditFiles(p) PROVE files'[row[i].path] = files[row[i].path]
          BY <1>3, <2>0, <3>1 DEF EditFiles, Inv, TypeOK
    <3>2. ASSUME NEW n \in Name, ChangeContainers(n) \/ Reorder(n) PROVE files' = files
          BY <3>2 DEF ChangeContainers, Reorder
    <3> QED BY <3>1, <3>2
  <2>2. live'[row[i].name] = live[row[i].name]
    <3>1. ASSUME NEW n \in Name, ChangeContainers(n)
          PROVE  live'[row[i].name] = live[row[i].name]
          BY <1>3, <2>0, <3>1 DEF ChangeContainers, Named, Inv, TypeOK
    <3>2. ASSUME (\E p \in Path : EditFiles(p)) \/ \E n \in Name : Reorder(n)
          PROVE  live' = live
          BY <3>2 DEF EditFiles, Reorder
    <3> QED BY <3>1, <3>2
  <2>3. mounted'[row[i].name] = mounted[row[i].name]
    <3>1. ASSUME NEW n \in Name, Reorder(n)
          PROVE  mounted'[row[i].name] = mounted[row[i].name]
          BY <1>3, <2>0, <3>1 DEF Reorder, Named, Inv, TypeOK
    <3>2. ASSUME (\E p \in Path : EditFiles(p)) \/ \E n \in Name : ChangeContainers(n)
          PROVE  mounted' = mounted
          BY <3>2 DEF EditFiles, ChangeContainers
    <3> QED BY <3>1, <3>2
  <2> QED BY <1>1, <2>1, <2>2, <2>3 DEF Actual, Read, Show
<1>4. TypeOK'
      BY <1>1, <1>2 DEF Inv, TypeOK, Known, Present
<1>5. WorksOnRow' /\ RemovalInv' /\ ConfirmInv' /\ InOneOrder'
      BY <1>1 DEF Inv, WorksOnRow, RemovalInv, RemovalIsAudited, DeletesAudited, ConfirmInv,
         FirstUnconfirmed, ChangeIsReported, Confirmed, SettledInv, InOneOrder, Known, Present
<1>6. ASSUME NEW i \in Id, i \notin Disturbed', blueprint[i] # NoBlueprint
      PROVE  /\ blueprint[i].fp = Actual(i)'
             /\ blueprint[i].confirmed \in {NoFingerprint, Actual(i)'}
             /\ ~blueprint[i].drifted
  <2>1. Known(i) /\ Present(i) /\ i \notin Disturbed
        BY <1>d, <1>6 DEF Inv, TypeOK, Known
  <2> QED BY <1>3, <1>6, <2>1 DEF Inv, SettledInv, SettledStored, DriftIsExplained, Disturbed
<1>7. SettledStored' /\ DriftIsExplained'
      BY <1>1, <1>6 DEF SettledStored, DriftIsExplained, Known, Disturbed
<1>8. SettledCarried'
  <2> SUFFICES ASSUME NEW q \in Request, NEW i \in Id, i \notin Disturbed', req[q].id = i,
                      Present(i)
               PROVE  /\ at[q] \in {"attaching", "reading"}
                           => req[q].path = row[i].path /\ req[q].list = row[i].list
                      /\ at[q] \in {"reading", "comparing", "saving"}
                           => req[q].found.live = Actual(i)'.live
                      /\ at[q] \in {"comparing", "saving"}
                           => req[q].found.files = Actual(i)'.files
                      /\ at[q] = "saving" => req[q].confirmed \in {NoFingerprint, Actual(i)'}
      BY <1>1 DEF SettledCarried, Present
  <2>1. i \notin Disturbed
        BY <1>d
  <2> QED BY <1>3, <2>1 DEF Inv, SettledInv, SettledCarried
<1> QED BY <1>4, <1>5, <1>7, <1>8 DEF Inv, SettledInv

LEMMA InvNext == Inv /\ [Next]_vars => Inv'
<1> SUFFICES ASSUME Inv, [Next]_vars PROVE Inv'
    OBVIOUS
<1>1. ASSUME NEW r \in Request, Registry(r) \/ Analyzer(r) \/ Fail(r) PROVE Inv'
      BY <1>1, InvRequest DEF RequestStep
<1>2. CASE \/ \E p \in Path : EditFiles(p)
           \/ \E n \in Name : ChangeContainers(n) \/ Reorder(n)
      BY <1>2, InvWorld
<1>3. CASE UNCHANGED vars
  <2>1. /\ UNCHANGED <<files, live, mounted, row, blueprint, at, req, events, touched, reread,
                   overlapped>>
        BY <1>3 DEF vars, world, tables, history
  <2>2. (TypeOK /\ WorksOnRow)'
        BY <2>1 DEF Inv, TypeOK, WorksOnRow, Known, Present
  <2>3. (RemovalInv /\ ConfirmInv)'
        BY <2>1 DEF Inv, RemovalInv, RemovalIsAudited, DeletesAudited, ConfirmInv,
           FirstUnconfirmed, ChangeIsReported, Confirmed, Known, Present
  <2>4. /\ \A i \in Id : Actual(i)' = Actual(i)
        /\ Disturbed' = Disturbed
        BY <2>1 DEF Actual, Disturbed, Read, Show
  <2>5. (InOneOrder /\ DriftIsExplained)'
        BY <2>1 DEF Inv, SettledInv, InOneOrder, DriftIsExplained, Known
  <2>6. (SettledStored /\ SettledCarried)'
        BY <2>1, <2>4 DEF Inv, SettledInv, SettledStored, SettledCarried, Known, Present
  <2> QED BY <2>2, <2>3, <2>5, <2>6 DEF Inv, SettledInv
<1> QED BY <1>1, <1>2, <1>3 DEF Next

(* Inv holds in every state the registry and the analyzer can reach.       *)
THEOREM Invariance == Spec => []Inv
  BY InvInit, InvNext, PTL DEF Spec

(* Rows, blueprints and requests keep to their types; there is no          *)
(* blueprint without its project (ON DELETE CASCADE).                      *)
THEOREM TypeCorrect == Spec => []TypeOK
<1>1. Inv => TypeOK
      BY DEF Inv
<1> QED BY <1>1, Invariance, PTL

(* No project is gone without its event, whatever else requests do         *)
(* meanwhile and wherever they fail (Remove).                              *)
THEOREM RemovalsAudited == Spec => []RemovalIsAudited
<1>1. Inv => RemovalIsAudited
      BY DEF Inv, RemovalInv
<1> QED BY <1>1, Invariance, PTL

(* An analysis that differs from what was confirmed says so, unless a      *)
(* confirmation met it (Analyze, save, Confirm).                           *)
THEOREM ChangesReported == Spec => []ChangeIsReported
<1>1. Inv => ChangeIsReported
      BY DEF Inv, ConfirmInv
<1> QED BY <1>1, Invariance, PTL

(* The flag is never raised over a project that did not change, could be   *)
(* read, whose mounts Docker lists in one order and whose list of Compose  *)
(* files no scan replaced, in whatever order the services of its documents *)
(* come (fingerprintAnalysis, service.go:62-73).  Without the last two     *)
(* conditions it may be: the mounts are hashed as they come (320-343), and *)
(* the update of the row replaces the list (projects/store.go:88-93).      *)
THEOREM NoFalseDrift == Spec => []DriftIsExplained
<1>1. Inv => DriftIsExplained
      BY DEF Inv, SettledInv
<1> QED BY <1>1, Invariance, PTL

(* A step changes what is confirmed of a project only by confirming it or  *)
(* by removing it.                                                         *)
LEMMA ConfirmedKept ==
  ASSUME Inv, [Next]_vars, NEW i \in Id, Confirmed(i)' # Confirmed(i)
  PROVE  \/ row'[i].state = "removed"
         \/ \E r \in Request : at[r] = "confirming" /\ at'[r] = "idle" /\ req[r].id = i
<1>1. blueprint'[i] # blueprint[i]
      BY DEF Confirmed, Known
<1>2. PICK r \in Request : RequestStep(r)
      BY <1>1 DEF Next, vars, tables, RequestStep, EditFiles, ChangeContainers, Reorder
<1>3. CASE SaveAnalysis(r) /\ req[r].id = i
  <2>1. at[r] = "saving" /\ Present(i) /\ blueprint'[i] # NoBlueprint
        BY <1>3, Saved DEF Inv
  <2>2. Known(i) => blueprint'[i].confirmed = blueprint[i].confirmed
        BY <1>3, Saved DEF Inv
  <2>3. ~Known(i) => blueprint'[i].confirmed = NoFingerprint
        BY <1>3, <2>1, Saved DEF Inv, ConfirmInv, FirstUnconfirmed
  <2> QED BY <2>1, <2>2, <2>3 DEF Confirmed, Known
<1>4. CASE UpdateConfirmation(r) /\ req[r].id = i
      BY <1>4, ConfirmationUpdated, Ended DEF Inv
<1> QED BY <1>1, <1>2, <1>3, <1>4, Fate DEF Inv

(* An analysis, however long it takes, undoes no confirmation (save).      *)
THEOREM ApprovalsSurvive == Spec => ApprovalSurvives
<1>1. Inv /\ [Next]_vars =>
        [\A i \in Id : Confirmed(i)' # Confirmed(i) =>
           \/ row'[i].state = "removed"
           \/ \E r \in Request :
                at[r] = "confirming" /\ at'[r] = "idle" /\ req[r].id = i]_vars
      BY ConfirmedKept
<1> QED BY <1>1, Invariance, PTL DEF Spec, ApprovalSurvives
=============================================================================
