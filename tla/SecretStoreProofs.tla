--------------------------- MODULE SecretStoreProofs ---------------------------
(***************************************************************************)
(* Theorems about SecretStore, for any number of secrets, passphrases,     *)
(* keys and calls.  What the store promises holds where rotations and      *)
(* passphrase changes run alone (Exclusive); the types hold in any case.   *)
(***************************************************************************)
EXTENDS SecretStore, FiniteSetTheorems, TLAPS

-----------------------------------------------------------------------------
(* The inductive invariant: what holds of any interleaving.                *)

(* A version counts rotations, and each of them drew a data key.           *)
VersionsCounted ==
  /\ keyVersion <= Cardinality(drawn)
  /\ wrapped.version <= Cardinality(drawn)
  /\ \A r \in Request : req[r].version <= Cardinality(drawn)
  /\ \A r \in Request : at[r] = "inserting" => req[r].version = 1

(* A salt was drawn by a call that has stored it.                          *)
Past == {r \in Request : at[r] \in {"publishing", "done"}}

SaltsCounted == salt <= Cardinality(Past)

(* A call that is not under way has no variables; one that will store a    *)
(* new data key has drawn it.                                              *)
CallsOwnKeys ==
  \A r \in Request :
    /\ at[r] \in {"waiting", "done"} => req[r] = NoReq
    /\ at[r] \in {"inserting", "rotating"} => req[r].key \in Key

Counted == VersionsCounted /\ SaltsCounted /\ CallsOwnKeys

-----------------------------------------------------------------------------
(* The inductive invariant: what holds where maintenance runs alone.       *)

(* A rotation up to the publication of its key, a change of passphrase.    *)
Maintains(r) == r \in Busy /\ (at[r] \in Maintaining \/ req[r].old # NoKey)

MaintainsAlone == \A r \in Request : Maintains(r) => Busy = {r}

(* There is a data key exactly when there is a key record, and calls that  *)
(* need one find one.                                                      *)
RecordHoldsKey ==
  /\ wrapped.key # NoKey <=> Initialized
  /\ \A r \in Request : at[r] \notin {"waiting", "inserting", "done"} => Initialized
  /\ ~Initialized => dek = NoKey

(* The key a call works with is the one the record wraps; a rotation has   *)
(* read it as the old one, and knows the KEK that wraps it.                *)
CallsHoldCurrentKey ==
  \A r \in Request :
    /\ at[r] \in {"writing", "reading", "rewrapping", "publishing"} =>
         req[r].key = wrapped.key
    /\ at[r] = "rotating" => req[r].old = wrapped.key /\ req[r].kek = wrapped.kek
    /\ at[r] = "rewrapping" => req[r].version = keyVersion

(* The key in memory lags behind the record only until a rotation          *)
(* publishes the new one.                                                  *)
MemoryFollows ==
  dek # NoKey => \/ dek = wrapped.key
                 \/ \E r \in Request : at[r] = "publishing" /\ req[r].old # NoKey

Safe == /\ MaintainsAlone /\ RecordHoldsKey /\ CallsHoldCurrentKey /\ MemoryFollows
        /\ MasterOpens /\ SecretsStayReadable

Inv == TypeOK /\ Counted /\ (Exclusive => Safe)

-----------------------------------------------------------------------------
(* Lemmas about the operators.                                             *)

LEMMA NoReqType ==
  /\ NoReq \in Req
  /\ NoReq.old = NoKey /\ NoReq.key = NoKey /\ NoReq.version = 0
  /\ AnyPass \in Passphrase
  /\ 0 \in Salt /\ 0 \in Version /\ 1 \in Version
<1>1. Cardinality(Key) \in Nat /\ Cardinality(Request) \in Nat
      BY BoundAssumption, FS_CardinalityType
<1>2. 0 \in Salt /\ 0 \in Version /\ 1 \in Version
      BY <1>1 DEF Salt, Version
<1>3. AnyPass \in Passphrase /\ (CHOOSE n \in Secret : TRUE) \in Secret
      BY SomeSecret DEF AnyPass
<1> QED BY <1>2, <1>3 DEF NoReq, Req, Kek

(* The fields of a call.                                                   *)
LEMMA ReqFields ==
  ASSUME TypeOK, NEW r \in Request
  PROVE  /\ req[r] \in Req
         /\ req[r].secret \in Secret /\ req[r].pass \in Passphrase
         /\ req[r].old \in Key \union {NoKey} /\ req[r].key \in Key \union {NoKey}
         /\ req[r].kek \in Kek /\ req[r].version \in Version
  BY DEF TypeOK, Req

(* What was drawn, and the calls that stored something, can be counted.    *)
LEMMA CountsOfDrawn ==
  ASSUME NEW S \in SUBSET Key
  PROVE  /\ IsFiniteSet(S) /\ Cardinality(S) \in Nat
         /\ Cardinality(S) <= Cardinality(Key) /\ Cardinality(Key) \in Nat
         /\ \A k \in Key \ S : Cardinality(S \union {k}) = Cardinality(S) + 1
  BY BoundAssumption, FS_CardinalityType, FS_Subset, FS_AddElement

LEMMA CountsOfCalls ==
  ASSUME NEW S \in SUBSET Request
  PROVE  /\ IsFiniteSet(S) /\ Cardinality(S) \in Nat
         /\ Cardinality(S) <= Cardinality(Request) /\ Cardinality(Request) \in Nat
         /\ \A r \in Request \ S : Cardinality(S \union {r}) = Cardinality(S) + 1
         /\ \A T \in SUBSET S : Cardinality(T) <= Cardinality(S)
  BY BoundAssumption, FS_CardinalityType, FS_Subset, FS_AddElement

LEMMA Numbers ==
  ASSUME TypeOK
  PROVE  /\ salt \in Nat /\ keyVersion \in Nat /\ wrapped.version \in Nat
         /\ Cardinality(drawn) \in Nat
         /\ \A r \in Request : req[r].version \in Nat
         /\ Version \subseteq Nat /\ Salt \subseteq Nat
<1>1. Cardinality(Key) \in Nat /\ Cardinality(Request) \in Nat /\ Cardinality(drawn) \in Nat
      BY BoundAssumption, FS_CardinalityType, CountsOfDrawn DEF TypeOK
<1>2. Version \subseteq Nat /\ Salt \subseteq Nat
      BY <1>1 DEF Version, Salt
<1> QED BY <1>1, <1>2, ReqFields DEF TypeOK

(* There is a salt left for a call that has not stored one.                *)
LEMMA SaltLeft ==
  ASSUME TypeOK, SaltsCounted, NEW r \in Request, at[r] \in {"inserting", "rewrapping"}
  PROVE  salt + 1 \in Salt /\ salt + 1 # 0 /\ salt + 1 # salt
<1>1. r \in Request \ Past /\ Past \subseteq Request
      BY DEF Past
<1>2. /\ Cardinality(Past \union {r}) = Cardinality(Past) + 1
      /\ Cardinality(Past \union {r}) <= Cardinality(Request)
      /\ Cardinality(Past) \in Nat /\ Cardinality(Request) \in Nat
      BY <1>1, CountsOfCalls
<1> QED BY <1>2, Numbers DEF SaltsCounted, Salt

(* And a version for a rotation.                                           *)
LEMMA VersionLeft ==
  ASSUME TypeOK, VersionsCounted
  PROVE  keyVersion + 1 \in Version
  BY Numbers, CountsOfDrawn DEF VersionsCounted, Version, TypeOK

(* A call that goes on: it alone is somewhere else.                        *)
LEMMA Moved ==
  ASSUME TypeOK, NEW r \in Request, NEW l \in Step, NEW q \in Req,
         Goto(r, l), req' = [req EXCEPT ![r] = q]
  PROVE  /\ at' \in [Request -> Step] /\ req' \in [Request -> Req]
         /\ at'[r] = l /\ req'[r] = q
         /\ \A r2 \in Request \ {r} : at'[r2] = at[r2] /\ req'[r2] = req[r2]
  BY DEF TypeOK, Goto

LEMMA Returned ==
  ASSUME TypeOK, NEW r \in Request, Return(r)
  PROVE  /\ at' \in [Request -> Step] /\ req' \in [Request -> Req]
         /\ at'[r] = "done" /\ req'[r] = NoReq
         /\ \A r2 \in Request \ {r} : at'[r2] = at[r2] /\ req'[r2] = req[r2]
  BY Moved, NoReqType DEF Return, Step

(* A call whose variables stay.                                            *)
LEMMA Went ==
  ASSUME TypeOK, NEW r \in Request, NEW l \in Step, Goto(r, l), UNCHANGED req
  PROVE  /\ at' \in [Request -> Step] /\ req' \in [Request -> Req]
         /\ at'[r] = l /\ req'[r] = req[r]
         /\ \A r2 \in Request \ {r} : at'[r2] = at[r2] /\ req'[r2] = req[r2]
  BY DEF TypeOK, Goto

-----------------------------------------------------------------------------
(* What each call does to its own variables.                               *)

CallStep(r) == Open(r) \/ Use(r) \/ Maintain(r) \/ Fails(r)

(* Everything but its own variables that a call has to do with.            *)
Others(r) ==
  /\ at' \in [Request -> Step] /\ req' \in [Request -> Req]
  /\ \A r2 \in Request \ {r} : at'[r2] = at[r2] /\ req'[r2] = req[r2]

LEMMA InitializeStarts ==
  ASSUME TypeOK, NEW r \in Request, NEW p \in Passphrase, NEW k \in Key,
         StartInitialize(r, p, k)
  PROVE  /\ Others(r)
         /\ at'[r] = "inserting"
         /\ req'[r].key = k /\ req'[r].version = 1 /\ req'[r].old = req[r].old
<1> DEFINE q == [req[r] EXCEPT !.pass = p, !.key = k, !.version = 1]
<1>1. q \in Req /\ q.key = k /\ q.version = 1 /\ q.old = req[r].old
      BY ReqFields, NoReqType DEF Req
<1>2. req' = [req EXCEPT ![r] = q] /\ Goto(r, "inserting")
      BY DEF StartInitialize
<1> HIDE DEF q
<1> QED BY <1>1, <1>2, Moved DEF Step, Others

LEMMA UnlockStarts ==
  ASSUME TypeOK, NEW r \in Request, NEW p \in Passphrase, StartUnlock(r, p)
  PROVE  /\ Others(r)
         /\ at'[r] = "publishing"
         /\ req'[r].key = wrapped.key /\ req'[r].version = keyVersion
         /\ req'[r].old = req[r].old
<1> DEFINE q == [req[r] EXCEPT !.key = wrapped.key, !.version = keyVersion]
<1>1. q \in Req /\ q.key = wrapped.key /\ q.version = keyVersion /\ q.old = req[r].old
      BY ReqFields DEF Req, TypeOK
<1>2. req' = [req EXCEPT ![r] = q] /\ Goto(r, "publishing")
      BY DEF StartUnlock
<1> HIDE DEF q
<1> QED BY <1>1, <1>2, Moved DEF Step, Others

LEMMA UseStarts ==
  ASSUME TypeOK, NEW r \in Request, NEW n \in Secret, StartPut(r, n) \/ StartGet(r, n)
  PROVE  /\ Others(r)
         /\ at'[r] \in {"writing", "reading"}
         /\ req'[r].key = dek /\ req'[r].version = req[r].version
         /\ req'[r].old = req[r].old
<1> DEFINE q == [req[r] EXCEPT !.secret = n, !.key = dek]
<1>1. q \in Req /\ q.key = dek /\ q.version = req[r].version /\ q.old = req[r].old
      BY ReqFields DEF Req, TypeOK
<1>2. req' = [req EXCEPT ![r] = q] /\ (Goto(r, "writing") \/ Goto(r, "reading"))
      BY DEF StartPut, StartGet
<1> HIDE DEF q
<1> QED BY <1>1, <1>2, Moved DEF Step, Others

LEMMA RotateStarts ==
  ASSUME TypeOK, VersionsCounted, NEW r \in Request, NEW p \in Passphrase, NEW k \in Key,
         StartRotate(r, p, k)
  PROVE  /\ Others(r)
         /\ at'[r] = "rotating"
         /\ req'[r].key = k /\ req'[r].version = keyVersion + 1
         /\ req'[r].old = wrapped.key /\ req'[r].kek = <<p, salt>>
<1> DEFINE q == [req[r] EXCEPT !.old = wrapped.key, !.key = k,
                               !.kek = <<p, salt>>, !.version = keyVersion + 1]
<1>1. /\ q \in Req /\ q.key = k /\ q.version = keyVersion + 1
      /\ q.old = wrapped.key /\ q.kek = <<p, salt>>
      BY ReqFields, VersionLeft DEF Req, TypeOK, Kek
<1>2. req' = [req EXCEPT ![r] = q] /\ Goto(r, "rotating")
      BY DEF StartRotate
<1> HIDE DEF q
<1> QED BY <1>1, <1>2, Moved DEF Step, Others

LEMMA ChangeStarts ==
  ASSUME TypeOK, NEW r \in Request, NEW current \in Passphrase, NEW next \in Passphrase,
         StartChange(r, current, next)
  PROVE  /\ Others(r)
         /\ at'[r] = "rewrapping"
         /\ req'[r].key = wrapped.key /\ req'[r].version = keyVersion
         /\ req'[r].old = req[r].old
<1> DEFINE q == [req[r] EXCEPT !.pass = next, !.key = wrapped.key, !.version = keyVersion]
<1>1. q \in Req /\ q.key = wrapped.key /\ q.version = keyVersion /\ q.old = req[r].old
      BY ReqFields DEF Req, TypeOK
<1>2. req' = [req EXCEPT ![r] = q] /\ Goto(r, "rewrapping")
      BY DEF StartChange
<1> HIDE DEF q
<1> QED BY <1>1, <1>2, Moved DEF Step, Others

LEMMA CommitGoes ==
  ASSUME TypeOK, NEW r \in Request, InsertKeyRecord(r) \/ Rotate(r)
  PROVE  Others(r) /\ at'[r] = "publishing" /\ req'[r] = req[r]
<1>1. Goto(r, "publishing") /\ UNCHANGED req
      BY DEF InsertKeyRecord, Rotate
<1> QED BY <1>1, Went DEF Step, Others

(* The steps with which a call returns.                                    *)
Returns(r) ==
  \/ Publish(r) \/ Lock(r) \/ Write(r) \/ Read(r) \/ Rewrap(r) \/ Fails(r)
  \/ \E n \in Secret : Delete(r, n)

LEMMA CallReturns ==
  ASSUME TypeOK, NEW r \in Request, Returns(r)
  PROVE  Others(r) /\ at'[r] = "done" /\ req'[r] = NoReq
<1>1. Return(r)
      BY DEF Returns, Publish, Lock, Write, Read, Rewrap, Fails, Delete
<1> QED BY <1>1, Returned DEF Others

-----------------------------------------------------------------------------
(* Every step keeps the types and the counts.                              *)

LEMMA CallTyped ==
  ASSUME TypeOK, Counted, NEW r \in Request, CallStep(r)
  PROVE  TypeOK'
<1> DEFINE Rest == /\ salt' \in Salt
                   /\ wrapped' \in [kek : Kek, key : Key \union {NoKey}, version : Version]
                   /\ keyVersion' \in Version
                   /\ secrets' \in [Secret -> Key \union {NoKey}]
                   /\ dek' \in Key \union {NoKey}
                   /\ drawn' \subseteq Key
                   /\ master' \in Passphrase
<1> USE ReqFields DEF Counted
<1>1. ASSUME NEW p \in Passphrase, NEW k \in Key, StartInitialize(r, p, k) PROVE TypeOK'
      BY <1>1, InitializeStarts DEF StartInitialize, Others, TypeOK, record
<1>2. ASSUME InsertKeyRecord(r) PROVE TypeOK'
  <2>1. salt + 1 \in Salt
        BY <1>2, SaltLeft DEF InsertKeyRecord
  <2>2. wrapped' \in [kek : Kek, key : Key \union {NoKey}, version : Version]
        BY <1>2, <2>1, NoReqType DEF InsertKeyRecord, Kek
  <2> QED BY <1>2, <2>1, <2>2, CommitGoes, NoReqType DEF InsertKeyRecord, Others, TypeOK
<1>3. ASSUME NEW p \in Passphrase, StartUnlock(r, p) PROVE TypeOK'
      BY <1>3, UnlockStarts DEF StartUnlock, Others, TypeOK, record
<1>4. ASSUME Publish(r) \/ Lock(r) PROVE TypeOK'
      BY <1>4, CallReturns DEF Returns, Publish, Lock, Others, TypeOK, record
<1>5. ASSUME NEW n \in Secret, StartPut(r, n) \/ StartGet(r, n) PROVE TypeOK'
      BY <1>5, UseStarts DEF StartPut, StartGet, Others, TypeOK, record
<1>6. ASSUME NEW n \in Secret, Delete(r, n) PROVE TypeOK'
      BY <1>6, CallReturns DEF Returns, Delete, Others, TypeOK, record
<1>7. ASSUME Write(r) PROVE TypeOK'
      BY <1>7, CallReturns DEF Returns, Write, Others, TypeOK, record
<1>8. ASSUME Read(r) \/ Fails(r) PROVE TypeOK'
      BY <1>8, CallReturns DEF Returns, Read, Fails, Others, TypeOK, record
<1>9. ASSUME NEW p \in Passphrase, NEW k \in Key, StartRotate(r, p, k) PROVE TypeOK'
      BY <1>9, RotateStarts DEF StartRotate, Others, TypeOK, record
<1>10. ASSUME Rotate(r) PROVE TypeOK'
  <2>1. /\ wrapped' \in [kek : Kek, key : Key \union {NoKey}, version : Version]
        /\ secrets' \in [Secret -> Key \union {NoKey}]
        /\ keyVersion' \in Version
        BY <1>10 DEF Rotate
  <2> QED BY <1>10, <2>1, CommitGoes DEF Rotate, Others, TypeOK
<1>11. ASSUME NEW current \in Passphrase, NEW next \in Passphrase, StartChange(r, current, next)
       PROVE  TypeOK'
      BY <1>11, ChangeStarts DEF StartChange, Others, TypeOK, record
<1>12. ASSUME Rewrap(r) PROVE TypeOK'
  <2>1. salt + 1 \in Salt
        BY <1>12, SaltLeft DEF Rewrap
  <2>2. wrapped' \in [kek : Kek, key : Key \union {NoKey}, version : Version]
        BY <1>12, <2>1 DEF Rewrap, Kek
  <2> QED BY <1>12, <2>1, <2>2, CallReturns DEF Returns, Rewrap, Others, TypeOK
<1> QED BY <1>1, <1>2, <1>3, <1>4, <1>5, <1>6, <1>7, <1>8, <1>9, <1>10, <1>11, <1>12
        DEF CallStep, Open, Use, Maintain

LEMMA CrashTyped ==
  ASSUME TypeOK, Crash
  PROVE  TypeOK'
<1>1. at' \in [Request -> Step] /\ req' \in [Request -> Req]
      BY NoReqType DEF Crash, TypeOK, Step
<1> QED BY <1>1 DEF Crash, TypeOK, record

(* A version is stored that a call carries, and it carries one more than   *)
(* the stored one where it has drawn a key.                                *)
LEMMA VersionsNext ==
  ASSUME TypeOK, Counted, TypeOK', Next
  PROVE  VersionsCounted'
<1> USE DEF VersionsCounted, Counted
<1> USE Numbers
<1>n. /\ Cardinality(drawn) \in Nat /\ drawn \subseteq Key
      /\ \A k \in Key \ drawn : Cardinality(drawn \union {k}) = Cardinality(drawn) + 1
      BY CountsOfDrawn DEF TypeOK
<1>0. NoReq.version = 0
      BY NoReqType
<1>1. ASSUME NEW r \in Request, NEW p \in Passphrase, NEW k \in Key, StartInitialize(r, p, k)
      PROVE  VersionsCounted'
  <2>1. /\ Cardinality(drawn') = Cardinality(drawn) + 1
        /\ UNCHANGED <<keyVersion, wrapped>>
        BY <1>1, <1>n DEF StartInitialize, record
  <2> QED BY <1>1, <1>n, <2>1, InitializeStarts DEF Others
<1>2. ASSUME NEW r \in Request, InsertKeyRecord(r) PROVE VersionsCounted'
  <2>1. 1 <= Cardinality(drawn) /\ UNCHANGED drawn /\ keyVersion' = 1 /\ wrapped'.version = 1
        BY <1>2 DEF InsertKeyRecord
  <2> QED BY <1>2, <2>1, CommitGoes DEF Others
<1>3. ASSUME NEW r \in Request, NEW p \in Passphrase, StartUnlock(r, p) PROVE VersionsCounted'
  <2>1. UNCHANGED <<keyVersion, wrapped, drawn>>
        BY <1>3 DEF StartUnlock, record
  <2> QED BY <1>3, <2>1, UnlockStarts DEF Others
<1>4. ASSUME NEW r \in Request, NEW n \in Secret, StartPut(r, n) \/ StartGet(r, n)
      PROVE  VersionsCounted'
  <2>1. UNCHANGED <<keyVersion, wrapped, drawn>>
        BY <1>4 DEF StartPut, StartGet, record
  <2> QED BY <1>4, <2>1, UseStarts DEF Others
<1>5. ASSUME NEW r \in Request, NEW p \in Passphrase, NEW k \in Key, StartRotate(r, p, k)
      PROVE  VersionsCounted'
  <2>1. /\ Cardinality(drawn') = Cardinality(drawn) + 1
        /\ UNCHANGED <<keyVersion, wrapped>>
        BY <1>5, <1>n DEF StartRotate, record
  <2> QED BY <1>5, <1>n, <2>1, RotateStarts DEF Others
<1>6. ASSUME NEW r \in Request, Rotate(r) PROVE VersionsCounted'
  <2>1. /\ UNCHANGED drawn /\ keyVersion' = req[r].version
        /\ wrapped'.version = req[r].version
        BY <1>6 DEF Rotate
  <2> QED BY <1>6, <2>1, CommitGoes DEF Others
<1>7. ASSUME NEW r \in Request, NEW current \in Passphrase, NEW next \in Passphrase,
             StartChange(r, current, next)
      PROVE  VersionsCounted'
  <2>1. UNCHANGED <<keyVersion, wrapped, drawn>>
        BY <1>7 DEF StartChange, record
  <2> QED BY <1>7, <2>1, ChangeStarts DEF Others
<1>8. ASSUME NEW r \in Request, Returns(r) PROVE VersionsCounted'
  <2>1. /\ UNCHANGED <<keyVersion, drawn>>
        /\ wrapped'.version \in {wrapped.version, req[r].version}
    <3>1. CASE Rewrap(r)
          BY <3>1 DEF Rewrap
    <3>2. CASE ~Rewrap(r)
          BY <1>8, <3>2 DEF Returns, Publish, Lock, Write, Read, Fails, Delete, record
    <3> QED BY <3>1, <3>2
  <2> QED BY <1>0, <1>8, <2>1, CallReturns DEF Others
<1>9. CASE Crash
  <2>1. UNCHANGED <<keyVersion, wrapped, drawn>>
        BY <1>9 DEF Crash, record
  <2>2. \A r \in Request : req'[r].version = 0 /\ at'[r] # "inserting"
        BY <1>0, <1>9 DEF Crash
  <2> QED BY <2>1, <2>2
<1> QED BY <1>1, <1>2, <1>3, <1>4, <1>5, <1>6, <1>7, <1>8, <1>9
        DEF Next, Open, Use, Maintain, Returns

(* Calls only add up.                                                      *)
LEMMA SaltsNext ==
  ASSUME TypeOK, Counted, TypeOK', Next
  PROVE  SaltsCounted'
<1> USE DEF SaltsCounted, Counted
<1>1. Past \subseteq Request /\ Past' \subseteq Request
      BY DEF Past
<1>2. Cardinality(Past) \in Nat /\ Cardinality(Past') \in Nat /\ salt \in Nat
      BY <1>1, CountsOfCalls, Numbers
<1>3. ASSUME Past \subseteq Past', UNCHANGED salt PROVE SaltsCounted'
  <2>1. Cardinality(Past) <= Cardinality(Past')
        BY <1>1, <1>3, CountsOfCalls
  <2> QED BY <1>2, <1>3, <2>1
<1>4. ASSUME NEW r \in Request, r \notin Past, Past \union {r} \subseteq Past', salt' = salt + 1
      PROVE  SaltsCounted'
  <2>1. /\ Cardinality(Past \union {r}) = Cardinality(Past) + 1
        /\ Cardinality(Past \union {r}) <= Cardinality(Past')
        BY <1>1, <1>4, CountsOfCalls
  <2> QED BY <1>2, <1>4, <2>1
<1>5. ASSUME NEW r \in Request, Others(r), r \notin Past \/ at'[r] \in {"publishing", "done"}
      PROVE  Past \subseteq Past'
      BY <1>5 DEF Others, Past
<1>6. ASSUME NEW r \in Request, InsertKeyRecord(r) PROVE SaltsCounted'
  <2>1. r \notin Past /\ salt' = salt + 1
        BY <1>6 DEF InsertKeyRecord, Past
  <2>2. Past \union {r} \subseteq Past'
        BY <1>6, CommitGoes DEF Others, Past
  <2> QED BY <1>4, <2>1, <2>2
<1>7. ASSUME NEW r \in Request, Rewrap(r) PROVE SaltsCounted'
  <2>1. r \notin Past /\ salt' = salt + 1
        BY <1>7 DEF Rewrap, Past
  <2>2. Past \union {r} \subseteq Past'
        BY <1>7, CallReturns DEF Returns, Others, Past
  <2> QED BY <1>4, <2>1, <2>2
<1>8. ASSUME NEW r \in Request, Returns(r), ~Rewrap(r) PROVE SaltsCounted'
  <2>1. UNCHANGED salt
        BY <1>8 DEF Returns, Publish, Lock, Write, Read, Fails, Delete, record
  <2> QED BY <1>3, <1>5, <1>8, <2>1, CallReturns
<1>9. ASSUME NEW r \in Request, CallStep(r), ~Returns(r), ~InsertKeyRecord(r)
      PROVE  SaltsCounted'
  <2>1. UNCHANGED salt
        BY <1>9 DEF CallStep, Open, Use, Maintain, Returns, StartInitialize, StartUnlock,
                    StartPut, StartGet, StartRotate, Rotate, StartChange, record
  <2>2. at[r] \in {"waiting", "rotating"}
        BY <1>9 DEF CallStep, Open, Use, Maintain, Returns, StartInitialize, StartUnlock,
                    StartPut, StartGet, StartRotate, Rotate, StartChange
  <2>3. Others(r)
        BY <1>9, InitializeStarts, UnlockStarts, UseStarts, RotateStarts, ChangeStarts, CommitGoes
        DEF CallStep, Open, Use, Maintain, Returns
  <2> QED BY <1>3, <1>5, <2>1, <2>2, <2>3 DEF Past
<1>10. CASE Crash
  <2>1. Past \subseteq Past' /\ UNCHANGED salt
        BY <1>10 DEF Crash, Past, record
  <2> QED BY <1>3, <2>1
<1> QED BY <1>6, <1>7, <1>8, <1>9, <1>10 DEF Next, CallStep

LEMMA CallsOwnNext ==
  ASSUME TypeOK, Counted, Next
  PROVE  CallsOwnKeys'
<1> USE DEF CallsOwnKeys, Counted
<1>1. ASSUME NEW r \in Request, Others(r),
             /\ at'[r] \in {"waiting", "done"} => req'[r] = NoReq
             /\ at'[r] \in {"inserting", "rotating"} => req'[r].key \in Key
      PROVE  CallsOwnKeys'
      BY <1>1 DEF Others
<1>2. ASSUME NEW r \in Request, CallStep(r) PROVE CallsOwnKeys'
      BY <1>1, <1>2, InitializeStarts, UnlockStarts, UseStarts, RotateStarts, ChangeStarts,
         CommitGoes, CallReturns
      DEF CallStep, Open, Use, Maintain, Returns
<1>3. CASE Crash
      BY <1>3 DEF Crash
<1> QED BY <1>2, <1>3 DEF Next, CallStep

-----------------------------------------------------------------------------
(* Where maintenance runs alone.                                           *)

(* A call that begins meets no maintenance, and maintenance meets no call. *)
LEMMA Begins ==
  ASSUME Exclusive, NEW r \in Request
  PROVE  /\ MayBegin(FALSE) => \A r2 \in Request : ~Maintains(r2)
         /\ MayBegin(TRUE) => Busy = {}
  BY DEF MayBegin, Maintains

(* A step of one call, seen by maintenance: no other call becomes busy, a  *)
(* call begins maintenance alone, and goes on with what it has begun.      *)
LEMMA AloneNext ==
  ASSUME TypeOK, Counted, MaintainsAlone, Exclusive, Next
  PROVE  MaintainsAlone'
<1> USE DEF MaintainsAlone, Maintains, Busy, Maintaining
<1>1. \A r \in Request : at[r] \in {"waiting", "done"} => req[r].old = NoKey
      BY NoReqType DEF Counted, CallsOwnKeys
<1>2. ASSUME NEW r \in Request, Others(r), r \in Busy, Maintains(r)' => Maintains(r)
      PROVE  MaintainsAlone'
      BY <1>2 DEF Others
<1>3. ASSUME NEW r \in Request, Others(r), MayBegin(FALSE), ~Maintains(r)'
      PROVE  MaintainsAlone'
      BY <1>3, Begins DEF Others
<1>4. ASSUME NEW r \in Request, Others(r), MayBegin(TRUE)
      PROVE  MaintainsAlone'
      BY <1>4, Begins DEF Others
<1>5. ASSUME NEW r \in Request, Others(r), at'[r] = "done"
      PROVE  MaintainsAlone'
      BY <1>5 DEF Others
<1>6. ASSUME NEW r \in Request, NEW p \in Passphrase, NEW k \in Key, StartInitialize(r, p, k)
      PROVE  MaintainsAlone'
  <2>1. /\ Others(r) /\ at'[r] = "inserting"
        /\ req'[r].old = req[r].old
        BY <1>6, InitializeStarts
  <2>2. at[r] = "waiting" /\ MayBegin(FALSE)
        BY <1>6 DEF StartInitialize
  <2>3. ~Maintains(r)'
        BY <1>1, <2>1, <2>2
  <2> QED BY <1>3, <2>1, <2>2, <2>3
<1>7. ASSUME NEW r \in Request, NEW p \in Passphrase, StartUnlock(r, p) PROVE MaintainsAlone'
      BY <1>1, <1>3, <1>7, UnlockStarts DEF StartUnlock
<1>8. ASSUME NEW r \in Request, NEW n \in Secret, StartPut(r, n) \/ StartGet(r, n)
      PROVE  MaintainsAlone'
      BY <1>1, <1>3, <1>8, UseStarts DEF StartPut, StartGet
<1>9. ASSUME NEW r \in Request, NEW p \in Passphrase, NEW k \in Key, StartRotate(r, p, k)
      PROVE  MaintainsAlone'
      BY <1>4, <1>9, RotateStarts DEF StartRotate, Counted
<1>10. ASSUME NEW r \in Request, NEW current \in Passphrase, NEW next \in Passphrase,
              StartChange(r, current, next)
       PROVE  MaintainsAlone'
      BY <1>4, <1>10, ChangeStarts DEF StartChange
<1>11. ASSUME NEW r \in Request, InsertKeyRecord(r) \/ Rotate(r) PROVE MaintainsAlone'
  <2>1. at[r] \in {"inserting", "rotating"}
        BY <1>11 DEF InsertKeyRecord, Rotate
  <2>2. Others(r) /\ at'[r] = "publishing" /\ req'[r] = req[r]
        BY <1>11, CommitGoes
  <2>3. r \in Busy /\ (Maintains(r)' => Maintains(r))
        BY <2>1, <2>2
  <2> QED BY <1>2, <2>2, <2>3
<1>12. ASSUME NEW r \in Request, Returns(r) PROVE MaintainsAlone'
      BY <1>5, <1>12, CallReturns
<1>13. CASE Crash
      BY <1>13 DEF Crash
<1> QED BY <1>6, <1>7, <1>8, <1>9, <1>10, <1>11, <1>12, <1>13
        DEF Next, Open, Use, Maintain, Returns

(* The key record, the keys calls carry, the key in memory and the secrets *)
(* through one step.                                                       *)
LEMMA SafeNext ==
  ASSUME TypeOK, Counted, Safe, TypeOK', Exclusive, Next
  PROVE  Safe'
<1> DEFINE S == RecordHoldsKey /\ CallsHoldCurrentKey /\ MemoryFollows /\ MasterOpens
                /\ SecretsStayReadable
<1> USE NoKeyAssumption, ReqFields
<1> USE DEF RecordHoldsKey, CallsHoldCurrentKey, MemoryFollows, MasterOpens, SecretsStayReadable,
            Initialized, Opens, Stored
<1>s. S /\ MaintainsAlone
      BY DEF Safe
<1>c. CallsOwnKeys /\ VersionsCounted
      BY DEF Counted
<1>1. ASSUME NEW r \in Request, NEW p \in Passphrase, NEW k \in Key, StartInitialize(r, p, k)
      PROVE  S'
  <2>1. UNCHANGED <<salt, wrapped, keyVersion, secrets, dek, master>> /\ at[r] = "waiting"
        BY <1>1 DEF StartInitialize, record
  <2>2. Others(r) /\ at'[r] = "inserting"
        BY <1>1, InitializeStarts
  <2> QED BY <1>s, <2>1, <2>2 DEF Others
<1>2. ASSUME NEW r \in Request, InsertKeyRecord(r) PROVE S'
  <2>1. /\ salt = 0 /\ salt' # 0
        /\ wrapped'.key = req[r].key /\ req[r].key \in Key
        /\ wrapped'.kek = <<master', salt'>> /\ wrapped'.version = keyVersion'
        /\ UNCHANGED <<secrets, dek>>
        BY <1>2, <1>c, SaltLeft DEF InsertKeyRecord, CallsOwnKeys, Counted
  <2>2. Others(r) /\ at'[r] = "publishing" /\ req'[r] = req[r]
        BY <1>2, CommitGoes
  <2>3. /\ \A r2 \in Request : at[r2] \in {"waiting", "inserting", "done"}
        /\ \A n \in Secret : secrets[n] = NoKey
        /\ dek = NoKey
        BY <1>s, <2>1
  <2> QED BY <2>1, <2>2, <2>3 DEF Others
<1>3. ASSUME NEW r \in Request, NEW p \in Passphrase, StartUnlock(r, p) PROVE S'
  <2>1. /\ UNCHANGED <<salt, wrapped, keyVersion, secrets, dek, master>>
        /\ at[r] = "waiting" /\ salt # 0
        BY <1>3 DEF StartUnlock, record
  <2>2. Others(r) /\ at'[r] = "publishing" /\ req'[r].key = wrapped.key
        BY <1>3, UnlockStarts
  <2> QED BY <1>s, <2>1, <2>2 DEF Others
<1>4. ASSUME NEW r \in Request, Publish(r) PROVE S'
  <2>1. /\ UNCHANGED <<salt, wrapped, keyVersion, secrets, master>>
        /\ at[r] = "publishing" /\ dek' = req[r].key
        BY <1>4 DEF Publish, record
  <2>2. Others(r) /\ at'[r] = "done"
        BY <1>4, CallReturns DEF Returns
  <2> QED BY <1>s, <2>1, <2>2 DEF Others
<1>5. ASSUME NEW r \in Request, Lock(r) PROVE S'
  <2>1. UNCHANGED <<salt, wrapped, keyVersion, secrets, master>> /\ dek' = NoKey
        BY <1>5 DEF Lock, record
  <2>2. Others(r) /\ at'[r] = "done"
        BY <1>5, CallReturns DEF Returns
  <2> QED BY <1>s, <2>1, <2>2 DEF Others
<1>6. ASSUME NEW r \in Request, NEW n \in Secret, StartPut(r, n) \/ StartGet(r, n)
      PROVE  S'
  <2>1. /\ UNCHANGED <<salt, wrapped, keyVersion, secrets, dek, master>>
        /\ at[r] = "waiting" /\ dek # NoKey /\ MayBegin(FALSE)
        BY <1>6 DEF StartPut, StartGet, record
  <2>2. Others(r) /\ at'[r] \in {"writing", "reading"} /\ req'[r].key = dek
        BY <1>6, UseStarts
  <2>3. dek = wrapped.key
        BY <1>s, <2>1, Begins DEF Maintains, Busy
  <2> QED BY <1>s, <2>1, <2>2, <2>3 DEF Others
<1>7. ASSUME NEW r \in Request, NEW n \in Secret, Delete(r, n) PROVE S'
  <2>1. /\ UNCHANGED <<salt, wrapped, keyVersion, dek, master>> /\ at[r] = "waiting"
        /\ \A n2 \in Secret : secrets'[n2] \in {NoKey, secrets[n2]}
        BY <1>7 DEF Delete, record, TypeOK
  <2>2. Others(r) /\ at'[r] = "done"
        BY <1>7, CallReturns DEF Returns
  <2> QED BY <1>s, <2>1, <2>2 DEF Others
<1>8. ASSUME NEW r \in Request, Write(r) PROVE S'
  <2>1. /\ UNCHANGED <<salt, wrapped, keyVersion, dek, master>> /\ at[r] = "writing"
        /\ \A n \in Secret : secrets'[n] \in {secrets[n], req[r].key}
        BY <1>8 DEF Write, record, TypeOK
  <2>2. Others(r) /\ at'[r] = "done"
        BY <1>8, CallReturns DEF Returns
  <2> QED BY <1>s, <2>1, <2>2 DEF Others
<1>9. ASSUME NEW r \in Request, Read(r) \/ Fails(r) PROVE S'
  <2>1. /\ UNCHANGED <<salt, wrapped, keyVersion, secrets, dek, master>>
        /\ at[r] # "publishing"
        BY <1>9 DEF Read, Fails, record
  <2>2. Others(r) /\ at'[r] = "done"
        BY <1>9, CallReturns DEF Returns
  <2> QED BY <1>s, <2>1, <2>2 DEF Others
<1>10. ASSUME NEW r \in Request, NEW p \in Passphrase, NEW k \in Key, StartRotate(r, p, k)
       PROVE  S'
  <2>1. /\ UNCHANGED <<salt, wrapped, keyVersion, secrets, dek, master>>
        /\ at[r] = "waiting" /\ salt # 0 /\ wrapped.kek = <<p, salt>>
        BY <1>10 DEF StartRotate, record
  <2>2. /\ Others(r) /\ at'[r] = "rotating"
        /\ req'[r].old = wrapped.key /\ req'[r].kek = <<p, salt>>
        BY <1>10, <1>c, RotateStarts
  <2> QED BY <1>s, <2>1, <2>2 DEF Others
<1>11. ASSUME NEW r \in Request, Rotate(r) PROVE S'
  <2>1. /\ UNCHANGED <<salt, dek, master>> /\ at[r] = "rotating"
        /\ wrapped'.key = req[r].key /\ wrapped'.kek = req[r].kek
        /\ wrapped'.version = keyVersion'
        /\ \A n \in Secret : secrets'[n] \in {NoKey, req[r].key}
        BY <1>11 DEF Rotate
  <2>2. Others(r) /\ at'[r] = "publishing" /\ req'[r] = req[r]
        BY <1>11, CommitGoes
  <2>3. /\ req[r].key \in Key /\ req[r].old = wrapped.key /\ req[r].old # NoKey /\ salt # 0
        /\ wrapped'.kek = wrapped.kek
        BY <1>s, <1>c, <2>1 DEF CallsOwnKeys
  <2>4. \A r2 \in Request \ {r} : at[r2] \in {"waiting", "done"}
        BY <1>s, <2>1 DEF MaintainsAlone, Maintains, Busy, Maintaining
  <2>5. \A r2 \in Request \ {r} : at'[r2] \in {"waiting", "done"}
        BY <2>2, <2>4 DEF Others
  <2> QED BY <1>s, <2>1, <2>2, <2>3, <2>5
<1>12. ASSUME NEW r \in Request, NEW current \in Passphrase, NEW next \in Passphrase,
              StartChange(r, current, next)
       PROVE  S'
  <2>1. /\ UNCHANGED <<salt, wrapped, keyVersion, secrets, dek, master>>
        /\ at[r] = "waiting" /\ salt # 0
        BY <1>12 DEF StartChange, record
  <2>2. /\ Others(r) /\ at'[r] = "rewrapping"
        /\ req'[r].key = wrapped.key /\ req'[r].version = keyVersion
        BY <1>12, ChangeStarts
  <2> QED BY <1>s, <2>1, <2>2 DEF Others
<1>13. ASSUME NEW r \in Request, Rewrap(r) PROVE S'
  <2>1. /\ UNCHANGED <<keyVersion, secrets, dek>> /\ at[r] = "rewrapping"
        /\ wrapped'.key = req[r].key /\ wrapped'.kek = <<master', salt'>>
        /\ wrapped'.version = req[r].version
        BY <1>13 DEF Rewrap
  <2>2. Others(r) /\ at'[r] = "done"
        BY <1>13, CallReturns DEF Returns
  <2>3. salt' # 0
        BY <1>13, SaltLeft DEF Rewrap, Counted
  <2>4. req[r].key = wrapped.key /\ req[r].version = keyVersion /\ salt # 0
        BY <1>s, <2>1
  <2>5. \A r2 \in Request \ {r} : at[r2] \in {"waiting", "done"}
        BY <1>s, <2>1 DEF MaintainsAlone, Maintains, Busy, Maintaining
  <2>6. \A r2 \in Request : at'[r2] \in {"waiting", "done"}
        BY <2>2, <2>5 DEF Others
  <2>7. dek # NoKey => dek = wrapped.key
        BY <1>s, <2>1, <2>5
  <2> QED BY <1>s, <2>1, <2>3, <2>4, <2>6, <2>7
<1>14. ASSUME Crash PROVE S'
  <2>1. /\ UNCHANGED <<salt, wrapped, keyVersion, secrets, master>> /\ dek' = NoKey
        /\ \A r \in Request : at'[r] \in {"waiting", "done"}
        BY <1>14 DEF Crash, record
  <2> QED BY <1>s, <2>1
<1>15. MaintainsAlone'
      BY <1>s, AloneNext
<1>16. S'
      BY <1>1, <1>2, <1>3, <1>4, <1>5, <1>6, <1>7, <1>8, <1>9, <1>10, <1>11, <1>12, <1>13, <1>14
      DEF Next, Open, Use, Maintain
<1> QED BY <1>15, <1>16 DEF Safe

-----------------------------------------------------------------------------
(* The theorems.                                                           *)

LEMMA InvInit == Init => Inv
<1> SUFFICES ASSUME Init PROVE Inv
    OBVIOUS
<1> USE NoReqType DEF Init
<1>1. TypeOK
      BY DEF TypeOK, Step, Kek
<1>2. Cardinality(drawn) \in Nat /\ Cardinality(Past) \in Nat
  <2>1. drawn \subseteq Key /\ Past \subseteq Request
        BY DEF Past
  <2> QED BY <2>1, CountsOfDrawn, CountsOfCalls
<1>3. Counted
      BY <1>2 DEF Counted, VersionsCounted, SaltsCounted, CallsOwnKeys
<1>4. Safe
      BY DEF Safe, MaintainsAlone, Maintains, Busy, RecordHoldsKey, CallsHoldCurrentKey,
             MemoryFollows, MasterOpens, SecretsStayReadable, Initialized, Stored
<1> QED BY <1>1, <1>3, <1>4 DEF Inv

LEMMA InvNext == Inv /\ [Next]_vars => Inv'
<1> SUFFICES ASSUME Inv, [Next]_vars PROVE Inv'
    OBVIOUS
<1>1. CASE Next
  <2>1. TypeOK'
        BY <1>1, CallTyped, CrashTyped DEF Inv, Next, CallStep
  <2>2. Counted'
        BY <1>1, <2>1, VersionsNext, SaltsNext, CallsOwnNext DEF Inv, Counted
  <2>3. Exclusive => Safe'
        BY <1>1, <2>1, SafeNext DEF Inv
  <2> QED BY <2>1, <2>2, <2>3 DEF Inv
<1>2. CASE UNCHANGED vars
  <2> USE <1>2 DEF vars, record, request
  <2>1. TypeOK'
        BY DEF Inv, TypeOK
  <2>2. Counted'
        BY DEF Inv, Counted, VersionsCounted, SaltsCounted, Past, CallsOwnKeys
  <2>3. Safe => Safe'
        BY DEF Safe, MaintainsAlone, Maintains, Busy, RecordHoldsKey, CallsHoldCurrentKey,
               MemoryFollows, MasterOpens, SecretsStayReadable, Initialized, Stored, Opens
  <2> QED BY <2>1, <2>2, <2>3 DEF Inv
<1> QED BY <1>1, <1>2

(* The inductive invariant holds in every state of the store, whatever the *)
(* order of its calls and wherever the process is stopped.                 *)
THEOREM Invariance == Spec => []Inv
BY InvInit, InvNext, PTL DEF Spec

(* The key record, the rows and the variables of calls keep their types:   *)
(* in any interleaving no more salts and versions are stored than calls    *)
(* have been made and data keys drawn.                                     *)
THEOREM TypeCorrect == Spec => []TypeOK
<1>1. Inv => TypeOK
      BY DEF Inv
<1> QED BY <1>1, Invariance, PTL

(* No rotation, change of passphrase or stop leaves a stored secret behind *)
(* that the data key of the record does not open.                          *)
THEOREM SecretsReadable ==
  ASSUME Exclusive
  PROVE  Spec => []SecretsStayReadable
<1>1. Inv => SecretsStayReadable
      BY DEF Inv, Safe
<1> QED BY <1>1, Invariance, PTL

(* The key record always opens with the passphrase that was set last.      *)
THEOREM MasterAlwaysOpens ==
  ASSUME Exclusive
  PROVE  Spec => []MasterOpens
<1>1. Inv => MasterOpens
      BY DEF Inv, Safe
<1> QED BY <1>1, Invariance, PTL

(* The key that Put seals with is the one of the record, except while a    *)
(* committed key is on its way to memory.                                  *)
THEOREM MemoryIsCurrent ==
  ASSUME Exclusive
  PROVE  Spec => []LoadedKeyIsCurrent
<1>1. Inv => LoadedKeyIsCurrent
      BY DEF Inv, Safe, MemoryFollows, LoadedKeyIsCurrent
<1> QED BY <1>1, Invariance, PTL

-----------------------------------------------------------------------------
(* The store implements the vault.                                         *)

(* What is seen of the vault: everything it lists can be read, and who     *)
(* opens it is the holder of the passphrase that was set last.             *)
VaultSeen ==
  /\ Readable = Stored
  /\ Openers = IF Initialized THEN {master} ELSE {}

LEMMA InvSeesVault ==
  ASSUME Inv, Exclusive
  PROVE  VaultSeen
<1>1. Safe /\ TypeOK
      BY DEF Inv
<1>2. Openers = IF Initialized THEN {master} ELSE {}
  <2>1. CASE ~Initialized
        BY <2>1 DEF Openers, Opens
  <2>2. CASE Initialized
    <3>1. wrapped.kek = <<master, salt>> /\ wrapped.version = keyVersion
          BY <1>1, <2>2 DEF Safe, MasterOpens, Opens
    <3>2. \A p \in Passphrase : Opens(p) <=> p = master
          BY <2>2, <3>1 DEF Opens
    <3>3. master \in Passphrase
          BY <1>1 DEF TypeOK
    <3> QED BY <2>2, <3>2, <3>3 DEF Openers
  <2> QED BY <2>1, <2>2
<1>3. ~Initialized => Stored = {}
      BY <1>1 DEF Safe, RecordHoldsKey, SecretsStayReadable, Stored
<1>4. Readable = Stored
  <2>1. \A n \in Stored : secrets[n] = wrapped.key /\ Openers # {}
        BY <1>1, <1>2, <1>3 DEF Safe, SecretsStayReadable
  <2> QED BY <2>1 DEF Readable
<1> QED BY <1>2, <1>4 DEF VaultSeen

(* A step that stores no secret, no passphrase and no first record.        *)
LEMMA UnseenStutters ==
  ASSUME VaultSeen, VaultSeen', UNCHANGED <<Stored, Initialized, master>>
  PROVE  UNCHANGED Promise!vars
  BY DEF VaultSeen, Promise!vars

(* The rows a call writes, and what that is of the vault.                  *)
LEMMA CallKeepsVault ==
  ASSUME Inv, Exclusive, VaultSeen, VaultSeen', NEW r \in Request, CallStep(r)
  PROVE  [Promise!Next]_(Promise!vars)
<1> DEFINE Goal == [Promise!Next]_(Promise!vars)
<1>1. TypeOK /\ Counted /\ Safe
      BY DEF Inv
<1>2. ASSUME UNCHANGED <<salt, secrets, master>> PROVE Goal
      BY <1>2, UnseenStutters DEF Stored, Initialized
<1>3. ASSUME InsertKeyRecord(r) PROVE Goal
  <2>1. /\ ~Initialized /\ Initialized'
        /\ master' \in Passphrase /\ UNCHANGED Stored
        BY <1>1, <1>3, ReqFields, SaltLeft
        DEF InsertKeyRecord, Initialized, Stored, Counted
  <2>2. Openers = {} /\ Openers' = {master'} /\ UNCHANGED <<Stored, Readable>>
        BY <2>1 DEF VaultSeen
  <2>3. Promise!SetUp(master')
        BY <2>2 DEF Promise!SetUp
  <2> QED BY <2>1, <2>3 DEF Promise!Next
<1>4. ASSUME Rewrap(r) PROVE Goal
  <2>1. /\ Initialized /\ Initialized'
        /\ master' \in Passphrase /\ UNCHANGED Stored
        BY <1>1, <1>4, ReqFields, SaltLeft
        DEF Rewrap, Initialized, Stored, Counted, Safe, RecordHoldsKey
  <2>2. Openers # {} /\ Openers' = {master'} /\ UNCHANGED <<Stored, Readable>>
        BY <2>1 DEF VaultSeen
  <2>3. Promise!Change(master')
        BY <2>2 DEF Promise!Change
  <2> QED BY <2>1, <2>3 DEF Promise!Next
<1>5. ASSUME Write(r) PROVE Goal
  <2> DEFINE n == req[r].secret
  <2>1. n \in Secret /\ req[r].key # NoKey /\ Initialized
        BY <1>1, <1>5, ReqFields
        DEF Write, Safe, RecordHoldsKey, CallsHoldCurrentKey
  <2>2. /\ secrets' = [secrets EXCEPT ![n] = req[r].key]
        /\ UNCHANGED <<salt, master>>
        BY <1>5 DEF Write, record
  <2> HIDE DEF n
  <2>3. Stored' = Stored \union {n}
        BY <1>1, <2>1, <2>2 DEF Stored, TypeOK
  <2>4. /\ Openers # {} /\ UNCHANGED Openers
        /\ Readable' = Readable \union {n}
        BY <2>1, <2>2, <2>3 DEF VaultSeen, Initialized
  <2>5. Promise!Put(n)
        BY <2>3, <2>4 DEF Promise!Put
  <2> QED BY <2>1, <2>5 DEF Promise!Next
<1>6. ASSUME NEW n \in Secret, Delete(r, n) PROVE Goal
  <2>1. /\ secrets' = [secrets EXCEPT ![n] = NoKey]
        /\ UNCHANGED <<salt, master>>
        BY <1>6 DEF Delete, record
  <2>2. Stored' = Stored \ {n}
        BY <1>1, <2>1 DEF Stored, TypeOK
  <2>3. UNCHANGED Openers /\ Readable' = Readable \ {n}
        BY <2>1, <2>2 DEF VaultSeen, Initialized
  <2>4. Promise!Delete(n)
        BY <2>2, <2>3 DEF Promise!Delete
  <2> QED BY <2>4 DEF Promise!Next
<1>7. ASSUME Rotate(r) PROVE Goal
  <2>1. req[r].key # NoKey
        BY <1>1, <1>7, NoKeyAssumption DEF Rotate, Counted, CallsOwnKeys
  <2>2. \A n \in Secret : secrets'[n] # NoKey <=> secrets[n] # NoKey
        BY <1>7, <2>1 DEF Rotate, Stored
  <2>3. UNCHANGED <<Stored, Initialized, master>>
        BY <1>7, <2>2 DEF Rotate, Stored, Initialized
  <2> QED BY <2>3, UnseenStutters
<1>8. ASSUME \/ \E p \in Passphrase, k \in Key : StartInitialize(r, p, k)
             \/ \E p \in Passphrase : StartUnlock(r, p)
             \/ Publish(r) \/ Lock(r)
             \/ \E n \in Secret : StartPut(r, n) \/ StartGet(r, n)
             \/ Read(r) \/ Fails(r)
             \/ \E p \in Passphrase, k \in Key : StartRotate(r, p, k)
             \/ \E current, next \in Passphrase : StartChange(r, current, next)
      PROVE  Goal
  <2>1. UNCHANGED <<salt, secrets, master>>
        BY <1>8 DEF StartInitialize, StartUnlock, Publish, Lock, StartPut, StartGet, Read,
                    Fails, StartRotate, StartChange, record
  <2> QED BY <2>1, <1>2
<1> QED BY <1>3, <1>4, <1>5, <1>6, <1>7, <1>8 DEF CallStep, Open, Use, Maintain

(* Where maintenance runs alone, no interleaving of calls, no failure and  *)
(* no stop is more than a step of the vault: what was put in is listed and *)
(* can be read until it is deleted, and one passphrase opens it - the one  *)
(* that was set last, the former one no longer.                            *)
THEOREM StoreKeepsVault ==
  ASSUME Exclusive
  PROVE  Spec => KeepsVault
<1>1. Init => Promise!Init
      BY DEF Init, Promise!Init, Stored, Readable, Openers, Opens, Initialized
<1>2. Inv => VaultSeen
      BY InvSeesVault
<1>3. Inv /\ VaultSeen /\ VaultSeen' /\ [Next]_vars => [Promise!Next]_(Promise!vars)
  <2> SUFFICES ASSUME Inv, VaultSeen, VaultSeen', [Next]_vars
               PROVE  [Promise!Next]_(Promise!vars)
      OBVIOUS
  <2>1. ASSUME NEW r \in Request, CallStep(r) PROVE [Promise!Next]_(Promise!vars)
        BY <2>1, CallKeepsVault
  <2>2. CASE Crash \/ UNCHANGED vars
    <3>1. UNCHANGED <<Stored, Initialized, master>>
          BY <2>2 DEF Crash, vars, record, Stored, Initialized
    <3> QED BY <3>1, UnseenStutters
  <2> QED BY <2>1, <2>2 DEF Next, CallStep
<1> QED BY <1>1, <1>2, <1>3, Invariance, PTL DEF Spec, KeepsVault, Promise!Spec

=============================================================================
