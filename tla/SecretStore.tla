----------------------------- MODULE SecretStore -----------------------------
(***************************************************************************)
(* The encrypted secret store of internal/secrets: a master passphrase     *)
(* derives a key-encryption key (KEK), which wraps the data key (DEK),     *)
(* which seals every secret.  The key record and the secrets are in the    *)
(* database; the unwrapped DEK is in memory, under Store.mu.  No lock is   *)
(* held from reading a key to using it, nor from committing a key record   *)
(* to publishing its DEK.                                                  *)
(*                                                                         *)
(* Abstractions: a KEK is the pair of a passphrase and the salt it was     *)
(* derived with; a ciphertext is what sealed it, and opens with the same   *)
(* key and associated data only.  The associated data of a secret, its own *)
(* row, never varies and is left out.  A statement or a transaction is one *)
(* step (the pool has one connection) and may fail.                        *)
(***************************************************************************)
EXTENDS Integers, FiniteSets

CONSTANTS
  Secret,         \* kind and name of a secret
  Passphrase,
  Key,            \* data keys ever drawn: bounds initialisation and rotations
  Request,        \* calls of the store: bounds the number of operations
  Exclusive,      \* rotation and passphrase change run while nothing else does
  NoKey

ASSUME NoKeyAssumption == NoKey \notin Key
ASSUME ExclusiveAssumption == Exclusive \in BOOLEAN
ASSUME BoundAssumption == IsFiniteSet(Key) /\ IsFiniteSet(Request)
ASSUME SomeSecret == Secret # {} /\ Passphrase # {}

VARIABLES
  salt,           \* secret_store.kdf_salt, drawn anew with each passphrase; 0: no record
  wrapped,        \* secret_store.wrapped_dek: the KEK, the DEK and its associated data
  keyVersion,     \* secret_store.key_version
  secrets,        \* secrets table: the DEK that sealed each row, NoKey: no row
  dek,            \* Store.dek, NoKey: locked
  drawn,          \* data keys drawn so far
  at, req,        \* where each call stands, and its variables
  master          \* history: the passphrase that was last set

record  == <<salt, wrapped, keyVersion>>
request == <<at, req>>
vars    == <<record, secrets, dek, drawn, request, master>>

Version == 0 .. Cardinality(Key) + 1
Salt    == 0 .. Cardinality(Request)
Kek     == Passphrase \X Salt

Step == {"waiting", "inserting", "writing", "reading", "rotating", "rewrapping",
         "publishing", "done"}

Req == [secret : Secret, pass : Passphrase, old : Key \union {NoKey},
        key : Key \union {NoKey}, kek : Kek, version : Version]

TypeOK ==
  /\ salt \in Salt
  /\ wrapped \in [kek : Kek, key : Key \union {NoKey}, version : Version]
  /\ keyVersion \in Version
  /\ secrets \in [Secret -> Key \union {NoKey}]
  /\ dek \in Key \union {NoKey}
  /\ drawn \subseteq Key
  /\ at \in [Request -> Step]
  /\ req \in [Request -> Req]
  /\ master \in Passphrase

AnyPass == CHOOSE p \in Passphrase : TRUE

NoReq == [secret |-> CHOOSE n \in Secret : TRUE, pass |-> AnyPass, old |-> NoKey,
          key |-> NoKey, kek |-> <<AnyPass, 0>>, version |-> 0]

Init ==
  /\ salt = 0
  /\ wrapped = [kek |-> <<AnyPass, 0>>, key |-> NoKey, version |-> 0]
  /\ keyVersion = 0
  /\ secrets = [n \in Secret |-> NoKey]
  /\ dek = NoKey
  /\ drawn = {}
  /\ at = [r \in Request |-> "waiting"]
  /\ req = [r \in Request |-> NoReq]
  /\ master = AnyPass

-----------------------------------------------------------------------------
Initialized == salt # 0

(* What Unlock, ChangeMasterPassphrase and RotateDataKey do with a         *)
(* passphrase: derive the KEK from the stored salt, unwrap the DEK.        *)
Opens(p) ==
  /\ Initialized
  /\ wrapped.kek = <<p, salt>>
  /\ wrapped.version = keyVersion

Stored == {n \in Secret : secrets[n] # NoKey}

Goto(r, l) == at' = [at EXCEPT ![r] = l]

Return(r) ==
  /\ Goto(r, "done")
  /\ req' = [req EXCEPT ![r] = NoReq]

Busy == {r \in Request : at[r] \notin {"waiting", "done"}}
Maintaining == {"rotating", "rewrapping"}

(* A call may begin: nothing else is under way beside a maintenance call,  *)
(* where these are kept apart.                                             *)
MayBegin(maintenance) ==
  Exclusive => IF maintenance THEN Busy = {}
               ELSE \A r \in Busy : at[r] \notin Maintaining /\ req[r].old = NoKey

-----------------------------------------------------------------------------
(* Initialize                                                              *)

(* IsInitialized, and the key material: drawn before anything is stored.   *)
StartInitialize(r, p, k) ==
  /\ at[r] = "waiting" /\ MayBegin(FALSE)
  /\ ~Initialized
  /\ k \in Key \ drawn
  /\ drawn' = drawn \union {k}
  /\ req' = [req EXCEPT ![r].pass = p, ![r].key = k, ![r].version = 1]
  /\ Goto(r, "inserting")
  /\ UNCHANGED <<record, secrets, dek, master>>

(* Fault: a second initialisation replaces the first one's record.         *)
ReplaceKeyRecord(r) ==
  /\ at[r] = "inserting"
  /\ salt' = salt + 1
  /\ wrapped' = [kek |-> <<req[r].pass, salt'>>, key |-> req[r].key, version |-> 1]
  /\ keyVersion' = 1
  /\ master' = req[r].pass
  /\ Goto(r, "publishing")
  /\ UNCHANGED <<secrets, dek, drawn, req>>

(* The row has a fixed primary key: the second of two racing               *)
(* initialisations is refused by the database.                             *)
InsertKeyRecord(r) ==
  /\ at[r] = "inserting"
  /\ ~Initialized
  /\ salt' = salt + 1
  /\ wrapped' = [kek |-> <<req[r].pass, salt'>>, key |-> req[r].key, version |-> 1]
  /\ keyVersion' = 1
  /\ master' = req[r].pass
  /\ Goto(r, "publishing")
  /\ UNCHANGED <<secrets, dek, drawn, req>>

(* Unlock: the record is read and opened; the DEK is published later.      *)
StartUnlock(r, p) ==
  /\ at[r] = "waiting" /\ MayBegin(FALSE)
  /\ Opens(p)
  /\ req' = [req EXCEPT ![r].key = wrapped.key, ![r].version = keyVersion]
  /\ Goto(r, "publishing")
  /\ UNCHANGED <<record, secrets, dek, drawn, master>>

(* Store.mu is held for the assignment alone.                              *)
Publish(r) ==
  /\ at[r] = "publishing"
  /\ dek' = req[r].key
  /\ Return(r)
  /\ UNCHANGED <<record, secrets, drawn, master>>

Lock(r) ==
  /\ at[r] = "waiting" /\ MayBegin(FALSE)
  /\ dek' = NoKey
  /\ Return(r)
  /\ UNCHANGED <<record, secrets, drawn, master>>

-----------------------------------------------------------------------------
(* Put, Get, Delete                                                        *)

(* currentKey: a copy of the key, which the call uses from here on.        *)
StartPut(r, n) ==
  /\ at[r] = "waiting" /\ MayBegin(FALSE)
  /\ dek # NoKey
  /\ req' = [req EXCEPT ![r].secret = n, ![r].key = dek]
  /\ Goto(r, "writing")
  /\ UNCHANGED <<record, secrets, dek, drawn, master>>

Write(r) ==
  /\ at[r] = "writing"
  /\ secrets' = [secrets EXCEPT ![req[r].secret] = req[r].key]
  /\ Return(r)
  /\ UNCHANGED <<record, dek, drawn, master>>

StartGet(r, n) ==
  /\ at[r] = "waiting" /\ MayBegin(FALSE)
  /\ dek # NoKey
  /\ req' = [req EXCEPT ![r].secret = n, ![r].key = dek]
  /\ Goto(r, "reading")
  /\ UNCHANGED <<record, secrets, dek, drawn, master>>

Read(r) ==
  /\ at[r] = "reading"
  /\ Return(r)
  /\ UNCHANGED <<record, secrets, dek, drawn, master>>

Delete(r, n) ==
  /\ at[r] = "waiting" /\ MayBegin(FALSE)
  /\ secrets' = [secrets EXCEPT ![n] = NoKey]
  /\ Return(r)
  /\ UNCHANGED <<record, dek, drawn, master>>

-----------------------------------------------------------------------------
(* RotateDataKey                                                           *)

StartRotate(r, p, k) ==
  /\ at[r] = "waiting" /\ MayBegin(TRUE)
  /\ Opens(p)
  /\ k \in Key \ drawn
  /\ drawn' = drawn \union {k}
  /\ req' = [req EXCEPT ![r].old = wrapped.key, ![r].key = k,
                        ![r].kek = <<p, salt>>, ![r].version = keyVersion + 1]
  /\ Goto(r, "rotating")
  /\ UNCHANGED <<record, secrets, dek, master>>

(* Fault: the generation is counted twice.                                 *)
RotateCountingTwice(r) ==
  /\ at[r] = "rotating"
  /\ \A n \in Stored : secrets[n] = req[r].old
  /\ secrets' = [n \in Secret |-> IF n \in Stored THEN req[r].key ELSE NoKey]
  /\ wrapped' = [kek |-> req[r].kek, key |-> req[r].key, version |-> req[r].version + 1]
  /\ keyVersion' = req[r].version + 1
  /\ Goto(r, "publishing")
  /\ UNCHANGED <<salt, dek, drawn, req, master>>

(* Fault: the new key is committed, the key in memory stays the old one.   *)
RotateUnpublished(r) ==
  /\ at[r] = "rotating"
  /\ \A n \in Stored : secrets[n] = req[r].old
  /\ secrets' = [n \in Secret |-> IF n \in Stored THEN req[r].key ELSE NoKey]
  /\ wrapped' = [kek |-> req[r].kek, key |-> req[r].key, version |-> req[r].version]
  /\ keyVersion' = req[r].version
  /\ Return(r)
  /\ UNCHANGED <<salt, dek, drawn, master>>

(* The transaction: every secret is opened with the old key and sealed     *)
(* with the new one, and the key record names the new one - all or         *)
(* nothing.  The salt column keeps what it holds.                          *)
Rotate(r) ==
  /\ at[r] = "rotating"
  /\ \A n \in Stored : secrets[n] = req[r].old
  /\ secrets' = [n \in Secret |-> IF n \in Stored THEN req[r].key ELSE NoKey]
  /\ wrapped' = [kek |-> req[r].kek, key |-> req[r].key, version |-> req[r].version]
  /\ keyVersion' = req[r].version
  /\ Goto(r, "publishing")
  /\ UNCHANGED <<salt, dek, drawn, req, master>>

-----------------------------------------------------------------------------
(* ChangeMasterPassphrase                                                  *)

StartChange(r, current, next) ==
  /\ at[r] = "waiting" /\ MayBegin(TRUE)
  /\ Opens(current)
  /\ req' = [req EXCEPT ![r].pass = next, ![r].key = wrapped.key,
                        ![r].version = keyVersion]
  /\ Goto(r, "rewrapping")
  /\ UNCHANGED <<record, secrets, dek, drawn, master>>

(* Fault: the old salt is kept in the row.                                 *)
RewrapKeepingSalt(r) ==
  /\ at[r] = "rewrapping"
  /\ wrapped' = [kek |-> <<req[r].pass, salt + 1>>, key |-> req[r].key,
                 version |-> req[r].version]
  /\ master' = req[r].pass
  /\ Return(r)
  /\ UNCHANGED <<salt, keyVersion, secrets, dek, drawn>>

(* One UPDATE: a new salt and the same DEK; key_version is left alone.     *)
Rewrap(r) ==
  /\ at[r] = "rewrapping"
  /\ salt' = salt + 1
  /\ wrapped' = [kek |-> <<req[r].pass, salt'>>, key |-> req[r].key,
                 version |-> req[r].version]
  /\ master' = req[r].pass
  /\ Return(r)
  /\ UNCHANGED <<keyVersion, secrets, dek, drawn>>

(* A statement or a transaction fails: the call returns an error.          *)
Fails(r) ==
  /\ at[r] \in {"inserting", "writing", "reading", "rotating", "rewrapping"}
  /\ Return(r)
  /\ UNCHANGED <<record, secrets, dek, drawn, master>>

(* The process ends and starts again, locked; main then unlocks it from    *)
(* the master key file, if there is one, by a call of Unlock.              *)
Crash ==
  /\ Busy # {} \/ dek # NoKey
  /\ dek' = NoKey
  /\ at' = [r \in Request |-> IF at[r] = "waiting" THEN "waiting" ELSE "done"]
  /\ req' = [r \in Request |-> NoReq]
  /\ UNCHANGED <<record, secrets, drawn, master>>

-----------------------------------------------------------------------------
Open(r) ==
  \/ \E p \in Passphrase, k \in Key : StartInitialize(r, p, k)
  \/ InsertKeyRecord(r)
  \/ \E p \in Passphrase : StartUnlock(r, p)
  \/ Publish(r) \/ Lock(r)

Use(r) ==
  \/ \E n \in Secret : StartPut(r, n) \/ StartGet(r, n) \/ Delete(r, n)
  \/ Write(r) \/ Read(r)

Maintain(r) ==
  \/ \E p \in Passphrase, k \in Key : StartRotate(r, p, k)
  \/ Rotate(r)
  \/ \E current, next \in Passphrase : StartChange(r, current, next)
  \/ Rewrap(r)

Next == (\E r \in Request : Open(r) \/ Use(r) \/ Maintain(r) \/ Fails(r)) \/ Crash

Spec == Init /\ [][Next]_vars

-----------------------------------------------------------------------------
(* What the store promises, in terms of the rows: a secret can be read     *)
(* when somebody can open the record and it wraps the key that sealed the  *)
(* secret.                                                                 *)
Openers  == {p \in Passphrase : Opens(p)}
Readable == {n \in Stored : Openers # {} /\ secrets[n] = wrapped.key}

Promise ==
  INSTANCE Vault WITH stored <- Stored, readable <- Readable, opens <- Openers

(* Every step of the store, a rotation, a stop and a lost race among them, *)
(* is one of the vault's or changes nothing that can be seen of it: who    *)
(* opens it, what it lists and what can be read (store.go:1-19).           *)
KeepsVault == Promise!Spec

(* Every stored secret opens with the data key that the key record wraps:  *)
(* after any sequence of calls, and a stop at any point, a repository's    *)
(* password can still be had (store.go:393-395, "rather than half-rotated  *)
(* and unreadable"; store.go:89, "safe for concurrent use").               *)
SecretsStayReadable ==
  \A n \in Stored : secrets[n] = wrapped.key

(* The passphrase that was set last opens the key record.                  *)
MasterOpens == Initialized => Opens(master)

(* A key in memory is the one the record wraps, unless the call that       *)
(* changed the record is still on its way to publishing it: what Put seals *)
(* now can be opened after the next unlock.                                *)
LoadedKeyIsCurrent ==
  dek # NoKey => dek = wrapped.key \/ \E r \in Request : at[r] = "publishing"

=============================================================================
