-------------------------------- MODULE Vault --------------------------------
(***************************************************************************)
(* What internal/secrets promises, without keys: one passphrase opens the  *)
(* vault, and with it every secret that was put in can be read until it is *)
(* deleted.  Only setting up and changing the passphrase change who opens  *)
(* it; a rotation of the data key, a lock, a stop and a call that fails    *)
(* change nothing.  SecretStore is shown to implement this.                *)
(***************************************************************************)
CONSTANTS Secret, Passphrase

VARIABLES
  stored,               \* secrets that the store lists
  readable,             \* those that can be had with a passphrase that opens it
  opens                 \* the passphrases that open it

vars == <<stored, readable, opens>>

Init ==
  /\ stored = {}
  /\ readable = {}
  /\ opens = {}

(* Once, and only of a vault that nobody can open yet.                     *)
SetUp(p) ==
  /\ opens = {}
  /\ opens' = {p}
  /\ UNCHANGED <<stored, readable>>

(* The passphrase that opened the vault no longer does.                    *)
Change(p) ==
  /\ opens # {}
  /\ opens' = {p}
  /\ UNCHANGED <<stored, readable>>

Put(n) ==
  /\ opens # {}
  /\ stored' = stored \union {n}
  /\ readable' = readable \union {n}
  /\ UNCHANGED opens

Delete(n) ==
  /\ stored' = stored \ {n}
  /\ readable' = readable \ {n}
  /\ UNCHANGED opens

Next ==
  \/ \E p \in Passphrase : SetUp(p) \/ Change(p)
  \/ \E n \in Secret : Put(n) \/ Delete(n)

Spec == Init /\ [][Next]_vars

=============================================================================
