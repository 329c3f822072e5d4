---------------------------- MODULE RestoreReport ----------------------------
(***************************************************************************)
(* What internal/restore promises to whoever reads its history, without    *)
(* goroutines, reservations and containers: a restore is reported as       *)
(* completed only with everything extracted, its directory then stays      *)
(* unless it was the working copy of a database restore, "cancelled        *)
(* before the database was touched" is said of no other, and no report is  *)
(* ever taken back.  Restore is shown to implement this.                   *)
(***************************************************************************)
CONSTANT Run            \* restores

VARIABLES
  outcome, told,        \* what the history shows: the end, and what it says of it
  extracted,            \* restores whose directory holds all of it
  touched               \* restores that wrote into a database

vars == <<outcome, told, extracted, touched>>

Init ==
  /\ outcome = [r \in Run |-> "absent"]
  /\ told = [r \in Run |-> "none"]
  /\ extracted = {}
  /\ touched = {}

Begin(r) ==
  /\ outcome[r] = "absent"
  /\ outcome' = [outcome EXCEPT ![r] = "running"]
  /\ UNCHANGED <<told, extracted, touched>>

Extract(r) ==
  /\ outcome[r] = "running"
  /\ extracted' = extracted \union {r}
  /\ UNCHANGED <<outcome, told, touched>>

(* A database is written only from an export that is all there.            *)
Touch(r) ==
  /\ outcome[r] = "running"
  /\ r \in extracted
  /\ touched' = touched \union {r}
  /\ UNCHANGED <<outcome, told, extracted>>

Complete(r) ==
  /\ outcome[r] = "running"
  /\ r \in extracted
  /\ outcome' = [outcome EXCEPT ![r] = "completed"]
  /\ UNCHANGED <<told, extracted, touched>>

Cancel(r) ==
  /\ outcome[r] = "running"
  /\ outcome' = [outcome EXCEPT ![r] = "cancelled"]
  /\ \E why \in {"untouched", "partial", "failed"} :
       /\ why = "untouched" => r \notin touched
       /\ told' = [told EXCEPT ![r] = why]
  /\ UNCHANGED <<extracted, touched>>

(* Any set of open restores can fail together: a restart closes all.       *)
Fail(S, why) ==
  /\ \A r \in S : outcome[r] = "running"
  /\ outcome' = [r \in Run |-> IF r \in S THEN "failed" ELSE outcome[r]]
  /\ told' = [r \in Run |-> IF r \in S THEN why ELSE told[r]]
  /\ UNCHANGED <<extracted, touched>>

(* What a completed restore extracted for an operator is not taken away.   *)
Discard(r) ==
  /\ outcome[r] = "completed" => r \in touched
  /\ extracted' = extracted \ {r}
  /\ UNCHANGED <<outcome, told, touched>>

Next ==
  \/ \E r \in Run : Begin(r) \/ Extract(r) \/ Touch(r) \/ Complete(r) \/ Cancel(r) \/ Discard(r)
  \/ \E S \in SUBSET Run, why \in {"failed", "interrupted"} : Fail(S, why)

Spec == Init /\ [][Next]_vars

=============================================================================
