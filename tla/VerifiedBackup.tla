--------------------------- MODULE VerifiedBackup ---------------------------
(***************************************************************************)
(* What internal/backuprun promises, without the steps it takes: "one      *)
(* backup that either demonstrably happened or demonstrably did not"       *)
(* (run.go:1-9).  A run has one outcome for ever; a snapshot row exists    *)
(* only for a snapshot that was read back; a run is reported completed     *)
(* only when that row exists.  BackupRun is shown to implement this.       *)
(***************************************************************************)
CONSTANT Run            \* backup run identifiers

VARIABLES
  outcome,              \* what the history shows for each run
  readBack,             \* runs whose snapshot was read back from its repository
  usable                \* runs that have a snapshot row, the thing a restore needs

vars == <<outcome, readBack, usable>>

Unfinished == {"absent", "running"}
Successful == {"completed", "completed_with_warnings"}
Outcome    == Unfinished \union Successful \union {"failed", "cancelled"}

Init ==
  /\ outcome  = [r \in Run |-> "absent"]
  /\ readBack = {}
  /\ usable   = {}

Begin(r) ==
  /\ outcome[r] = "absent"
  /\ outcome' = [outcome EXCEPT ![r] = "running"]
  /\ UNCHANGED <<readBack, usable>>

ReadBack(r) ==
  /\ outcome[r] = "running"
  /\ readBack' = readBack \union {r}
  /\ UNCHANGED <<outcome, usable>>

(* The snapshot becomes restorable: only after it was read back, and only  *)
(* while the run that made it is still open.                               *)
Publish(r) ==
  /\ outcome[r] = "running"
  /\ r \in readBack
  /\ usable' = usable \union {r}
  /\ UNCHANGED <<outcome, readBack>>

Succeed(r) ==
  /\ outcome[r] = "running"
  /\ r \in usable
  /\ \E o \in Successful : outcome' = [outcome EXCEPT ![r] = o]
  /\ UNCHANGED <<readBack, usable>>

(* An operator's cancellation never hides a snapshot that was recorded.    *)
Cancel(r) ==
  /\ outcome[r] = "running"
  /\ r \notin usable
  /\ outcome' = [outcome EXCEPT ![r] = "cancelled"]
  /\ UNCHANGED <<readBack, usable>>

(* Any set of open runs can fail together: a restart closes all of them.   *)
Fail(S) ==
  /\ \A r \in S : outcome[r] = "running"
  /\ outcome' = [r \in Run |-> IF r \in S THEN "failed" ELSE outcome[r]]
  /\ UNCHANGED <<readBack, usable>>

Next ==
  \/ \E r \in Run : Begin(r) \/ ReadBack(r) \/ Publish(r) \/ Succeed(r) \/ Cancel(r)
  \/ \E S \in SUBSET Run : Fail(S)

Spec == Init /\ [][Next]_vars

=============================================================================
