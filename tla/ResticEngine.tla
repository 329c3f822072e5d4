----------------------------- MODULE ResticEngine -----------------------------
(***************************************************************************)
(* The restic engine: internal/backup.  Calls of one ResticEngine on one   *)
(* repository, side by side, each with a context of its own: the one       *)
(* version probe they share, the process each starts, the output read      *)
(* from it and the answer made of both.                                    *)
(*                                                                         *)
(* Abstractions:                                                           *)
(* - a snapshot is named by the call that wrote it; of the lines a process *)
(*   prints only the summary of a backup counts, of a list its length;     *)
(* - what fails is "refused" (password, repository not found), "locked" or *)
(*   "failed" (any other kind of error);                                   *)
(* - damage is there from the start or not at all, a snapshot is readable  *)
(*   or not from when it was written; the storage can be reached, so       *)
(*   nothing but damage and locks fails a check;                           *)
(* - nobody removes a lock that was left, as nothing in the program does;   *)
(* - the version of a binary that is there is read unless the probe is cut *)
(*   off, and starting a process fails only when its context is over.      *)
(* restic itself, external: a check wants the repository to itself, other  *)
(* work but init shares it, and a process that is killed leaves its lock.  *)
(***************************************************************************)
EXTENDS Naturals, FiniteSets

CONSTANTS
  Call,       \* calls of the engine ever made
  NoCall,
  Capacity    \* snapshots whose list fits into maxCapturedOutput

ASSUME NoCallAssumption == NoCall \notin Call
ASSUME CapacityAssumption == Capacity \in Nat

VARIABLES
  binary,     \* the restic that is installed: "there", "old" or "absent"
  damaged,    \* the repository's structure is not sound
  probe,      \* checkVersionOnce and versionErr
  at, job,    \* where each call stands, and what it was asked
  cancelled,  \* calls whose context is over
  proc,       \* the call's restic process
  output,     \* what it printed, and whether it was read
  locks,      \* calls whose process holds a lock of the repository, or left it
  snapshot,   \* the snapshot that each call wrote
  answer      \* what the call returned

given == <<binary, damaged>>
repository == <<locks, snapshot>>
vars  == <<given, probe, at, job, cancelled, proc, output, repository, answer>>

Op       == {"init", "snapshots", "backup", "restore", "check", "stats"}
Failure  == {"refused", "locked", "failed"}
Exited   == {"ok", "partial", "killed"} \union Failure
Readable == {"whole", "partial", "empty"}

TypeOK ==
  /\ binary \in {"there", "old", "absent"}
  /\ damaged \in BOOLEAN
  /\ probe \in {"none", "running", "ok", "missing", "unsupported"}
  /\ at \in [Call -> {"idle", "asking", "probing", "running", "done"}]
  /\ job \in [Call -> [op : Op, snapshot : Call \union {NoCall}]]
  /\ cancelled \subseteq Call
  /\ proc \in [Call -> {"none", "opening", "working", "committed"} \union Exited]
  /\ output \in [Call -> {"none", "written", "read", "lost", "whole", "cut"}]
  /\ locks \subseteq Call
  /\ snapshot \in [Call -> {"none", "unreadable"} \union Readable]
  /\ answer \in [Call -> {"none", "ok", "warned", "unsound", "cancelled", "missing",
                          "unsupported"} \union Exited]
  /\ \A c \in Call : at[c] = "done" <=> answer[c] # "none"
  /\ (\E c \in Call : at[c] = "probing") <=> probe = "running"

Init ==
  /\ binary \in {"there", "old", "absent"}
  /\ damaged \in BOOLEAN
  /\ probe = "none"
  /\ at = [c \in Call |-> "idle"]
  /\ job = [c \in Call |-> [op |-> "init", snapshot |-> NoCall]]
  /\ cancelled = {}
  /\ proc = [c \in Call |-> "none"]
  /\ output = [c \in Call |-> "none"]
  /\ locks = {}
  /\ snapshot = [c \in Call |-> "none"]
  /\ answer = [c \in Call |-> "none"]

-----------------------------------------------------------------------------
Goto(c, l) == at' = [at EXCEPT ![c] = l]

Become(c, state) == proc' = [proc EXCEPT ![c] = state]

Reported(s) == job[s].op = "backup" /\ answer[s] \in {"ok", "warned"}

(* Snapshots are restored and verified by the identifier a backup returned. *)
Begin(c, op, s) ==
  /\ at[c] = "idle"
  /\ IF op \in {"restore", "check"} THEN s \in Call /\ Reported(s) ELSE s = NoCall
  /\ job' = [job EXCEPT ![c] = [op |-> op, snapshot |-> s]]
  /\ Goto(c, "asking")
  /\ UNCHANGED <<given, probe, cancelled, proc, output, repository, answer>>

Cancel(c) ==
  /\ at[c] \notin {"idle", "done"}
  /\ c \notin cancelled
  /\ cancelled' = cancelled \union {c}
  /\ UNCHANGED <<given, probe, at, job, proc, output, repository, answer>>

-----------------------------------------------------------------------------
(* EnsureAvailable: sync.Once has the first caller probe, the others wait. *)

Probe(c) ==
  /\ at[c] = "asking"
  /\ probe = "none"
  /\ probe' = "running"
  /\ Goto(c, "probing")
  /\ UNCHANGED <<given, job, cancelled, proc, output, repository, answer>>

Verdicts == [there |-> "ok", old |-> "unsupported", absent |-> "missing"]

(* Fault: the probe ends without a result, and everyone waits for it.      *)
ProbedUnrecorded(c) ==
  /\ at[c] = "probing"
  /\ Goto(c, "asking")
  /\ UNCHANGED <<given, probe, job, cancelled, proc, output, repository, answer>>

Probed(c) ==
  /\ at[c] = "probing"
  /\ probe' = Verdicts[binary]
  /\ Goto(c, "asking")
  /\ UNCHANGED <<given, job, cancelled, proc, output, repository, answer>>

(* The probe runs under the caller's context.                              *)
ProbeCutOff(c) ==
  /\ at[c] = "probing"
  /\ c \in cancelled
  /\ binary # "absent"
  /\ probe' = "missing"
  /\ Goto(c, "asking")
  /\ UNCHANGED <<given, job, cancelled, proc, output, repository, answer>>

(* Fault: a verification does not tell a cancellation from damage.         *)
VerdictOnAny(c, kind) ==
  IF job[c].op \in {"check", "stats"} /\ kind \notin {"refused", "missing"}
    THEN "unsound" ELSE kind

(* What an error is to the caller: a verification reports all but four     *)
(* kinds of it as a repository, or a snapshot, that is not sound.          *)
Verdict(c, kind) ==
  IF job[c].op \in {"check", "stats"} /\ kind \notin {"refused", "missing", "cancelled"}
    THEN "unsound" ELSE kind

Answer(c, kind) ==
  /\ answer' = [answer EXCEPT ![c] = kind]
  /\ Goto(c, "done")

Unavailable(c) ==
  /\ at[c] = "asking"
  /\ probe \in {"missing", "unsupported"}
  /\ Answer(c, Verdict(c, probe))
  /\ UNCHANGED <<given, probe, job, cancelled, proc, output, repository>>

-----------------------------------------------------------------------------
(* run: cmd.Start, then the process on its own                             *)

StartProcess(c) ==
  /\ at[c] = "asking"
  /\ probe = "ok"
  /\ c \notin cancelled
  /\ Become(c, "opening")
  /\ output' = [output EXCEPT ![c] = "none"]
  /\ Goto(c, "running")
  /\ UNCHANGED <<given, probe, job, cancelled, repository, answer>>

StartCancelled(c) ==
  /\ at[c] = "asking"
  /\ probe = "ok"
  /\ c \in cancelled
  /\ Answer(c, Verdict(c, "cancelled"))
  /\ UNCHANGED <<given, probe, job, cancelled, proc, output, repository>>

InTheWay(c) ==
  IF job[c].op = "check" THEN locks \ {c}
                         ELSE {d \in locks \ {c} : job[d].op = "check"}

Open(c) ==
  /\ proc[c] = "opening"
  /\ job[c].op = "init" \/ InTheWay(c) = {}
  /\ locks' = IF job[c].op = "init" THEN locks ELSE locks \union {c}
  /\ Become(c, "working")
  /\ UNCHANGED <<given, probe, at, job, cancelled, output, snapshot, answer>>

Locked(c) ==
  /\ proc[c] = "opening"
  /\ job[c].op # "init" /\ InTheWay(c) # {}
  /\ Become(c, "locked")
  /\ UNCHANGED <<given, probe, at, job, cancelled, output, repository, answer>>

Refused(c) ==
  /\ proc[c] = "opening"
  /\ Become(c, "refused")
  /\ UNCHANGED <<given, probe, at, job, cancelled, output, repository, answer>>

(* The snapshot is in the repository, and the summary printed.             *)
Commit(c, kind) ==
  /\ proc[c] = "working"
  /\ job[c].op = "backup"
  /\ snapshot' = [snapshot EXCEPT ![c] = kind]
  /\ output' = [output EXCEPT ![c] = "written"]
  /\ Become(c, "committed")
  /\ UNCHANGED <<given, probe, at, job, cancelled, locks, answer>>

(* A process ends by itself: with the code for "some files could not be    *)
(* read" after a backup that misses files.                                 *)
BackupExits(c) ==
  /\ proc[c] = "committed"
  /\ Become(c, IF snapshot[c] = "partial" THEN "partial" ELSE "ok")
  /\ locks' = locks \ {c}
  /\ UNCHANGED <<given, probe, at, job, cancelled, output, snapshot, answer>>

InRepository == {s \in Call : snapshot[s] # "none"}

(* The captured list stays whole up to Capacity snapshots.                 *)
ListExits(c) ==
  /\ proc[c] = "working"
  /\ job[c].op = "snapshots"
  /\ Become(c, "ok")
  /\ output' = [output EXCEPT ![c] =
                  IF Cardinality(InRepository) <= Capacity THEN "whole" ELSE "cut"]
  /\ locks' = locks \ {c}
  /\ UNCHANGED <<given, probe, at, job, cancelled, snapshot, answer>>

ProofHolds(c) ==
  IF job[c].op = "check" THEN ~damaged ELSE snapshot[job[c].snapshot] \in Readable

(* check and stats end with what they found.                               *)
ProofExits(c) ==
  /\ proc[c] = "working"
  /\ job[c].op \in {"check", "stats"}
  /\ Become(c, IF ProofHolds(c) THEN "ok" ELSE "failed")
  /\ locks' = locks \ {c}
  /\ UNCHANGED <<given, probe, at, job, cancelled, output, snapshot, answer>>

PlainExits(c) ==
  /\ proc[c] = "working"
  /\ job[c].op \in {"init", "restore"}
  /\ job[c].op = "restore" => snapshot[job[c].snapshot] \in Readable
  /\ Become(c, "ok")
  /\ locks' = locks \ {c}
  /\ UNCHANGED <<given, probe, at, job, cancelled, output, snapshot, answer>>

Fails(c) ==
  /\ proc[c] \in {"working", "committed"}
  /\ job[c].op \notin {"check", "stats"}
  /\ Become(c, "failed")
  /\ locks' = locks \ {c}
  /\ UNCHANGED <<given, probe, at, job, cancelled, output, snapshot, answer>>

(* exec.CommandContext kills the process of a context that is over; it has *)
(* no time to take its lock away.                                          *)
Kill(c) ==
  /\ c \in cancelled
  /\ proc[c] \in {"opening", "working", "committed"}
  /\ Become(c, "killed")
  /\ UNCHANGED <<given, probe, at, job, cancelled, output, repository, answer>>

(* The goroutine that scans the pipe.                                      *)
ReadSummary(c) ==
  /\ at[c] = "running"
  /\ output[c] = "written"
  /\ output' = [output EXCEPT ![c] = "read"]
  /\ UNCHANGED <<given, probe, at, job, cancelled, proc, repository, answer>>

-----------------------------------------------------------------------------
(* cmd.Wait returns: it closes the pipe, whatever the scanner has not read *)
(* is gone.  Then the operation makes its answer.                          *)
Waited(c) ==
  /\ at[c] = "running"
  /\ proc[c] \in Exited
  /\ output' = [output EXCEPT ![c] = IF @ = "written" THEN "lost" ELSE @]

(* How run classifies the end of the process.  Wait prefers the process's  *)
(* own error; run looks at the context first.                              *)
ErrorOf(c) ==
  IF c \in cancelled THEN "cancelled" ELSE proc[c]

(* Fault: every exit code but 0 fails a backup.                            *)
SucceedsCleanly(c) == proc[c] = "ok"

Succeeds(c) ==
  \/ proc[c] = "ok"
  \/ proc[c] = "partial" /\ ErrorOf(c) = "partial"

WaitedFailure(c) ==
  /\ Waited(c)
  /\ ~Succeeds(c)
  /\ Answer(c, Verdict(c, ErrorOf(c)))
  /\ UNCHANGED <<given, probe, job, cancelled, proc, repository>>

(* The process ended well while its context was being cancelled.           *)
WaitedTooLong(c) ==
  /\ Waited(c)
  /\ Succeeds(c)
  /\ c \in cancelled
  /\ Answer(c, Verdict(c, "cancelled"))
  /\ UNCHANGED <<given, probe, job, cancelled, proc, repository>>

(* A backup without a summary, a list that does not decode, a snapshot     *)
(* that holds nothing.                                                     *)
ResultOf(c) ==
  CASE job[c].op = "backup"    -> IF output[c] # "read" THEN "failed"
                                  ELSE IF proc[c] = "ok" THEN "ok" ELSE "warned"
    [] job[c].op = "snapshots" -> IF output[c] = "whole" THEN "ok" ELSE "failed"
    [] job[c].op = "stats"     -> IF snapshot[job[c].snapshot] = "empty" THEN "unsound"
                                                                         ELSE "ok"
    [] OTHER                   -> "ok"

WaitedSuccess(c) ==
  /\ Waited(c)
  /\ Succeeds(c)
  /\ job[c].op # "check"
  /\ Answer(c, ResultOf(c))
  /\ UNCHANGED <<given, probe, job, cancelled, proc, repository>>

(* Fault: the structure is taken for the snapshot.                         *)
CheckedStructureOnly(c) ==
  /\ Waited(c)
  /\ Succeeds(c)
  /\ job[c].op = "check"
  /\ Answer(c, "ok")
  /\ UNCHANGED <<given, probe, job, cancelled, proc, repository>>

(* VerifySnapshot goes on from the structure to the snapshot itself.       *)
CheckedStructure(c) ==
  /\ Waited(c)
  /\ Succeeds(c)
  /\ job[c].op = "check"
  /\ job' = [job EXCEPT ![c].op = "stats"]
  /\ Become(c, "none")
  /\ Goto(c, "asking")
  /\ UNCHANGED <<given, probe, cancelled, repository, answer>>

-----------------------------------------------------------------------------
Ask(c) ==
  \/ \E op \in Op \ {"stats"}, s \in Call \union {NoCall} : Begin(c, op, s)
  \/ Cancel(c)
  \/ Probe(c) \/ Probed(c) \/ ProbeCutOff(c) \/ Unavailable(c)
  \/ StartProcess(c) \/ StartCancelled(c)

Process(c) ==
  \/ Open(c) \/ Locked(c) \/ Refused(c)
  \/ (\E kind \in {"unreadable"} \union Readable : Commit(c, kind))
  \/ BackupExits(c) \/ ListExits(c) \/ ProofExits(c) \/ PlainExits(c)
  \/ Fails(c) \/ Kill(c)

Wait(c) ==
  \/ ReadSummary(c)
  \/ WaitedFailure(c) \/ WaitedTooLong(c) \/ WaitedSuccess(c) \/ CheckedStructure(c)

Next == \E c \in Call : Ask(c) \/ Process(c) \/ Wait(c)

Spec == Init /\ [][Next]_vars

-----------------------------------------------------------------------------
(* What restic did is what the caller is told, unless the context was over:*)
(* a process that ended well, and whose output was read to its end and is  *)
(* whole, is a success; a snapshot that misses files comes with a warning  *)
(* ("losing that snapshot ... would be worse", restic.go:182), and only an *)
(* empty one is a failure of its verification.                             *)
SuccessIsReported ==
  \A c \in Call :
    at[c] = "done" /\ c \notin cancelled /\ output[c] \notin {"lost", "cut"} =>
      /\ proc[c] = "ok" =>
           \/ answer[c] = "ok"
           \/ job[c].op = "stats" /\ snapshot[job[c].snapshot] = "empty"
      /\ proc[c] = "partial" => answer[c] = "warned"

(* "report it as such regardless of how the process died" (restic.go:543): *)
(* a call whose process was killed answers that it was cancelled, and so   *)
(* does a verification, which calls almost every other error damage.       *)
StopIsNotFailure ==
  \A c \in Call : at[c] = "done" /\ proc[c] = "killed" => answer[c] = "cancelled"

(* "Until that is confirmed, a backup has only been reported as taken"     *)
(* (engine.go:215): a verification that passes had a sound repository and  *)
(* a snapshot in it that can be read and holds something.                  *)
VerifiedIsReadable ==
  \A c \in Call :
    job[c].op \in {"check", "stats"} /\ answer[c] = "ok" =>
      ~damaged /\ snapshot[job[c].snapshot] \in {"whole", "partial"}

(* "ErrKindEngineMissing means the restic binary is not available."        *)
(* (errors.go:38): violated after a first caller who was cancelled while   *)
(* it probed, by every later call until the program is restarted.          *)
MissingIsMissing ==
  \A c \in Call : answer[c] = "missing" /\ c \notin cancelled => binary = "absent"

(* "Losing that snapshot by treating it as a hard failure would be worse"  *)
(* (restic.go:182): violated when Wait closes the pipe before the summary  *)
(* was read from it.                                                       *)
NoSnapshotIsLost ==
  \A c \in Call :
    at[c] = "done" /\ c \notin cancelled /\ job[c].op = "backup"
                  /\ proc[c] \in {"ok", "partial"} => Reported(c)

(* "A check that finds damage exits non-zero.  That is a verification      *)
(* result ... except for problems that stopped the check from running at   *)
(* all" (restic.go:254-256): violated by a repository that another call    *)
(* has locked, or one that was killed.                                     *)
UnsoundIsDamage ==
  \A c \in Call :
    answer[c] = "unsound" =>
      damaged \/ snapshot[job[c].snapshot] \in {"unreadable", "empty"}
=============================================================================
