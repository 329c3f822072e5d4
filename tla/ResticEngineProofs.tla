--------------------------- MODULE ResticEngineProofs ---------------------------
(***************************************************************************)
(* Theorems about ResticEngine, for any number of calls side by side.      *)
(***************************************************************************)
EXTENDS ResticEngine, TLAPS

-----------------------------------------------------------------------------
(* The inductive invariant.                                                *)

(* sync.Once: the probe is made by one call.                               *)
ProbesAlone ==
  \A c, d \in Call : at[c] = "probing" /\ at[d] = "probing" => c = d

(* A process belongs to a call that waits for it, or that has its answer;  *)
(* nothing but the end of its context kills it.                            *)
ProcessOfCall ==
  \A c \in Call :
    /\ at[c] \in {"idle", "asking", "probing"} => proc[c] = "none"
    /\ at[c] = "running" => proc[c] # "none"
    /\ at[c] = "done" => proc[c] \in Exited \union {"none"}
    /\ proc[c] = "killed" => c \in cancelled

(* What is restored or verified was written by a call that is over.        *)
WorksOnReported ==
  \A c \in Call :
    job[c].op \in {"restore", "check", "stats"} =>
      job[c].snapshot \in Call /\ at[job[c].snapshot] = "done"

(* What a process has printed when it ends well.                           *)
Printed ==
  \A c \in Call :
    /\ proc[c] \in {"committed", "partial"} => job[c].op = "backup"
    /\ at[c] = "running" /\ job[c].op = "backup" /\ proc[c] \in {"committed", "ok", "partial"}
         => output[c] \in {"written", "read"}
    /\ at[c] = "running" /\ job[c].op = "snapshots" /\ proc[c] = "ok"
         => output[c] \in {"whole", "cut"}

(* How far a verification got is how much of it is proved.                 *)
ProvenSound ==
  \A c \in Call :
    /\ job[c].op = "check" /\ proc[c] = "ok" => ~damaged
    /\ job[c].op = "stats" => ~damaged
    /\ job[c].op = "stats" /\ proc[c] = "ok" => snapshot[job[c].snapshot] \in Readable

ReportInv == SuccessIsReported /\ StopIsNotFailure /\ VerifiedIsReadable

Inv == TypeOK /\ ProbesAlone /\ ProcessOfCall /\ WorksOnReported /\ Printed
         /\ ProvenSound /\ ReportInv

-----------------------------------------------------------------------------
(* Lemmas about the operators.                                             *)

Step(c) == Ask(c) \/ Process(c) \/ Wait(c)

Job     == [op : Op, snapshot : Call \union {NoCall}]
Answers == {"ok", "warned", "unsound", "cancelled", "missing", "unsupported"} \union Exited

LEMMA JobType == ASSUME TypeOK, NEW c \in Call
                 PROVE  /\ job \in [Call -> Job] /\ job[c] \in Job
                        /\ job[c].op \in Op /\ job[c].snapshot \in Call \union {NoCall}
  BY DEF TypeOK, Job

(* A verdict is an answer, and never "ok" where the error was none.        *)
LEMMA VerdictType ==
  ASSUME NEW c \in Call, NEW kind \in Answers
  PROVE  /\ Verdict(c, kind) \in Answers
         /\ Verdict(c, "cancelled") = "cancelled"
         /\ job[c].op \in {"check", "stats"} => Verdict(c, kind) # "ok"
  BY DEF Verdict, Answers, Exited, Failure

LEMMA ResultType == ASSUME NEW c \in Call PROVE ResultOf(c) \in Answers
<1>1. CASE job[c].op = "backup"
      BY <1>1 DEF ResultOf, Answers, Exited, Failure
<1>2. CASE job[c].op = "snapshots"
      BY <1>2 DEF ResultOf, Answers, Exited, Failure
<1>3. CASE job[c].op = "stats"
      BY <1>3 DEF ResultOf, Answers
<1>4. CASE job[c].op \notin {"backup", "snapshots", "stats"}
      BY <1>4 DEF ResultOf, Answers
<1> QED BY <1>1, <1>2, <1>3, <1>4

LEMMA ErrorType == ASSUME NEW c \in Call, proc[c] \in Exited PROVE ErrorOf(c) \in Answers
  BY DEF ErrorOf, Answers

(* A call that answers is over.                                            *)
LEMMA Answered ==
  ASSUME TypeOK, NEW c \in Call, NEW kind \in Answers, Answer(c, kind)
  PROVE  /\ at' \in [Call -> {"idle", "asking", "probing", "running", "done"}]
         /\ answer' \in [Call -> {"none"} \union Answers]
         /\ at'[c] = "done" /\ answer'[c] = kind /\ kind # "none"
         /\ \A d \in Call \ {c} : at'[d] = at[d] /\ answer'[d] = answer[d]
  BY DEF TypeOK, Answer, Goto, Answers, Exited, Failure

(* The four ways in which run ends a call with an answer.                  *)
TurnedAway(c) == Unavailable(c) \/ StartCancelled(c)
Returns(c) == WaitedFailure(c) \/ WaitedTooLong(c) \/ WaitedSuccess(c)

LEMMA EndsWith ==
  ASSUME TypeOK, NEW c \in Call, TurnedAway(c) \/ Returns(c)
  PROVE  \E kind \in Answers : Answer(c, kind)
<1>1. CASE Unavailable(c)
  <2>1. probe \in Answers /\ Answer(c, Verdict(c, probe))
        BY <1>1 DEF Unavailable, Answers
  <2> QED BY <2>1, VerdictType
<1>2. CASE StartCancelled(c) \/ WaitedTooLong(c)
  <2>1. "cancelled" \in Answers /\ Answer(c, Verdict(c, "cancelled"))
        BY <1>2 DEF StartCancelled, WaitedTooLong, Answers
  <2> QED BY <2>1, VerdictType
<1>3. CASE WaitedFailure(c)
  <2>1. ErrorOf(c) \in Answers /\ Answer(c, Verdict(c, ErrorOf(c)))
        BY <1>3, ErrorType DEF WaitedFailure, Waited
  <2> QED BY <2>1, VerdictType
<1>4. CASE WaitedSuccess(c)
      BY <1>4, ResultType DEF WaitedSuccess
<1> QED BY <1>1, <1>2, <1>3, <1>4 DEF TurnedAway, Returns

(* The calls of the engine do not meet but in the probe and the repository.*)
LEMMA OthersKept ==
  ASSUME TypeOK, NEW c \in Call, Step(c)
  PROVE  /\ \A d \in Call \ {c} :
              /\ at'[d] = at[d] /\ job'[d] = job[d] /\ proc'[d] = proc[d]
              /\ output'[d] = output[d] /\ answer'[d] = answer[d]
              /\ snapshot'[d] = snapshot[d]
              /\ d \in cancelled' <=> d \in cancelled
         /\ cancelled \subseteq cancelled'
         /\ damaged' = damaged /\ binary' = binary
<1> USE DEF TypeOK, Goto, Become, given, repository, Answer
<1>1. CASE Ask(c)
  <2>1. ASSUME NEW op \in Op \ {"stats"}, NEW s \in Call \union {NoCall}, Begin(c, op, s)
        PROVE  /\ \A d \in Call \ {c} : at'[d] = at[d] /\ job'[d] = job[d]
               /\ UNCHANGED <<cancelled, proc, output, snapshot, answer, damaged, binary>>
        BY <2>1 DEF Begin
  <2>2. CASE Cancel(c)
        BY <2>2 DEF Cancel
  <2>3. CASE Probe(c) \/ Probed(c) \/ ProbeCutOff(c)
        BY <2>3 DEF Probe, Probed, ProbeCutOff
  <2>4. CASE Unavailable(c) \/ StartProcess(c) \/ StartCancelled(c)
        BY <2>4 DEF Unavailable, StartProcess, StartCancelled
  <2> QED BY <1>1, <2>1, <2>2, <2>3, <2>4 DEF Ask
<1>2. CASE Process(c)
  <2>1. CASE Open(c) \/ Locked(c) \/ Refused(c) \/ BackupExits(c) \/ Kill(c)
        BY <2>1 DEF Open, Locked, Refused, BackupExits, Kill
  <2>2. CASE \E kind \in {"unreadable"} \union Readable : Commit(c, kind)
        BY <2>2 DEF Commit
  <2>3. CASE ListExits(c) \/ ProofExits(c) \/ PlainExits(c) \/ Fails(c)
        BY <2>3 DEF ListExits, ProofExits, PlainExits, Fails
  <2> QED BY <1>2, <2>1, <2>2, <2>3 DEF Process
<1>3. CASE Wait(c)
  <2>1. CASE ReadSummary(c) \/ CheckedStructure(c)
        BY <2>1 DEF ReadSummary, CheckedStructure, Waited
  <2>2. CASE WaitedFailure(c) \/ WaitedTooLong(c) \/ WaitedSuccess(c)
        BY <2>2 DEF WaitedFailure, WaitedTooLong, WaitedSuccess, Waited
  <2> QED BY <1>3, <2>1, <2>2 DEF Wait
<1> QED BY <1>1, <1>2, <1>3 DEF Step

-----------------------------------------------------------------------------
(* Type correctness.                                                       *)

LEMMA TypeAsk ==
  ASSUME TypeOK, ProbesAlone, NEW c \in Call, Ask(c)
  PROVE  TypeOK' /\ ProbesAlone'
<1> USE DEF TypeOK, ProbesAlone, given, repository
<1>1. ASSUME NEW op \in Op \ {"stats"}, NEW s \in Call \union {NoCall}, Begin(c, op, s)
      PROVE  TypeOK' /\ ProbesAlone'
  <2>1. job' \in [Call -> [op : Op, snapshot : Call \union {NoCall}]]
        BY <1>1 DEF Begin
  <2> QED BY <1>1, <2>1 DEF Begin, Goto
<1>2. CASE Cancel(c)
      BY <1>2 DEF Cancel
<1>3. CASE Probe(c)
      BY <1>3 DEF Probe, Goto
<1>4. CASE Probed(c)
  <2>1. Verdicts[binary] \in {"ok", "unsupported", "missing"}
        BY DEF Verdicts
  <2> QED BY <1>4, <2>1 DEF Probed, Goto
<1>5. CASE ProbeCutOff(c)
      BY <1>5 DEF ProbeCutOff, Goto
<1>6. CASE StartProcess(c)
      BY <1>6 DEF StartProcess, Goto, Become
<1>7. CASE TurnedAway(c)
  <2>1. PICK kind \in Answers : Answer(c, kind)
        BY <1>7, EndsWith
  <2>2. at[c] = "asking" /\ UNCHANGED <<given, probe, job, cancelled, proc, output, repository>>
        BY <1>7 DEF TurnedAway, Unavailable, StartCancelled
  <2>3. /\ at'[c] = "done" /\ answer'[c] # "none"
        /\ answer' \in [Call -> {"none", "ok", "warned", "unsound", "cancelled", "missing",
                                 "unsupported"} \union Exited]
        BY <2>1, Answered DEF Answers
  <2> QED BY <2>1, <2>2, <2>3, Answered
<1> QED BY <1>1, <1>2, <1>3, <1>4, <1>5, <1>6, <1>7 DEF Ask, TurnedAway

LEMMA TypeProcess ==
  ASSUME TypeOK, ProbesAlone, NEW c \in Call, Process(c)
  PROVE  TypeOK' /\ ProbesAlone'
<1> USE DEF TypeOK, ProbesAlone, given, repository, Become, Exited, Failure
<1>1. CASE Open(c)
      BY <1>1 DEF Open
<1>2. CASE Locked(c) \/ Refused(c) \/ Kill(c)
      BY <1>2 DEF Locked, Refused, Kill
<1>3. CASE \E kind \in {"unreadable"} \union Readable : Commit(c, kind)
      BY <1>3 DEF Commit
<1>4. CASE BackupExits(c)
      BY <1>4 DEF BackupExits
<1>5. CASE ListExits(c)
      BY <1>5 DEF ListExits
<1>6. CASE ProofExits(c)
      BY <1>6 DEF ProofExits
<1>7. CASE PlainExits(c) \/ Fails(c)
      BY <1>7 DEF PlainExits, Fails
<1> QED BY <1>1, <1>2, <1>3, <1>4, <1>5, <1>6, <1>7 DEF Process

LEMMA TypeWait ==
  ASSUME TypeOK, ProbesAlone, NEW c \in Call, Wait(c)
  PROVE  TypeOK' /\ ProbesAlone'
<1> USE DEF TypeOK, ProbesAlone, given, repository
<1>1. CASE ReadSummary(c)
      BY <1>1 DEF ReadSummary
<1>2. CASE CheckedStructure(c)
  <2>1. job' \in [Call -> [op : Op, snapshot : Call \union {NoCall}]]
        BY <1>2, JobType DEF CheckedStructure, Job, Op
  <2>2. output' \in [Call -> {"none", "written", "read", "lost", "whole", "cut"}]
        BY <1>2 DEF CheckedStructure, Waited
  <2> QED BY <1>2, <2>1, <2>2 DEF CheckedStructure, Waited, Goto, Become
<1>3. CASE Returns(c)
  <2>1. PICK kind \in Answers : Answer(c, kind)
        BY <1>3, EndsWith
  <2>2. at[c] = "running" /\ UNCHANGED <<given, probe, job, cancelled, proc, repository>>
        BY <1>3 DEF Returns, WaitedFailure, WaitedTooLong, WaitedSuccess, Waited
  <2>3. output' \in [Call -> {"none", "written", "read", "lost", "whole", "cut"}]
        BY <1>3 DEF Returns, WaitedFailure, WaitedTooLong, WaitedSuccess, Waited
  <2>4. /\ at'[c] = "done" /\ answer'[c] # "none"
        /\ answer' \in [Call -> {"none", "ok", "warned", "unsound", "cancelled", "missing",
                                 "unsupported"} \union Exited]
        BY <2>1, Answered DEF Answers
  <2> QED BY <2>1, <2>2, <2>3, <2>4, Answered
<1> QED BY <1>1, <1>2, <1>3 DEF Wait, Returns

LEMMA TypeStep ==
  ASSUME TypeOK, ProbesAlone, NEW c \in Call, Step(c)
  PROVE  TypeOK' /\ ProbesAlone'
  BY TypeAsk, TypeProcess, TypeWait DEF Step

-----------------------------------------------------------------------------
(* The parts of the invariant.                                             *)

(* What a process does and what becomes of its call.                       *)
LEMMA ProcessMoves ==
  ASSUME TypeOK, NEW c \in Call, Process(c)
  PROVE  /\ UNCHANGED <<at, job, answer, cancelled, damaged>>
         /\ proc[c] \in {"opening", "working", "committed"} /\ proc'[c] # "none"
         /\ proc'[c] = "killed" => c \in cancelled
         /\ proc'[c] = "committed" => job[c].op = "backup" /\ output'[c] = "written"
         /\ proc'[c] = "partial" => proc[c] = "committed" /\ output'[c] = output[c]
         /\ proc'[c] = "ok" =>
              \/ proc[c] = "committed" /\ output'[c] = output[c]
              \/ /\ proc[c] = "working"
                 /\ job[c].op = "snapshots" /\ output'[c] \in {"whole", "cut"}
              \/ /\ proc[c] = "working"
                 /\ job[c].op \in {"check", "stats"} /\ ProofHolds(c)
              \/ proc[c] = "working" /\ job[c].op \in {"init", "restore"}
         /\ \A s \in Call : snapshot'[s] = snapshot[s] \/ (s = c /\ proc[c] = "working")
<1> USE DEF TypeOK, given, repository, Become
<1>1. CASE Open(c) \/ Locked(c) \/ Refused(c) \/ Kill(c)
      BY <1>1 DEF Open, Locked, Refused, Kill
<1>2. CASE \E kind \in {"unreadable"} \union Readable : Commit(c, kind)
      BY <1>2 DEF Commit
<1>3. CASE BackupExits(c)
      BY <1>3 DEF BackupExits
<1>4. CASE ListExits(c)
      BY <1>4 DEF ListExits
<1>5. CASE ProofExits(c)
      BY <1>5 DEF ProofExits
<1>6. CASE PlainExits(c) \/ Fails(c)
      BY <1>6 DEF PlainExits, Fails
<1> QED BY <1>1, <1>2, <1>3, <1>4, <1>5, <1>6 DEF Process

LEMMA AskMoves ==
  ASSUME TypeOK, NEW c \in Call, Ask(c)
  PROVE  /\ UNCHANGED <<snapshot, damaged>>
         /\ \/ /\ at[c] = "idle" /\ at'[c] = "asking"
               /\ job'[c].op # "stats"
               /\ job'[c].op \in {"restore", "check"} =>
                    job'[c].snapshot \in Call /\ Reported(job'[c].snapshot)
               /\ UNCHANGED <<proc, output, answer>>
            \/ /\ at[c] \in {"asking", "probing", "running"}
               /\ at' = at \/ (at'[c] \in {"asking", "probing"} /\ at[c] # "running")
               /\ UNCHANGED <<proc, output, answer, job>>
            \/ /\ at[c] = "asking" /\ at'[c] = "running" /\ proc'[c] = "opening"
               /\ UNCHANGED <<answer, job>>
            \/ /\ at[c] = "asking" /\ at'[c] = "done" /\ TurnedAway(c)
               /\ UNCHANGED <<proc, output, job>>
<1> USE DEF TypeOK, given, repository, Goto
<1>1. ASSUME NEW op \in Op \ {"stats"}, NEW s \in Call \union {NoCall}, Begin(c, op, s)
      PROVE  /\ at[c] = "idle" /\ at'[c] = "asking"
             /\ job'[c].op # "stats"
             /\ job'[c].op \in {"restore", "check"} =>
                  job'[c].snapshot \in Call /\ Reported(job'[c].snapshot)
             /\ UNCHANGED <<proc, output, answer, snapshot, damaged>>
      BY <1>1 DEF Begin
<1>2. CASE Cancel(c) \/ Probe(c) \/ Probed(c) \/ ProbeCutOff(c)
      BY <1>2 DEF Cancel, Probe, Probed, ProbeCutOff
<1>3. CASE StartProcess(c)
      BY <1>3 DEF StartProcess, Become
<1>4. CASE TurnedAway(c)
      BY <1>4 DEF TurnedAway, Unavailable, StartCancelled, Answer
<1> QED BY <1>1, <1>2, <1>3, <1>4 DEF Ask, TurnedAway

LEMMA WaitMoves ==
  ASSUME TypeOK, NEW c \in Call, Wait(c)
  PROVE  /\ UNCHANGED <<snapshot, damaged, cancelled>>
         /\ at[c] = "running"
         /\ \/ /\ output[c] = "written" /\ output'[c] = "read"
               /\ UNCHANGED <<at, job, proc, answer>>
            \/ /\ at'[c] = "done" /\ Returns(c) /\ proc[c] \in Exited
               /\ output'[c] = IF output[c] = "written" THEN "lost" ELSE output[c]
               /\ UNCHANGED <<job, proc>>
            \/ /\ at'[c] = "asking" /\ proc'[c] = "none"
               /\ proc[c] \in {"ok", "partial"}
               /\ job[c].op = "check" /\ job'[c].op = "stats"
               /\ job'[c].snapshot = job[c].snapshot
               /\ answer' = answer
<1> USE DEF TypeOK, given, repository, Goto
<1>1. CASE ReadSummary(c)
      BY <1>1 DEF ReadSummary
<1>2. CASE CheckedStructure(c)
      BY <1>2 DEF CheckedStructure, Waited, Become, Succeeds
<1>3. CASE Returns(c)
      BY <1>3 DEF Returns, WaitedFailure, WaitedTooLong, WaitedSuccess, Waited, Answer
<1> QED BY <1>1, <1>2, <1>3 DEF Wait, Returns

LEMMA ProcessOfCallStep ==
  ASSUME TypeOK, ProcessOfCall, NEW c \in Call, Step(c)
  PROVE  ProcessOfCall'
<1>1. ASSUME NEW d \in Call, d # c
      PROVE  /\ at'[d] \in {"idle", "asking", "probing"} => proc'[d] = "none"
             /\ at'[d] = "running" => proc'[d] # "none"
             /\ at'[d] = "done" => proc'[d] \in Exited \union {"none"}
             /\ proc'[d] = "killed" => d \in cancelled'
      BY <1>1, OthersKept DEF ProcessOfCall
<1>2. /\ at'[c] \in {"idle", "asking", "probing"} => proc'[c] = "none"
      /\ at'[c] = "running" => proc'[c] # "none"
      /\ at'[c] = "done" => proc'[c] \in Exited \union {"none"}
      /\ proc'[c] = "killed" => c \in cancelled'
  <2>0. cancelled \subseteq cancelled'
        BY OthersKept
  <2>1. CASE Ask(c)
        BY <2>0, <2>1, AskMoves DEF ProcessOfCall
  <2>2. CASE Process(c)
    <3>1. at[c] = "running"
          BY <2>2, ProcessMoves DEF ProcessOfCall, TypeOK, Exited, Failure
    <3> QED BY <2>2, <3>1, ProcessMoves
  <2>3. CASE Wait(c)
        BY <2>3, WaitMoves DEF ProcessOfCall
  <2> QED BY <2>1, <2>2, <2>3 DEF Step
<1> QED BY <1>1, <1>2 DEF ProcessOfCall

(* A call that is over stays as it is.                                     *)
LEMMA DoneStays ==
  ASSUME TypeOK, ProcessOfCall, NEW c \in Call, Step(c), NEW d \in Call, at[d] = "done"
  PROVE  /\ at'[d] = "done" /\ d # c
         /\ job'[d] = job[d] /\ proc'[d] = proc[d] /\ output'[d] = output[d]
         /\ answer'[d] = answer[d] /\ snapshot'[d] = snapshot[d]
         /\ d \in cancelled' <=> d \in cancelled
<1>1. at[c] # "done"
  <2>1. CASE Ask(c)
        BY <2>1, AskMoves
  <2>2. CASE Process(c)
        BY <2>2, ProcessMoves DEF ProcessOfCall, Exited, Failure
  <2>3. CASE Wait(c)
        BY <2>3, WaitMoves
  <2> QED BY <2>1, <2>2, <2>3 DEF Step
<1> QED BY <1>1, OthersKept

LEMMA WorksOnReportedStep ==
  ASSUME TypeOK, ProcessOfCall, WorksOnReported, NEW c \in Call, Step(c)
  PROVE  WorksOnReported'
<1> SUFFICES ASSUME NEW d \in Call, job'[d].op \in {"restore", "check", "stats"}
             PROVE  job'[d].snapshot \in Call /\ at'[job'[d].snapshot] = "done"
    BY DEF WorksOnReported
<1>1. \/ job[d].op \in {"restore", "check", "stats"} /\ job'[d].snapshot = job[d].snapshot
      \/ job'[d].snapshot \in Call /\ Reported(job'[d].snapshot)
  <2>1. CASE d # c
        BY <2>1, OthersKept
  <2>2. CASE d = c /\ Ask(c)
        BY <2>2, AskMoves
  <2>3. CASE d = c /\ Process(c)
        BY <2>3, ProcessMoves
  <2>4. CASE d = c /\ Wait(c)
        BY <2>4, WaitMoves
  <2> QED BY <2>1, <2>2, <2>3, <2>4 DEF Step
<1>2. job'[d].snapshot \in Call /\ at[job'[d].snapshot] = "done"
      BY <1>1 DEF WorksOnReported, Reported, TypeOK
<1> QED BY <1>2, DoneStays

LEMMA PrintedStep ==
  ASSUME TypeOK, ProcessOfCall, Printed, NEW c \in Call, Step(c)
  PROVE  Printed'
<1>1. ASSUME NEW d \in Call, d # c
      PROVE  /\ proc'[d] \in {"committed", "partial"} => job'[d].op = "backup"
             /\ at'[d] = "running" /\ job'[d].op = "backup"
                  /\ proc'[d] \in {"committed", "ok", "partial"}
                  => output'[d] \in {"written", "read"}
             /\ at'[d] = "running" /\ job'[d].op = "snapshots" /\ proc'[d] = "ok"
                  => output'[d] \in {"whole", "cut"}
      BY <1>1, OthersKept DEF Printed
<1>2. /\ proc'[c] \in {"committed", "partial"} => job'[c].op = "backup"
      /\ at'[c] = "running" /\ job'[c].op = "backup"
           /\ proc'[c] \in {"committed", "ok", "partial"}
           => output'[c] \in {"written", "read"}
      /\ at'[c] = "running" /\ job'[c].op = "snapshots" /\ proc'[c] = "ok"
           => output'[c] \in {"whole", "cut"}
  <2>1. CASE Ask(c)
        BY <2>1, AskMoves DEF Printed, ProcessOfCall
  <2>2. CASE Process(c)
    <3>1. at[c] = "running"
          BY <2>2, ProcessMoves DEF ProcessOfCall, TypeOK, Exited, Failure
    <3> QED BY <2>2, <3>1, ProcessMoves DEF Printed
  <2>3. CASE Wait(c)
        BY <2>3, WaitMoves DEF Printed
  <2> QED BY <2>1, <2>2, <2>3 DEF Step
<1> QED BY <1>1, <1>2, Zenon DEF Printed

LEMMA ProvenSoundStep ==
  ASSUME TypeOK, ProcessOfCall, WorksOnReported, Printed, ProvenSound, NEW c \in Call, Step(c)
  PROVE  ProvenSound'
<1>0. damaged' = damaged
      BY OthersKept
<1>1. ASSUME NEW d \in Call, d # c
      PROVE  /\ job'[d].op = "check" /\ proc'[d] = "ok" => ~damaged'
             /\ job'[d].op = "stats" => ~damaged'
             /\ job'[d].op = "stats" /\ proc'[d] = "ok" => snapshot'[job'[d].snapshot] \in Readable
  <2>1. job'[d] = job[d] /\ proc'[d] = proc[d]
        BY <1>1, OthersKept
  <2>2. job[d].op = "stats" => snapshot'[job[d].snapshot] = snapshot[job[d].snapshot]
        BY DoneStays DEF WorksOnReported
  <2> QED BY <1>0, <2>1, <2>2 DEF ProvenSound
<1>2. /\ job'[c].op = "check" /\ proc'[c] = "ok" => ~damaged'
      /\ job'[c].op = "stats" => ~damaged'
      /\ job'[c].op = "stats" /\ proc'[c] = "ok" => snapshot'[job'[c].snapshot] \in Readable
  <2>1. CASE Ask(c)
        BY <1>0, <2>1, AskMoves DEF ProvenSound, ProcessOfCall
  <2>2. CASE Process(c)
    <3>1. job[c].op = "stats" => snapshot'[job[c].snapshot] = snapshot[job[c].snapshot]
          BY DoneStays DEF WorksOnReported
    <3>2. proc'[c] = "ok" /\ job[c].op \in {"check", "stats"} => ProofHolds(c)
          BY <2>2, ProcessMoves DEF Printed
    <3> QED BY <1>0, <2>2, <3>1, <3>2, ProcessMoves DEF ProvenSound, ProofHolds
  <2>3. CASE Wait(c)
    <3>1. job[c].op = "check" => proc[c] # "partial"
          BY DEF Printed
    <3> QED BY <1>0, <2>3, <3>1, WaitMoves DEF ProvenSound
  <2> QED BY <2>1, <2>2, <2>3 DEF Step
<1> QED BY <1>1, <1>2, Zenon DEF ProvenSound

LEMMA StopStep ==
  ASSUME TypeOK, ProcessOfCall, StopIsNotFailure, NEW c \in Call, Step(c)
  PROVE  StopIsNotFailure'
<1> SUFFICES ASSUME NEW d \in Call, at'[d] = "done", proc'[d] = "killed"
             PROVE  answer'[d] = "cancelled"
    BY DEF StopIsNotFailure
<1>1. CASE at[d] = "done"
      BY <1>1, DoneStays DEF StopIsNotFailure
<1>2. CASE at[d] # "done"
  <2>1. d = c
        BY <1>2, OthersKept
  <2>2. ~Process(c)
        BY <1>2, <2>1, ProcessMoves
  <2>3. ~Ask(c)
        BY <1>2, <2>1, AskMoves DEF ProcessOfCall
  <2>4. Returns(c) /\ proc[c] = "killed"
        BY <1>2, <2>1, <2>2, <2>3, WaitMoves DEF Step
  <2>5. c \in cancelled /\ ~Succeeds(c)
        BY <2>4 DEF ProcessOfCall, Succeeds
  <2>6. Answer(c, Verdict(c, "cancelled"))
        BY <2>4, <2>5 DEF Returns, WaitedFailure, WaitedTooLong, WaitedSuccess, ErrorOf
  <2> QED BY <2>1, <2>6 DEF Answer, Verdict, TypeOK
<1> QED BY <1>1, <1>2

(* An answer "ok" of a verification comes from both of its halves.         *)
LEMMA VerifiedStep ==
  ASSUME TypeOK, ProcessOfCall, WorksOnReported, Printed, ProvenSound, VerifiedIsReadable,
         NEW c \in Call, Step(c)
  PROVE  VerifiedIsReadable'
<1> SUFFICES ASSUME NEW d \in Call, job'[d].op \in {"check", "stats"}, answer'[d] = "ok"
             PROVE  ~damaged' /\ snapshot'[job'[d].snapshot] \in {"whole", "partial"}
    BY DEF VerifiedIsReadable
<1>0. damaged' = damaged
      BY OthersKept
<1>1. at'[d] = "done"
      BY TypeAsk, TypeProcess, TypeWait, OthersKept, AskMoves, ProcessMoves, WaitMoves, EndsWith,
         Answered DEF Step, TypeOK
<1>2. CASE at[d] = "done"
  <2>1. job'[d] = job[d] /\ answer'[d] = answer[d]
        BY <1>2, DoneStays
  <2>2. snapshot'[job[d].snapshot] = snapshot[job[d].snapshot]
        BY <2>1, DoneStays DEF WorksOnReported
  <2> QED BY <1>0, <2>1, <2>2 DEF VerifiedIsReadable
<1>3. CASE at[d] # "done"
  <2>1. d = c
        BY <1>1, <1>3, OthersKept
  <2>2. TurnedAway(c) \/ Returns(c)
        BY <1>1, <1>3, <2>1, AskMoves, ProcessMoves, WaitMoves DEF Step
  <2>3. job' = job /\ snapshot' = snapshot
        BY <2>2 DEF TurnedAway, Returns, Unavailable, StartCancelled, WaitedFailure,
           WaitedTooLong, WaitedSuccess, repository
  <2>4. WaitedSuccess(c)
    <3>1. ASSUME Unavailable(c) PROVE FALSE
      <4>1. Answer(c, Verdict(c, probe)) /\ probe \in Answers
            BY <3>1 DEF Unavailable, Answers
      <4> QED BY <2>1, <2>3, <4>1, VerdictType DEF Answer, TypeOK
    <3>2. ASSUME StartCancelled(c) \/ WaitedTooLong(c) PROVE FALSE
      <4>1. Answer(c, Verdict(c, "cancelled"))
            BY <3>2 DEF StartCancelled, WaitedTooLong
      <4> QED BY <2>1, <4>1 DEF Answer, Verdict, TypeOK
    <3>3. ASSUME WaitedFailure(c) PROVE FALSE
      <4>1. Answer(c, Verdict(c, ErrorOf(c))) /\ ErrorOf(c) \in Answers
            BY <3>3, ErrorType DEF WaitedFailure, Waited
      <4> QED BY <2>1, <2>3, <4>1, VerdictType DEF Answer, TypeOK
    <3> QED BY <2>2, <3>1, <3>2, <3>3 DEF TurnedAway, Returns
  <2>5. job[c].op = "stats" /\ proc[c] = "ok"
        BY <2>1, <2>3, <2>4 DEF WaitedSuccess, Succeeds, Printed
  <2>6. ResultOf(c) = "ok"
        BY <2>1, <2>4 DEF WaitedSuccess, Answer, TypeOK
  <2>7. snapshot[job[c].snapshot] # "empty"
        BY <2>5, <2>6 DEF ResultOf
  <2> QED BY <1>0, <2>1, <2>3, <2>5, <2>7 DEF ProvenSound, Readable
<1> QED BY <1>2, <1>3

LEMMA SuccessStep ==
  ASSUME TypeOK, ProcessOfCall, WorksOnReported, Printed, ProvenSound, SuccessIsReported,
         NEW c \in Call, Step(c)
  PROVE  SuccessIsReported'
<1> SUFFICES ASSUME NEW d \in Call, at'[d] = "done", d \notin cancelled',
                    output'[d] \notin {"lost", "cut"}
             PROVE  /\ proc'[d] = "ok" =>
                         \/ answer'[d] = "ok"
                         \/ job'[d].op = "stats" /\ snapshot'[job'[d].snapshot] = "empty"
                    /\ proc'[d] = "partial" => answer'[d] = "warned"
    BY DEF SuccessIsReported
<1>1. CASE at[d] = "done"
  <2>1. /\ job'[d] = job[d] /\ answer'[d] = answer[d] /\ proc'[d] = proc[d]
        /\ output'[d] = output[d] /\ d \notin cancelled
        BY <1>1, DoneStays
  <2>2. job[d].op = "stats" => snapshot'[job[d].snapshot] = snapshot[job[d].snapshot]
        BY DoneStays DEF WorksOnReported
  <2> QED BY <1>1, <2>1, <2>2 DEF SuccessIsReported
<1>2. CASE at[d] # "done"
  <2>1. d = c /\ c \notin cancelled
        BY <1>2, OthersKept
  <2>2. TurnedAway(c) \/ Returns(c)
        BY <1>2, <2>1, AskMoves, ProcessMoves, WaitMoves DEF Step
  <2>3. /\ job' = job /\ snapshot' = snapshot /\ proc' = proc
        BY <2>2 DEF TurnedAway, Returns, Unavailable, StartCancelled, WaitedFailure,
           WaitedTooLong, WaitedSuccess, repository
  <2>4. ASSUME proc[c] \in {"ok", "partial"}
        PROVE  /\ WaitedSuccess(c) /\ at[c] = "running"
               /\ output[c] # "written" /\ output'[c] = output[c]
    <3>1. at[c] = "running" /\ Waited(c) /\ Returns(c)
      <4>1. ~TurnedAway(c)
            BY <2>4 DEF TurnedAway, Unavailable, StartCancelled, ProcessOfCall
      <4> QED BY <2>2, <4>1 DEF Returns, WaitedFailure, WaitedTooLong, WaitedSuccess, Waited
    <3>2. Succeeds(c)
          BY <2>1, <2>4 DEF Succeeds, ErrorOf
    <3>3. WaitedSuccess(c)
          BY <2>1, <3>1, <3>2 DEF Returns, WaitedFailure, WaitedTooLong
    <3>4. output'[c] = IF output[c] = "written" THEN "lost" ELSE output[c]
          BY <3>1 DEF Waited, TypeOK
    <3> QED BY <2>1, <3>1, <3>3, <3>4
  <2>5. ASSUME proc[c] \in {"ok", "partial"} PROVE answer'[c] = ResultOf(c)
        BY <2>4, <2>5 DEF WaitedSuccess, Answer, TypeOK
  <2>6. ASSUME proc[c] = "partial" PROVE ResultOf(c) = "warned"
    <3>1. job[c].op = "backup" /\ output[c] = "read"
          BY <2>4, <2>6 DEF Printed
    <3> QED BY <2>6, <3>1 DEF ResultOf
  <2>7. ASSUME proc[c] = "ok"
        PROVE  ResultOf(c) = "ok" \/ (job[c].op = "stats" /\ snapshot[job[c].snapshot] = "empty")
    <3>1. CASE job[c].op = "backup"
      <4>1. output[c] = "read"
            BY <2>4, <2>7, <3>1 DEF Printed
      <4> QED BY <2>7, <3>1, <4>1 DEF ResultOf
    <3>2. CASE job[c].op = "snapshots"
      <4>1. output[c] = "whole"
            BY <2>1, <2>4, <2>7, <3>2 DEF Printed
      <4> QED BY <3>2, <4>1 DEF ResultOf
    <3>3. CASE job[c].op = "stats"
          BY <3>3 DEF ResultOf
    <3>4. CASE job[c].op \notin {"backup", "snapshots", "stats"}
          BY <3>4 DEF ResultOf
    <3> QED BY <3>1, <3>2, <3>3, <3>4
  <2> QED BY <2>1, <2>3, <2>5, <2>6, <2>7
<1> QED BY <1>1, <1>2

-----------------------------------------------------------------------------
(* The invariant.                                                          *)

LEMMA InvInit == Init => Inv
<1> SUFFICES ASSUME Init PROVE Inv
    OBVIOUS
<1>1. \A c \in Call : /\ at[c] = "idle" /\ job[c] = [op |-> "init", snapshot |-> NoCall]
                      /\ proc[c] = "none" /\ output[c] = "none" /\ answer[c] = "none"
      BY DEF Init
<1>2. job \in [Call -> [op : Op, snapshot : Call \union {NoCall}]]
      BY DEF Init, Op
<1>3. TypeOK
      BY <1>1, <1>2 DEF Init, TypeOK
<1>4. ProbesAlone /\ ProcessOfCall /\ WorksOnReported /\ Printed /\ ProvenSound
      BY <1>1 DEF ProbesAlone, ProcessOfCall, WorksOnReported, Printed, ProvenSound
<1>5. ReportInv
      BY <1>1 DEF ReportInv, SuccessIsReported, StopIsNotFailure, VerifiedIsReadable
<1> QED BY <1>3, <1>4, <1>5 DEF Inv

LEMMA InvNext == Inv /\ [Next]_vars => Inv'
<1> SUFFICES ASSUME Inv, [Next]_vars PROVE Inv'
    OBVIOUS
<1>1. ASSUME NEW c \in Call, Ask(c) \/ Process(c) \/ Wait(c) PROVE Inv'
  <2>0. Step(c)
        BY <1>1 DEF Step
  <2>1. TypeOK' /\ ProbesAlone'
        BY <2>0, TypeStep DEF Inv
  <2>2. ProcessOfCall' /\ WorksOnReported' /\ Printed' /\ ProvenSound'
        BY <2>0, ProcessOfCallStep, WorksOnReportedStep, PrintedStep, ProvenSoundStep DEF Inv
  <2>3. StopIsNotFailure'
        BY <2>0, StopStep DEF Inv, ReportInv
  <2>4. VerifiedIsReadable'
        BY <2>0, VerifiedStep DEF Inv, ReportInv
  <2>5. SuccessIsReported'
        BY <2>0, SuccessStep DEF Inv, ReportInv
  <2> QED BY <2>1, <2>2, <2>3, <2>4, <2>5 DEF Inv, ReportInv
<1>2. CASE UNCHANGED vars
      BY <1>2 DEF vars, given, repository, Inv, TypeOK, ProbesAlone, ProcessOfCall,
         WorksOnReported, Printed, ProvenSound, ReportInv, SuccessIsReported, StopIsNotFailure,
         VerifiedIsReadable
<1> QED BY <1>1, <1>2 DEF Next

(* Inv holds in every state the calls of an engine can reach.              *)
THEOREM Invariance == Spec => []Inv
  BY InvInit, InvNext, PTL DEF Spec

(* A call has an answer when it is over and not before, and one call at    *)
(* most probes for the binary (EnsureAvailable).                           *)
THEOREM TypeCorrect == Spec => []TypeOK
<1>1. Inv => TypeOK
      BY DEF Inv
<1> QED BY <1>1, Invariance, PTL

(* A process that did its work and whose output was read is never reported *)
(* as a failure, unless the context was over (run, Backup, Snapshots,      *)
(* VerifySnapshot).                                                        *)
THEOREM SuccessesReported == Spec => []SuccessIsReported
<1>1. Inv => SuccessIsReported
      BY DEF Inv, ReportInv
<1> QED BY <1>1, Invariance, PTL

(* A call whose process was killed answers that it was cancelled, and      *)
(* nothing else (run, structureVerdict).                                   *)
THEOREM StopsReported == Spec => []StopIsNotFailure
<1>1. Inv => StopIsNotFailure
      BY DEF Inv, ReportInv
<1> QED BY <1>1, Invariance, PTL

(* A verification that passes proved the repository and the snapshot it    *)
(* was asked for, whatever other calls did meanwhile (VerifySnapshot).     *)
THEOREM VerificationsMean == Spec => []VerifiedIsReadable
<1>1. Inv => VerifiedIsReadable
      BY DEF Inv, ReportInv
<1> QED BY <1>1, Invariance, PTL
=============================================================================
