----------------------------- MODULE MCBackupRun -----------------------------
(***************************************************************************)
(* Small instances of BackupRun.                                           *)
(***************************************************************************)
EXTENDS BackupRun, TLC

CONSTANTS p1, p2, q1, s1, r1, r2

(* One project, backed up twice, or two that are backed up side by side,   *)
(* each with a volume; a database is exported for the first.               *)
OneProject  == {p1}
TwoProjects == {p1, p2}
OneSource   == {s1}

OneRepo == {q1}
TwoRuns == {r1, r2}
Nothing == {}

(* Two projects with names of their own, each in its own directory.        *)
DistinctNames == p1 :> "app" @@ p2 :> "web"

(* A second project that a scan finds while the first is backed up.        *)
JustOne == {p1}

OwnSegment == [n \in {"app", "web"} |-> n]

RunSymmetry == Permutations(TwoRuns)
=============================================================================
