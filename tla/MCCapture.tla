------------------------------- MODULE MCCapture -------------------------------
(***************************************************************************)
(* A small instance of Capture: three sources, two with a SQLite database, *)
(* one of these in a directory that is not writable and read by a sqlite3  *)
(* that may be killed, and two database servers, one behind a proxy whose  *)
(* client goes on after errors.                                            *)
(***************************************************************************)
EXTENDS Capture, TLC

CONSTANTS s1, s2, s3, d1, d2, v1, v2, c1, c2, c3, r1, r2, f1, f2

ThreeSources  == {s1, s2, s3}
TwoDatabases  == {d1, d2}
TwoServices   == {v1, v2}
Awkward       == {v2}
TwoRuns       == {r1, r2}
Helpers       == {c1, c2, c3}
ReadOnly      == {s2}
Big           == {d2}
TwoFiles      == {f1, f2}
None          == {}

OneSource     == {s1}
OneDatabase   == {d1}
OneRun        == {r1}

FileEach == [v \in Service |-> IF v = v1 THEN f1 ELSE f2]
FileBoth == [v \in Service |-> f1]

InEach == [d \in Sqlite |-> IF d = d1 THEN s1 ELSE s2]

HelperSymmetry == Permutations(Helpers) \union Permutations(TwoRuns)
=============================================================================
