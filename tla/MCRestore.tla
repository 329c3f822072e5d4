------------------------------- MODULE MCRestore -------------------------------
(***************************************************************************)
(* Small instances of Restore.                                             *)
(***************************************************************************)
EXTENDS Restore, TLC

CONSTANTS s1, s2, d1, d2, r1, r2

TwoSnapshots == {s1, s2}
TwoDatabases == {d1, d2}
OneDatabase  == {d1}
TwoRuns      == {r1, r2}

Nothing      == {}

(* Two snapshots of two projects: a database each ...                      *)
OwnDatabase == s1 :> {d1} @@ s2 :> {d2}

(* ... or of one project: both carry an export of one database.            *)
MoreOfOne    == s1 :> {d1, d2} @@ s2 :> {d2}
OnlyInOne    == s1 :> {d1} @@ s2 :> {}
SameDatabase  == [s \in TwoSnapshots |-> OneDatabase]

(* One of them has a file in a volume that is called like the export.      *)
OneSnapshot == {s2}

RunSymmetry == Permutations(TwoRuns)
=============================================================================
