---------------------------- MODULE MCRepositories ----------------------------
(***************************************************************************)
(* Small instances of Repositories.                                        *)
(***************************************************************************)
EXTENDS Repositories, TLC

CONSTANTS i1, i2, fresh, shared, a, r1, r2, r3, r4

(* Two repositories, which may be given the same location ...              *)
TwoRepositories == {i1, i2}

(* ... one location that does not exist yet, one that holds other files.   *)
TwoLocations == {fresh, shared}
SharedOne    == {shared}
Nowhere      == {}

OnePassword  == {a}
FourRequests == {r1, r2, r3, r4}

RequestSymmetry == Permutations(FourRequests)
=============================================================================
