----------------------------- MODULE MCResticEngine -----------------------------
(***************************************************************************)
(* Small instances of ResticEngine.                                        *)
(***************************************************************************)
EXTENDS ResticEngine, TLC

CONSTANTS c1, c2, c3

ThreeCalls == {c1, c2, c3}

CallSymmetry == Permutations(ThreeCalls)
=============================================================================
