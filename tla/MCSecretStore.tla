----------------------------- MODULE MCSecretStore -----------------------------
(***************************************************************************)
(* Small instances of SecretStore.                                         *)
(***************************************************************************)
EXTENDS SecretStore, TLC

CONSTANTS n1, n2, a, b, k1, k2, k3, r1, r2, r3, r4, r5

OneSecret      == {n1}
TwoSecrets     == {n1, n2}
TwoPassphrases == {a, b}
ThreeKeys      == {k1, k2, k3}
FiveCalls      == {r1, r2, r3, r4, r5}

CallSymmetry == Permutations(FiveCalls)
=============================================================================
