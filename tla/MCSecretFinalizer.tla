------------------------- MODULE MCSecretFinalizer -------------------------
(* Model-checking instance of SecretFinalizer: two managed resources, the  *)
(* filter's class and one other class, and RetrySteps and MaxRV small      *)
(* enough for TLC yet large enough for a conflict retry and its exhaustion.*)
EXTENDS SecretFinalizer, TLC

CONSTANTS m1, m2

MCMRs == {m1, m2}
MCSymmetry == Permutations(MCMRs)
=============================================================================
