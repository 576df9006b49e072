----------------------------- MODULE MCRetryLoop -----------------------------
(* RetryLoop on a three-valued object whose transform increments it and     *)
(* saturates at 2, so that both the no-op shortcut and real writes occur.  *)
EXTENDS RetryLoop

MCVals == {0, 1, 2}

MCTransform(v) == IF v = 2 THEN 2 ELSE v + 1

=============================================================================
