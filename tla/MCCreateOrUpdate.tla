--------------------------- MODULE MCCreateOrUpdate ---------------------------
(* Two callers that want different values of the object.                   *)
EXTENDS CreateOrUpdate, TLC

CONSTANTS c1, c2, v1, v2

MCCallers == {c1, c2}
MCVals == {v1, v2}
MCDesired == (c1 :> v1) @@ (c2 :> v2)

=============================================================================
