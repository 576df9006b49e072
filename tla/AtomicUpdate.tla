----------------------------- MODULE AtomicUpdate -----------------------------
(***************************************************************************)
(* What TryUpdate promises its caller, stated without the retry loop: the *)
(* call either applies the transform to the stored object at one instant   *)
(* (with no write when the transform changes nothing) and reports success,*)
(* or reports a failure having written nothing.  Other writers change the  *)
(* object at any time, each write bumping its resourceVersion.             *)
(***************************************************************************)
EXTENDS Naturals

CONSTANTS Vals, Transform(_), MaxRV

VARIABLES
    val,        \* the stored object
    ver,        \* its resourceVersion
    status      \* the call: "running", "ok" or "failed"

vars == <<val, ver, status>>

Init == val \in Vals /\ ver = 0 /\ status = "running"

\* The transform is applied to the current object in one step.
Apply ==
    /\ status = "running"
    /\ val' = Transform(val)
    /\ ver' = IF Transform(val) = val THEN ver ELSE ver + 1
    /\ status' = "ok"

\* The call gives up without writing.
Abort ==
    /\ status = "running"
    /\ status' = "failed"
    /\ UNCHANGED <<val, ver>>

\* Another writer replaces the object.
Interfere ==
    /\ ver < MaxRV
    /\ val' \in Vals
    /\ ver' = ver + 1
    /\ UNCHANGED status

Next == Apply \/ Abort \/ Interfere

Spec == Init /\ [][Next]_vars

=============================================================================
