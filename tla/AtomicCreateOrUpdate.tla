------------------------- MODULE AtomicCreateOrUpdate -------------------------
(***************************************************************************)
(* What TypedCreateOrUpdate promises its callers, stated without the Get   *)
(* and the write it issues: each call takes effect at one instant, where   *)
(* it creates the object if it is absent, replaces it by the desired one   *)
(* if it differs (or alwaysUpdate is set), or finds it already as desired  *)
(* and writes nothing; or the call fails having written nothing.  Other   *)
(* writers replace the object at any time.                                 *)
(***************************************************************************)
CONSTANTS Callers, Vals, Desired

VARIABLES
    cur,        \* the stored object
    always,     \* always[c]: the alwaysUpdate argument of caller c
    status,     \* status[c]: "idle", "running" or "done"
    res, err    \* what caller c's call returned

vars == <<cur, always, status, res, err>>

Objects == [exists : BOOLEAN, val : Vals]
Results == {"none", "created", "updated"}
Errors == {"nil", "notfound", "alreadyexists", "conflict", "other"}

Init ==
    /\ cur \in Objects
    /\ always \in [Callers -> BOOLEAN]
    /\ status = [c \in Callers |-> "idle"]
    /\ res = [c \in Callers |-> "none"]
    /\ err = [c \in Callers |-> "nil"]

\* The caller invokes the operation.
Begin(c) ==
    /\ status[c] = "idle"
    /\ status' = [status EXCEPT ![c] = "running"]
    /\ UNCHANGED <<cur, always, res, err>>

\* The call of c takes effect and returns (r, e).
Finish(c, r, e) ==
    /\ status[c] = "running"
    /\ status' = [status EXCEPT ![c] = "done"]
    /\ res' = [res EXCEPT ![c] = r]
    /\ err' = [err EXCEPT ![c] = e]
    /\ UNCHANGED always

Created(c) ==
    /\ ~cur.exists
    /\ cur' = [exists |-> TRUE, val |-> Desired[c]]
    /\ Finish(c, "created", "nil")

Updated(c) ==
    /\ cur.exists
    /\ always[c] \/ cur.val # Desired[c]
    /\ cur' = [exists |-> TRUE, val |-> Desired[c]]
    /\ Finish(c, "updated", "nil")

Unchanged(c) ==
    /\ cur = [exists |-> TRUE, val |-> Desired[c]]
    /\ ~always[c]
    /\ Finish(c, "none", "nil")
    /\ UNCHANGED cur

Failed(c) ==
    /\ \E r \in Results, e \in Errors \ {"nil"} : Finish(c, r, e)
    /\ UNCHANGED cur

\* Another writer creates, replaces or deletes the object.
Interfere ==
    /\ cur' \in Objects \ {cur}
    /\ UNCHANGED <<always, status, res, err>>

Next ==
    \/ \E c \in Callers :
          Begin(c) \/ Created(c) \/ Updated(c) \/ Unchanged(c) \/ Failed(c)
    \/ Interfere

Spec == Init /\ [][Next]_vars

=============================================================================
