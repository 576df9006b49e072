--------------------------- MODULE SecretFinalizer ---------------------------
(***************************************************************************)
(* The secret reconciler of the managed-resources controller together with *)
(* the finalizer helpers EnsureFinalizer / DeleteFinalizer of              *)
(* pkg/controller/utils/utils.go, running against a versioned object       *)
(* store that other actors write concurrently.                             *)
(*                                                                         *)
(* One secret identity is modelled: the work queue serialises reconciles   *)
(* of one key, and distinct keys share no state.  The reconciler is one    *)
(* process whose program counter `pc` names the store call it issues next; *)
(* every store call is one atomic step, so other actors interleave between *)
(* the Get, the List and the Patch exactly as they can in the code.        *)
(***************************************************************************)
EXTENDS Naturals

CONSTANTS
    MRs,            \* managed resources in the secret's namespace
    Classes,        \* class values a managed resource may carry
    FilterClass,    \* ClassFilter.ResourceClass() of this controller
    NoClass,        \* a nil Spec.Class pointer
    Ours,           \* ClassFilter.FinalizerName()
    Other,          \* the finalizer of some other controller
    RetrySteps,     \* retry.DefaultRetry.Steps of RetryOnConflict
    MaxRV           \* bound on resource versions (the store's write counter)

ASSUME ConstantsAssumption ==
    /\ FilterClass \in Classes
    /\ NoClass \notin Classes
    /\ Ours # Other
    /\ RetrySteps \in Nat \ {0}
    /\ MaxRV \in Nat

Fins == {Ours, Other}
ClassVal == Classes \cup {NoClass}

VARIABLES
    \* the store
    secretExists,         \* the secret object exists
    finalizers,     \* its metadata.finalizers
    rv,             \* its resourceVersion (the store's global counter)
    deleting,       \* its deletionTimestamp is set
    mrClass,        \* Spec.Class of every managed resource
    mrRefs,         \* Spec.SecretRefs of the managed resource names the secret
    \* the work queue
    queued,         \* the secret's key is in the work queue
    \* the reconciler
    pc,             \* next store call of the reconcile in progress
    objFins,        \* finalizers of the in-memory secret object
    objRV,          \* resourceVersion of the in-memory secret object
    tries,          \* attempts made by the running RetryOnConflict
    lastErr,        \* kind of error the last finished reconcile returned
    \* the other controller
    otherHolds      \* the other controller has set its finalizer and not removed it

storeVars == <<secretExists, finalizers, rv, deleting, mrClass, mrRefs>>
recVars == <<pc, objFins, objRV, tries, lastErr>>
vars == <<storeVars, queued, recVars, otherHolds>>

PC == {"idle", "get", "list", "ensure_get", "ensure_patch",
       "delete_get", "delete_patch"}

\* The store calls a reconcile can be waiting on.
StoreCalls == PC \ {"idle"}

\* Kinds of errors a reconcile returns ("none" for success).
ErrKinds == {"none", "notfound", "conflict", "invalid", "other"}

TypeOK ==
    /\ secretExists \in BOOLEAN
    /\ finalizers \in SUBSET Fins
    /\ rv \in 0..MaxRV
    /\ deleting \in BOOLEAN
    /\ mrClass \in [MRs -> ClassVal]
    /\ mrRefs \in [MRs -> BOOLEAN]
    /\ queued \in BOOLEAN
    /\ pc \in PC
    /\ objFins \in SUBSET Fins
    /\ objRV \in 0..MaxRV
    /\ tries \in 0..RetrySteps
    /\ lastErr \in ErrKinds
    /\ otherHolds \in BOOLEAN

\* Mutant: the membership decision without the class filter.
ReferencedAnyClass == \E m \in MRs : mrRefs[m]

(***************************************************************************)
(* The membership decision of the secret reconciler: some managed resource *)
(* that this controller is responsible for references the secret.          *)
(***************************************************************************)
Referenced == \E m \in MRs : mrClass[m] = FilterClass /\ mrRefs[m]

Init ==
    /\ secretExists = TRUE
    /\ finalizers \in SUBSET Fins
    /\ rv = 0
    /\ deleting = FALSE
    /\ mrClass \in [MRs -> ClassVal]
    /\ mrRefs \in [MRs -> BOOLEAN]
    /\ queued = TRUE
    /\ pc = "idle"
    /\ objFins = {}
    /\ objRV = 0
    /\ tries = 0
    /\ lastErr = "none"
    /\ otherHolds = (Other \in finalizers)

-----------------------------------------------------------------------------
(* Ends of a reconcile.  Done returns reconcile.Result{}; Fail returns the *)
(* error with RequeueAfter 5s, which puts the key back into the queue.     *)

Done == pc' = "idle" /\ tries' = 0 /\ lastErr' = "none"

\* Mutant: the failed reconcile returns its error without a requeue.
FailNoRequeue(kind) ==
    pc' = "idle" /\ tries' = 0 /\ lastErr' = kind /\ UNCHANGED queued

Fail(kind) == pc' = "idle" /\ tries' = 0 /\ lastErr' = kind /\ queued' = TRUE

\* A write of the secret by the store: it bumps the resourceVersion, removes
\* a terminating object whose last finalizer goes, and the watch on secrets
\* enqueues the key.
WriteSecret(newFins) ==
    /\ rv < MaxRV
    /\ finalizers' = newFins
    /\ rv' = rv + 1
    /\ secretExists' = ~(deleting /\ newFins = {})
    /\ queued' = TRUE

-----------------------------------------------------------------------------
(***************************************************************************)
(* The reconciler.                                                         *)
(***************************************************************************)

\* The work queue hands the key to a worker.
Dequeue ==
    /\ pc = "idle"
    /\ queued
    /\ queued' = FALSE
    /\ pc' = "get"
    /\ UNCHANGED <<storeVars, objFins, objRV, tries, lastErr, otherHolds>>

\* Reconcile: Get the secret; NotFound ends the reconcile successfully.
ReconcileGet ==
    /\ pc = "get"
    /\ IF secretExists
         THEN /\ objFins' = finalizers
              /\ objRV' = rv
              /\ pc' = "list"
              /\ UNCHANGED <<tries, lastErr>>
         ELSE /\ Done
              /\ UNCHANGED <<objFins, objRV>>
    /\ UNCHANGED <<storeVars, queued, otherHolds>>

\* Reconcile: List the managed resources of the namespace and decide.
ReconcileList ==
    /\ pc = "list"
    /\ \/ Referenced /\ Ours \notin objFins /\ pc' = "ensure_get"
          /\ UNCHANGED <<tries, lastErr>>
       \/ ~Referenced /\ Ours \in objFins /\ pc' = "delete_get"
          /\ UNCHANGED <<tries, lastErr>>
       \/ (Referenced <=> Ours \in objFins) /\ Done
    /\ UNCHANGED <<storeVars, queued, objFins, objRV, otherHolds>>

\* EnsureFinalizer, inside RetryOnConflict: Get, return if the finalizer is
\* there.  A NotFound is not ignored here and fails the reconcile.
EnsureGet ==
    /\ pc = "ensure_get"
    /\ IF secretExists
         THEN /\ objFins' = finalizers
              /\ objRV' = rv
              /\ IF Ours \in finalizers
                   THEN Done
                   ELSE pc' = "ensure_patch" /\ UNCHANGED <<tries, lastErr>>
              /\ UNCHANGED queued
         ELSE Fail("notfound") /\ UNCHANGED <<objFins, objRV>>
    /\ UNCHANGED <<storeVars, otherHolds>>

\* Mutant: a retry loop that never gives up on conflicts.
ConflictUnbounded(getPc) ==
    /\ pc' = getPc /\ tries' = tries + 1 /\ UNCHANGED <<queued, lastErr>>
    /\ UNCHANGED <<storeVars, objFins, objRV, otherHolds>>

\* A conflict of the optimistic lock: RetryOnConflict runs the closure again
\* unless its steps are used up, then it returns the conflict.
Conflict(getPc) ==
    /\ IF tries + 1 < RetrySteps
         THEN pc' = getPc /\ tries' = tries + 1 /\ UNCHANGED <<queued, lastErr>>
         ELSE Fail("conflict")
    /\ UNCHANGED <<storeVars, objFins, objRV, otherHolds>>

\* Mutant: the merge patch sent without MergeFromWithOptimisticLock.
PatchAppliesNoLock == secretExists

\* The merge patch carries the finalizer list computed from the in-memory
\* object and, by MergeFromWithOptimisticLock, its resourceVersion.
PatchApplies == secretExists /\ rv = objRV

\* EnsureFinalizer: Patch with the finalizer added.  The store refuses a new
\* finalizer on a terminating object.
EnsurePatch ==
    /\ pc = "ensure_patch"
    /\ \/ /\ ~secretExists
          /\ Fail("notfound")
          /\ UNCHANGED <<storeVars, objFins, objRV, otherHolds>>
       \/ secretExists /\ rv # objRV /\ Conflict("ensure_get")
       \/ /\ PatchApplies
          /\ deleting
          /\ Fail("invalid")
          /\ UNCHANGED <<storeVars, objFins, objRV, otherHolds>>
       \/ /\ PatchApplies
          /\ ~deleting
          /\ WriteSecret(objFins \cup {Ours})
          /\ objFins' = objFins \cup {Ours}
          /\ objRV' = rv + 1
          /\ Done
          /\ UNCHANGED <<deleting, mrClass, mrRefs, otherHolds>>

\* Mutant: DeleteFinalizer returning early when the finalizer IS present.
DeleteGetInverted ==
    /\ pc = "delete_get"
    /\ objFins' = IF secretExists THEN finalizers ELSE objFins
    /\ objRV' = IF secretExists THEN rv ELSE objRV
    /\ IF Ours \notin objFins'
         THEN pc' = "delete_patch" /\ UNCHANGED <<tries, lastErr>>
         ELSE Done
    /\ UNCHANGED <<storeVars, queued, otherHolds>>

\* DeleteFinalizer, inside RetryOnConflict: Get with NotFound ignored (the
\* in-memory object then keeps what it held), return if the finalizer is
\* absent from the in-memory object.
DeleteGet ==
    /\ pc = "delete_get"
    /\ objFins' = IF secretExists THEN finalizers ELSE objFins
    /\ objRV' = IF secretExists THEN rv ELSE objRV
    /\ IF Ours \in objFins'
         THEN pc' = "delete_patch" /\ UNCHANGED <<tries, lastErr>>
         ELSE Done
    /\ UNCHANGED <<storeVars, queued, otherHolds>>

\* DeleteFinalizer: Patch with the finalizer removed.
DeletePatch ==
    /\ pc = "delete_patch"
    /\ \/ ~secretExists /\ Fail("notfound") /\ UNCHANGED <<storeVars, objFins, objRV, otherHolds>>
       \/ secretExists /\ rv # objRV /\ Conflict("delete_get")
       \/ /\ PatchApplies
          /\ WriteSecret(objFins \ {Ours})
          /\ objFins' = objFins \ {Ours}
          /\ objRV' = rv + 1
          /\ Done
          /\ UNCHANGED <<deleting, mrClass, mrRefs, otherHolds>>

\* Any store call of the reconcile fails with an error other than NotFound
\* or Conflict; the error ends the reconcile.
StoreCallFails ==
    /\ pc \in StoreCalls
    /\ Fail("other")
    /\ UNCHANGED <<storeVars, objFins, objRV, otherHolds>>

-----------------------------------------------------------------------------
(***************************************************************************)
(* The environment: users and other controllers.                           *)
(***************************************************************************)

\* A managed resource's class or its reference to the secret is edited; the
\* watch on managed resources enqueues the secrets it references.
EditMR(m, c, r) ==
    /\ <<mrClass[m], mrRefs[m]>> # <<c, r>>
    /\ mrClass' = [mrClass EXCEPT ![m] = c]
    /\ mrRefs' = [mrRefs EXCEPT ![m] = r]
    /\ queued' = TRUE
    /\ UNCHANGED <<secretExists, finalizers, rv, deleting, recVars, otherHolds>>

\* Another controller adds its finalizer (its own write is atomic).
OtherAdd ==
    /\ secretExists /\ ~deleting
    /\ Other \notin finalizers
    /\ WriteSecret(finalizers \cup {Other})
    /\ otherHolds' = TRUE
    /\ UNCHANGED <<deleting, mrClass, mrRefs, recVars>>

\* Another controller removes its finalizer.
OtherRemove ==
    /\ secretExists
    /\ Other \in finalizers
    /\ WriteSecret(finalizers \ {Other})
    /\ otherHolds' = FALSE
    /\ UNCHANGED <<deleting, mrClass, mrRefs, recVars>>

\* A user removes this controller's finalizer by hand, as is done to free a
\* stuck terminating object.
StripFinalizer ==
    /\ secretExists
    /\ Ours \in finalizers
    /\ WriteSecret(finalizers \ {Ours})
    /\ UNCHANGED <<deleting, mrClass, mrRefs, recVars, otherHolds>>

\* A user deletes the secret: gone at once without finalizers, otherwise
\* marked terminating.
DeleteSecret ==
    /\ secretExists /\ ~deleting
    /\ rv < MaxRV
    /\ rv' = rv + 1
    /\ secretExists' = (finalizers # {})
    /\ deleting' = (finalizers # {})
    /\ queued' = TRUE
    /\ UNCHANGED <<finalizers, mrClass, mrRefs, recVars, otherHolds>>

\* A user creates the secret again under the same name.
CreateSecret ==
    /\ ~secretExists
    /\ rv < MaxRV
    /\ secretExists' = TRUE
    /\ finalizers' = {}
    /\ rv' = rv + 1
    /\ deleting' = FALSE
    /\ queued' = TRUE
    /\ UNCHANGED <<mrClass, mrRefs, recVars, otherHolds>>

Reconciler ==
    \/ Dequeue \/ ReconcileGet \/ ReconcileList
    \/ EnsureGet \/ EnsurePatch \/ DeleteGet \/ DeletePatch
    \/ StoreCallFails

Environment ==
    \/ \E m \in MRs, c \in ClassVal, r \in BOOLEAN : EditMR(m, c, r)
    \/ OtherAdd \/ OtherRemove \/ StripFinalizer
    \/ DeleteSecret \/ CreateSecret

Next == Reconciler \/ Environment

Spec == Init /\ [][Next]_vars

(***************************************************************************)
(* Fairness: the controller's worker goroutine runs a reconcile it has     *)
(* dequeued to its end (every store call returns, with a result or an      *)
(* error), and the work queue hands a queued key to the idle worker.  The  *)
(* environment and the store's failures get no fairness.                   *)
(***************************************************************************)
FairSpec == Spec /\ WF_vars(Reconciler)

-----------------------------------------------------------------------------
(***************************************************************************)
(* Properties.                                                             *)
(***************************************************************************)

\* The finalizer patches of EnsureFinalizer and DeleteFinalizer never drop
\* the finalizer of another controller: while that controller holds its
\* finalizer, the secret secretExists and carries it.  This rests on the optimistic
\* lock of the merge patch, since the patch replaces the whole list.
ForeignFinalizerPreserved ==
    otherHolds => secretExists /\ Other \in finalizers

\* A step of the reconciler changes no finalizer but this controller's own:
\* the merge patches of EnsureFinalizer and DeleteFinalizer send the whole
\* list computed from the object they read, so without the optimistic lock
\* a patch built on a stale read would drop a finalizer another controller
\* added since, or put back one it has removed.
ReconcilerTouchesOnlyOwn ==
    [][Reconciler => finalizers' \ {Ours} = finalizers \ {Ours}]_vars

\* Level-triggered convergence: whenever the reconciler is idle and the key
\* is not queued, the secret carries this controller's finalizer exactly
\* when a managed resource of the controller's class references it.
QuiescentConverged ==
    (pc = "idle" /\ ~queued /\ secretExists) => (Ours \in finalizers <=> Referenced)

\* The finalizer agrees with the membership decision, or cannot be made to:
\* the store refuses a new finalizer on a terminating secret.
Settled ==
    secretExists => ((Ours \in finalizers) = Referenced \/ (deleting /\ Referenced))

\* Once the users, the other controller and the store's failures stop, the
\* reconciler brings the finalizer into agreement with the managed
\* resources and keeps it there: the last event enqueued the key, a failed
\* reconcile requeues it, and a reconcile that meets a conflict ends in a
\* failure that reads the secret again.
QuietSettles ==
    (<>[][Reconciler /\ ~StoreCallFails]_vars) => <>[]Settled

(***************************************************************************)
(* The strengthening of ForeignFinalizerPreserved that is inductive: the   *)
(* in-memory object never carries a resourceVersion ahead of the store,    *)
(* and while a patch is pending against an unchanged resourceVersion the   *)
(* in-memory finalizer list is the stored one.  The resourceVersion is     *)
(* what lets the optimistic lock stand in for a comparison of lists.       *)
(***************************************************************************)
ObjRVNotAhead == objRV <= rv

ObjInSync ==
    (pc \in {"ensure_patch", "delete_patch"} /\ secretExists /\ rv = objRV)
        => objFins = finalizers

IInv ==
    /\ TypeOK
    /\ ForeignFinalizerPreserved
    /\ ObjRVNotAhead
    /\ ObjInSync

\* DeleteFinalizer tolerates a secret that is gone (spec 4.1 RemoveMarker:
\* "tolerates not-found as a no-op success"): a reconcile that is removing
\* the finalizer never ends with a NotFound error.
DeleteToleratesNotFound ==
    [][(pc \in {"delete_get", "delete_patch"}) => lastErr' # "notfound"]_vars

\* The finalizer patches are single attempts (spec 4.1 EnsureMarker:
\* "Single attempt -- if the underlying store reports a stale-token
\* conflict, the call fails"): a Patch of EnsureFinalizer or
\* DeleteFinalizer that the store refuses for a stale resourceVersion ends
\* the reconcile with the conflict instead of reading the secret again.
FinalizerPatchSingleAttempt ==
    [][((EnsurePatch \/ DeletePatch) /\ secretExists /\ rv # objRV)
         => (pc' = "idle" /\ lastErr' = "conflict")]_vars

=============================================================================
