------------------------ MODULE SecretFinalizerProofs ------------------------
(***************************************************************************)
(* Proofs about SecretFinalizer for every value of its constants: the      *)
(* type invariant; that the finalizer patches of EnsureFinalizer and      *)
(* DeleteFinalizer never drop another controller's finalizer and change    *)
(* none but this controller's own; and that a drained queue means a        *)
(* converged finalizer.                                                    *)
(***************************************************************************)
EXTENDS SecretFinalizer, TLAPS

USE ConstantsAssumption

(* TypeOK split into the Boolean-valued variables, which Zenon handles,    *)
(* and the rest, which needs the arithmetic of SMT.                        *)
BoolTypes ==
    /\ secretExists \in BOOLEAN
    /\ deleting \in BOOLEAN
    /\ queued \in BOOLEAN
    /\ otherHolds \in BOOLEAN
    /\ mrRefs \in [MRs -> BOOLEAN]

DataTypes ==
    /\ finalizers \in SUBSET Fins
    /\ rv \in 0..MaxRV
    /\ mrClass \in [MRs -> ClassVal]
    /\ pc \in PC
    /\ objFins \in SUBSET Fins
    /\ objRV \in 0..MaxRV
    /\ tries \in 0..RetrySteps
    /\ lastErr \in ErrKinds

-----------------------------------------------------------------------------
LEMMA TypeInit == Init => TypeOK
<1> SUFFICES ASSUME Init PROVE BoolTypes /\ DataTypes
  BY Zenon DEF TypeOK, BoolTypes, DataTypes
<1>1. secretExists \in BOOLEAN /\ deleting \in BOOLEAN /\ queued \in BOOLEAN
      /\ mrRefs \in [MRs -> BOOLEAN]
  BY Zenon DEF Init
<1>2. otherHolds \in BOOLEAN
  BY DEF Init
<1>3. DataTypes
  BY DEF Init, DataTypes, Fins, PC, ErrKinds
<1>4. QED
  BY <1>1, <1>2, <1>3 DEF BoolTypes

LEMMA TypeStep == TypeOK /\ [Next]_vars => TypeOK'
<1> SUFFICES ASSUME TypeOK, [Next]_vars PROVE BoolTypes' /\ DataTypes'
  BY Zenon DEF TypeOK, BoolTypes, DataTypes
<1>1. BoolTypes'
  <2> USE DEF TypeOK, BoolTypes, Done, Fail, WriteSecret, storeVars, recVars
  <2>1. CASE Dequeue
    BY <2>1, Zenon DEF Dequeue
  <2>2. CASE ReconcileGet
    BY <2>2, Zenon DEF ReconcileGet
  <2>3. CASE ReconcileList
    BY <2>3, Zenon DEF ReconcileList
  <2>4. CASE EnsureGet
    BY <2>4, Zenon DEF EnsureGet
  <2>5. CASE EnsurePatch
    BY <2>5, Zenon DEF EnsurePatch, Conflict, PatchApplies
  <2>6. CASE DeleteGet
    BY <2>6, Zenon DEF DeleteGet
  <2>7. CASE DeletePatch
    BY <2>7, Zenon DEF DeletePatch, Conflict, PatchApplies
  <2>8. CASE StoreCallFails
    BY <2>8, Zenon DEF StoreCallFails
  <2>9. CASE \E m \in MRs, c \in ClassVal, r \in BOOLEAN : EditMR(m, c, r)
    BY <2>9, Zenon DEF EditMR
  <2>10. CASE OtherAdd \/ OtherRemove \/ StripFinalizer
    BY <2>10, Zenon DEF OtherAdd, OtherRemove, StripFinalizer
  <2>11. CASE DeleteSecret \/ CreateSecret
    BY <2>11, Zenon DEF DeleteSecret, CreateSecret
  <2>12. CASE UNCHANGED vars
    BY <2>12, Zenon DEF vars
  <2>13. QED
    BY <2>1, <2>2, <2>3, <2>4, <2>5, <2>6, <2>7, <2>8, <2>9, <2>10,
       <2>11, <2>12 DEF Next, Reconciler, Environment
<1>2. DataTypes'
  BY DEF TypeOK, DataTypes, Next, Reconciler, Environment, vars, storeVars,
     recVars, Dequeue, ReconcileGet, ReconcileList, EnsureGet, EnsurePatch,
     DeleteGet, DeletePatch, StoreCallFails, Conflict, PatchApplies, Done,
     Fail, WriteSecret, EditMR, OtherAdd, OtherRemove, StripFinalizer,
     DeleteSecret, CreateSecret, Fins, ClassVal, PC, ErrKinds
<1>3. QED
  BY <1>1, <1>2

(* Every behaviour of Spec keeps every variable in its type: in particular *)
(* the resourceVersion stays within MaxRV and RetryOnConflict's attempt    *)
(* counter within RetrySteps.                                              *)
THEOREM TypeCorrect == Spec => []TypeOK
  BY TypeInit, TypeStep, PTL DEF Spec

-----------------------------------------------------------------------------
(***************************************************************************)
(* ForeignFinalizerPreserved.  The argument: a write of the reconciler     *)
(* replaces the finalizer list by one computed from its in-memory copy,    *)
(* and it is accepted only when the copy's resourceVersion is the stored   *)
(* one.  Every store write bumps the resourceVersion and the copy is never *)
(* ahead of it (ObjRVNotAhead), so an accepted patch was computed from the *)
(* stored list itself (ObjInSync) and keeps Other.                         *)
(***************************************************************************)

LEMMA IInvInit == Init => IInv
<1> SUFFICES ASSUME Init PROVE IInv
  OBVIOUS
<1>1. TypeOK
  BY TypeInit
<1>2. ForeignFinalizerPreserved
  BY Zenon DEF Init, ForeignFinalizerPreserved
<1>3. ObjRVNotAhead /\ ObjInSync
  BY DEF Init, ObjRVNotAhead, ObjInSync
<1>4. QED
  BY <1>1, <1>2, <1>3 DEF IInv

\* The conjuncts of IInv other than TypeOK.
SafetyParts == ForeignFinalizerPreserved /\ ObjRVNotAhead /\ ObjInSync

LEMMA SafetyStep == IInv /\ [Next]_vars => SafetyParts'
<1> SUFFICES ASSUME IInv, [Next]_vars PROVE SafetyParts'
  OBVIOUS
<1> USE DEF IInv, TypeOK, SafetyParts, ForeignFinalizerPreserved,
           ObjRVNotAhead, ObjInSync, Done, Fail, WriteSecret, storeVars,
           recVars, Fins
<1>1. CASE Dequeue
  BY <1>1 DEF Dequeue
<1>2. CASE ReconcileGet
  BY <1>2 DEF ReconcileGet
<1>3. CASE ReconcileList
  BY <1>3 DEF ReconcileList
<1>4. CASE EnsureGet
  BY <1>4 DEF EnsureGet
<1>5. CASE EnsurePatch
  BY <1>5 DEF EnsurePatch, Conflict, PatchApplies
<1>6. CASE DeleteGet
  BY <1>6 DEF DeleteGet
<1>7. CASE DeletePatch
  BY <1>7 DEF DeletePatch, Conflict, PatchApplies
<1>8. CASE StoreCallFails
  BY <1>8 DEF StoreCallFails
<1>9. CASE \E m \in MRs, c \in ClassVal, r \in BOOLEAN : EditMR(m, c, r)
  BY <1>9 DEF EditMR
<1>10. CASE OtherAdd
  <2>1. ForeignFinalizerPreserved'
    BY <1>10, Zenon DEF OtherAdd
  <2>2. (ObjRVNotAhead /\ ObjInSync)'
    BY <1>10 DEF OtherAdd
  <2>3. QED
    BY <2>1, <2>2
<1>11. CASE OtherRemove
  BY <1>11 DEF OtherRemove
<1>12. CASE StripFinalizer
  BY <1>12 DEF StripFinalizer
<1>13. CASE DeleteSecret
  BY <1>13 DEF DeleteSecret
<1>14. CASE CreateSecret
  BY <1>14 DEF CreateSecret
<1>15. CASE UNCHANGED vars
  BY <1>15 DEF vars
<1>16. QED
  BY <1>1, <1>2, <1>3, <1>4, <1>5, <1>6, <1>7, <1>8, <1>9, <1>10, <1>11,
     <1>12, <1>13, <1>14, <1>15 DEF Next, Reconciler, Environment

LEMMA IInvStep == IInv /\ [Next]_vars => IInv'
  BY TypeStep, SafetyStep DEF IInv, SafetyParts

(* The finalizer patches of EnsureFinalizer and DeleteFinalizer never drop *)
(* another controller's finalizer, for every number of managed resources,  *)
(* every RetrySteps and every bound on resource versions: while the other  *)
(* controller holds its finalizer, the secret exists and carries it.       *)
THEOREM ForeignFinalizerSafe == Spec => []ForeignFinalizerPreserved
<1>1. IInv => ForeignFinalizerPreserved
  BY DEF IInv
<1>2. QED
  BY IInvInit, IInvStep, <1>1, PTL DEF Spec

\* A reconciler step writes the finalizer list only through the patches of
\* EnsureFinalizer and DeleteFinalizer; the other steps leave it as it is.
LEMMA ReconcilerWrites ==
    ASSUME Reconciler, ~(EnsurePatch \/ DeletePatch)
    PROVE  UNCHANGED finalizers
BY DEF Reconciler, Dequeue, ReconcileGet, ReconcileList, EnsureGet, DeleteGet,
       StoreCallFails, storeVars

LEMMA OwnOnlyStep ==
    IInv /\ [Next]_vars => [Reconciler => finalizers' \ {Ours} = finalizers \ {Ours}]_vars
<1> SUFFICES ASSUME IInv, Reconciler
             PROVE  finalizers' \ {Ours} = finalizers \ {Ours}
  OBVIOUS
<1> USE DEF IInv, ObjInSync
<1>1. CASE EnsurePatch
  <2>1. CASE PatchApplies /\ ~deleting
    BY <1>1, <2>1 DEF EnsurePatch, PatchApplies, WriteSecret
  <2>2. CASE ~(PatchApplies /\ ~deleting)
    BY <1>1, <2>2 DEF EnsurePatch, Conflict, PatchApplies, storeVars
  <2>3. QED
    BY <2>1, <2>2
<1>2. CASE DeletePatch
  <2>1. CASE PatchApplies
    BY <1>2, <2>1 DEF DeletePatch, PatchApplies, WriteSecret
  <2>2. CASE ~PatchApplies
    BY <1>2, <2>2 DEF DeletePatch, Conflict, PatchApplies, storeVars
  <2>3. QED
    BY <2>1, <2>2
<1>3. CASE ~(EnsurePatch \/ DeletePatch)
  BY <1>3, ReconcilerWrites
<1>4. QED
  BY <1>1, <1>2, <1>3

(* A step of the reconciler changes no finalizer other than this           *)
(* controller's own, for every constant value: a merge patch built on a    *)
(* stale read is refused by the optimistic lock, so it can neither drop a  *)
(* foreign finalizer added since the read nor restore one removed since.   *)
THEOREM ReconcilerTouchesOnlyOwnThm == Spec => ReconcilerTouchesOnlyOwn
<1>1. Spec => []IInv
  BY IInvInit, IInvStep, PTL DEF Spec
<1>2. QED
  BY <1>1, OwnOnlyStep, PTL DEF Spec, ReconcilerTouchesOnlyOwn

-----------------------------------------------------------------------------
(***************************************************************************)
(* QuiescentConverged.  The argument: every event that can change the      *)
(* decision (an MR edit, any write or deletion of the secret, a failed     *)
(* reconcile) puts the key back into the queue.  So while the key is out   *)
(* of the queue, nothing has changed since the reconcile in progress read  *)
(* the secret: its in-memory copy is the stored one (Synced), and a        *)
(* reconcile on its way to a patch has decided on the current membership.  *)
(* The patch itself is a write and requeues the key, so the reconcile that *)
(* drains the queue is one that found nothing to do.                       *)
(***************************************************************************)
Synced == secretExists /\ objFins = finalizers /\ objRV = rv

DrainedInSync ==
    ~queued =>
        /\ pc \in {"list", "ensure_get", "ensure_patch", "delete_get",
                    "delete_patch"} => Synced
        /\ pc \in {"ensure_get", "ensure_patch"}
               => Referenced /\ Ours \notin finalizers
        /\ pc \in {"delete_get", "delete_patch"}
               => ~Referenced /\ Ours \in finalizers
        /\ (pc = "idle" /\ secretExists) => (Ours \in finalizers <=> Referenced)

CInv == TypeOK /\ DrainedInSync

LEMMA CInvInit == Init => CInv
BY TypeInit DEF Init, CInv, DrainedInSync

\* The reconciler's steps leave the membership decision as it is.
LEMMA ReconcilerKeepsMRs ==
    Reconciler => UNCHANGED <<mrClass, mrRefs>>
BY DEF Reconciler, Dequeue, ReconcileGet, ReconcileList, EnsureGet,
       EnsurePatch, DeleteGet, DeletePatch, StoreCallFails, Conflict,
       Done, Fail, WriteSecret, storeVars

\* Every step of the environment puts the key into the queue.
LEMMA EnvironmentEnqueues == Environment => queued'
BY DEF Environment, EditMR, OtherAdd, OtherRemove, StripFinalizer,
       DeleteSecret, CreateSecret, WriteSecret

LEMMA DrainedStep == CInv /\ [Next]_vars => DrainedInSync'
<1> SUFFICES ASSUME CInv, [Next]_vars, ~queued' PROVE DrainedInSync'
  BY DEF DrainedInSync
<1> USE DEF CInv, TypeOK, DrainedInSync, Synced, Done, Fail, WriteSecret,
           storeVars, recVars
<1>1. CASE Environment
  BY <1>1, EnvironmentEnqueues
<1>2. CASE Reconciler
  <2>1. UNCHANGED Referenced
    BY <1>2, ReconcilerKeepsMRs DEF Referenced
  <2>2. CASE Dequeue
    BY <2>2 DEF Dequeue
  <2>3. CASE ReconcileGet
    BY <2>3 DEF ReconcileGet
  <2>4. CASE ReconcileList
    BY <2>1, <2>4 DEF ReconcileList
  <2>5. CASE EnsureGet
    BY <2>1, <2>5 DEF EnsureGet
  <2>6. CASE EnsurePatch
    BY <2>6 DEF EnsurePatch, Conflict, PatchApplies
  <2>7. CASE DeleteGet
    BY <2>1, <2>7 DEF DeleteGet
  <2>8. CASE DeletePatch
    BY <2>8 DEF DeletePatch, Conflict, PatchApplies
  <2>9. CASE StoreCallFails
    BY <2>9 DEF StoreCallFails
  <2>10. QED
    BY <1>2, <2>2, <2>3, <2>4, <2>5, <2>6, <2>7, <2>8, <2>9 DEF Reconciler
<1>3. CASE UNCHANGED vars
  BY <1>3 DEF vars, Referenced
<1>4. QED
  BY <1>1, <1>2, <1>3 DEF Next

(* Whenever the work queue is drained and the reconciler idle, an existing *)
(* secret carries this controller's finalizer exactly when a managed       *)
(* resource of the controller's class references it, for every number of  *)
(* managed resources, RetrySteps and resourceVersion bound.                *)
THEOREM QuiescentConvergedThm == Spec => []QuiescentConverged
<1>1. CInv /\ [Next]_vars => CInv'
  BY TypeStep, DrainedStep DEF CInv
<1>2. CInv => QuiescentConverged
  BY DEF CInv, DrainedInSync, QuiescentConverged
<1>3. QED
  BY CInvInit, <1>1, <1>2, PTL DEF Spec

=============================================================================
