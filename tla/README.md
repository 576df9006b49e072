# Formal models of gardener-resource-manager's controller utilities

This directory holds TLA+ models of `src/pkg/controller/utils/utils.go` and of
the secret finalizer reconciler that uses it. It also holds TLC configurations
that check the models on small instances, and two abstract specifications:
one that the retry loop implements, and one that `TypedCreateOrUpdate`
implements on its live read path. TLAPS proofs cover every safety invariant
the passing runs check, an action property and both refinements, for every
value of the constants.

## The system

`utils.go` has four parts.

- **Finalizer helpers**: `EnsureFinalizer` and `DeleteFinalizer` (lines 48-86).
  Each runs Get, the `ContainsFinalizer` early return, and a merge patch with
  `MergeFromWithOptimisticLock`. The whole body runs inside
  `retry.RetryOnConflict(retry.DefaultRetry, ...)`. `DeleteFinalizer` ignores
  NotFound on its Get.
- **Retrying mutator**: `TryUpdate` and `TryUpdateStatus`, with `tryUpdate`
  and `exponentialBackoff` (lines 88-92 and 148-205). The loop runs a condition:
  Get, a deep copy, the caller's transform, then `reflect.DeepEqual`. If the
  object is unchanged, it returns success. Otherwise it calls Update, and a
  conflict means "try again". Between attempts it checks `ctx.Done()`, sleeps
  the jittered duration and multiplies the duration by the factor.
- **TypedCreateOrUpdate** (lines 94-146): Get through a typed object (served
  from the cache) or an unstructured one (served live), then Create or a
  DeepEqual-guarded Update.
- **EvalGenericPredicate** (lines 35-46): a pure conjunction of predicates.

The secret reconciler itself (`SecretReconciler.Reconcile`) is not under
`src/`. It is described by `spec.md` and pinned down by
`src/pkg/controller/managedresources/secret_controller_test.go`. For each
queued secret it does three things:

1. Get the secret; if it is gone, it is done.
2. List the managed resources (MRs) of the namespace.
3. Call `EnsureFinalizer` if some MR of its class references the secret, or
   `DeleteFinalizer` if none does.

Any error ends the reconcile with a requeue.

The controller-runtime client, the API server, the watch and the work queue
are outside the repository. They are modelled only as far as the helpers
depend on them:

- every write bumps a global resourceVersion;
- a write with a stale resourceVersion is rejected with Conflict;
- a terminating object with no finalizers left is removed;
- adding a finalizer to a terminating object is refused;
- every change of the secret or of an MR enqueues the secret's key;
- one reconcile runs per key at a time.

## Modules

| Module | Models | Code |
|---|---|---|
| `SecretFinalizer` | reconciler, finalizer helpers, store, concurrent actors | utils.go 48-86; reconciler from spec |
| `MCSecretFinalizer` | model values for TLC | — |
| `SecretFinalizerProofs` | TLAPS proofs about `SecretFinalizer` | — |
| `RetryLoop` | `tryUpdate` inside `exponentialBackoff` | utils.go 154-205 |
| `AtomicUpdate` | what `TryUpdate` promises: an atomic read-modify-write | spec 4.1 |
| `MCRetryLoop` | values and transform for TLC | — |
| `RetryLoopProofs` | TLAPS proofs: `RetryLoop`'s types, its backoff schedule, and that it implements `AtomicUpdate` | — |
| `CreateOrUpdate` | `TypedCreateOrUpdate` with racing callers and a lagging cache | utils.go 98-146 |
| `MCCreateOrUpdate` | two callers, two values | — |
| `AtomicCreateOrUpdate` | what `TypedCreateOrUpdate` promises: one atomic create, update or no-op | utils.go 94-97 (doc comment) |
| `CreateOrUpdateProofs` | TLAPS proofs about `CreateOrUpdate` | — |
| `CreateOrUpdateRefinement` | TLAPS proof that the live path implements `AtomicCreateOrUpdate` | — |

### SecretFinalizer

**State**

- The store: `secretExists`, `finalizers`, `rv`, `deleting`, and per MR
  `mrClass` and `mrRefs`.
- The work queue: `queued`.
- The reconcile in progress: `pc`, the in-memory copy `objFins`/`objRV`, the
  RetryOnConflict counter `tries`, and `lastErr`.
- A ghost `otherHolds`: another controller currently relies on its finalizer.

**Reconciler actions**

- `Dequeue`, `ReconcileGet`, `ReconcileList` (spec-modelled).
- `EnsureGet`/`EnsurePatch` (utils.go 50-64) and `DeleteGet`/`DeletePatch`
  (70-85). `Conflict` is RetryOnConflict's bounded retry.
- `StoreCallFails`: any store call failing.

A patch applies only when the secret exists and the copy's resourceVersion is
the stored one (`PatchApplies`, the optimistic lock). The patch replaces the
whole finalizer list with one computed from the copy.

**Environment actions**

- MR edits (`EditMR`).
- Another controller adding or removing its finalizer (`OtherAdd`,
  `OtherRemove`).
- A user stripping our finalizer by hand (`StripFinalizer`).
- Deletion and re-creation of the secret (`DeleteSecret`, `CreateSecret`).

`FairSpec` adds weak fairness of `Reconciler` (see Fairness).

### RetryLoop

**State**

- The stored value and `rv`.
- The write history `hist` (`hist[k+1]` is the object at resourceVersion k)
  and the informer cache's position `cacheIdx`, as in `CreateOrUpdate`.
- The call's `pc`: `cond_get`, `cond_update`, `sleep` or `done`.
- The loop counter `i` and `duration`.
- `before` (beforeTransform), `obj` and `objRV`.
- `result` and `cancelled`.
- The histories `attempts`, `slept`, `nominal` and `cancelInSleep`.
  `nominal` records the un-jittered duration of each sleep next to the
  jittered one in `slept`, so the schedule can be stated by relating
  neighbouring entries rather than through a recursive function.

**Actions**

- `CondGet` (lines 155-169): the Get, the transform and the DeepEqual no-op
  return. The Get (line 158) reads through `ReadVal`/`ReadRV`. With the
  constant `Cached` it returns the cache's copy; without it, the stored
  object. A controller-runtime client serves typed Gets from its informer
  cache and reads unstructured objects live (the repository's comment at
  lines 99-100); `tryUpdate` may be given either.
- `CondUpdate` (171-177): the Update with the Get's resourceVersion; a conflict
  leads to `AfterConflict`.
- `AfterConflict` (189-197): the `ctx.Done()` check and the jittered sleep.
  `Jittered` is `wait.Jitter` with the float fraction as a ratio of integers,
  truncated like `time.Duration`.
- `SleepEnd` (198-201): `NextDuration`, both increments of `i`, and the loop
  head `LoopHead` (184, 204).
- The environment: `OtherWrite`, `CacheAdvance` (the informer delivers the next
  write) and `Cancel`.

**Refinement.** `AtomicUpdate` states the promise of spec 4.1
TransformAndUpdate without the loop. Its state is the object `val`, its
version `ver` and the call's `status`: running, ok or failed. Its actions are:

- `Apply`: apply the transform in one step, with no write if nothing changes;
- `Abort`: fail without writing;
- `Interfere`: another writer writes.

`RetryLoop` instantiates it with `val <- storeVal`, `ver <- rv` and
`status <- CallStatus`. `CallStatus` is running until the call returns, then ok
or failed, by what `exponentialBackoff` returned (lines 185-191, 204).
Steps map to abstract steps as follows:

- a successful Update, or a no-op Get, is `Apply`;
- every error return is `Abort`;
- `OtherWrite` is `Interfere`;
- the Get that goes on to Update, conflicts, sleeps, `CacheAdvance` and
  `Cancel` are stuttering steps.

The no-op Get is an `Apply` only if the object it compared is the stored one.
This holds with a live Get and fails with a cached one (run retry_stale_noop).

### CreateOrUpdate

**State**

- The store as its history `hist`: `hist[k]` is the object (exists, value)
  after the k-th write, so `Len(hist)` is the resourceVersion.
- The informer cache's position `cacheIdx`: the cache shows `hist[cacheIdx]`.
- Per caller: `pc`, `always` (alwaysUpdate), the in-memory `obj`
  (`objVal`, `objRV`, where 0 means unset), `existing` (the copy taken
  before mutate), and the returned `res` and `err`.
- The history variables `started` and `ended`: the resourceVersions at the
  call and at its return.

**Actions**

- `Start`: the call begins.
- `Get` (lines 113-121), reading through `ReadIdx` (99-111): the cache for a
  kind registered in the scheme, the API server otherwise.
- `Found` (123-143): conversion, mutate and the DeepEqual no-op check.
- `Create` (120) and `Update` (145). `UpdateAccepted` is the API server's
  optimistic lock, under which an unset resourceVersion means an
  unconditional update.
- The environment: `OtherWrite` (another writer creates, updates or deletes)
  and `CacheAdvance` (the informer delivers the next event).

**Refinement.** `AtomicCreateOrUpdate` states what the doc comment (lines
94-97) and `controllerutil.CreateOrUpdate` promise, without the Get. Its
state is the object `cur`, `always`, and per caller `status` (idle, running,
done), `res` and `err`. A running call ends in one step in one of four ways:

- `Created`: the object was absent and now holds the desired value;
- `Updated`: it existed and differed from the desired value, or alwaysUpdate
  is set, and now holds the desired value;
- `Unchanged`: it already held the desired value, alwaysUpdate is unset, and
  nothing is written;
- `Failed`: any result with an error, and nothing is written.

`Interfere` is another writer. `CreateOrUpdate` instantiates it with
`cur <- Current` and `status <- CallStatus` (idle, done, or running for the
three store calls). A successful Create or Update, a no-op Get and an error
return map to the four abstract endings. The Get that goes on to a write and
`CacheAdvance` are stuttering steps.

## Runs

| Run | Config | Expect | What it shows |
|---|---|---|---|
| finalizer_safety | `MCSecretFinalizer.cfg` | pass | `TypeOK`, `ForeignFinalizerPreserved`, `QuiescentConverged`, `ReconcilerTouchesOnlyOwn` and, under `FairSpec`, `QuietSettles` (338k states, no symmetry) |
| delete_notfound | `MCSecretFinalizer_DeleteNotFound.cfg` | violation | `DeleteFinalizer` can fail with NotFound |
| patch_single_attempt | `MCSecretFinalizer_SingleAttempt.cfg` | violation | a patch refused for a stale resourceVersion is retried inside the call, unlike the spec's single attempt |
| retry_loop | `MCRetryLoop.cfg` | pass | `TypeOK`, `ScheduleFollowsPolicy`, `ImplementsAtomicUpdate` with a live Get (619k states) |
| retry_budget | `MCRetryLoop_Budget.cfg` | violation | only ceil(Steps/2) attempts are made |
| retry_cancel | `MCRetryLoop_Cancel.cfg` | violation | a cancel during the sleep does not abort the call |
| retry_trailing_sleep | `MCRetryLoop_TrailingSleep.cfg` | violation | the loop sleeps after its last attempt before timing out |
| retry_stale_noop | `MCRetryLoop_StaleNoop.cfg` | violation | with a cache-served Get, `ImplementsAtomicUpdate` fails: a no-op is decided on a stale copy |
| create_or_update_live | `MCCreateOrUpdate.cfg` | pass | `ReturnedInSync`, `NoLostUpdate`, `ImplementsAtomicCreateOrUpdate` on the unstructured (live) path (326k states) |
| create_or_update_cached | `MCCreateOrUpdate_Cached.cfg` | pass | `NoLostUpdate` on the typed (cached) path |
| create_or_update_stale_noop | `MCCreateOrUpdate_StaleNoop.cfg` | violation | a no-op is decided on a stale cached read |
| create_or_update_error_result | `MCCreateOrUpdate_ErrorResult.cfg` | violation | a failed Create or Update still reports Created or Updated |

### What the properties say

- **`ForeignFinalizerPreserved`**: while another controller holds its
  finalizer, the secret exists and carries it. Without the optimistic lock,
  a patch computed from a copy read before `OtherAdd` would drop it. The
  mutant `PatchAppliesNoLock` shows this.
- **`ReconcilerTouchesOnlyOwn`** (action property): no reconciler step
  changes a finalizer other than ours. This is stronger than
  `ForeignFinalizerPreserved`: it also forbids putting back a foreign
  finalizer that its controller removed after our Get, which would block the
  secret's deletion. The mutant `PatchAppliesNoLock` breaks it.
- **`QuiescentConverged`**: whenever the reconciler is idle, the queue is
  empty and the secret exists, the secret carries our finalizer exactly when
  an MR of our class references it.
- **`QuietSettles`** (liveness): once the environment and the store's
  failures stop, the finalizer eventually agrees with the membership decision
  for good. The exception is a terminating secret that is referenced, where the
  API server refuses a new finalizer (`Settled`). It holds because every event
  enqueues the key and every failed reconcile requeues it. The mutant
  `FailNoRequeue` drops that requeue, and the last failure then leaves the
  secret unsettled with an empty queue.
- **`ImplementsAtomicUpdate`** (refinement): every behaviour of the retry loop
  is a behaviour of `AtomicUpdate`. This rules out two things:
  - a lost update, where success is reported for a transform of an older
    object (mutant `CondUpdateNoLock`);
  - a write of an unchanged object, or a no-op return for a changed one.

  It holds with a live Get (run retry_loop). With a cache-served Get it fails
  (run retry_stale_noop): the cache shows an old object that the transform
  leaves unchanged, and the call returns nil while the stored object needs
  the write.
- **`ScheduleFollowsPolicy`**: the k-th sleep lies within the jitter bounds of
  the k-th nominal duration. The first nominal duration is `Duration`, and
  each later one is the previous one times `Factor`, truncated. The mutant
  `AfterConflictGrownFirst` grows the duration before the first sleep.
- **`ImplementsAtomicCreateOrUpdate`** (refinement, live path): each call
  behaves as if it read and wrote the object at one instant. It reports
  Created only for an absent object and Updated only for one that differed
  (or with alwaysUpdate). It reports a no-op only for an object that already
  held the desired value, and an error only having written nothing. The
  mutant `FoundCopyAfterMutate` makes the no-op check compare the mutated
  object with itself, and breaks it. On the cached path the property fails,
  for the stale no-op below.

- **`NoLostUpdate`**: an Update that the API server accepts replaces exactly
  the object that the caller read. It depends on `u.DeepCopyInto(obj)`
  carrying the resourceVersion into obj; the mutant `FoundNoRV` breaks it.
- **`ReturnedInSync`**: a call that returns without error had its desired
  object in the store at some moment between its start and its return.
- **`SleepsOnlyBetweenAttempts`** (violation): a returned call slept fewer
  times than it attempted.

### Findings

- **The attempt budget is halved** (code bug). `exponentialBackoff` increments
  `i` both at line 184 and at line 201. With Steps = 5 it makes 3 attempts
  before `ErrWaitTimeout`.
- **A cancel during the sleep is ignored.** `time.Sleep` (line 197) cannot be
  interrupted, and `ctx.Done()` is checked only after a failed attempt. After
  a cancel during the sleep, the next attempt runs. It may succeed, or the
  loop may end with `ErrWaitTimeout`. The spec says such a cancel aborts with
  Canceled.
- **`DeleteFinalizer` can fail with NotFound.** The code ignores NotFound only
  on the Get. The stale in-memory copy still holds the finalizer, so the
  Patch then returns NotFound. The same happens when the secret vanishes
  between Get and Patch. Reaching this needs the finalizer to be removed by
  something other than the reconciler, which is why `StripFinalizer` is in the
  model. The spec says removal tolerates not-found.
- **A no-op can be decided on a stale read** (spec gap). For a registered
  kind, the Get reads the informer cache. If the cache lags, the call can
  return `OperationResultNone` with no error while the store never held the
  desired object during the call.
- **A failed write still reports Created or Updated.** The comment at line 94
  says the function is like `controllerutil.CreateOrUpdate`, which returns
  `OperationResultNone` on error. Lines 120 and 145 return `Created` or
  `Updated` together with the error, for example AlreadyExists after a racing
  create.
- **The finalizer helpers retry on conflict** through `RetryOnConflict`. The
  spec describes them as single attempts. `FinalizerPatchSingleAttempt` says
  that a Patch the store refuses for a stale resourceVersion ends the
  reconcile with the conflict. TLC finds a Patch refused after `OtherAdd`
  that goes back to the Get instead.
- **TryUpdate can skip a needed write** (run retry_stale_noop). `tryUpdate`
  reads with `c.Get` (line 158), which a controller-runtime client serves
  from its informer cache for typed objects. If the cache lags, the DeepEqual
  at line 167 can find the stale copy unchanged and return nil without a
  write, while the stored object is one the transform would change. Spec 4.1
  says each attempt fetches the latest state.
- **A sleep after the last attempt.** When the last attempt conflicts, the
  loop still sleeps a full jittered interval (line 197). Only then does the
  loop head end it with `ErrWaitTimeout`. With Steps = 5 the trace shows
  three attempts and three sleeps. Spec 4.1 says a conflict with the budget
  exhausted fails rather than waiting the next delay.

### Bounds

**SecretFinalizer**

- Two MRs. The main run has no symmetry, because it also checks the liveness
  property `QuietSettles`, and TLC's symmetry reduction is not sound for
  liveness. The two violation runs use symmetry over the MRs.
- Classes `seed` and `other`, plus "no class".
- `RetrySteps` = 2, so one in-call retry happens and the budget can also run
  out.
- `MaxRV` = 6 writes, enough for:
  - a concurrent `OtherAdd` between Get and Patch;
  - a delete, a re-create and a retry in one behaviour.
- For `QuietSettles`, the same bound allows a conflict, a failed patch,
  deletion and re-creation before the environment stops. MR edits are not
  bounded, so any number of them can precede the quiet phase.
  When the write budget is spent while a patch would apply, only
  `StoreCallFails` is enabled. Fairness then forces failures, so such
  behaviours do not satisfy the premise of `QuietSettles`: the bound hides
  them rather than falsifying the property.

**RetryLoop**

- Three values with a transform that increments and saturates at 2, so both
  the no-op return and real writes occur.
- Steps = 5, so the loop counter passes Steps by one.
- Duration 2, Factor 3/2, Jitter 1/1:
  - the truncation of 4.5 to 4 occurs;
  - the jitter sets contain several values.
- `MaxRV` = 4, so up to four conflicts occur, and the cache can lag by up to
  four writes.
- `Cached` = FALSE in the passing run and the other violation runs, TRUE in
  retry_stale_noop.

**CreateOrUpdate**

- Two callers with different desired values, `alwaysUpdate` chosen freely.
- Two values.
- `MaxRV` = 3 writes: the initial object, a concurrent write between a Get
  and an Update, and the Update itself.

The retry and create-or-update runs set `CHECK_DEADLOCK FALSE`, because the call returns: a state
with `pc = "done"` has no successor once the other writer's budget is spent.

### Fairness

Only `QuietSettles`, in run finalizer_safety, needs fairness; the safety
properties of that run hold of every behaviour of `FairSpec` and of `Spec`
alike. `FairSpec` is
`Spec /\ WF_vars(Reconciler)`: weak fairness of the reconciler's steps as one
process. The code justifies this in two ways:

- controller-runtime's worker goroutine runs a dequeued reconcile to its end,
  and every store call returns, with a result or an error;
- the work queue hands a queued key to an idle worker.

The environment gets no fairness: users, the other controller and MR edits may
stop at any time. Store failures (`StoreCallFails`) are part of `Reconciler`,
so fairness alone would allow them forever. `QuietSettles` therefore assumes
in its premise that, from some point on, every step is a reconciler step that
does not fail (`<>[][Reconciler /\ ~StoreCallFails]_vars`).

## Proofs

`SecretFinalizerProofs` (tlapm 1.4.5; all obligations proved) proves four
theorems under `ConstantsAssumption`:

- `TypeCorrect`: `Spec => []TypeOK`.
- `ForeignFinalizerSafe`: `Spec => []ForeignFinalizerPreserved`.
- `ReconcilerTouchesOnlyOwnThm`: `Spec => ReconcilerTouchesOnlyOwn`.
- `QuiescentConvergedThm`: `Spec => []QuiescentConverged`.

`ForeignFinalizerPreserved` is not inductive by itself. A patch may be
computed from any earlier copy, so the proof uses `IInv`, the conjunction of
four parts:

- `TypeOK`;
- `ForeignFinalizerPreserved`;
- `ObjRVNotAhead`: the copy's resourceVersion never exceeds the stored one;
- `ObjInSync`: if a patch is pending, the secret exists and the resourceVersions
  match, then the copy's finalizers are the stored ones.

Every store write bumps `rv`, so an accepted patch was computed from the stored
list itself and keeps `Other`. `IInv` was checked with TLC, as an invariant of
the finalizer_safety instance, before it was proved.

The step proof has one case per action. Boolean-valued conjuncts are split off
for Zenon, and arithmetic is left to SMT.

`ReconcilerTouchesOnlyOwnThm` rests on the same `IInv`. Only the two patches
write the finalizer list (lemma `ReconcilerWrites`). A patch that applies has
`rv = objRV`, so by `ObjInSync` it replaces the stored list by that list with
our finalizer added or removed (lemma `OwnOnlyStep`).

`QuiescentConverged` is not inductive either. An idle, unqueued state is
reached by a reconcile that decided on data read earlier. The strengthening
`DrainedInSync` says that while the key is out of the queue:

- a reconcile past its Get holds the stored secret (`Synced`);
- one headed for `EnsureFinalizer` has seen the secret referenced and without
  our finalizer;
- one headed for `DeleteFinalizer` has seen the opposite;
- an idle reconciler leaves the secret converged.

It holds because every event that can change the decision puts the key back
into the queue (lemma `EnvironmentEnqueues`). That covers an MR edit and any
write, deletion or creation of the secret. A failed reconcile requeues as
well. The reconciler's own patch is a write, so it requeues too. The
reconciler never touches the MRs (lemma `ReconcilerKeepsMRs`). TLC checked
`DrainedInSync` on the finalizer_safety instance before it was proved.

`CreateOrUpdateProofs` proves, under `CreateOrUpdateAssumption` and for
either value of `Registered`:

- `TypeCorrect`: `Spec => []TypeOK` (not checked by a run);
- `NoLostUpdateThm`: `Spec => NoLostUpdate`;
- `ReturnedInSyncThm`: `~Registered => (Spec => []ReturnedInSync)`, the
  unstructured (live) read path only. On the cached path the property is
  false (run create_or_update_stale_noop).

The inductive invariant is `IInv == TypeOK /\ ReadInSync`. `ReadInSync` says
that a caller about to Update holds a version `k` in `1..Len(hist)`, and that
`hist[k]` is exactly the object it read. The Get establishes it, because it
copies the resourceVersion together with the value. Other writers keep it,
because appending to the history leaves earlier entries alone (lemma
`AppendKeeps`). The API server accepts the Update only when `k` is the current
version, and then the object replaced is `hist[k]`. The type proof is split
into one lemma per action, as is the proof that `ReadInSync` is kept for
each caller (`KeepSync` for the callers a step leaves alone).

`ReturnedInSyncThm` rests on the per-caller invariant `RetSync`:

- a running call started at a version of the history;
- a call about to Create or Update holds its desired value in obj;
- a returned call ended at a version between its start and the present;
- a call that returned without error has the desired object at a version
  between its start and its end.

Successful writes append the desired object at the version the call returns
with (lemma `WriteRet`). A no-op compares against the current object when the
read is live. Appends keep the witness (lemma `KeepRet`).

`RetryLoopProofs` proves, under `RetryAssumption`,
`Refinement: Steps # 0 /\ ~Cached => (Spec => ImplementsAtomicUpdate)`.
With Steps = 0 the call fails before any attempt, and that initial state is
not the abstract running one. With `Cached` the property is false (run
retry_stale_noop). The invariant `RInv` bounds the resourceVersions
(`objRV <= rv`) and includes `HistOK`: the history has one entry per
resourceVersion, its last entry is the stored object, and the cache is at
one of its entries. Its part `PendingUpdate` says that while an Update is
pending, obj is the transform of beforeTransform and differs from it.
Moreover, while the resourceVersion read is still the store's, the stored
object is still beforeTransform. This holds for a cached Get too, because a
cache at the store's resourceVersion shows the stored object. So an accepted
Update is exactly `Apply`: the transform of the current value, with a
version bump. A no-op return is `Apply` with an unchanged version only when
the Get read the store, and that is the one place `~Cached` is used. The
proof has the usual three parts: `InitMaps`, `StepMaps` (one case per
action) and the invariant, combined by PTL. Without `~Cached`, the proof
fails at the Get case of `StepMaps` and nowhere else.

`RetryLoopProofs` also proves `TypeCorrect` (`Spec => []TypeOK`) and
`ScheduleThm` (`Spec => []ScheduleFollowsPolicy`). `TypeOK` bounds
`attempts` by Steps and `i` by Steps + 1, which is not inductive. The
strengthening `CountInv` ties the loop counter to the attempts:

- at a Get, `i = 2 * attempts < Steps`;
- at an Update or a sleep, `i = 2 * (attempts - 1) < Steps`.

This is the double increment of the budget finding: each attempt adds one
and each sleep adds two. The schedule is not inductive either. The
strengthening `DurationFollows` says where the current duration stands:

- before the next sleep, it is `Duration` if no sleep was taken, and otherwise
  the last nominal duration times the factor;
- during a sleep, it is that sleep's nominal duration.

The lemmas `NextDurationNat` and `JitteredNat` keep durations natural. TLC
checked both strengthenings on the retry_loop instance, and for Steps in
0, 1, 2 and 6, before they were proved.

`CreateOrUpdateRefinement` proves
`Linearizable: ~Registered => (Spec => ImplementsAtomicCreateOrUpdate)`.
Its invariant `AInv` adds two facts to `IInv`:

- `DesiredHeld`: obj holds the desired value, since mutate is the only
  thing that sets it;
- `UpdateWanted`: a caller goes on to Update only when alwaysUpdate is set
  or its Get found a value other than the desired one.

With `ReadInSync`, an accepted Update replaces an object that is exactly the
one the Get read, so it is an abstract `Updated`. On the live path, a no-op
Get compares the current object, so it is an abstract `Unchanged`. The proof
has one mapping lemma per operation (`StartMaps`, `GetMaps`, `CreateMaps`,
`UpdateMaps`, `EnvironmentMaps`), combined in `StepMaps` and by PTL. The
hypothesis `~Registered` is used only in `GetMaps`; without it the proof
fails at that step.

## Only model-checked, or not modelled

- Only model-checked:
  - `QuietSettles`, since liveness under fairness and ENABLED are out of the
    provers' reach.
  - All the violations.
- Stated so it can be proved: a recursive function for the nominal schedule,
  or an exponential bound on the duration, would have stayed model-checked
  only. Unfolding a recursive function needs induction with an operator
  parameter, and the provers know no facts about `^`. So the history
  variable `nominal` states the schedule by relating neighbouring entries,
  and `TypeOK` asks only that the duration be natural.
- **Not modelled yet**:
  - the overflow of the float-to-int conversion at line 198, which lies
    beyond the integers TLC enumerates.
- **Not modelled**: `EvalGenericPredicate`. It is a pure conjunction with no
  state and no caller in the repository. A model would only restate the loop
  as a universal quantifier.

## Plan

1. Done: `SecretFinalizer`, with safety, liveness (`QuietSettles`) and the
   proofs of `ForeignFinalizerPreserved` and `QuiescentConverged`.
2. Done: `RetryLoop`, with the budget, cancellation and trailing-sleep
   findings, and the proved refinement into `AtomicUpdate`.
3. Done: `CreateOrUpdate`, with `TypeCorrect`, `NoLostUpdateThm` and
   `ReturnedInSyncThm` (live path) proved, and the refinement into
   `AtomicCreateOrUpdate` proved on the live path (`Linearizable`).
4. Done: `RetryLoop`'s `TypeOK` and `ScheduleFollowsPolicy` proved, and the
   action property `ReconcilerTouchesOnlyOwn`, checked and proved.
5. Done: the informer cache in `RetryLoop` (run retry_stale_noop), with
   `Refinement` restated for a live Get and proved again.
6. Next:
   - an abstract specification for the finalizer reconcile (finalizer equals
     membership after each successful reconcile) with `SecretFinalizer` as
     its refinement;
   - larger instances: three MRs, or three callers of `TypedCreateOrUpdate`.
