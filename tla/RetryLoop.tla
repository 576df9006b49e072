------------------------------ MODULE RetryLoop ------------------------------
(***************************************************************************)
(* TryUpdate / TryUpdateStatus of pkg/controller/utils/utils.go: tryUpdate *)
(* runs its Get-transform-compare-update condition inside the package's    *)
(* own exponentialBackoff loop, against a store that another writer        *)
(* changes concurrently, under a context that may be cancelled at any      *)
(* time.                                                                   *)
(*                                                                         *)
(* The object is a value of Vals with a resourceVersion; the transform is  *)
(* the operator Transform on Vals (a transform that changes nothing is the *)
(* no-op case of line 167).  TryUpdate and TryUpdateStatus differ only in  *)
(* the subresource the write targets, which is abstracted away.  Durations *)
(* are integers (time.Duration); the float factor and jitter of            *)
(* wait.Backoff are the fractions FactorNum/FactorDen and                  *)
(* JitterNum/JitterDen.                                                    *)
(*                                                                         *)
(* The Get at line 158 goes through the caller's client c.  A              *)
(* controller-runtime client serves a Get of a typed object from its      *)
(* informer cache, which lags the store (Cached); an uncached client, or   *)
(* an unstructured object (utils.go 99-100), reads the API server.  As in  *)
(* CreateOrUpdate, the cache shows the object at some past write and       *)
(* catches up one event at a time: hist[k + 1] is the object at            *)
(* resourceVersion k, and the cache shows hist[cacheIdx].                  *)
(***************************************************************************)
EXTENDS Naturals, Sequences

CONSTANTS
    Vals,               \* values the object may hold
    Transform(_),       \* the caller's transform
    Steps,              \* backoff.Steps
    Duration,           \* backoff.Duration
    FactorNum, FactorDen,   \* backoff.Factor = FactorNum / FactorDen
    JitterNum, JitterDen,   \* backoff.Jitter = JitterNum / JitterDen
    MaxRV,              \* bound on the other writer's writes
    Cached              \* the client serves the Get from its informer cache

ASSUME RetryAssumption ==
    /\ \A v \in Vals : Transform(v) \in Vals
    /\ Steps \in Nat
    /\ Duration \in Nat
    /\ FactorNum \in Nat /\ FactorDen \in Nat \ {0}
    /\ JitterNum \in Nat /\ JitterDen \in Nat \ {0}
    /\ MaxRV \in Nat
    /\ Cached \in BOOLEAN

VARIABLES
    storeVal, rv,       \* the stored object and its resourceVersion
    hist,               \* the object after each write: hist[k + 1] at version k
    cacheIdx,           \* the write the informer cache reflects
    pc,                 \* where the call is: a store call, the sleep, or returned
    i, duration,        \* the loop counter and the current backoff duration
    before, obj, objRV, \* beforeTransform, the transformed obj, its resourceVersion
    result,             \* what the call returned
    cancelled,          \* ctx.Done() is closed
    attempts,           \* condition calls made (history)
    slept,              \* the sleep durations, in order (history)
    nominal,            \* the un-jittered duration of each sleep (history)
    cancelInSleep       \* the context was cancelled while the loop slept (history)

vars == <<storeVal, rv, hist, cacheIdx, pc, i, duration, before, obj, objRV, result,
          cancelled, attempts, slept, nominal, cancelInSleep>>

Results == {"none", "ok", "get_err", "transform_err", "update_err",
            "canceled", "timeout"}

TypeOK ==
    /\ storeVal \in Vals
    /\ rv \in 0..MaxRV
    /\ hist \in Seq(Vals)
    /\ cacheIdx \in 1..Len(hist)
    /\ pc \in {"cond_get", "cond_update", "sleep", "done"}
    /\ i \in 0..(Steps + 1)
    /\ duration \in Nat
    /\ before \in Vals /\ obj \in Vals
    /\ objRV \in 0..MaxRV
    /\ result \in Results
    /\ cancelled \in BOOLEAN
    /\ attempts \in 0..Steps
    /\ slept \in Seq(Nat)
    /\ nominal \in Seq(Nat)
    /\ cancelInSleep \in BOOLEAN

(***************************************************************************)
(* wait.Jitter(d, j) = d + time.Duration(rand.Float64() * j * float64(d)): *)
(* d plus a truncated fraction strictly below j*d.                         *)
(***************************************************************************)
Jittered(d) ==
    IF JitterNum = 0 \/ d = 0
      THEN {d}
      ELSE {d + x : x \in {y \in 0..d : y * JitterDen < d * JitterNum}}

\* duration = time.Duration(float64(duration) * backoff.Factor)
NextDuration(d) == (d * FactorNum) \div FactorDen

\* Mutant: the loop condition i < backoff.Steps is dropped.
LoopHeadUnbounded(n) == pc' = "cond_get" /\ UNCHANGED result

\* The loop head: `for ...; i < backoff.Steps; ...`; past it the loop ends
\* with wait.ErrWaitTimeout.
LoopHead(n) ==
    IF n < Steps
      THEN pc' = "cond_get" /\ UNCHANGED result
      ELSE pc' = "done" /\ result' = "timeout"

Init ==
    /\ storeVal \in Vals
    /\ rv = 0
    /\ hist = <<storeVal>>
    /\ cacheIdx = 1
    /\ i = 0
    /\ duration = Duration
    /\ before = storeVal /\ obj = storeVal /\ objRV = 0
    /\ pc = IF 0 < Steps THEN "cond_get" ELSE "done"
    /\ result = IF 0 < Steps THEN "none" ELSE "timeout"
    /\ cancelled = FALSE
    /\ attempts = 0
    /\ slept = <<>>
    /\ nominal = <<>>
    /\ cancelInSleep = FALSE

-----------------------------------------------------------------------------
(***************************************************************************)
(* The condition of tryUpdate, one store call per step.                    *)
(***************************************************************************)

\* The condition returns an error or true: exponentialBackoff returns it.
Return(r) == pc' = "done" /\ result' = r

\* What the Get returns: the cached object and its resourceVersion, or the
\* stored ones.
ReadVal == IF Cached THEN hist[cacheIdx] ELSE storeVal
ReadRV == IF Cached THEN cacheIdx - 1 ELSE rv

\* Get; on success DeepCopy into beforeTransform, run the transform, and
\* return true without a write if reflect.DeepEqual finds no change.
CondGet ==
    /\ pc = "cond_get"
    /\ attempts' = attempts + 1
    /\ \/ /\ Return("get_err")
          /\ UNCHANGED <<before, obj, objRV>>
       \/ /\ before' = ReadVal
          /\ objRV' = ReadRV
          /\ \/ Return("transform_err") /\ obj' = ReadVal
             \/ /\ obj' = Transform(ReadVal)
                /\ IF obj' = before'
                     THEN Return("ok")
                     ELSE pc' = "cond_update" /\ UNCHANGED result
    /\ UNCHANGED <<storeVal, rv, hist, cacheIdx, i, duration, cancelled, slept,
                   nominal, cancelInSleep>>

\* Mutant: the duration is multiplied by the factor before the first sleep.
AfterConflictGrownFirst ==
    IF cancelled
      THEN Return("canceled") /\ UNCHANGED <<slept, nominal>>
      ELSE /\ pc' = "sleep"
           /\ UNCHANGED result
           /\ nominal' = Append(nominal, duration)
           /\ \E d \in Jittered(NextDuration(duration)) :
                  slept' = Append(slept, d)

\* A condition that returned (false, nil), i.e. after a conflict: unless
\* ctx.Done() is closed, sleep the jittered duration.
AfterConflict ==
    IF cancelled
      THEN Return("canceled") /\ UNCHANGED <<slept, nominal>>
      ELSE /\ pc' = "sleep"
           /\ UNCHANGED result
           /\ nominal' = Append(nominal, duration)
           /\ \E d \in Jittered(duration) : slept' = Append(slept, d)

\* Mutant: the update is written without the resourceVersion check.
CondUpdateNoLock ==
    /\ pc = "cond_update"
    /\ \/ /\ rv < MaxRV
          /\ storeVal' = obj
          /\ rv' = rv + 1
          /\ hist' = Append(hist, obj)
          /\ Return("ok")
          /\ UNCHANGED <<slept, nominal>>
       \/ /\ rv # objRV
          /\ AfterConflict
          /\ UNCHANGED <<storeVal, rv, hist>>
       \/ /\ Return("update_err")
          /\ UNCHANGED <<storeVal, rv, hist, slept, nominal>>
    /\ UNCHANGED <<cacheIdx, i, duration, before, obj, objRV, cancelled,
                   attempts, cancelInSleep>>

\* updateFunc (c.Update or c.Status().Update) with the resourceVersion
\* read by the Get: a conflict makes the condition return (false, nil).
CondUpdate ==
    /\ pc = "cond_update"
    /\ \/ /\ rv = objRV
          /\ rv < MaxRV
          /\ storeVal' = obj
          /\ rv' = rv + 1
          /\ hist' = Append(hist, obj)
          /\ Return("ok")
          /\ UNCHANGED <<slept, nominal>>
       \/ /\ rv # objRV
          /\ AfterConflict
          /\ UNCHANGED <<storeVal, rv, hist>>
       \/ /\ Return("update_err")
          /\ UNCHANGED <<storeVal, rv, hist, slept, nominal>>
    /\ UNCHANGED <<cacheIdx, i, duration, before, obj, objRV, cancelled,
                   attempts, cancelInSleep>>

\* The sleep ends: the duration grows by the factor, i is incremented twice
\* (the `i++` at the end of the body and the loop's own), and the loop
\* head is evaluated again.
SleepEnd ==
    /\ pc = "sleep"
    /\ duration' = NextDuration(duration)
    /\ i' = i + 2
    /\ LoopHead(i + 2)
    /\ UNCHANGED <<storeVal, rv, hist, cacheIdx, before, obj, objRV,
                   cancelled, attempts, slept, nominal, cancelInSleep>>

-----------------------------------------------------------------------------
(***************************************************************************)
(* The environment.                                                        *)
(***************************************************************************)

\* Another writer updates the object.
OtherWrite ==
    /\ rv < MaxRV
    /\ \E v \in Vals : storeVal' = v /\ hist' = Append(hist, v)
    /\ rv' = rv + 1
    /\ UNCHANGED <<cacheIdx, pc, i, duration, before, obj, objRV, result,
                   cancelled, attempts, slept, nominal, cancelInSleep>>

\* The informer delivers the next write into the cache.
CacheAdvance ==
    /\ cacheIdx < Len(hist)
    /\ cacheIdx' = cacheIdx + 1
    /\ UNCHANGED <<storeVal, rv, hist, pc, i, duration, before, obj, objRV,
                   result, cancelled, attempts, slept, nominal, cancelInSleep>>

\* The caller cancels the context.
Cancel ==
    /\ ~cancelled
    /\ cancelled' = TRUE
    /\ cancelInSleep' = (pc = "sleep")
    /\ UNCHANGED <<storeVal, rv, hist, cacheIdx, pc, i, duration, before, obj,
                   objRV, result, attempts, slept, nominal>>

Next == CondGet \/ CondUpdate \/ SleepEnd \/ OtherWrite \/ CacheAdvance \/ Cancel

Spec == Init /\ [][Next]_vars

-----------------------------------------------------------------------------
(***************************************************************************)
(* Properties.                                                             *)
(***************************************************************************)

(***************************************************************************)
(* Refinement: the Get-transform-compare-Update loop implements the        *)
(* atomic update of AtomicUpdate.  The store is the abstract object; the   *)
(* call is running until it returns, then ok or failed.  A successful      *)
(* Update, or a Get whose transform changes nothing, is the abstract Apply;*)
(* every error return is Abort; the other writer's write is Interfere;     *)
(* the Get that goes on to Update, conflicts, sleeps and the cancellation  *)
(* are stuttering steps.                                                   *)
(***************************************************************************)
CallStatus ==
    IF pc # "done" THEN "running" ELSE IF result = "ok" THEN "ok" ELSE "failed"

AU == INSTANCE AtomicUpdate WITH val <- storeVal, ver <- rv, status <- CallStatus

(* TryUpdate behaves as an atomic read-modify-write: a success applied the *)
(* transform to the object current at that instant, without a write when   *)
(* it changed nothing, and a failure wrote nothing.  A lost update, or a   *)
(* write of an unchanged object, is a step AtomicUpdate does not allow.    *)
(* The no-op return of line 167 is such a success only when the Get of     *)
(* line 158 returned the stored object: with a cache-served Get the call   *)
(* may return nil having compared a stale copy.                            *)
ImplementsAtomicUpdate == AU!Spec

(* The k-th sleep of exponentialBackoff lasts the k-th duration of the     *)
(* policy, jittered: the nominal durations are Duration, then each the     *)
(* previous one times Factor, truncated to an integer, and each sleep is   *)
(* its nominal duration plus less than Jitter times it.                    *)
ScheduleFollowsPolicy ==
    /\ Len(nominal) = Len(slept)
    /\ \A k \in 1..Len(slept) : slept[k] \in Jittered(nominal[k])
    /\ Len(nominal) > 0 => nominal[1] = Duration
    /\ \A k \in 2..Len(nominal) : nominal[k] = NextDuration(nominal[k - 1])

(* The attempt budget: a call that gives up with wait.ErrWaitTimeout has   *)
(* run the Get-transform-Update condition exactly backoff.Steps times.     *)
AttemptBudget ==
    (pc = "done" /\ result = "timeout") => attempts = Steps

(* A cancellation that fires while exponentialBackoff sleeps makes the     *)
(* call return the context's error, not a success or ErrWaitTimeout.       *)
CancelDuringSleepAborts ==
    (pc = "done" /\ cancelInSleep) => result = "canceled"

(* exponentialBackoff sleeps only between two attempts (spec 4.1          *)
(* TransformAndUpdate: on a conflict retry after the backoff delay "unless *)
(* the policy's step budget ... has been exhausted, in which case fail"):  *)
(* a call that has returned has slept fewer times than it attempted.      *)
SleepsOnlyBetweenAttempts ==
    (pc = "done" /\ attempts > 0) => Len(slept) < attempts

=============================================================================
