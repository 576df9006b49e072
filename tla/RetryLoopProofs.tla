---------------------------- MODULE RetryLoopProofs ----------------------------
(***************************************************************************)
(* Proofs about the retry loop of TryUpdate: it stays well typed, sleeps  *)
(* on the backoff policy's schedule and implements AtomicUpdate, for every *)
(* transform, value set, backoff policy and write bound.                   *)
(***************************************************************************)
EXTENDS RetryLoop, TLAPS

USE RetryAssumption

(***************************************************************************)
(* The history of writes: one entry per resourceVersion, the last one the  *)
(* stored object, and the cache at one of them.                            *)
(***************************************************************************)
HistOK ==
    /\ hist \in Seq(Vals)
    /\ Len(hist) = rv + 1
    /\ hist[rv + 1] = storeVal
    /\ cacheIdx \in 1..Len(hist)

(***************************************************************************)
(* The invariant the refinement rests on.  While an Update is pending, obj *)
(* is the transform of beforeTransform and differs from it; the            *)
(* resourceVersion read never runs ahead of the store's, and while it is   *)
(* still the store's, nobody has written since the Get, so the stored      *)
(* object is still beforeTransform.  This holds for a cached Get as well:  *)
(* a cache at the store's resourceVersion shows the stored object.         *)
(***************************************************************************)
PendingUpdate ==
    pc = "cond_update" =>
        /\ obj = Transform(before)
        /\ obj # before
        /\ (rv = objRV => storeVal = before)

RInv ==
    /\ storeVal \in Vals /\ obj \in Vals
    /\ rv \in Nat /\ objRV \in Nat /\ objRV <= rv
    /\ pc \in {"cond_get", "cond_update", "sleep", "done"}
    /\ HistOK
    /\ PendingUpdate

LEMMA RInvInit == Init => RInv
BY DEF Init, RInv, HistOK, PendingUpdate

LEMMA RInvStep == RInv /\ [Next]_vars => RInv'
<1> SUFFICES ASSUME RInv, [Next]_vars PROVE RInv'
  OBVIOUS
<1>1. CASE CondGet
  BY <1>1 DEF CondGet, ReadVal, ReadRV, Return, RInv, HistOK, PendingUpdate
<1>2. CASE CondUpdate
  <2>1. CASE rv' = rv + 1
    <3>1. /\ pc = "cond_update" /\ rv = objRV
          /\ storeVal' = obj /\ hist' = Append(hist, obj) /\ pc' = "done"
          /\ UNCHANGED <<cacheIdx, obj, objRV>>
      BY <1>2, <2>1 DEF CondUpdate, AfterConflict, Return, RInv
    <3>2. Len(hist') = rv' + 1 /\ hist'[rv' + 1] = storeVal'
      BY <2>1, <3>1 DEF RInv, HistOK, PendingUpdate
    <3>3. QED
      BY <2>1, <3>1, <3>2 DEF RInv, HistOK, PendingUpdate
  <2>2. CASE rv' # rv + 1
    BY <1>2, <2>2 DEF CondUpdate, AfterConflict, Return, RInv, HistOK,
       PendingUpdate
  <2>3. QED
    BY <2>1, <2>2
<1>3. CASE SleepEnd
  BY <1>3 DEF SleepEnd, LoopHead, RInv, HistOK, PendingUpdate
<1>4. CASE OtherWrite
  <2>1. PICK v \in Vals : storeVal' = v /\ hist' = Append(hist, v)
    BY <1>4 DEF OtherWrite
  <2>2. Len(hist') = rv' + 1 /\ hist'[rv' + 1] = storeVal'
    BY <1>4, <2>1 DEF OtherWrite, RInv, HistOK
  <2>3. QED
    BY <1>4, <2>1, <2>2 DEF OtherWrite, RInv, HistOK, PendingUpdate
<1>5. CASE CacheAdvance
  BY <1>5 DEF CacheAdvance, RInv, HistOK, PendingUpdate
<1>6. CASE Cancel
  BY <1>6 DEF Cancel, RInv, HistOK, PendingUpdate
<1>7. CASE UNCHANGED vars
  BY <1>7 DEF vars, RInv, HistOK, PendingUpdate
<1>8. QED
  BY <1>1, <1>2, <1>3, <1>4, <1>5, <1>6, <1>7 DEF Next

\* A non-empty step budget starts the call running.
LEMMA InitMaps == Steps # 0 => (Init => AU!Init)
BY DEF Init, AU!Init, CallStatus

\* With a Get that reads the store, every step of the loop is a step of
\* AtomicUpdate or leaves the store and the call's status as they are.  The
\* Get is the one step that needs it: its no-op success is an Apply only if
\* the object it compared is the stored one.
LEMMA StepMaps == ~Cached /\ RInv /\ [Next]_vars => [AU!Next]_AU!vars
<1> SUFFICES ASSUME ~Cached, RInv, [Next]_vars PROVE [AU!Next]_AU!vars
  OBVIOUS
<1>1. CASE CondGet
  BY <1>1 DEF CondGet, ReadVal, ReadRV, Return, RInv, AU!Next, AU!Apply,
             AU!Abort, AU!vars, CallStatus
<1>2. CASE CondUpdate
  BY <1>2 DEF CondUpdate, AfterConflict, Return, RInv, PendingUpdate,
             AU!Next, AU!Apply, AU!Abort, AU!vars, CallStatus
<1>3. CASE SleepEnd
  BY <1>3 DEF SleepEnd, LoopHead, RInv, AU!Next, AU!Abort, AU!vars,
             CallStatus
<1>4. CASE OtherWrite
  BY <1>4 DEF OtherWrite, AU!Next, AU!Interfere, AU!vars, CallStatus
<1>5. CASE CacheAdvance
  BY <1>5 DEF CacheAdvance, AU!vars, CallStatus
<1>6. CASE Cancel
  BY <1>6 DEF Cancel, AU!vars, CallStatus
<1>7. CASE UNCHANGED vars
  BY <1>7 DEF vars, AU!vars, CallStatus
<1>8. QED
  BY <1>1, <1>2, <1>3, <1>4, <1>5, <1>6, <1>7 DEF Next

(* TryUpdate with a non-empty step budget and a client whose Get reads the *)
(* API server is an atomic read-modify-write of the stored object:         *)
(* ImplementsAtomicUpdate, the property run retry_loop checks, holds for   *)
(* every value of the other constants.  With a cache-served Get it does    *)
(* not (run retry_stale_noop).                                             *)
THEOREM Refinement == Steps # 0 /\ ~Cached => (Spec => ImplementsAtomicUpdate)
<1> SUFFICES ASSUME Steps # 0, ~Cached PROVE Spec => ImplementsAtomicUpdate
  OBVIOUS
<1>1. Spec => []RInv
  BY RInvInit, RInvStep, PTL DEF Spec
<1>2. Init => AU!Init
  BY InitMaps
<1>3. QED
  BY <1>1, <1>2, StepMaps, PTL DEF Spec, ImplementsAtomicUpdate, AU!Spec
-----------------------------------------------------------------------------
(***************************************************************************)
(* Type correctness.  The loop counter and the attempt count move in step: *)
(* each attempt is one condition call and each sleep adds two to i, so at  *)
(* a store call i = 2 * (attempts - 1) < Steps; this is what keeps         *)
(* attempts within backoff.Steps and i within Steps + 1.                   *)
(***************************************************************************)
CountInv ==
    /\ pc = "cond_get" => i = 2 * attempts /\ i < Steps
    /\ pc \in {"cond_update", "sleep"} =>
          attempts >= 1 /\ i = 2 * (attempts - 1) /\ i < Steps

\* TypeOK split into its Boolean-valued part and the rest.
BoolOK == cancelled \in BOOLEAN /\ cancelInSleep \in BOOLEAN

DataOK ==
    /\ storeVal \in Vals
    /\ rv \in 0..MaxRV
    /\ hist \in Seq(Vals) /\ Len(hist) = rv + 1
    /\ cacheIdx \in 1..Len(hist)
    /\ pc \in {"cond_get", "cond_update", "sleep", "done"}
    /\ i \in 0..(Steps + 1)
    /\ duration \in Nat
    /\ before \in Vals /\ obj \in Vals
    /\ objRV \in 0..MaxRV
    /\ result \in Results
    /\ attempts \in 0..Steps
    /\ slept \in Seq(Nat)
    /\ nominal \in Seq(Nat)

TInv == DataOK /\ CountInv

\* A backoff duration times the factor is again a duration.
LEMMA NextDurationNat == ASSUME NEW d \in Nat PROVE NextDuration(d) \in Nat
BY DEF NextDuration

\* A jittered duration is a duration.
LEMMA JitteredNat == ASSUME NEW d \in Nat PROVE Jittered(d) \subseteq Nat
BY DEF Jittered

LEMMA BoolOKInvariant == Spec => []BoolOK
<1>1. Init => BoolOK
  BY Zenon DEF Init, BoolOK
<1>2. BoolOK /\ [Next]_vars => BoolOK'
  BY Zenon DEF BoolOK, Next, vars, CondGet, CondUpdate, SleepEnd, OtherWrite,
     CacheAdvance, Cancel
<1>3. QED
  BY <1>1, <1>2, PTL DEF Spec

LEMMA TInvInit == Init => TInv
BY DEF Init, TInv, DataOK, CountInv, Results

LEMMA TInvStep == TInv /\ [Next]_vars => TInv'
<1> SUFFICES ASSUME TInv, [Next]_vars PROVE TInv'
  OBVIOUS
<1>1. CASE CondGet
  BY <1>1 DEF CondGet, ReadVal, ReadRV, Return, TInv, DataOK, CountInv, Results
<1>2. CASE CondUpdate
  <2>1. CASE pc' = "sleep"
    <3>1. PICK d \in Jittered(duration) : slept' = Append(slept, d)
      BY <1>2, <2>1 DEF CondUpdate, AfterConflict, Return
    <3>2. d \in Nat
      BY <3>1, JitteredNat DEF TInv, DataOK
    <3>3. /\ pc = "cond_update"
          /\ nominal' = Append(nominal, duration)
          /\ UNCHANGED <<storeVal, rv, hist, cacheIdx, i, duration, before,
                         obj, objRV, result, attempts>>
      BY <1>2, <2>1 DEF CondUpdate, AfterConflict, Return
    <3>4. QED
      BY <2>1, <3>1, <3>2, <3>3 DEF TInv, DataOK, CountInv
  <2>2. CASE pc' # "sleep"
    <3>1. CASE rv' = rv + 1
      <4>1. /\ hist' = Append(hist, obj) /\ obj \in Vals
            /\ UNCHANGED cacheIdx
        BY <1>2, <3>1 DEF CondUpdate, AfterConflict, Return, TInv, DataOK
      <4>2. hist' \in Seq(Vals) /\ Len(hist') = rv' + 1
            /\ cacheIdx' \in 1..Len(hist')
        BY <3>1, <4>1 DEF TInv, DataOK
      <4>3. QED
        BY <1>2, <2>2, <4>2 DEF CondUpdate, AfterConflict, Return, TInv,
           DataOK, CountInv, Results
    <3>2. CASE rv' # rv + 1
      BY <1>2, <2>2, <3>2 DEF CondUpdate, AfterConflict, Return, TInv, DataOK,
         CountInv, Results
    <3>3. QED
      BY <3>1, <3>2
  <2>3. QED
    BY <2>1, <2>2
<1>3. CASE SleepEnd
  <2>1. NextDuration(duration) \in Nat
    BY NextDurationNat DEF TInv, DataOK
  <2>2. QED
    BY <1>3, <2>1 DEF SleepEnd, LoopHead, TInv, DataOK, CountInv, Results
<1>4. CASE OtherWrite
  <2>1. PICK v \in Vals : storeVal' = v /\ hist' = Append(hist, v)
    BY <1>4 DEF OtherWrite
  <2>2. hist' \in Seq(Vals) /\ Len(hist') = rv' + 1
        /\ cacheIdx' \in 1..Len(hist')
    BY <1>4, <2>1 DEF OtherWrite, TInv, DataOK
  <2>3. QED
    BY <1>4, <2>1, <2>2 DEF OtherWrite, TInv, DataOK, CountInv
<1>5. CASE CacheAdvance
  BY <1>5 DEF CacheAdvance, TInv, DataOK, CountInv
<1>6. CASE Cancel
  BY <1>6 DEF Cancel, TInv, DataOK, CountInv
<1>7. CASE UNCHANGED vars
  BY <1>7 DEF vars, TInv, DataOK, CountInv
<1>8. QED
  BY <1>1, <1>2, <1>3, <1>4, <1>5, <1>6, <1>7 DEF Next

(* The loop's state stays well typed for every policy and write bound:    *)
(* in particular attempts never exceeds backoff.Steps, the TypeOK that     *)
(* run retry_loop checks.                                                  *)
THEOREM TypeCorrect == Spec => []TypeOK
<1>1. Spec => []TInv
  BY TInvInit, TInvStep, PTL DEF Spec
<1>2. TInv /\ BoolOK => TypeOK
  BY Zenon DEF TInv, DataOK, BoolOK, TypeOK
<1>3. QED
  BY <1>1, <1>2, BoolOKInvariant, PTL

-----------------------------------------------------------------------------
(***************************************************************************)
(* The backoff schedule.  ScheduleFollowsPolicy speaks of the sleeps       *)
(* already taken; what makes it inductive is where the current duration    *)
(* stands: before the next sleep it is Duration if none was taken and the  *)
(* last nominal duration times the factor otherwise, and during a sleep    *)
(* it is the nominal duration of that sleep.                               *)
(***************************************************************************)
DurationFollows ==
    /\ pc \in {"cond_get", "cond_update"} =>
          duration = IF nominal = <<>> THEN Duration
                     ELSE NextDuration(nominal[Len(nominal)])
    /\ pc = "sleep" => nominal # <<>> /\ duration = nominal[Len(nominal)]

SInv == ScheduleFollowsPolicy /\ DurationFollows

LEMMA SInvInit == Init => SInv
BY DEF Init, SInv, ScheduleFollowsPolicy, DurationFollows

LEMMA SInvStep == TInv /\ SInv /\ [Next]_vars => SInv'
<1> SUFFICES ASSUME TInv, SInv, [Next]_vars PROVE SInv'
  OBVIOUS
<1> USE DEF TInv, DataOK
<1>1. CASE CondGet
  BY <1>1 DEF CondGet, Return, SInv, ScheduleFollowsPolicy, DurationFollows
<1>2. CASE CondUpdate
  <2>1. CASE pc' = "sleep"
    <3>1. PICK d \in Jittered(duration) : slept' = Append(slept, d)
      BY <1>2, <2>1 DEF CondUpdate, AfterConflict, Return
    <3>2. /\ pc = "cond_update"
          /\ nominal' = Append(nominal, duration)
          /\ UNCHANGED duration
      BY <1>2, <2>1 DEF CondUpdate, AfterConflict, Return
    <3>3. duration \in Nat /\ d \in Nat
      BY <3>1, JitteredNat
    <3>4. Len(nominal') = Len(slept')
      BY <3>1, <3>2, <3>3 DEF SInv, ScheduleFollowsPolicy
    <3>5. \A k \in 1..Len(slept') : slept'[k] \in Jittered(nominal'[k])
      BY <3>1, <3>2, <3>3 DEF SInv, ScheduleFollowsPolicy
    <3>6. Len(nominal') > 0 => nominal'[1] = Duration
      <4>1. CASE nominal = <<>>
        <5>1. duration = Duration
          BY <3>2, <4>1 DEF SInv, DurationFollows
        <5>2. QED
          BY <3>2, <3>3, <4>1, <5>1
      <4>2. CASE nominal # <<>>
        BY <3>2, <3>3, <4>2 DEF SInv, ScheduleFollowsPolicy
      <4>3. QED
        BY <4>1, <4>2
    <3>7. \A k \in 2..Len(nominal') : nominal'[k] = NextDuration(nominal'[k - 1])
      <4> SUFFICES ASSUME NEW k \in 2..Len(nominal')
                   PROVE  nominal'[k] = NextDuration(nominal'[k - 1])
        OBVIOUS
      <4>1. CASE k = Len(nominal')
        <5>1. nominal # <<>> /\ k - 1 = Len(nominal)
          BY <3>2, <3>3, <4>1
        <5>2. duration = NextDuration(nominal[Len(nominal)])
          BY <3>2, <5>1 DEF SInv, DurationFollows
        <5>3. QED
          BY <3>2, <3>3, <4>1, <5>1, <5>2
      <4>2. CASE k # Len(nominal')
        BY <3>2, <3>3, <4>2, SMTT(30) DEF SInv, ScheduleFollowsPolicy
      <4>3. QED
        BY <4>1, <4>2
    <3>8. DurationFollows'
      <4>1. Len(nominal') = Len(nominal) + 1
        BY <3>2, <3>3
      <4>2. nominal' # <<>> /\ nominal'[Len(nominal')] = duration'
        BY <3>2, <3>3, <4>1
      <4>3. QED
        BY <2>1, <4>2 DEF DurationFollows
    <3>9. QED
      BY <3>4, <3>5, <3>6, <3>7, <3>8 DEF SInv, ScheduleFollowsPolicy
  <2>2. CASE pc' # "sleep"
    BY <1>2, <2>2 DEF CondUpdate, AfterConflict, Return, SInv,
       ScheduleFollowsPolicy, DurationFollows
  <2>3. QED
    BY <2>1, <2>2
<1>3. CASE SleepEnd
  BY <1>3 DEF SleepEnd, LoopHead, SInv, ScheduleFollowsPolicy, DurationFollows
<1>4. CASE OtherWrite
  BY <1>4 DEF OtherWrite, SInv, ScheduleFollowsPolicy, DurationFollows
<1>5. CASE CacheAdvance
  BY <1>5 DEF CacheAdvance, SInv, ScheduleFollowsPolicy, DurationFollows
<1>6. CASE Cancel
  BY <1>6 DEF Cancel, SInv, ScheduleFollowsPolicy, DurationFollows
<1>7. CASE UNCHANGED vars
  BY <1>7 DEF vars, SInv, ScheduleFollowsPolicy, DurationFollows
<1>8. QED
  BY <1>1, <1>2, <1>3, <1>4, <1>5, <1>6, <1>7 DEF Next

(* Every sleep of exponentialBackoff lasts its nominal duration, jittered, *)
(* and the nominal durations are Duration, Duration*Factor, ... truncated  *)
(* step by step: ScheduleFollowsPolicy, which run retry_loop checks, holds *)
(* for every backoff policy.                                               *)
THEOREM ScheduleThm == Spec => []ScheduleFollowsPolicy
<1>1. Spec => []TInv
  BY TInvInit, TInvStep, PTL DEF Spec
<1>2. Spec => []SInv
  BY <1>1, SInvInit, SInvStep, PTL DEF Spec
<1>3. QED
  BY <1>2, PTL DEF SInv
=============================================================================
