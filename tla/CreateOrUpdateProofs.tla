------------------------- MODULE CreateOrUpdateProofs -------------------------
(***************************************************************************)
(* Proofs about CreateOrUpdate for every set of callers, every set of      *)
(* values, either read path and every bound on writes: the type invariant, *)
(* and that an Update of TypedCreateOrUpdate accepted by the API server    *)
(* never overwrites a write the caller did not read.                       *)
(***************************************************************************)
EXTENDS CreateOrUpdate, TLAPS

USE CreateOrUpdateAssumption

\* Appending to the store's history keeps its earlier entries.
LEMMA AppendKeeps ==
    ASSUME NEW S, NEW s \in Seq(S), NEW x \in S
    PROVE  /\ Append(s, x) \in Seq(S)
           /\ Len(Append(s, x)) = Len(s) + 1
           /\ \A k \in 1..Len(s) : Append(s, x)[k] = s[k]
           /\ Append(s, x)[Len(s) + 1] = x
  OBVIOUS

\* A stored object that exists is the record of its value.
LEMMA ExistingObject ==
    ASSUME NEW o \in Objects, o.exists
    PROVE  o = [exists |-> TRUE, val |-> o.val]
  BY DEF Objects

-----------------------------------------------------------------------------
LEMMA TypeInit == Init => TypeOK
<1> SUFFICES ASSUME Init PROVE TypeOK
  OBVIOUS
<1>1. PICK o \in Objects : hist = <<o>>
  BY DEF Init
<1>2. always \in [Callers -> BOOLEAN]
  BY Zenon DEF Init
<1>3. QED
  BY <1>1, <1>2 DEF Init, TypeOK, Objects, Results, Errors

(* TypeOK without the Boolean-valued always, which Zenon handles.         *)
DataTypes ==
    /\ hist \in Seq(Objects) /\ Len(hist) \in 1..MaxRV
    /\ cacheIdx \in 1..Len(hist)
    /\ pc \in [Callers -> {"idle", "get", "create", "update", "done"}]
    /\ objVal \in [Callers -> Vals]
    /\ objRV \in [Callers -> 0..MaxRV]
    /\ existing \in [Callers -> Vals]
    /\ res \in [Callers -> Results]
    /\ err \in [Callers -> Errors]
    /\ started \in [Callers -> 0..MaxRV]
    /\ ended \in [Callers -> 0..MaxRV]

\* What a step of caller c that returns leaves in the type.
LEMMA ReturnType ==
    ASSUME DataTypes, NEW c \in Callers, NEW r \in Results, NEW e \in Errors,
           Return(c, r, e), Len(hist') \in 1..MaxRV
    PROVE  /\ pc' \in [Callers -> {"idle", "get", "create", "update", "done"}]
           /\ res' \in [Callers -> Results]
           /\ err' \in [Callers -> Errors]
           /\ ended' \in [Callers -> 0..MaxRV]
  BY DEF DataTypes, Return, RV

LEMMA StartType ==
    ASSUME DataTypes, NEW c \in Callers, Start(c) PROVE DataTypes'
  BY DEF Start, RV, DataTypes, Results, Errors

LEMMA GetType ==
    ASSUME DataTypes, NEW c \in Callers, Get(c) PROVE DataTypes'
<1> DEFINE o == hist[ReadIdx]
<1> USE DEF DataTypes, Results, Errors
<1>1. ReadIdx \in 1..Len(hist) /\ o \in Objects
  BY DEF ReadIdx, RV
<1>2. UNCHANGED <<hist, cacheIdx, always, started>>
  BY DEF Get
<1>3. CASE Return(c, "none", "other") /\ UNCHANGED <<objVal, objRV, existing>>
  BY <1>2, <1>3, ReturnType
<1>4. CASE /\ pc' = [pc EXCEPT ![c] = "create"]
           /\ objVal' = [objVal EXCEPT ![c] = Desired[c]]
           /\ UNCHANGED <<objRV, existing, res, err, ended>>
  BY <1>2, <1>4
<1>5. CASE /\ objVal' = [objVal EXCEPT ![c] = Desired[c]]
           /\ objRV' = [objRV EXCEPT ![c] = ReadIdx]
           /\ existing' = [existing EXCEPT ![c] = o.val]
           /\ IF ~always[c] /\ existing'[c] = objVal'[c]
                THEN Return(c, "none", "nil")
                ELSE /\ pc' = [pc EXCEPT ![c] = "update"]
                     /\ UNCHANGED <<res, err, ended>>
  <2>1. /\ objVal' \in [Callers -> Vals]
        /\ objRV' \in [Callers -> 0..MaxRV]
        /\ existing' \in [Callers -> Vals]
    BY <1>1, <1>5 DEF Objects
  <2>2. CASE ~always[c] /\ existing'[c] = objVal'[c]
    BY <1>2, <1>5, <2>1, <2>2, ReturnType
  <2>3. CASE ~(~always[c] /\ existing'[c] = objVal'[c])
    BY <1>2, <1>5, <2>1, <2>3
  <2>4. QED
    BY <2>2, <2>3
<1>6. QED
  BY <1>3, <1>4, <1>5 DEF Get, Found, FoundWith

\* The writes of Create and Update: a successful one appends.
LEMMA WriteReturnType ==
    ASSUME DataTypes, NEW c \in Callers, NEW r \in Results,
           Write([exists |-> TRUE, val |-> objVal[c]]), Return(c, r, "nil"),
           UNCHANGED <<cacheIdx, always, objVal, objRV, existing, started>>
    PROVE  DataTypes'
<1>1. [exists |-> TRUE, val |-> objVal[c]] \in Objects
  BY DEF DataTypes, Objects
<1>2. hist' \in Seq(Objects) /\ Len(hist') = Len(hist) + 1 /\ Len(hist) < MaxRV
  BY <1>1, AppendKeeps DEF Write, RV, DataTypes
<1>3. QED
  BY <1>2, ReturnType DEF DataTypes, Results, Errors

LEMMA CreateType ==
    ASSUME DataTypes, NEW c \in Callers, Create(c) PROVE DataTypes'
<1>1. UNCHANGED <<cacheIdx, always, objVal, objRV, existing, started>>
  BY DEF Create
<1>2. CASE Write([exists |-> TRUE, val |-> objVal[c]])
           /\ Return(c, "created", "nil")
  BY <1>1, <1>2, WriteReturnType DEF Results
<1>3. CASE UNCHANGED hist /\ \E e \in Errors : Return(c, "created", e)
  BY <1>1, <1>3, ReturnType DEF DataTypes, Results, Errors
<1>4. QED
  BY <1>2, <1>3 DEF Create, Errors

LEMMA UpdateType ==
    ASSUME DataTypes, NEW c \in Callers, Update(c) PROVE DataTypes'
<1>1. UNCHANGED <<cacheIdx, always, objVal, objRV, existing, started>>
  BY DEF Update
<1>2. CASE Write([exists |-> TRUE, val |-> objVal[c]])
           /\ Return(c, "updated", "nil")
  BY <1>1, <1>2, WriteReturnType DEF Results
<1>3. CASE UNCHANGED hist /\ \E e \in Errors : Return(c, "updated", e)
  BY <1>1, <1>3, ReturnType DEF DataTypes, Results, Errors
<1>4. QED
  BY <1>2, <1>3 DEF Update, Errors

LEMMA OtherWriteType == ASSUME DataTypes, OtherWrite PROVE DataTypes'
<1>1. PICK o \in Objects : o # Current /\ Write(o)
  BY DEF OtherWrite
<1>2. hist' = Append(hist, o) /\ Len(hist) < MaxRV
  BY <1>1 DEF Write, RV
<1>3. hist' \in Seq(Objects) /\ Len(hist') = Len(hist) + 1
  BY <1>2, AppendKeeps DEF DataTypes
<1>4. UNCHANGED <<cacheIdx, pc, objVal, objRV, existing, res, err, started,
                  ended>>
  BY DEF OtherWrite
<1>5. QED
  BY <1>2, <1>3, <1>4 DEF DataTypes, Results, Errors

LEMMA CacheAdvanceType == ASSUME DataTypes, CacheAdvance PROVE DataTypes'
<1>1. cacheIdx < Len(hist) /\ cacheIdx' = cacheIdx + 1
  BY DEF CacheAdvance, RV
<1>2. UNCHANGED <<hist, pc, objVal, objRV, existing, res, err, started, ended>>
  BY DEF CacheAdvance
<1>3. QED
  BY <1>1, <1>2 DEF DataTypes, Results, Errors

LEMMA TypeStep == TypeOK /\ [Next]_vars => TypeOK'
<1> SUFFICES ASSUME TypeOK, [Next]_vars
             PROVE  DataTypes' /\ always' \in [Callers -> BOOLEAN]
  BY Zenon DEF TypeOK, DataTypes
<1>1. DataTypes
  BY Zenon DEF TypeOK, DataTypes
<1>2. always' \in [Callers -> BOOLEAN]
  BY Zenon DEF TypeOK, Next, vars, Start, Get, Create, Update, OtherWrite,
     CacheAdvance
<1>3. DataTypes'
  <2>1. CASE UNCHANGED vars
    BY <1>1, <2>1 DEF vars, DataTypes, Results, Errors
  <2>2. QED
    BY <1>1, <2>1, StartType, GetType, CreateType, UpdateType,
       OtherWriteType, CacheAdvanceType DEF Next
<1>4. QED
  BY <1>2, <1>3

(* Every behaviour keeps every variable in its type; in particular the     *)
(* store's history never exceeds MaxRV writes and the cache never runs     *)
(* ahead of the store.                                                     *)
THEOREM TypeCorrect == Spec => []TypeOK
  BY TypeInit, TypeStep, PTL DEF Spec

-----------------------------------------------------------------------------
(***************************************************************************)
(* NoLostUpdate.  The argument: the Get of TypedCreateOrUpdate copies the  *)
(* resourceVersion it read into obj together with the value, so a caller   *)
(* about to Update holds a version k whose stored object is exactly the    *)
(* one it read (ReadInSync).  The history only grows, so this stays true   *)
(* while other writers write.  The API server accepts the Update only when *)
(* k is the current version, and then the object replaced is hist[k].     *)
(***************************************************************************)

\* ReadInSync for one caller.
InSync(d) ==
    pc[d] = "update"
        => /\ objRV[d] \in 1..Len(hist)
           /\ hist[objRV[d]] = [exists |-> TRUE, val |-> existing[d]]

LEMMA InSyncAll == ReadInSync <=> \A d \in Callers : InSync(d)
  BY DEF ReadInSync, InSync, RV

\* A caller the step leaves alone stays in sync while the history grows.
LEMMA KeepSync ==
    ASSUME DataTypes, NEW d \in Callers, InSync(d),
           pc'[d] = pc[d], objRV'[d] = objRV[d], existing'[d] = existing[d],
           \/ hist' = hist
           \/ \E x \in Objects : hist' = Append(hist, x)
    PROVE  InSync(d)'
<1>1. CASE hist' = hist
  BY <1>1 DEF InSync
<1>2. CASE \E x \in Objects : hist' = Append(hist, x)
  <2>1. PICK x \in Objects : hist' = Append(hist, x)
    BY <1>2
  <2>2. /\ Len(hist') = Len(hist) + 1
        /\ \A k \in 1..Len(hist) : hist'[k] = hist[k]
    BY <2>1, AppendKeeps DEF DataTypes
  <2>3. QED
    BY <2>2 DEF InSync
<1>3. QED
  BY <1>1, <1>2

\* Each step keeps every caller in sync.
LEMMA SyncStep ==
    ASSUME TypeOK, ReadInSync, [Next]_vars
    PROVE  ReadInSync'
<1>0. DataTypes /\ \A d \in Callers : InSync(d)
  BY InSyncAll, Zenon DEF TypeOK, DataTypes
<1> SUFFICES ASSUME NEW d \in Callers PROVE InSync(d)'
  BY DEF ReadInSync, InSync, RV
<1>1. ASSUME NEW c \in Callers, Start(c) PROVE InSync(d)'
  <2>1. CASE d = c
    BY <1>1, <2>1, <1>0 DEF Start, InSync, DataTypes
  <2>2. CASE d # c
    BY <1>1, <2>2, <1>0, KeepSync DEF Start
  <2>3. QED
    BY <2>1, <2>2
<1>2. ASSUME NEW c \in Callers, Get(c) PROVE InSync(d)'
  <2> DEFINE o == hist[ReadIdx]
  <2>1. ReadIdx \in 1..Len(hist) /\ o \in Objects
    BY <1>0 DEF ReadIdx, RV, DataTypes
  <2>2. CASE d # c
    <3>1. hist' = hist
      BY <1>2 DEF Get
    <3>2. pc'[d] = pc[d] /\ objRV'[d] = objRV[d] /\ existing'[d] = existing[d]
      <4> USE <1>0, <2>2 DEF DataTypes
      <4>1. CASE Return(c, "none", "other") /\ UNCHANGED <<objVal, objRV, existing>>
        BY <4>1 DEF Return
      <4>2. CASE /\ pc' = [pc EXCEPT ![c] = "create"]
                 /\ UNCHANGED <<objRV, existing>>
        BY <4>2
      <4>3. CASE /\ objRV' = [objRV EXCEPT ![c] = ReadIdx]
                 /\ existing' = [existing EXCEPT ![c] = o.val]
                 /\ IF ~always[c] /\ existing'[c] = objVal'[c]
                      THEN Return(c, "none", "nil")
                      ELSE pc' = [pc EXCEPT ![c] = "update"]
        BY <4>3 DEF Return
      <4>4. QED
        BY <1>2, <4>1, <4>2, <4>3 DEF Get, Found, FoundWith
    <3>3. QED
      BY <3>1, <3>2, <1>0, KeepSync
  <2>3. CASE d = c /\ pc'[c] = "update"
    <3>1. o.exists /\ objRV'[c] = ReadIdx /\ existing'[c] = o.val
      BY <1>2, <2>3, <1>0 DEF Get, Found, FoundWith, Return, DataTypes
    <3>2. o = [exists |-> TRUE, val |-> o.val]
      BY <2>1, <3>1, ExistingObject
    <3>3. hist' = hist
      BY <1>2 DEF Get
    <3>4. QED
      BY <2>1, <2>3, <3>1, <3>2, <3>3 DEF InSync
  <2>4. CASE d = c /\ pc'[c] # "update"
    BY <2>4 DEF InSync
  <2>5. QED
    BY <2>2, <2>3, <2>4
<1>3. ASSUME NEW c \in Callers, Create(c) \/ Update(c) PROVE InSync(d)'
  <2>1. /\ pc' = [pc EXCEPT ![c] = "done"]
        /\ UNCHANGED <<objRV, existing>>
        /\ \/ hist' = hist
           \/ hist' = Append(hist, [exists |-> TRUE, val |-> objVal[c]])
    BY <1>3 DEF Create, Update, Return, Write
  <2>2. [exists |-> TRUE, val |-> objVal[c]] \in Objects
    BY <1>0 DEF DataTypes, Objects
  <2>3. CASE d = c
    BY <2>1, <2>3, <1>0 DEF InSync, DataTypes
  <2>4. CASE d # c
    BY <2>1, <2>2, <2>4, <1>0, KeepSync DEF DataTypes
  <2>5. QED
    BY <2>3, <2>4
<1>4. CASE OtherWrite
  BY <1>4, <1>0, KeepSync DEF OtherWrite, Write
<1>5. CASE CacheAdvance
  BY <1>5, <1>0, KeepSync DEF CacheAdvance
<1>6. CASE UNCHANGED vars
  BY <1>6, <1>0, KeepSync DEF vars
<1>7. QED
  BY <1>1, <1>2, <1>3, <1>4, <1>5, <1>6 DEF Next

LEMMA IInvInit == Init => IInv
<1> SUFFICES ASSUME Init PROVE IInv
  OBVIOUS
<1>1. ReadInSync
  BY DEF Init, ReadInSync
<1>2. QED
  BY <1>1, TypeInit DEF IInv

LEMMA IInvStep == IInv /\ [Next]_vars => IInv'
  BY TypeStep, SyncStep DEF IInv

\* The step property that NoLostUpdate asserts of every step.
NoLostUpdateStep ==
    \A c \in Callers :
        (pc[c] = "update" /\ pc'[c] = "done" /\ err'[c] = "nil")
            => Current = [exists |-> TRUE, val |-> existing[c]]

LEMMA LostUpdateStep == IInv /\ [Next]_vars => [NoLostUpdateStep]_vars
<1> SUFFICES ASSUME IInv, [Next]_vars, NEW c \in Callers,
                    pc[c] = "update", pc'[c] = "done", err'[c] = "nil"
             PROVE  Current = [exists |-> TRUE, val |-> existing[c]]
  BY DEF NoLostUpdateStep
<1>0. DataTypes /\ InSync(c)
  BY InSyncAll, Zenon DEF IInv, TypeOK, DataTypes
<1>1. Update(c)
  <2>1. ASSUME NEW d \in Callers, d # c,
               Start(d) \/ Get(d) \/ Create(d) \/ Update(d)
        PROVE  FALSE
    <3> USE <1>0, <2>1 DEF DataTypes
    <3>1. CASE Start(d)
      BY <3>1 DEF Start
    <3>2. CASE Get(d)
      <4> DEFINE o == hist[ReadIdx]
      <4>1. CASE Return(d, "none", "other")
        BY <4>1 DEF Return
      <4>2. CASE pc' = [pc EXCEPT ![d] = "create"]
        BY <4>2
      <4>3. CASE IF ~always[d] /\ existing'[d] = objVal'[d]
                   THEN Return(d, "none", "nil")
                   ELSE pc' = [pc EXCEPT ![d] = "update"]
        BY <4>3 DEF Return
      <4>4. QED
        BY <3>2, <4>1, <4>2, <4>3 DEF Get, Found, FoundWith
    <3>3. CASE Create(d) \/ Update(d)
      <4>1. \E r, e : Return(d, r, e)
        BY <3>3 DEF Create, Update
      <4>2. QED
        BY <4>1 DEF Return
    <3>4. QED
      BY <3>1, <3>2, <3>3
  <2>2. ~Start(c) /\ ~Get(c) /\ ~Create(c)
    BY DEF Start, Get, Create
  <2>3. ~OtherWrite /\ ~CacheAdvance /\ ~UNCHANGED vars
    BY DEF OtherWrite, CacheAdvance, vars
  <2>4. QED
    BY <2>1, <2>2, <2>3 DEF Next
<1>2. UpdateAccepted(c)
  BY <1>0, <1>1 DEF Update, Return, DataTypes
<1>3. objRV[c] = Len(hist)
  BY <1>0, <1>2 DEF UpdateAccepted, InSync, RV
<1>4. QED
  BY <1>0, <1>3 DEF InSync, Current

(* TypedCreateOrUpdate never loses an update, for every set of callers,    *)
(* values and write bound, on the cached and the live read path alike:     *)
(* an Update the API server accepts replaces the object the caller read.   *)
THEOREM NoLostUpdateThm == Spec => NoLostUpdate
<1>1. Spec => []IInv
  BY IInvInit, IInvStep, PTL DEF Spec
<1>2. QED
  BY <1>1, LostUpdateStep, PTL DEF Spec, NoLostUpdate, NoLostUpdateStep

-----------------------------------------------------------------------------
(***************************************************************************)
(* ReturnedInSync on the live read path.  The argument: a caller that goes *)
(* on to Create or Update holds its desired value in obj (mutate ran), so  *)
(* a successful write appends the desired object at the version the call   *)
(* returns with.  A no-op return compared the desired value with the      *)
(* object the Get read; read live, that object is the current one, so the  *)
(* desired object is stored at the version the call returns with.  The     *)
(* history only grows, so the witness stays where it was.  On the cached   *)
(* path the no-op compares with an older version that may predate the     *)
(* call, which is the violation the run create_or_update_stale_noop finds. *)
(***************************************************************************)
DesiredObj(d) == [exists |-> TRUE, val |-> Desired[d]]

\* The strengthening of ReturnedInSync for one caller.
RetSync(d) ==
    /\ pc[d] # "idle" => started[d] \in 1..Len(hist)
    /\ pc[d] \in {"create", "update"} => objVal[d] = Desired[d]
    /\ pc[d] = "done" => ended[d] \in started[d]..Len(hist)
    /\ (pc[d] = "done" /\ err[d] = "nil")
          => \E k \in started[d]..ended[d] : hist[k] = DesiredObj(d)

RInv == TypeOK /\ \A d \in Callers : RetSync(d)

LEMMA RInvInit == Init => RInv
<1> SUFFICES ASSUME Init PROVE \A d \in Callers : RetSync(d)
  BY TypeInit DEF RInv
<1> QED
  BY DEF Init, RetSync

\* A caller the step leaves alone keeps RetSync while the history grows.
LEMMA KeepRet ==
    ASSUME DataTypes, NEW d \in Callers, RetSync(d),
           pc'[d] = pc[d], objVal'[d] = objVal[d], err'[d] = err[d],
           started'[d] = started[d], ended'[d] = ended[d],
           \/ hist' = hist
           \/ \E x \in Objects : hist' = Append(hist, x)
    PROVE  RetSync(d)'
<1>1. CASE hist' = hist
  BY <1>1 DEF RetSync, DesiredObj
<1>2. CASE \E x \in Objects : hist' = Append(hist, x)
  <2>1. PICK x \in Objects : hist' = Append(hist, x)
    BY <1>2
  <2>2. /\ Len(hist') = Len(hist) + 1
        /\ \A k \in 1..Len(hist) : hist'[k] = hist[k]
    BY <2>1, AppendKeeps DEF DataTypes
  <2>3. (pc[d] = "done" /\ err[d] = "nil")'
           => \E k \in started'[d]..ended'[d] : hist'[k] = DesiredObj(d)
    <3> SUFFICES ASSUME pc[d] = "done", err[d] = "nil"
                 PROVE  \E k \in started[d]..ended[d] : hist'[k] = DesiredObj(d)
      OBVIOUS
    <3>1. PICK k \in started[d]..ended[d] : hist[k] = DesiredObj(d)
      BY DEF RetSync
    <3>2. k \in 1..Len(hist)
      BY DEF RetSync, DataTypes
    <3>3. QED
      BY <2>2, <3>1, <3>2
  <2>4. QED
    BY <2>2, <2>3 DEF RetSync, DataTypes
<1>3. QED
  BY <1>1, <1>2

\* A Create or Update of caller c that succeeds appends c's desired object.
LEMMA WriteRet ==
    ASSUME DataTypes, NEW c \in Callers, RetSync(c),
           pc[c] \in {"create", "update"}, NEW r \in Results,
           Write([exists |-> TRUE, val |-> objVal[c]]), Return(c, r, "nil"),
           started'[c] = started[c]
    PROVE  RetSync(c)'
<1>1. /\ hist' = Append(hist, DesiredObj(c))
      /\ DesiredObj(c) \in Objects
  BY DEF Write, RetSync, DesiredObj, Objects, DataTypes
<1>2. /\ Len(hist') = Len(hist) + 1
      /\ hist'[Len(hist) + 1] = DesiredObj(c)
      /\ ended'[c] = Len(hist) + 1 /\ pc'[c] = "done" /\ err'[c] = "nil"
  BY <1>1, AppendKeeps DEF Return, RV, DataTypes
<1>3. started[c] \in 1..Len(hist)
  BY DEF RetSync
<1>4. QED
  BY <1>2, <1>3 DEF RetSync, DesiredObj

\* Each step keeps every caller's RetSync when the Get reads live.
LEMMA RetStep ==
    ASSUME ~Registered, TypeOK, \A d \in Callers : RetSync(d), [Next]_vars
    PROVE  \A d \in Callers : RetSync(d)'
<1>0. DataTypes
  BY Zenon DEF TypeOK, DataTypes
<1> SUFFICES ASSUME NEW d \in Callers PROVE RetSync(d)'
  OBVIOUS
<1>1. RetSync(d)
  OBVIOUS
<1>2. ASSUME NEW c \in Callers, Start(c) PROVE RetSync(d)'
  <2>1. CASE d = c
    BY <1>0, <1>2, <2>1 DEF Start, RetSync, RV, DataTypes
  <2>2. CASE d # c
    BY <1>0, <1>1, <1>2, <2>2, KeepRet DEF Start, DataTypes
  <2>3. QED
    BY <2>1, <2>2
<1>3. ASSUME NEW c \in Callers, Get(c) PROVE RetSync(d)'
  <2> DEFINE o == hist[ReadIdx]
  <2>1. ReadIdx = Len(hist) /\ o \in Objects /\ hist' = hist
    BY <1>0, <1>3 DEF ReadIdx, RV, Get, DataTypes
  <2>2. CASE d # c
    <3>1. /\ pc'[d] = pc[d] /\ objVal'[d] = objVal[d] /\ err'[d] = err[d]
          /\ started'[d] = started[d] /\ ended'[d] = ended[d]
      <4>0. UNCHANGED started
        BY <1>3 DEF Get
      <4> USE <1>0, <2>2, <4>0 DEF DataTypes
      <4>1. CASE Return(c, "none", "other") /\ UNCHANGED <<objVal, objRV, existing>>
        BY <4>1 DEF Return
      <4>2. CASE /\ pc' = [pc EXCEPT ![c] = "create"]
                 /\ objVal' = [objVal EXCEPT ![c] = Desired[c]]
                 /\ UNCHANGED <<objRV, existing, res, err, ended>>
        BY <4>2
      <4>3. CASE /\ objVal' = [objVal EXCEPT ![c] = Desired[c]]
                 /\ IF ~always[c] /\ existing'[c] = objVal'[c]
                      THEN Return(c, "none", "nil")
                      ELSE /\ pc' = [pc EXCEPT ![c] = "update"]
                           /\ UNCHANGED <<res, err, ended>>
        BY <4>3 DEF Return
      <4>5. QED
        BY <1>3, <4>1, <4>2, <4>3 DEF Get, Found, FoundWith
    <3>2. QED
      BY <1>0, <1>1, <2>1, <3>1, KeepRet
  <2>3. CASE d = c
    <3> USE <1>0, <2>3 DEF DataTypes
    <3>1. pc[c] = "get" /\ UNCHANGED started
      BY <1>3 DEF Get
    <3>2. started[c] \in 1..Len(hist)
      BY <1>1, <3>1 DEF RetSync
    <3>3. CASE Return(c, "none", "other")
      BY <2>1, <3>1, <3>2, <3>3 DEF Return, RetSync, RV
    <3>4. CASE /\ pc' = [pc EXCEPT ![c] = "create"]
               /\ objVal' = [objVal EXCEPT ![c] = Desired[c]]
      BY <2>1, <3>1, <3>2, <3>4 DEF RetSync
    <3>5. CASE /\ o.exists
               /\ objVal' = [objVal EXCEPT ![c] = Desired[c]]
               /\ existing' = [existing EXCEPT ![c] = o.val]
               /\ ~always[c] /\ existing'[c] = objVal'[c]
               /\ Return(c, "none", "nil")
      <4>1. o = DesiredObj(c)
        BY <2>1, <3>5, ExistingObject DEF DesiredObj
      <4>2. QED
        BY <2>1, <3>1, <3>2, <3>5, <4>1 DEF Return, RetSync, RV
    <3>6. CASE /\ objVal' = [objVal EXCEPT ![c] = Desired[c]]
               /\ pc' = [pc EXCEPT ![c] = "update"]
      BY <2>1, <3>1, <3>2, <3>6 DEF RetSync
    <3>7. QED
      BY <1>3, <3>3, <3>4, <3>5, <3>6 DEF Get, Found, FoundWith
  <2>4. QED
    BY <2>2, <2>3
<1>4. ASSUME NEW c \in Callers, Create(c) \/ Update(c) PROVE RetSync(d)'
  <2>1. /\ pc[c] \in {"create", "update"}
        /\ UNCHANGED <<objVal, started>>
        /\ \E r \in Results :
              \/ Write([exists |-> TRUE, val |-> objVal[c]]) /\ Return(c, r, "nil")
              \/ UNCHANGED hist /\ \E e \in Errors \ {"nil"} : Return(c, r, e)
    BY <1>4 DEF Create, Update, Results, Errors
  <2>2. [exists |-> TRUE, val |-> objVal[c]] \in Objects
    BY <1>0 DEF DataTypes, Objects
  <2>3. CASE d = c
    <3>1. PICK r \in Results :
              \/ Write([exists |-> TRUE, val |-> objVal[c]]) /\ Return(c, r, "nil")
              \/ UNCHANGED hist /\ \E e \in Errors \ {"nil"} : Return(c, r, e)
      BY <2>1
    <3>2. CASE Write([exists |-> TRUE, val |-> objVal[c]]) /\ Return(c, r, "nil")
      BY <1>0, <1>1, <2>1, <2>3, <3>2, WriteRet
    <3>3. CASE UNCHANGED hist /\ \E e \in Errors \ {"nil"} : Return(c, r, e)
      BY <1>0, <1>1, <2>1, <2>3, <3>3 DEF Return, RetSync, RV, DataTypes
    <3>4. QED
      BY <3>1, <3>2, <3>3
  <2>4. CASE d # c
    <3>1. /\ pc'[d] = pc[d] /\ err'[d] = err[d] /\ ended'[d] = ended[d]
          /\ \/ hist' = hist
             \/ hist' = Append(hist, [exists |-> TRUE, val |-> objVal[c]])
      BY <1>0, <2>1, <2>4 DEF Return, Write, DataTypes
    <3>2. QED
      BY <1>0, <1>1, <2>1, <2>2, <3>1, KeepRet
  <2>5. QED
    BY <2>3, <2>4
<1>5. CASE OtherWrite
  BY <1>0, <1>1, <1>5, KeepRet DEF OtherWrite, Write
<1>6. CASE CacheAdvance
  BY <1>0, <1>1, <1>6, KeepRet DEF CacheAdvance
<1>7. CASE UNCHANGED vars
  BY <1>0, <1>1, <1>7, KeepRet DEF vars
<1>8. QED
  BY <1>2, <1>3, <1>4, <1>5, <1>6, <1>7 DEF Next

(* When the object's kind is not registered in the scheme, so that the Get *)
(* reads the API server, every TypedCreateOrUpdate that returns without    *)
(* error saw its desired object stored at some moment between its call and *)
(* its return, for every set of callers and values and every write bound.  *)
THEOREM ReturnedInSyncThm == ~Registered => (Spec => []ReturnedInSync)
<1> SUFFICES ASSUME ~Registered PROVE Spec => []ReturnedInSync
  OBVIOUS
<1>1. RInv /\ [Next]_vars => RInv'
  BY TypeStep, RetStep DEF RInv
<1>2. RInv => ReturnedInSync
  BY DEF RInv, RetSync, ReturnedInSync, DesiredObj
<1>3. QED
  BY RInvInit, <1>1, <1>2, PTL DEF Spec

=============================================================================
