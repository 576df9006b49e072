---------------------- MODULE CreateOrUpdateRefinement ----------------------
(***************************************************************************)
(* Proof that TypedCreateOrUpdate, on the live (unstructured) read path,   *)
(* implements AtomicCreateOrUpdate for every set of callers, every set of  *)
(* values and every bound on writes.                                       *)
(***************************************************************************)
EXTENDS CreateOrUpdateProofs

USE CreateOrUpdateAssumption

(***************************************************************************)
(* The invariant the refinement rests on, besides IInv: obj holds the      *)
(* caller's desired value (mutate is the only thing that sets it), and a   *)
(* caller goes on to Update only when its Get found the object different   *)
(* from the desired one or alwaysUpdate is set.  With ReadInSync this      *)
(* makes the accepted Update an abstract Updated: the object it replaces   *)
(* is the one the Get read.                                                *)
(***************************************************************************)
DesiredHeld == objVal = Desired

UpdateWanted ==
    \A c \in Callers :
        pc[c] = "update" => always[c] \/ existing[c] # Desired[c]

AInv == IInv /\ DesiredHeld /\ UpdateWanted

LEMMA AInvInit == Init => AInv
BY IInvInit DEF Init, AInv, DesiredHeld, UpdateWanted

\* No step changes the alwaysUpdate arguments.
LEMMA AlwaysFixed == [Next]_vars => UNCHANGED always
BY DEF Next, vars, Start, Get, Create, Update, OtherWrite, CacheAdvance

LEMMA AInvStep == AInv /\ [Next]_vars => AInv'
<1> SUFFICES ASSUME AInv, [Next]_vars PROVE AInv'
  OBVIOUS
<1>0. DataTypes /\ UNCHANGED always
  BY AlwaysFixed, Zenon DEF AInv, IInv, TypeOK, DataTypes
<1>1. IInv'
  BY IInvStep DEF AInv
<1>2. DesiredHeld'
  <2> USE <1>0 DEF AInv, DesiredHeld, DataTypes
  <2>1. ASSUME NEW c \in Callers, Get(c) PROVE DesiredHeld'
    <3>1. CASE UNCHANGED objVal
      BY <3>1
    <3>2. CASE objVal' = [objVal EXCEPT ![c] = Desired[c]]
      BY <3>2
    <3>3. QED
      BY <2>1, <3>1, <3>2 DEF Get, Found, FoundWith
  <2>2. ASSUME NEW c \in Callers, Start(c) \/ Create(c) \/ Update(c)
        PROVE  DesiredHeld'
    BY <2>2 DEF Start, Create, Update
  <2>3. CASE OtherWrite \/ CacheAdvance \/ UNCHANGED vars
    BY <2>3 DEF OtherWrite, CacheAdvance, vars
  <2>4. QED
    BY <2>1, <2>2, <2>3 DEF Next
<1>3. UpdateWanted'
  <2> SUFFICES ASSUME NEW d \in Callers, pc'[d] = "update"
               PROVE  always'[d] \/ existing'[d] # Desired[d]
    BY DEF UpdateWanted
  <2>1. CASE \E c \in Callers : Get(c)
    <3>1. PICK c \in Callers : Get(c)
      BY <2>1
    <3>2. CASE d = c
      BY <1>0, <3>1, <3>2 DEF Get, Found, FoundWith, Return, DataTypes
    <3>3. CASE d # c
      BY <1>0, <3>1, <3>3 DEF AInv, UpdateWanted, Get, Found, FoundWith,
         Return, DataTypes
    <3>4. QED
      BY <3>2, <3>3
  <2>2. CASE ~\E c \in Callers : Get(c)
    BY <1>0, <2>2 DEF AInv, UpdateWanted, Next, vars, Start, Create, Update,
       Return, OtherWrite, CacheAdvance, DataTypes
  <2>3. QED
    BY <2>1, <2>2
<1>4. QED
  BY <1>1, <1>2, <1>3 DEF AInv


-----------------------------------------------------------------------------
(***************************************************************************)
(* The step mapping, one lemma per operation of the code.                  *)
(***************************************************************************)

\* The calls start idle and the store's first object is the abstract one.
LEMMA InitMaps == Init => AC!Init
<1> SUFFICES ASSUME Init PROVE AC!Init
  OBVIOUS
<1>1. PICK o \in Objects : hist = <<o>>
  BY DEF Init
<1>2. Current \in AC!Objects
  BY <1>1 DEF Current, Objects, AC!Objects
<1>3. always \in [Callers -> BOOLEAN]
  BY Zenon DEF Init
<1>4. QED
  BY <1>2, <1>3 DEF Init, AC!Init, CallStatus

\* A caller that returns from a store call finishes its abstract call.
LEMMA ReturnMaps ==
    ASSUME DataTypes, NEW c \in Callers, pc[c] \in {"get", "create", "update"},
           NEW r, NEW e, Return(c, r, e), UNCHANGED always
    PROVE  AC!Finish(c, r, e)
BY DEF DataTypes, Return, AC!Finish, CallStatus

\* A step of caller c that moves between two store calls and writes
\* nothing is a stuttering step.
LEMMA InternalMaps ==
    ASSUME DataTypes, NEW c \in Callers, NEW x,
           pc[c] \in {"get", "create", "update"}, x \in {"create", "update"},
           pc' = [pc EXCEPT ![c] = x], UNCHANGED <<hist, always, res, err>>
    PROVE  UNCHANGED AC!vars
BY DEF DataTypes, AC!vars, CallStatus, Current

LEMMA StartMaps ==
    ASSUME DataTypes, NEW c \in Callers, Start(c) PROVE AC!Begin(c)
BY DEF DataTypes, Start, AC!Begin, CallStatus, Current

LEMMA GetMaps ==
    ASSUME AInv, ~Registered, NEW c \in Callers, Get(c)
    PROVE  AC!Failed(c) \/ AC!Unchanged(c) \/ UNCHANGED AC!vars
<1> DEFINE o == hist[ReadIdx]
<1>0. /\ DataTypes
      /\ UNCHANGED <<hist, always>>
      /\ pc[c] = "get"
  BY Zenon DEF AInv, IInv, TypeOK, DataTypes, Get
<1>1. o = Current /\ o \in Objects
  BY <1>0 DEF ReadIdx, RV, Current, DataTypes
<1>2. CASE Return(c, "none", "other")
  <2>1. AC!Finish(c, "none", "other")
    BY <1>0, <1>2, ReturnMaps
  <2>2. QED
    BY <1>0, <2>1 DEF AC!Failed, AC!Results, AC!Errors, Current
<1>3. CASE /\ pc' = [pc EXCEPT ![c] = "create"]
           /\ UNCHANGED <<res, err>>
  BY <1>0, <1>3, InternalMaps
<1>4. CASE o.exists /\ Found(c, o, ReadIdx)
  <2>1. CASE /\ existing' = [existing EXCEPT ![c] = o.val]
             /\ objVal' = [objVal EXCEPT ![c] = Desired[c]]
             /\ ~always[c] /\ existing'[c] = objVal'[c]
             /\ Return(c, "none", "nil")
    <3>1. Current = [exists |-> TRUE, val |-> Desired[c]]
      BY <1>0, <1>1, <1>4, <2>1, ExistingObject DEF DataTypes
    <3>2. AC!Finish(c, "none", "nil")
      BY <1>0, <2>1, ReturnMaps
    <3>3. QED
      BY <1>0, <2>1, <3>1, <3>2 DEF AC!Unchanged, Current
  <2>2. CASE /\ pc' = [pc EXCEPT ![c] = "update"]
             /\ UNCHANGED <<res, err>>
    BY <1>0, <2>2, InternalMaps
  <2>3. QED
    BY <1>2, <1>4, <2>1, <2>2 DEF Found, FoundWith
<1>5. QED
  BY <1>2, <1>3, <1>4 DEF Get

LEMMA CreateMaps ==
    ASSUME AInv, NEW c \in Callers, Create(c)
    PROVE  AC!Created(c) \/ AC!Failed(c)
<1>0. DataTypes /\ UNCHANGED always /\ pc[c] = "create" /\ objVal[c] = Desired[c]
  BY Zenon DEF AInv, IInv, TypeOK, DataTypes, DesiredHeld, Create
<1>1. CASE /\ ~Current.exists
           /\ Write([exists |-> TRUE, val |-> objVal[c]])
           /\ Return(c, "created", "nil")
  <2>1. Current' = [exists |-> TRUE, val |-> Desired[c]]
    BY <1>0, <1>1, AppendKeeps DEF Write, Current, DataTypes, Objects
  <2>2. AC!Finish(c, "created", "nil")
    BY <1>0, <1>1, ReturnMaps
  <2>3. QED
    BY <1>1, <2>1, <2>2 DEF AC!Created
<1>2. CASE /\ UNCHANGED hist
           /\ \E e \in {"alreadyexists", "other"} : Return(c, "created", e)
  <2>1. PICK e \in {"alreadyexists", "other"} : Return(c, "created", e)
    BY <1>2
  <2>2. AC!Finish(c, "created", e)
    BY <1>0, <2>1, ReturnMaps
  <2>3. QED
    BY <1>2, <2>2 DEF AC!Failed, AC!Results, AC!Errors, Current
<1>3. QED
  BY <1>1, <1>2 DEF Create

LEMMA UpdateMaps ==
    ASSUME AInv, NEW c \in Callers, Update(c)
    PROVE  AC!Updated(c) \/ AC!Failed(c)
<1>0. /\ DataTypes /\ InSync(c)
      /\ UNCHANGED always /\ pc[c] = "update" /\ objVal[c] = Desired[c]
      /\ always[c] \/ existing[c] # Desired[c]
  BY InSyncAll, Zenon DEF AInv, IInv, TypeOK, DataTypes, DesiredHeld,
     UpdateWanted, Update
<1>1. CASE /\ UpdateAccepted(c)
           /\ Write([exists |-> TRUE, val |-> objVal[c]])
           /\ Return(c, "updated", "nil")
  <2>1. Current = [exists |-> TRUE, val |-> existing[c]]
    BY <1>0, <1>1 DEF UpdateAccepted, InSync, Current, RV
  <2>2. Current' = [exists |-> TRUE, val |-> Desired[c]]
    BY <1>0, <1>1, AppendKeeps DEF Write, Current, DataTypes, Objects
  <2>3. AC!Finish(c, "updated", "nil")
    BY <1>0, <1>1, ReturnMaps
  <2>4. QED
    BY <1>0, <2>1, <2>2, <2>3 DEF AC!Updated
<1>2. CASE /\ UNCHANGED hist
           /\ \E e \in {"notfound", "conflict", "other"} : Return(c, "updated", e)
  <2>1. PICK e \in {"notfound", "conflict", "other"} : Return(c, "updated", e)
    BY <1>2
  <2>2. AC!Finish(c, "updated", e)
    BY <1>0, <2>1, ReturnMaps
  <2>3. QED
    BY <1>2, <2>2 DEF AC!Failed, AC!Results, AC!Errors, Current
<1>3. QED
  BY <1>1, <1>2 DEF Update

LEMMA EnvironmentMaps ==
    ASSUME DataTypes, OtherWrite \/ CacheAdvance
    PROVE  AC!Interfere \/ UNCHANGED AC!vars
<1>1. CASE OtherWrite
  <2>1. PICK o \in Objects : o # Current /\ Write(o)
    BY <1>1 DEF OtherWrite
  <2>2. Current' = o
    BY <2>1, AppendKeeps DEF Write, Current, DataTypes
  <2>3. QED
    BY <1>1, <2>1, <2>2 DEF OtherWrite, AC!Interfere, AC!Objects, Objects,
       CallStatus
<1>2. CASE CacheAdvance
  BY <1>2 DEF CacheAdvance, AC!vars, CallStatus, Current
<1>3. QED
  BY <1>1, <1>2


\* Every step of TypedCreateOrUpdate and its environment on the live path
\* is a step of AtomicCreateOrUpdate or leaves its variables as they are.
LEMMA StepMaps ==
    ASSUME AInv, ~Registered, [Next]_vars PROVE [AC!Next]_AC!vars
<1>0. DataTypes
  BY Zenon DEF AInv, IInv, TypeOK, DataTypes
<1>1. ASSUME NEW c \in Callers, Start(c) PROVE [AC!Next]_AC!vars
  BY <1>0, <1>1, StartMaps DEF AC!Next
<1>2. ASSUME NEW c \in Callers, Get(c) PROVE [AC!Next]_AC!vars
  BY <1>2, GetMaps DEF AC!Next
<1>3. ASSUME NEW c \in Callers, Create(c) PROVE [AC!Next]_AC!vars
  BY <1>3, CreateMaps DEF AC!Next
<1>4. ASSUME NEW c \in Callers, Update(c) PROVE [AC!Next]_AC!vars
  BY <1>4, UpdateMaps DEF AC!Next
<1>5. CASE OtherWrite \/ CacheAdvance
  BY <1>0, <1>5, EnvironmentMaps DEF AC!Next
<1>6. CASE UNCHANGED vars
  BY <1>6 DEF vars, AC!vars, CallStatus, Current
<1>7. QED
  BY <1>1, <1>2, <1>3, <1>4, <1>5, <1>6 DEF Next

(* On the live read path TypedCreateOrUpdate is linearizable, for every    *)
(* set of callers, every set of values and every bound on writes:          *)
(* ImplementsAtomicCreateOrUpdate, which run create_or_update_live checks, *)
(* holds.  On the cached path it does not: a no-op decided on a stale      *)
(* cache is not an abstract Unchanged (run create_or_update_stale_noop).   *)
THEOREM Linearizable == ~Registered => (Spec => ImplementsAtomicCreateOrUpdate)
<1> SUFFICES ASSUME ~Registered PROVE Spec => ImplementsAtomicCreateOrUpdate
  OBVIOUS
<1>1. Spec => []AInv
  BY AInvInit, AInvStep, PTL DEF Spec
<1>2. AInv /\ [Next]_vars => [AC!Next]_AC!vars
  BY StepMaps
<1>3. QED
  BY <1>1, <1>2, InitMaps, PTL DEF Spec, ImplementsAtomicCreateOrUpdate,
     AC!Spec

=============================================================================
