---------------------------- MODULE CreateOrUpdate ----------------------------
(***************************************************************************)
(* TypedCreateOrUpdate of pkg/controller/utils/utils.go, called by several *)
(* callers on the same object while other writers create, update and      *)
(* delete it.                                                              *)
(*                                                                         *)
(* The store is its history: hist[k] is the object after the k-th write    *)
(* (whether it exists, and its value), so its resourceVersion is k and     *)
(* the current object is hist[Len(hist)].  When the object's kind is       *)
(* registered in the scheme, the Get goes through a typed object that the  *)
(* delegating client serves from its informer cache, which lags the store: *)
(* the cache shows hist[cacheIdx] and catches up one event at a time.  An  *)
(* unstructured object is read live.  A caller's mutate sets the object to *)
(* the caller's desired value Desired[c].                                  *)
(***************************************************************************)
EXTENDS Naturals, Sequences

CONSTANTS
    Callers,        \* the goroutines calling TypedCreateOrUpdate
    Vals,           \* values of the object
    Desired,        \* Desired[c]: what caller c's mutate sets
    Registered,     \* the object's kind is registered in the scheme
    MaxRV           \* bound on the number of writes

ASSUME CreateOrUpdateAssumption ==
    /\ Desired \in [Callers -> Vals]
    /\ Registered \in BOOLEAN
    /\ MaxRV \in Nat \ {0}

VARIABLES
    hist,           \* the store's history; its length is the resourceVersion
    cacheIdx,       \* the write the informer cache reflects
    pc,             \* pc[c]: "idle", "get", "create", "update" or "done"
    always,         \* always[c]: the alwaysUpdate argument
    objVal, objRV,  \* caller c's obj: its value and resourceVersion (0: unset)
    existing,       \* the value read by the Get, before mutate
    res, err,       \* the returned OperationResult and error
    started, ended  \* the resourceVersions at the call's start and return (history)

vars == <<hist, cacheIdx, pc, always, objVal, objRV, existing, res, err,
          started, ended>>

Objects == [exists : BOOLEAN, val : Vals]
Results == {"none", "created", "updated"}
Errors == {"nil", "notfound", "alreadyexists", "conflict", "other"}

TypeOK ==
    /\ hist \in Seq(Objects) /\ Len(hist) \in 1..MaxRV
    /\ cacheIdx \in 1..Len(hist)
    /\ pc \in [Callers -> {"idle", "get", "create", "update", "done"}]
    /\ always \in [Callers -> BOOLEAN]
    /\ objVal \in [Callers -> Vals]
    /\ objRV \in [Callers -> 0..MaxRV]
    /\ existing \in [Callers -> Vals]
    /\ res \in [Callers -> Results]
    /\ err \in [Callers -> Errors]
    /\ started \in [Callers -> 0..MaxRV]
    /\ ended \in [Callers -> 0..MaxRV]

\* The current object and its resourceVersion.
Current == hist[Len(hist)]
RV == Len(hist)

Init ==
    /\ \E o \in Objects : hist = <<o>>
    /\ cacheIdx = 1
    /\ pc = [c \in Callers |-> "idle"]
    /\ always \in [Callers -> BOOLEAN]
    /\ objVal = Desired
    /\ objRV = [c \in Callers |-> 0]
    /\ existing = Desired
    /\ res = [c \in Callers |-> "none"]
    /\ err = [c \in Callers |-> "nil"]
    /\ started = [c \in Callers |-> 0]
    /\ ended = [c \in Callers |-> 0]

\* A write by anyone appends to the history.
Write(o) == RV < MaxRV /\ hist' = Append(hist, o)

\* Caller c returns (result, error).
Return(c, r, e) ==
    /\ pc' = [pc EXCEPT ![c] = "done"]
    /\ res' = [res EXCEPT ![c] = r]
    /\ err' = [err EXCEPT ![c] = e]
    /\ ended' = [ended EXCEPT ![c] = RV']

-----------------------------------------------------------------------------
\* The caller invokes TypedCreateOrUpdate.
Start(c) ==
    /\ pc[c] = "idle"
    /\ pc' = [pc EXCEPT ![c] = "get"]
    /\ started' = [started EXCEPT ![c] = RV]
    /\ UNCHANGED <<hist, cacheIdx, always, objVal, objRV, existing, res, err,
                   ended>>

\* scheme.New picks a typed object for a registered kind, which the client
\* reads from the cache; an unstructured object is read from the API server.
ReadIdx == IF Registered THEN cacheIdx ELSE RV

(***************************************************************************)
(* The object was found: unless it is unstructured, scheme.Convert turns   *)
(* the typed object into an unstructured one that is copied into obj;     *)
(* mutate runs; the semantic DeepEqual with the copy taken before mutate   *)
(* finds no change (unless alwaysUpdate) and the call returns, or it goes  *)
(* on to Update with the resourceVersion it read.  o is the object read,   *)
(* k its resourceVersion.                                                  *)
(***************************************************************************)
FoundWith(c, o, k, copied) ==
    \/ Return(c, "none", "other")          \* scheme.Convert or mutate fails
       /\ UNCHANGED <<objVal, objRV, existing>>
    \/ /\ objVal' = [objVal EXCEPT ![c] = Desired[c]]
       /\ objRV' = [objRV EXCEPT ![c] = k]
       /\ existing' = [existing EXCEPT ![c] = copied]
       /\ IF ~always[c] /\ existing'[c] = objVal'[c]
            THEN Return(c, "none", "nil")
            ELSE /\ pc' = [pc EXCEPT ![c] = "update"]
                 /\ UNCHANGED <<res, err, ended>>

\* Mutant: `existing` is copied after mutate has run.
FoundCopyAfterMutate(c, o, k) == FoundWith(c, o, k, Desired[c])

\* Mutant: the resourceVersion read is not carried into obj, so the
\* Update is unconditional.
FoundNoRV(c, o, k) == FoundWith(c, o, 0, o.val)

Found(c, o, k) == FoundWith(c, o, k, o.val)

(***************************************************************************)
(* The Get.  It fails; or it reports NotFound and mutate fails, or mutate  *)
(* runs and the call goes on to Create; or it finds the object.            *)
(***************************************************************************)
Get(c) ==
    /\ pc[c] = "get"
    /\ UNCHANGED <<hist, cacheIdx, always, started>>
    /\ LET o == hist[ReadIdx] IN
       \/ /\ Return(c, "none", "other")
          /\ UNCHANGED <<objVal, objRV, existing>>
       \/ /\ ~o.exists
          /\ Return(c, "none", "other")
          /\ UNCHANGED <<objVal, objRV, existing>>
       \/ /\ ~o.exists
          /\ pc' = [pc EXCEPT ![c] = "create"]
          /\ objVal' = [objVal EXCEPT ![c] = Desired[c]]
          /\ UNCHANGED <<objRV, existing, res, err, ended>>
       \/ o.exists /\ Found(c, o, ReadIdx)

\* return controllerutil.OperationResultCreated, c.Create(ctx, obj)
Create(c) ==
    /\ pc[c] = "create"
    /\ \/ /\ ~Current.exists
          /\ Write([exists |-> TRUE, val |-> objVal[c]])
          /\ Return(c, "created", "nil")
       \/ /\ Current.exists
          /\ UNCHANGED hist
          /\ Return(c, "created", "alreadyexists")
       \/ /\ UNCHANGED hist
          /\ Return(c, "created", "other")
    /\ UNCHANGED <<cacheIdx, always, objVal, objRV, existing, started>>

\* The API server accepts an update of an existing object whose
\* resourceVersion is the current one, or unset (an unconditional update).
UpdateAccepted(c) == Current.exists /\ objRV[c] \in {0, RV}

\* return controllerutil.OperationResultUpdated, c.Update(ctx, obj)
Update(c) ==
    /\ pc[c] = "update"
    /\ \/ /\ UpdateAccepted(c)
          /\ Write([exists |-> TRUE, val |-> objVal[c]])
          /\ Return(c, "updated", "nil")
       \/ /\ ~Current.exists
          /\ UNCHANGED hist
          /\ Return(c, "updated", "notfound")
       \/ /\ Current.exists /\ ~UpdateAccepted(c)
          /\ UNCHANGED hist
          /\ Return(c, "updated", "conflict")
       \/ /\ UNCHANGED hist
          /\ Return(c, "updated", "other")
    /\ UNCHANGED <<cacheIdx, always, objVal, objRV, existing, started>>

-----------------------------------------------------------------------------
\* Another writer creates, updates or deletes the object.
OtherWrite ==
    /\ \E o \in Objects : o # Current /\ Write(o)
    /\ UNCHANGED <<cacheIdx, pc, always, objVal, objRV, existing, res, err,
                   started, ended>>

\* The informer delivers the next event into the cache.
CacheAdvance ==
    /\ cacheIdx < RV
    /\ cacheIdx' = cacheIdx + 1
    /\ UNCHANGED <<hist, pc, always, objVal, objRV, existing, res, err,
                   started, ended>>

Next ==
    \/ \E c \in Callers : Start(c) \/ Get(c) \/ Create(c) \/ Update(c)
    \/ OtherWrite
    \/ CacheAdvance

Spec == Init /\ [][Next]_vars

-----------------------------------------------------------------------------
(* An Update that the API server accepts replaces the object the caller    *)
(* read and mutated: TypedCreateOrUpdate carries the resourceVersion of    *)
(* its Get (typed and converted, or unstructured) into the Update, so a    *)
(* concurrent write between the Get and the Update is never overwritten.   *)
NoLostUpdate ==
    [][\A c \in Callers :
         (pc[c] = "update" /\ pc'[c] = "done" /\ err'[c] = "nil")
            => Current = [exists |-> TRUE, val |-> existing[c]]]_vars

(* The strengthening that makes NoLostUpdate provable: a caller about to   *)
(* Update holds a resourceVersion the store has reached, and the object    *)
(* stored at that version is the one it read.                              *)
ReadInSync ==
    \A c \in Callers :
        pc[c] = "update"
            => /\ objRV[c] \in 1..RV
               /\ hist[objRV[c]] = [exists |-> TRUE, val |-> existing[c]]

IInv == TypeOK /\ ReadInSync

(***************************************************************************)
(* Refinement: the calls take effect atomically.  The current object is    *)
(* the abstract one; a call is running from Start until it returns.  A     *)
(* successful Create or Update is the abstract Created or Updated, a Get   *)
(* that finds the desired object and returns without a write is Unchanged, *)
(* every error return is Failed, another writer's write is Interfere, and  *)
(* the Get that goes on to a write and the cache's catching up are         *)
(* stuttering steps.                                                       *)
(***************************************************************************)
CallStatus ==
    [c \in Callers |-> IF pc[c] = "idle" THEN "idle"
                       ELSE IF pc[c] = "done" THEN "done" ELSE "running"]

AC == INSTANCE AtomicCreateOrUpdate WITH cur <- Current, status <- CallStatus

(* TypedCreateOrUpdate is linearizable: every call behaves as if it read   *)
(* and wrote the object at a single instant - it reports "created" only    *)
(* for an absent object, "updated" only for one that differed from the     *)
(* desired value (or with alwaysUpdate), a no-op only for one that already *)
(* held it, and an error only having written nothing.                      *)
ImplementsAtomicCreateOrUpdate == AC!Spec

(* A caller whose TypedCreateOrUpdate returned without error - created,    *)
(* updated or no-op - saw its desired object in the store at some moment  *)
(* between its call and its return.                                        *)
ReturnedInSync ==
    \A c \in Callers :
        (pc[c] = "done" /\ err[c] = "nil")
            => \E k \in started[c]..ended[c] :
                  hist[k] = [exists |-> TRUE, val |-> Desired[c]]

(* As in controllerutil.CreateOrUpdate, which TypedCreateOrUpdate says it  *)
(* is like, a call that fails reports OperationResultNone.                 *)
ErrorReportsNone ==
    \A c \in Callers : (pc[c] = "done" /\ err[c] # "nil") => res[c] = "none"

=============================================================================
