-------------------------- MODULE LifecycleProofs --------------------------
(***************************************************************************)
(* How a reservation goes through its life, whatever copies the worker and *)
(* the poller act on, for any number of namespaces, reservations, faults   *)
(* and crashes.                                                            *)
(***************************************************************************)
EXTENDS ReservationProofs

USE ApiCallsAssumption, ClusterAssumption, NamespacesAssumption,
    PoolAbstractionAssumption, PollerAssumption, ReservationControllerAssumption,
    ReservationSystemAssumption

-----------------------------------------------------------------------------
(***************************************************************************)
(* The invariants.                                                         *)
(***************************************************************************)
\* A reservation has a namespace once it is active, and the cleanup finalizer
\* only with a namespace, unless a user's manifest brought it along.
WellFormed(o) ==
    /\ ~o.live => o.namespace = NoNamespace /\ ~o.finalizer
    /\ o.live => /\ IsReservationUid(o.uid)
                 /\ o.namespace = NoNamespace <=> o.state \in {"", "waiting"}
                 /\ o.state = "deleting" => o.deleting
                 /\ o.finalizer => o.namespace # NoNamespace \/ RestoredFinalizer

AllWellFormed ==
    \A r \in Reservation :
        \A copy \in resWatch[r] \cup {resCache[r], res[r]} : WellFormed(copy)

\* What a reconcile has found out about its copy before it gets to a step.
WorkerKnows ==
    /\ pc # "idle" => WellFormed(obj) /\ obj.live
    /\ pc \in {"addFinalizer", "refresh", "finalizer"} => obj.state = "active"
    /\ pc \in {"list", "verify", "reserve", "bind", "status"} =>
         obj.state \in {"", "waiting"} /\ ~obj.deleting
    /\ pc \in {"abandon", "mark", "drain", "release"} =>
         /\ obj.deleting
         /\ obj.namespace = NoNamespace <=> pc = "abandon"
    /\ pc \in {"drain", "release"} => obj.state = "deleting"

LifeInv == AllWellFormed /\ WorkerKnows

-----------------------------------------------------------------------------
(***************************************************************************)
(* How the object o of a reservation may be replaced by p.                 *)
(***************************************************************************)
Created(o, p) ==
    /\ ~o.live /\ p.live
    /\ IsReservationUid(p.uid)
    /\ p.state = "" /\ p.namespace = NoNamespace
    /\ p.finalizer => RestoredFinalizer

\* Only the worker takes away the finalizer.
Removed(r, o, p) ==
    /\ o.live /\ ~p.live
    /\ p.namespace = NoNamespace /\ ~p.finalizer
    /\ o.finalizer => r = key /\ pc \in {"abandon", "release"} /\ obj = o

SameReservation(o, p) ==
    /\ o.live /\ p.live
    /\ p.uid = o.uid
    /\ o.deleting => p.deleting

Edited(o, p) ==
    /\ SameReservation(o, p)
    /\ p.state = o.state /\ p.namespace = o.namespace
    /\ o.finalizer => p.finalizer
    /\ p.finalizer => o.finalizer \/ o.namespace # NoNamespace

Delayed(o, p) ==
    /\ SameReservation(o, p)
    /\ o.state = "" /\ p.state = "waiting"
    /\ p.namespace = o.namespace /\ p.finalizer = o.finalizer

Lent(r, o, p) ==
    /\ Activate /\ r = key
    /\ SameReservation(o, p)
    /\ o.state \in {"", "waiting"} /\ p.state = "active"
    /\ p.namespace = picked /\ p.finalizer = o.finalizer

Returned(o, p) ==
    /\ SameReservation(o, p)
    /\ o.deleting
    /\ o.state = "active" /\ p.state = "deleting"
    /\ p.namespace = o.namespace /\ p.finalizer = o.finalizer

Becomes(r, o, p) ==
    \/ Created(o, p)
    \/ Removed(r, o, p)
    \/ Edited(o, p)
    \/ Delayed(o, p)
    \/ Lent(r, o, p)
    \/ Returned(o, p)

Stores(r, o) ==
    /\ o \in ResObject
    /\ WriteRes(r, o)
    /\ Becomes(r, res[r], o)
    /\ UNCHANGED resCache

\* A step in which nobody writes a reservation; copies may be delivered.
StoresNothing ==
    /\ UNCHANGED res
    /\ \A r \in Reservation :
         resWatch'[r] \cup {resCache'[r]} \subseteq resWatch[r] \cup {resCache[r], res[r]}

-----------------------------------------------------------------------------
(***************************************************************************)
(* Every step stores at most one reservation, and replaces it so.          *)
(***************************************************************************)
LEMMA NothingStored ==
    ASSUME UNCHANGED <<res, resCache, resWatch>>
    PROVE  StoresNothing
  BY DEF StoresNothing

LEMMA DeletionBecomes ==
    ASSUME NEW r \in Reservation, NEW o \in ResObject, o.live
    PROVE  AfterDelete(o) \in ResObject /\ Becomes(r, o, AfterDelete(o))
<1>1. AfterDelete(o) \in ResObject
  BY AfterDeleteType
<1>2. CASE o.finalizer
  <2>1. Edited(o, AfterDelete(o))
    BY <1>2 DEF AfterDelete, Edited, SameReservation, ResObject
  <2> QED
    BY <1>1, <2>1 DEF Becomes
<1>3. CASE ~o.finalizer
  <2>1. Removed(r, o, AfterDelete(o))
    BY <1>3 DEF AfterDelete, NoReservation, Removed
  <2> QED
    BY <1>1, <2>1 DEF Becomes
<1> QED
  BY <1>2, <1>3

LEMMA UserStores ==
    ASSUME TypeInv, AllWellFormed, NEW r \in Reservation, UserStep(r)
    PROVE  StoresNothing \/ \E o \in ResObject : Stores(r, o)
<1> USE DEF TypeInv, TypeOK
<1>1. res[r] \in ResObject
  BY DEF ClusterTypeOK
<1>2. ASSUME NEW d \in Durations, CreateReservation(r, d)
      PROVE  \E o \in ResObject : Stores(r, o)
  <2>1. PICK f \in {FALSE, RestoredFinalizer} :
          WriteRes(r, [NoReservation(res[r].rv) EXCEPT
                         !.live = TRUE, !.uid = nextUid, !.created = now,
                         !.duration = d, !.finalizer = f])
    BY <1>2 DEF CreateReservation
  <2> DEFINE o == [NoReservation(res[r].rv) EXCEPT
                         !.live = TRUE, !.uid = nextUid, !.created = now,
                         !.duration = d, !.finalizer = f]
  <2>2. NoReservation(res[r].rv) \in ResObject
    BY <1>1, NoReservationType DEF ResObject
  <2>3. o \in ResObject
    BY <2>2 DEF ClusterTypeOK, ResObject
  <2>4. ~res[r].live /\ nextUid > 0
    BY <1>2 DEF CreateReservation, ClusterTypeOK
  <2>5. /\ o.live = TRUE /\ o.uid = nextUid /\ o.finalizer = f
        /\ o.state = "" /\ o.namespace = NoNamespace
    BY DEF NoReservation
  <2>6. f => RestoredFinalizer
    OBVIOUS
  <2>7. Created(res[r], o)
    BY <2>4, <2>5, <2>6, Zenon DEF Created, IsReservationUid
  <2> QED
    BY <1>2, <2>1, <2>3, <2>7 DEF Stores, Becomes, CreateReservation
<1>3. ASSUME NEW d \in Durations, EditDuration(r, d)
      PROVE  \E o \in ResObject : Stores(r, o)
  <2> DEFINE o == [res[r] EXCEPT !.duration = d]
  <2>1. res[r].live /\ WriteRes(r, o) /\ UNCHANGED resCache
    BY <1>3 DEF EditDuration
  <2>2. o \in ResObject
    BY <1>1, EditedType
  <2>3. Edited(res[r], o)
    BY <1>1, <2>1 DEF Edited, SameReservation, ResObject
  <2> QED
    BY <2>1, <2>2, <2>3 DEF Stores, Becomes
<1>4. CASE DeleteReservation(r)
  BY <1>1, <1>4, DeletionBecomes DEF Stores, DeleteReservation
<1>5. CASE DeployCluster(r)
  BY <1>5, NothingStored DEF DeployCluster, resVars
<1> QED
  BY <1>2, <1>3, <1>4, <1>5 DEF UserStep

LEMMA PollerStores ==
    ASSUME TypeInv, PollerStep
    PROVE  StoresNothing \/ \E r \in Reservation, o \in ResObject : Stores(r, o)
<1> USE DEF TypeInv, TypeOK
<1>1. CASE populateActiveReservations
  BY <1>1, NothingStored DEF populateActiveReservations, clusterVars, resVars
<1>2. ASSUME NEW r \in Reservation, PollExpired(r)
      PROVE  StoresNothing
  BY <1>2, NothingStored DEF PollExpired, clusterVars, resVars
<1>3. CASE PollDelete
  <2>1. pollerKey \in Reservation
    BY <1>3 DEF PollDelete, PollerTypeOK
  <2>2. res[pollerKey] \in ResObject
    BY <2>1 DEF ClusterTypeOK
  <2>3. \/ res[pollerKey].live /\ WriteRes(pollerKey, AfterDelete(res[pollerKey]))
        \/ UNCHANGED <<res, resWatch>>
    BY <1>3 DEF PollDelete, Call, Applied
  <2> QED
    BY <1>3, <2>1, <2>2, <2>3, DeletionBecomes, NothingStored DEF Stores, PollDelete
<1> QED
  BY <1>1, <1>2, <1>3 DEF PollerStep

\* An Update of the worker is accepted if its copy is the stored object.
LEMMA UpdateStores ==
    ASSUME TypeInv, AssignmentInv, pc # "idle", ResWriteUnchanged,
           NEW o \in ResObject, NEW result, UpdateRes(o, result),
           obj.live => Becomes(key, obj, o)
    PROVE  StoresNothing \/ Stores(key, o)
<1>1. UNCHANGED resCache
  BY DEF ResWriteUnchanged
<1>2. CASE Applied(result)
  BY <1>1, <1>2, CurrentCopy DEF Stores
<1>3. CASE ~Applied(result)
  BY <1>1, <1>3, NothingStored DEF UpdateRes
<1> QED
  BY <1>2, <1>3

LEMMA DeleteStores ==
    ASSUME TypeInv, pc # "idle", ResWriteUnchanged, NEW result, DeleteRes(result)
    PROVE  StoresNothing \/ \E o \in ResObject : Stores(key, o)
<1>1. key \in Reservation /\ res[key] \in ResObject /\ UNCHANGED resCache
  BY DEF TypeInv, TypeOK, ControllerTypeOK, ClusterTypeOK, ResWriteUnchanged
<1>2. CASE Applied(result)
  <2>1. res[key].live /\ WriteRes(key, AfterDelete(res[key]))
    BY <1>2 DEF DeleteRes, Call, Applied
  <2> QED
    BY <1>1, <2>1, DeletionBecomes DEF Stores
<1>3. CASE ~Applied(result)
  BY <1>1, <1>3, NothingStored DEF DeleteRes
<1> QED
  BY <1>2, <1>3

\* What the worker stores of its copy.
LEMMA FinalizerBecomes ==
    ASSUME NEW r, NEW o \in ResObject, o.live, o.state = "active", WellFormed(o)
    PROVE  Becomes(r, o, WithFinalizer(o))
<1>1. o.namespace # NoNamespace
  BY DEF WellFormed
<1>2. Edited(o, WithFinalizer(o))
  BY <1>1 DEF WithFinalizer, Edited, SameReservation, ResObject
<1> QED
  BY <1>2 DEF Becomes

LEMMA RefreshedBecomes ==
    ASSUME NEW r, NEW o \in ResObject, o.live
    PROVE  Becomes(r, o, Refreshed(o))
<1>1. Edited(o, Refreshed(o))
  BY DEF Refreshed, Edited, SameReservation, ResObject
<1> QED
  BY <1>1 DEF Becomes

LEMMA WaitingBecomes ==
    ASSUME NEW r, NEW o \in ResObject, o.live, o.state = ""
    PROVE  Becomes(r, o, Waiting(o))
<1>1. Delayed(o, Waiting(o))
  BY DEF Waiting, Delayed, SameReservation, ResObject
<1> QED
  BY <1>1 DEF Becomes

LEMMA ActivatedBecomes ==
    ASSUME NEW o \in ResObject, o.live, o.state \in {"", "waiting"}, Activate
    PROVE  Becomes(key, o, Activated(o))
<1>1. SameReservation(o, Activated(o))
  BY DEF Activated, SameReservation, ResObject
<1>2. /\ Activated(o).state = "active"
      /\ Activated(o).namespace = picked
      /\ Activated(o).finalizer = o.finalizer
  BY DEF Activated, ResObject
<1> QED
  BY <1>1, <1>2 DEF Becomes, Lent

LEMMA DeletingBecomes ==
    ASSUME NEW r, NEW o \in ResObject, o.live, o.deleting, WellFormed(o),
           o.namespace # NoNamespace, o.state # "deleting"
    PROVE  Becomes(r, o, Deleting(o))
<1>1. o.state = "active"
  BY DEF WellFormed, ResObject, State
<1>2. Returned(o, Deleting(o))
  BY <1>1 DEF Deleting, Returned, SameReservation, ResObject
<1> QED
  BY <1>2 DEF Becomes

LEMMA ReleasedBecomes ==
    ASSUME pc \in {"abandon", "release"}, obj.live
    PROVE  Becomes(key, obj, Released(obj))
<1>1. Removed(key, obj, Released(obj))
  BY DEF Released, NoReservation, Removed
<1> QED
  BY <1>1 DEF Becomes

LEMMA WorkerStores ==
    ASSUME TypeInv, AssignmentInv, WorkerKnows, WorkerStep
    PROVE  StoresNothing \/ \E o \in ResObject : Stores(key, o)
<1>1. obj \in ResObject /\ now \in Nat /\ expirationTS \in Nat
  BY DEF TypeInv, TypeOK, ControllerTypeOK, ClusterTypeOK
<1>2. pc # "idle" => obj.live /\ WellFormed(obj)
  BY DEF WorkerKnows
<1>3. CASE ActiveAddFinalizer \/ AddFinalizer
  <2>1. WithFinalizer(obj) \in ResObject
    BY <1>1, StoredTypes
  <2>2. pc # "idle" /\ obj.state = "active" /\ ResWriteUnchanged
    BY <1>3 DEF ActiveAddFinalizer, AddFinalizer, WorkerKnows
  <2>3. PICK result \in Results : UpdateRes(WithFinalizer(obj), result)
    BY <1>3 DEF ActiveAddFinalizer, AddFinalizer
  <2> QED
    BY <1>1, <1>2, <2>1, <2>2, <2>3, FinalizerBecomes, UpdateStores
<1>4. CASE ActiveRefresh
  <2>1. CASE HasExpiration(obj)
    <3>1. Refreshed(obj) \in ResObject
      BY <1>1, <2>1, ExpirationTypes
    <3>2. pc # "idle" /\ ResWriteUnchanged
      BY <1>4 DEF ActiveRefresh
    <3>3. PICK result \in Results : UpdateRes(Refreshed(obj), result)
      BY <1>4, <2>1 DEF ActiveRefresh
    <3> QED
      BY <1>1, <3>1, <3>2, <3>3, RefreshedBecomes, UpdateStores
  <2>2. CASE ~HasExpiration(obj)
    BY <1>4, <2>2, NothingStored DEF ActiveRefresh, ResWriteUnchanged
  <2> QED
    BY <2>1, <2>2
<1>5. CASE DeleteExpiredWaiting
  BY <1>5, DeleteStores DEF DeleteExpiredWaiting
<1>6. CASE RejectDuration
  BY <1>6, DeleteStores, NothingStored DEF RejectDuration, ResWriteUnchanged
<1>7. CASE AwaitNamespace
  <2>1. pc # "idle" /\ HasExpiration(obj) /\ ResWriteUnchanged
    BY <1>7 DEF AwaitNamespace, MayAssign
  <2>2. CASE obj.state = ""
    <3>1. PICK result \in Results : UpdateRes(Waiting(obj), result)
      BY <1>7, <2>2 DEF AwaitNamespace
    <3>2. Waiting(obj) \in ResObject
      BY <1>1, <2>1, ExpirationTypes
    <3> QED
      BY <1>1, <2>1, <2>2, <3>1, <3>2, WaitingBecomes, UpdateStores
  <2>3. CASE obj.state # ""
    BY <1>7, <2>1, <2>3, NothingStored DEF AwaitNamespace, ResWriteUnchanged
  <2> QED
    BY <2>2, <2>3
<1>8. CASE Activate
  <2>1. pc = "status" /\ ResWriteUnchanged
    BY <1>8 DEF Activate
  <2>2. Activated(obj) \in ResObject
    BY <1>1, <2>1, ActivatedType DEF TypeInv, PickedIsNamespace
  <2>3. PICK result \in Results : UpdateRes(Activated(obj), result)
    BY <1>8 DEF Activate
  <2>4. obj.state \in {"", "waiting"}
    BY <2>1 DEF WorkerKnows
  <2> QED
    BY <1>1, <1>8, <2>1, <2>2, <2>3, <2>4, ActivatedBecomes, UpdateStores
<1>9. CASE AbandonUnassigned \/ ReleaseFinalizer
  <2>1. Released(obj) \in ResObject
    BY <1>1, StoredTypes
  <2>2. pc \in {"abandon", "release"} /\ ResWriteUnchanged
    BY <1>9 DEF AbandonUnassigned, ReleaseFinalizer
  <2>3. PICK result \in Results : UpdateRes(Released(obj), result)
    BY <1>9 DEF AbandonUnassigned, ReleaseFinalizer
  <2> QED
    BY <2>1, <2>2, <2>3, ReleasedBecomes, UpdateStores
<1>10. CASE MarkDeleting
  <2>1. pc = "mark" /\ ResWriteUnchanged
    BY <1>10 DEF MarkDeleting
  <2>2. CASE obj.state # "deleting"
    <3>1. Deleting(obj) \in ResObject
      BY <1>1, StoredTypes
    <3>2. PICK result \in Results : UpdateRes(Deleting(obj), result)
      BY <1>10, <2>2 DEF MarkDeleting
    <3>3. obj.deleting /\ obj.namespace # NoNamespace
      BY <2>1 DEF WorkerKnows
    <3> QED
      BY <1>1, <1>2, <2>1, <2>2, <3>1, <3>2, <3>3, DeletingBecomes, UpdateStores
  <2>3. CASE obj.state = "deleting"
    BY <1>10, <2>1, <2>3, NothingStored DEF MarkDeleting, ResWriteUnchanged
  <2> QED
    BY <2>2, <2>3
<1>11. ASSUME NEW n \in Namespace, PickNamespace(n)
       PROVE  StoresNothing
  BY <1>11, NothingStored DEF PickNamespace, clusterVars, resVars
<1>12. CASE verifyClowdEnvForReadyNs \/ CopySecretsFails
  BY <1>12, NothingStored DEF verifyClowdEnvForReadyNs, CopySecretsFails, clusterVars, resVars
<1>13. CASE ReserveNamespace \/ AddRoleBindings \/ DrainClusters
  BY <1>13, NothingStored DEF ReserveNamespace, AddRoleBindings, DrainClusters, resVars
<1> QED
  BY <1>3, <1>4, <1>5, <1>6, <1>7, <1>8, <1>9, <1>10, <1>11, <1>12, <1>13 DEF WorkerStep

LEMMA ClusterStores ==
    ASSUME PoolActs \/ \E n \in Namespace : ClusterStep(n)
    PROVE  StoresNothing
<1>1. ASSUME NEW n \in Namespace, ClusterStep(n)
      PROVE  StoresNothing
  BY <1>1, NothingStored
  DEF ClusterStep, DeliverNs, GarbageCollect, FinalizeNamespace, ClusterRemoved,
      DeliverCluster, resVars
<1>2. CASE PoolActs
  BY <1>2, PoolUnchanged, NothingStored DEF resVars
<1> QED
  BY <1>1, <1>2

LEMMA QueueStores ==
    ASSUME TypeInv, NEW r \in Reservation, Reconcile(r) \/ ReservationEvent(r) \/ Resync(r)
    PROVE  StoresNothing
<1>1. CASE Reconcile(r) \/ Resync(r)
  BY <1>1, NothingStored DEF Reconcile, Resync, clusterVars, resVars
<1>2. CASE ReservationEvent(r)
  BY <1>2
  DEF ReservationEvent, DeliverRes, StoresNothing, TypeInv, TypeOK, ClusterTypeOK
<1> QED
  BY <1>1, <1>2

\* However the users, the worker and the poller interleave, a step replaces one
\* reservation at most, and by its next stage.
LEMMA StepStores ==
    ASSUME TypeInv, AssignmentInv, LifeInv, [Next]_vars
    PROVE  StoresNothing \/ \E r \in Reservation, o \in ResObject : Stores(r, o)
<1> USE DEF LifeInv
<1>1. CASE Crash
  BY <1>1 DEF Crash, StoresNothing
<1>2. CASE WorkerStep
  <2>1. pc # "idle"
    BY <1>2
    DEF WorkerStep, ActiveAddFinalizer, ActiveRefresh, DeleteExpiredWaiting, RejectDuration,
        AwaitNamespace, MayAssign, PickNamespace, verifyClowdEnvForReadyNs, CopySecretsFails,
        ReserveNamespace, AddRoleBindings, Activate, AddFinalizer, AbandonUnassigned,
        MarkDeleting, DrainClusters, ReleaseFinalizer
  <2>2. key \in Reservation
    BY <2>1 DEF TypeInv, TypeOK, ControllerTypeOK
  <2> QED
    BY <1>2, <2>2, WorkerStores
<1>3. CASE Tick \/ UNCHANGED vars
  BY <1>3, NothingStored DEF Tick, vars, clusterVars, resVars
<1> QED
  BY <1>1, <1>2, <1>3, UserStores, ClusterStores, PollerStores, QueueStores
  DEF Next, PoolActs

-----------------------------------------------------------------------------
(***************************************************************************)
(* The invariants are preserved.                                           *)
(***************************************************************************)
LEMMA VersionFields ==
    ASSUME NEW r \in Reservation, NEW o \in ResObject
    PROVE  /\ NextVersion(r, o).live = o.live
           /\ NextVersion(r, o).uid = o.uid
           /\ NextVersion(r, o).state = o.state
           /\ NextVersion(r, o).namespace = o.namespace
           /\ NextVersion(r, o).deleting = o.deleting
           /\ NextVersion(r, o).finalizer = o.finalizer
  BY DEF NextVersion, ResObject

LEMMA VersionWellFormed ==
    ASSUME NEW r \in Reservation, NEW o \in ResObject, WellFormed(o)
    PROVE  WellFormed(NextVersion(r, o))
<1>1. CASE o = res[r]
  BY <1>1 DEF NextVersion
<1>2. CASE o # res[r]
  <2>1. NextVersion(r, o) = [o EXCEPT !.rv = res[r].rv + 1]
    BY <1>2 DEF NextVersion
  <2> QED
    BY <2>1 DEF WellFormed, ResObject
<1> QED
  BY <1>1, <1>2

LEMMA BecomesWellFormed ==
    ASSUME TypeInv, NEW r, NEW o, NEW p, WellFormed(o), Becomes(r, o, p)
    PROVE  WellFormed(p)
<1>1. CASE Lent(r, o, p)
  <2>1. picked \in Namespace
    BY <1>1 DEF Lent, Activate, TypeInv, PickedIsNamespace
  <2> QED
    BY <1>1, <2>1 DEF Lent, SameReservation, WellFormed
<1>2. CASE Created(o, p) \/ Removed(r, o, p)
  BY <1>2 DEF Created, Removed, WellFormed
<1>3. CASE Edited(o, p)
  BY <1>3 DEF Edited, SameReservation, WellFormed
<1>4. CASE Delayed(o, p) \/ Returned(o, p)
  BY <1>4 DEF Delayed, Returned, SameReservation, WellFormed
<1> QED
  BY <1>1, <1>2, <1>3, <1>4 DEF Becomes

LEMMA AllWellFormedStep ==
    ASSUME TypeInv, AllWellFormed,
           StoresNothing \/ \E r \in Reservation, o \in ResObject : Stores(r, o)
    PROVE  AllWellFormed'
<1>1. CASE StoresNothing
  BY <1>1 DEF StoresNothing, AllWellFormed
<1>2. ASSUME NEW r \in Reservation, NEW o \in ResObject, Stores(r, o)
      PROVE  AllWellFormed'
  <2>1. /\ res'[r] = NextVersion(r, o)
        /\ \A q \in Reservation \ {r} : res'[q] = res[q]
        /\ \A q \in Reservation : resWatch'[q] \subseteq resWatch[q] \cup {res'[q]}
    BY <1>2, WrittenVersion DEF Stores, TypeInv, TypeOK
  <2>2. WellFormed(o)
    BY <1>2, BecomesWellFormed DEF Stores, AllWellFormed
  <2>3. WellFormed(res'[r])
    BY <2>1, <2>2, VersionWellFormed
  <2> QED
    BY <1>2, <2>1, <2>3 DEF AllWellFormed, Stores
<1> QED
  BY <1>1, <1>2

\* A reconcile that ends, and one that begins.
LEMMA ForgetKnows ==
    ASSUME Forget
    PROVE  WorkerKnows'
  BY DEF Forget, WorkerKnows

LEMMA EndKnows ==
    ASSUME Done \/ Requeue
    PROVE  WorkerKnows'
  BY ForgetKnows DEF Done, Requeue

LEMMA ReconcileKnows ==
    ASSUME TypeInv, AllWellFormed, NEW r \in Reservation, Reconcile(r)
    PROVE  WorkerKnows'
<1>1. CASE FirstStep(resCache[r]) = "idle"
  BY <1>1, ForgetKnows DEF Reconcile
<1>2. CASE FirstStep(resCache[r]) # "idle"
  <2>1. pc' = FirstStep(resCache[r]) /\ obj' = resCache[r]
    BY <1>2 DEF Reconcile
  <2>2. WellFormed(obj') /\ obj' \in ResObject
    BY <2>1 DEF AllWellFormed, TypeInv, TypeOK, ClusterTypeOK
  <2>3. obj'.state \in State /\ pc' = FirstStep(obj')
    BY <2>1, <2>2 DEF ResObject
  <2> QED
    BY <1>2, <2>1, <2>2, <2>3 DEF FirstStep, WorkerKnows, WellFormed, State
<1> QED
  BY <1>1, <1>2

\* A step that goes on with what it has stored.
LEMMA StoredKnows ==
    ASSUME TypeInv, WorkerKnows, pc # "idle", NEW o \in ResObject, o.live,
           Becomes(key, obj, o), NEW step, Goto(step, NextVersion(key, o))
    PROVE  /\ pc' = step
           /\ obj'.live /\ WellFormed(obj')
           /\ obj'.state = o.state /\ obj'.deleting = o.deleting
           /\ obj'.namespace = o.namespace
<1>1. key \in Reservation
  BY DEF TypeInv, TypeOK, ControllerTypeOK
<1>2. WellFormed(o)
  BY BecomesWellFormed DEF WorkerKnows
<1>3. obj' = NextVersion(key, o) /\ pc' = step
  BY DEF Goto
<1> QED
  BY <1>1, <1>2, <1>3, VersionFields, VersionWellFormed

LEMMA WorkerStepKnows ==
    ASSUME TypeInv, WorkerKnows, WorkerStep
    PROVE  WorkerKnows'
<1>1. obj \in ResObject /\ now \in Nat /\ expirationTS \in Nat
  BY DEF TypeInv, TypeOK, ControllerTypeOK, ClusterTypeOK
<1>2. pc # "idle" => obj.live /\ WellFormed(obj)
  BY DEF WorkerKnows
<1>3. CASE ActiveAddFinalizer
  <2>1. pc = "addFinalizer" /\ obj.state = "active"
    BY <1>3 DEF ActiveAddFinalizer, WorkerKnows
  <2>2. Done \/ Requeue \/ Goto("refresh", NextVersion(key, WithFinalizer(obj)))
    BY <1>3 DEF ActiveAddFinalizer
  <2>3. CASE Goto("refresh", NextVersion(key, WithFinalizer(obj)))
    <3>1. /\ WithFinalizer(obj) \in ResObject /\ WithFinalizer(obj).live
          /\ WithFinalizer(obj).state = "active"
      BY <1>1, <1>2, <2>1, StoredTypes DEF WithFinalizer, ResObject
    <3>2. pc' = "refresh" /\ obj'.live /\ WellFormed(obj') /\ obj'.state = "active"
      BY <1>1, <1>2, <2>1, <2>3, <3>1, FinalizerBecomes, StoredKnows
    <3> QED
      BY <3>2 DEF WorkerKnows
  <2> QED
    BY <2>2, <2>3, EndKnows
<1>4. CASE Activate
  <2>1. pc = "status" /\ obj.state \in {"", "waiting"}
    BY <1>4 DEF Activate, WorkerKnows
  <2>2. Done \/ Requeue \/ Goto("finalizer", NextVersion(key, Activated(obj)))
    BY <1>4 DEF Activate
  <2>3. CASE Goto("finalizer", NextVersion(key, Activated(obj)))
    <3>1. Activated(obj) \in ResObject
      BY <1>1, <2>1, ActivatedType DEF TypeInv, PickedIsNamespace
    <3>2. Activated(obj).live /\ Activated(obj).state = "active"
      BY <1>1, <1>2, <2>1 DEF Activated, ResObject
    <3>3. Becomes(key, obj, Activated(obj))
      BY <1>1, <1>2, <1>4, <2>1, ActivatedBecomes
    <3>4. pc' = "finalizer" /\ obj'.live /\ WellFormed(obj') /\ obj'.state = "active"
      BY <2>1, <2>3, <3>1, <3>2, <3>3, StoredKnows
    <3> QED
      BY <3>4 DEF WorkerKnows
  <2> QED
    BY <2>2, <2>3, EndKnows
<1>5. CASE MarkDeleting
  <2>1. pc = "mark" /\ obj.deleting /\ obj.namespace # NoNamespace
    BY <1>5 DEF MarkDeleting, WorkerKnows
  <2>2. CASE obj.state = "deleting"
    <3>1. pc' = "drain" /\ obj' = obj
      BY <1>5, <2>2 DEF MarkDeleting, Goto
    <3> QED
      BY <1>2, <2>1, <2>2, <3>1 DEF WorkerKnows
  <2>3. CASE obj.state # "deleting"
    <3>1. Done \/ Requeue \/ Goto("drain", NextVersion(key, Deleting(obj)))
      BY <1>5, <2>3 DEF MarkDeleting
    <3>2. CASE Goto("drain", NextVersion(key, Deleting(obj)))
      <4>1. Deleting(obj) \in ResObject
        BY <1>1, StoredTypes
      <4>2. /\ Deleting(obj).live /\ Deleting(obj).state = "deleting"
            /\ Deleting(obj).deleting /\ Deleting(obj).namespace = obj.namespace
        BY <1>1, <1>2, <2>1 DEF Deleting, ResObject
      <4>3. Becomes(key, obj, Deleting(obj))
        BY <1>1, <1>2, <2>1, <2>3, DeletingBecomes
      <4>4. /\ pc' = "drain" /\ obj'.live /\ WellFormed(obj')
            /\ obj'.state = "deleting" /\ obj'.deleting
            /\ obj'.namespace = obj.namespace
        BY <2>1, <3>2, <4>1, <4>2, <4>3, StoredKnows
      <4> QED
        BY <2>1, <4>4 DEF WorkerKnows
    <3> QED
      BY <3>1, <3>2, EndKnows
  <2> QED
    BY <2>2, <2>3
<1>6. CASE DrainClusters
  <2>1. Requeue \/ (pc = "drain" /\ pc' = "release" /\ obj' = obj)
    BY <1>6 DEF DrainClusters, Goto
  <2> QED
    BY <2>1, EndKnows DEF WorkerKnows
<1>7. ASSUME NEW n \in Namespace, PickNamespace(n)
      PROVE  WorkerKnows'
  <2>1. pc = "list" /\ pc' \in {"verify", "reserve"} /\ obj' = obj
    BY <1>7 DEF PickNamespace, MayAssign
  <2> QED
    BY <2>1 DEF WorkerKnows
<1>8. CASE verifyClowdEnvForReadyNs
  <2>1. Requeue \/ (pc = "verify" /\ pc' = "reserve" /\ obj' = obj)
    BY <1>8 DEF verifyClowdEnvForReadyNs, Goto
  <2> QED
    BY <2>1, EndKnows DEF WorkerKnows
<1>9. CASE ReserveNamespace
  <2>1. Requeue \/ (pc = "reserve" /\ pc' = "bind" /\ obj' = obj)
    BY <1>9 DEF ReserveNamespace, Goto
  <2> QED
    BY <2>1, EndKnows DEF WorkerKnows
<1>10. CASE AddRoleBindings
  <2>1. Requeue \/ (pc = "bind" /\ pc' = "status" /\ obj' = obj)
    BY <1>10 DEF AddRoleBindings, Goto
  <2> QED
    BY <2>1, EndKnows DEF WorkerKnows
<1>11. CASE \/ ActiveRefresh \/ DeleteExpiredWaiting \/ RejectDuration \/ AwaitNamespace
            \/ CopySecretsFails \/ AddFinalizer \/ AbandonUnassigned \/ ReleaseFinalizer
  <2>1. Done \/ Requeue
    BY <1>11
    DEF ActiveRefresh, DeleteExpiredWaiting, RejectDuration, AwaitNamespace,
        CopySecretsFails, AddFinalizer, AbandonUnassigned, ReleaseFinalizer
  <2> QED
    BY <2>1, EndKnows
<1> QED
  BY <1>3, <1>4, <1>5, <1>6, <1>7, <1>8, <1>9, <1>10, <1>11 DEF WorkerStep

LEMMA LifeStep ==
    ASSUME TypeInv, AssignmentInv, LifeInv, [Next]_vars
    PROVE  LifeInv'
<1> USE DEF LifeInv
<1>1. AllWellFormed'
  BY StepStores, AllWellFormedStep
<1>2. ASSUME UNCHANGED workerVars
      PROVE  WorkerKnows'
  BY <1>2 DEF workerVars, WorkerKnows, WellFormed
<1>3. ASSUME NEW r \in Reservation, ReservationEvent(r) \/ Resync(r)
      PROVE  WorkerKnows'
  BY <1>2, <1>3 DEF ReservationEvent, Resync
<1>4. ASSUME Crash
      PROVE  WorkerKnows'
  BY <1>4, ForgetKnows DEF Crash
<1>5. ASSUME UNCHANGED vars
      PROVE  WorkerKnows'
  BY <1>2, <1>5 DEF vars, controllerVars
<1>6. WorkerKnows'
  BY <1>2, <1>3, <1>4, <1>5, ReconcileKnows, WorkerStepKnows
  DEF Next, operatorVars, controllerVars
<1> QED
  BY <1>1, <1>6

LEMMA LifeInit ==
    ASSUME Init
    PROVE  LifeInv
<1>1. \A r \in Reservation :
        /\ res[r] = NoReservation(0) /\ resCache[r] = NoReservation(0)
        /\ resWatch[r] = {}
  BY DEF Init, ClusterInit
<1>2. WellFormed(NoReservation(0))
  BY DEF WellFormed, NoReservation
<1>3. AllWellFormed
  BY <1>1, <1>2 DEF AllWellFormed
<1>4. pc = "idle"
  BY DEF Init, ControllerInit
<1> QED
  BY <1>3, <1>4 DEF LifeInv, WorkerKnows

SystemInv == TypeInv /\ AssignmentInv /\ LifeInv

LEMMA SystemInvariant == Spec => []SystemInv
<1>1. Init => SystemInv
  BY TypeInit, AssignmentInit, LifeInit DEF SystemInv
<1>2. SystemInv /\ [Next]_vars => SystemInv'
  BY TypeStep, AssignmentStep, LifeStep DEF SystemInv
<1> QED
  BY <1>1, <1>2, PTL DEF Spec

\* A reservation that has the cleanup finalizer has a namespace, so that no
\* deletion is held up for the clusters of none, although the finalizer is
\* added by an Update of its own and from copies that may be stale; unless
\* users write the finalizer themselves.
THEOREM FinalizerNeedsNamespace ==
    ASSUME ~RestoredFinalizer
    PROVE  Spec => []FinalizerHasNamespace
<1>1. SystemInv => FinalizerHasNamespace
  BY DEF SystemInv, LifeInv, AllWellFormed, WellFormed, FinalizerHasNamespace
<1> QED
  BY <1>1, SystemInvariant, PTL

-----------------------------------------------------------------------------
(***************************************************************************)
(* AssignmentStable.                                                       *)
(***************************************************************************)
LEMMA RankOrder ==
    /\ Rank("") = 0 /\ Rank("waiting") = 1
    /\ Rank("active") = 2 /\ Rank("deleting") = 3
  BY DEF Rank

LEMMA RankType ==
    ASSUME NEW s \in State
    PROVE  Rank(s) \in 0..3
<1>1. s \in {"", "waiting", "active", "deleting"}
  BY DEF State
<1>2. Rank(s) \in {0, 1, 2, 3}
  BY <1>1, RankOrder, Zenon
<1> QED
  BY <1>2

LEMMA BecomesStable ==
    ASSUME NEW r, NEW o \in ResObject, NEW p \in ResObject, WellFormed(o),
           Becomes(r, o, p), o.live, p.live
    PROVE  /\ Rank(p.state) >= Rank(o.state)
           /\ o.namespace # NoNamespace => p.namespace = o.namespace
<1>1. Rank(o.state) \in 0..3 /\ Rank(p.state) \in 0..3
  BY RankType DEF ResObject
<1>2. CASE Edited(o, p)
  BY <1>1, <1>2 DEF Edited
<1>3. CASE Delayed(o, p)
  <2>1. Rank(o.state) = 0 /\ Rank(p.state) = 1 /\ p.namespace = o.namespace
    BY <1>3, RankOrder, Zenon DEF Delayed
  <2> QED
    BY <2>1
<1>4. CASE Lent(r, o, p)
  <2>1. (Rank(o.state) = 0 \/ Rank(o.state) = 1) /\ Rank(p.state) = 2
    BY <1>4, RankOrder, Zenon DEF Lent
  <2>2. o.namespace = NoNamespace
    BY <1>4 DEF Lent, WellFormed
  <2> QED
    BY <2>1, <2>2
<1>5. CASE Returned(o, p)
  <2>1. Rank(o.state) = 2 /\ Rank(p.state) = 3 /\ p.namespace = o.namespace
    BY <1>5, RankOrder, Zenon DEF Returned
  <2> QED
    BY <2>1
<1> QED
  BY <1>2, <1>3, <1>4, <1>5 DEF Becomes, Created, Removed

\* What is stored, without its version.
LEMMA StoredFields ==
    ASSUME TypeInv, NEW r \in Reservation, NEW o \in ResObject, Stores(r, o)
    PROVE  /\ res'[r].live = o.live /\ res'[r].uid = o.uid
           /\ res'[r].state = o.state /\ res'[r].namespace = o.namespace
           /\ res'[r].deleting = o.deleting /\ res'[r].finalizer = o.finalizer
           /\ \A q \in Reservation \ {r} : res'[q] = res[q]
           /\ res[r] \in ResObject
<1>1. res'[r] = NextVersion(r, o) /\ \A q \in Reservation \ {r} : res'[q] = res[q]
  BY WrittenVersion DEF Stores, TypeInv, TypeOK
<1> QED
  BY <1>1, VersionFields DEF TypeInv, TypeOK, ClusterTypeOK

\* A reservation keeps the namespace it was given, and its state never goes
\* back, although reconciles work on stale copies and the user, the poller and
\* the worker write it at the same time.
THEOREM AssignmentIsStable == Spec => AssignmentStable
<1> DEFINE Stable(r) ==
      res[r].live /\ res'[r].live /\ res'[r].uid = res[r].uid =>
         /\ Rank(res'[r].state) >= Rank(res[r].state)
         /\ Assigned(r) => res'[r].namespace = res[r].namespace
<1>1. ASSUME SystemInv, [Next]_vars, NEW r \in Reservation
      PROVE  Stable(r)
  <2> USE <1>1 DEF SystemInv
  <2>1. ASSUME res'[r] = res[r]
        PROVE  Stable(r)
    <3>1. Rank(res[r].state) \in 0..3
      BY RankType DEF TypeInv, TypeOK, ClusterTypeOK, ResObject
    <3> QED
      BY <2>1, <3>1
  <2>2. ASSUME NEW q \in Reservation, NEW o \in ResObject, Stores(q, o)
        PROVE  Stable(r)
    <3>1. CASE q = r
      <4>1. WellFormed(res[r]) /\ Becomes(r, res[r], o) /\ res[r] \in ResObject
        BY <2>2, <3>1, StoredFields DEF Stores, LifeInv, AllWellFormed
      <4> QED
        BY <2>2, <3>1, <4>1, StoredFields, BecomesStable DEF Assigned
    <3>2. CASE q # r
      BY <2>1, <2>2, <3>2, StoredFields
    <3> QED
      BY <3>1, <3>2
  <2>3. CASE StoresNothing
    BY <2>1, <2>3 DEF StoresNothing
  <2> QED
    BY <2>2, <2>3, StepStores
<1>2. SystemInv /\ [Next]_vars => [\A r \in Reservation : Stable(r)]_vars
  BY <1>1
<1> QED
  BY <1>2, SystemInvariant, PTL DEF Spec, AssignmentStable

-----------------------------------------------------------------------------
(***************************************************************************)
(* DrainCompleted.                                                         *)
(***************************************************************************)
\* A cluster is deleted only by the worker, which must have seen it; so it is
\* in the cache until it is gone.
DrainInv ==
    /\ \A n \in Namespace : clusters[n] = "deleting" => clusterCache[n] # "none"
    /\ pc = "release" => clusters[obj.namespace] # "deleting"

LEMMA OnlyDrainDeletes ==
    ASSUME TypeInv, [Next]_vars, ~DrainClusters, NEW n \in Namespace
    PROVE  clusters'[n] = "deleting" => clusters[n] = "deleting"
<1> USE DEF TypeInv, TypeOK, ClusterTypeOK
<1>1. ASSUME NEW r \in Reservation, UserStep(r)
      PROVE  clusters'[n] = "deleting" => clusters[n] = "deleting"
  BY <1>1
  DEF UserStep, CreateReservation, EditDuration, DeleteReservation, DeployCluster, capiVars
<1>2. ASSUME NEW m \in Namespace, ClusterStep(m)
      PROVE  clusters'[n] = "deleting" => clusters[n] = "deleting"
  BY <1>2
  DEF ClusterStep, DeliverNs, GarbageCollect, FinalizeNamespace, ClusterRemoved,
      DeliverCluster, capiVars
<1>3. CASE Tick \/ Crash \/ UNCHANGED vars
  BY <1>3 DEF Tick, Crash, vars, clusterVars, capiVars
<1>4. CASE PoolActs
  BY <1>4, PoolUnchanged DEF capiVars
<1>5. CASE PollerStep
  BY <1>5
  DEF PollerStep, populateActiveReservations, PollExpired, PollDelete, clusterVars, capiVars
<1>6. ASSUME NEW r \in Reservation, Reconcile(r) \/ ReservationEvent(r) \/ Resync(r)
      PROVE  UNCHANGED clusters
  BY <1>6 DEF Reconcile, ReservationEvent, DeliverRes, Resync, clusterVars, capiVars
<1>7. CASE WorkerStep
  BY <1>7
  DEF WorkerStep, ActiveAddFinalizer, ActiveRefresh, DeleteExpiredWaiting, RejectDuration,
      AwaitNamespace, PickNamespace, verifyClowdEnvForReadyNs, CopySecretsFails,
      ReserveNamespace, AddRoleBindings, Activate, AddFinalizer, AbandonUnassigned,
      MarkDeleting, ReleaseFinalizer, ResWriteUnchanged, clusterVars, capiVars
<1> QED
  BY <1>1, <1>2, <1>3, <1>4, <1>5, <1>6, <1>7 DEF Next, PoolActs

LEMMA CacheMoves ==
    ASSUME TypeInv, [Next]_vars
    PROVE  \/ UNCHANGED clusterCache
           \/ \E n \in Namespace : DeliverCluster(n)
           \/ clusterCache' = clusters /\ UNCHANGED clusters
<1>1. ASSUME NEW r \in Reservation, UserStep(r)
      PROVE  UNCHANGED clusterCache
  BY <1>1
  DEF UserStep, CreateReservation, EditDuration, DeleteReservation, DeployCluster, capiVars
<1>2. ASSUME NEW m \in Namespace, ClusterStep(m)
      PROVE  UNCHANGED clusterCache \/ DeliverCluster(m)
  BY <1>2
  DEF ClusterStep, DeliverNs, GarbageCollect, FinalizeNamespace, ClusterRemoved, capiVars
<1>3. CASE Crash
  BY <1>3 DEF Crash
<1>4. CASE PoolActs
  BY <1>4, PoolUnchanged DEF capiVars
<1>5. CASE PollerStep
  BY <1>5
  DEF PollerStep, populateActiveReservations, PollExpired, PollDelete, clusterVars, capiVars
<1>6. ASSUME NEW r \in Reservation, Reconcile(r) \/ ReservationEvent(r) \/ Resync(r)
      PROVE  UNCHANGED clusterCache
  BY <1>6 DEF Reconcile, ReservationEvent, DeliverRes, Resync, clusterVars, capiVars
<1>7. CASE WorkerStep
  BY <1>7
  DEF WorkerStep, ActiveAddFinalizer, ActiveRefresh, DeleteExpiredWaiting, RejectDuration,
      AwaitNamespace, PickNamespace, verifyClowdEnvForReadyNs, CopySecretsFails,
      ReserveNamespace, AddRoleBindings, Activate, AddFinalizer, AbandonUnassigned,
      MarkDeleting, DrainClusters, ReleaseFinalizer, ResWriteUnchanged, clusterVars, capiVars
<1>8. CASE Tick \/ UNCHANGED vars
  BY <1>8 DEF Tick, vars, clusterVars, capiVars
<1> QED
  BY <1>1, <1>2, <1>3, <1>4, <1>5, <1>6, <1>7, <1>8 DEF Next, PoolActs

\* Only DrainClusters leads to the release.
LEMMA ReleaseAfterDrain ==
    ASSUME TypeInv, [Next]_vars, pc' = "release", ~DrainClusters
    PROVE  pc = "release" /\ obj' = obj
<1>1. ASSUME NEW step, NEW o, Goto(step, o), step # "release"
      PROVE  FALSE
  BY <1>1 DEF Goto
<1>2. CASE WorkerStep
  BY <1>1, <1>2
  DEF WorkerStep, ActiveAddFinalizer, ActiveRefresh, DeleteExpiredWaiting, RejectDuration,
      AwaitNamespace, PickNamespace, verifyClowdEnvForReadyNs, CopySecretsFails,
      ReserveNamespace, AddRoleBindings, Activate, AddFinalizer, AbandonUnassigned,
      MarkDeleting, ReleaseFinalizer, Done, Requeue, Forget
<1>3. ASSUME NEW r \in Reservation, Reconcile(r)
      PROVE  FALSE
  BY <1>3 DEF Reconcile, FirstStep, Forget
<1>4. CASE Crash
  BY <1>4 DEF Crash, Forget
<1>5. ASSUME UNCHANGED workerVars
      PROVE  pc = "release" /\ obj' = obj
  BY <1>5 DEF workerVars
<1> QED
  BY <1>2, <1>3, <1>4, <1>5
  DEF Next, ReservationEvent, Resync, vars, operatorVars, controllerVars

LEMMA DrainStep ==
    ASSUME TypeInv, LifeInv, DrainInv, [Next]_vars
    PROVE  DrainInv'
<1>1. CASE DrainClusters
  <2>1. obj.namespace \in Namespace /\ clusters \in [Namespace -> ClusterState]
    BY <1>1
    DEF DrainClusters, LifeInv, WorkerKnows, TypeInv, TypeOK, ControllerTypeOK,
        ClusterTypeOK, ResObject
  <2>2. UNCHANGED clusterCache
    BY <1>1 DEF DrainClusters
  <2>3. \A n \in Namespace :
          clusters'[n] = "deleting" =>
            clusters[n] = "deleting" \/ clusterCache[n] = "running"
    BY <1>1, <2>1 DEF DrainClusters
  <2>4. ASSUME pc' = "release"
        PROVE  clusters'[obj'.namespace] # "deleting"
    <3>1. clusterCache[obj.namespace] = "none" /\ obj' = obj
      BY <1>1, <2>4 DEF DrainClusters, Goto, Requeue, Forget, Remaining
    <3> QED
      BY <2>1, <2>3, <3>1 DEF DrainInv
  <2> QED
    BY <2>2, <2>3, <2>4 DEF DrainInv
<1>2. CASE ~DrainClusters
  <2>1. \A n \in Namespace : clusters'[n] = "deleting" => clusters[n] = "deleting"
    BY <1>2, OnlyDrainDeletes
  <2>2. \A n \in Namespace : clusters'[n] = "deleting" => clusterCache'[n] # "none"
    <3>1. ASSUME NEW n \in Namespace, DeliverCluster(n), NEW m \in Namespace,
                 clusters'[m] = "deleting"
          PROVE  clusterCache'[m] # "none"
      BY <2>1, <3>1 DEF DeliverCluster, DrainInv, TypeInv, TypeOK, ClusterTypeOK
    <3> QED
      BY <2>1, <3>1, CacheMoves DEF DrainInv
  <2>3. ASSUME pc' = "release"
        PROVE  clusters'[obj'.namespace] # "deleting"
    <3>1. pc = "release" /\ obj' = obj
      BY <1>2, <2>3, ReleaseAfterDrain
    <3>2. obj.namespace \in Namespace
      BY <3>1 DEF LifeInv, WorkerKnows, TypeInv, TypeOK, ControllerTypeOK, ResObject
    <3> QED
      BY <2>1, <3>1, <3>2 DEF DrainInv
  <2> QED
    BY <2>2, <2>3 DEF DrainInv
<1> QED
  BY <1>1, <1>2

\* When the finalizer of a reservation is removed, none of its clusters is
\* still being deleted, although the worker sees clusters late and others may
\* be deployed while it drains.
THEOREM DrainIsCompleted == Spec => DrainCompleted
<1> DEFINE Inv == SystemInv /\ DrainInv
<1> DEFINE Drained(r) ==
      Assigned(r) /\ res[r].finalizer /\ ~(res'[r].live /\ res'[r].finalizer)
         => clusters[res[r].namespace] # "deleting"
<1>1. Init => Inv
  BY TypeInit, AssignmentInit, LifeInit
  DEF SystemInv, DrainInv, Init, ClusterInit, ControllerInit
<1>2. Inv /\ [Next]_vars => Inv'
  BY TypeStep, AssignmentStep, LifeStep, DrainStep DEF SystemInv
<1>3. ASSUME Inv, [Next]_vars, NEW r \in Reservation
      PROVE  Drained(r)
  <2> USE <1>3 DEF SystemInv
  <2>1. CASE res'[r] = res[r]
    BY <2>1 DEF Assigned
  <2>2. ASSUME NEW o \in ResObject, Stores(r, o)
        PROVE  Drained(r)
    <3>1. CASE Removed(r, res[r], o) /\ Assigned(r) /\ res[r].finalizer
      <4>1. pc \in {"abandon", "release"} /\ obj = res[r] /\ res[r].namespace # NoNamespace
        BY <3>1, Zenon DEF Removed, Assigned
      <4>2. pc = "release"
        BY <4>1 DEF LifeInv, WorkerKnows
      <4> QED
        BY <4>1, <4>2 DEF DrainInv
    <3>2. CASE ~Removed(r, res[r], o)
      BY <2>2, <3>2, StoredFields
      DEF Stores, Becomes, Created, Edited, Delayed, Lent, Returned, SameReservation, Assigned
    <3> QED
      BY <3>1, <3>2
  <2>3. ASSUME NEW q \in Reservation \ {r}, NEW o \in ResObject, Stores(q, o)
        PROVE  Drained(r)
    BY <2>1, <2>3, StoredFields
  <2>4. CASE StoresNothing
    BY <2>1, <2>4 DEF StoresNothing
  <2> QED
    BY <2>2, <2>3, <2>4, StepStores
<1>4. Inv /\ [Next]_vars => [\A r \in Reservation : Drained(r)]_vars
  BY <1>3
<1> QED
  BY <1>1, <1>2, <1>4, PTL DEF Spec, DrainCompleted
=============================================================================
