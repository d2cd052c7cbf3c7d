--------------------------- MODULE CheckoutProofs ---------------------------
(***************************************************************************)
(* ReservationSystem implements Checkout: every step of the users, the     *)
(* worker, the poller, the pool and the cluster is a step of checking      *)
(* namespaces out, or none; and a namespace that was checked out is never  *)
(* the pool's again.                                                       *)
(***************************************************************************)
EXTENDS LifecycleProofs

USE ApiCallsAssumption, ClusterAssumption, NamespacesAssumption,
    PoolAbstractionAssumption, PollerAssumption, ReservationControllerAssumption,
    ReservationSystemAssumption

\* The variables of Checkout, as ReservationSystem maps them.
Stages == [r \in Reservation |-> StageOf(res[r])]
Leases == [r \in Reservation |-> res[r].namespace]

-----------------------------------------------------------------------------
(***************************************************************************)
(* What storing a reservation does to its stage and its lease.             *)
(***************************************************************************)
StageStays(o, p) == StageOf(p) = StageOf(o) /\ p.namespace = o.namespace

StageMoves(o, p, from, to) == StageOf(o) \in from /\ StageOf(p) = to

LEMMA StageCases ==
    ASSUME NEW o \in ResObject
    PROVE  /\ ~o.live => StageOf(o) = "absent"
           /\ o.live /\ o.namespace = NoNamespace => StageOf(o) = "requested"
           /\ o.live /\ o.namespace # NoNamespace /\ o.state = "active" =>
                StageOf(o) = "lent"
           /\ o.live /\ o.namespace # NoNamespace /\ o.state # "active" =>
                StageOf(o) = "returning"
<1>1. ASSUME ~o.live
      PROVE  StageOf(o) = "absent"
  BY <1>1 DEF StageOf
<1>2. ASSUME o.live, o.namespace = NoNamespace
      PROVE  StageOf(o) = "requested"
  BY <1>2 DEF StageOf
<1>3. ASSUME o.live, o.namespace # NoNamespace, o.state = "active"
      PROVE  StageOf(o) = "lent"
  BY <1>3 DEF StageOf
<1>4. ASSUME o.live, o.namespace # NoNamespace, o.state # "active"
      PROVE  StageOf(o) = "returning"
  BY <1>4 DEF StageOf
<1> QED
  BY <1>1, <1>2, <1>3, <1>4

LEMMA StageSteps ==
    ASSUME NEW r, NEW o \in ResObject, NEW p \in ResObject, WellFormed(o), WellFormed(p),
           Becomes(r, o, p)
    PROVE  \/ StageStays(o, p)
           \/ StageMoves(o, p, {"absent"}, "requested") /\ p.namespace = o.namespace
           \/ StageMoves(o, p, {"lent"}, "returning") /\ p.namespace = o.namespace
           \/ /\ StageMoves(o, p, {"requested", "lent", "returning"}, "absent")
              /\ p.namespace = NoNamespace
           \/ /\ Lent(r, o, p)
              /\ StageMoves(o, p, {"requested"}, "lent") /\ p.namespace = picked
<1> USE DEF StageStays, StageMoves
<1>1. CASE Created(o, p)
  <2>1. ~o.live /\ o.namespace = NoNamespace /\ p.live /\ p.namespace = NoNamespace
    BY <1>1 DEF Created, WellFormed
  <2> QED
    BY <2>1, StageCases
<1>2. CASE Removed(r, o, p)
  <2>1. o.live /\ ~p.live /\ p.namespace = NoNamespace
    BY <1>2 DEF Removed
  <2> QED
    BY <2>1, StageCases
<1>3. CASE Edited(o, p)
  <2>1. o.live /\ p.live /\ p.state = o.state /\ p.namespace = o.namespace
    BY <1>3 DEF Edited, SameReservation
  <2> QED
    BY <2>1, StageCases
<1>4. CASE Delayed(o, p)
  <2>1. o.live /\ p.live /\ o.namespace = NoNamespace /\ p.namespace = o.namespace
    BY <1>4 DEF Delayed, SameReservation, WellFormed
  <2> QED
    BY <2>1, StageCases
<1>5. CASE Lent(r, o, p)
  <2>1. /\ o.live /\ o.namespace = NoNamespace
        /\ p.live /\ p.state = "active" /\ p.namespace # NoNamespace
        /\ p.namespace = picked
    BY <1>5 DEF Lent, SameReservation, WellFormed
  <2> QED
    BY <1>5, <2>1, StageCases
<1>6. CASE Returned(o, p)
  <2>1. /\ o.live /\ o.namespace # NoNamespace /\ o.state = "active"
        /\ p.live /\ p.state = "deleting" /\ p.namespace = o.namespace
    BY <1>6 DEF Returned, SameReservation, WellFormed
  <2> QED
    BY <2>1, StageCases
<1> QED
  BY <1>1, <1>2, <1>3, <1>4, <1>5, <1>6 DEF Becomes

LEMMA MappedStore ==
    ASSUME SystemInv, NEW r \in Reservation, NEW o \in ResObject, Stores(r, o)
    PROVE  /\ Stages' = [Stages EXCEPT ![r] = StageOf(o)]
           /\ Leases' = [Leases EXCEPT ![r] = o.namespace]
           /\ Stages[r] = StageOf(res[r]) /\ Leases[r] = res[r].namespace
           /\ res[r] \in ResObject /\ WellFormed(res[r]) /\ WellFormed(o)
<1> USE DEF SystemInv, Stages, Leases
<1>1. /\ res'[r].live = o.live /\ res'[r].state = o.state
      /\ res'[r].namespace = o.namespace
      /\ \A q \in Reservation \ {r} : res'[q] = res[q]
  BY StoredFields
<1>2. StageOf(res'[r]) = StageOf(o)
  BY <1>1 DEF StageOf
<1>3. res[r] \in ResObject /\ WellFormed(res[r]) /\ WellFormed(o)
  BY StoredFields, BecomesWellFormed DEF Stores, LifeInv, AllWellFormed
<1> QED
  BY <1>1, <1>2, <1>3

-----------------------------------------------------------------------------
(***************************************************************************)
(* What a step does to the fresh namespaces.                               *)
(***************************************************************************)
LEMMA SilentWorker ==
    ASSUME WorkerStep, ~Activate, ~AddRoleBindings
    PROVE  pc # "status" /\ pc' # "status" /\ UNCHANGED roleBinding
<1>1. ASSUME NEW step, NEW o, Goto(step, o), step # "status"
      PROVE  pc' # "status"
  BY <1>1 DEF Goto
<1>2. ASSUME Done \/ Requeue
      PROVE  pc' # "status"
  BY <1>2 DEF Done, Requeue, Forget
<1>3. CASE \/ ActiveAddFinalizer \/ ActiveRefresh \/ DeleteExpiredWaiting
           \/ RejectDuration \/ AwaitNamespace \/ AddFinalizer \/ AbandonUnassigned
           \/ MarkDeleting \/ ReleaseFinalizer
  BY <1>1, <1>2, <1>3
  DEF ActiveAddFinalizer, ActiveRefresh, DeleteExpiredWaiting, RejectDuration,
      AwaitNamespace, MayAssign, AddFinalizer, AbandonUnassigned, MarkDeleting,
      ReleaseFinalizer, ResWriteUnchanged
<1>4. CASE verifyClowdEnvForReadyNs \/ CopySecretsFails \/ ReserveNamespace \/ DrainClusters
  BY <1>1, <1>2, <1>4
  DEF verifyClowdEnvForReadyNs, CopySecretsFails, ReserveNamespace, DrainClusters, clusterVars
<1>5. ASSUME NEW n \in Namespace, PickNamespace(n)
      PROVE  pc # "status" /\ pc' # "status" /\ UNCHANGED roleBinding
  BY <1>5 DEF PickNamespace, MayAssign, clusterVars
<1> QED
  BY <1>3, <1>4, <1>5 DEF WorkerStep

LEMMA SilentOthers ==
    ASSUME [Next]_vars, ~WorkerStep, ~Crash
    PROVE  /\ UNCHANGED roleBinding
           /\ \/ UNCHANGED <<pc, picked>>
              \/ pc = "idle" /\ pc' \notin {"verify", "reserve", "status"}
<1>1. ASSUME NEW r \in Reservation, UserStep(r), UNCHANGED operatorVars
      PROVE  UNCHANGED <<roleBinding, pc, picked>>
  BY <1>1
  DEF UserStep, CreateReservation, EditDuration, DeleteReservation, DeployCluster,
      operatorVars, controllerVars, workerVars
<1>2. ASSUME NEW n \in Namespace, ClusterStep(n), UNCHANGED operatorVars
      PROVE  UNCHANGED <<roleBinding, pc, picked>>
  BY <1>2
  DEF ClusterStep, DeliverNs, GarbageCollect, FinalizeNamespace, ClusterRemoved,
      DeliverCluster, operatorVars, controllerVars, workerVars
<1>3. ASSUME PoolActs, UNCHANGED controllerVars
      PROVE  UNCHANGED <<roleBinding, pc, picked>>
  BY <1>3, PoolUnchanged DEF controllerVars, workerVars
<1>4. ASSUME PollerStep, UNCHANGED controllerVars
      PROVE  UNCHANGED <<roleBinding, pc, picked>>
  BY <1>4
  DEF PollerStep, populateActiveReservations, PollExpired, PollDelete, clusterVars,
      controllerVars, workerVars
<1>5. ASSUME NEW r \in Reservation, ReservationEvent(r) \/ Resync(r)
      PROVE  UNCHANGED <<roleBinding, pc, picked>>
  BY <1>5 DEF ReservationEvent, DeliverRes, Resync, clusterVars, workerVars
<1>6. ASSUME NEW r \in Reservation, Reconcile(r)
      PROVE  /\ UNCHANGED roleBinding
             /\ pc = "idle" /\ pc' \notin {"verify", "reserve", "status"}
  BY <1>6 DEF Reconcile, FirstStep, Forget, clusterVars
<1>7. ASSUME Tick, UNCHANGED operatorVars
      PROVE  UNCHANGED <<roleBinding, pc, picked>>
  BY <1>7 DEF Tick, operatorVars, controllerVars, workerVars
<1>8. ASSUME UNCHANGED vars
      PROVE  UNCHANGED <<roleBinding, pc, picked>>
  BY <1>8 DEF vars, clusterVars, controllerVars, workerVars
<1> QED
  BY <1>1, <1>2, <1>3, <1>4, <1>5, <1>6, <1>7, <1>8 DEF Next, PoolActs

LEMMA FreshMoves ==
    ASSUME SystemInv, [Next]_vars, ~Activate
    PROVE  \/ Fresh' = Fresh
           \/ UNCHANGED res /\ \E n \in Fresh : Fresh' = Fresh \ {n}
<1> USE DEF SystemInv, TypeInv
<1>1. CASE AddRoleBindings
  <2>1. /\ pc = "bind" /\ picked \in Namespace /\ UNCHANGED res
        /\ roleBinding \in [Namespace -> BOOLEAN]
    BY <1>1
    DEF AddRoleBindings, Goto, Requeue, PickedIsNamespace, TypeOK, ClusterTypeOK, resVars
  <2>2. PICK result \in Results :
          /\ Call(CanBind(picked), result)
          /\ roleBinding' = IF Applied(result)
                            THEN [roleBinding EXCEPT ![picked] = TRUE]
                            ELSE roleBinding
          /\ IF result = "ok" THEN Goto("status", obj) ELSE Requeue
    BY <1>1 DEF AddRoleBindings
  <2>3. CASE result = "ok"
    <3>1. pc' = "status" /\ picked' = picked
      BY <2>2, <2>3 DEF Goto
    <3>2. \A n \in Namespace \ {picked} : roleBinding'[n] = roleBinding[n]
      BY <2>1, <2>2
    <3>3. ~roleBinding[picked]
      BY <2>2, <2>3 DEF Call, CanBind
    <3> QED
      BY <2>1, <3>1, <3>2, <3>3 DEF Fresh
  <2>4. CASE result # "ok"
    <3>1. pc' # "status"
      BY <2>2, <2>4 DEF Requeue, Forget
    <3>2. CASE Applied(result)
      <4>1. ~roleBinding[picked]
        BY <2>2, <3>2 DEF Call, CanBind, Applied
      <4>2. roleBinding' = [roleBinding EXCEPT ![picked] = TRUE]
        BY <2>2, <3>2
      <4>3. Fresh' = Fresh \ {picked} /\ picked \in Fresh
        BY <2>1, <3>1, <4>1, <4>2 DEF Fresh
      <4> QED
        BY <2>1, <4>3
    <3>3. CASE ~Applied(result)
      BY <2>1, <2>2, <3>1, <3>3 DEF Fresh
    <3> QED
      BY <3>2, <3>3
  <2> QED
    BY <2>3, <2>4
<1>2. CASE Crash
  <2>1. pc' = "idle" /\ UNCHANGED <<roleBinding, res>>
    BY <1>2 DEF Crash, Forget
  <2>2. CASE pc = "status"
    <3>1. picked \in Namespace /\ roleBinding[picked]
      BY <2>2 DEF AssignmentInv, PickedIsNamespace, BoundForPicked
    <3> QED
      BY <2>1, <2>2, <3>1 DEF Fresh
  <2>3. CASE pc # "status"
    BY <2>1, <2>3 DEF Fresh
  <2> QED
    BY <2>2, <2>3
<1>3. CASE WorkerStep /\ ~AddRoleBindings
  BY <1>3, SilentWorker DEF Fresh
<1>4. CASE ~WorkerStep /\ ~Crash
  BY <1>4, SilentOthers DEF Fresh
<1> QED
  BY <1>1, <1>2, <1>3, <1>4

-----------------------------------------------------------------------------
(***************************************************************************)
(* The refinement.                                                         *)
(***************************************************************************)
\* The actions of Checkout on the mapped variables.
LEMMA MappedActions ==
    ASSUME NEW r \in Reservation
    PROVE  /\ /\ Stages[r] = "absent" /\ Stages' = [Stages EXCEPT ![r] = "requested"]
              /\ Leases' = Leases /\ Fresh' = Fresh
              => Abstract!Next
           /\ /\ Stages[r] = "lent" /\ Stages' = [Stages EXCEPT ![r] = "returning"]
              /\ Leases' = Leases /\ Fresh' = Fresh
              => Abstract!Next
           /\ /\ Stages[r] \in {"requested", "lent", "returning"}
              /\ Stages' = [Stages EXCEPT ![r] = "absent"]
              /\ Leases' = [Leases EXCEPT ![r] = NoNamespace] /\ Fresh' = Fresh
              => Abstract!Next
           /\ \A n \in Namespace :
                /\ Stages[r] = "requested" /\ Stages' = [Stages EXCEPT ![r] = "lent"]
                /\ n \in Fresh /\ Fresh' = Fresh \ {n}
                /\ Leases' = [Leases EXCEPT ![r] = n]
                => Abstract!Next
  BY DEF Abstract!Next, Abstract!Request, Abstract!Return, Abstract!End, Abstract!Lend,
         Abstract!Move, Stages, Leases

LEMMA MappedWaste ==
    ASSUME NEW n \in Namespace, n \in Fresh, Fresh' = Fresh \ {n},
           Stages' = Stages, Leases' = Leases
    PROVE  Abstract!Next
  BY DEF Abstract!Next, Abstract!Waste, Stages, Leases

MappedStep == Abstract!Next \/ UNCHANGED <<Stages, Leases, Fresh>>

LEMMA ActivateMaps ==
    ASSUME SystemInv, Activate
    PROVE  MappedStep
<1> USE DEF SystemInv
<1>1. /\ pc = "status" /\ picked \in Namespace /\ roleBinding[picked]
      /\ ResWriteUnchanged /\ key \in Reservation
      /\ obj \in ResObject /\ expirationTS \in Nat
  BY DEF Activate, TypeInv, TypeOK, ControllerTypeOK, AssignmentInv, PickedIsNamespace,
         BoundForPicked
<1>2. obj.live /\ obj.state \in {"", "waiting"} /\ WellFormed(obj)
  BY <1>1 DEF LifeInv, WorkerKnows
<1>3. PICK result \in Results :
        /\ UpdateRes(Activated(obj), result)
        /\ IF result = "ok"
           THEN IF obj.finalizer
                THEN Done
                ELSE Goto("finalizer", NextVersion(key, Activated(obj)))
           ELSE Requeue
  BY DEF Activate
<1>4. pc' # "status" /\ UNCHANGED roleBinding
  BY <1>1, <1>3 DEF Done, Requeue, Forget, Goto, ResWriteUnchanged
<1>5. picked \in Fresh /\ Fresh' = Fresh \ {picked}
  BY <1>1, <1>4 DEF Fresh
<1>6. /\ Activated(obj) \in ResObject
      /\ Activated(obj).live /\ Activated(obj).state = "active"
      /\ Activated(obj).namespace = picked
  BY <1>1, <1>2, ActivatedType DEF Activated, ResObject
<1>7. CASE Applied(result)
  <2>1. Stores(key, Activated(obj)) /\ obj = res[key]
    BY <1>1, <1>2, <1>3, <1>6, <1>7, CurrentCopy, ActivatedBecomes
    DEF Stores, ResWriteUnchanged
  <2>2. StageOf(res[key]) = "requested"
    BY <1>1, <1>2, <2>1, StageCases DEF WellFormed
  <2>3. StageOf(Activated(obj)) = "lent"
    BY <1>1, <1>6, StageCases
  <2> QED
    BY <1>1, <1>5, <1>6, <2>1, <2>2, <2>3, MappedStore, MappedActions DEF MappedStep
<1>8. CASE ~Applied(result)
  <2>1. UNCHANGED res
    BY <1>3, <1>8 DEF UpdateRes
  <2>2. Stages' = Stages /\ Leases' = Leases
    BY <2>1 DEF Stages, Leases
  <2> QED
    BY <1>1, <1>5, <2>2, MappedWaste DEF MappedStep
<1> QED
  BY <1>7, <1>8

LEMMA StepMaps ==
    ASSUME SystemInv, [Next]_vars
    PROVE  MappedStep
<1> USE DEF MappedStep
<1>1. ASSUME UNCHANGED res
      PROVE  Stages' = Stages /\ Leases' = Leases
  BY <1>1 DEF Stages, Leases
<1>2. CASE UNCHANGED res /\ ~Activate /\ Fresh' # Fresh
  <2>1. PICK n \in Fresh : Fresh' = Fresh \ {n}
    BY <1>2, FreshMoves
  <2>2. n \in Namespace
    BY DEF Fresh
  <2> QED
    BY <1>1, <1>2, <2>1, <2>2, MappedWaste
<1>3. CASE UNCHANGED res /\ Fresh' = Fresh
  BY <1>1, <1>3
<1>4. ASSUME NEW r \in Reservation, NEW o \in ResObject, Stores(r, o), ~Activate,
             Fresh' = Fresh
      PROVE  MappedStep
  <2>1. ~Lent(r, res[r], o)
    BY <1>4 DEF Lent
  <2>2. /\ Stages' = [Stages EXCEPT ![r] = StageOf(o)]
        /\ Leases' = [Leases EXCEPT ![r] = o.namespace]
        /\ Stages[r] = StageOf(res[r]) /\ Leases[r] = res[r].namespace
        /\ res[r] \in ResObject /\ WellFormed(res[r]) /\ WellFormed(o)
    BY <1>4, MappedStore
  <2>3. [Stages EXCEPT ![r] = Stages[r]] = Stages /\ [Leases EXCEPT ![r] = Leases[r]] = Leases
    BY DEF Stages, Leases
  <2>4. CASE StageStays(res[r], o)
    BY <1>4, <2>2, <2>3, <2>4 DEF StageStays
  <2>5. CASE StageMoves(res[r], o, {"absent"}, "requested") /\ o.namespace = res[r].namespace
    BY <1>4, <2>2, <2>3, <2>5, MappedActions DEF StageMoves
  <2>6. CASE StageMoves(res[r], o, {"lent"}, "returning") /\ o.namespace = res[r].namespace
    BY <1>4, <2>2, <2>3, <2>6, MappedActions DEF StageMoves
  <2>7. CASE /\ StageMoves(res[r], o, {"requested", "lent", "returning"}, "absent")
             /\ o.namespace = NoNamespace
    BY <1>4, <2>2, <2>3, <2>7, MappedActions DEF StageMoves
  <2> QED
    BY <1>4, <2>1, <2>2, <2>4, <2>5, <2>6, <2>7, StageSteps DEF Stores
<1> QED
  BY <1>2, <1>3, <1>4, ActivateMaps, FreshMoves, StepStores DEF SystemInv, StoresNothing

\* Checking out through stale caches, retries, failures and crashes amounts
\* to checking out in one step: a namespace is lent once, to one reservation,
\* which keeps it; one that was taken and lost half way is not lent at all.
THEOREM CheckoutImplemented == Spec => ImplementsCheckout
<1>1. Init => Abstract!Init
  <2> SUFFICES ASSUME Init
               PROVE  Abstract!Init
    OBVIOUS
  <2>1. NoReservation(0) \in ResObject /\ ~NoReservation(0).live
        /\ NoReservation(0).namespace = NoNamespace
    BY NoReservationType DEF NoReservation
  <2>2. StageOf(NoReservation(0)) = "absent"
    BY <2>1, StageCases
  <2>3. res = [r \in Reservation |-> NoReservation(0)]
        /\ roleBinding = [n \in Namespace |-> FALSE]
    BY DEF Init, ClusterInit
  <2> QED
    BY <2>1, <2>2, <2>3 DEF Abstract!Init, Fresh
<1>2. SystemInv /\ [Next]_vars => [Abstract!Next]_(Abstract!checkoutVars)
  BY StepMaps DEF MappedStep, Abstract!checkoutVars, Stages, Leases
<1> QED
  BY <1>1, <1>2, SystemInvariant, PTL DEF Spec, ImplementsCheckout, Abstract!Spec

-----------------------------------------------------------------------------
(***************************************************************************)
(* NeverBackToPool.                                                        *)
(***************************************************************************)
\* A namespace that does not exist yet belongs to nobody.
AbsentUnowned == \A n \in Namespace : ns[n].phase = "Absent" => ns[n].owner = NoOwner

\* One that the cache shows with an owner, or that was picked, has an owner; one
\* that is about to be given to the pool has none.
SeenOwned ==
    \A n \in Namespace : \A copy \in nsWatch[n] \cup {nsCache[n]} :
        copy.owner # NoOwner => ns[n].owner # NoOwner

PickedOwned == pc \in {"verify", "reserve"} => ns[picked].owner # NoOwner

OwnUnowned == \A n \in Namespace : poolPlan[n] = "own" => ns[n].owner = NoOwner

OwnerInv == NsVersions /\ AbsentUnowned /\ SeenOwned /\ PickedOwned /\ OwnUnowned

\* How the owner of n may change when o is stored.
KeepsOwner(n, o) ==
    /\ o.phase # "Absent"
    /\ IsReservationUid(ns[n].owner) => IsReservationUid(o.owner)
    /\ ns[n].owner # NoOwner => o.owner # NoOwner
    /\ ns[n].owner = NoOwner /\ o.owner # NoOwner => poolPlan'[n] # "own"

WritesNs(n, o) ==
    /\ o \in NsObject
    /\ WriteNs(n, o)
    /\ UNCHANGED nsCache
    /\ KeepsOwner(n, o)

LEMMA AnnotationsKeepOwner ==
    ASSUME NsTyped, OwnerInv, NEW n \in Namespace, NEW env \in EnvStatus, NEW result,
           UpdateAnnotations(n, env, result), UNCHANGED nsCache
    PROVE  UNCHANGED nsVars \/ \E o \in NsObject : WritesNs(n, o)
<1> DEFINE o == [ns[n] EXCEPT !.env = env]
<1>1. CASE UNCHANGED <<ns, nsWatch>>
  BY <1>1 DEF nsVars
<1>2. CASE Exists(ns[n]) /\ WriteNs(n, o) /\ o \in NsObject
  <2>1. o.phase = ns[n].phase /\ o.owner = ns[n].owner
    BY DEF NsTyped, NsObject
  <2> QED
    BY <1>2, <2>1 DEF WritesNs, KeepsOwner, Exists
<1> QED
  BY <1>1, <1>2, AnnotationsWritten DEF OwnerInv

LEMMA PoolKeepsOwner ==
    ASSUME NsTyped, PoolAbstractionTypeOK, OwnerInv,
           NEW n \in Namespace, PoolStep(n) \/ EnvStep(n)
    PROVE  UNCHANGED nsVars \/ \E o \in NsObject : WritesNs(n, o)
<1> USE DEF besidesNs
<1>1. CASE CreateNamespace(n)
  <2>1. ns[n].owner = NoOwner /\ UNCHANGED nsCache
    BY <1>1 DEF CreateNamespace, OwnerInv, AbsentUnowned
  <2>2. KeepsOwner(n, EmptyNs)
    BY <2>1, EmptyNsType DEF KeepsOwner, NoOwner, IsReservationUid
  <2>3. WriteNs(n, EmptyNs) \/ UNCHANGED <<ns, nsWatch>>
    BY <1>1 DEF CreateNamespace
  <2> QED
    BY <2>1, <2>2, <2>3, EmptyNsType DEF WritesNs, nsVars
<1>2. CASE OwnNamespace(n)
  <2>1. PICK result \in Results :
          /\ Retried(n, result)
          /\ IF Applied(result)
             THEN WriteNs(n, Owned(nsCache[n]))
             ELSE UNCHANGED <<ns, nsWatch>>
          /\ \/ result \in {"ok", "lost"} /\ (Intend(n, "prepare") \/ Intend(n, "delete"))
             \/ result = "failed"
    BY <1>2 DEF OwnNamespace, Results
  <2>2. ns[n].owner = NoOwner /\ UNCHANGED nsCache
    BY <1>2 DEF OwnNamespace, OwnerInv, OwnUnowned
  <2>3. CASE Applied(result)
    <3>1. nsCache[n] = ns[n] /\ Exists(ns[n]) /\ ns[n] \in NsObject
      BY <2>1, <2>3, RetriedCurrent DEF OwnerInv, NsTyped
    <3>2. poolPlan'[n] # "own"
      BY <2>1, <2>3 DEF Applied, Intend, PoolAbstractionTypeOK
    <3>3. Owned(ns[n]) \in NsObject /\ Owned(ns[n]).phase # "Absent"
      BY <3>1, NsTypes DEF Exists
    <3>4. KeepsOwner(n, Owned(ns[n]))
      BY <2>2, <3>2, <3>3 DEF KeepsOwner, NoOwner, IsReservationUid
    <3> QED
      BY <2>1, <2>2, <2>3, <3>1, <3>3, <3>4 DEF WritesNs
  <2>4. CASE ~Applied(result)
    BY <2>1, <2>2, <2>4 DEF nsVars
  <2> QED
    BY <2>3, <2>4
<1>3. CASE PrepareFails(n) \/ Prepared(n) \/ PlanRetire(n)
  BY <1>3 DEF PrepareFails, Prepared, PlanRetire, clusterVars, nsVars
<1>4. CASE MarkReady(n) \/ RetireNamespace(n) \/ MarkErrorNamespace(n) \/ EnvStep(n)
  <2>1. PICK env \in {"ready", "error", "deleting"}, result \in Results :
          UpdateAnnotations(n, env, result)
    BY <1>4 DEF MarkReady, RetireNamespace, MarkErrorNamespace, EnvStep
  <2>2. env \in EnvStatus /\ UNCHANGED nsCache
    BY <1>4 DEF MarkReady, RetireNamespace, MarkErrorNamespace, EnvStep, EnvStatus
  <2> QED
    BY <2>1, <2>2, AnnotationsKeepOwner
<1>5. CASE DeleteNamespace(n)
  <2> DEFINE o == [ns[n] EXCEPT !.phase = "Terminating"]
  <2>1. ns[n] \in NsObject /\ UNCHANGED nsCache
    BY <1>5 DEF DeleteNamespace, NsTyped
  <2>2. o \in NsObject /\ o.phase = "Terminating" /\ o.owner = ns[n].owner
    BY <2>1 DEF NsObject
  <2>3. WriteNs(n, o) \/ UNCHANGED <<ns, nsWatch>>
    BY <1>5 DEF DeleteNamespace, DeleteNs
  <2> QED
    BY <2>1, <2>2, <2>3 DEF WritesNs, KeepsOwner, nsVars
<1> QED
  BY <1>1, <1>2, <1>3, <1>4, <1>5 DEF PoolStep

\* Only a namespace that is created is planned to be given to the pool.
LEMMA OwnPlans ==
    ASSUME NsTyped, PoolAbstractionTypeOK, OwnerInv, PoolActs, NEW m \in Namespace,
           poolPlan'[m] = "own"
    PROVE  \/ poolPlan[m] = "own"
           \/ ns[m].owner = NoOwner /\ ns'[m].owner = NoOwner
<1>1. ASSUME NEW n \in Namespace, CreateNamespace(n)
      PROVE  \/ poolPlan[m] = "own"
             \/ ns[m].owner = NoOwner /\ ns'[m].owner = NoOwner
  <2>1. m = n
    BY <1>1 DEF CreateNamespace, Intend, NoPlans
  <2>2. ns[n].owner = NoOwner
    BY <1>1 DEF CreateNamespace, OwnerInv, AbsentUnowned
  <2>3. WriteNs(n, EmptyNs) \/ UNCHANGED ns
    BY <1>1 DEF CreateNamespace
  <2> QED
    BY <2>1, <2>2, <2>3, EmptyNsType, WrittenNs
<1>2. ASSUME NEW n \in Namespace, NEW plan \in Plan \ {"own"},
             Intend(n, plan) \/ GiveUp \/ UNCHANGED poolPlan
      PROVE  poolPlan[m] = "own"
  BY <1>2 DEF Intend, GiveUp, NoPlans, PoolAbstractionTypeOK
<1>3. ASSUME NEW n \in Namespace, PoolStep(n) \/ EnvStep(n), ~CreateNamespace(n)
      PROVE  \/ Intend(n, "none") \/ Intend(n, "prepare") \/ Intend(n, "delete")
             \/ Intend(n, "retire") \/ GiveUp \/ UNCHANGED poolPlan
  BY <1>3
  DEF PoolStep, OwnNamespace, PrepareFails, Prepared, MarkReady, PlanRetire, RetireNamespace,
      MarkErrorNamespace, DeleteNamespace, EnvStep, clusterVars
<1>4. ~PlanDelete
  BY DEF PlanDelete, PoolAbstractionTypeOK
<1> QED
  BY <1>1, <1>2, <1>3, <1>4 DEF PoolActs, Plan

LEMMA WorkerKeepsOwner ==
    ASSUME SystemInv, NsTyped, OwnerInv, WorkerStep
    PROVE  UNCHANGED nsVars \/ \E n \in Namespace, o \in NsObject : WritesNs(n, o)
<1> USE DEF SystemInv, TypeInv
<1>1. CASE verifyClowdEnvForReadyNs
  <2>1. picked \in Namespace /\ UNCHANGED nsCache
    BY <1>1 DEF verifyClowdEnvForReadyNs, PickedIsNamespace
  <2> QED
    BY <1>1, <2>1, AnnotationsKeepOwner DEF verifyClowdEnvForReadyNs, EnvStatus, nsVars
<1>2. CASE ReserveNamespace
  <2>1. /\ picked \in Namespace /\ UNCHANGED nsCache
        /\ obj \in ResObject /\ IsReservationUid(obj.uid)
    BY <1>2
    DEF ReserveNamespace, PickedIsNamespace, LifeInv, WorkerKnows, WellFormed, TypeOK,
        ControllerTypeOK
  <2>2. PICK result \in Results :
          /\ Call(NsCurrent(picked, nsCache[picked]), result)
          /\ IF Applied(result)
             THEN WriteNs(picked, Reserved(nsCache[picked]))
             ELSE UNCHANGED <<ns, nsWatch>>
    BY <1>2 DEF ReserveNamespace
  <2>3. ns[picked].owner # NoOwner /\ obj.uid # NoOwner
    BY <1>2, <2>1 DEF ReserveNamespace, OwnerInv, PickedOwned, IsReservationUid, NoOwner
  <2>4. CASE Applied(result)
    <3>1. nsCache[picked] = ns[picked] /\ Exists(ns[picked])
      BY <2>1, <2>2, <2>4, CurrentNs DEF Call, Applied, OwnerInv
    <3>2. /\ Reserved(ns[picked]) \in NsObject
          /\ Reserved(ns[picked]).phase = ns[picked].phase
          /\ Reserved(ns[picked]).owner = obj.uid
      <4>1. ns[picked] \in NsObject /\ obj.uid \in Nat
        BY <2>1 DEF NsTyped, ResObject
      <4> QED
        BY <4>1 DEF Reserved, NsObject
    <3> QED
      BY <2>1, <2>2, <2>4, <2>3, <3>1, <3>2 DEF WritesNs, KeepsOwner, Exists
  <2>5. CASE ~Applied(result)
    BY <2>1, <2>2, <2>5 DEF nsVars
  <2> QED
    BY <2>4, <2>5
<1>3. ASSUME NEW n \in Namespace, PickNamespace(n)
      PROVE  UNCHANGED nsVars
  BY <1>3 DEF PickNamespace, clusterVars
<1>4. CASE CopySecretsFails \/ AddRoleBindings \/ DrainClusters
  BY <1>4 DEF CopySecretsFails, AddRoleBindings, DrainClusters, clusterVars
<1>5. CASE \/ ActiveAddFinalizer \/ ActiveRefresh \/ DeleteExpiredWaiting
           \/ RejectDuration \/ AwaitNamespace \/ AddFinalizer \/ AbandonUnassigned
           \/ MarkDeleting \/ ReleaseFinalizer \/ Activate
  BY <1>5
  DEF ActiveAddFinalizer, ActiveRefresh, DeleteExpiredWaiting, RejectDuration,
      AwaitNamespace, AddFinalizer, AbandonUnassigned, MarkDeleting, ReleaseFinalizer,
      Activate, ResWriteUnchanged
<1> QED
  BY <1>1, <1>2, <1>3, <1>4, <1>5 DEF WorkerStep

LEMMA ClusterKeepsOwner ==
    ASSUME NsTyped, NEW n \in Namespace, ClusterStep(n)
    PROVE  \/ UNCHANGED nsVars
           \/ DeliverNs(n)
           \/ \E o \in NsObject : WritesNs(n, o)
<1>1. ASSUME NEW phase \in {"Terminating", "Gone"},
             WriteNs(n, [ns[n] EXCEPT !.phase = phase]), UNCHANGED nsCache
      PROVE  \E o \in NsObject : WritesNs(n, o)
  <2> DEFINE o == [ns[n] EXCEPT !.phase = phase]
  <2>1. o \in NsObject /\ o.phase = phase /\ o.owner = ns[n].owner
    <3>1. ns[n] \in NsObject
      BY DEF NsTyped
    <3> QED
      BY <3>1 DEF NsObject
  <2> QED
    BY <1>1, <2>1 DEF WritesNs, KeepsOwner
<1>2. CASE GarbageCollect(n) \/ FinalizeNamespace(n)
  BY <1>1, <1>2 DEF GarbageCollect, FinalizeNamespace
<1>3. CASE ClusterRemoved(n) \/ DeliverCluster(n)
  BY <1>3 DEF ClusterRemoved, DeliverCluster
<1> QED
  BY <1>2, <1>3 DEF ClusterStep

LEMMA StepKeepsOwner ==
    ASSUME SystemInv, NsTyped, OwnerInv, [Next]_vars
    PROVE  \/ UNCHANGED nsVars
           \/ \E n \in Namespace : DeliverNs(n)
           \/ /\ nsCache' = ns /\ nsWatch' = [n \in Namespace |-> {}]
              /\ UNCHANGED ns
           \/ \E n \in Namespace, o \in NsObject : WritesNs(n, o)
<1>1. ASSUME NEW r \in Reservation, UserStep(r)
      PROVE  UNCHANGED nsVars
  BY <1>1
  DEF UserStep, CreateReservation, EditDuration, DeleteReservation, DeployCluster
<1>2. CASE PollerStep
  BY <1>2 DEF PollerStep, populateActiveReservations, PollExpired, PollDelete, clusterVars
<1>3. ASSUME NEW r \in Reservation, Reconcile(r) \/ ReservationEvent(r) \/ Resync(r)
      PROVE  UNCHANGED nsVars
  BY <1>3 DEF Reconcile, ReservationEvent, DeliverRes, Resync, clusterVars
<1>4. CASE Tick \/ PlanDelete \/ UNCHANGED vars
  BY <1>4 DEF Tick, PlanDelete, vars, clusterVars
<1>5. CASE Crash
  BY <1>5 DEF Crash
<1>6. PoolAbstractionTypeOK
  BY DEF SystemInv, TypeInv, TypeOK
<1> QED
  BY <1>1, <1>2, <1>3, <1>4, <1>5, <1>6, PoolKeepsOwner, WorkerKeepsOwner,
     ClusterKeepsOwner
  DEF Next

\* A namespace gets to the worker by being picked.
LEMMA PickedMoves ==
    ASSUME [Next]_vars, pc' \in {"verify", "reserve"}
    PROVE  \/ pc \in {"verify", "reserve"} /\ UNCHANGED picked
           \/ \E n \in Namespace : PickNamespace(n)
<1>1. CASE WorkerStep /\ ~\E n \in Namespace : PickNamespace(n)
  <2>1. ASSUME NEW step, NEW o, Goto(step, o), step \notin {"verify", "reserve"}
        PROVE  FALSE
    BY <2>1 DEF Goto
  <2>2. ~Done /\ ~Requeue
    BY DEF Done, Requeue, Forget
  <2>3. CASE verifyClowdEnvForReadyNs
    BY <2>2, <2>3 DEF verifyClowdEnvForReadyNs, Goto
  <2>4. CASE ActiveAddFinalizer \/ ActiveRefresh \/ AddFinalizer
    BY <2>1, <2>2, <2>4 DEF ActiveAddFinalizer, ActiveRefresh, AddFinalizer
  <2>5. CASE DeleteExpiredWaiting \/ RejectDuration \/ AwaitNamespace
    BY <2>2, <2>5 DEF DeleteExpiredWaiting, RejectDuration, AwaitNamespace
  <2>6. CASE ReserveNamespace \/ AddRoleBindings \/ Activate \/ CopySecretsFails
    BY <2>1, <2>2, <2>6 DEF ReserveNamespace, AddRoleBindings, Activate, CopySecretsFails
  <2>7. CASE AbandonUnassigned \/ MarkDeleting \/ ReleaseFinalizer
    BY <2>1, <2>2, <2>7 DEF AbandonUnassigned, MarkDeleting, ReleaseFinalizer
  <2>8. CASE DrainClusters
    <3>1. Goto("release", obj) \/ Requeue
      BY <2>8 DEF DrainClusters
    <3> QED
      BY <2>1, <2>2, <3>1
  <2> QED
    BY <1>1, <2>3, <2>4, <2>5, <2>6, <2>7, <2>8 DEF WorkerStep
<1>2. CASE Crash
  BY <1>2 DEF Crash, Forget
<1> QED
  BY <1>1, <1>2, SilentOthers

LEMMA OwnPlansStep ==
    ASSUME SystemInv, NsTyped, OwnerInv, [Next]_vars, NEW m \in Namespace,
           poolPlan'[m] = "own"
    PROVE  \/ poolPlan[m] = "own"
           \/ ns[m].owner = NoOwner /\ ns'[m].owner = NoOwner
<1>1. PoolAbstractionTypeOK
  BY DEF SystemInv, TypeInv, TypeOK
<1>2. CASE UNCHANGED poolPlan
  BY <1>2
<1>3. ~Crash
  BY DEF Crash, NoPlans
<1>4. WorkerStep => UNCHANGED poolPlan
  BY DEF WorkerStep, ActiveAddFinalizer, ActiveRefresh, DeleteExpiredWaiting, RejectDuration,
      AwaitNamespace, PickNamespace, verifyClowdEnvForReadyNs, CopySecretsFails,
      ReserveNamespace, AddRoleBindings, Activate, AddFinalizer, AbandonUnassigned,
      MarkDeleting, DrainClusters, ReleaseFinalizer, ResWriteUnchanged
<1>5. ASSUME NEW r \in Reservation, Reconcile(r) \/ ReservationEvent(r) \/ Resync(r)
      PROVE  UNCHANGED poolPlan
  BY <1>5 DEF Reconcile, ReservationEvent, Resync
<1> QED
  BY <1>1, <1>2, <1>3, <1>4, <1>5, OwnPlans DEF Next, PoolActs, operatorVars, vars

\* What a step does to the owners, given what it stores.
OwnersStay ==
    \A n \in Namespace :
        /\ IsReservationUid(ns[n].owner) => IsReservationUid(ns'[n].owner)
        /\ ns[n].owner # NoOwner => ns'[n].owner # NoOwner
        /\ ns[n].owner = NoOwner /\ ns'[n].owner # NoOwner => poolPlan'[n] # "own"

LEMMA OwnerStep ==
    ASSUME SystemInv, OwnerInv, [Next]_vars
    PROVE  OwnerInv' /\ OwnersStay
<1>1. NsTyped
  BY DEF SystemInv, TypeInv, TypeOK, ClusterTypeOK, NsTyped
<1>2. NsVersions' /\ AbsentUnowned' /\ SeenOwned' /\ OwnersStay
  <2> USE <1>1 DEF OwnerInv
  <2>1. CASE UNCHANGED nsVars
    BY <2>1 DEF nsVars, NsVersions, AbsentUnowned, SeenOwned, OwnersStay
  <2>2. ASSUME NEW n \in Namespace, DeliverNs(n)
        PROVE  NsVersions' /\ AbsentUnowned' /\ SeenOwned' /\ OwnersStay
    <3>1. UNCHANGED ns
      BY <2>2 DEF DeliverNs
    <3>2. \A m \in Namespace :
            nsWatch'[m] \cup {nsCache'[m]} \subseteq nsWatch[m] \cup {nsCache[m]}
      BY <2>2 DEF DeliverNs, NsTyped
    <3> QED
      BY <2>2, <3>1, <3>2, DeliverVersions DEF AbsentUnowned, SeenOwned, OwnersStay
  <2>3. CASE /\ nsCache' = ns /\ nsWatch' = [n \in Namespace |-> {}]
             /\ UNCHANGED ns
    BY <2>3, RestartVersions DEF AbsentUnowned, SeenOwned, OwnersStay
  <2>4. ASSUME NEW n \in Namespace, NEW o \in NsObject, WritesNs(n, o)
        PROVE  NsVersions' /\ AbsentUnowned' /\ SeenOwned' /\ OwnersStay
    <3>1. NsVersions'
      BY <2>4, WriteVersions DEF WritesNs
    <3>2. /\ \A m \in Namespace \ {n} : ns'[m] = ns[m] /\ nsWatch'[m] = nsWatch[m]
          /\ ns'[n].phase = o.phase /\ ns'[n].owner = o.owner
          /\ nsWatch'[n] = nsWatch[n] \/ nsWatch'[n] = nsWatch[n] \cup {ns'[n]}
      BY <2>4, WrittenNs DEF WritesNs
    <3>3. AbsentUnowned' /\ OwnersStay
      BY <2>4, <3>2 DEF WritesNs, KeepsOwner, AbsentUnowned, OwnersStay
    <3>4. SeenOwned'
      BY <2>4, <3>2 DEF WritesNs, KeepsOwner, SeenOwned
    <3> QED
      BY <3>1, <3>3, <3>4
  <2> QED
    BY <2>1, <2>2, <2>3, <2>4, StepKeepsOwner
<1>3. PickedOwned'
  <2> SUFFICES ASSUME pc' \in {"verify", "reserve"}
               PROVE  ns'[picked'].owner # NoOwner
    BY DEF PickedOwned
  <2>1. ASSUME NEW n \in Namespace, PickNamespace(n)
        PROVE  ns'[picked'].owner # NoOwner
    <3>1. picked' = n /\ UNCHANGED ns /\ nsCache[n].owner = PoolUid
      BY <2>1
      DEF PickNamespace, GetReadyNamespaces, IsReady, OwnedByPool, clusterVars, nsVars
    <3> QED
      BY <3>1 DEF OwnerInv, SeenOwned, PoolUid, NoOwner
  <2>2. CASE pc \in {"verify", "reserve"} /\ UNCHANGED picked
    BY <1>2, <2>2 DEF OwnerInv, PickedOwned, SystemInv, PickedIsNamespace, OwnersStay, TypeInv
  <2> QED
    BY <2>1, <2>2, PickedMoves
<1>4. OwnUnowned'
  BY <1>1, <1>2, OwnPlansStep DEF OwnUnowned, OwnersStay, OwnerInv
<1> QED
  BY <1>2, <1>3, <1>4 DEF OwnerInv

LEMMA OwnerInit ==
    ASSUME Init
    PROVE  OwnerInv
  BY InitVersions
  DEF Init, ClusterInit, ControllerInit, PoolAbstractionInit, NoPlans, AbsentNs, OwnerInv,
      AbsentUnowned, SeenOwned, PickedOwned, OwnUnowned

\* A namespace that was reserved is never back in the pool: the pool
\* controller and UpdateAnnotations write the copy they have read, but only
\* if it is still the current version, and the owner it has they keep.
THEOREM ReservedForGood == Spec => NeverBackToPool
<1> DEFINE Inv == SystemInv /\ OwnerInv
<1> DEFINE StaysReserved ==
      \A n \in Namespace : IsReservationUid(ns[n].owner) => IsReservationUid(ns'[n].owner)
<1>1. Init => Inv
  BY OwnerInit, TypeInit, AssignmentInit, LifeInit DEF SystemInv
<1>2. Inv /\ [Next]_vars => Inv'
  BY OwnerStep, TypeStep, AssignmentStep, LifeStep DEF SystemInv
<1>3. Inv /\ [Next]_vars => [StaysReserved]_vars
  BY OwnerStep DEF OwnersStay
<1> QED
  BY <1>1, <1>2, <1>3, PTL DEF Spec, NeverBackToPool

-----------------------------------------------------------------------------
(***************************************************************************)
(* ImplementsCheckOuts.                                                    *)
(***************************************************************************)
\* CheckOutAbstraction and the controller speak of the same API calls.
LEMMA SameCalls ==
    /\ UNCHANGED CheckOuts!clusterVars <=> UNCHANGED clusterVars
    /\ CheckOuts!Results = Results
    /\ \A o : CheckOuts!IsReady(o) <=> IsReady(o)
    /\ \A uid : CheckOuts!IsReservationUid(uid) <=> IsReservationUid(uid)
    /\ \A result : CheckOuts!Applied(result) <=> Applied(result)
    /\ \A n, copy, result : CheckOuts!Call(CheckOuts!NsCurrent(n, copy), result)
                              <=> Call(NsCurrent(n, copy), result)
    /\ \A n, o : CheckOuts!WriteNs(n, o) <=> WriteNs(n, o)
    /\ \A n, env, result :
         CheckOuts!UpdateAnnotations(n, env, result) <=> UpdateAnnotations(n, env, result)
  BY DEF CheckOuts!clusterVars, clusterVars, CheckOuts!nsVars, nsVars, CheckOuts!resVars,
         resVars, CheckOuts!capiVars, capiVars, CheckOuts!Results, Results,
         CheckOuts!IsReady, IsReady, CheckOuts!OwnedByPool, OwnedByPool, CheckOuts!Exists,
         Exists, CheckOuts!PoolUid, PoolUid, CheckOuts!IsReservationUid, IsReservationUid,
         CheckOuts!Applied, Applied, CheckOuts!Call, Call, CheckOuts!NsCurrent, NsCurrent,
         CheckOuts!WriteNs, WriteNs, CheckOuts!UpdateAnnotations, UpdateAnnotations,
         CheckOuts!Retried, Retried

\* Only a pool with ClowdEnvironments has its namespaces verified.
Verifies == pc = "verify" => ClowderPool

LEMMA VerifiesStep ==
    ASSUME Verifies, [Next]_vars
    PROVE  Verifies'
<1> SUFFICES ASSUME pc' = "verify"
             PROVE  ClowderPool
  BY DEF Verifies
<1>1. ASSUME NEW n \in Namespace, PickNamespace(n)
      PROVE  ClowderPool
  BY <1>1 DEF PickNamespace
<1>2. CASE WorkerStep /\ ~\E n \in Namespace : PickNamespace(n)
  <2>1. ASSUME NEW step, NEW o, Goto(step, o), step # "verify"
        PROVE  FALSE
    BY <2>1 DEF Goto
  <2>2. ~Done /\ ~Requeue
    BY DEF Done, Requeue, Forget
  <2>3. CASE pc \in {"verify", "reserve"}
    <3>1. CASE pc = "verify"
      BY <3>1 DEF Verifies
    <3>2. CASE pc = "reserve"
      <4>1. ReserveNamespace \/ CopySecretsFails
        BY <1>2, <3>2
        DEF WorkerStep, ActiveAddFinalizer, ActiveRefresh, DeleteExpiredWaiting,
            RejectDuration, AwaitNamespace, MayAssign, verifyClowdEnvForReadyNs,
            AddRoleBindings, Activate, AddFinalizer, AbandonUnassigned, MarkDeleting,
            DrainClusters, ReleaseFinalizer
      <4> QED
        BY <2>1, <2>2, <4>1 DEF ReserveNamespace, CopySecretsFails
    <3> QED
      BY <2>3, <3>1, <3>2
  <2> QED
    BY <1>2, <2>3, PickedMoves
<1>3. CASE ~WorkerStep
  BY <1>3, PickedMoves, SilentOthers DEF Verifies, Crash, Forget
<1> QED
  BY <1>1, <1>2, <1>3

LEMMA TakingCases ==
    /\ pc \in {"verify", "reserve"} => Taking = picked
    /\ pc \notin {"verify", "reserve"} => Taking = NoNamespace
  BY DEF Taking

LEMMA WorkerChecksOut ==
    ASSUME SystemInv, Verifies, WorkerStep
    PROVE  \/ \E n \in Namespace : CheckOuts!Pick(n)
           \/ CheckOuts!Condemn
           \/ CheckOuts!Take(obj.uid)
           \/ CheckOuts!LetGo
           \/ UNCHANGED Taking /\ UNCHANGED nsVars
<1>1. pc \in {"verify", "reserve"} => Taking = picked /\ Taking # NoNamespace
  BY TakingCases, ClusterAssumption DEF SystemInv, PickedIsNamespace, TypeInv
<1>2. Done \/ Requeue => Taking' = NoNamespace
  BY DEF Done, Requeue, Forget, Taking
<1>3. ASSUME NEW step, NEW o, Goto(step, o), step \notin {"verify", "reserve"}
      PROVE  Taking' = NoNamespace
  BY <1>3 DEF Goto, Taking
<1>4. ASSUME NEW n \in Namespace, PickNamespace(n)
      PROVE  CheckOuts!Pick(n)
  <2>1. Taking = NoNamespace
    BY <1>4, TakingCases DEF PickNamespace, MayAssign
  <2>2. Taking' = n
    BY <1>4 DEF PickNamespace, Taking
  <2>3. IsReady(nsCache[n]) /\ UNCHANGED clusterVars
    BY <1>4 DEF PickNamespace, GetReadyNamespaces
  <2> QED
    BY <2>1, <2>2, <2>3, SameCalls DEF CheckOuts!Pick
<1>5. CASE verifyClowdEnvForReadyNs
  <2>1. ClowderPool /\ Taking = picked /\ Taking # NoNamespace
    BY <1>1, <1>5 DEF verifyClowdEnvForReadyNs, Verifies
  <2>2. CASE Goto("reserve", obj) /\ UNCHANGED <<ns, nsWatch, faults>>
    <3>1. Taking' = picked
      BY <2>2 DEF Goto, Taking
    <3> QED
      BY <1>5, <2>1, <2>2, <3>1 DEF verifyClowdEnvForReadyNs, nsVars
  <2>3. CASE Requeue /\ \E result \in Results : UpdateAnnotations(picked, "error", result)
    <3>1. UNCHANGED <<nsCache, roleBinding, resVars, capiVars, now>>
      BY <1>5 DEF verifyClowdEnvForReadyNs
    <3>2. UNCHANGED <<nsCache, roleBinding, CheckOuts!resVars, CheckOuts!capiVars, now>>
      BY <3>1 DEF CheckOuts!resVars, resVars, CheckOuts!capiVars, capiVars
    <3> QED
      BY <1>2, <2>1, <2>3, <3>2, SameCalls DEF CheckOuts!Condemn
  <2> QED
    BY <1>5, <2>2, <2>3 DEF verifyClowdEnvForReadyNs
<1>6. CASE CopySecretsFails
  BY <1>1, <1>2, <1>6, SameCalls DEF CopySecretsFails, CheckOuts!LetGo
<1>7. CASE ReserveNamespace
  <2>1. Taking = picked /\ Taking # NoNamespace /\ IsReservationUid(obj.uid)
    BY <1>1, <1>7 DEF ReserveNamespace, SystemInv, LifeInv, WorkerKnows, WellFormed
  <2>2. PICK result \in Results :
          /\ Call(NsCurrent(picked, nsCache[picked]), result)
          /\ IF Applied(result)
             THEN WriteNs(picked, Reserved(nsCache[picked]))
             ELSE UNCHANGED <<ns, nsWatch>>
          /\ Goto("bind", obj) \/ Requeue
    BY <1>7 DEF ReserveNamespace
  <2>3. Reserved(nsCache[picked]) = CheckOuts!TakenBy(nsCache[picked], obj.uid)
    BY DEF Reserved, CheckOuts!TakenBy
  <2>4. Taking' = NoNamespace
    BY <1>2, <1>3, <2>2
  <2>5. UNCHANGED <<nsCache, roleBinding, CheckOuts!resVars, CheckOuts!capiVars, now>>
    BY <1>7 DEF ReserveNamespace, CheckOuts!resVars, resVars, CheckOuts!capiVars, capiVars
  <2> QED
    BY <2>1, <2>2, <2>3, <2>4, <2>5, SameCalls DEF CheckOuts!Take
<1>8. ASSUME UNCHANGED nsVars, pc \notin {"verify", "reserve"}, Taking' = NoNamespace
      PROVE  UNCHANGED Taking /\ UNCHANGED nsVars
  BY <1>8, TakingCases
<1>9. CASE \/ DeleteExpiredWaiting \/ RejectDuration \/ AwaitNamespace
           \/ AbandonUnassigned \/ ReleaseFinalizer
  BY <1>2, <1>8, <1>9
  DEF DeleteExpiredWaiting, RejectDuration, AwaitNamespace, MayAssign, AbandonUnassigned,
      ReleaseFinalizer, ResWriteUnchanged
<1>10. CASE \/ ActiveAddFinalizer \/ ActiveRefresh \/ AddFinalizer \/ Activate
            \/ AddRoleBindings
  BY <1>2, <1>3, <1>8, <1>10
  DEF ActiveAddFinalizer, ActiveRefresh, AddFinalizer, Activate, AddRoleBindings,
      ResWriteUnchanged
<1>11. CASE MarkDeleting
  BY <1>2, <1>3, <1>8, <1>11 DEF MarkDeleting, ResWriteUnchanged
<1>12. CASE DrainClusters
  <2>1. Goto("release", obj) \/ Requeue
    BY <1>12 DEF DrainClusters
  <2> QED
    BY <1>2, <1>3, <1>8, <1>12, <2>1 DEF DrainClusters
<1> QED
  BY <1>4, <1>5, <1>6, <1>7, <1>9, <1>10, <1>11, <1>12 DEF WorkerStep

LEMMA StepChecksOut ==
    ASSUME SystemInv, Verifies, [Next]_vars
    PROVE  \/ \E n \in Namespace : CheckOuts!Pick(n)
           \/ CheckOuts!Condemn
           \/ CheckOuts!Take(obj.uid)
           \/ CheckOuts!LetGo
           \/ /\ UNCHANGED Taking
              /\ \/ UNCHANGED nsVars
                 \/ PlanDelete
                 \/ \E n \in Namespace : PoolStep(n) \/ EnvStep(n) \/ ClusterStep(n)
           \/ Crash
<1>1. CASE WorkerStep
  BY <1>1, WorkerChecksOut
<1>2. CASE ~WorkerStep /\ ~Crash
  <2>1. UNCHANGED Taking
    <3>1. CASE UNCHANGED <<pc, picked>>
      BY <3>1 DEF Taking
    <3>2. CASE pc = "idle" /\ pc' \notin {"verify", "reserve", "status"}
      BY <3>2 DEF Taking
    <3> QED
      BY <1>2, <3>1, <3>2, SilentOthers
  <2>2. \/ UNCHANGED nsVars
        \/ PlanDelete
        \/ \E n \in Namespace : PoolStep(n) \/ EnvStep(n) \/ ClusterStep(n)
    <3>1. ASSUME NEW r \in Reservation, UserStep(r)
          PROVE  UNCHANGED nsVars
      BY <3>1
      DEF UserStep, CreateReservation, EditDuration, DeleteReservation, DeployCluster
    <3>2. CASE PollerStep
      BY <3>2
      DEF PollerStep, populateActiveReservations, PollExpired, PollDelete, clusterVars
    <3>3. ASSUME NEW r \in Reservation, Reconcile(r) \/ ReservationEvent(r) \/ Resync(r)
          PROVE  UNCHANGED nsVars
      BY <3>3 DEF Reconcile, ReservationEvent, DeliverRes, Resync, clusterVars
    <3>4. CASE Tick \/ UNCHANGED vars
      BY <3>4 DEF Tick, vars, clusterVars
    <3> QED
      BY <1>2, <3>1, <3>2, <3>3, <3>4 DEF Next
  <2> QED
    BY <2>1, <2>2
<1> QED
  BY <1>1, <1>2

\* Whatever the worker does to a namespace, through stale lists, lost answers
\* and retries, is a step of CheckOutAbstraction: it takes, or condemns, only
\* what the cache showed ready when it was picked, and only for a reservation.
THEOREM CheckOutsImplemented == Spec => ImplementsCheckOuts
<1>1. Init => SystemInv /\ Verifies
  BY TypeInit, AssignmentInit, LifeInit DEF SystemInv, Init, ControllerInit, Verifies
<1>2. SystemInv /\ Verifies /\ [Next]_vars => (SystemInv /\ Verifies)'
  BY TypeStep, AssignmentStep, LifeStep, VerifiesStep DEF SystemInv
<1>3. SystemInv /\ Verifies /\ [Next]_vars =>
        [\/ \E n \in Namespace : CheckOuts!Pick(n)
         \/ CheckOuts!Condemn
         \/ CheckOuts!Take(obj.uid)
         \/ CheckOuts!LetGo
         \/ /\ UNCHANGED Taking
            /\ \/ UNCHANGED nsVars
               \/ PlanDelete
               \/ \E n \in Namespace : PoolStep(n) \/ EnvStep(n) \/ ClusterStep(n)
         \/ Crash]_vars
  BY StepChecksOut
<1> QED
  BY <1>1, <1>2, <1>3, PTL DEF Spec, ImplementsCheckOuts
=============================================================================
