------------------------- MODULE ReservationProofs -------------------------
(***************************************************************************)
(* Type correctness of ReservationSystem, and ExclusiveAssignment, for any *)
(* number of namespaces, reservations, faults and crashes.                 *)
(***************************************************************************)
EXTENDS ReservationSystem, ClusterProofs

USE ApiCallsAssumption, ClusterAssumption, NamespacesAssumption,
    PoolAbstractionAssumption, PollerAssumption, ReservationControllerAssumption,
    ReservationSystemAssumption

-----------------------------------------------------------------------------
(***************************************************************************)
(* The objects that are stored are well-typed.                             *)
(***************************************************************************)
LEMMA NoReservationType ==
    ASSUME NEW k \in Nat
    PROVE  /\ NoReservation(k) \in ResObject
           /\ NoReservation(k).live = FALSE
           /\ NoReservation(k).rv = k
  BY DEF NoReservation, ResObject, State, ZeroTime

LEMMA AfterDeleteType ==
    ASSUME NEW o \in ResObject
    PROVE  /\ AfterDelete(o) \in ResObject
           /\ AfterDelete(o).live => AfterDelete(o).namespace = o.namespace /\ o.live
  BY DEF AfterDelete, NoReservation, ResObject, State, ZeroTime

\* What the controller stores keeps the namespace of its copy.
LEMMA StoredTypes ==
    ASSUME NEW o \in ResObject, now \in Nat
    PROVE  /\ WithFinalizer(o) \in ResObject
           /\ WithFinalizer(o).live = o.live
           /\ WithFinalizer(o).namespace = o.namespace
           /\ Deleting(o) \in ResObject
           /\ Deleting(o).live = o.live
           /\ Deleting(o).namespace = o.namespace
           /\ Released(o) \in ResObject
           /\ Released(o).live = FALSE
  BY DEF WithFinalizer, Deleting, Released, NoReservation, ResObject, State, ZeroTime

LEMMA ExpirationTypes ==
    ASSUME NEW o \in ResObject, now \in Nat, HasExpiration(o)
    PROVE  /\ getExpirationTime(o) \in Nat
           /\ Refreshed(o) \in ResObject
           /\ Refreshed(o).live = o.live
           /\ Refreshed(o).namespace = o.namespace
           /\ Waiting(o) \in ResObject
           /\ Waiting(o).live = o.live
           /\ Waiting(o).namespace = o.namespace
<1>1. getExpirationTime(o) \in Nat
  BY DEF getExpirationTime, HasExpiration, ResObject
<1> QED
  BY <1>1 DEF Refreshed, Waiting, ResObject, State

LEMMA EditedType ==
    ASSUME NEW o \in ResObject, NEW d \in Durations
    PROVE  /\ [o EXCEPT !.duration = d] \in ResObject
           /\ [o EXCEPT !.duration = d].live = o.live
           /\ [o EXCEPT !.duration = d].namespace = o.namespace
<1>1. d \in Nat \cup {Unparsable, Unset}
  OBVIOUS
<1> QED
  BY <1>1 DEF ResObject

LEMMA ActivatedType ==
    ASSUME NEW o \in ResObject, picked \in Namespace, expirationTS \in Nat
    PROVE  /\ Activated(o) \in ResObject
           /\ Activated(o).namespace = picked
  BY DEF Activated, ResObject, State

-----------------------------------------------------------------------------
(***************************************************************************)
(* The API server.                                                         *)
(***************************************************************************)
LEMMA NextVersionType ==
    ASSUME NEW r \in Reservation, NEW o \in ResObject, res \in [Reservation -> ResObject]
    PROVE  /\ NextVersion(r, o) \in ResObject
           /\ NextVersion(r, o).live = o.live
           /\ NextVersion(r, o).namespace = o.namespace
           /\ res[r].rv \in Nat
           /\ o # res[r] => NextVersion(r, o).rv = res[r].rv + 1
           /\ o = res[r] => NextVersion(r, o) = res[r]
  BY DEF NextVersion, ResObject

LEMMA WriteResType ==
    ASSUME NEW r \in Reservation, NEW o \in ResObject, WriteRes(r, o),
           res \in [Reservation -> ResObject],
           resWatch \in [Reservation -> SUBSET ResObject]
    PROVE  /\ res' \in [Reservation -> ResObject]
           /\ resWatch' \in [Reservation -> SUBSET ResObject]
<1>1. NextVersion(r, o) \in ResObject
  BY NextVersionType
<1> QED
  BY <1>1 DEF WriteRes

LEMMA UpdateResType ==
    ASSUME NEW o \in ResObject, NEW result, ClusterTypeOK, key \in Reservation,
           UpdateRes(o, result)
    PROVE  /\ res' \in [Reservation -> ResObject]
           /\ resWatch' \in [Reservation -> SUBSET ResObject]
           /\ faults' \in Nat
<1>1. faults' \in Nat
  BY CallType DEF UpdateRes, ClusterTypeOK
<1>2. CASE Applied(result)
  BY <1>1, <1>2, WriteResType DEF UpdateRes, ClusterTypeOK
<1>3. CASE ~Applied(result)
  BY <1>1, <1>3 DEF UpdateRes, ClusterTypeOK
<1> QED
  BY <1>2, <1>3

LEMMA DeleteResType ==
    ASSUME NEW result, ClusterTypeOK, key \in Reservation, DeleteRes(result)
    PROVE  /\ res' \in [Reservation -> ResObject]
           /\ resWatch' \in [Reservation -> SUBSET ResObject]
           /\ faults' \in Nat
<1>1. faults' \in Nat
  BY CallType DEF DeleteRes, ClusterTypeOK
<1>2. AfterDelete(res[key]) \in ResObject
  BY AfterDeleteType DEF ClusterTypeOK
<1>3. CASE Applied(result)
  BY <1>1, <1>2, <1>3, WriteResType DEF DeleteRes, ClusterTypeOK
<1>4. CASE ~Applied(result)
  BY <1>1, <1>4 DEF DeleteRes, ClusterTypeOK
<1> QED
  BY <1>3, <1>4

-----------------------------------------------------------------------------
(***************************************************************************)
(* How a reconcile goes on.                                                *)
(***************************************************************************)
LEMMA ForgetType ==
    ASSUME Forget, queue' \in SUBSET Reservation
    PROVE  ControllerTypeOK'
  BY NoReservationType DEF Forget, ControllerTypeOK, Steps, ZeroTime

LEMMA DoneType ==
    ASSUME ControllerTypeOK, Done
    PROVE  ControllerTypeOK'
  BY ForgetType DEF Done, ControllerTypeOK

LEMMA RequeueType ==
    ASSUME ControllerTypeOK, pc # "idle", Requeue
    PROVE  ControllerTypeOK'
<1>1. queue' \in SUBSET Reservation
  BY DEF Requeue, ControllerTypeOK
<1> QED
  BY <1>1, ForgetType DEF Requeue

LEMMA GotoType ==
    ASSUME NEW step \in Steps, NEW o \in ResObject,
           ControllerTypeOK, pc # "idle", Goto(step, o)
    PROVE  ControllerTypeOK'
  BY DEF Goto, ControllerTypeOK

-----------------------------------------------------------------------------
(***************************************************************************)
(* TypeOK is preserved, process by process.                                *)
(***************************************************************************)
LEMMA OperatorIdleType ==
    ASSUME TypeOK, UNCHANGED operatorVars, ClusterTypeOK'
    PROVE  TypeOK'
  BY DEF TypeOK, operatorVars, pollerVars, controllerVars, workerVars,
         PoolAbstractionTypeOK, PollerTypeOK, ControllerTypeOK

LEMMA UserType ==
    ASSUME TypeOK, NEW r \in Reservation, UserStep(r)
    PROVE  ClusterTypeOK'
<1> USE DEF TypeOK
<1>1. ASSUME NEW d \in Durations, CreateReservation(r, d)
      PROVE  ClusterTypeOK'
  <2>1. PICK f \in {FALSE, RestoredFinalizer} :
          WriteRes(r, [NoReservation(res[r].rv) EXCEPT
                         !.live = TRUE, !.uid = nextUid, !.created = now,
                         !.duration = d, !.finalizer = f])
    BY <1>1 DEF CreateReservation
  <2> DEFINE o == [NoReservation(res[r].rv) EXCEPT
                         !.live = TRUE, !.uid = nextUid, !.created = now,
                         !.duration = d, !.finalizer = f]
  <2>2. NoReservation(res[r].rv) \in ResObject
    BY NoReservationType DEF ClusterTypeOK, ResObject
  <2>3. o \in ResObject
    BY <2>2 DEF ClusterTypeOK, ResObject
  <2> QED
    BY <1>1, <2>1, <2>3, WriteResType
    DEF CreateReservation, ClusterTypeOK, nsVars, capiVars
<1>2. ASSUME NEW d \in Durations, EditDuration(r, d)
      PROVE  ClusterTypeOK'
  <2>1. [res[r] EXCEPT !.duration = d] \in ResObject
    BY EditedType DEF ClusterTypeOK
  <2> QED
    BY <1>2, <2>1, WriteResType
    DEF EditDuration, ClusterTypeOK, nsVars, capiVars
<1>3. CASE DeleteReservation(r)
  <2>1. AfterDelete(res[r]) \in ResObject
    BY AfterDeleteType DEF ClusterTypeOK
  <2> QED
    BY <1>3, <2>1, WriteResType
    DEF DeleteReservation, ClusterTypeOK, nsVars, capiVars
<1>4. CASE DeployCluster(r)
  BY <1>4 DEF DeployCluster, ClusterTypeOK, ClusterState, nsVars, resVars
<1> QED
  BY <1>1, <1>2, <1>3, <1>4 DEF UserStep

LEMMA ClusterStepType ==
    ASSUME TypeOK, NEW n \in Namespace, ClusterStep(n)
    PROVE  ClusterTypeOK'
<1> USE DEF TypeOK
<1>1. CASE DeliverNs(n)
  BY <1>1 DEF DeliverNs, ClusterTypeOK, resVars, capiVars
<1>2. CASE GarbageCollect(n)
  BY <1>2, WriteNsType, NsTypes
  DEF GarbageCollect, ClusterTypeOK, resVars, capiVars
<1>3. CASE FinalizeNamespace(n)
  BY <1>3, WriteNsType, NsTypes
  DEF FinalizeNamespace, ClusterTypeOK, resVars, capiVars
<1>4. CASE ClusterRemoved(n)
  BY <1>4 DEF ClusterRemoved, ClusterTypeOK, ClusterState, nsVars, resVars
<1>5. CASE DeliverCluster(n)
  BY <1>5 DEF DeliverCluster, ClusterTypeOK, nsVars, resVars
<1> QED
  BY <1>1, <1>2, <1>3, <1>4, <1>5 DEF ClusterStep

PoolActs == PlanDelete \/ \E n \in Namespace : PoolStep(n) \/ EnvStep(n)

LEMMA PlanTypes ==
    ASSUME PoolAbstractionTypeOK, NEW n \in Namespace, NEW plan \in Plan
    PROVE  Intend(n, plan) \/ GiveUp \/ UNCHANGED poolPlan => PoolAbstractionTypeOK'
  BY DEF PoolAbstractionTypeOK, Intend, GiveUp, NoPlans, Plan

LEMMA PoolNsType ==
    ASSUME ClusterTypeOK, PoolAbstractionTypeOK, NEW n \in Namespace,
           PoolStep(n) \/ EnvStep(n)
    PROVE  ClusterTypeOK' /\ PoolAbstractionTypeOK'
<1> USE DEF besidesNs
<1>1. ASSUME /\ ns' \in [Namespace -> NsObject]
             /\ nsWatch' \in [Namespace -> SUBSET NsObject]
             /\ faults' \in Nat
             /\ UNCHANGED besidesNs
      PROVE  ClusterTypeOK'
  BY <1>1 DEF ClusterTypeOK, resVars, capiVars
<1>2. UNCHANGED clusterVars => ClusterTypeOK'
  BY DEF ClusterTypeOK, clusterVars, nsVars, resVars, capiVars
<1>3. CASE CreateNamespace(n)
  <2>1. faults' \in Nat
    BY <1>3, CallType DEF CreateNamespace, ClusterTypeOK
  <2>2. ns' \in [Namespace -> NsObject] /\ nsWatch' \in [Namespace -> SUBSET NsObject]
    BY <1>3, EmptyNsType, WriteNsType DEF CreateNamespace, ClusterTypeOK
  <2> QED
    BY <1>1, <1>3, <2>1, <2>2, PlanTypes DEF CreateNamespace, Plan
<1>4. CASE OwnNamespace(n)
  <2>1. PICK result \in Results :
          /\ Retried(n, result)
          /\ IF Applied(result)
             THEN WriteNs(n, Owned(nsCache[n]))
             ELSE UNCHANGED <<ns, nsWatch>>
          /\ Intend(n, "prepare") \/ Intend(n, "delete") \/ GiveUp
    BY <1>4 DEF OwnNamespace
  <2>2. faults' \in Nat
    BY <2>1, RetriedType DEF ClusterTypeOK
  <2>3. Owned(nsCache[n]) \in NsObject
    BY NsTypes DEF ClusterTypeOK
  <2>4. ns' \in [Namespace -> NsObject] /\ nsWatch' \in [Namespace -> SUBSET NsObject]
    BY <2>1, <2>3, WriteNsType DEF ClusterTypeOK
  <2> QED
    BY <1>1, <1>4, <2>1, <2>2, <2>4, PlanTypes DEF OwnNamespace, Plan
<1>5. CASE PrepareFails(n)
  <2>1. faults' \in Nat
    BY <1>5, CallType DEF PrepareFails, ClusterTypeOK
  <2> QED
    BY <1>1, <1>5, <2>1, PlanTypes DEF PrepareFails, Plan, ClusterTypeOK
<1>6. CASE Prepared(n) \/ PlanRetire(n)
  BY <1>2, <1>6, PlanTypes DEF Prepared, PlanRetire, Plan
<1>7. CASE MarkReady(n) \/ RetireNamespace(n) \/ MarkErrorNamespace(n)
  <2>1. PoolAbstractionTypeOK'
    <3>1. \/ \E result \in Results : Intend(n, IF result = "ok" THEN "none" ELSE "delete")
          \/ GiveUp \/ UNCHANGED poolPlan \/ Intend(n, "delete")
      BY <1>7 DEF MarkReady, RetireNamespace, MarkErrorNamespace
    <3> QED
      BY <3>1, PlanTypes DEF Plan
  <2>2. PICK env \in {"ready", "error", "deleting"}, result \in Results :
          UpdateAnnotations(n, env, result)
    BY <1>7 DEF MarkReady, RetireNamespace, MarkErrorNamespace
  <2>3. env \in EnvStatus /\ UNCHANGED besidesNs
    BY <1>7 DEF MarkReady, RetireNamespace, MarkErrorNamespace, EnvStatus
  <2> QED
    BY <1>1, <2>1, <2>2, <2>3, UpdateAnnotationsType
<1>8. CASE DeleteNamespace(n)
  <2>1. PoolAbstractionTypeOK'
    BY <1>8, PlanTypes DEF DeleteNamespace, Plan
  <2> QED
    BY <1>1, <1>8, <2>1, DeleteNsType DEF DeleteNamespace
<1>9. CASE EnvStep(n)
  <2>1. PICK env \in {"error", "ready"}, result \in Results : UpdateAnnotations(n, env, result)
    BY <1>9 DEF EnvStep
  <2>2. env \in EnvStatus
    BY DEF EnvStatus
  <2> QED
    BY <1>1, <1>9, <2>1, <2>2, UpdateAnnotationsType DEF EnvStep, PoolAbstractionTypeOK
<1> QED
  BY <1>3, <1>4, <1>5, <1>6, <1>7, <1>8, <1>9 DEF PoolStep

LEMMA PlanDeleteType ==
    ASSUME ClusterTypeOK, PlanDelete
    PROVE  ClusterTypeOK' /\ PoolAbstractionTypeOK'
  BY DEF PlanDelete, Plan, PoolAbstractionTypeOK, ClusterTypeOK, clusterVars, nsVars,
         resVars, capiVars

LEMMA PoolType ==
    ASSUME TypeOK, UNCHANGED <<pollerVars, controllerVars>>,
           PoolActs
    PROVE  TypeOK'
<1>1. PollerTypeOK' /\ ControllerTypeOK'
  BY DEF TypeOK, PollerTypeOK, ControllerTypeOK, pollerVars, controllerVars, workerVars
<1>2. ClusterTypeOK' /\ PoolAbstractionTypeOK'
  BY PoolNsType, PlanDeleteType DEF TypeOK, PoolActs
<1> QED
  BY <1>1, <1>2 DEF TypeOK

\* They leave the reservations and the CAPI clusters alone.
LEMMA PoolUnchanged ==
    ASSUME PoolActs
    PROVE  UNCHANGED <<roleBinding, resVars, capiVars, now>>
  BY DEF PoolActs, PoolStep, CreateNamespace, OwnNamespace, PrepareFails, Prepared, MarkReady,
         PlanRetire, RetireNamespace, MarkErrorNamespace, DeleteNamespace, EnvStep,
         PlanDelete, besidesNs, clusterVars

LEMMA PollerStepType ==
    ASSUME TypeOK, PollerStep, UNCHANGED <<poolPlan, controllerVars>>
    PROVE  TypeOK'
<1>1. PoolAbstractionTypeOK' /\ ControllerTypeOK'
  BY DEF TypeOK, PoolAbstractionTypeOK, ControllerTypeOK, controllerVars, workerVars
<1>2. ClusterTypeOK' /\ PollerTypeOK'
  <2> USE DEF TypeOK, PollerTypeOK
  <2>1. CASE populateActiveReservations
    <3>1. ClusterTypeOK'
      BY <2>1 DEF populateActiveReservations, ClusterTypeOK, clusterVars, nsVars,
                  resVars, capiVars
    <3>2. \A r \in Reservation : resCache[r].expiration \in Nat
      BY DEF ClusterTypeOK, ResObject
    <3> QED
      BY <2>1, <3>1, <3>2 DEF populateActiveReservations
  <2>2. ASSUME NEW r \in Reservation, PollExpired(r)
        PROVE  ClusterTypeOK' /\ PollerTypeOK'
    <3>1. ClusterTypeOK'
      BY <2>2 DEF PollExpired, ClusterTypeOK, clusterVars, nsVars, resVars, capiVars
    <3> QED
      BY <2>2, <3>1 DEF PollExpired, Track, Untracked
  <2>3. CASE PollDelete
    <3>1. PICK result \in Results :
            /\ Call(resCache[pollerKey].live /\ res[pollerKey].live, result)
            /\ IF Applied(result)
               THEN WriteRes(pollerKey, AfterDelete(res[pollerKey]))
               ELSE UNCHANGED <<res, resWatch>>
      BY <2>3 DEF PollDelete
    <3>2. pollerKey \in Reservation
      BY <2>3 DEF PollDelete
    <3>3. faults' \in Nat
      BY <3>1, CallType DEF ClusterTypeOK
    <3>4. /\ res' \in [Reservation -> ResObject]
          /\ resWatch' \in [Reservation -> SUBSET ResObject]
      <4>1. AfterDelete(res[pollerKey]) \in ResObject
        BY <3>2, AfterDeleteType DEF ClusterTypeOK
      <4> QED
        BY <3>1, <3>2, <4>1, WriteResType DEF ClusterTypeOK
    <3> QED
      BY <2>3, <3>3, <3>4 DEF PollDelete, ClusterTypeOK, nsVars, capiVars
  <2> QED
    BY <2>1, <2>2, <2>3 DEF PollerStep
<1> QED
  BY <1>1, <1>2 DEF TypeOK

-----------------------------------------------------------------------------
(***************************************************************************)
(* The worker.                                                             *)
(***************************************************************************)
LEMMA AroundResWrite ==
    ASSUME TypeOK, ResWriteUnchanged, faults' \in Nat,
           res' \in [Reservation -> ResObject],
           resWatch' \in [Reservation -> SUBSET ResObject],
           activeReservations' \in [Reservation -> Nat \cup {Untracked}],
           ControllerTypeOK'
    PROVE  TypeOK'
  BY DEF TypeOK, ResWriteUnchanged, ClusterTypeOK, PoolAbstractionTypeOK,
         PollerTypeOK, nsVars, capiVars

LEMMA TrackType ==
    ASSUME PollerTypeOK, NEW r \in Reservation, NEW t \in Nat, Track(r, t)
    PROVE  activeReservations' \in [Reservation -> Nat \cup {Untracked}]
  BY DEF Track, PollerTypeOK

\* A step that stores o and then goes on with it, or starts over.
LEMMA UpdateStepType ==
    ASSUME TypeOK, pc # "idle", NEW o \in ResObject, NEW step \in Steps, NEW result,
           UpdateRes(o, result), ResWriteUnchanged,
           activeReservations' \in [Reservation -> Nat \cup {Untracked}],
           Done \/ Requeue \/ Goto(step, NextVersion(key, o))
    PROVE  TypeOK'
<1>1. key \in Reservation
  BY DEF TypeOK, ControllerTypeOK
<1>2. /\ res' \in [Reservation -> ResObject]
      /\ resWatch' \in [Reservation -> SUBSET ResObject]
      /\ faults' \in Nat
  BY <1>1, UpdateResType DEF TypeOK
<1>3. NextVersion(key, o) \in ResObject
  BY <1>1, NextVersionType DEF TypeOK, ClusterTypeOK
<1>4. ControllerTypeOK'
  BY <1>3, DoneType, RequeueType, GotoType DEF TypeOK
<1> QED
  BY <1>2, <1>4, AroundResWrite

LEMMA DeleteStepType ==
    ASSUME TypeOK, pc # "idle", NEW result, DeleteRes(result), ResWriteUnchanged,
           UNCHANGED activeReservations, Done \/ Requeue
    PROVE  TypeOK'
<1>1. key \in Reservation
  BY DEF TypeOK, ControllerTypeOK
<1>2. /\ res' \in [Reservation -> ResObject]
      /\ resWatch' \in [Reservation -> SUBSET ResObject]
      /\ faults' \in Nat
  BY <1>1, DeleteResType DEF TypeOK
<1>3. ControllerTypeOK'
  BY DoneType, RequeueType DEF TypeOK
<1>4. activeReservations' \in [Reservation -> Nat \cup {Untracked}]
  BY DEF TypeOK, PollerTypeOK
<1> QED
  BY <1>2, <1>3, <1>4, AroundResWrite

LEMMA RetryStepType ==
    ASSUME TypeOK, pc # "idle", Requeue, ResWriteUnchanged,
           UNCHANGED <<res, resWatch, faults, activeReservations>>
    PROVE  TypeOK'
<1>1. ControllerTypeOK'
  BY RequeueType DEF TypeOK
<1> QED
  BY <1>1, AroundResWrite DEF TypeOK, ClusterTypeOK, PollerTypeOK

LEMMA WorkerType ==
    ASSUME TypeOK, PickedIsNamespace, WorkerStep
    PROVE  TypeOK'
<1> USE DEF Steps
<1>1. obj \in ResObject /\ now \in Nat /\ expirationTS \in Nat
  BY DEF TypeOK, ControllerTypeOK, ClusterTypeOK
<1>2. (UNCHANGED activeReservations) =>
        activeReservations' \in [Reservation -> Nat \cup {Untracked}]
  BY DEF TypeOK, PollerTypeOK
<1>3. pc # "idle" => key \in Reservation
  BY DEF TypeOK, ControllerTypeOK
<1>4. CASE ActiveAddFinalizer
  <2>1. WithFinalizer(obj) \in ResObject
    BY <1>1, StoredTypes
  <2> QED
    BY <1>2, <1>4, <2>1, UpdateStepType DEF ActiveAddFinalizer
<1>5. CASE ActiveRefresh
  <2>1. CASE HasExpiration(obj)
    <3>1. getExpirationTime(obj) \in Nat /\ Refreshed(obj) \in ResObject
      BY <1>1, <2>1, ExpirationTypes
    <3>2. activeReservations' \in [Reservation -> Nat \cup {Untracked}]
      BY <1>3, <1>5, <2>1, <3>1, TrackType DEF ActiveRefresh, TypeOK
    <3> QED
      BY <1>5, <2>1, <3>1, <3>2, UpdateStepType DEF ActiveRefresh
  <2>2. CASE ~HasExpiration(obj)
    BY <1>5, <2>2, RetryStepType DEF ActiveRefresh
  <2> QED
    BY <2>1, <2>2
<1>6. CASE DeleteExpiredWaiting
  BY <1>6, DeleteStepType DEF DeleteExpiredWaiting
<1>7. CASE RejectDuration
  BY <1>7, DeleteStepType, RetryStepType DEF RejectDuration
<1>8. CASE AwaitNamespace
  <2>1. pc = "list" /\ HasExpiration(obj)
    BY <1>8 DEF AwaitNamespace, MayAssign
  <2>2. Waiting(obj) \in ResObject
    BY <1>1, <2>1, ExpirationTypes
  <2> QED
    BY <1>2, <1>8, <2>1, <2>2, UpdateStepType, RetryStepType DEF AwaitNamespace
<1>9. ASSUME NEW n \in Namespace, PickNamespace(n)
      PROVE  TypeOK'
  <2>1. getExpirationTime(obj) \in Nat
    BY <1>1, <1>9, ExpirationTypes DEF PickNamespace, MayAssign
  <2>2. ControllerTypeOK'
    BY <1>9, <2>1 DEF PickNamespace, MayAssign, TypeOK, ControllerTypeOK
  <2> QED
    BY <1>9, <2>2
    DEF PickNamespace, TypeOK, ClusterTypeOK, PollerTypeOK, PoolAbstractionTypeOK,
        clusterVars, nsVars, resVars, capiVars, pollerVars
<1>10. CASE verifyClowdEnvForReadyNs
  <2>1. ControllerTypeOK'
    BY <1>1, <1>10, GotoType, RequeueType DEF verifyClowdEnvForReadyNs, TypeOK
  <2>2. picked \in Namespace
    BY <1>10 DEF verifyClowdEnvForReadyNs, PickedIsNamespace
  <2>3. /\ ns' \in [Namespace -> NsObject]
        /\ nsWatch' \in [Namespace -> SUBSET NsObject]
        /\ faults' \in Nat
    <3>1. ASSUME NEW result, UpdateAnnotations(picked, "error", result)
          PROVE  /\ ns' \in [Namespace -> NsObject]
                 /\ nsWatch' \in [Namespace -> SUBSET NsObject]
                 /\ faults' \in Nat
      BY <2>2, <3>1, UpdateAnnotationsType DEF TypeOK, EnvStatus
    <3> QED
      BY <1>10, <3>1 DEF verifyClowdEnvForReadyNs, TypeOK, ClusterTypeOK
  <2> QED
    BY <1>10, <2>1, <2>3
    DEF verifyClowdEnvForReadyNs, TypeOK, ClusterTypeOK, PollerTypeOK,
        PoolAbstractionTypeOK, resVars, capiVars, pollerVars
<1>11. CASE ReserveNamespace
  <2>1. PICK result \in Results :
          /\ Call(NsCurrent(picked, nsCache[picked]), result)
          /\ IF Applied(result)
             THEN WriteNs(picked, Reserved(nsCache[picked]))
             ELSE UNCHANGED <<ns, nsWatch>>
          /\ IF result = "ok" THEN Goto("bind", obj) ELSE Requeue
    BY <1>11 DEF ReserveNamespace
  <2>2. ControllerTypeOK'
    BY <1>1, <1>11, <2>1, GotoType, RequeueType DEF ReserveNamespace, TypeOK
  <2>3. faults' \in Nat
    BY <2>1, CallType DEF TypeOK, ClusterTypeOK
  <2>4. picked \in Namespace
    BY <1>11 DEF ReserveNamespace, PickedIsNamespace
  <2>5. Reserved(nsCache[picked]) \in NsObject
    <3>1. obj.uid \in Nat
      BY <1>1 DEF ResObject
    <3> QED
      BY <2>4, <3>1, NsTypes DEF Reserved, TypeOK, ClusterTypeOK
  <2>6. /\ ns' \in [Namespace -> NsObject]
        /\ nsWatch' \in [Namespace -> SUBSET NsObject]
    BY <2>1, <2>4, <2>5, WriteNsType DEF TypeOK, ClusterTypeOK
  <2> QED
    BY <1>11, <2>2, <2>3, <2>6
    DEF ReserveNamespace, TypeOK, ClusterTypeOK, PollerTypeOK,
        PoolAbstractionTypeOK, resVars, capiVars, pollerVars
<1>12. CASE AddRoleBindings
  <2>1. PICK result \in Results :
          /\ Call(CanBind(picked), result)
          /\ roleBinding' = IF Applied(result)
                            THEN [roleBinding EXCEPT ![picked] = TRUE]
                            ELSE roleBinding
          /\ IF result = "ok" THEN Goto("status", obj) ELSE Requeue
    BY <1>12 DEF AddRoleBindings
  <2>2. ControllerTypeOK'
    BY <1>1, <1>12, <2>1, GotoType, RequeueType DEF AddRoleBindings, TypeOK
  <2>3. faults' \in Nat
    BY <2>1, CallType DEF TypeOK, ClusterTypeOK
  <2>4. roleBinding' \in [Namespace -> BOOLEAN]
    BY <2>1 DEF TypeOK, ClusterTypeOK
  <2> QED
    BY <1>12, <2>2, <2>3, <2>4
    DEF AddRoleBindings, TypeOK, ClusterTypeOK, PollerTypeOK,
        PoolAbstractionTypeOK, nsVars, resVars, capiVars, pollerVars
<1>13. CASE Activate
  <2>1. Activated(obj) \in ResObject
    BY <1>1, <1>13, ActivatedType DEF Activate, PickedIsNamespace
  <2>2. activeReservations' \in [Reservation -> Nat \cup {Untracked}]
    BY <1>1, <1>3, <1>13, TrackType DEF Activate, TypeOK
  <2> QED
    BY <1>13, <2>1, <2>2, UpdateStepType DEF Activate
<1>14. CASE AddFinalizer
  <2>1. WithFinalizer(obj) \in ResObject
    BY <1>1, StoredTypes
  <2> QED
    BY <1>2, <1>14, <2>1, UpdateStepType DEF AddFinalizer
<1>15. CASE AbandonUnassigned \/ ReleaseFinalizer
  <2>1. Released(obj) \in ResObject
    BY <1>1, StoredTypes
  <2> QED
    BY <1>2, <1>15, <2>1, UpdateStepType DEF AbandonUnassigned, ReleaseFinalizer
<1>16. CASE MarkDeleting
  <2>1. Deleting(obj) \in ResObject
    BY <1>1, StoredTypes
  <2>2. CASE obj.state # "deleting"
    BY <1>2, <1>16, <2>1, <2>2, UpdateStepType DEF MarkDeleting
  <2>3. CASE obj.state = "deleting"
    <3>1. ControllerTypeOK'
      BY <1>1, <1>16, <2>3, GotoType DEF MarkDeleting, TypeOK
    <3> QED
      BY <1>16, <2>3, <3>1, AroundResWrite
      DEF MarkDeleting, TypeOK, ClusterTypeOK, PollerTypeOK
  <2> QED
    BY <2>2, <2>3
<1>17. CASE DrainClusters
  <2>1. ControllerTypeOK'
    BY <1>1, <1>17, GotoType, RequeueType DEF DrainClusters, TypeOK
  <2>2. clusters' \in [Namespace -> ClusterState] /\ faults' \in Nat
    BY <1>17, CallType DEF DrainClusters, TypeOK, ClusterTypeOK, ClusterState
  <2> QED
    BY <1>17, <2>1, <2>2
    DEF DrainClusters, TypeOK, ClusterTypeOK, PollerTypeOK,
        PoolAbstractionTypeOK, nsVars, resVars, pollerVars
<1>18. CASE CopySecretsFails
  <2>1. ControllerTypeOK'
    BY <1>18, RequeueType DEF CopySecretsFails, TypeOK
  <2> QED
    BY <1>18, <2>1
    DEF CopySecretsFails, TypeOK, ClusterTypeOK, PollerTypeOK, PoolAbstractionTypeOK,
        clusterVars, nsVars, resVars, capiVars, pollerVars
<1> QED
  BY <1>4, <1>5, <1>6, <1>7, <1>8, <1>9, <1>10, <1>11, <1>12, <1>13, <1>14,
     <1>15, <1>16, <1>17, <1>18 DEF WorkerStep

LEMMA QueueType ==
    ASSUME TypeOK, NEW r \in Reservation, Reconcile(r) \/ ReservationEvent(r) \/ Resync(r)
    PROVE  TypeOK'
<1>1. CASE Reconcile(r)
  <2>1. FirstStep(resCache[r]) \in Steps
    BY DEF FirstStep, Steps
  <2>2. resCache[r] \in ResObject
    BY DEF TypeOK, ClusterTypeOK
  <2>3. ControllerTypeOK'
    <3>1. CASE FirstStep(resCache[r]) = "idle"
      BY <1>1, <3>1, ForgetType DEF Reconcile, TypeOK, ControllerTypeOK
    <3>2. CASE FirstStep(resCache[r]) # "idle"
      BY <1>1, <2>1, <2>2, <3>2 DEF Reconcile, TypeOK, ControllerTypeOK
    <3> QED
      BY <3>1, <3>2
  <2> QED
    BY <1>1, <2>3
    DEF Reconcile, TypeOK, ClusterTypeOK, PollerTypeOK, PoolAbstractionTypeOK,
        clusterVars, nsVars, resVars, capiVars, pollerVars
<1>2. CASE ReservationEvent(r)
  BY <1>2
  DEF ReservationEvent, DeliverRes, TypeOK, ClusterTypeOK, PollerTypeOK, nsVars,
      PoolAbstractionTypeOK, ControllerTypeOK, capiVars, pollerVars, workerVars
<1>3. CASE Resync(r)
  BY <1>3
  DEF Resync, TypeOK, ClusterTypeOK, PollerTypeOK, PoolAbstractionTypeOK,
      ControllerTypeOK, clusterVars, nsVars, resVars, capiVars, pollerVars, workerVars
<1> QED
  BY <1>1, <1>2, <1>3

LEMMA CrashType ==
    ASSUME TypeOK, Crash
    PROVE  TypeOK'
<1>1. ControllerTypeOK'
  BY ForgetType DEF Crash
<1> QED
  BY <1>1
  DEF Crash, TypeOK, ClusterTypeOK, PollerTypeOK, PoolAbstractionTypeOK, Plan, NoPlans

-----------------------------------------------------------------------------
(***************************************************************************)
(* TypeOK alone is not inductive: the steps after PickNamespace write to   *)
(* ns[picked], so picked must be a namespace there.                        *)
(***************************************************************************)
TypeInv == TypeOK /\ PickedIsNamespace

LEMMA PickedStays ==
    ASSUME TypeInv, [Next]_vars
    PROVE  PickedIsNamespace'
<1> USE DEF PickedIsNamespace, TypeInv
<1>1. ASSUME UNCHANGED <<pc, picked>>
      PROVE  PickedIsNamespace'
  BY <1>1
<1>2. ASSUME Forget
      PROVE  PickedIsNamespace'
  BY <1>2 DEF Forget
<1>3. CASE WorkerStep
  <2>1. ASSUME NEW n \in Namespace, PickNamespace(n)
        PROVE  PickedIsNamespace'
    BY <2>1 DEF PickNamespace
  <2>2. ASSUME Done \/ Requeue
        PROVE  PickedIsNamespace'
    BY <1>2, <2>2 DEF Done, Requeue
  <2>3. ASSUME NEW o, NEW step, Goto(step, o),
               \/ step \in {"refresh", "finalizer", "drain", "release"}
               \/ pc \in {"verify", "reserve", "bind"}
        PROVE  PickedIsNamespace'
    BY <2>3 DEF Goto
  <2>4. CASE ActiveAddFinalizer \/ ActiveRefresh \/ AddFinalizer
    BY <2>2, <2>3, <2>4 DEF ActiveAddFinalizer, ActiveRefresh, AddFinalizer
  <2>5. CASE DeleteExpiredWaiting \/ RejectDuration \/ AwaitNamespace
    BY <2>2, <2>5 DEF DeleteExpiredWaiting, RejectDuration, AwaitNamespace
  <2>6. CASE verifyClowdEnvForReadyNs \/ ReserveNamespace \/ AddRoleBindings
    BY <2>2, <2>3, <2>6 DEF verifyClowdEnvForReadyNs, ReserveNamespace, AddRoleBindings
  <2>7. CASE Activate
    BY <2>2, <2>3, <2>7 DEF Activate
  <2>8. CASE AbandonUnassigned \/ MarkDeleting \/ ReleaseFinalizer
    BY <2>2, <2>3, <2>8 DEF AbandonUnassigned, MarkDeleting, ReleaseFinalizer
  <2>9. CASE DrainClusters \/ CopySecretsFails
    BY <2>2, <2>3, <2>9 DEF DrainClusters, CopySecretsFails
  <2> QED
    BY <1>3, <2>1, <2>4, <2>5, <2>6, <2>7, <2>8, <2>9 DEF WorkerStep
<1>4. ASSUME NEW r \in Reservation, Reconcile(r)
      PROVE  PickedIsNamespace'
  BY <1>2, <1>4 DEF Reconcile, FirstStep
<1>5. CASE Crash
  BY <1>2, <1>5 DEF Crash
<1>6. ASSUME NEW r \in Reservation, ReservationEvent(r) \/ Resync(r)
      PROVE  PickedIsNamespace'
  BY <1>1, <1>6 DEF ReservationEvent, Resync, workerVars
<1> QED
  BY <1>1, <1>3, <1>4, <1>5, <1>6
  DEF Next, vars, operatorVars, controllerVars, workerVars

LEMMA TypeStep ==
    ASSUME TypeInv, [Next]_vars
    PROVE  TypeInv'
<1> USE DEF TypeInv
<1>1. ASSUME NEW r \in Reservation, UserStep(r) /\ UNCHANGED operatorVars
      PROVE  TypeOK'
  BY <1>1, UserType, OperatorIdleType
<1>2. ASSUME NEW n \in Namespace, ClusterStep(n) /\ UNCHANGED operatorVars
      PROVE  TypeOK'
  BY <1>2, ClusterStepType, OperatorIdleType
<1>3. ASSUME Tick /\ UNCHANGED operatorVars
      PROVE  TypeOK'
  <2>1. ClusterTypeOK'
    BY <1>3 DEF Tick, TypeOK, ClusterTypeOK, nsVars, resVars, capiVars
  <2> QED
    BY <1>3, <2>1, OperatorIdleType
<1>4. ASSUME UNCHANGED vars
      PROVE  TypeOK'
  BY <1>4
  DEF vars, TypeOK, ClusterTypeOK, PollerTypeOK, PoolAbstractionTypeOK, ControllerTypeOK,
      clusterVars, nsVars, resVars, capiVars, pollerVars, controllerVars, workerVars
<1>5. TypeOK'
  BY <1>1, <1>2, <1>3, <1>4, PoolType, PollerStepType, QueueType, WorkerType, CrashType
  DEF Next, PoolActs
<1> QED
  BY <1>5, PickedStays

LEMMA TypeInit ==
    ASSUME Init
    PROVE  TypeInv
<1>1. AbsentNs \in NsObject /\ NoReservation(0) \in ResObject
  BY NoReservationType DEF AbsentNs, NsObject, NoOwner, EnvStatus
<1> QED
  BY <1>1
  DEF Init, ClusterInit, PoolAbstractionInit, PollerInit, ControllerInit,
      TypeInv, PickedIsNamespace, TypeOK, ClusterTypeOK, PollerTypeOK,
      PoolAbstractionTypeOK, ControllerTypeOK, ClusterState, Plan, NoPlans, Steps, ZeroTime

\* Whatever the API server, the users and crashes do, the state of the
\* cluster, of the pool, of the poller and of the worker stays well-typed,
\* for any number of namespaces, reservations and faults.
THEOREM TypeCorrect == Spec => []TypeOK
<1>1. Init => TypeInv
  BY TypeInit
<1>2. TypeInv /\ [Next]_vars => TypeInv'
  BY TypeStep
<1>3. TypeInv => TypeOK
  BY DEF TypeInv
<1> QED
  BY <1>1, <1>2, <1>3, PTL DEF Spec

-----------------------------------------------------------------------------
(***************************************************************************)
(* ExclusiveAssignment.  First: what a write does to the versions.         *)
(***************************************************************************)
LEMMA WrittenVersion ==
    ASSUME ClusterTypeOK, NEW r \in Reservation, NEW o \in ResObject, WriteRes(r, o)
    PROVE  /\ res'[r] = NextVersion(r, o)
           /\ \A q \in Reservation \ {r} : res'[q] = res[q]
           /\ \A q \in Reservation : resWatch'[q] \subseteq resWatch[q] \cup {res'[q]}
<1>1. res'[r] = NextVersion(r, o) /\ \A q \in Reservation \ {r} : res'[q] = res[q]
  BY DEF WriteRes, ClusterTypeOK
<1>2. \A q \in Reservation : resWatch'[q] \subseteq resWatch[q] \cup {res'[q]}
  BY <1>1 DEF WriteRes, ClusterTypeOK
<1> QED
  BY <1>1, <1>2

LEMMA WriteAgrees ==
    ASSUME ClusterTypeOK, NEW r \in Reservation, NEW o \in ResObject, WriteRes(r, o),
           NEW q \in Reservation, NEW copy \in ResObject, Agrees(copy, res[q])
    PROVE  Agrees(copy, res'[q])
<1>1. CASE q # r
  BY <1>1, WrittenVersion
<1>2. CASE q = r /\ o = res[r]
  BY <1>2, WrittenVersion DEF NextVersion
<1>3. CASE q = r /\ o # res[r]
  <2>1. res'[q].rv = res[q].rv + 1
    BY <1>3, WrittenVersion, NextVersionType DEF ClusterTypeOK
  <2>2. res[q].rv \in Nat /\ copy.rv \in Nat
    BY DEF ClusterTypeOK, ResObject
  <2> QED
    BY <2>1, <2>2 DEF Agrees
<1> QED
  BY <1>1, <1>2, <1>3

LEMMA WriteVersionsAgree ==
    ASSUME ClusterTypeOK, VersionsAgree, NEW r \in Reservation, NEW o \in ResObject,
           WriteRes(r, o), UNCHANGED resCache
    PROVE  VersionsAgree'
<1> SUFFICES ASSUME NEW q \in Reservation, NEW copy \in resWatch'[q] \cup {resCache'[q]}
             PROVE  Agrees(copy, res'[q])
  BY DEF VersionsAgree
<1>1. CASE copy = res'[q]
  <2>1. res'[q].rv \in Nat
    BY WriteResType DEF ClusterTypeOK, ResObject
  <2> QED
    BY <1>1, <2>1 DEF Agrees
<1>2. CASE copy \in resWatch[q] \cup {resCache[q]}
  <2>1. copy \in ResObject
    BY <1>2 DEF ClusterTypeOK
  <2> QED
    BY <1>2, <2>1, WriteAgrees DEF VersionsAgree
<1> QED
  BY <1>1, <1>2, WrittenVersion

\* Nobody but the worker can make a namespace assigned.
KeepsAssigned ==
    \A r \in Reservation :
        Assigned(r)' => Assigned(r) /\ res'[r].namespace = res[r].namespace

LEMMA WriteKeepsAssigned ==
    ASSUME ClusterTypeOK, NEW r \in Reservation, NEW o \in ResObject, WriteRes(r, o),
           \/ ~o.live
           \/ o.namespace = NoNamespace
           \/ res[r].live /\ o.namespace = res[r].namespace
    PROVE  KeepsAssigned
<1>1. res'[r].live = o.live /\ res'[r].namespace = o.namespace
  BY WrittenVersion, NextVersionType DEF ClusterTypeOK
<1> QED
  BY <1>1, WrittenVersion DEF KeepsAssigned, Assigned

LEMMA KeepsAssignedInv ==
    ASSUME KeepsAssigned, ExclusiveAssignment, AssignedIsBound, TypeOK, TypeOK',
           \A n \in Namespace : roleBinding[n] => roleBinding'[n]
    PROVE  ExclusiveAssignment' /\ AssignedIsBound'
<1>1. ExclusiveAssignment'
  BY DEF KeepsAssigned, ExclusiveAssignment
<1>2. AssignedIsBound'
  <2> SUFFICES ASSUME NEW r \in Reservation, Assigned(r)'
               PROVE  roleBinding'[res'[r].namespace]
    BY DEF AssignedIsBound
  <2>1. Assigned(r) /\ res'[r].namespace = res[r].namespace
    BY DEF KeepsAssigned
  <2>2. res[r].namespace \in Namespace
    BY <2>1 DEF Assigned, TypeOK, ClusterTypeOK, ResObject
  <2> QED
    BY <2>1, <2>2 DEF AssignedIsBound
<1> QED
  BY <1>1, <1>2

\* A step that assigns nothing and does not bring the worker to Activate.
LEMMA QuietStep ==
    ASSUME TypeOK, TypeOK', AssignmentInv, KeepsAssigned, UNCHANGED roleBinding,
           VersionsAgree', WorkerCopyAgrees', PickedIsNamespace',
           pc' = "status" => pc = "status" /\ picked' = picked
    PROVE  AssignmentInv'
<1>1. ExclusiveAssignment' /\ AssignedIsBound'
  BY KeepsAssignedInv DEF AssignmentInv
<1>2. BoundForPicked'
  BY DEF BoundForPicked, KeepsAssigned, AssignmentInv
<1> QED
  BY <1>1, <1>2 DEF AssignmentInv

-----------------------------------------------------------------------------
(***************************************************************************)
(* Steps of the others: users, poller, pool, cluster.                      *)
(***************************************************************************)
LEMMA ForeignIdle ==
    ASSUME AssignmentInv,
           UNCHANGED <<workerVars, roleBinding, res, resCache, resWatch>>
    PROVE  AssignmentInv'
  BY DEF AssignmentInv, VersionsAgree, WorkerCopyAgrees, AssignedIsBound,
         PickedIsNamespace, BoundForPicked, ExclusiveAssignment, Assigned, workerVars

LEMMA ForeignWrite ==
    ASSUME TypeInv, TypeInv', AssignmentInv, UNCHANGED <<workerVars, roleBinding, resCache>>,
           NEW r \in Reservation, NEW o \in ResObject, WriteRes(r, o),
           \/ ~o.live
           \/ o.namespace = NoNamespace
           \/ res[r].live /\ o.namespace = res[r].namespace
    PROVE  AssignmentInv'
<1> USE DEF TypeInv
<1>1. KeepsAssigned
  BY WriteKeepsAssigned DEF TypeOK
<1>2. VersionsAgree'
  BY WriteVersionsAgree DEF AssignmentInv, TypeOK
<1>3. WorkerCopyAgrees'
  <2> SUFFICES ASSUME pc # "idle"
               PROVE  Agrees(obj, res'[key])
    BY DEF WorkerCopyAgrees, workerVars
  <2>1. Agrees(obj, res[key])
    BY DEF AssignmentInv, WorkerCopyAgrees
  <2>2. key \in Reservation /\ obj \in ResObject
    BY DEF TypeOK, ControllerTypeOK
  <2> QED
    BY <2>1, <2>2, WriteAgrees DEF TypeOK
<1> QED
  BY <1>1, <1>2, <1>3, QuietStep DEF workerVars

LEMMA UserAssignment ==
    ASSUME TypeInv, TypeInv', AssignmentInv, NEW r \in Reservation, UserStep(r),
           UNCHANGED operatorVars
    PROVE  AssignmentInv'
<1> USE DEF operatorVars, controllerVars
<1>1. res[r] \in ResObject
  BY DEF TypeInv, TypeOK, ClusterTypeOK
<1>2. ASSUME NEW d \in Durations, CreateReservation(r, d)
      PROVE  AssignmentInv'
  <2>1. PICK f \in {FALSE, RestoredFinalizer} :
          WriteRes(r, [NoReservation(res[r].rv) EXCEPT
                         !.live = TRUE, !.uid = nextUid, !.created = now,
                         !.duration = d, !.finalizer = f])
    BY <1>2 DEF CreateReservation
  <2> DEFINE o == [NoReservation(res[r].rv) EXCEPT
                         !.live = TRUE, !.uid = nextUid, !.created = now,
                         !.duration = d, !.finalizer = f]
  <2>2. NoReservation(res[r].rv) \in ResObject
    BY <1>1, NoReservationType DEF ResObject
  <2>3. o \in ResObject
    BY <2>2 DEF TypeInv, TypeOK, ClusterTypeOK, ResObject
  <2>4. o.namespace = NoNamespace
    BY DEF NoReservation
  <2> QED
    BY <1>2, <2>1, <2>3, <2>4, ForeignWrite DEF CreateReservation
<1>3. ASSUME NEW d \in Durations, EditDuration(r, d)
      PROVE  AssignmentInv'
  BY <1>1, <1>3, EditedType, ForeignWrite DEF EditDuration
<1>4. CASE DeleteReservation(r)
  BY <1>1, <1>4, AfterDeleteType, ForeignWrite DEF DeleteReservation
<1>5. CASE DeployCluster(r)
  BY <1>5, ForeignIdle DEF DeployCluster, resVars
<1> QED
  BY <1>2, <1>3, <1>4, <1>5 DEF UserStep

LEMMA PollerAssignment ==
    ASSUME TypeInv, TypeInv', AssignmentInv, PollerStep, UNCHANGED <<poolPlan, controllerVars>>
    PROVE  AssignmentInv'
<1> USE DEF controllerVars
<1>1. CASE populateActiveReservations
  BY <1>1, ForeignIdle DEF populateActiveReservations, clusterVars, resVars
<1>2. ASSUME NEW r \in Reservation, PollExpired(r)
      PROVE  AssignmentInv'
  BY <1>2, ForeignIdle DEF PollExpired, clusterVars, resVars
<1>3. CASE PollDelete
  <2>1. pollerKey \in Reservation
    BY <1>3 DEF PollDelete, TypeInv, TypeOK, PollerTypeOK
  <2>2. res[pollerKey] \in ResObject
    BY <2>1 DEF TypeInv, TypeOK, ClusterTypeOK
  <2>3. \/ WriteRes(pollerKey, AfterDelete(res[pollerKey]))
        \/ UNCHANGED <<res, resWatch>>
    BY <1>3 DEF PollDelete
  <2> QED
    BY <1>3, <2>1, <2>2, <2>3, AfterDeleteType, ForeignWrite, ForeignIdle DEF PollDelete
<1> QED
  BY <1>1, <1>2, <1>3 DEF PollerStep

LEMMA ClusterAssignment ==
    ASSUME AssignmentInv, NEW n \in Namespace, ClusterStep(n), UNCHANGED operatorVars
    PROVE  AssignmentInv'
  BY ForeignIdle
  DEF ClusterStep, DeliverNs, GarbageCollect, FinalizeNamespace, ClusterRemoved,
      DeliverCluster, resVars, operatorVars, controllerVars

LEMMA PoolAssignment ==
    ASSUME AssignmentInv, UNCHANGED <<pollerVars, controllerVars>>,
           PoolActs
    PROVE  AssignmentInv'
  BY PoolUnchanged, ForeignIdle DEF resVars, controllerVars

-----------------------------------------------------------------------------
(***************************************************************************)
(* Steps of the worker.  An Update is accepted only if the worker's copy   *)
(* is the stored object, so what it stores keeps the namespace.            *)
(***************************************************************************)
LEMMA CurrentCopy ==
    ASSUME AssignmentInv, pc # "idle", NEW o, NEW result,
           UpdateRes(o, result), Applied(result)
    PROVE  WriteRes(key, o) /\ obj = res[key] /\ res[key].live
<1>1. WriteRes(key, o) /\ ResCurrent(key, obj)
  BY DEF UpdateRes, Call, Applied
<1> QED
  BY <1>1 DEF ResCurrent, AssignmentInv, WorkerCopyAgrees, Agrees

\* How the step goes on is harmless: it ends, or goes on with the stored
\* object to a step other than Activate.
LEMMA WorkerWrite ==
    ASSUME TypeInv, TypeInv', AssignmentInv, pc # "idle", ResWriteUnchanged,
           NEW o \in ResObject, NEW result, NEW step \in Steps \ {"status"},
           UpdateRes(o, result), ~o.live \/ o.namespace = obj.namespace,
           Done \/ Requeue \/ (result = "ok" /\ Goto(step, NextVersion(key, o)))
    PROVE  AssignmentInv'
<1> USE DEF TypeInv
<1>1. key \in Reservation
  BY DEF TypeOK, ControllerTypeOK
<1>2. UNCHANGED resCache /\ UNCHANGED roleBinding
  BY DEF ResWriteUnchanged
<1>3. CASE Applied(result)
  <2>1. WriteRes(key, o) /\ obj = res[key] /\ res[key].live
    BY <1>3, CurrentCopy
  <2>2. KeepsAssigned
    BY <1>1, <2>1, WriteKeepsAssigned DEF TypeOK
  <2>3. VersionsAgree'
    BY <1>1, <1>2, <2>1, WriteVersionsAgree DEF AssignmentInv, TypeOK
  <2>4. WorkerCopyAgrees'
    <3>1. CASE Done \/ Requeue
      BY <3>1 DEF Done, Requeue, Forget, WorkerCopyAgrees
    <3>2. CASE Goto(step, NextVersion(key, o))
      <4>1. obj' = res'[key'] /\ key' = key
        BY <1>1, <2>1, <3>2, WrittenVersion DEF Goto, TypeOK
      <4>2. res'[key].rv \in Nat
        BY <1>1 DEF TypeOK, ClusterTypeOK, ResObject
      <4> QED
        BY <4>1, <4>2 DEF WorkerCopyAgrees, Agrees
    <3> QED
      BY <3>1, <3>2
  <2>5. pc' # "status"
    BY DEF Done, Requeue, Forget, Goto
  <2> QED
    BY <1>2, <2>2, <2>3, <2>4, <2>5, QuietStep
<1>4. CASE ~Applied(result)
  <2>1. UNCHANGED <<res, resWatch>> /\ Forget
    BY <1>4 DEF UpdateRes, Applied, Done, Requeue
  <2>2. VersionsAgree' /\ WorkerCopyAgrees' /\ KeepsAssigned /\ pc' # "status"
    BY <1>2, <2>1
    DEF AssignmentInv, VersionsAgree, WorkerCopyAgrees, Forget, KeepsAssigned, Assigned
  <2> QED
    BY <1>2, <2>2, QuietStep
<1> QED
  BY <1>3, <1>4

\* A step that stores no reservation.
LEMMA WorkerIdle ==
    ASSUME TypeInv, TypeInv', AssignmentInv,
           UNCHANGED <<res, resCache, resWatch, roleBinding>>,
           \/ Done
           \/ Requeue
           \/ \E step \in Steps \ {"status"} : pc # "idle" /\ Goto(step, obj)
    PROVE  AssignmentInv'
<1>1. VersionsAgree' /\ KeepsAssigned
  BY DEF AssignmentInv, VersionsAgree, KeepsAssigned, Assigned
<1>2. WorkerCopyAgrees' /\ pc' # "status"
  BY DEF AssignmentInv, WorkerCopyAgrees, Done, Requeue, Forget, Goto
<1> QED
  BY <1>1, <1>2, QuietStep DEF TypeInv

LEMMA WorkerDelete ==
    ASSUME TypeInv, TypeInv', AssignmentInv, pc # "idle", ResWriteUnchanged,
           NEW result, DeleteRes(result), Done \/ Requeue
    PROVE  AssignmentInv'
<1> USE DEF TypeInv
<1>1. key \in Reservation /\ res[key] \in ResObject
  BY DEF TypeOK, ControllerTypeOK, ClusterTypeOK
<1>2. UNCHANGED resCache /\ UNCHANGED roleBinding
  BY DEF ResWriteUnchanged
<1>3. CASE WriteRes(key, AfterDelete(res[key]))
  <2>1. KeepsAssigned
    BY <1>1, <1>3, AfterDeleteType, WriteKeepsAssigned DEF TypeOK
  <2>2. VersionsAgree'
    BY <1>1, <1>2, <1>3, AfterDeleteType, WriteVersionsAgree DEF AssignmentInv, TypeOK
  <2>3. WorkerCopyAgrees' /\ pc' # "status"
    BY DEF WorkerCopyAgrees, Done, Requeue, Forget
  <2> QED
    BY <1>2, <2>1, <2>2, <2>3, QuietStep
<1>4. CASE UNCHANGED <<res, resWatch>>
  BY <1>2, <1>4, WorkerIdle
<1> QED
  BY <1>3, <1>4 DEF DeleteRes

\* The rolebinding is created once: no reservation has the namespace yet.
LEMMA BindAssignment ==
    ASSUME TypeInv, TypeInv', AssignmentInv, AddRoleBindings
    PROVE  AssignmentInv'
<1> USE DEF TypeInv
<1>1. PICK result \in Results :
        /\ Call(CanBind(picked), result)
        /\ roleBinding' = IF Applied(result)
                          THEN [roleBinding EXCEPT ![picked] = TRUE]
                          ELSE roleBinding
        /\ IF result = "ok" THEN Goto("status", obj) ELSE Requeue
  BY DEF AddRoleBindings
<1>2. pc = "bind" /\ picked \in Namespace /\ UNCHANGED <<res, resCache, resWatch>>
  BY DEF AddRoleBindings, PickedIsNamespace, resVars
<1>3. \A n \in Namespace : roleBinding[n] => roleBinding'[n]
  BY <1>1 DEF TypeOK, ClusterTypeOK
<1>4. KeepsAssigned /\ VersionsAgree'
  BY <1>2 DEF KeepsAssigned, Assigned, AssignmentInv, VersionsAgree
<1>5. ExclusiveAssignment' /\ AssignedIsBound'
  BY <1>3, <1>4, KeepsAssignedInv DEF AssignmentInv
<1>6. WorkerCopyAgrees'
  BY <1>1, <1>2 DEF AssignmentInv, WorkerCopyAgrees, Goto, Requeue, Forget
<1>7. BoundForPicked'
  <2>1. CASE result = "ok"
    <3>1. picked' = picked /\ roleBinding'[picked] /\ ~roleBinding[picked]
      BY <1>1, <1>2, <2>1 DEF Goto, Applied, Call, CanBind, TypeOK, ClusterTypeOK
    <3>2. \A r \in Reservation : Assigned(r) => res[r].namespace # picked
      BY <3>1 DEF AssignmentInv, AssignedIsBound
    <3> QED
      BY <1>2, <3>1, <3>2 DEF BoundForPicked, Assigned
  <2>2. CASE result # "ok"
    BY <1>1, <2>2 DEF Requeue, Forget, BoundForPicked
  <2> QED
    BY <2>1, <2>2
<1> QED
  BY <1>4, <1>5, <1>6, <1>7 DEF AssignmentInv

\* The one step that assigns a namespace.
LEMMA ActivateAssignment ==
    ASSUME TypeInv, TypeInv', AssignmentInv, Activate
    PROVE  AssignmentInv'
<1> USE DEF TypeInv
<1>1. PICK result \in Results :
        /\ UpdateRes(Activated(obj), result)
        /\ IF result = "ok"
           THEN IF obj.finalizer
                THEN Done
                ELSE Goto("finalizer", NextVersion(key, Activated(obj)))
           ELSE Requeue
  BY DEF Activate
<1>2. /\ pc = "status" /\ key \in Reservation /\ picked \in Namespace
      /\ UNCHANGED resCache /\ UNCHANGED roleBinding
  BY DEF Activate, ResWriteUnchanged, PickedIsNamespace, TypeOK, ControllerTypeOK
<1>3. Activated(obj) \in ResObject /\ Activated(obj).namespace = picked
  BY <1>2, ActivatedType DEF TypeOK, ControllerTypeOK
<1>4. CASE Applied(result)
  <2>1. WriteRes(key, Activated(obj))
    BY <1>1, <1>2, <1>4, CurrentCopy
  <2>2. res'[key].namespace = picked /\ \A r \in Reservation \ {key} : res'[r] = res[r]
    BY <1>2, <1>3, <2>1, WrittenVersion, NextVersionType DEF TypeOK, ClusterTypeOK
  <2>3. \A r \in Reservation \ {key} :
          Assigned(r)' => Assigned(r) /\ res'[r].namespace = res[r].namespace
    BY <2>2 DEF Assigned
  <2>4. roleBinding[picked] /\ \A r \in Reservation : Assigned(r) => res[r].namespace # picked
    BY <1>2 DEF AssignmentInv, BoundForPicked
  <2>5. ExclusiveAssignment'
    <3> SUFFICES ASSUME NEW r1 \in Reservation, NEW r2 \in Reservation,
                        Assigned(r1)', Assigned(r2)',
                        res'[r1].namespace = res'[r2].namespace
                 PROVE  r1 = r2
      BY DEF ExclusiveAssignment
    <3> QED
      BY <2>2, <2>3, <2>4 DEF AssignmentInv, ExclusiveAssignment
  <2>6. AssignedIsBound'
    BY <1>2, <2>2, <2>3, <2>4 DEF AssignmentInv, AssignedIsBound
  <2>7. VersionsAgree'
    BY <1>2, <1>3, <2>1, WriteVersionsAgree DEF AssignmentInv, TypeOK
  <2>8. WorkerCopyAgrees'
    <3>1. CASE Done \/ Requeue
      BY <3>1 DEF Done, Requeue, Forget, WorkerCopyAgrees
    <3>2. CASE Goto("finalizer", NextVersion(key, Activated(obj)))
      <4>1. obj' = res'[key'] /\ key' = key
        BY <1>2, <1>3, <2>1, <3>2, WrittenVersion DEF Goto, TypeOK
      <4>2. res'[key].rv \in Nat
        BY <1>2 DEF TypeOK, ClusterTypeOK, ResObject
      <4> QED
        BY <4>1, <4>2 DEF WorkerCopyAgrees, Agrees
    <3> QED
      BY <1>1, <3>1, <3>2
  <2>9. BoundForPicked'
    BY <1>1 DEF BoundForPicked, Done, Requeue, Forget, Goto
  <2> QED
    BY <2>5, <2>6, <2>7, <2>8, <2>9 DEF AssignmentInv
<1>5. CASE ~Applied(result)
  <2>1. UNCHANGED <<res, resWatch>> /\ Requeue
    BY <1>1, <1>5 DEF UpdateRes, Applied
  <2> QED
    BY <1>2, <2>1, WorkerIdle
<1> QED
  BY <1>4, <1>5

LEMMA WorkerAssignment ==
    ASSUME TypeInv, TypeInv', AssignmentInv, WorkerStep
    PROVE  AssignmentInv'
<1> USE DEF Steps
<1>1. obj \in ResObject /\ now \in Nat
  BY DEF TypeInv, TypeOK, ControllerTypeOK, ClusterTypeOK
<1>2. CASE ActiveAddFinalizer
  <2>1. WithFinalizer(obj) \in ResObject /\ WithFinalizer(obj).namespace = obj.namespace
    BY <1>1, StoredTypes
  <2> QED
    BY <1>2, <2>1, WorkerWrite DEF ActiveAddFinalizer
<1>3. CASE ActiveRefresh
  <2>1. CASE HasExpiration(obj)
    BY <1>1, <1>3, <2>1, ExpirationTypes, WorkerWrite DEF ActiveRefresh
  <2>2. CASE ~HasExpiration(obj)
    BY <1>3, <2>2, WorkerIdle DEF ActiveRefresh, ResWriteUnchanged
  <2> QED
    BY <2>1, <2>2
<1>4. CASE DeleteExpiredWaiting
  BY <1>4, WorkerDelete DEF DeleteExpiredWaiting
<1>5. CASE RejectDuration
  BY <1>5, WorkerDelete, WorkerIdle DEF RejectDuration, ResWriteUnchanged
<1>6. CASE AwaitNamespace
  <2>1. pc = "list" /\ HasExpiration(obj)
    BY <1>6 DEF AwaitNamespace, MayAssign
  <2>2. Waiting(obj) \in ResObject /\ Waiting(obj).namespace = obj.namespace
    BY <1>1, <2>1, ExpirationTypes
  <2> QED
    <3>1. ResWriteUnchanged /\ Requeue
      BY <1>6 DEF AwaitNamespace
    <3>2. CASE obj.state = ""
      <4>1. PICK result \in Results : UpdateRes(Waiting(obj), result)
        BY <1>6, <3>2 DEF AwaitNamespace
      <4>2. "idle" \in Steps \ {"status"}
        OBVIOUS
      <4> HIDE DEF Steps
      <4> QED
        BY <2>1, <2>2, <3>1, <4>1, <4>2, WorkerWrite
    <3>3. CASE obj.state # ""
      BY <1>6, <3>1, <3>3, WorkerIdle DEF AwaitNamespace, ResWriteUnchanged
    <3> QED
      BY <3>2, <3>3
<1>7. ASSUME NEW n \in Namespace, PickNamespace(n)
      PROVE  AssignmentInv'
  <2>1. pc = "list" /\ pc' # "status" /\ UNCHANGED <<key, obj, clusterVars>>
    BY <1>7 DEF PickNamespace, MayAssign
  <2>2. VersionsAgree' /\ WorkerCopyAgrees' /\ KeepsAssigned
    BY <2>1
    DEF AssignmentInv, VersionsAgree, WorkerCopyAgrees, KeepsAssigned, Assigned,
        clusterVars, resVars
  <2> QED
    BY <2>1, <2>2, QuietStep DEF TypeInv, clusterVars
<1>8. CASE verifyClowdEnvForReadyNs
  BY <1>8, WorkerIdle DEF verifyClowdEnvForReadyNs, resVars
<1>9. CASE ReserveNamespace
  BY <1>9, WorkerIdle DEF ReserveNamespace, resVars
<1>10. CASE AddFinalizer
  <2>1. WithFinalizer(obj) \in ResObject /\ WithFinalizer(obj).namespace = obj.namespace
    BY <1>1, StoredTypes
  <2> QED
    BY <1>10, <2>1, WorkerWrite DEF AddFinalizer
<1>11. CASE AbandonUnassigned \/ ReleaseFinalizer
  BY <1>1, <1>11, StoredTypes, WorkerWrite DEF AbandonUnassigned, ReleaseFinalizer
<1>12. CASE MarkDeleting
  <2>1. CASE obj.state = "deleting"
    BY <1>12, <2>1, WorkerIdle DEF MarkDeleting, ResWriteUnchanged
  <2>2. CASE obj.state # "deleting"
    <3>1. Deleting(obj) \in ResObject /\ Deleting(obj).namespace = obj.namespace
      BY <1>1, StoredTypes
    <3> QED
      BY <1>12, <2>2, <3>1, WorkerWrite DEF MarkDeleting
  <2> QED
    BY <2>1, <2>2
<1>13. CASE DrainClusters
  BY <1>13, WorkerIdle DEF DrainClusters, resVars
<1>14. CASE CopySecretsFails
  BY <1>14, WorkerIdle DEF CopySecretsFails, clusterVars, resVars
<1> QED
  BY <1>2, <1>3, <1>4, <1>5, <1>6, <1>7, <1>8, <1>9, <1>10, <1>11, <1>12, <1>13, <1>14,
     BindAssignment, ActivateAssignment DEF WorkerStep

LEMMA QueueAssignment ==
    ASSUME TypeInv, TypeInv', AssignmentInv, NEW r \in Reservation,
           Reconcile(r) \/ ReservationEvent(r) \/ Resync(r)
    PROVE  AssignmentInv'
<1> USE DEF TypeInv
<1>1. CASE Reconcile(r)
  <2>1. UNCHANGED clusterVars /\ pc' # "status"
    BY <1>1 DEF Reconcile, FirstStep, Forget
  <2>2. VersionsAgree' /\ KeepsAssigned
    BY <2>1
    DEF AssignmentInv, VersionsAgree, KeepsAssigned, Assigned, clusterVars, resVars
  <2>3. WorkerCopyAgrees'
    BY <1>1, <2>1
    DEF Reconcile, Forget, AssignmentInv, VersionsAgree, WorkerCopyAgrees, clusterVars, resVars
  <2> QED
    BY <2>1, <2>2, <2>3, QuietStep DEF clusterVars
<1>2. CASE ReservationEvent(r)
  <2>1. UNCHANGED <<workerVars, roleBinding, res>> /\ KeepsAssigned
    BY <1>2 DEF ReservationEvent, DeliverRes, KeepsAssigned, Assigned
  <2>2. VersionsAgree'
    <3>1. \A q \in Reservation :
            resWatch'[q] \cup {resCache'[q]} \subseteq resWatch[q] \cup {resCache[q]}
      BY <1>2 DEF ReservationEvent, DeliverRes, TypeOK, ClusterTypeOK
    <3> QED
      BY <2>1, <3>1 DEF AssignmentInv, VersionsAgree
  <2>3. WorkerCopyAgrees'
    BY <2>1 DEF AssignmentInv, WorkerCopyAgrees, workerVars
  <2> QED
    BY <2>1, <2>2, <2>3, QuietStep DEF workerVars
<1>3. CASE Resync(r)
  BY <1>3, ForeignIdle DEF Resync, clusterVars, resVars
<1> QED
  BY <1>1, <1>2, <1>3

LEMMA CrashAssignment ==
    ASSUME TypeInv, TypeInv', AssignmentInv, Crash
    PROVE  AssignmentInv'
<1> USE DEF TypeInv
<1>1. KeepsAssigned /\ WorkerCopyAgrees' /\ pc' # "status" /\ UNCHANGED roleBinding
  BY DEF Crash, Forget, KeepsAssigned, Assigned, WorkerCopyAgrees
<1>2. VersionsAgree'
  <2>1. \A r \in Reservation : res[r].rv \in Nat
    BY DEF TypeOK, ClusterTypeOK, ResObject
  <2> QED
    BY <2>1 DEF Crash, VersionsAgree, Agrees
<1> QED
  BY <1>1, <1>2, QuietStep

LEMMA AssignmentInit ==
    ASSUME Init
    PROVE  AssignmentInv
<1>1. \A r \in Reservation : res[r] = NoReservation(0) /\ resCache[r] = res[r]
  BY DEF Init, ClusterInit
<1>2. \A r \in Reservation : ~Assigned(r) /\ res[r].rv = 0
  BY <1>1, NoReservationType DEF Assigned
<1>3. VersionsAgree
  BY <1>1, <1>2 DEF Init, ClusterInit, VersionsAgree, Agrees
<1> QED
  BY <1>2, <1>3
  DEF AssignmentInv, WorkerCopyAgrees, AssignedIsBound, PickedIsNamespace, BoundForPicked,
      ExclusiveAssignment, Init, ControllerInit

LEMMA AssignmentStep ==
    ASSUME TypeInv, AssignmentInv, [Next]_vars
    PROVE  AssignmentInv'
<1>1. TypeInv'
  BY TypeStep
<1>2. ASSUME (Tick /\ UNCHANGED operatorVars) \/ UNCHANGED vars
      PROVE  AssignmentInv'
  BY <1>2, ForeignIdle
  DEF Tick, operatorVars, vars, clusterVars, controllerVars, resVars
<1> QED
  BY <1>1, <1>2, UserAssignment, ClusterAssignment, PoolAssignment, PollerAssignment,
     QueueAssignment, WorkerAssignment, CrashAssignment DEF Next, PoolActs

\* Why no namespace is assigned twice, as an invariant: every copy that carries
\* the current version of a reservation equals it, an assigned namespace has its
\* rolebinding, and the worker that has just created one is alone in assigning
\* its namespace.
THEOREM AssignmentInvariant == Spec => []AssignmentInv
<1> DEFINE Inv == TypeInv /\ AssignmentInv
<1>1. Init => Inv
  BY TypeInit, AssignmentInit
<1>2. Inv /\ [Next]_vars => Inv'
  BY TypeStep, AssignmentStep
<1> QED
  BY <1>1, <1>2, PTL DEF Spec

\* No namespace of the pool is ever assigned to two reservations: a ready
\* namespace taken from a stale List (GetReadyNamespaces), the unchecked
\* reserveNamespace, lost answers and crashes do not lead to it, because
\* addRoleBindings fails on a namespace that was handed out before.
THEOREM AssignmentIsExclusive == Spec => []ExclusiveAssignment
<1>1. AssignmentInv => ExclusiveAssignment
  BY DEF AssignmentInv
<1> QED
  BY <1>1, AssignmentInvariant, PTL
=============================================================================
