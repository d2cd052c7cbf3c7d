----------------------- MODULE ReservationController -----------------------
(***************************************************************************)
(* namespacereservation_controller.go: the worker that reconciles          *)
(* NamespaceReservations, one at a time (MaxConcurrentReconciles is 1).    *)
(*                                                                         *)
(* A reconcile is a sequence of steps, cut at the reads and writes between *)
(* which another process can act.  A read of the cache and the Update of   *)
(* what was read are one step where nothing else is decided in between:    *)
(* the Update succeeds only if the copy is still current.                  *)
(*                                                                         *)
(* Returning an error, Requeue or RequeueAfter puts the key back into the  *)
(* work queue; a panic (a nil Spec.Duration) is recovered by               *)
(* controller-runtime and does the same.                                   *)
(***************************************************************************)
EXTENDS Poller, PoolAbstraction

CONSTANT
    SecretsMayFail \* may secrets fail to be copied, again and again?

ASSUME ReservationControllerAssumption == SecretsMayFail \in BOOLEAN

VARIABLES
    queue,   \* keys of reservations to reconcile
    pc,      \* the next step of the reconcile in progress
    key,     \* the reservation it is about
    obj,     \* its copy `res' of that reservation
    picked,  \* readyNsName
    expirationTS

workerVars == <<pc, key, obj, picked, expirationTS>>
controllerVars == <<queue, workerVars>>

Steps == {"idle", "addFinalizer", "refresh", "list", "verify", "reserve",
          "bind", "status", "finalizer", "abandon", "mark", "drain", "release"}

ControllerTypeOK ==
    /\ queue \in SUBSET Reservation
    /\ pc \in Steps
    /\ key \in Reservation \cup {NoKey}
    /\ pc # "idle" => key # NoKey
    /\ obj \in ResObject
    /\ picked \in Namespace \cup {NoNamespace}
    /\ expirationTS \in Nat

ControllerInit ==
    /\ queue = {}
    /\ pc = "idle"
    /\ key = NoKey
    /\ obj = NoReservation(0)
    /\ picked = NoNamespace
    /\ expirationTS = ZeroTime

(***************************************************************************)
(* How a step goes on: to another step, with o as the copy it works on, or *)
(* to the end of the reconcile, which forgets its local state.             *)
(***************************************************************************)
Goto(step, o) ==
    pc' = step /\ obj' = o /\ UNCHANGED <<queue, key, picked, expirationTS>>

Forget ==
    /\ pc' = "idle" /\ key' = NoKey /\ obj' = NoReservation(0)
    /\ picked' = NoNamespace /\ expirationTS' = ZeroTime

Done    == Forget /\ UNCHANGED queue
Requeue == Forget /\ queue' = queue \cup {key}

\* With a bug: the write is a patch that carries no resourceVersion.
UpdateResBlindly(o, result) ==
    /\ Call(res[key].live, result)
    /\ IF Applied(result)
       THEN WriteRes(key, o)
       ELSE UNCHANGED <<res, resWatch>>

\* An Update (of the object or of its status) that would store o.
UpdateRes(o, result) ==
    /\ Call(ResCurrent(key, obj), result)
    /\ IF Applied(result)
       THEN WriteRes(key, o)
       ELSE UNCHANGED <<res, resWatch>>

\* client.Delete of the reservation, by name.
DeleteRes(result) ==
    /\ Call(res[key].live, result)
    /\ IF Applied(result)
       THEN WriteRes(key, AfterDelete(res[key]))
       ELSE UNCHANGED <<res, resWatch>>

ResWriteUnchanged ==
    UNCHANGED <<nsVars, poolPlan, roleBinding, resCache, nextUid, capiVars,
                now, pollerPc, pollerKey>>

(***************************************************************************)
(* getExpirationTime.  A duration that does not parse is an error.         *)
(***************************************************************************)
HasExpiration(o) == o.duration \in Nat
getExpirationTime(o) == IF o.duration = 0 THEN now ELSE o.created + o.duration

-----------------------------------------------------------------------------
(***************************************************************************)
(* Reconcile: the Get and the switch on the state.                         *)
(***************************************************************************)
\* Two variants with a bug: the finalizer is added before a namespace is
\* assigned; a waiting reservation is left alone.
FirstStepFinalizerFirst(o) ==
    IF ~o.live THEN "idle"
    ELSE IF o.deleting
         THEN IF ~o.finalizer THEN "idle"
              ELSE IF o.namespace = NoNamespace THEN "abandon" ELSE "mark"
         ELSE IF ~o.finalizer THEN "addFinalizer"
              ELSE IF o.state = "active" THEN "refresh" ELSE "list"

FirstStepWaitingIsFinal(o) ==
    IF ~o.live \/ o.state = "waiting" THEN "idle"
    ELSE IF o.deleting
         THEN IF ~o.finalizer THEN "idle"
              ELSE IF o.namespace = NoNamespace THEN "abandon" ELSE "mark"
         ELSE IF o.state = "active"
              THEN IF o.finalizer THEN "refresh" ELSE "addFinalizer"
              ELSE "list"

FirstStep(o) ==
    IF ~o.live THEN "idle"
    ELSE IF o.deleting
         THEN IF ~o.finalizer THEN "idle"
              ELSE IF o.namespace = NoNamespace THEN "abandon" ELSE "mark"
         ELSE IF o.state = "active"
              THEN IF o.finalizer THEN "refresh" ELSE "addFinalizer"
              ELSE "list"

Reconcile(r) ==
    /\ pc = "idle"
    /\ r \in queue
    /\ queue' = queue \ {r}
    /\ IF FirstStep(resCache[r]) = "idle"
       THEN Forget
       ELSE /\ pc' = FirstStep(resCache[r])
            /\ key' = r
            /\ obj' = resCache[r]
            /\ UNCHANGED <<picked, expirationTS>>
    /\ UNCHANGED <<poolPlan, pollerVars, clusterVars>>

(***************************************************************************)
(* An active reservation: make sure that it has the finalizer, record its  *)
(* expiration in the poller's map and in its status.                       *)
(***************************************************************************)
WithFinalizer(o) == [o EXCEPT !.finalizer = TRUE]

ActiveAddFinalizer ==
    /\ pc = "addFinalizer"
    /\ \E result \in Results :
         /\ UpdateRes(WithFinalizer(obj), result)
         /\ IF result = "ok"
            THEN Goto("refresh", NextVersion(key, WithFinalizer(obj)))
            ELSE Requeue
    /\ UNCHANGED activeReservations
    /\ ResWriteUnchanged

Refreshed(o) == [o EXCEPT !.expiration = getExpirationTime(o)]

\* With a bug: an expiration is not recorded again.
ActiveRefreshUnrecorded ==
    /\ pc = "refresh"
    /\ IF HasExpiration(obj)
       THEN \E result \in Results :
              /\ UpdateRes(Refreshed(obj), result)
              /\ IF result = "ok" THEN Done ELSE Requeue
       ELSE Requeue /\ UNCHANGED <<res, resWatch, faults>>
    /\ UNCHANGED activeReservations
    /\ ResWriteUnchanged

ActiveRefresh ==
    /\ pc = "refresh"
    /\ IF HasExpiration(obj)
       THEN /\ Track(key, getExpirationTime(obj))
            /\ \E result \in Results :
                 /\ UpdateRes(Refreshed(obj), result)
                 /\ IF result = "ok" THEN Done ELSE Requeue
       ELSE Requeue /\ UNCHANGED <<res, resWatch, faults, activeReservations>>
    /\ ResWriteUnchanged

(***************************************************************************)
(* A reservation without a namespace.  It is deleted if it has waited too  *)
(* long (and then never reconciled again, even if the Delete fails), or if *)
(* its duration does not parse.                                            *)
(***************************************************************************)
WaitedTooLong ==
    /\ obj.state = "waiting"
    /\ HasExpiration(obj)
    /\ namespaceIsExpired(getExpirationTime(obj))

DeleteExpiredWaiting ==
    /\ pc = "list"
    /\ WaitedTooLong
    /\ \E result \in Results : DeleteRes(result)
    /\ Done
    /\ UNCHANGED activeReservations
    /\ ResWriteUnchanged

RejectDuration ==
    /\ pc = "list"
    /\ ~HasExpiration(obj)
    /\ IF obj.duration = Unparsable /\ obj.state # "waiting"
       THEN \E result \in Results : DeleteRes(result)
       ELSE UNCHANGED <<res, resWatch, faults>>
    /\ Requeue
    /\ UNCHANGED activeReservations
    /\ ResWriteUnchanged

MayAssign == pc = "list" /\ HasExpiration(obj) /\ ~WaitedTooLong

\* No namespace is ready: say so in the status and try again.
Waiting(o) == [o EXCEPT !.state = "waiting", !.expiration = getExpirationTime(o)]

AwaitNamespace ==
    /\ MayAssign
    /\ GetReadyNamespaces = {}
    /\ IF obj.state = ""
       THEN \E result \in Results : UpdateRes(Waiting(obj), result)
       ELSE UNCHANGED <<res, resWatch, faults>>
    /\ Requeue
    /\ UNCHANGED activeReservations
    /\ ResWriteUnchanged

\* The first of the list, which the cache returns in no particular order.
PickNamespace(n) ==
    /\ MayAssign
    /\ n \in GetReadyNamespaces
    /\ picked' = n
    /\ expirationTS' = getExpirationTime(obj)
    /\ pc' = IF ClowderPool THEN "verify" ELSE "reserve"
    /\ UNCHANGED <<queue, key, obj, poolPlan, pollerVars, clusterVars>>

\* verifyClowdEnvForReadyNs: if the ClowdEnvironment is not ready (or cannot
\* be read) the namespace is marked as being in error.
verifyClowdEnvForReadyNs ==
    /\ pc = "verify"
    /\ \/ Goto("reserve", obj) /\ UNCHANGED <<ns, nsWatch, faults>>
       \/ /\ Requeue
          /\ \E result \in Results : UpdateAnnotations(picked, "error", result)
    /\ UNCHANGED <<nsCache, poolPlan, roleBinding, resVars, capiVars, now,
                   pollerVars>>

(***************************************************************************)
(* reserveNamespace: Get the namespace, make the reservation its owner,    *)
(* mark it reserved, copy secrets (see SecretCopy), and Update it.  The    *)
(* Get does not check again that the namespace is in the pool and ready.   *)
(***************************************************************************)
CopySecretsFails ==
    /\ pc = "reserve"
    /\ SecretsMayFail
    /\ Requeue
    /\ UNCHANGED <<poolPlan, pollerVars, clusterVars>>

Reserved(o) == [o EXCEPT !.owner = obj.uid, !.reserved = TRUE]

ReserveNamespace ==
    /\ pc = "reserve"
    /\ \E result \in Results :
         /\ Call(NsCurrent(picked, nsCache[picked]), result)
         /\ IF Applied(result)
            THEN WriteNs(picked, Reserved(nsCache[picked]))
            ELSE UNCHANGED <<ns, nsWatch>>
         /\ IF result = "ok" THEN Goto("bind", obj) ELSE Requeue
    /\ UNCHANGED <<nsCache, poolPlan, roleBinding, resVars, capiVars, now,
                   pollerVars>>

\* With a bug: a rolebinding that exists already is fine.
CanBindAgain(n) == ns[n].phase = "Active"

\* addRoleBindings creates a rolebinding named after the namespace.  Create
\* fails if it exists already or if the namespace is being deleted.
CanBind(n) == ns[n].phase = "Active" /\ ~roleBinding[n]

AddRoleBindings ==
    /\ pc = "bind"
    /\ \E result \in Results :
         /\ Call(CanBind(picked), result)
         /\ roleBinding' = IF Applied(result)
                           THEN [roleBinding EXCEPT ![picked] = TRUE]
                           ELSE roleBinding
         /\ IF result = "ok" THEN Goto("status", obj) ELSE Requeue
    /\ UNCHANGED <<nsVars, poolPlan, resVars, capiVars, now, pollerVars>>

\* With a bug: the status names the reservation.
ActivatedByName(o) == [o EXCEPT !.namespace = key, !.state = "active",
                                !.expiration = expirationTS]

\* The poller is told of the expiration before the status is stored.
Activated(o) == [o EXCEPT !.namespace = picked, !.state = "active",
                          !.expiration = expirationTS]

Activate ==
    /\ pc = "status"
    /\ Track(key, expirationTS)
    /\ \E result \in Results :
         /\ UpdateRes(Activated(obj), result)
         /\ IF result = "ok"
            THEN IF obj.finalizer
                 THEN Done
                 ELSE Goto("finalizer", NextVersion(key, Activated(obj)))
            ELSE Requeue
    /\ ResWriteUnchanged

AddFinalizer ==
    /\ pc = "finalizer"
    /\ \E result \in Results :
         /\ UpdateRes(WithFinalizer(obj), result)
         /\ IF result = "ok" THEN Done ELSE Requeue
    /\ UNCHANGED activeReservations
    /\ ResWriteUnchanged

-----------------------------------------------------------------------------
(***************************************************************************)
(* handleCAPICleanup: a reservation that is being deleted.                 *)
(***************************************************************************)
\* Removing the finalizer of an object with a deletion timestamp removes it.
Released(o) == NoReservation(o.rv)

AbandonUnassigned ==
    /\ pc = "abandon"
    /\ \E result \in Results :
         /\ UpdateRes(Released(obj), result)
         /\ IF result = "ok" THEN Done ELSE Requeue
    /\ UNCHANGED activeReservations
    /\ ResWriteUnchanged

Deleting(o) == [o EXCEPT !.state = "deleting"]

MarkDeleting ==
    /\ pc = "mark"
    /\ \/ /\ obj.state = "deleting"
          /\ Goto("drain", obj)
          /\ UNCHANGED <<res, resWatch, faults>>
       \/ /\ obj.state # "deleting"
          /\ \E result \in Results :
               /\ UpdateRes(Deleting(obj), result)
               /\ IF result = "ok"
                  THEN Goto("drain", NextVersion(key, Deleting(obj)))
                  ELSE Requeue
    /\ UNCHANGED activeReservations
    /\ ResWriteUnchanged

\* With a bug: a cluster that is being deleted is taken for gone.
RemainingRunning(n) == clusterCache[n] = "running"

\* DeleteCAPIResources: delete the clusters the cache shows; come back later
\* as long as there are any.  RemoveStuckROSAMachinePoolFinalizers, whose
\* machine pools are left out, may fail after it.
Remaining(n) == clusterCache[n] # "none"

DrainClusters ==
    /\ pc = "drain"
    /\ LET n == obj.namespace IN
       \E result \in Results :
         /\ Call(TRUE, result)
         /\ clusters' = IF /\ clusterCache[n] = "running"
                          /\ clusters[n] = "running"
                          /\ Applied(result)
                       THEN [clusters EXCEPT ![n] = "deleting"]
                       ELSE clusters
         /\ IF result = "ok" /\ ~Remaining(n)
            THEN Goto("release", obj) ELSE Requeue
    /\ UNCHANGED <<nsVars, poolPlan, roleBinding, resVars, clusterCache,
                   now, pollerVars>>

\* The last Update; that the object is gone already is not an error.
ReleaseFinalizer ==
    /\ pc = "release"
    /\ \E result \in Results :
         /\ UpdateRes(Released(obj), result)
         /\ IF result = "ok" \/ ~res[key].live THEN Done ELSE Requeue
    /\ UNCHANGED activeReservations
    /\ ResWriteUnchanged

-----------------------------------------------------------------------------
(***************************************************************************)
(* The work queue and the process.                                         *)
(***************************************************************************)
\* The informer delivers a version of r and enqueues its key.
ReservationEvent(r) ==
    /\ DeliverRes(r)
    /\ queue' = queue \cup {r}
    /\ UNCHANGED <<workerVars, pollerVars, poolPlan>>

\* The informer's periodic resync enqueues every key.  It is far rarer than
\* any other step: only a resync that finds nothing under way is of interest.
Resync(r) ==
    /\ resCache[r].live
    /\ pc = "idle" /\ r \notin queue /\ resWatch[r] = {}
    /\ queue' = queue \cup {r}
    /\ UNCHANGED <<workerVars, pollerVars, poolPlan, clusterVars>>

\* The operator dies and is restarted: caches are filled by a List, the
\* reservations they hold are enqueued, everything else in memory is lost.
Crash ==
    /\ faults > 0
    /\ faults' = faults - 1
    /\ nsCache' = ns
    /\ nsWatch' = [n \in Namespace |-> {}]
    /\ resCache' = res
    /\ resWatch' = [r \in Reservation |-> {}]
    /\ clusterCache' = clusters
    /\ queue' = {r \in Reservation : res[r].live}
    /\ Forget
    /\ poolPlan' = NoPlans
    /\ activeReservations' = [r \in Reservation |-> Untracked]
    /\ pollerPc' = "populate"
    /\ pollerKey' = NoKey
    /\ UNCHANGED <<ns, roleBinding, res, nextUid, clusters, now>>

WorkerStep ==
    \/ ActiveAddFinalizer
    \/ ActiveRefresh
    \/ DeleteExpiredWaiting
    \/ RejectDuration
    \/ AwaitNamespace
    \/ \E n \in Namespace : PickNamespace(n)
    \/ verifyClowdEnvForReadyNs
    \/ CopySecretsFails
    \/ ReserveNamespace
    \/ AddRoleBindings
    \/ Activate
    \/ AddFinalizer
    \/ AbandonUnassigned
    \/ MarkDeleting
    \/ DrainClusters
    \/ ReleaseFinalizer
=============================================================================
