------------------------- MODULE ReservationSystem -------------------------
(***************************************************************************)
(* The reservation controller, the poller, the pool (abstracted) and the   *)
(* users, running against one API server.                                  *)
(***************************************************************************)
EXTENDS ReservationController

CONSTANT
    MaxVersion  \* bound: the version up to which a namespace is marked by the
                \* ClowdEnvironment controller

ASSUME ReservationSystemAssumption == MaxVersion \in Nat

vars == <<clusterVars, poolPlan, pollerVars, controllerVars>>

operatorVars == <<poolPlan, pollerVars, controllerVars>>

Init ==
    /\ ClusterInit
    /\ PoolAbstractionInit
    /\ PollerInit
    /\ ControllerInit

UserStep(r) ==
    \/ \E d \in Durations : CreateReservation(r, d)
    \/ \E d \in Durations : EditDuration(r, d)
    \/ DeleteReservation(r)
    \/ DeployCluster(r)

ClusterStep(n) ==
    \/ DeliverNs(n)
    \/ GarbageCollect(n)
    \/ FinalizeNamespace(n)
    \/ ClusterRemoved(n)
    \/ DeliverCluster(n)

PollerStep ==
    \/ populateActiveReservations
    \/ \E r \in Reservation : PollExpired(r)
    \/ PollDelete

Next ==
    \/ \E r \in Reservation : UserStep(r) /\ UNCHANGED operatorVars
    \/ \E n \in Namespace : ClusterStep(n) /\ UNCHANGED operatorVars
    \/ Tick /\ UNCHANGED operatorVars
    \/ /\ \/ \E n \in Namespace : PoolStep(n) \/ (ns[n].rv < MaxVersion /\ EnvStep(n))
          \/ PlanDelete
       /\ UNCHANGED <<pollerVars, controllerVars>>
    \/ PollerStep /\ UNCHANGED <<poolPlan, controllerVars>>
    \/ \E r \in Reservation : Reconcile(r) \/ ReservationEvent(r) \/ Resync(r)
    \/ WorkerStep
    \/ Crash

Spec == Init /\ [][Next]_vars

(***************************************************************************)
(* Fairness.  The worker and the poller are goroutines that keep running;  *)
(* the work queue and Go's map iteration come back to every key; watches,  *)
(* the garbage collector and the clock make progress; the informer resyncs *)
(* periodically.  Users, faults and crashes are not fair.                  *)
(***************************************************************************)
Fairness ==
    /\ WF_vars(WorkerStep)
    /\ \A r \in Reservation :
         /\ SF_vars(Reconcile(r))
         /\ WF_vars(ReservationEvent(r))
         /\ SF_vars(Resync(r))
         /\ SF_vars(PollExpired(r) /\ UNCHANGED <<poolPlan, controllerVars>>)
    /\ WF_vars(populateActiveReservations /\ UNCHANGED <<poolPlan, controllerVars>>)
    /\ WF_vars(PollDelete /\ UNCHANGED <<poolPlan, controllerVars>>)
    /\ \A n \in Namespace : WF_vars(ClusterStep(n) /\ UNCHANGED operatorVars)
    /\ WF_vars(Tick /\ UNCHANGED operatorVars)

FairSpec == Spec /\ Fairness

-----------------------------------------------------------------------------
TypeOK ==
    /\ ClusterTypeOK
    /\ PoolAbstractionTypeOK
    /\ PollerTypeOK
    /\ ControllerTypeOK

Assigned(r) == res[r].live /\ res[r].namespace # NoNamespace

\* No namespace is given to two reservations at a time, although the
\* controller picks it from a stale list (GetReadyNamespaces) and takes it
\* without looking at its owner again (reserveNamespace).
ExclusiveAssignment ==
    \A r1, r2 \in Reservation :
        Assigned(r1) /\ Assigned(r2) /\ res[r1].namespace = res[r2].namespace
            => r1 = r2

(***************************************************************************)
(* Why it holds.  Copies of a reservation that carry its current version   *)
(* are equal to it, so an Update never overwrites what its author has not  *)
(* seen; a namespace is assigned only after its rolebinding was created;   *)
(* and between the creation and the assignment only the worker that        *)
(* created it can assign the namespace.                                    *)
(***************************************************************************)
Agrees(copy, o) == copy.rv =< o.rv /\ (copy.rv = o.rv => copy = o)

VersionsAgree ==
    \A r \in Reservation :
        \A copy \in resWatch[r] \cup {resCache[r]} : Agrees(copy, res[r])

WorkerCopyAgrees == pc # "idle" => Agrees(obj, res[key])

AssignedIsBound ==
    \A r \in Reservation : Assigned(r) => roleBinding[res[r].namespace]

PickedIsNamespace ==
    pc \in {"verify", "reserve", "bind", "status"} => picked \in Namespace

BoundForPicked ==
    pc = "status" =>
        /\ roleBinding[picked]
        /\ \A r \in Reservation : Assigned(r) => res[r].namespace # picked

\* The inductive strengthening of ExclusiveAssignment.
AssignmentInv ==
    /\ VersionsAgree
    /\ WorkerCopyAgrees
    /\ AssignedIsBound
    /\ PickedIsNamespace
    /\ BoundForPicked
    /\ ExclusiveAssignment

(***************************************************************************)
(* The refinement of Checkout.  A namespace is fresh until its rolebinding *)
(* is created, and for the worker that created it until it has stored the  *)
(* assignment or given up.                                                 *)
(***************************************************************************)
Fresh == {n \in Namespace : ~roleBinding[n] \/ (pc = "status" /\ picked = n)}

StageOf(o) == CASE ~o.live -> "absent"
                [] o.live /\ o.namespace = NoNamespace -> "requested"
                [] o.live /\ o.namespace # NoNamespace /\ o.state = "active" -> "lent"
                [] OTHER -> "returning"

Abstract == INSTANCE Checkout WITH
    stage <- [r \in Reservation |-> StageOf(res[r])],
    lease <- [r \in Reservation |-> res[r].namespace],
    fresh <- Fresh

\* Through stale caches, retries, failures and crashes, a reservation is lent
\* one namespace and keeps it, and a namespace is lent once: one that was
\* taken and lost half way (a failed status update, line 222) is never lent.
ImplementsCheckout == Abstract!Spec

\* The namespace the worker is about to take.
Taking == IF pc \in {"verify", "reserve"} THEN picked ELSE NoNamespace

CheckOuts == INSTANCE CheckOutAbstraction WITH
    PromptCheckOuts <- FALSE,
    taking <- Taking

\* Whatever the reservation controller does to namespaces, the pool controller
\* is told to expect: it goes through steps of CheckOutAbstraction, which takes
\* only what was ready in the cache when it was picked, for a reservation.
ImplementsCheckOuts ==
    [][\/ \E n \in Namespace : CheckOuts!Pick(n)
       \/ CheckOuts!Condemn
       \/ CheckOuts!Take(obj.uid)
       \/ CheckOuts!LetGo
       \/ /\ UNCHANGED Taking
          /\ \/ UNCHANGED nsVars
             \/ PlanDelete
             \/ \E n \in Namespace : PoolStep(n) \/ EnvStep(n) \/ ClusterStep(n)
       \/ Crash]_vars

\* A reservation with the cleanup finalizer has a namespace: the finalizer
\* is added only after Status.Namespace is persisted (line 227).
FinalizerHasNamespace ==
    \A r \in Reservation :
        res[r].live /\ res[r].finalizer => res[r].namespace # NoNamespace

Rank(state) == CASE state = "" -> 0 [] state = "waiting" -> 1
                 [] state = "active" -> 2 [] state = "deleting" -> 3

\* Whatever stale copy a reconcile works on, a reservation keeps the
\* namespace it was given, and its state never goes back.
AssignmentStable ==
    [][\A r \in Reservation :
          res[r].live /\ res'[r].live /\ res'[r].uid = res[r].uid =>
             /\ Rank(res'[r].state) >= Rank(res[r].state)
             /\ Assigned(r) => res'[r].namespace = res[r].namespace]_vars

\* A namespace that was reserved is never back in the pool: every write of
\* the pool controller and of UpdateAnnotations is based on the current
\* version.
NeverBackToPool ==
    [][\A n \in Namespace :
          IsReservationUid(ns[n].owner) => IsReservationUid(ns'[n].owner)]_vars

\* When the finalizer is removed, no CAPI cluster of the namespace is still
\* being deleted (capi.go:18-20).
DrainCompleted ==
    [][\A r \in Reservation :
          Assigned(r) /\ res[r].finalizer /\ ~(res'[r].live /\ res'[r].finalizer)
             => clusters[res[r].namespace] # "deleting"]_vars

Expired(r) == /\ res[r].live
              /\ res[r].duration \in Nat
              /\ res[r].created + res[r].duration =< now

\* Whatever the poller and the controller lose on the way (a dropped map
\* entry, a failed Delete, a crash), an expired reservation is removed or
\* prolonged in the end.
ExpiredReclaimed ==
    \A r \in Reservation, u \in 1..MaxUid :
        Expired(r) /\ res[r].uid = u ~> ~(Expired(r) /\ res[r].uid = u)

Unserved(r) == /\ res[r].live /\ ~res[r].deleting
               /\ res[r].duration \in Nat /\ ~Expired(r)
               /\ ~Assigned(r)

Available == \E n \in Namespace : IsReady(ns[n]) /\ ns[n].phase = "Active"

\* A reservation does not wait forever beside a ready namespace.
ReadyServed ==
    \A r \in Reservation : Unserved(r) /\ Available ~> ~(Unserved(r) /\ Available)

-----------------------------------------------------------------------------
(***************************************************************************)
(* What the documentation and comments say and the code does not ensure:   *)
(* each is violated in a run of its own.                                   *)
(***************************************************************************)
\* The namespace of an active reservation is owned by it, so that it is
\* deleted with it and not before (reserveNamespace, lines 344-345).
ActiveOwnsNamespace ==
    \A r \in Reservation :
        Assigned(r) /\ res[r].state = "active"
            => ns[res[r].namespace].owner = res[r].uid

\* The poller deletes expired reservations only (poller.go:15).
PollerDeletesOnlyExpired ==
    [][\A r \in Reservation :
          pollerPc = "delete" /\ pollerPc' = "scan" /\ res'[r] # res[r]
              => Expired(r)]_vars
=============================================================================
