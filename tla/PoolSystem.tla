----------------------------- MODULE PoolSystem -----------------------------
(***************************************************************************)
(* The pool controller, the ClowdEnvironment controller, which marks the   *)
(* new namespaces of a pool with ClowdEnvironments ready, the reservation  *)
(* controller (abstracted), which checks ready namespaces out, the garbage *)
(* collector, and users who resize the pool.                               *)
(***************************************************************************)
EXTENDS PoolController, CheckOutAbstraction

poolSystemVars == <<clusterVars, envVars, poolVars, taking>>

Init == ClusterInit /\ EnvInit /\ PoolInit /\ CheckOutInit

\* The reservations themselves are left out: one may end at any time, and then
\* the namespace is collected.
CheckOut ==
    \/ \E n \in Namespace : Pick(n)
    \/ Condemn
    \/ \E uid \in 1..MaxUid : Take(uid)
    \/ LetGo

Collect(n) ==
    \/ GarbageCollect(n)
    \/ FinalizeNamespace(n)

Next ==
    \/ PoolWorkerStep /\ UNCHANGED <<envWorkerVars, taking>>
    \/ EnvWorkerStep /\ UNCHANGED <<poolVars, taking>>
    \/ \E n \in Namespace : NamespaceEvent(n) /\ UNCHANGED <<envWorkerVars, taking>>
    \/ \E n \in Namespace : EnvEvent(n) /\ UNCHANGED <<poolVars, taking>>
    \/ CheckOut /\ UNCHANGED <<poolVars, envVars>>
    \/ \E n \in Namespace : Collect(n) /\ UNCHANGED <<poolVars, envVars, taking>>
    \/ \E s \in Sizes : ResizePool(s) /\ UNCHANGED <<envWorkerVars, taking>>
    \/ PoolCrash /\ taking' = NoNamespace

Spec == Init /\ [][Next]_poolSystemVars

\* The workers keep running, watches deliver, a ClowdEnvironment gets ready,
\* and the cluster finishes what it has begun.  Check-outs are not fair.
Fairness ==
    /\ WF_poolSystemVars(PoolWorkerStep /\ UNCHANGED <<envWorkerVars, taking>>)
    /\ WF_poolSystemVars(/\ \/ CreateFrontendEnv \/ CreateShimServices
                            \/ EnvMarkError \/ EnvMarkReady
                         /\ UNCHANGED <<poolVars, taking>>)
    /\ \A n \in Namespace :
         /\ SF_poolSystemVars(EnvReconcile(n) /\ UNCHANGED <<poolVars, taking>>)
         /\ WF_poolSystemVars(NamespaceEvent(n) /\ UNCHANGED <<envWorkerVars, taking>>)
         /\ WF_poolSystemVars(/\ EnvEvent(n) /\ envEvents[n] = MaxEnvEvents
                              /\ UNCHANGED <<poolVars, taking>>)
         /\ WF_poolSystemVars(FinalizeNamespace(n) /\ UNCHANGED <<poolVars, envVars, taking>>)

FairSpec == Spec /\ Fairness

-----------------------------------------------------------------------------
TypeOK == ClusterTypeOK /\ EnvTypeOK /\ PoolTypeOK /\ CheckOutTypeOK

HasLimit == SizeLimit # NoLimit

\* The total number of namespaces (ready, creating and reserved) stays within
\* the pool's sizeLimit.
SizeLimitRespected ==
    HasLimit => Total(PoolCounts(ns)) =< SizeLimit

Failures == MaxFaults - faults

\* There are never more namespaces than sizeLimit, but one for each call or
\* operator that has failed: whatever their annotations say, however old the
\* counts of a reconcile are, and although a set-up that fails, or is not
\* undone, leaves a namespace that is in no count.
ExcessOnlyByFailures ==
    HasLimit =>
        Cardinality({n \in Namespace : ns[n].phase = "Active"}) =< SizeLimit + Failures

\* Neither controller ever puts a namespace that was checked out back into
\* the pool, whatever they saw of it in the cache before.
NeverBackToPool ==
    [][\A n \in Namespace :
          IsReservationUid(ns[n].owner) => IsReservationUid(ns'[n].owner)]_poolSystemVars

\* A namespace that is offered to users was given its limits, quotas and
\* secrets, whatever failed and wherever the operator died while setting it
\* up (UpdateNamespaceResources).
ReadyIsProvisioned ==
    \A n \in Namespace : IsReady(ns[n]) => n \in provisioned

\* A namespace of a pool with Clowder goes from creating to ready only with its
\* FrontendEnvironment: one for which that could not be created is marked as
\* being in error first, whatever fails and wherever the operator dies, although
\* the same reconcile then marks it ready (clowdenvironment_controller.go:79-87).
FrontendBeforeReady ==
    [][\A n \in Namespace :
          ClowderPool /\ ns[n].env = "creating" /\ ns'[n].env = "ready"
              => n \in frontendEnvs]_poolSystemVars

\* A namespace of the pool that is in error is deleted in the end, unless its
\* ClowdEnvironment gets ready after all, or a reservation takes it that has
\* picked it before.
ErrorNamespacesDeleted ==
    \A n \in Namespace :
        OwnedByPool(ns[n]) /\ ns[n].env = "error"
            ~> \/ ns[n].phase # "Active" \/ ns[n].env = "ready"
               \/ ~OwnedByPool(ns[n])

\* A namespace that is being set up gets ready, or is given up.
NamespacesGetReady ==
    \A n \in Namespace :
        OwnedByPool(ns[n]) /\ ns[n].env = "creating" ~> ns[n].env # "creating"

\* What the worker of the pool has in mind for a namespace.
PlanFor(n) ==
    IF poolPc \in {"mark", "delete"} /\ n \in errNamespaceList /\ n # nsName THEN "mark"
    ELSE IF n # nsName THEN "none"
    ELSE CASE poolPc = "own" -> "own"
           [] poolPc \in {"clowdenv", "provision", "ready"} -> "prepare"
           [] poolPc = "retire" -> "retire"
           [] poolPc \in {"delete", "undo"} -> "delete"
           [] OTHER -> "none"

PoolPlans == [n \in Namespace |-> PlanFor(n)]

Pool == INSTANCE PoolAbstraction WITH Excess <- Namespace, poolPlan <- PoolPlans

\* Whatever the pool controller and the ClowdEnvironment controller do to
\* namespaces, the reservation controller is told to expect: they go through
\* steps of PoolAbstraction, which marks and deletes only what was planned while
\* the cache showed that it was right.
ImplementsPool ==
    [][\/ Pool!PlanDelete
       \/ \E n \in Namespace : Pool!PoolStep(n) \/ Pool!EnvStep(n)
       \/ /\ UNCHANGED PoolPlans
          /\ \/ UNCHANGED nsVars
             \/ CheckOut
             \/ \E n \in Namespace : DeliverNs(n) \/ Collect(n)
       \/ PoolCrash]_poolSystemVars

Exhausted == \A n \in Namespace : ns[n].phase # "Absent"

\* Again and again the pool is neither short of namespaces nor has it too
\* many, whatever is checked out, fails to come up, or is resized.
PoolSizeReached ==
    []<>(\/ QuantityDelta(PoolCounts(ns)) = 0
         \/ QuantityDelta(PoolCounts(ns)) > 0 /\ Exhausted
         \/ QuantityDelta(PoolCounts(ns)) < 0 /\ Pooled(ns, "ready") = {})
=============================================================================
