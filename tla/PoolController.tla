--------------------------- MODULE PoolController ---------------------------
(***************************************************************************)
(* namespacepool_controller.go: the worker that reconciles one             *)
(* NamespacePool.  A reconcile counts the namespaces it sees in the        *)
(* informer cache, deletes those in error, then creates the missing ones   *)
(* one after the other or gives up some of those in excess, and stores the *)
(* counts in the pool's status.                                            *)
(***************************************************************************)
EXTENDS ClowdEnvController, PoolSizing

CONSTANTS
    Sizes,            \* the values users give to Spec.Size
    SizeLimit,        \* Spec.SizeLimit
    SyncedReconciles  \* does a reconcile only start when the cache is current?

\* The names CreateNamespace draws are finitely many: six random characters.
ASSUME PoolControllerAssumption ==
    /\ IsFiniteSet(Namespace)
    /\ Sizes \subseteq Nat
    /\ SizeLimit \in Nat \cup {NoLimit}
    /\ SyncedReconciles \in BOOLEAN

VARIABLES
    poolSize,    \* Spec.Size
    poolQueued,  \* the pool is in the work queue
    poolStatus,  \* the pool's status on the API server
    provisioned, \* the namespaces that got their limits, quotas and secrets
    poolPc,      \* the next step of the reconcile in progress
    counts,      \* the status it will store
    errNamespaceList,
    delta,       \* namespaces still to create (> 0) or to give up (< 0)
    nsName,      \* the namespace in hand
    poolCurrent  \* its copy of the pool is current

poolWorkerVars == <<poolPc, counts, errNamespaceList, delta, nsName, poolCurrent>>
\* What a namespace was given.
belongings == <<clowdEnvs, provisioned>>
poolVars == <<poolSize, poolQueued, poolStatus, provisioned, poolWorkerVars>>
\* What a step that only writes a namespace leaves alone.
beyondNs == <<poolSize, poolStatus, nsCache, roleBinding, resVars, capiVars, now,
              belongings>>

PoolSteps == {"idle", "mark", "delete", "create", "own", "clowdenv", "provision",
              "ready", "undo", "retire", "status"}

Counts == [ready : Nat, creating : Nat, reserved : Nat]

ZeroCounts == [ready |-> 0, creating |-> 0, reserved |-> 0]

PoolTypeOK ==
    /\ poolSize \in Nat
    /\ poolQueued \in BOOLEAN
    /\ poolStatus \in Counts
    /\ provisioned \in SUBSET Namespace
    /\ poolPc \in PoolSteps
    /\ counts \in Counts
    /\ errNamespaceList \in SUBSET Namespace
    /\ delta \in Int
    /\ nsName \in Namespace \cup {NoNamespace}
    /\ poolCurrent \in BOOLEAN

PoolInit ==
    /\ poolSize \in Sizes
    /\ poolQueued = TRUE
    /\ poolStatus = ZeroCounts
    /\ provisioned = {}
    /\ poolPc = "idle"
    /\ counts = ZeroCounts
    /\ errNamespaceList = {}
    /\ delta = 0
    /\ nsName = NoNamespace
    /\ poolCurrent = TRUE

(***************************************************************************)
(* getPoolStatus: the namespaces with the pool's label, by owner and       *)
(* env-status.                                                             *)
(***************************************************************************)
Pooled(cache, env) == {n \in Namespace : OwnedByPool(cache[n]) /\ cache[n].env = env}
CheckedOut(cache)  == {n \in Namespace : Exists(cache[n]) /\ IsReservationUid(cache[n].owner)}

\* With a bug: namespaces in error are subtracted from the ready ones.
PoolCountsMinusErrors(cache) ==
    [ready    |-> Cardinality(Pooled(cache, "ready")) - Cardinality(Pooled(cache, "error")),
     creating |-> Cardinality(Pooled(cache, "creating")),
     reserved |-> Cardinality(CheckedOut(cache))]

PoolCounts(cache) == [ready    |-> Cardinality(Pooled(cache, "ready")),
                      creating |-> Cardinality(Pooled(cache, "creating")),
                      reserved |-> Cardinality(CheckedOut(cache))]

\* getNamespaceQuantityDelta
QuantityDelta(c) ==
    CalculateNamespaceQuantityDelta(SizeLimit, poolSize, c.ready, c.creating, c.reserved)

Total(c) == c.ready + c.creating + c.reserved

\* With a bug: nothing is ever given up.
SizeStepUpOnly(d) == IF d > 0 THEN "create" ELSE "status"

\* What a reconcile does once no namespace in error is left.
SizeStep(d) == IF d > 0 THEN "create" ELSE IF d < 0 THEN "retire" ELSE "status"

EndReconcile(again) ==
    /\ poolPc' = "idle"
    /\ counts' = ZeroCounts
    /\ errNamespaceList' = {}
    /\ delta' = 0
    /\ nsName' = NoNamespace
    /\ poolCurrent' = TRUE
    /\ poolQueued' = (poolQueued \/ again)

PoolReconcile ==
    /\ poolPc = "idle" /\ poolQueued
    /\ SyncedReconciles => \A n \in Namespace : nsWatch[n] = {}
    /\ poolQueued' = FALSE
    /\ counts' = PoolCounts(nsCache)
    /\ errNamespaceList' = Pooled(nsCache, "error")
    /\ delta' = QuantityDelta(PoolCounts(nsCache))
    /\ poolPc' = IF Pooled(nsCache, "error") = {}
                 THEN SizeStep(QuantityDelta(PoolCounts(nsCache))) ELSE "mark"
    /\ UNCHANGED <<poolSize, poolStatus, nsName, poolCurrent, clusterVars, belongings>>

(***************************************************************************)
(* deleteErrorNamespaces: DeleteNamespace marks each one with the          *)
(* env-status deleting and deletes it.  The first failure ends the         *)
(* reconcile.                                                              *)
(***************************************************************************)
MarkErrorNamespace(n) ==
    /\ poolPc = "mark"
    /\ n \in errNamespaceList
    /\ \E result \in Results :
         /\ UpdateAnnotations(n, "deleting", result)
         /\ IF result = "ok"
            THEN /\ poolPc' = "delete"
                 /\ nsName' = n
                 /\ UNCHANGED <<poolQueued, counts, errNamespaceList, delta, poolCurrent>>
            ELSE EndReconcile(TRUE)
    /\ UNCHANGED beyondNs

\* With a bug: the namespace is marked and not deleted.
ForgetErrorNamespace ==
    /\ poolPc = "delete"
    /\ errNamespaceList' = errNamespaceList \ {nsName}
    /\ poolPc' = IF errNamespaceList' = {} THEN SizeStep(delta) ELSE "mark"
    /\ nsName' = NoNamespace
    /\ UNCHANGED <<poolQueued, counts, delta, poolCurrent, poolSize, poolStatus,
                   clusterVars, belongings>>

DeleteErrorNamespace ==
    /\ poolPc = "delete"
    /\ \E result \in Results :
         /\ DeleteNs(nsName, result)
         /\ IF result = "ok"
            THEN /\ errNamespaceList' = errNamespaceList \ {nsName}
                 /\ poolPc' = IF errNamespaceList' = {} THEN SizeStep(delta) ELSE "mark"
                 /\ nsName' = NoNamespace
                 /\ UNCHANGED <<poolQueued, counts, delta, poolCurrent>>
            ELSE EndReconcile(TRUE)
    /\ UNCHANGED beyondNs

-----------------------------------------------------------------------------
(***************************************************************************)
(* increaseReadyNamespacesQueue.  The error of CreateNamespace is only     *)
(* logged.                                                                 *)
(***************************************************************************)
InHand(step) ==
    poolPc' = step /\ UNCHANGED <<poolQueued, counts, errNamespaceList, delta,
                                  nsName, poolCurrent>>

NextNamespace ==
    /\ delta' = delta - 1
    /\ poolPc' = IF delta > 1 THEN "create" ELSE "status"
    /\ nsName' = NoNamespace
    /\ UNCHANGED <<poolQueued, counts, errNamespaceList, poolCurrent>>

CreateNamespace(n) ==
    /\ poolPc = "create"
    /\ ns[n].phase = "Absent"
    /\ \E result \in Results :
         /\ Call(TRUE, result)
         /\ IF Applied(result)
            THEN WriteNs(n, EmptyNs)
            ELSE UNCHANGED <<ns, nsWatch>>
    /\ poolPc' = "own"
    /\ nsName' = n
    /\ UNCHANGED <<poolSize, poolQueued, poolStatus, counts, errNamespaceList,
                   delta, poolCurrent, nsCache, roleBinding, resVars, capiVars, now, belongings>>

\* The creation of a namespace is refused for good: it is not found by
\* UpdateNamespaceResources, and deleting the nameless object fails.
CreateRefused ==
    /\ poolPc = "create"
    /\ \A n \in Namespace : ns[n].phase # "Absent"
    /\ EndReconcile(TRUE)
    /\ UNCHANGED <<poolSize, poolStatus, clusterVars, belongings>>

(***************************************************************************)
(* UpdateNamespaceResources, its first part: the namespace is given its    *)
(* label, its annotations and its owner.  If it cannot be read, what is    *)
(* returned (and then deleted) is an object without a name, and the        *)
(* reconcile ends; if it cannot be updated it is deleted.                  *)
(***************************************************************************)
OwnNamespace ==
    /\ poolPc = "own"
    /\ \E result \in Results :
         /\ Retried(nsName, result)
         /\ IF Applied(result)
            THEN WriteNs(nsName, Owned(nsCache[nsName]))
            ELSE UNCHANGED <<ns, nsWatch>>
         /\ \/ result = "ok" /\ InHand(IF ClowderPool THEN "clowdenv" ELSE "provision")
            \/ result # "ok" /\ Exists(nsCache[nsName]) /\ InHand("undo")
            \/ result = "failed" /\ EndReconcile(TRUE)
    /\ UNCHANGED beyondNs

\* Then the ClowdEnvironment of a pool with Clowder is created.
ProvideClowdEnv ==
    /\ poolPc = "clowdenv"
    /\ \E result \in Results :
         /\ Call(Exists(nsCache[nsName]), result)
         /\ IF Applied(result) THEN CreateClowdEnv(nsName) ELSE UNCHANGED clowdEnvs
         /\ InHand(IF result = "ok" THEN "provision" ELSE "undo")
    /\ UNCHANGED <<poolSize, poolStatus, provisioned, nsVars, roleBinding, resVars,
                   capiVars, now>>

\* With a bug: a failure to provision is only logged.
ProvisionAnyway ==
    /\ poolPc = "provision"
    /\ \E result \in {"ok", "failed"} :
         /\ Call(ns[nsName].phase = "Active", result)
         /\ provisioned' = IF result = "ok" THEN provisioned \cup {nsName} ELSE provisioned
    /\ IF ClowderPool THEN NextNamespace ELSE InHand("ready")
    /\ UNCHANGED <<poolSize, poolStatus, clowdEnvs, nsVars, roleBinding, resVars,
                   capiVars, now>>

\* Its last part: the LimitRange, the quotas and the secrets, which a namespace
\* that is terminating refuses.  A pool without Clowder then marks it ready.
ProvisionNamespace ==
    /\ poolPc = "provision"
    /\ \E result \in {"ok", "failed"} :
         /\ Call(ns[nsName].phase = "Active", result)
         /\ IF result = "ok"
            THEN /\ provisioned' = provisioned \cup {nsName}
                 /\ IF ClowderPool THEN NextNamespace ELSE InHand("ready")
            ELSE InHand("undo") /\ UNCHANGED provisioned
    /\ UNCHANGED <<poolSize, poolStatus, clowdEnvs, nsVars, roleBinding, resVars,
                   capiVars, now>>

MarkReady ==
    /\ poolPc = "ready"
    /\ \E result \in Results :
         /\ UpdateAnnotations(nsName, "ready", result)
         /\ IF result = "ok" THEN NextNamespace ELSE InHand("undo")
    /\ UNCHANGED beyondNs

\* A namespace whose set-up failed is deleted and not replaced until the next
\* reconcile; if that fails too the reconcile ends.
UndoNamespace ==
    /\ poolPc = "undo"
    /\ \E result \in Results :
         /\ DeleteNs(nsName, result)
         /\ IF result = "ok" THEN NextNamespace ELSE EndReconcile(TRUE)
    /\ UNCHANGED beyondNs

-----------------------------------------------------------------------------
(***************************************************************************)
(* decreaseReadyNamespacesQueue.  The list is read once, and every round   *)
(* of the loop marks the first namespace of that list that was ready and   *)
(* not reserved: always the same one.                                      *)
(***************************************************************************)
NotReserved == {n \in GetReadyNamespaces : ~nsCache[n].reserved}

PickExcess ==
    /\ poolPc = "retire" /\ nsName = NoNamespace
    /\ IF NotReserved = {}
       THEN delta' = 0 /\ poolPc' = "status" /\ UNCHANGED nsName
       ELSE nsName' \in NotReserved /\ UNCHANGED <<delta, poolPc>>
    /\ UNCHANGED <<poolSize, poolQueued, poolStatus, counts, errNamespaceList,
                   poolCurrent, clusterVars, belongings>>

MarkExcess ==
    /\ poolPc = "retire" /\ nsName # NoNamespace
    /\ \E result \in Results :
         /\ UpdateAnnotations(nsName, "error", result)
         /\ IF result = "ok"
            THEN /\ delta' = delta + 1
                 /\ poolPc' = IF delta < -1 THEN "retire" ELSE "status"
                 /\ UNCHANGED <<poolQueued, counts, errNamespaceList, nsName,
                                poolCurrent>>
            ELSE EndReconcile(TRUE)
    /\ UNCHANGED beyondNs

\* The update conflicts if the pool was edited meanwhile, and is an event of
\* the pool if it changes anything.
UpdatePoolStatus ==
    /\ poolPc = "status"
    /\ \E result \in Results :
         /\ Call(poolCurrent, result)
         /\ poolStatus' = IF Applied(result) THEN counts ELSE poolStatus
         /\ EndReconcile(result # "ok" \/ poolStatus' # poolStatus)
    /\ UNCHANGED <<poolSize, nsVars, roleBinding, resVars, capiVars, now, belongings>>

-----------------------------------------------------------------------------
\* A user resizes the pool.
ResizePool(s) ==
    /\ s # poolSize
    /\ poolSize' = s
    /\ poolQueued' = TRUE
    /\ poolCurrent' = (poolPc = "idle")
    /\ UNCHANGED <<poolStatus, poolPc, counts, errNamespaceList, delta, nsName,
                   clusterVars, belongings>>

\* EnqueueNamespace: an event of a namespace with the pool's label.
NamespaceEvent(n) ==
    /\ DeliverNs(n)
    /\ poolQueued' = (poolQueued \/ nsCache'[n].owner # NoOwner)
    /\ UNCHANGED <<poolSize, poolStatus, poolWorkerVars, belongings>>

\* The operator dies and is restarted.
PoolCrash ==
    /\ faults > 0
    /\ faults' = faults - 1
    /\ nsCache' = ns
    /\ nsWatch' = [n \in Namespace |-> {}]
    /\ EndReconcile(TRUE)
    /\ RestartEnvController
    /\ UNCHANGED <<poolSize, poolStatus, provisioned, ns, roleBinding, resVars, capiVars, now>>

PoolWorkerStep ==
    \/ PoolReconcile
    \/ \E n \in Namespace : MarkErrorNamespace(n)
    \/ DeleteErrorNamespace
    \/ \E n \in Namespace : CreateNamespace(n)
    \/ CreateRefused
    \/ OwnNamespace
    \/ ProvideClowdEnv
    \/ ProvisionNamespace
    \/ MarkReady
    \/ UndoNamespace
    \/ PickExcess
    \/ MarkExcess
    \/ UpdatePoolStatus
=============================================================================
