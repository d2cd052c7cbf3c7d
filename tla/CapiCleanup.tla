---------------------------- MODULE CapiCleanup ----------------------------
(***************************************************************************)
(* The end of a reservation with CAPI clusters in its namespace:           *)
(* handleCAPICleanup and the helpers of helpers/capi.go that it calls      *)
(* every ten seconds until no cluster is left.  ReservationController has  *)
(* the same reconcile with one cluster and without machine pools.          *)
(*                                                                         *)
(* Clusters are listed in the informer cache; machine pools, and the       *)
(* cluster a machine pool belongs to, are unstructured objects, which the  *)
(* client reads from the API server.  Every machine pool carries the label *)
(* of its cluster.                                                         *)
(***************************************************************************)
EXTENDS ApiCalls

CONSTANTS
    CapiCluster,
    MachinePool,
    ClusterOf,             \* ClusterOf[p]: the label of machine pool p
    stuckDeletionThreshold \* in clock units

ASSUME CapiCleanupAssumption ==
    /\ ClusterOf \in [MachinePool -> CapiCluster]
    /\ stuckDeletionThreshold \in Nat \ {0}

VARIABLES
    ending,     \* the reservation's deletion: "no", "deleting", "released"
    capi,       \* capi[c]: cluster c on the API server; a cluster that is
                \* "waiting" reports WaitingForWorkersDeletion
    capiSeen,   \* the clusters in the informer cache
    pool,       \* pool[p]: machine pool p; "finished" by its controller, or
                \* "forced" by the operator
    age,        \* age[p]: how long p has been deleting
    cleanPc,    \* the next step of the reconcile in progress
    remaining,  \* clusters were found by it
    stuck       \* the machine pools it found stuck and has not looked at

capiObjects == <<capi, capiSeen, pool, age>>
cleanVars == <<cleanPc, remaining, stuck>>
cleanupVars == <<ending, capiObjects, cleanVars>>

CapiTypeOK ==
    /\ ending \in {"no", "deleting", "released"}
    /\ capi \in [CapiCluster -> {"none", "running", "deleting", "waiting", "gone"}]
    /\ capiSeen \in SUBSET CapiCluster
    /\ pool \in [MachinePool -> {"none", "present", "deleting", "finished", "forced"}]
    /\ age \in [MachinePool -> 0..stuckDeletionThreshold]
    /\ cleanPc \in {"idle", "pools", "force", "release"}
    /\ remaining \in BOOLEAN
    /\ stuck \in SUBSET MachinePool

CapiInit ==
    /\ ending = "no"
    /\ capi = [c \in CapiCluster |-> "none"]
    /\ capiSeen = {}
    /\ pool = [p \in MachinePool |-> "none"]
    /\ age = [p \in MachinePool |-> 0]
    /\ cleanPc = "idle"
    /\ remaining = FALSE
    /\ stuck = {}

Existing(c) == capi[c] \in {"running", "deleting", "waiting"}
PoolsOf(c) == {p \in MachinePool : ClusterOf[p] = c}
Alive(p) == pool[p] \in {"present", "deleting"}

-----------------------------------------------------------------------------
(***************************************************************************)
(* The user and the CAPI controllers.  These need a secret of the          *)
(* namespace, which goes when the namespace does (capi.go:18-20).          *)
(***************************************************************************)
InNamespace == ending # "released"

DeployCluster(c) ==
    /\ ending = "no" /\ capi[c] = "none"
    /\ capi' = [capi EXCEPT ![c] = "running"]
    /\ pool' = [p \in MachinePool |-> IF ClusterOf[p] = c THEN "present" ELSE pool[p]]
    /\ UNCHANGED <<ending, capiSeen, age, cleanVars, faults>>

DeleteReservation ==
    /\ ending = "no"
    /\ ending' = "deleting"
    /\ UNCHANGED <<capiObjects, cleanVars, faults>>

DeliverClusters ==
    /\ capiSeen # {c \in CapiCluster : Existing(c)}
    /\ capiSeen' = {c \in CapiCluster : Existing(c)}
    /\ UNCHANGED <<ending, capi, pool, age, cleanVars, faults>>

\* The cluster's controller deletes its machine pools and waits for them.
WaitForWorkers(c) ==
    /\ InNamespace /\ capi[c] = "deleting"
    /\ \E p \in PoolsOf(c) : Alive(p)
    /\ capi' = [capi EXCEPT ![c] = "waiting"]
    /\ pool' = [p \in MachinePool |-> IF p \in PoolsOf(c) /\ pool[p] = "present"
                                      THEN "deleting" ELSE pool[p]]
    /\ UNCHANGED <<ending, capiSeen, age, cleanVars, faults>>

\* The machine pool's controller may also fail to do so, for good.
FinishPool(p) ==
    /\ InNamespace /\ pool[p] = "deleting"
    /\ pool' = [pool EXCEPT ![p] = "finished"]
    /\ UNCHANGED <<ending, capi, capiSeen, age, cleanVars, faults>>

FinishCluster(c) ==
    /\ InNamespace /\ capi[c] \in {"deleting", "waiting"}
    /\ \A p \in PoolsOf(c) : ~Alive(p)
    /\ capi' = [capi EXCEPT ![c] = "gone"]
    /\ UNCHANGED <<ending, capiSeen, pool, age, cleanVars, faults>>

\* Somebody removes a cluster that does not go away, but not its machine pools.
LoseCluster(c) ==
    /\ InNamespace /\ capi[c] = "waiting"
    /\ capi' = [capi EXCEPT ![c] = "gone"]
    /\ UNCHANGED <<ending, capiSeen, pool, age, cleanVars, faults>>

Young(p) == pool[p] = "deleting" /\ age[p] < stuckDeletionThreshold

TimePasses ==
    /\ \E p \in MachinePool : Young(p)
    /\ age' = [p \in MachinePool |-> IF Young(p) THEN age[p] + 1 ELSE age[p]]
    /\ UNCHANGED <<ending, capi, capiSeen, pool, cleanVars, faults>>

-----------------------------------------------------------------------------
(***************************************************************************)
(* handleCAPICleanup.                                                      *)
(***************************************************************************)
EndCleanup == cleanPc' = "idle" /\ remaining' = FALSE /\ stuck' = {}

\* With a bug: a cluster that is being deleted does not count.
RunningRemain == \E c \in capiSeen : capi[c] = "running"
SomeRemain == capiSeen # {}

\* DeleteCAPIResources.  The first Delete that fails is an error; a cluster
\* that is gone is not.
DeleteCAPIResources ==
    /\ ending = "deleting" /\ cleanPc = "idle"
    /\ \E D \in SUBSET capiSeen, result \in Results :
         /\ Call(TRUE, result)
         /\ result = "ok" => D = capiSeen
         /\ capi' = [c \in CapiCluster |-> IF c \in D /\ capi[c] = "running"
                                           THEN "deleting" ELSE capi[c]]
         /\ IF result = "ok"
            THEN cleanPc' = "pools" /\ remaining' = SomeRemain /\ UNCHANGED stuck
            ELSE EndCleanup
    /\ UNCHANGED <<ending, capiSeen, pool, age>>

\* Two variants with a bug: the threshold does not count, or is never reached.
AnyDeleting == {p \in MachinePool : pool[p] = "deleting"}
NeverStuck == {p \in MachinePool : pool[p] = "deleting" /\ age[p] > stuckDeletionThreshold}

LongDeleting == {p \in MachinePool : /\ pool[p] = "deleting"
                                     /\ age[p] >= stuckDeletionThreshold}

\* RemoveStuckROSAMachinePoolFinalizers: the List, and the machine pools it
\* passes over.
ListMachinePools ==
    /\ cleanPc = "pools"
    /\ \E result \in {"ok", "failed"} :
         /\ Call(TRUE, result)
         /\ IF result = "ok"
            THEN cleanPc' = "force" /\ stuck' = LongDeleting /\ UNCHANGED remaining
            ELSE EndCleanup
    /\ UNCHANGED <<ending, capiObjects>>

clusterWaitingForWorkersDeletion(c) == capi[c] \in {"waiting", "gone"}

\* Its loop.  The Update conflicts if the pool has changed since the List; one
\* that is gone by now is not an error.
RemoveFinalizer(p) ==
    /\ cleanPc = "force" /\ p \in stuck
    /\ \E result \in Results :
         /\ Call(TRUE, result)
         /\ pool' = IF /\ clusterWaitingForWorkersDeletion(ClusterOf[p])
                       /\ pool[p] = "deleting" /\ Applied(result)
                    THEN [pool EXCEPT ![p] = "forced"] ELSE pool
         /\ IF result = "ok"
            THEN stuck' = stuck \ {p} /\ UNCHANGED <<cleanPc, remaining>>
            ELSE EndCleanup
    /\ UNCHANGED <<ending, capi, capiSeen, age>>

\* Come back in ten seconds as long as there were clusters.
AfterPools ==
    /\ cleanPc = "force" /\ stuck = {}
    /\ IF remaining THEN EndCleanup ELSE cleanPc' = "release" /\ UNCHANGED <<remaining, stuck>>
    /\ UNCHANGED <<ending, capiObjects, faults>>

\* Without the finalizer the reservation is gone, and its namespace with it.
ReleaseFinalizer ==
    /\ cleanPc = "release"
    /\ \E result \in Results :
         /\ Call(TRUE, result)
         /\ ending' = IF Applied(result) THEN "released" ELSE ending
    /\ EndCleanup
    /\ UNCHANGED capiObjects

CleanupCrash ==
    /\ cleanPc # "idle"
    /\ EndCleanup
    /\ UNCHANGED <<ending, capiObjects>>

CleanupStep ==
    \/ DeleteCAPIResources
    \/ ListMachinePools
    \/ \E p \in MachinePool : RemoveFinalizer(p)
    \/ AfterPools
    \/ ReleaseFinalizer

CapiControllers(c) ==
    \/ WaitForWorkers(c)
    \/ FinishCluster(c)

Unfair ==
    \/ DeleteReservation
    \/ \E c \in CapiCluster : DeployCluster(c) \/ LoseCluster(c)
    \/ \E p \in MachinePool : FinishPool(p)
=============================================================================
