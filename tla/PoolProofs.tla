----------------------------- MODULE PoolProofs -----------------------------
(***************************************************************************)
(* The pool controller beside the ClowdEnvironment controller: types, what *)
(* each step stores of a namespace, and what holds of the namespaces that  *)
(* are offered to users, for any number of namespaces, faults and crashes. *)
(***************************************************************************)
EXTENDS PoolSystem, ClusterProofs, FiniteSetTheorems

USE ApiCallsAssumption, ClusterAssumption, ClowdEnvControllerAssumption,
    PoolSizingAssumption, PoolControllerAssumption, NamespacesAssumption,
    CheckOutAbstractionAssumption

-----------------------------------------------------------------------------
(***************************************************************************)
(* Types.                                                                  *)
(***************************************************************************)
\* What the pool's worker has in hand.
PoolHands ==
    /\ poolQueued \in BOOLEAN
    /\ poolPc \in PoolSteps
    /\ counts \in Counts
    /\ errNamespaceList \in SUBSET Namespace
    /\ delta \in Int
    /\ nsName \in Namespace \cup {NoNamespace}
    /\ poolCurrent \in BOOLEAN
    /\ poolPc \in {"delete", "own", "clowdenv", "provision", "ready", "undo"} =>
         nsName \in Namespace
    /\ poolPc = "clowdenv" => ClowderPool
    /\ poolPc = "ready" => ~ClowderPool

\* What the worker of the ClowdEnvironment controller has in hand.
EnvHands ==
    /\ envPc # "idle" => envNs \in clowdEnvs
    /\ envPc = "shims" => envNs \in frontendEnvs

TypeInv == TypeOK /\ PoolHands /\ EnvHands

LEMMA TakenByType ==
    ASSUME NEW o \in NsObject, NEW uid \in 1..MaxUid
    PROVE  /\ TakenBy(o, uid) \in NsObject
           /\ TakenBy(o, uid).phase = o.phase
           /\ TakenBy(o, uid).env = o.env /\ TakenBy(o, uid).owner = uid
<1>1. uid \in Nat
  BY ClusterAssumption
<1> QED
  BY <1>1 DEF TakenBy, NsObject

LEMMA CountTypes ==
    ASSUME NEW cache
    PROVE  /\ PoolCounts(cache) \in Counts
           /\ Pooled(cache, "error") \in SUBSET Namespace
<1>1. ASSUME NEW S \in SUBSET Namespace
      PROVE  Cardinality(S) \in Nat
  BY <1>1, FS_Subset, FS_CardinalityType
<1>2. /\ \A env : Pooled(cache, env) \in SUBSET Namespace
      /\ CheckedOut(cache) \in SUBSET Namespace
  BY DEF Pooled, CheckedOut
<1> QED
  BY <1>1, <1>2 DEF PoolCounts, Counts

LEMMA DeltaType ==
    ASSUME poolSize \in Nat, NEW c \in Counts
    PROVE  QuantityDelta(c) \in Int
  BY DEF QuantityDelta, CalculateNamespaceQuantityDelta, Counts

\* Most of the cluster is left alone.
LEMMA NsStepType ==
    ASSUME ClusterTypeOK, UNCHANGED <<roleBinding, resVars, capiVars, now>>,
           ns' \in [Namespace -> NsObject],
           nsCache' \in [Namespace -> NsObject],
           nsWatch' \in [Namespace -> SUBSET NsObject],
           faults' \in Nat
    PROVE  ClusterTypeOK'
  BY DEF ClusterTypeOK, resVars, capiVars

\* How the pool's worker goes on.
LEMMA EndHands ==
    ASSUME PoolHands, NEW again, EndReconcile(again)
    PROVE  PoolHands'
<1>1. ZeroCounts \in Counts
  BY DEF ZeroCounts, Counts
<1> QED
  BY <1>1 DEF PoolHands, EndReconcile, PoolSteps

LEMMA InHandHands ==
    ASSUME PoolHands, NEW step \in PoolSteps, nsName \in Namespace, InHand(step),
           step = "clowdenv" => ClowderPool, step = "ready" => ~ClowderPool
    PROVE  PoolHands'
  BY DEF PoolHands, InHand

LEMMA NextHands ==
    ASSUME PoolHands, NextNamespace
    PROVE  PoolHands'
  BY DEF PoolHands, NextNamespace, PoolSteps

\* The other controller's variables, while the pool's worker acts.
LEMMA EnvStays ==
    ASSUME EnvTypeOK, EnvHands, UNCHANGED envWorkerVars,
           clowdEnvs' \in SUBSET Namespace, clowdEnvs \subseteq clowdEnvs'
    PROVE  EnvTypeOK' /\ EnvHands'
  BY DEF EnvTypeOK, EnvHands, envWorkerVars, frontendVars

LEMMA PoolStays ==
    ASSUME PoolTypeOK, PoolHands, UNCHANGED poolVars
    PROVE  PoolTypeOK' /\ PoolHands'
  BY DEF PoolTypeOK, PoolHands, poolVars, poolWorkerVars

\* A step that writes a namespace and goes on.
LEMMA NsWriteType ==
    ASSUME TypeInv, UNCHANGED <<envWorkerVars, taking>>, UNCHANGED beyondNs,
           ns' \in [Namespace -> NsObject],
           nsWatch' \in [Namespace -> SUBSET NsObject],
           faults' \in Nat,
           PoolHands'
    PROVE  TypeInv'
<1> USE DEF TypeInv, TypeOK
<1>1. ClusterTypeOK'
  BY NsStepType DEF beyondNs, ClusterTypeOK
<1>2. EnvTypeOK' /\ EnvHands'
  BY EnvStays DEF beyondNs, belongings, EnvTypeOK
<1>3. PoolTypeOK'
  BY DEF PoolTypeOK, PoolHands, beyondNs, belongings
<1>4. CheckOutTypeOK'
  BY DEF CheckOutTypeOK
<1> QED
  BY <1>1, <1>2, <1>3, <1>4

LEMMA PoolWorkerType ==
    ASSUME TypeInv, PoolWorkerStep, UNCHANGED <<envWorkerVars, taking>>
    PROVE  TypeInv'
<1>0. /\ TypeOK /\ ClusterTypeOK /\ EnvTypeOK /\ PoolTypeOK /\ PoolHands /\ EnvHands
      /\ CheckOutTypeOK'
  BY DEF TypeInv, TypeOK, CheckOutTypeOK
<1>1. CASE PoolReconcile
  <2>1. PoolCounts(nsCache) \in Counts /\ Pooled(nsCache, "error") \in SUBSET Namespace
    BY CountTypes
  <2>2. QuantityDelta(PoolCounts(nsCache)) \in Int
    BY <1>0, <2>1, DeltaType DEF PoolTypeOK
  <2>3. PoolHands'
    BY <1>0, <1>1, <2>1, <2>2 DEF PoolReconcile, PoolHands, SizeStep, PoolSteps
  <2>4. ns' = ns /\ nsWatch' = nsWatch /\ faults' = faults /\ UNCHANGED beyondNs
    BY <1>1 DEF PoolReconcile, clusterVars, nsVars, beyondNs
  <2> QED
    BY <1>0, <2>3, <2>4, NsWriteType DEF ClusterTypeOK
<1>2. ASSUME NEW n \in Namespace, MarkErrorNamespace(n)
      PROVE  TypeInv'
  <2>1. PICK result \in Results :
          /\ UpdateAnnotations(n, "deleting", result)
          /\ IF result = "ok"
             THEN /\ poolPc' = "delete"
                  /\ nsName' = n
                  /\ UNCHANGED <<poolQueued, counts, errNamespaceList, delta, poolCurrent>>
             ELSE EndReconcile(TRUE)
    BY <1>2 DEF MarkErrorNamespace
  <2>2. PoolHands'
    BY <1>0, <2>1, EndHands DEF PoolHands, PoolSteps
  <2>3. UNCHANGED beyondNs
    BY <1>2 DEF MarkErrorNamespace
  <2> QED
    BY <1>0, <2>1, <2>2, <2>3, UpdateAnnotationsType, NsWriteType DEF EnvStatus
<1>3. CASE DeleteErrorNamespace
  <2>1. PICK result \in Results :
          /\ DeleteNs(nsName, result)
          /\ IF result = "ok"
             THEN /\ errNamespaceList' = errNamespaceList \ {nsName}
                  /\ poolPc' = IF errNamespaceList' = {} THEN SizeStep(delta) ELSE "mark"
                  /\ nsName' = NoNamespace
                  /\ UNCHANGED <<poolQueued, counts, delta, poolCurrent>>
             ELSE EndReconcile(TRUE)
    BY <1>3 DEF DeleteErrorNamespace
  <2>2. PoolHands'
    BY <1>0, <2>1, EndHands DEF PoolHands, SizeStep, PoolSteps
  <2>3. UNCHANGED beyondNs /\ nsName \in Namespace
    BY <1>0, <1>3 DEF DeleteErrorNamespace, PoolHands
  <2> QED
    BY <1>0, <2>1, <2>2, <2>3, DeleteNsType, NsWriteType
<1>4. ASSUME NEW n \in Namespace, CreateNamespace(n)
      PROVE  TypeInv'
  <2>1. PICK result \in Results :
          /\ Call(TRUE, result)
          /\ IF Applied(result) THEN WriteNs(n, EmptyNs) ELSE UNCHANGED <<ns, nsWatch>>
    BY <1>4 DEF CreateNamespace
  <2>2. PoolHands'
    BY <1>0, <1>4 DEF CreateNamespace, PoolHands, PoolSteps
  <2>3. UNCHANGED beyondNs
    BY <1>4 DEF CreateNamespace, beyondNs
  <2>4. faults' \in Nat
    BY <1>0, <2>1, CallType DEF ClusterTypeOK
  <2>5. ns' \in [Namespace -> NsObject] /\ nsWatch' \in [Namespace -> SUBSET NsObject]
    BY <1>0, <2>1, EmptyNsType, WriteNsType DEF ClusterTypeOK
  <2> QED
    BY <2>2, <2>3, <2>4, <2>5, NsWriteType
<1>5. CASE CreateRefused
  <2>1. PoolHands'
    BY <1>0, <1>5, EndHands DEF CreateRefused
  <2>2. ns' = ns /\ nsWatch' = nsWatch /\ faults' = faults /\ UNCHANGED beyondNs
    BY <1>5 DEF CreateRefused, clusterVars, nsVars, beyondNs
  <2> QED
    BY <1>0, <2>1, <2>2, NsWriteType DEF ClusterTypeOK
<1>6. CASE OwnNamespace
  <2>1. PICK result \in Results :
          /\ Retried(nsName, result)
          /\ IF Applied(result)
             THEN WriteNs(nsName, Owned(nsCache[nsName]))
             ELSE UNCHANGED <<ns, nsWatch>>
          /\ \/ result = "ok" /\ InHand(IF ClowderPool THEN "clowdenv" ELSE "provision")
             \/ result # "ok" /\ Exists(nsCache[nsName]) /\ InHand("undo")
             \/ result = "failed" /\ EndReconcile(TRUE)
    BY <1>6 DEF OwnNamespace
  <2>2. nsName \in Namespace /\ UNCHANGED beyondNs
    BY <1>0, <1>6 DEF OwnNamespace, PoolHands
  <2>3. PoolHands'
    BY <1>0, <2>1, <2>2, InHandHands, EndHands DEF PoolSteps
  <2>4. faults' \in Nat
    BY <1>0, <2>1, <2>2, RetriedType DEF ClusterTypeOK
  <2>5. Owned(nsCache[nsName]) \in NsObject
    BY <1>0, <2>2, NsTypes DEF ClusterTypeOK
  <2>6. ns' \in [Namespace -> NsObject] /\ nsWatch' \in [Namespace -> SUBSET NsObject]
    BY <1>0, <2>1, <2>2, <2>5, WriteNsType DEF ClusterTypeOK
  <2> QED
    BY <2>2, <2>3, <2>4, <2>6, NsWriteType
<1>7. CASE ProvideClowdEnv
  <2>1. PICK result \in Results :
          /\ Call(Exists(nsCache[nsName]), result)
          /\ IF Applied(result) THEN CreateClowdEnv(nsName) ELSE UNCHANGED clowdEnvs
          /\ InHand(IF result = "ok" THEN "provision" ELSE "undo")
    BY <1>7 DEF ProvideClowdEnv
  <2>2. nsName \in Namespace
    BY <1>0, <1>7 DEF ProvideClowdEnv, PoolHands
  <2>3. PoolHands'
    BY <1>0, <2>1, <2>2, InHandHands DEF PoolSteps
  <2>4. ClusterTypeOK'
    <3>1. faults' \in Nat
      BY <1>0, <2>1, CallType DEF ClusterTypeOK
    <3> QED
      BY <1>0, <1>7, <3>1, NsStepType DEF ProvideClowdEnv, nsVars, ClusterTypeOK
  <2>5. EnvTypeOK' /\ EnvHands'
    BY <1>0, <2>1, <2>2, EnvStays DEF CreateClowdEnv, EnvTypeOK
  <2>6. PoolTypeOK'
    BY <1>0, <1>7, <2>3 DEF PoolTypeOK, PoolHands, ProvideClowdEnv
  <2> QED
    BY <1>0, <2>3, <2>4, <2>5, <2>6 DEF TypeInv, TypeOK
<1>8. CASE ProvisionNamespace
  <2>1. PICK result \in {"ok", "failed"} :
          /\ Call(ns[nsName].phase = "Active", result)
          /\ IF result = "ok"
             THEN /\ provisioned' = provisioned \cup {nsName}
                  /\ IF ClowderPool THEN NextNamespace ELSE InHand("ready")
             ELSE InHand("undo") /\ UNCHANGED provisioned
    BY <1>8 DEF ProvisionNamespace
  <2>2. nsName \in Namespace
    BY <1>0, <1>8 DEF ProvisionNamespace, PoolHands
  <2>3. PoolHands'
    BY <1>0, <2>1, <2>2, InHandHands, NextHands DEF PoolSteps
  <2>4. ClusterTypeOK'
    <3>1. faults' \in Nat
      BY <1>0, <2>1, CallType DEF ClusterTypeOK
    <3> QED
      BY <1>0, <1>8, <3>1, NsStepType DEF ProvisionNamespace, nsVars, ClusterTypeOK
  <2>5. EnvTypeOK' /\ EnvHands'
    BY <1>0, <1>8, EnvStays DEF ProvisionNamespace, EnvTypeOK
  <2>6. provisioned' \in SUBSET Namespace
    BY <1>0, <2>1, <2>2 DEF PoolTypeOK
  <2>7. PoolTypeOK'
    BY <1>0, <1>8, <2>3, <2>6 DEF PoolTypeOK, PoolHands, ProvisionNamespace
  <2> QED
    BY <1>0, <2>3, <2>4, <2>5, <2>7 DEF TypeInv, TypeOK
<1>9. CASE MarkReady
  <2>1. PICK result \in Results :
          /\ UpdateAnnotations(nsName, "ready", result)
          /\ IF result = "ok" THEN NextNamespace ELSE InHand("undo")
    BY <1>9 DEF MarkReady
  <2>2. nsName \in Namespace /\ UNCHANGED beyondNs
    BY <1>0, <1>9 DEF MarkReady, PoolHands
  <2>3. PoolHands'
    BY <1>0, <2>1, <2>2, InHandHands, NextHands DEF PoolSteps
  <2> QED
    BY <1>0, <2>1, <2>2, <2>3, UpdateAnnotationsType, NsWriteType DEF EnvStatus
<1>10. CASE UndoNamespace
  <2>1. PICK result \in Results :
          /\ DeleteNs(nsName, result)
          /\ IF result = "ok" THEN NextNamespace ELSE EndReconcile(TRUE)
    BY <1>10 DEF UndoNamespace
  <2>2. nsName \in Namespace /\ UNCHANGED beyondNs
    BY <1>0, <1>10 DEF UndoNamespace, PoolHands
  <2>3. PoolHands'
    BY <1>0, <2>1, EndHands, NextHands
  <2> QED
    BY <1>0, <2>1, <2>2, <2>3, DeleteNsType, NsWriteType
<1>11. CASE PickExcess
  <2>1. PoolHands'
    BY <1>0, <1>11 DEF PickExcess, NotReserved, GetReadyNamespaces, PoolHands, PoolSteps
  <2>2. ns' = ns /\ nsWatch' = nsWatch /\ faults' = faults /\ UNCHANGED beyondNs
    BY <1>11 DEF PickExcess, clusterVars, nsVars, beyondNs
  <2> QED
    BY <1>0, <2>1, <2>2, NsWriteType DEF ClusterTypeOK
<1>12. CASE MarkExcess
  <2>1. PICK result \in Results :
          /\ UpdateAnnotations(nsName, "error", result)
          /\ IF result = "ok"
             THEN /\ delta' = delta + 1
                  /\ poolPc' = IF delta < -1 THEN "retire" ELSE "status"
                  /\ UNCHANGED <<poolQueued, counts, errNamespaceList, nsName,
                                 poolCurrent>>
             ELSE EndReconcile(TRUE)
    BY <1>12 DEF MarkExcess
  <2>2. nsName \in Namespace /\ UNCHANGED beyondNs
    BY <1>0, <1>12 DEF MarkExcess, PoolHands
  <2>3. ASSUME result = "ok"
        PROVE  PoolHands'
    <3>1. delta' \in Int /\ poolPc' \in {"retire", "status"}
      BY <1>0, <2>1, <2>3 DEF PoolHands
    <3> QED
      BY <1>0, <2>1, <2>3, <3>1 DEF PoolHands, PoolSteps
  <2>4. PoolHands'
    BY <1>0, <2>1, <2>3, EndHands
  <2> QED
    BY <1>0, <2>1, <2>2, <2>4, UpdateAnnotationsType, NsWriteType DEF EnvStatus
<1>13. CASE UpdatePoolStatus
  <2>1. PICK result \in Results :
          /\ Call(poolCurrent, result)
          /\ poolStatus' = IF Applied(result) THEN counts ELSE poolStatus
          /\ EndReconcile(result # "ok" \/ poolStatus' # poolStatus)
    BY <1>13 DEF UpdatePoolStatus
  <2>2. PoolHands'
    BY <1>0, <2>1, EndHands
  <2>3. ClusterTypeOK'
    <3>1. faults' \in Nat
      BY <1>0, <2>1, CallType DEF ClusterTypeOK
    <3> QED
      BY <1>0, <1>13, <3>1, NsStepType DEF UpdatePoolStatus, nsVars, ClusterTypeOK
  <2>4. EnvTypeOK' /\ EnvHands'
    BY <1>0, <1>13, EnvStays DEF UpdatePoolStatus, belongings, EnvTypeOK
  <2>5. poolStatus' \in Counts
    BY <1>0, <2>1 DEF PoolTypeOK
  <2>6. PoolTypeOK'
    BY <1>0, <1>13, <2>2, <2>5 DEF PoolTypeOK, PoolHands, UpdatePoolStatus, belongings
  <2> QED
    BY <1>0, <2>2, <2>3, <2>4, <2>6 DEF TypeInv, TypeOK
<1> QED
  BY <1>1, <1>2, <1>3, <1>4, <1>5, <1>6, <1>7, <1>8, <1>9, <1>10, <1>11, <1>12, <1>13
  DEF PoolWorkerStep

\* The variables of the pool, while the ClowdEnvironment controller acts.
LEMMA EnvWorkerType ==
    ASSUME TypeInv, EnvWorkerStep, UNCHANGED <<poolVars, taking>>
    PROVE  TypeInv'
<1>0. ClusterTypeOK /\ EnvTypeOK /\ PoolTypeOK /\ PoolHands /\ EnvHands
  BY DEF TypeInv, TypeOK
<1>1. PoolTypeOK' /\ PoolHands' /\ CheckOutTypeOK'
  BY <1>0, PoolStays DEF TypeInv, TypeOK, CheckOutTypeOK
<1>2. ASSUME NEW n \in Namespace, EnvReconcile(n)
      PROVE  ClusterTypeOK' /\ EnvTypeOK' /\ EnvHands'
  <2>1. EnvTypeOK' /\ EnvHands'
    BY <1>0, <1>2, ClusterAssumption
    DEF EnvReconcile, EnvTypeOK, EnvHands, frontendVars
  <2>2. ClusterTypeOK'
    BY <1>0, <1>2, NsStepType DEF EnvReconcile, clusterVars, nsVars, ClusterTypeOK
  <2> QED
    BY <2>1, <2>2
<1>3. CASE CreateFrontendEnv
  <2>1. EnvTypeOK' /\ EnvHands'
    BY <1>0, <1>3 DEF CreateFrontendEnv, EnvGoto, EnvTypeOK, EnvHands, Applied
  <2>2. ClusterTypeOK'
    BY <1>0, <1>3, NsStepType DEF CreateFrontendEnv, clusterVars, nsVars, ClusterTypeOK
  <2> QED
    BY <1>1, <2>1, <2>2 DEF TypeInv, TypeOK
<1>4. CASE CreateShimServices
  <2>1. EnvTypeOK' /\ EnvHands'
    BY <1>0, <1>4 DEF CreateShimServices, EnvGoto, EnvTypeOK, EnvHands
  <2>2. ClusterTypeOK'
    BY <1>0, <1>4, NsStepType DEF CreateShimServices, clusterVars, nsVars, ClusterTypeOK
  <2> QED
    BY <1>1, <2>1, <2>2 DEF TypeInv, TypeOK
<1>5. ASSUME NEW env \in EnvStatus, NEW result, UpdateAnnotations(envNs, env, result),
             envPc # "idle",
             UNCHANGED <<nsCache, roleBinding, resVars, capiVars, now>>
      PROVE  ClusterTypeOK'
  <2>1. envNs \in Namespace
    BY <1>0, <1>5 DEF EnvTypeOK
  <2>2. /\ ns' \in [Namespace -> NsObject] /\ nsWatch' \in [Namespace -> SUBSET NsObject]
        /\ faults' \in Nat
    BY <1>0, <1>5, <2>1, UpdateAnnotationsType
  <2> QED
    BY <1>0, <1>5, <2>2, NsStepType DEF ClusterTypeOK
<1>6. ASSUME EnvTypeOK, EnvHands, envPc # "idle", NEW again, EndEnvReconcile(again),
             UNCHANGED <<clowdEnvs, envEvents, frontendVars>>,
             completed' \in SUBSET Namespace
      PROVE  EnvTypeOK' /\ EnvHands'
  BY <1>6 DEF EndEnvReconcile, EnvTypeOK, EnvHands, frontendVars
<1>7. CASE EnvMarkError
  <2>1. PICK result \in Results :
          /\ UpdateAnnotations(envNs, "error", result)
          /\ IF result = "ok"
             THEN envPc' = "ready" /\ UNCHANGED <<envNs, envQueue>>
             ELSE EndEnvReconcile(TRUE)
    BY <1>7 DEF EnvMarkError
  <2>2. ClusterTypeOK'
    BY <1>5, <1>7, <2>1 DEF EnvMarkError, EnvStatus
  <2>3. CASE result = "ok"
    <3>1. EnvTypeOK' /\ EnvHands'
      BY <1>0, <1>7, <2>1, <2>3 DEF EnvMarkError, EnvTypeOK, EnvHands, frontendVars
    <3> QED
      BY <1>1, <2>2, <3>1 DEF TypeInv, TypeOK
  <2>4. CASE result # "ok"
    <3>1. EnvTypeOK' /\ EnvHands'
      BY <1>0, <1>6, <1>7, <2>1, <2>4 DEF EnvMarkError, EnvTypeOK
    <3> QED
      BY <1>1, <2>2, <3>1 DEF TypeInv, TypeOK
  <2> QED
    BY <2>3, <2>4
<1>8. CASE EnvMarkReady
  <2>1. PICK result \in Results :
          /\ UpdateAnnotations(envNs, "ready", result)
          /\ completed' = IF result = "ok" THEN completed \cup {envNs} ELSE completed
          /\ EndEnvReconcile(result # "ok" \/ envNs \notin completed)
    BY <1>8 DEF EnvMarkReady
  <2>2. ClusterTypeOK'
    BY <1>5, <1>8, <2>1 DEF EnvMarkReady, EnvStatus
  <2>3. completed' \in SUBSET Namespace
    BY <1>0, <1>8, <2>1 DEF EnvMarkReady, EnvTypeOK
  <2>4. EnvTypeOK' /\ EnvHands'
    BY <1>0, <1>6, <1>8, <2>1, <2>3 DEF EnvMarkReady
  <2> QED
    BY <1>1, <2>2, <2>4 DEF TypeInv, TypeOK
<1> QED
  BY <1>1, <1>2, <1>3, <1>4, <1>7, <1>8 DEF EnvWorkerStep, TypeInv, TypeOK

LEMMA CheckOutStepType ==
    ASSUME TypeInv, CheckOut, UNCHANGED <<poolVars, envVars>>
    PROVE  TypeInv'
<1>0. ClusterTypeOK /\ EnvTypeOK /\ PoolTypeOK /\ PoolHands /\ EnvHands /\ CheckOutTypeOK
  BY DEF TypeInv, TypeOK
<1>1. PoolTypeOK' /\ PoolHands' /\ EnvTypeOK' /\ EnvHands'
  BY <1>0, PoolStays, EnvStays DEF envVars, EnvTypeOK
<1>2. CASE (\E n \in Namespace : Pick(n)) \/ LetGo
  <2>1. ClusterTypeOK' /\ CheckOutTypeOK'
    BY <1>0, <1>2, NsStepType
    DEF Pick, LetGo, clusterVars, nsVars, ClusterTypeOK, CheckOutTypeOK
  <2> QED
    BY <1>1, <2>1 DEF TypeInv, TypeOK
<1>3. ASSUME taking # NoNamespace, taking' = NoNamespace,
             UNCHANGED <<nsCache, roleBinding, resVars, capiVars, now>>,
             taking \in Namespace =>
               /\ ns' \in [Namespace -> NsObject]
               /\ nsWatch' \in [Namespace -> SUBSET NsObject]
               /\ faults' \in Nat
      PROVE  TypeInv'
  <2>1. ClusterTypeOK' /\ CheckOutTypeOK'
    BY <1>0, <1>3, NsStepType DEF ClusterTypeOK, CheckOutTypeOK
  <2> QED
    BY <1>1, <2>1 DEF TypeInv, TypeOK
<1>4. CASE Condemn
  BY <1>0, <1>3, <1>4, UpdateAnnotationsType DEF Condemn, EnvStatus
<1>5. ASSUME NEW uid \in 1..MaxUid, Take(uid)
      PROVE  TypeInv'
  <2>1. PICK result \in Results :
          /\ Call(NsCurrent(taking, nsCache[taking]), result)
          /\ IF Applied(result)
             THEN WriteNs(taking, TakenBy(nsCache[taking], uid))
             ELSE UNCHANGED <<ns, nsWatch>>
    BY <1>5 DEF Take
  <2>2. faults' \in Nat
    BY <1>0, <2>1, CallType DEF ClusterTypeOK
  <2>3. taking \in Namespace => TakenBy(nsCache[taking], uid) \in NsObject
    BY <1>0, TakenByType DEF ClusterTypeOK
  <2>4. taking \in Namespace =>
          ns' \in [Namespace -> NsObject] /\ nsWatch' \in [Namespace -> SUBSET NsObject]
    BY <1>0, <2>1, <2>3, WriteNsType DEF ClusterTypeOK
  <2> QED
    BY <1>3, <1>5, <2>2, <2>4 DEF Take
<1> QED
  BY <1>2, <1>4, <1>5 DEF CheckOut

LEMMA CollectType ==
    ASSUME TypeInv, NEW n \in Namespace, Collect(n), UNCHANGED <<poolVars, envVars, taking>>
    PROVE  TypeInv'
<1>0. ClusterTypeOK /\ EnvTypeOK /\ PoolTypeOK /\ PoolHands /\ EnvHands
  BY DEF TypeInv, TypeOK
<1>1. ns' \in [Namespace -> NsObject] /\ nsWatch' \in [Namespace -> SUBSET NsObject]
  BY <1>0, NsTypes, WriteNsType DEF Collect, GarbageCollect, FinalizeNamespace, ClusterTypeOK
<1>2. ClusterTypeOK'
  BY <1>0, <1>1, NsStepType DEF Collect, GarbageCollect, FinalizeNamespace, ClusterTypeOK
<1>3. PoolTypeOK' /\ PoolHands' /\ EnvTypeOK' /\ EnvHands' /\ CheckOutTypeOK'
  BY <1>0, PoolStays, EnvStays DEF envVars, EnvTypeOK, TypeInv, TypeOK, CheckOutTypeOK
<1> QED
  BY <1>2, <1>3 DEF TypeInv, TypeOK

LEMMA TypeStep ==
    ASSUME TypeInv, [Next]_poolSystemVars
    PROVE  TypeInv'
<1>0. /\ ClusterTypeOK /\ EnvTypeOK /\ PoolTypeOK /\ PoolHands /\ EnvHands
      /\ taking' \in {taking, NoNamespace} => CheckOutTypeOK'
  BY DEF TypeInv, TypeOK, CheckOutTypeOK
<1>1. ASSUME NEW n \in Namespace, NamespaceEvent(n), UNCHANGED <<envWorkerVars, taking>>
      PROVE  TypeInv'
  <2>1. /\ nsCache' \in [Namespace -> NsObject]
        /\ nsWatch' \in [Namespace -> SUBSET NsObject]
    BY <1>0, <1>1 DEF NamespaceEvent, DeliverNs, ClusterTypeOK
  <2>2. ClusterTypeOK'
    BY <1>0, <1>1, <2>1, NsStepType DEF NamespaceEvent, DeliverNs, ClusterTypeOK
  <2>3. EnvTypeOK' /\ EnvHands'
    BY <1>0, <1>1, EnvStays DEF NamespaceEvent, belongings, EnvTypeOK
  <2>4. PoolTypeOK' /\ PoolHands'
    BY <1>0, <1>1 DEF NamespaceEvent, PoolTypeOK, PoolHands, poolWorkerVars, belongings
  <2> QED
    BY <1>0, <1>1, <2>2, <2>3, <2>4 DEF TypeInv, TypeOK
<1>2. ASSUME NEW n \in Namespace, EnvEvent(n), UNCHANGED <<poolVars, taking>>
      PROVE  TypeInv'
  <2>1. EnvTypeOK' /\ EnvHands'
    <3>1. envEvents' \in [Namespace -> 0..MaxEnvEvents]
      BY <1>0, <1>2 DEF EnvEvent, EnvTypeOK
    <3> QED
      BY <1>0, <1>2, <3>1 DEF EnvEvent, EnvTypeOK, EnvHands, frontendVars
  <2>2. ClusterTypeOK'
    BY <1>0, <1>2, NsStepType DEF EnvEvent, clusterVars, nsVars, ClusterTypeOK
  <2> QED
    BY <1>0, <1>2, <2>1, <2>2, PoolStays DEF TypeInv, TypeOK
<1>3. ASSUME NEW s \in Sizes, ResizePool(s), UNCHANGED <<envWorkerVars, taking>>
      PROVE  TypeInv'
  <2>1. ClusterTypeOK'
    BY <1>0, <1>3, NsStepType DEF ResizePool, clusterVars, nsVars, ClusterTypeOK
  <2>2. EnvTypeOK' /\ EnvHands'
    BY <1>0, <1>3, EnvStays DEF ResizePool, belongings, EnvTypeOK
  <2>3. PoolTypeOK' /\ PoolHands'
    BY <1>0, <1>3 DEF ResizePool, PoolTypeOK, PoolHands, belongings
  <2> QED
    BY <1>0, <1>3, <2>1, <2>2, <2>3 DEF TypeInv, TypeOK
<1>4. CASE PoolCrash /\ taking' = NoNamespace
  <2>1. faults' \in Nat /\ nsWatch' \in [Namespace -> SUBSET NsObject]
    BY <1>0, <1>4 DEF PoolCrash, ClusterTypeOK
  <2>2. ClusterTypeOK'
    BY <1>0, <1>4, <2>1, NsStepType DEF PoolCrash, ClusterTypeOK
  <2>3. EnvTypeOK' /\ EnvHands'
    BY <1>0, <1>4 DEF PoolCrash, RestartEnvController, EnvTypeOK, EnvHands, frontendVars
  <2>4. PoolHands'
    BY <1>0, <1>4, EndHands DEF PoolCrash
  <2>5. PoolTypeOK'
    BY <1>0, <1>4, <2>4 DEF PoolCrash, PoolTypeOK, PoolHands
  <2> QED
    BY <1>0, <1>4, <2>2, <2>3, <2>4, <2>5 DEF TypeInv, TypeOK
<1>5. CASE UNCHANGED poolSystemVars
  <2>1. ClusterTypeOK'
    BY <1>0, <1>5, NsStepType DEF poolSystemVars, clusterVars, nsVars, ClusterTypeOK
  <2>2. EnvTypeOK' /\ EnvHands'
    BY <1>0, <1>5, EnvStays DEF poolSystemVars, envVars, EnvTypeOK
  <2> QED
    BY <1>0, <1>5, <2>1, <2>2, PoolStays DEF poolSystemVars, TypeInv, TypeOK
<1> QED
  BY <1>1, <1>2, <1>3, <1>4, <1>5, PoolWorkerType, EnvWorkerType, CheckOutStepType,
     CollectType DEF Next

LEMMA TypeInit ==
    ASSUME Init
    PROVE  TypeInv
<1>1. ClusterTypeOK
  <2>1. AbsentNs \in NsObject /\ NoReservation(0) \in ResObject
    BY DEF AbsentNs, NsObject, EnvStatus, NoReservation, ResObject, State, ZeroTime
  <2> QED
    BY <2>1 DEF Init, ClusterInit, ClusterTypeOK, ClusterState
<1>2. EnvTypeOK /\ EnvHands
  BY DEF Init, EnvInit, EnvTypeOK, EnvHands
<1>3. PoolTypeOK /\ PoolHands
  BY DEF Init, PoolInit, PoolTypeOK, PoolHands, PoolSteps, Counts, ZeroCounts
<1>4. CheckOutTypeOK
  BY DEF Init, CheckOutInit, CheckOutTypeOK
<1> QED
  BY <1>1, <1>2, <1>3, <1>4 DEF TypeInv, TypeOK

\* The workers of both controllers always have a namespace in hand when they
\* act on one: EnvNs is that of a ClowdEnvironment, nsName that of the pool.
THEOREM PoolTypes == Spec => []TypeOK
<1>1. TypeInv => TypeOK
  BY DEF TypeInv
<1> QED
  BY <1>1, TypeInit, TypeStep, PTL DEF Spec

-----------------------------------------------------------------------------
(***************************************************************************)
(* How the object of the namespace n may be replaced by o.                 *)
(***************************************************************************)
SameOwner(n, o) == o.owner = ns[n].owner /\ o.reserved = ns[n].reserved

Begun(n, o) ==
    /\ poolPc = "create" /\ ns[n].phase = "Absent"
    /\ o.phase = "Active" /\ o.owner = NoOwner /\ o.env = "none"
    /\ poolPc' = "own" /\ nsName' = n

Taken(n, o) ==
    /\ poolPc = "own" /\ n = nsName /\ Exists(ns[n])
    /\ o.phase = ns[n].phase /\ o.owner = PoolUid /\ o.env = "creating"
    /\ poolPc' # "own"

\* Who writes which env-status.
MayMark(n, env) ==
    \/ env = "deleting" /\ poolPc = "mark" /\ poolPc' # "mark" /\ n \in errNamespaceList
    \/ env = "error" /\ poolPc = "retire" /\ n = nsName
    \/ env = "ready" /\ poolPc = "ready" /\ poolPc' # "ready" /\ n = nsName
    \/ env \in {"error", "ready"} /\ envPc = env /\ n = envNs
    \/ env = "error" /\ ClowderPool /\ n = taking

Marked(n, o) ==
    /\ Exists(ns[n]) /\ MayMark(n, o.env)
    /\ o.phase = ns[n].phase /\ SameOwner(n, o)

Lent(n, o) ==
    /\ n = taking /\ Exists(ns[n])
    /\ PromptCheckOuts => IsReady(ns[n])
    /\ o.phase = ns[n].phase /\ o.env = ns[n].env /\ IsReservationUid(o.owner)

Dying(n, o) ==
    /\ \/ ns[n].phase = "Active" /\ OwnerGone(n)
       \/ poolPc \in {"delete", "undo"} /\ n = nsName /\ Exists(ns[n])
    /\ o.phase = "Terminating" /\ o.env = ns[n].env /\ SameOwner(n, o)

Dead(n, o) ==
    /\ ns[n].phase = "Terminating"
    /\ o.phase = "Gone" /\ o.env = ns[n].env /\ SameOwner(n, o)

StoresNs(n, o) ==
    /\ o \in NsObject
    /\ WriteNs(n, o)
    /\ UNCHANGED nsCache
    /\ Begun(n, o) \/ Taken(n, o) \/ Marked(n, o) \/ Lent(n, o) \/ Dying(n, o) \/ Dead(n, o)

Restarts == nsCache' = ns /\ nsWatch' = [n \in Namespace |-> {}] /\ UNCHANGED ns

LEMMA MarkStores ==
    ASSUME NsTyped, NsVersions, NEW n \in Namespace, NEW env \in EnvStatus, NEW result,
           UpdateAnnotations(n, env, result), MayMark(n, env), UNCHANGED nsCache
    PROVE  UNCHANGED nsVars \/ \E o \in NsObject : StoresNs(n, o)
<1> DEFINE o == [ns[n] EXCEPT !.env = env]
<1>1. CASE UNCHANGED <<ns, nsWatch>>
  BY <1>1 DEF nsVars
<1>2. CASE Exists(ns[n]) /\ WriteNs(n, o) /\ o \in NsObject
  <2>1. ns[n] \in NsObject
    BY DEF NsTyped
  <2>2. o.phase = ns[n].phase /\ SameOwner(n, o) /\ o.env = env
    BY <2>1 DEF NsObject, SameOwner
  <2> QED
    BY <1>2, <2>2 DEF StoresNs, Marked
<1> QED
  BY <1>1, <1>2, AnnotationsWritten

LEMMA PhaseStores ==
    ASSUME NsTyped, NEW n \in Namespace, NEW phase \in {"Terminating", "Gone"},
           WriteNs(n, [ns[n] EXCEPT !.phase = phase]), UNCHANGED nsCache,
           \/ /\ phase = "Terminating"
              /\ \/ ns[n].phase = "Active" /\ OwnerGone(n)
                 \/ poolPc \in {"delete", "undo"} /\ n = nsName /\ Exists(ns[n])
           \/ phase = "Gone" /\ ns[n].phase = "Terminating"
    PROVE  \E o \in NsObject : StoresNs(n, o)
<1> DEFINE o == [ns[n] EXCEPT !.phase = phase]
<1>1. ns[n] \in NsObject
  BY DEF NsTyped
<1>2. o \in NsObject /\ o.phase = phase /\ o.env = ns[n].env /\ SameOwner(n, o)
  BY <1>1 DEF NsObject, SameOwner
<1>3. Dying(n, o) \/ Dead(n, o)
  BY <1>2 DEF Dying, Dead
<1> HIDE DEF o
<1> QED
  BY <1>2, <1>3 DEF StoresNs, o

LEMMA DeleteStores ==
    ASSUME NsTyped, poolPc \in {"delete", "undo"}, nsName \in Namespace, UNCHANGED nsCache,
           NEW result, DeleteNs(nsName, result)
    PROVE  UNCHANGED nsVars \/ \E o \in NsObject : StoresNs(nsName, o)
<1>1. CASE Applied(result)
  <2>1. Exists(ns[nsName]) /\ WriteNs(nsName, [ns[nsName] EXCEPT !.phase = "Terminating"])
    BY <1>1 DEF DeleteNs, Call, Applied
  <2> QED
    BY <2>1, PhaseStores
<1>2. CASE ~Applied(result)
  BY <1>2 DEF DeleteNs, nsVars
<1> QED
  BY <1>1, <1>2

LEMMA OwnStores ==
    ASSUME NsTyped, NsVersions, nsName \in Namespace, OwnNamespace
    PROVE  UNCHANGED nsVars \/ \E o \in NsObject : StoresNs(nsName, o)
<1>1. PICK result \in Results :
        /\ Retried(nsName, result)
        /\ IF Applied(result)
           THEN WriteNs(nsName, Owned(nsCache[nsName]))
           ELSE UNCHANGED <<ns, nsWatch>>
  BY DEF OwnNamespace
<1>2. poolPc = "own" /\ poolPc' # "own" /\ UNCHANGED nsCache
  BY DEF OwnNamespace, InHand, EndReconcile, beyondNs
<1>3. CASE Applied(result)
  <2>1. nsCache[nsName] = ns[nsName] /\ Exists(ns[nsName]) /\ ns[nsName] \in NsObject
    BY <1>1, <1>3, RetriedCurrent DEF NsTyped
  <2> DEFINE o == Owned(ns[nsName])
  <2>2. o \in NsObject /\ o.phase = ns[nsName].phase /\ o.owner = PoolUid /\ o.env = "creating"
    BY <2>1, NsTypes
  <2> HIDE DEF o
  <2>3. WriteNs(nsName, o)
    BY <1>1, <1>3, <2>1 DEF o
  <2> QED
    BY <1>2, <2>1, <2>2, <2>3 DEF StoresNs, Taken
<1>4. CASE ~Applied(result)
  BY <1>1, <1>2, <1>4 DEF nsVars
<1> QED
  BY <1>3, <1>4

LEMMA CreateStores ==
    ASSUME NsTyped, NEW n \in Namespace, CreateNamespace(n)
    PROVE  UNCHANGED nsVars \/ \E o \in NsObject : StoresNs(n, o)
<1>1. /\ poolPc = "create" /\ ns[n].phase = "Absent" /\ UNCHANGED nsCache
      /\ poolPc' = "own" /\ nsName' = n
  BY DEF CreateNamespace
<1>2. /\ EmptyNs \in NsObject
      /\ EmptyNs.phase = "Active" /\ EmptyNs.owner = NoOwner /\ EmptyNs.env = "none"
  BY EmptyNsType
<1>3. WriteNs(n, EmptyNs) \/ UNCHANGED <<ns, nsWatch>>
  BY DEF CreateNamespace
<1> QED
  BY <1>1, <1>2, <1>3 DEF StoresNs, Begun, nsVars

LEMMA TakeStores ==
    ASSUME NsTyped, NsVersions, taking \in Namespace, NEW uid \in 1..MaxUid, Take(uid)
    PROVE  UNCHANGED nsVars \/ \E o \in NsObject : StoresNs(taking, o)
<1>1. PICK result \in Results :
        /\ Call(NsCurrent(taking, nsCache[taking]), result)
        /\ IF Applied(result)
           THEN WriteNs(taking, TakenBy(nsCache[taking], uid))
           ELSE UNCHANGED <<ns, nsWatch>>
  BY DEF Take
<1>2. CASE Applied(result)
  <2>1. nsCache[taking] = ns[taking] /\ Exists(ns[taking]) /\ ns[taking] \in NsObject
    BY <1>1, <1>2, CurrentNs DEF Call, Applied, NsTyped
  <2> DEFINE o == TakenBy(ns[taking], uid)
  <2>2. /\ o \in NsObject
        /\ o.phase = ns[taking].phase /\ o.env = ns[taking].env /\ o.owner = uid
    BY <2>1, TakenByType
  <2>3. IsReservationUid(uid) /\ (PromptCheckOuts => IsReady(ns[taking])) /\ UNCHANGED nsCache
    BY <2>1 DEF Take
  <2>4. WriteNs(taking, o)
    BY <1>1, <1>2, <2>1
  <2> HIDE DEF o
  <2> QED
    BY <2>1, <2>2, <2>3, <2>4 DEF StoresNs, Lent
<1>3. CASE ~Applied(result)
  BY <1>1, <1>3 DEF Take, nsVars
<1> QED
  BY <1>2, <1>3

LEMMA CheckOutStores ==
    ASSUME TypeInv, NsVersions, CheckOut
    PROVE  UNCHANGED nsVars \/ \E n \in Namespace, o \in NsObject : StoresNs(n, o)
<1>0. NsTyped /\ (taking # NoNamespace => taking \in Namespace)
  BY DEF TypeInv, TypeOK, ClusterTypeOK, NsTyped, CheckOutTypeOK
<1>1. CASE (\E n \in Namespace : Pick(n)) \/ LetGo
  BY <1>1 DEF Pick, LetGo, clusterVars
<1>2. CASE Condemn
  BY <1>0, <1>2, MarkStores DEF Condemn, MayMark, EnvStatus
<1>3. ASSUME NEW uid \in 1..MaxUid, Take(uid)
      PROVE  UNCHANGED nsVars \/ \E n \in Namespace, o \in NsObject : StoresNs(n, o)
  BY <1>0, <1>3, TakeStores DEF Take
<1> QED
  BY <1>1, <1>2, <1>3 DEF CheckOut

LEMMA CollectStores ==
    ASSUME NsTyped, NEW n \in Namespace, Collect(n)
    PROVE  \E o \in NsObject : StoresNs(n, o)
  BY PhaseStores DEF Collect, GarbageCollect, FinalizeNamespace

LEMMA StepStores ==
    ASSUME TypeInv, NsVersions, [Next]_poolSystemVars
    PROVE  \/ UNCHANGED nsVars
           \/ \E n \in Namespace : DeliverNs(n)
           \/ Restarts
           \/ \E n \in Namespace, o \in NsObject : StoresNs(n, o)
<1>0. NsTyped /\ PoolHands /\ EnvTypeOK
  BY DEF TypeInv, TypeOK, ClusterTypeOK, NsTyped
<1>1. ASSUME NEW n \in Namespace, MarkErrorNamespace(n)
      PROVE  UNCHANGED nsVars \/ \E o \in NsObject : StoresNs(n, o)
  BY <1>0, <1>1, MarkStores
  DEF MarkErrorNamespace, EndReconcile, MayMark, EnvStatus, beyondNs
<1>2. ASSUME nsName \in Namespace, MarkReady \/ MarkExcess
      PROVE  UNCHANGED nsVars \/ \E o \in NsObject : StoresNs(nsName, o)
  BY <1>0, <1>2, MarkStores
  DEF MarkReady, MarkExcess, NextNamespace, InHand, MayMark, EnvStatus, beyondNs
<1>3. ASSUME envNs \in Namespace, EnvMarkError \/ EnvMarkReady
      PROVE  UNCHANGED nsVars \/ \E o \in NsObject : StoresNs(envNs, o)
  BY <1>0, <1>3, MarkStores DEF EnvMarkError, EnvMarkReady, MayMark, EnvStatus
<1>4. ASSUME nsName \in Namespace, DeleteErrorNamespace \/ UndoNamespace
      PROVE  UNCHANGED nsVars \/ \E o \in NsObject : StoresNs(nsName, o)
  BY <1>0, <1>4, DeleteStores DEF DeleteErrorNamespace, UndoNamespace, beyondNs
<1>5. CASE PoolReconcile \/ CreateRefused \/ ProvideClowdEnv \/ ProvisionNamespace
           \/ PickExcess \/ UpdatePoolStatus
  BY <1>5
  DEF PoolReconcile, CreateRefused, ProvideClowdEnv, ProvisionNamespace, PickExcess,
      UpdatePoolStatus, clusterVars
<1>6. MarkReady \/ MarkExcess \/ OwnNamespace \/ DeleteErrorNamespace \/ UndoNamespace
        => nsName \in Namespace
  BY <1>0
  DEF MarkReady, MarkExcess, OwnNamespace, DeleteErrorNamespace, UndoNamespace, PoolHands
<1>7. EnvMarkError \/ EnvMarkReady => envNs \in Namespace
  BY <1>0 DEF EnvMarkError, EnvMarkReady, EnvTypeOK
<1>8. CASE PoolWorkerStep
  BY <1>0, <1>1, <1>2, <1>4, <1>5, <1>6, <1>8, OwnStores, CreateStores DEF PoolWorkerStep
<1>9. ASSUME NEW n \in Namespace, EnvReconcile(n) \/ EnvEvent(n)
      PROVE  UNCHANGED nsVars
  BY <1>9 DEF EnvReconcile, EnvEvent, clusterVars
<1>10. CASE EnvWorkerStep
  BY <1>3, <1>7, <1>9, <1>10 DEF EnvWorkerStep, CreateFrontendEnv, CreateShimServices, clusterVars
<1>11. ASSUME NEW n \in Namespace, NamespaceEvent(n)
       PROVE  DeliverNs(n)
  BY <1>11 DEF NamespaceEvent
<1>12. ASSUME NEW s \in Sizes, ResizePool(s)
       PROVE  UNCHANGED nsVars
  BY <1>12 DEF ResizePool, clusterVars
<1>13. CASE PoolCrash
  BY <1>13 DEF PoolCrash, Restarts
<1>14. CASE UNCHANGED poolSystemVars
  BY <1>14 DEF poolSystemVars, clusterVars
<1> QED
  BY <1>0, <1>8, <1>9, <1>10, <1>11, <1>12, <1>13, <1>14, CheckOutStores,
     CollectStores DEF Next

-----------------------------------------------------------------------------
(***************************************************************************)
(* Owners.  A namespace is only given to the pool while nobody owns it:    *)
(* the worker takes the one it has just created, and the Update of the     *)
(* older copy of a namespace that was checked out meanwhile is a conflict. *)
(***************************************************************************)
AbsentUnowned == \A n \in Namespace : ns[n].phase = "Absent" => ns[n].owner = NoOwner

SeenOwned ==
    \A n \in Namespace : \A v \in nsWatch[n] \cup {nsCache[n]} :
        v.owner # NoOwner => ns[n].owner # NoOwner

TakenOwned == taking # NoNamespace => ns[taking].owner # NoOwner

OwnUnowned == poolPc = "own" => ns[nsName].owner = NoOwner

OwnerInv == NsVersions /\ AbsentUnowned /\ SeenOwned /\ TakenOwned /\ OwnUnowned

\* What is stored is what the namespace becomes, and the others stay.
LEMMA StoredFields ==
    ASSUME NsTyped, NEW n \in Namespace, NEW o \in NsObject, StoresNs(n, o)
    PROVE  /\ \A m \in Namespace \ {n} : ns'[m] = ns[m]
           /\ ns'[n].phase = o.phase /\ ns'[n].owner = o.owner
           /\ ns'[n].env = o.env
  BY WrittenNs DEF StoresNs

LEMMA StepVersions ==
    ASSUME TypeInv, NsVersions, [Next]_poolSystemVars
    PROVE  NsVersions'
<1>0. NsTyped
  BY DEF TypeInv, TypeOK, ClusterTypeOK, NsTyped
<1>1. CASE UNCHANGED nsVars
  BY <1>1 DEF nsVars, NsVersions
<1>2. ASSUME NEW n \in Namespace, NEW o \in NsObject, StoresNs(n, o)
      PROVE  NsVersions'
  BY <1>0, <1>2, WriteVersions DEF StoresNs
<1> QED
  BY <1>0, <1>1, <1>2, StepStores, DeliverVersions, RestartVersions DEF Restarts

\* How the worker comes to have a new namespace in hand.
LEMMA StepBegins ==
    ASSUME TypeInv, [Next]_poolSystemVars, poolPc' = "own"
    PROVE  \/ \E n \in Namespace : CreateNamespace(n)
           \/ poolPc = "own" /\ nsName' = nsName
<1>0. PoolHands
  BY DEF TypeInv
<1>1. CASE PoolWorkerStep
  BY <1>0, <1>1
  DEF PoolWorkerStep, PoolReconcile, MarkErrorNamespace, DeleteErrorNamespace,
      CreateRefused, OwnNamespace, ProvideClowdEnv, ProvisionNamespace, MarkReady,
      UndoNamespace, PickExcess, MarkExcess, UpdatePoolStatus,
      EndReconcile, NextNamespace, InHand, SizeStep
<1>2. CASE PoolCrash
  BY <1>2 DEF PoolCrash, EndReconcile
<1>3. CASE ~PoolWorkerStep /\ ~PoolCrash
  BY <1>3 DEF Next, NamespaceEvent, ResizePool, poolVars, poolWorkerVars, poolSystemVars
<1> QED
  BY <1>1, <1>2, <1>3

\* Once somebody owns a namespace somebody always does.
OwnersStay ==
    \A n \in Namespace : ns[n].owner # NoOwner => ns'[n].owner # NoOwner

LEMMA StoredOwner ==
    ASSUME TypeInv, OwnerInv, NEW n \in Namespace, NEW o \in NsObject, StoresNs(n, o)
    PROVE  /\ ns'[n].phase # "Absent"
           /\ ns[n].owner # NoOwner => ns'[n].owner # NoOwner
           /\ IsReservationUid(ns[n].owner) => IsReservationUid(ns'[n].owner)
           /\ \/ ns'[n].owner = ns[n].owner
              \/ poolPc = "own" /\ poolPc' # "own" /\ n = nsName
              \/ n = taking /\ taking # NoNamespace
<1>0. NsTyped /\ n # NoNamespace
  BY ClusterAssumption DEF TypeInv, TypeOK, ClusterTypeOK, NsTyped
<1>1. ns'[n].phase = o.phase /\ ns'[n].owner = o.owner
  BY <1>0, StoredFields
<1>2. Begun(n, o) \/ Taken(n, o) \/ Marked(n, o) \/ Lent(n, o) \/ Dying(n, o) \/ Dead(n, o)
  BY DEF StoresNs
<1>3. CASE Begun(n, o)
  BY <1>1, <1>3 DEF Begun, OwnerInv, AbsentUnowned
<1>4. CASE Taken(n, o)
  BY <1>1, <1>4
  DEF Taken, OwnerInv, OwnUnowned, Exists, PoolUid, NoOwner, IsReservationUid
<1>5. CASE Lent(n, o)
  BY <1>0, <1>1, <1>5 DEF Lent, Exists, NoOwner, IsReservationUid
<1>6. CASE Marked(n, o) \/ Dying(n, o) \/ Dead(n, o)
  BY <1>1, <1>6 DEF Marked, Dying, Dead, SameOwner, Exists
<1> QED
  BY <1>2, <1>3, <1>4, <1>5, <1>6

LEMMA StepOwner ==
    ASSUME TypeInv, OwnerInv, [Next]_poolSystemVars
    PROVE  /\ OwnerInv' /\ OwnersStay
           /\ \A n \in Namespace :
                IsReservationUid(ns[n].owner) => IsReservationUid(ns'[n].owner)
<1>0. NsTyped /\ PoolHands /\ NsVersions /\ CheckOutTypeOK
  BY DEF TypeInv, TypeOK, ClusterTypeOK, NsTyped, OwnerInv
<1> DEFINE Moves(n) == \/ ns'[n].owner = ns[n].owner
                       \/ poolPc = "own" /\ poolPc' # "own" /\ n = nsName
                       \/ n = taking /\ taking # NoNamespace
<1>1. /\ AbsentUnowned' /\ SeenOwned' /\ OwnersStay /\ \A n \in Namespace : Moves(n)
      /\ \A n \in Namespace :
           IsReservationUid(ns[n].owner) => IsReservationUid(ns'[n].owner)
  <2>1. CASE UNCHANGED nsVars
    BY <2>1 DEF nsVars, OwnerInv, AbsentUnowned, SeenOwned, OwnersStay
  <2>2. ASSUME NEW n \in Namespace, DeliverNs(n)
        PROVE  SeenOwned' /\ UNCHANGED ns
    <3>1. /\ \A m \in Namespace :
               nsWatch'[m] \cup {nsCache'[m]} \subseteq nsWatch[m] \cup {nsCache[m]}
          /\ UNCHANGED ns
      BY <1>0, <2>2 DEF DeliverNs, NsTyped
    <3> QED
      BY <3>1 DEF OwnerInv, SeenOwned
  <2>3. CASE Restarts
    <3>1. \A n \in Namespace : nsCache'[n] = ns'[n] /\ nsWatch'[n] = {}
      BY <2>3 DEF Restarts
    <3> QED
      BY <2>3, <3>1 DEF Restarts, OwnerInv, AbsentUnowned, SeenOwned, OwnersStay
  <2>4. ASSUME NEW n \in Namespace, NEW o \in NsObject, StoresNs(n, o)
        PROVE  /\ AbsentUnowned' /\ SeenOwned' /\ OwnersStay
               /\ \A m \in Namespace : Moves(m)
               /\ \A m \in Namespace :
                    IsReservationUid(ns[m].owner) => IsReservationUid(ns'[m].owner)
    <3>1. /\ \A m \in Namespace \ {n} : ns'[m] = ns[m] /\ nsWatch'[m] = nsWatch[m]
          /\ nsWatch'[n] \subseteq nsWatch[n] \cup {ns'[n]}
          /\ nsCache' = nsCache
      BY <1>0, <2>4, WrittenNs DEF StoresNs
    <3>2. /\ ns'[n].phase # "Absent"
          /\ ns[n].owner # NoOwner => ns'[n].owner # NoOwner
          /\ IsReservationUid(ns[n].owner) => IsReservationUid(ns'[n].owner)
          /\ Moves(n)
      BY <2>4, StoredOwner
    <3>3. \A m \in Namespace : m # n => Moves(m)
      BY <3>1
    <3> HIDE DEF Moves
    <3>4. SeenOwned'
      BY <3>1, <3>2 DEF OwnerInv, SeenOwned
    <3> QED
      BY <3>1, <3>2, <3>3, <3>4 DEF OwnerInv, AbsentUnowned, OwnersStay
  <2>5. UNCHANGED ns => /\ AbsentUnowned' /\ OwnersStay /\ \A n \in Namespace : Moves(n)
                        /\ \A n \in Namespace :
                             IsReservationUid(ns[n].owner) => IsReservationUid(ns'[n].owner)
    BY DEF OwnerInv, AbsentUnowned, OwnersStay
  <2> HIDE DEF Moves
  <2> QED
    BY <1>0, <2>1, <2>2, <2>3, <2>4, <2>5, StepStores DEF nsVars
<1>2. NsVersions'
  BY <1>0, StepVersions
<1>3. TakenOwned'
  <2>1. ASSUME NEW n \in Namespace, Pick(n)
        PROVE  TakenOwned'
    <3>1. taking' = n /\ UNCHANGED ns /\ nsCache[n].owner # NoOwner
      BY <2>1 DEF Pick, clusterVars, nsVars, IsReady, OwnedByPool, PoolUid, NoOwner
    <3> QED
      BY <3>1 DEF OwnerInv, SeenOwned, TakenOwned
  <2>2. CASE taking' = taking
    BY <1>0, <1>1, <2>2 DEF OwnerInv, TakenOwned, OwnersStay, CheckOutTypeOK
  <2>3. CASE taking' = NoNamespace
    BY <2>3 DEF TakenOwned
  <2> QED
    BY <2>1, <2>2, <2>3 DEF Next, CheckOut, Condemn, Take, LetGo, poolSystemVars
<1>4. ASSUME poolPc' = "own"
      PROVE  ns'[nsName'].owner = NoOwner
  <2>1. CASE poolPc = "own" /\ nsName' = nsName
    BY <1>0, <1>1, <1>4, <2>1 DEF OwnerInv, OwnUnowned, TakenOwned, PoolHands
  <2>2. ASSUME NEW n \in Namespace, CreateNamespace(n)
        PROVE  ns'[nsName'].owner = NoOwner
    <3>1. poolPc = "create" /\ nsName' = n /\ ns[n].phase = "Absent" /\ ns[n].owner = NoOwner
      BY <2>2 DEF CreateNamespace, OwnerInv, AbsentUnowned
    <3> QED
      BY <1>1, <3>1 DEF OwnerInv, TakenOwned
  <2> QED
    BY <1>4, <2>1, <2>2, StepBegins
<1> QED
  BY <1>1, <1>2, <1>3, <1>4 DEF OwnerInv, OwnUnowned

LEMMA OwnerInit ==
    ASSUME Init
    PROVE  OwnerInv
<1>1. AbsentUnowned /\ SeenOwned
  BY DEF Init, ClusterInit, AbsentUnowned, SeenOwned, AbsentNs
<1> QED
  BY <1>1, InitVersions DEF Init, CheckOutInit, PoolInit, OwnerInv, TakenOwned, OwnUnowned

\* Neither controller ever puts a namespace that was checked out back into
\* the pool, however old the copy of it was that the cache showed.
THEOREM NotGivenBack == Spec => NeverBackToPool
<1>1. Init => TypeInv /\ OwnerInv
  BY TypeInit, OwnerInit
<1>2. TypeInv /\ OwnerInv /\ [Next]_poolSystemVars => (TypeInv /\ OwnerInv)'
  BY TypeStep, StepOwner
<1>3. TypeInv /\ OwnerInv /\ [Next]_poolSystemVars
        => [\A n \in Namespace :
              IsReservationUid(ns[n].owner) => IsReservationUid(ns'[n].owner)]_poolSystemVars
  BY StepOwner
<1> QED
  BY <1>1, <1>2, <1>3, PTL DEF Spec, NeverBackToPool

-----------------------------------------------------------------------------
(***************************************************************************)
(* A pool without Clowder: its worker marks a namespace ready itself, and  *)
(* only has one in hand to mark that it has provisioned.                   *)
(***************************************************************************)
ProvisionInv ==
    /\ clowdEnvs = {}
    /\ \A n \in Namespace : ns[n].env = "ready" => n \in provisioned
    /\ poolPc = "ready" => nsName \in provisioned

LEMMA StepProvisions ==
    ASSUME ~ClowderPool, TypeInv, [Next]_poolSystemVars
    PROVE  /\ clowdEnvs' = clowdEnvs
           /\ provisioned \subseteq provisioned'
           /\ poolPc' = "ready" => \/ poolPc = "ready" /\ nsName' = nsName
                                   \/ nsName' \in provisioned'
<1>0. PoolHands
  BY DEF TypeInv
<1>1. CASE PoolWorkerStep
  <2>1. CASE PoolReconcile \/ DeleteErrorNamespace \/ CreateRefused \/ OwnNamespace
             \/ UndoNamespace \/ PickExcess \/ MarkExcess \/ UpdatePoolStatus \/ MarkReady
    BY <1>0, <2>1
    DEF PoolReconcile, DeleteErrorNamespace, CreateRefused, OwnNamespace, MarkReady,
        UndoNamespace, PickExcess, MarkExcess, UpdatePoolStatus, EndReconcile,
        NextNamespace, InHand, SizeStep, belongings, beyondNs
  <2>2. CASE \E n \in Namespace : MarkErrorNamespace(n) \/ CreateNamespace(n)
    BY <2>2 DEF MarkErrorNamespace, CreateNamespace, EndReconcile, belongings, beyondNs
  <2>3. CASE ProvisionNamespace
    BY <1>0, <2>3 DEF ProvisionNamespace, InHand
  <2>4. ~ProvideClowdEnv
    BY <1>0 DEF ProvideClowdEnv, PoolHands
  <2> QED
    BY <1>1, <2>1, <2>2, <2>3, <2>4 DEF PoolWorkerStep
<1>2. CASE EnvWorkerStep /\ UNCHANGED poolVars
  BY <1>2
  DEF EnvWorkerStep, EnvReconcile, CreateFrontendEnv, CreateShimServices, EnvMarkError,
      EnvMarkReady, poolVars, poolWorkerVars
<1>3. CASE PoolCrash
  BY <1>3 DEF PoolCrash, RestartEnvController, EndReconcile
<1>4. CASE \/ \E n \in Namespace : NamespaceEvent(n)
           \/ \E n \in Namespace : EnvEvent(n) /\ UNCHANGED poolVars
           \/ UNCHANGED <<poolVars, envVars>>
           \/ \E s \in Sizes : ResizePool(s)
           \/ UNCHANGED poolSystemVars
  BY <1>4
  DEF NamespaceEvent, EnvEvent, ResizePool, poolVars, poolWorkerVars, envVars, belongings,
      poolSystemVars
<1> QED
  BY <1>1, <1>2, <1>3, <1>4 DEF Next

LEMMA ProvisionStep ==
    ASSUME ~ClowderPool, TypeInv, OwnerInv, ProvisionInv, [Next]_poolSystemVars
    PROVE  ProvisionInv'
<1>0. NsTyped /\ EnvHands /\ NsVersions
  BY DEF TypeInv, TypeOK, ClusterTypeOK, NsTyped, OwnerInv
<1>1. /\ clowdEnvs' = {}
      /\ provisioned \subseteq provisioned'
      /\ poolPc' = "ready" => nsName' \in provisioned'
  BY StepProvisions DEF ProvisionInv
<1>2. ASSUME NEW n \in Namespace, NEW o \in NsObject, StoresNs(n, o)
      PROVE  \A m \in Namespace : ns'[m].env = "ready" => m \in provisioned
  <2>1. /\ \A m \in Namespace \ {n} : ns'[m] = ns[m]
        /\ ns'[n].env = o.env
    BY <1>0, <1>2, StoredFields
  <2>2. Begun(n, o) \/ Taken(n, o) \/ Marked(n, o) \/ Lent(n, o) \/ Dying(n, o) \/ Dead(n, o)
    BY <1>2 DEF StoresNs
  <2>3. envPc = "idle"
    BY <1>0 DEF EnvHands, ProvisionInv
  <2>4. o.env = "ready" => n \in provisioned
    BY <2>2, <2>3 DEF ProvisionInv, Begun, Taken, Marked, MayMark, Lent, Dying, Dead
  <2> QED
    BY <2>1, <2>4 DEF ProvisionInv
<1>3. \A m \in Namespace : ns'[m].env = "ready" => m \in provisioned
  <2>1. CASE ns' = ns
    BY <2>1 DEF ProvisionInv
  <2> QED
    BY <1>0, <1>2, <2>1, StepStores DEF nsVars, DeliverNs, Restarts
<1> QED
  BY <1>1, <1>3 DEF ProvisionInv

\* In a pool without Clowder no namespace is offered to users that was not
\* given its limits, quotas and secrets, whichever call fails and wherever the
\* operator dies while a namespace is set up.
THEOREM ReadyWasProvisioned ==
    ASSUME ~ClowderPool
    PROVE  Spec => []ReadyIsProvisioned
<1>1. Init => TypeInv /\ OwnerInv /\ ProvisionInv
  <2>1. ASSUME Init
        PROVE  ProvisionInv
    BY <2>1 DEF Init, ClusterInit, EnvInit, PoolInit, ProvisionInv, AbsentNs
  <2> QED
    BY <2>1, TypeInit, OwnerInit
<1>2. TypeInv /\ OwnerInv /\ ProvisionInv /\ [Next]_poolSystemVars
        => (TypeInv /\ OwnerInv /\ ProvisionInv)'
  BY TypeStep, StepOwner, ProvisionStep
<1>3. ProvisionInv => ReadyIsProvisioned
  BY DEF ProvisionInv, ReadyIsProvisioned, IsReady
<1> QED
  BY <1>1, <1>2, <1>3, PTL DEF Spec

-----------------------------------------------------------------------------
(***************************************************************************)
(* What the cache shows of the life of a namespace: never that it does not *)
(* exist yet once it showed it, and its end only after it.                 *)
(***************************************************************************)
SeenInv ==
    \A n \in Namespace :
        /\ ns[n].phase = "Absent" => ns[n].env = "none"
        /\ nsCache[n].phase # "Absent" => ns[n].phase # "Absent"
        /\ \A v \in nsWatch[n] : v.phase # "Absent"
        /\ \A v \in nsWatch[n] \cup {nsCache[n]} : v.phase = "Gone" => ns[n].phase = "Gone"

\* The life of a namespace only goes on.
LEMMA StoredPhase ==
    ASSUME NsTyped, NEW n \in Namespace, NEW o \in NsObject, StoresNs(n, o)
    PROVE  /\ ns[n].phase # "Gone"
           /\ ns'[n].phase # "Absent"
           /\ ns'[n].phase = "Active" => ns[n].phase \in {"Absent", "Active"}
<1>1. ns'[n].phase = o.phase
  BY StoredFields
<1>2. Begun(n, o) \/ Taken(n, o) \/ Marked(n, o) \/ Lent(n, o) \/ Dying(n, o) \/ Dead(n, o)
  BY DEF StoresNs
<1> QED
  BY <1>1, <1>2
  DEF Begun, Taken, Marked, Lent, Dying, Dead, Exists, IsReady, OwnedByPool

LEMMA StepPhase ==
    ASSUME TypeInv, NsVersions, [Next]_poolSystemVars, NEW n \in Namespace
    PROVE  /\ ns'[n].phase = "Absent" => ns'[n] = ns[n]
           /\ ns'[n].phase = "Active" => ns[n].phase \in {"Absent", "Active"}
<1>0. NsTyped
  BY DEF TypeInv, TypeOK, ClusterTypeOK, NsTyped
<1>1. ASSUME NEW m \in Namespace, NEW o \in NsObject, StoresNs(m, o)
      PROVE  ns'[n] = ns[n] \/ m = n
  BY <1>0, <1>1, StoredFields
<1> QED
  BY <1>0, <1>1, StepStores, StoredPhase DEF nsVars, DeliverNs, Restarts

LEMMA StepSeen ==
    ASSUME TypeInv, NsVersions, SeenInv, [Next]_poolSystemVars
    PROVE  SeenInv'
<1>0. NsTyped
  BY DEF TypeInv, TypeOK, ClusterTypeOK, NsTyped
<1>1. CASE UNCHANGED nsVars
  BY <1>1 DEF nsVars, SeenInv
<1>2. ASSUME NEW n \in Namespace, DeliverNs(n)
      PROVE  SeenInv'
  <2>1. PICK v \in nsWatch[n] :
          /\ nsCache' = [nsCache EXCEPT ![n] = v]
          /\ nsWatch' = [nsWatch EXCEPT ![n] = @ \ {v}]
    BY <1>2 DEF DeliverNs
  <2>2. /\ ns' = ns
        /\ nsCache'[n] = v /\ nsWatch'[n] = nsWatch[n] \ {v}
        /\ \A m \in Namespace \ {n} : nsCache'[m] = nsCache[m] /\ nsWatch'[m] = nsWatch[m]
    BY <1>0, <1>2, <2>1 DEF DeliverNs, NsTyped
  <2>3. ns[n] \in nsWatch[n]
    BY <2>1 DEF NsVersions
  <2> QED
    BY <2>2, <2>3 DEF SeenInv
<1>3. CASE Restarts
  <2>1. \A n \in Namespace : nsCache'[n] = ns'[n] /\ nsWatch'[n] = {} /\ ns'[n] = ns[n]
    BY <1>3 DEF Restarts
  <2> QED
    BY <2>1 DEF SeenInv
<1>4. ASSUME NEW n \in Namespace, NEW o \in NsObject, StoresNs(n, o)
      PROVE  SeenInv'
  <2>1. /\ \A m \in Namespace \ {n} : ns'[m] = ns[m] /\ nsWatch'[m] = nsWatch[m]
        /\ nsWatch'[n] \subseteq nsWatch[n] \cup {ns'[n]}
        /\ nsCache' = nsCache
    BY <1>0, <1>4, WrittenNs DEF StoresNs
  <2>2. ns[n].phase # "Gone" /\ ns'[n].phase # "Absent"
    BY <1>0, <1>4, StoredPhase
  <2> QED
    BY <2>1, <2>2 DEF SeenInv
<1> QED
  BY <1>1, <1>2, <1>3, <1>4, StepStores

-----------------------------------------------------------------------------
(***************************************************************************)
(* Failures.                                                               *)
(***************************************************************************)
LEMMA CallFaults ==
    ASSUME NEW can, NEW result, faults \in Nat, Call(can, result)
    PROVE  faults' = faults \/ faults' = faults - 1
  BY DEF Call

\* The failures that may still happen only become fewer.
LEMMA StepFaults ==
    ASSUME TypeInv, [Next]_poolSystemVars
    PROVE  faults' = faults \/ faults' = faults - 1
<1>0. faults \in Nat
  BY DEF TypeInv, TypeOK, ClusterTypeOK
<1>1. ASSUME NEW n, NEW result, Retried(n, result)
      PROVE  faults' = faults \/ faults' = faults - 1
  BY <1>0, <1>1, CallFaults DEF Retried
<1>2. ASSUME NEW n, NEW env, NEW result, UpdateAnnotations(n, env, result)
      PROVE  faults' = faults \/ faults' = faults - 1
  BY <1>1, <1>2 DEF UpdateAnnotations
<1>3. ASSUME NEW n, NEW result, DeleteNs(n, result)
      PROVE  faults' = faults \/ faults' = faults - 1
  BY <1>0, <1>3, CallFaults DEF DeleteNs
<1>4. CASE PoolWorkerStep
  <2>1. CASE PoolReconcile \/ CreateRefused \/ PickExcess
    BY <2>1 DEF PoolReconcile, CreateRefused, PickExcess, clusterVars
  <2>2. CASE \/ \E n \in Namespace : MarkErrorNamespace(n)
             \/ MarkReady \/ MarkExcess
    BY <1>2, <2>2 DEF MarkErrorNamespace, MarkReady, MarkExcess
  <2>3. CASE DeleteErrorNamespace \/ UndoNamespace \/ OwnNamespace
    BY <1>1, <1>3, <2>3 DEF DeleteErrorNamespace, UndoNamespace, OwnNamespace
  <2>4. CASE \/ \E n \in Namespace : CreateNamespace(n)
             \/ ProvideClowdEnv \/ ProvisionNamespace \/ UpdatePoolStatus
    BY <1>0, <2>4, CallFaults
    DEF CreateNamespace, ProvideClowdEnv, ProvisionNamespace, UpdatePoolStatus
  <2> QED
    BY <1>4, <2>1, <2>2, <2>3, <2>4 DEF PoolWorkerStep
<1>5. CASE EnvWorkerStep
  <2>1. CASE \E n \in Namespace : EnvReconcile(n)
    BY <2>1 DEF EnvReconcile, clusterVars
  <2>2. CASE CreateFrontendEnv \/ CreateShimServices
    BY <2>2 DEF CreateFrontendEnv, CreateShimServices, clusterVars
  <2>3. CASE EnvMarkError \/ EnvMarkReady
    BY <1>2, <2>3 DEF EnvMarkError, EnvMarkReady
  <2> QED
    BY <1>5, <2>1, <2>2, <2>3 DEF EnvWorkerStep
<1>6. ASSUME NEW n \in Namespace, NamespaceEvent(n) \/ EnvEvent(n) \/ Collect(n)
      PROVE  faults' = faults
  BY <1>6
  DEF NamespaceEvent, DeliverNs, EnvEvent, clusterVars, Collect, GarbageCollect,
      FinalizeNamespace
<1>7. CASE PoolCrash
  BY <1>7 DEF PoolCrash
<1>8. CASE (\E s \in Sizes : ResizePool(s)) \/ UNCHANGED poolSystemVars
  BY <1>8 DEF ResizePool, clusterVars, poolSystemVars
<1>9. CASE CheckOut
  BY <1>0, <1>2, <1>9, CallFaults DEF CheckOut, Pick, Condemn, Take, LetGo, clusterVars
<1> QED
  BY <1>4, <1>5, <1>6, <1>7, <1>8, <1>9 DEF Next

-----------------------------------------------------------------------------
(***************************************************************************)
(* The pool controller and the ClowdEnvironment controller implement what  *)
(* the reservation controller is told of them: ImplementsPool.             *)
(***************************************************************************)
\* PoolAbstraction and the controllers speak of the same API calls.
LEMMA SameCalls ==
    /\ UNCHANGED Pool!clusterVars <=> UNCHANGED clusterVars
    /\ UNCHANGED Pool!besidesNs <=> UNCHANGED <<nsCache, roleBinding, resVars, capiVars, now>>
    /\ Pool!Results = Results
    /\ Pool!EmptyNs = EmptyNs
    /\ \A o : /\ Pool!Owned(o) = Owned(o)
              /\ Pool!Exists(o) <=> Exists(o)
              /\ Pool!OwnedByPool(o) <=> OwnedByPool(o)
              /\ Pool!IsReady(o) <=> IsReady(o)
    /\ \A result : Pool!Applied(result) <=> Applied(result)
    /\ \A can, result : Pool!Call(can, result) <=> Call(can, result)
    /\ \A n, o : Pool!WriteNs(n, o) <=> WriteNs(n, o)
    /\ \A n, result : Pool!Retried(n, result) <=> Retried(n, result)
    /\ \A n, result : Pool!DeleteNs(n, result) <=> DeleteNs(n, result)
    /\ \A n, env, result :
         Pool!UpdateAnnotations(n, env, result) <=> UpdateAnnotations(n, env, result)
  BY DEF Pool!clusterVars, clusterVars, Pool!nsVars, nsVars, Pool!resVars, resVars,
         Pool!capiVars, capiVars, Pool!besidesNs, Pool!Results, Results, Pool!EmptyNs,
         EmptyNs, Pool!AbsentNs, AbsentNs, Pool!NoOwner, NoOwner, Pool!Owned, Owned,
         Pool!Exists, Exists, Pool!OwnedByPool, OwnedByPool, Pool!PoolUid, PoolUid,
         Pool!IsReady, IsReady, Pool!Applied, Applied, Pool!Call, Call, Pool!WriteNs,
         WriteNs, Pool!Retried, Retried, Pool!DeleteNs, DeleteNs, Pool!UpdateAnnotations,
         UpdateAnnotations

\* The plans of a worker that has at most the namespace in hand in mind, and
\* those of one that deletes namespaces in error.
Held(plan) == [n \in Namespace |-> IF n = nsName THEN plan ELSE "none"]
Listed(plan) == [n \in Namespace |-> IF n = nsName THEN plan
                                     ELSE IF n \in errNamespaceList THEN "mark" ELSE "none"]

PlanShape ==
    /\ poolPc \in {"idle", "create", "status"} => PoolPlans = Pool!NoPlans
    /\ poolPc = "own" => PoolPlans = Held("own")
    /\ poolPc \in {"clowdenv", "provision", "ready"} => PoolPlans = Held("prepare")
    /\ poolPc = "undo" => PoolPlans = Held("delete")
    /\ poolPc = "retire" => PoolPlans = Held("retire")
    /\ poolPc = "mark" => PoolPlans = Listed("none")
    /\ poolPc = "delete" => PoolPlans = Listed("delete")
    /\ nsName = NoNamespace => \A plan : Held(plan) = Pool!NoPlans
    /\ \A plan : nsName \in Namespace => Held(plan)[nsName] = plan /\ Listed(plan)[nsName] = plan

LEMMA PlanShapes ==
    PlanShape /\ PlanShape'
<1>1. PlanShape
  BY ClusterAssumption DEF PlanShape, PoolPlans, PlanFor, Held, Listed, Pool!NoPlans
<1>2. PlanShape'
  BY ClusterAssumption DEF PlanShape, PoolPlans, PlanFor, Held, Listed, Pool!NoPlans
<1> QED
  BY <1>1, <1>2

\* Between two reconciles, and before it has chosen one, the worker has no
\* namespace in hand.
HandsEmpty == poolPc \in {"idle", "mark", "create"} => nsName = NoNamespace

LEMMA StepEmpties ==
    ASSUME TypeInv, HandsEmpty, [Next]_poolSystemVars
    PROVE  HandsEmpty'
<1>0. PoolHands
  BY DEF TypeInv
<1>1. ASSUME NEW again, EndReconcile(again)
      PROVE  HandsEmpty'
  BY <1>1 DEF EndReconcile, HandsEmpty
<1>2. CASE NextNamespace
  BY <1>2 DEF NextNamespace, HandsEmpty
<1>3. ASSUME NEW step, InHand(step), step \notin {"idle", "mark", "create"}
      PROVE  HandsEmpty'
  BY <1>3 DEF InHand, HandsEmpty
<1>4. CASE UNCHANGED <<poolPc, nsName>>
  BY <1>4 DEF HandsEmpty
<1>5. CASE PoolReconcile \/ DeleteErrorNamespace \/ CreateRefused
           \/ \E n \in Namespace : MarkErrorNamespace(n) \/ CreateNamespace(n)
  BY <1>1, <1>5
  DEF PoolReconcile, DeleteErrorNamespace, CreateRefused, MarkErrorNamespace, CreateNamespace,
      HandsEmpty
<1>6. CASE OwnNamespace \/ ProvideClowdEnv
  BY <1>1, <1>3, <1>6 DEF OwnNamespace, ProvideClowdEnv
<1>7. CASE ProvisionNamespace \/ MarkReady \/ UndoNamespace
  BY <1>1, <1>2, <1>3, <1>7 DEF ProvisionNamespace, MarkReady, UndoNamespace
<1>8. CASE PickExcess \/ MarkExcess \/ UpdatePoolStatus
  BY <1>1, <1>8 DEF PickExcess, MarkExcess, UpdatePoolStatus, HandsEmpty
<1>9. CASE PoolCrash
  BY <1>1, <1>9 DEF PoolCrash
<1>10. CASE ~PoolWorkerStep /\ ~PoolCrash
  BY <1>4, <1>10
  DEF Next, NamespaceEvent, ResizePool, poolVars, poolWorkerVars, poolSystemVars
<1> QED
  BY <1>5, <1>6, <1>7, <1>8, <1>9, <1>10 DEF PoolWorkerStep

\* What the cache shows owned it will not show without an owner again, so the
\* ClowdEnvironments whose events passed the filter are those of a pool.
OwnedInOrder ==
    \A n \in Namespace :
        /\ \A v \in nsWatch[n] : nsCache[n].rv =< v.rv
        /\ \A v, w \in nsWatch[n] \cup {nsCache[n]} :
             v.owner # NoOwner /\ v.rv =< w.rv => w.owner # NoOwner

EnvKnows ==
    /\ OwnedInOrder
    /\ clowdEnvs # {} => ClowderPool
    /\ \A n \in envQueue : nsCache[n].owner # NoOwner
    /\ envPc # "idle" => nsCache[envNs].owner # NoOwner

CacheKeepsOwners ==
    \A n \in Namespace : nsCache[n].owner # NoOwner => nsCache'[n].owner # NoOwner

LEMMA StepOrders ==
    ASSUME TypeInv, OwnerInv, OwnedInOrder, [Next]_poolSystemVars
    PROVE  OwnedInOrder' /\ CacheKeepsOwners
<1>0. NsTyped /\ NsVersions /\ SeenOwned
  BY DEF TypeInv, TypeOK, ClusterTypeOK, NsTyped, OwnerInv
<1>1. CASE UNCHANGED nsVars
  BY <1>1 DEF nsVars, OwnedInOrder, CacheKeepsOwners
<1>2. ASSUME NEW n \in Namespace, DeliverNs(n)
      PROVE  OwnedInOrder' /\ CacheKeepsOwners
  <2>1. PICK v \in nsWatch[n] :
          /\ \A w \in nsWatch[n] : v.rv =< w.rv
          /\ nsCache' = [nsCache EXCEPT ![n] = v]
          /\ nsWatch' = [nsWatch EXCEPT ![n] = @ \ {v}]
    BY <1>2 DEF DeliverNs, IsOldest
  <2>2. /\ nsCache'[n] = v /\ nsWatch'[n] = nsWatch[n] \ {v}
        /\ \A m \in Namespace \ {n} : nsCache'[m] = nsCache[m] /\ nsWatch'[m] = nsWatch[m]
    BY <1>0, <2>1 DEF NsTyped
  <2> QED
    BY <2>1, <2>2 DEF OwnedInOrder, CacheKeepsOwners
<1>3. CASE Restarts
  <2>1. \A n \in Namespace : nsCache'[n] = ns[n] /\ nsWatch'[n] = {}
    BY <1>3 DEF Restarts
  <2> QED
    BY <1>0, <2>1 DEF OwnedInOrder, CacheKeepsOwners, SeenOwned
<1>4. ASSUME NEW n \in Namespace, NEW o \in NsObject, StoresNs(n, o)
      PROVE  OwnedInOrder' /\ CacheKeepsOwners
  <2>1. /\ \A m \in Namespace \ {n} : nsWatch'[m] = nsWatch[m]
        /\ \/ nsWatch'[n] = nsWatch[n]
           \/ ns'[n].rv = ns[n].rv + 1 /\ nsWatch'[n] = nsWatch[n] \cup {ns'[n]}
        /\ nsCache' = nsCache
    BY <1>0, <1>4, WrittenNs DEF StoresNs
  <2>2. \A v \in nsWatch[n] \cup {nsCache[n]} :
          /\ v.rv \in Nat /\ v.rv =< ns[n].rv
          /\ v.owner # NoOwner => ns'[n].owner # NoOwner
    BY <1>0, StepOwner DEF NsTyped, NsObject, NsVersions, SeenOwned, OwnersStay
  <2>3. ns[n].rv \in Nat
    BY <1>0 DEF NsTyped, NsObject
  <2>4. CASE nsWatch'[n] = nsWatch[n]
    BY <2>1, <2>4 DEF OwnedInOrder, CacheKeepsOwners
  <2>5. CASE ns'[n].rv = ns[n].rv + 1 /\ nsWatch'[n] = nsWatch[n] \cup {ns'[n]}
    <3>1. \A v \in nsWatch[n] \cup {nsCache[n]} : v.rv =< ns'[n].rv /\ ~(ns'[n].rv =< v.rv)
      BY <2>2, <2>3, <2>5
    <3> QED
      BY <2>1, <2>2, <2>5, <3>1 DEF OwnedInOrder, CacheKeepsOwners
  <2> QED
    BY <2>1, <2>4, <2>5
<1> QED
  BY <1>0, <1>1, <1>2, <1>3, <1>4, StepStores

LEMMA StepQueues ==
    ASSUME TypeInv, [Next]_poolSystemVars
    PROVE  /\ \A n \in envQueue' : \/ n \in envQueue
                                   \/ n = envNs /\ envPc # "idle"
                                   \/ nsCache'[n].owner # NoOwner
           /\ envPc' # "idle" => \/ envPc # "idle" /\ envNs' = envNs
                                 \/ envNs' \in envQueue
<1>1. CASE UNCHANGED envWorkerVars
  BY <1>1 DEF envWorkerVars
<1>2. CASE EnvWorkerStep
  BY <1>2
  DEF EnvWorkerStep, EnvReconcile, CreateFrontendEnv, CreateShimServices, EnvMarkError,
      EnvMarkReady, EnvGoto, EndEnvReconcile
<1>3. ASSUME NEW n \in Namespace, EnvEvent(n)
      PROVE  envQueue' = envQueue \cup {n} /\ nsCache'[n].owner # NoOwner
             /\ UNCHANGED <<envPc, envNs>>
  BY <1>3 DEF EnvEvent, clusterVars, nsVars, OwnedByPool, PoolUid, NoOwner
<1>4. CASE PoolCrash
  BY <1>4 DEF PoolCrash, RestartEnvController, OwnedByPool, PoolUid, NoOwner
<1> QED
  BY <1>1, <1>2, <1>3, <1>4 DEF Next, envVars, poolSystemVars

LEMMA StepKnows ==
    ASSUME TypeInv, OwnerInv, EnvKnows, [Next]_poolSystemVars
    PROVE  EnvKnows'
<1>0. EnvTypeOK /\ PoolHands
  BY DEF TypeInv, TypeOK
<1>1. clowdEnvs' # {} => ClowderPool
  <2>1. clowdEnvs' = clowdEnvs \/ poolPc = "clowdenv"
    <3>1. CASE PoolWorkerStep
      BY <3>1
      DEF PoolWorkerStep, PoolReconcile, MarkErrorNamespace, DeleteErrorNamespace,
          CreateNamespace, CreateRefused, OwnNamespace, ProvideClowdEnv, ProvisionNamespace,
          MarkReady, UndoNamespace, PickExcess, MarkExcess, UpdatePoolStatus, belongings,
          beyondNs
    <3>2. CASE ~PoolWorkerStep
      BY <3>2
      DEF Next, EnvWorkerStep, EnvReconcile, CreateFrontendEnv, CreateShimServices,
          EnvMarkError, EnvMarkReady, NamespaceEvent, EnvEvent, ResizePool, PoolCrash,
          RestartEnvController, envVars, belongings, poolSystemVars
    <3> QED
      BY <3>1, <3>2
  <2> QED
    BY <1>0, <2>1 DEF EnvKnows, PoolHands
<1>2. OwnedInOrder' /\ CacheKeepsOwners
  BY StepOrders DEF EnvKnows
<1>3. /\ \A n \in envQueue' : nsCache'[n].owner # NoOwner
      /\ envPc' # "idle" => nsCache'[envNs'].owner # NoOwner
  <2>1. envQueue \in SUBSET Namespace /\ (envPc # "idle" => envNs \in Namespace)
    BY <1>0 DEF EnvTypeOK
  <2> QED
    BY <1>2, <2>1, StepQueues DEF EnvKnows, CacheKeepsOwners
<1> QED
  BY <1>1, <1>2, <1>3 DEF EnvKnows

\* How the plans go on with the worker.
LEMMA NoneInHand ==
    ASSUME NextNamespace \/ \E again : EndReconcile(again)
    PROVE  PoolPlans' = Pool!NoPlans
<1>1. poolPc' \in {"idle", "create", "status"}
  BY DEF NextNamespace, EndReconcile
<1> QED
  BY <1>1, PlanShapes DEF PlanShape

LEMMA HeldGoesOn ==
    ASSUME NEW step, InHand(step)
    PROVE  /\ step \in {"clowdenv", "provision", "ready"} => PoolPlans' = Held("prepare")
           /\ step = "undo" => PoolPlans' = Held("delete")
<1>1. poolPc' = step /\ nsName' = nsName
  BY DEF InHand
<1>2. \A plan : Held(plan)' = Held(plan)
  BY <1>1 DEF Held
<1> QED
  BY <1>1, <1>2, PlanShapes DEF PlanShape

LEMMA IntendHeld ==
    ASSUME nsName \in Namespace, NEW old, NEW plan
    PROVE  /\ [Held(old) EXCEPT ![nsName] = plan] = Held(plan)
           /\ Held("none") = Pool!NoPlans
           /\ Held(old)[nsName] = old
  BY DEF Held, Pool!NoPlans

LEMMA SetUpImplements ==
    ASSUME PoolHands
    PROVE  /\ \A n \in Namespace : CreateNamespace(n) => Pool!CreateNamespace(n)
           /\ OwnNamespace => Pool!OwnNamespace(nsName)
           /\ MarkReady => Pool!MarkReady(nsName)
           /\ UndoNamespace => Pool!DeleteNamespace(nsName)
<1>1. ASSUME NEW n \in Namespace, CreateNamespace(n)
      PROVE  Pool!CreateNamespace(n)
  <2>1. /\ poolPc = "create" /\ poolPc' = "own" /\ nsName' = n
        /\ UNCHANGED <<nsCache, roleBinding, resVars, capiVars, now>>
    BY <1>1 DEF CreateNamespace
  <2>2. PoolPlans = Pool!NoPlans /\ PoolPlans' = Held("own")'
    BY <2>1, PlanShapes DEF PlanShape
  <2>3. PoolPlans' = [PoolPlans EXCEPT ![n] = "own"]
    BY <2>1, <2>2 DEF Held, Pool!NoPlans
  <2>4. \E result \in Results :
          /\ Call(TRUE, result)
          /\ IF Applied(result) THEN WriteNs(n, EmptyNs) ELSE UNCHANGED <<ns, nsWatch>>
    BY <1>1 DEF CreateNamespace
  <2> QED
    BY <1>1, <2>1, <2>2, <2>3, <2>4, SameCalls
    DEF CreateNamespace, Pool!CreateNamespace, Pool!Intend
<1>2. ASSUME OwnNamespace
      PROVE  Pool!OwnNamespace(nsName)
  <2>1. PICK result \in Results :
          /\ Retried(nsName, result)
          /\ IF Applied(result)
             THEN WriteNs(nsName, Owned(nsCache[nsName]))
             ELSE UNCHANGED <<ns, nsWatch>>
          /\ \/ result = "ok" /\ InHand(IF ClowderPool THEN "clowdenv" ELSE "provision")
             \/ result # "ok" /\ Exists(nsCache[nsName]) /\ InHand("undo")
             \/ result = "failed" /\ EndReconcile(TRUE)
    BY <1>2 DEF OwnNamespace
  <2>2. nsName \in Namespace /\ PoolPlans = Held("own")
    BY <1>2, PlanShapes DEF OwnNamespace, PoolHands, PlanShape
  <2>3. /\ UNCHANGED <<nsCache, roleBinding, resVars, capiVars, now>>
    BY <1>2 DEF OwnNamespace, beyondNs
  <2>4. \/ result = "ok" /\ Pool!Intend(nsName, "prepare")
        \/ result # "ok" /\ Exists(nsCache[nsName]) /\ Pool!Intend(nsName, "delete")
        \/ result = "failed" /\ Pool!GiveUp
    BY <2>1, <2>2, HeldGoesOn, IntendHeld, NoneInHand DEF Pool!Intend, Pool!GiveUp
  <2> QED
    BY <2>1, <2>2, <2>3, <2>4, IntendHeld, SameCalls DEF Pool!OwnNamespace
<1>3. ASSUME MarkReady
      PROVE  Pool!MarkReady(nsName)
  <2>1. PICK result \in Results :
          /\ UpdateAnnotations(nsName, "ready", result)
          /\ IF result = "ok" THEN NextNamespace ELSE InHand("undo")
    BY <1>3 DEF MarkReady
  <2>2. nsName \in Namespace /\ PoolPlans = Held("prepare") /\ ~ClowderPool
    BY <1>3, PlanShapes DEF MarkReady, PoolHands, PlanShape
  <2>3. UNCHANGED <<nsCache, roleBinding, resVars, capiVars, now>>
    BY <1>3 DEF MarkReady, beyondNs
  <2>4. Pool!Intend(nsName, IF result = "ok" THEN "none" ELSE "delete")
    BY <2>1, <2>2, HeldGoesOn, IntendHeld, NoneInHand DEF Pool!Intend
  <2> QED
    BY <2>1, <2>2, <2>3, <2>4, IntendHeld, SameCalls DEF Pool!MarkReady
<1>4. ASSUME UndoNamespace
      PROVE  Pool!DeleteNamespace(nsName)
  <2>1. PICK result \in Results :
          /\ DeleteNs(nsName, result)
          /\ IF result = "ok" THEN NextNamespace ELSE EndReconcile(TRUE)
    BY <1>4 DEF UndoNamespace
  <2>2. nsName \in Namespace /\ PoolPlans = Held("delete")
    BY <1>4, PlanShapes DEF UndoNamespace, PoolHands, PlanShape
  <2>3. UNCHANGED <<nsCache, roleBinding, resVars, capiVars, now>>
    BY <1>4 DEF UndoNamespace, beyondNs
  <2>4. IF result = "ok" THEN Pool!Intend(nsName, "none") ELSE Pool!GiveUp
    BY <2>1, <2>2, IntendHeld, NoneInHand DEF Pool!Intend, Pool!GiveUp
  <2> QED
    BY <2>1, <2>2, <2>3, <2>4, IntendHeld, SameCalls DEF Pool!DeleteNamespace
<1> QED
  BY <1>1, <1>2, <1>3, <1>4

LEMMA PrepareImplements ==
    ASSUME PoolHands, ProvideClowdEnv \/ ProvisionNamespace
    PROVE  \/ Pool!PrepareFails(nsName) \/ Pool!Prepared(nsName)
           \/ UNCHANGED PoolPlans /\ UNCHANGED nsVars
<1>1. /\ nsName \in Namespace /\ PoolPlans = Held("prepare")
      /\ UNCHANGED <<nsVars, roleBinding, resVars, capiVars, now>>
  BY PlanShapes DEF ProvideClowdEnv, ProvisionNamespace, PoolHands, PlanShape
<1>2. ASSUME NEW can \in {Exists(nsCache[nsName]), ns[nsName].phase = "Active"}, NEW result \in Results,
             result # "ok", Call(can, result), InHand("undo")
      PROVE  Pool!PrepareFails(nsName)
  <2>1. Pool!Intend(nsName, "delete")
    BY <1>1, <1>2, HeldGoesOn, IntendHeld DEF Pool!Intend
  <2>2. /\ Pool!Call(can, result)
        /\ can \in {Pool!Exists(nsCache[nsName]), ns[nsName].phase = "Active"} /\ result \in Pool!Results
    BY <1>2, SameCalls DEF Pool!Exists, Exists
  <2>3. UNCHANGED <<ns, nsWatch, Pool!besidesNs>>
    BY <1>1, SameCalls DEF nsVars
  <2>4. PoolPlans[nsName] = "prepare"
    BY <1>1, IntendHeld
  <2> QED
    BY <1>2, <2>1, <2>2, <2>3, <2>4 DEF Pool!PrepareFails
<1>3. ASSUME NEW step \in {"provision", "ready"}, InHand(step)
      PROVE  UNCHANGED PoolPlans /\ UNCHANGED nsVars
  BY <1>1, <1>3, HeldGoesOn
<1>4. CASE ProvideClowdEnv
  <2>1. PICK result \in Results :
          /\ Call(Exists(nsCache[nsName]), result)
          /\ InHand(IF result = "ok" THEN "provision" ELSE "undo")
    BY <1>4 DEF ProvideClowdEnv
  <2> QED
    BY <1>2, <1>3, <2>1
<1>5. CASE ProvisionNamespace
  <2>1. PICK result \in {"ok", "failed"} :
          /\ Call(ns[nsName].phase = "Active", result)
          /\ IF result = "ok"
             THEN IF ClowderPool THEN NextNamespace ELSE InHand("ready")
             ELSE InHand("undo")
    BY <1>5 DEF ProvisionNamespace
  <2>2. CASE result = "ok" /\ ClowderPool
    <3>1. UNCHANGED clusterVars
      BY <1>1, <2>1, <2>2 DEF Call, clusterVars
    <3>2. Pool!Intend(nsName, "none") /\ PoolPlans[nsName] = "prepare"
      BY <1>1, <2>1, <2>2, IntendHeld, NoneInHand DEF Pool!Intend
    <3> QED
      BY <2>2, <3>1, <3>2, SameCalls DEF Pool!Prepared
  <2>3. CASE result = "ok" /\ ~ClowderPool
    BY <1>3, <2>1, <2>3
  <2>4. CASE result = "failed"
    BY <1>2, <2>1, <2>4 DEF Results
  <2> QED
    BY <2>2, <2>3, <2>4
<1> QED
  BY <1>4, <1>5

\* Once no namespace in error is left nothing is planned.
LEMMA SizeStepPlans ==
    ASSUME nsName' = NoNamespace, NEW d, poolPc' = SizeStep(d)
    PROVE  PoolPlans' = Pool!NoPlans
<1>1. poolPc' \in {"create", "retire", "status"}
  BY DEF SizeStep
<1> QED
  BY <1>1, PlanShapes DEF PlanShape

LEMMA ReconcileImplements ==
    ASSUME HandsEmpty, PoolReconcile
    PROVE  \/ Pool!PlanDelete
           \/ UNCHANGED PoolPlans /\ UNCHANGED nsVars
<1>1. /\ nsName = NoNamespace /\ nsName' = NoNamespace
      /\ PoolPlans = Pool!NoPlans
      /\ errNamespaceList' = Pooled(nsCache, "error")
      /\ UNCHANGED clusterVars
  BY PlanShapes DEF PoolReconcile, HandsEmpty, PlanShape
<1>2. Pooled(nsCache, "error") = Pool!InError
  BY SameCalls DEF Pooled, Pool!InError
<1>3. CASE Pooled(nsCache, "error") = {}
  <2>1. PoolPlans' = Pool!NoPlans
    BY <1>1, <1>3, SizeStepPlans DEF PoolReconcile
  <2> QED
    BY <1>1, <2>1 DEF clusterVars
<1>4. CASE Pooled(nsCache, "error") # {}
  <2>1. poolPc' = "mark"
    BY <1>4 DEF PoolReconcile
  <2>2. PoolPlans' = Listed("none")'
    BY <2>1, PlanShapes DEF PlanShape
  <2>3. PoolPlans' = [n \in Namespace |-> IF n \in Pool!InError THEN "mark" ELSE "none"]
    BY <1>1, <1>2, <2>2, ClusterAssumption DEF Listed
  <2> QED
    BY <1>1, <1>2, <1>4, <2>3, SameCalls DEF Pool!PlanDelete
<1> QED
  BY <1>3, <1>4

LEMMA DeletionImplements ==
    ASSUME PoolHands, HandsEmpty, errNamespaceList \in SUBSET Namespace
    PROVE  /\ \A n \in Namespace : MarkErrorNamespace(n) => Pool!MarkErrorNamespace(n)
           /\ DeleteErrorNamespace => Pool!DeleteNamespace(nsName)
<1>1. ASSUME NEW n \in Namespace, MarkErrorNamespace(n)
      PROVE  Pool!MarkErrorNamespace(n)
  <2>1. PICK result \in Results :
          /\ UpdateAnnotations(n, "deleting", result)
          /\ IF result = "ok"
             THEN poolPc' = "delete" /\ nsName' = n /\ UNCHANGED errNamespaceList
             ELSE EndReconcile(TRUE)
    BY <1>1 DEF MarkErrorNamespace
  <2>2. /\ n \in errNamespaceList /\ nsName = NoNamespace /\ PoolPlans = Listed("none")
        /\ UNCHANGED <<nsCache, roleBinding, resVars, capiVars, now>>
    BY <1>1, PlanShapes DEF MarkErrorNamespace, HandsEmpty, PlanShape, beyondNs
  <2>3. PoolPlans[n] = "mark"
    BY <2>2, ClusterAssumption DEF Listed
  <2>4. ASSUME result = "ok"
        PROVE  Pool!Intend(n, "delete")
    <3>1. PoolPlans' = Listed("delete")'
      BY <2>1, <2>4, PlanShapes DEF PlanShape
    <3>2. PoolPlans' = [PoolPlans EXCEPT ![n] = "delete"]
      BY <2>1, <2>2, <2>4, <3>1, ClusterAssumption DEF Listed
    <3> QED
      BY <3>2 DEF Pool!Intend
  <2>5. IF result = "ok" THEN Pool!Intend(n, "delete") ELSE Pool!GiveUp
    BY <2>1, <2>4, NoneInHand DEF Pool!GiveUp
  <2> QED
    BY <2>1, <2>2, <2>3, <2>5, SameCalls DEF Pool!MarkErrorNamespace
<1>2. ASSUME DeleteErrorNamespace
      PROVE  Pool!DeleteNamespace(nsName)
  <2>1. PICK result \in Results :
          /\ DeleteNs(nsName, result)
          /\ IF result = "ok"
             THEN /\ errNamespaceList' = errNamespaceList \ {nsName}
                  /\ poolPc' = IF errNamespaceList' = {} THEN SizeStep(delta) ELSE "mark"
                  /\ nsName' = NoNamespace
             ELSE EndReconcile(TRUE)
    BY <1>2 DEF DeleteErrorNamespace
  <2>2. /\ nsName \in Namespace /\ PoolPlans = Listed("delete")
        /\ UNCHANGED <<nsCache, roleBinding, resVars, capiVars, now>>
    BY <1>2, PlanShapes DEF DeleteErrorNamespace, PoolHands, PlanShape, beyondNs
  <2>3. PoolPlans[nsName] = "delete"
    BY <2>2 DEF Listed
  <2>4. ASSUME result = "ok"
        PROVE  PoolPlans' = [PoolPlans EXCEPT ![nsName] = "none"]
    <3>1. CASE errNamespaceList' = {}
      <4>1. PoolPlans' = Pool!NoPlans
        BY <2>1, <2>4, <3>1, SizeStepPlans
      <4>2. \A n \in Namespace \ {nsName} : n \notin errNamespaceList
        BY <2>1, <2>4, <3>1
      <4> QED
        BY <2>2, <4>1, <4>2 DEF Listed, Pool!NoPlans
    <3>2. CASE errNamespaceList' # {}
      <4>1. PoolPlans' = Listed("none")'
        BY <2>1, <2>4, <3>2, PlanShapes DEF PlanShape
      <4> QED
        BY <2>1, <2>2, <2>4, <4>1, ClusterAssumption DEF Listed
    <3> QED
      BY <3>1, <3>2
  <2>5. IF result = "ok" THEN Pool!Intend(nsName, "none") ELSE Pool!GiveUp
    BY <2>1, <2>4, NoneInHand DEF Pool!GiveUp, Pool!Intend
  <2> QED
    BY <2>1, <2>2, <2>3, <2>5, SameCalls DEF Pool!DeleteNamespace
<1> QED
  BY <1>1, <1>2

LEMMA RetirementImplements ==
    ASSUME PoolHands
    PROVE  /\ PickExcess => \/ \E n \in Namespace : Pool!PlanRetire(n)
                            \/ UNCHANGED PoolPlans /\ UNCHANGED nsVars
           /\ MarkExcess => Pool!RetireNamespace(nsName)
<1>1. ASSUME PickExcess
      PROVE  \/ \E n \in Namespace : Pool!PlanRetire(n)
             \/ UNCHANGED PoolPlans /\ UNCHANGED nsVars
  <2>1. nsName = NoNamespace /\ PoolPlans = Pool!NoPlans /\ UNCHANGED clusterVars
    BY <1>1, PlanShapes DEF PickExcess, PlanShape
  <2>2. CASE NotReserved = {}
    <3>1. PoolPlans' = Pool!NoPlans
      BY <1>1, <2>2, PlanShapes DEF PickExcess, PlanShape
    <3> QED
      BY <2>1, <3>1 DEF clusterVars
  <2>3. CASE NotReserved # {}
    <3>1. nsName' \in NotReserved /\ poolPc' = "retire"
      BY <1>1, <2>3 DEF PickExcess
    <3>2. nsName' \in Namespace /\ IsReady(nsCache[nsName']) /\ ~nsCache[nsName'].reserved
      BY <3>1 DEF NotReserved, GetReadyNamespaces
    <3>3. PoolPlans' = Held("retire")'
      BY <3>1, PlanShapes DEF PlanShape
    <3>4. PoolPlans' = [PoolPlans EXCEPT ![nsName'] = "retire"]
      BY <2>1, <3>2, <3>3 DEF Held, Pool!NoPlans
    <3>5. Pool!PlanRetire(nsName')
      BY <2>1, <3>2, <3>4, SameCalls DEF Pool!PlanRetire, Pool!Intend
    <3> QED
      BY <3>2, <3>5
  <2> QED
    BY <2>2, <2>3
<1>2. ASSUME MarkExcess
      PROVE  Pool!RetireNamespace(nsName)
  <2>1. PICK result \in Results :
          /\ UpdateAnnotations(nsName, "error", result)
          /\ IF result = "ok"
             THEN poolPc' \in {"retire", "status"} /\ UNCHANGED nsName
             ELSE EndReconcile(TRUE)
    BY <1>2 DEF MarkExcess
  <2>2. /\ nsName \in Namespace /\ PoolPlans = Held("retire")
        /\ UNCHANGED <<nsCache, roleBinding, resVars, capiVars, now>>
    BY <1>2, PlanShapes DEF MarkExcess, PoolHands, PlanShape, beyondNs
  <2>3. PoolPlans[nsName] = "retire"
    BY <2>2 DEF Held
  <2>4. Pool!GiveUp \/ (result = "ok" /\ UNCHANGED PoolPlans)
    <3>1. CASE result = "ok" /\ poolPc' = "retire"
      <4>1. PoolPlans' = Held("retire")'
        BY <3>1, PlanShapes DEF PlanShape
      <4> QED
        BY <2>1, <2>2, <3>1, <4>1 DEF Held
    <3>2. CASE result = "ok" /\ poolPc' = "status"
      BY <3>2, PlanShapes DEF PlanShape, Pool!GiveUp
    <3>3. CASE result # "ok"
      BY <2>1, <3>3, NoneInHand DEF Pool!GiveUp
    <3> QED
      BY <2>1, <3>1, <3>2, <3>3
  <2> QED
    BY <2>1, <2>2, <2>3, <2>4, SameCalls DEF Pool!RetireNamespace
<1> QED
  BY <1>1, <1>2

\* Whatever does not move the pool's worker leaves its plans alone.
LEMMA PlansStay ==
    ASSUME UNCHANGED <<poolPc, errNamespaceList, nsName>>
    PROVE  UNCHANGED PoolPlans
  BY DEF PoolPlans, PlanFor

LEMMA EnvImplements ==
    ASSUME TypeInv, EnvKnows, EnvWorkerStep, UNCHANGED poolVars
    PROVE  \/ \E n \in Namespace : Pool!EnvStep(n)
           \/ UNCHANGED PoolPlans /\ UNCHANGED nsVars
<1>1. UNCHANGED PoolPlans
  BY PlansStay DEF poolVars, poolWorkerVars
<1>2. CASE (\E n \in Namespace : EnvReconcile(n)) \/ CreateFrontendEnv \/ CreateShimServices
  BY <1>1, <1>2 DEF EnvReconcile, CreateFrontendEnv, CreateShimServices, clusterVars
<1>3. CASE EnvMarkError \/ EnvMarkReady
  <2>1. /\ envPc # "idle" /\ UNCHANGED <<nsCache, roleBinding, resVars, capiVars, now>>
        /\ \E env \in {"error", "ready"}, result \in Results :
             UpdateAnnotations(envNs, env, result)
    BY <1>3 DEF EnvMarkError, EnvMarkReady
  <2>2. envNs \in Namespace /\ ClowderPool /\ nsCache[envNs].owner # NoOwner
    BY <2>1 DEF TypeInv, TypeOK, EnvTypeOK, EnvHands, EnvKnows
  <2>3. Pool!EnvStep(envNs)
    BY <1>1, <2>1, <2>2, SameCalls DEF Pool!EnvStep, Pool!NoOwner, NoOwner
  <2> QED
    BY <2>2, <2>3
<1> QED
  BY <1>2, <1>3 DEF EnvWorkerStep

LEMMA WorkerImplements ==
    ASSUME TypeInv, HandsEmpty, PoolWorkerStep
    PROVE  \/ Pool!PlanDelete
           \/ \E n \in Namespace : Pool!PoolStep(n)
           \/ UNCHANGED PoolPlans /\ UNCHANGED nsVars
<1>0. PoolHands /\ errNamespaceList \in SUBSET Namespace
  BY DEF TypeInv, PoolHands
<1>1. nsName \in Namespace
        \/ (poolPc \notin {"delete", "own", "clowdenv", "provision", "ready", "undo"}
            /\ nsName = NoNamespace)
  BY <1>0 DEF PoolHands
<1>2. CASE PoolReconcile
  BY <1>2, ReconcileImplements
<1>3. CASE \E n \in Namespace : MarkErrorNamespace(n)
  BY <1>0, <1>3, DeletionImplements DEF Pool!PoolStep
<1>4. CASE DeleteErrorNamespace
  <2>1. nsName \in Namespace
    BY <1>1, <1>4 DEF DeleteErrorNamespace
  <2> QED
    BY <1>0, <1>4, <2>1, DeletionImplements DEF Pool!PoolStep
<1>5. CASE \E n \in Namespace : CreateNamespace(n)
  BY <1>0, <1>5, SetUpImplements DEF Pool!PoolStep
<1>6. CASE CreateRefused
  <2>1. PoolPlans = Pool!NoPlans /\ PoolPlans' = Pool!NoPlans /\ UNCHANGED nsVars
    BY <1>6, PlanShapes, NoneInHand DEF CreateRefused, PlanShape, clusterVars
  <2> QED
    BY <2>1
<1>7. CASE OwnNamespace \/ MarkReady \/ UndoNamespace
  <2>1. nsName \in Namespace
    BY <1>1, <1>7 DEF OwnNamespace, MarkReady, UndoNamespace
  <2> QED
    BY <1>0, <1>7, <2>1, SetUpImplements DEF Pool!PoolStep
<1>8. CASE ProvideClowdEnv \/ ProvisionNamespace
  <2>1. nsName \in Namespace
    BY <1>1, <1>8 DEF ProvideClowdEnv, ProvisionNamespace
  <2> QED
    BY <1>0, <1>8, <2>1, PrepareImplements DEF Pool!PoolStep
<1>9. CASE PickExcess
  BY <1>0, <1>9, RetirementImplements DEF Pool!PoolStep
<1>10. CASE MarkExcess
  <2>1. nsName \in Namespace
    BY <1>1, <1>10 DEF MarkExcess
  <2> QED
    BY <1>0, <1>10, <2>1, RetirementImplements DEF Pool!PoolStep
<1>11. CASE UpdatePoolStatus
  <2>1. PoolPlans = Pool!NoPlans /\ PoolPlans' = Pool!NoPlans /\ UNCHANGED nsVars
    BY <1>11, PlanShapes, NoneInHand DEF UpdatePoolStatus, PlanShape
  <2> QED
    BY <2>1
<1> QED
  BY <1>2, <1>3, <1>4, <1>5, <1>6, <1>7, <1>8, <1>9, <1>10, <1>11 DEF PoolWorkerStep

LEMMA StepImplements ==
    ASSUME TypeInv, HandsEmpty, EnvKnows, Next
    PROVE  \/ Pool!PlanDelete
           \/ \E n \in Namespace : Pool!PoolStep(n) \/ Pool!EnvStep(n)
           \/ /\ UNCHANGED PoolPlans
              /\ \/ UNCHANGED nsVars
                 \/ CheckOut
                 \/ \E n \in Namespace : DeliverNs(n) \/ Collect(n)
           \/ PoolCrash
<1>1. CASE PoolWorkerStep
  BY <1>1, WorkerImplements
<1>2. CASE EnvWorkerStep /\ UNCHANGED poolVars
  BY <1>2, EnvImplements
<1>3. ASSUME NEW n \in Namespace, NamespaceEvent(n)
      PROVE  UNCHANGED PoolPlans /\ DeliverNs(n)
  BY <1>3, PlansStay DEF NamespaceEvent, poolWorkerVars
<1>4. ASSUME NEW n \in Namespace, EnvEvent(n), UNCHANGED poolVars
      PROVE  UNCHANGED PoolPlans /\ UNCHANGED nsVars
  BY <1>4, PlansStay DEF EnvEvent, poolVars, poolWorkerVars, clusterVars
<1>5. CASE (CheckOut \/ \E n \in Namespace : Collect(n)) /\ UNCHANGED poolVars
  <2>1. UNCHANGED PoolPlans
    BY <1>5, PlansStay DEF poolVars, poolWorkerVars
  <2> QED
    BY <1>5, <2>1
<1>6. ASSUME NEW s \in Sizes, ResizePool(s)
      PROVE  UNCHANGED PoolPlans /\ UNCHANGED nsVars
  BY <1>6, PlansStay DEF ResizePool, clusterVars
<1> QED
  BY <1>1, <1>2, <1>3, <1>4, <1>5, <1>6 DEF Next

\* Whatever the pool controller and the ClowdEnvironment controller do to a
\* namespace is what the reservation controller was proved correct against: they
\* mark and delete by name only what was planned while the cache showed that it
\* was right, and crashes, faults and check-outs change no plan.
THEOREM PoolImplemented == Spec => ImplementsPool
<1>1. Init => TypeInv /\ OwnerInv /\ HandsEmpty /\ EnvKnows
  <2>1. Init => HandsEmpty
    BY DEF Init, PoolInit, HandsEmpty
  <2>2. Init => OwnedInOrder
    BY DEF Init, ClusterInit, OwnedInOrder
  <2>3. Init => EnvKnows
    BY <2>2 DEF Init, EnvInit, EnvKnows
  <2> QED
    BY <2>1, <2>3, TypeInit, OwnerInit
<1>2. TypeInv /\ OwnerInv /\ HandsEmpty /\ EnvKnows /\ [Next]_poolSystemVars
        => (TypeInv /\ OwnerInv /\ HandsEmpty /\ EnvKnows)'
  BY TypeStep, StepOwner, StepEmpties, StepKnows
<1>3. TypeInv /\ HandsEmpty /\ EnvKnows /\ [Next]_poolSystemVars
        => [\/ Pool!PlanDelete
            \/ \E n \in Namespace : Pool!PoolStep(n) \/ Pool!EnvStep(n)
            \/ /\ UNCHANGED PoolPlans
               /\ \/ UNCHANGED nsVars
                  \/ CheckOut
                  \/ \E n \in Namespace : DeliverNs(n) \/ Collect(n)
            \/ PoolCrash]_poolSystemVars
  BY StepImplements
<1> QED
  BY <1>1, <1>2, <1>3, PTL DEF Spec, ImplementsPool

-----------------------------------------------------------------------------
(***************************************************************************)
(* FrontendEnvironments: until one is created its namespace is in error    *)
(* before the worker comes to mark it ready, and nobody but the worker of  *)
(* the pool, which had it in hand before it had an owner, could take that  *)
(* error back.                                                             *)
(***************************************************************************)
FrontInv == envPc = "ready" => envNs \in frontendEnvs \/ ns[envNs].env # "creating"

\* How the worker of the ClowdEnvironment controller comes to mark one ready.
LEMMA StepFronts ==
    ASSUME TypeInv, NsVersions, [Next]_poolSystemVars
    PROVE  /\ frontendEnvs \subseteq frontendEnvs'
           /\ envPc' = "ready" => \/ envPc = "ready" /\ envNs' = envNs
                                  \/ envNs' \in frontendEnvs
                                  \/ ns'[envNs'].env = "error"
<1>0. NsTyped /\ EnvHands /\ EnvTypeOK
  BY DEF TypeInv, TypeOK, ClusterTypeOK, NsTyped
<1>1. CASE UNCHANGED <<envPc, envNs, frontendEnvs>>
  BY <1>1
<1>2. CASE (\E n \in Namespace : EnvReconcile(n)) \/ CreateFrontendEnv \/ CreateShimServices
  BY <1>0, <1>2
  DEF EnvReconcile, CreateFrontendEnv, CreateShimServices, EnvGoto, EnvHands, frontendVars
<1>3. CASE EnvMarkError
  <2>1. PICK result \in Results :
          /\ UpdateAnnotations(envNs, "error", result)
          /\ IF result = "ok"
             THEN envPc' = "ready" /\ UNCHANGED <<envNs, envQueue>>
             ELSE EndEnvReconcile(TRUE)
    BY <1>3 DEF EnvMarkError
  <2>2. envNs \in Namespace /\ UNCHANGED frontendEnvs
    BY <1>0, <1>3 DEF EnvMarkError, EnvTypeOK, frontendVars
  <2>3. CASE result = "ok"
    <3>1. WriteNs(envNs, [ns[envNs] EXCEPT !.env = "error"])
          /\ [ns[envNs] EXCEPT !.env = "error"] \in NsObject /\ ns[envNs] \in NsObject
      BY <1>0, <2>1, <2>2, <2>3, AnnotationsWritten DEF EnvStatus, Applied, NsTyped
    <3>2. ns'[envNs].env = "error"
      BY <1>0, <2>2, <3>1, WrittenNs DEF NsObject
    <3> QED
      BY <2>1, <2>2, <2>3, <3>2
  <2>4. CASE result # "ok"
    BY <2>1, <2>2, <2>4 DEF EndEnvReconcile
  <2> QED
    BY <2>3, <2>4
<1>4. CASE EnvMarkReady
  BY <1>4 DEF EnvMarkReady, EndEnvReconcile, frontendVars
<1>5. CASE PoolCrash
  BY <1>5 DEF PoolCrash, RestartEnvController, frontendVars
<1> QED
  BY <1>1, <1>2, <1>3, <1>4, <1>5
  DEF Next, EnvWorkerStep, EnvEvent, envVars, envWorkerVars, frontendVars, poolSystemVars

\* Who changes an env-status from or to creating, and to ready.
LEMMA StepEnv ==
    ASSUME TypeInv, OwnerInv, [Next]_poolSystemVars, NEW n \in Namespace
    PROVE  /\ ns'[n].env = "creating" => ns[n].env = "creating" \/ ns[n].owner = NoOwner
           /\ ns'[n].env = "ready" => \/ ns[n].env = "ready"
                                      \/ poolPc = "ready" /\ n = nsName
                                      \/ envPc = "ready" /\ n = envNs
<1>0. NsTyped /\ NsVersions
  BY DEF TypeInv, TypeOK, ClusterTypeOK, NsTyped, OwnerInv
<1>1. CASE ns' = ns
  BY <1>1
<1>2. ASSUME NEW m \in Namespace, NEW o \in NsObject, StoresNs(m, o)
      PROVE  /\ ns'[n].env = "creating" => ns[n].env = "creating" \/ ns[n].owner = NoOwner
             /\ ns'[n].env = "ready" => \/ ns[n].env = "ready"
                                        \/ poolPc = "ready" /\ n = nsName
                                        \/ envPc = "ready" /\ n = envNs
  <2>1. /\ \A k \in Namespace \ {m} : ns'[k] = ns[k]
        /\ ns'[m].env = o.env
    BY <1>0, <1>2, StoredFields
  <2>2. Begun(m, o) \/ Taken(m, o) \/ Marked(m, o) \/ Lent(m, o) \/ Dying(m, o) \/ Dead(m, o)
    BY <1>2 DEF StoresNs
  <2> QED
    BY <2>1, <2>2
    DEF Begun, Taken, Marked, MayMark, Lent, Dying, Dead, OwnerInv, OwnUnowned
<1> QED
  BY <1>0, <1>1, <1>2, StepStores DEF nsVars, DeliverNs, Restarts

LEMMA FrontStep ==
    ASSUME TypeInv, OwnerInv, EnvKnows, FrontInv, [Next]_poolSystemVars
    PROVE  FrontInv'
<1>1. /\ frontendEnvs \subseteq frontendEnvs'
      /\ envPc' = "ready" => \/ envPc = "ready" /\ envNs' = envNs
                             \/ envNs' \in frontendEnvs
                             \/ ns'[envNs'].env = "error"
  BY StepFronts DEF OwnerInv
<1>2. ASSUME envPc = "ready"
      PROVE  ns'[envNs].env = "creating" => ns[envNs].env = "creating"
  <2>1. envNs \in Namespace /\ ns[envNs].owner # NoOwner
    BY <1>2 DEF TypeInv, TypeOK, EnvTypeOK, EnvKnows, OwnerInv, SeenOwned
  <2> QED
    BY <2>1, StepEnv
<1> QED
  BY <1>1, <1>2 DEF FrontInv

\* No namespace of a pool with Clowder is marked ready right after its set-up
\* unless its FrontendEnvironment was created: whichever call fails, as often as
\* the reconcile is repeated and wherever the operator dies, although the
\* reconcile goes on after an error and marks the namespace ready.
THEOREM FrontendComesFirst == Spec => FrontendBeforeReady
<1> DEFINE Inv == TypeInv /\ OwnerInv /\ EnvKnows /\ FrontInv
<1>1. Init => Inv
  <2>1. Init => EnvKnows /\ FrontInv
    BY DEF Init, ClusterInit, EnvInit, OwnedInOrder, EnvKnows, FrontInv
  <2> QED
    BY <2>1, TypeInit, OwnerInit
<1>2. Inv /\ [Next]_poolSystemVars => Inv'
  BY TypeStep, StepOwner, StepKnows, FrontStep
<1>3. Inv /\ [Next]_poolSystemVars
        => [\A n \in Namespace :
              ClowderPool /\ ns[n].env = "creating" /\ ns'[n].env = "ready"
                  => n \in frontendEnvs]_poolSystemVars
  <2>1. ASSUME Inv, [Next]_poolSystemVars, NEW n \in Namespace,
               ClowderPool, ns[n].env = "creating", ns'[n].env = "ready"
        PROVE  n \in frontendEnvs
    <3>1. poolPc # "ready"
      BY <2>1 DEF TypeInv, PoolHands
    <3> QED
      BY <2>1, <3>1, StepEnv DEF FrontInv
  <2> QED
    BY <2>1
<1> QED
  BY <1>1, <1>2, <1>3, PTL DEF Spec, FrontendBeforeReady
=============================================================================
