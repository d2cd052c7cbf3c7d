-------------------------- MODULE NamespaceProofs --------------------------
(***************************************************************************)
(* What a holder finds in its namespace, and what is removed by force when *)
(* it goes, for any number of secrets, reservations, clusters, machine     *)
(* pools, faults and crashes.                                              *)
(***************************************************************************)
EXTENDS NamespaceLife, TLAPS

USE ApiCallsAssumption, SecretCopyAssumption, CapiCleanupAssumption

\* A copy that has had no failure has copied what is not left to do; a
\* check-out that has got further has copied everything, and the copy of its
\* team's secrets replaces nothing.
CopyProgress ==
    /\ copyPc = "idle" => copyFor = SetUp
    /\ copyPc \in {"team", "teamcopy", "update"} => copyFor \in Reservation
    /\ copyPc \in {"copy", "recreate"} =>
         /\ copyFor \in Sourced \cup {SetUp}
         /\ \A s \in todo : Eligible(s)
         /\ replacing \subseteq todo
         /\ ~anyFailed /\ copyFor \in Sourced =>
              \A s \in Secret : Eligible(s) => s \in todo \/ content[s] = copyFor
    /\ copyPc \in {"team", "teamcopy", "update"} /\ copyFor \in Sourced =>
         \A s \in Secret : Eligible(s) => content[s] = copyFor
    /\ Taken => copyPc = "idle"

SecretInv == SecretTypeOK /\ CopyProgress /\ SourceCopied

\* A machine pool that was found stuck does not get younger.
CleanupInv ==
    /\ CapiTypeOK
    /\ \A p \in stuck : age[p] = stuckDeletionThreshold
    /\ NotForcedEarly

-----------------------------------------------------------------------------
(***************************************************************************)
(* The secrets.                                                            *)
(***************************************************************************)
LEMMA CallType ==
    ASSUME NEW can, NEW result, faults \in Nat, Call(can, result)
    PROVE  faults' \in Nat
  BY DEF Call

LEMMA FaultsType ==
    ASSUME faults \in Nat, [Next]_vars
    PROVE  faults' \in Nat
<1>1. ASSUME CopyStep
      PROVE  faults' \in Nat
  <2>1. ASSUME NEW s \in Secret,
               CopySecret(s) \/ ReplaceSecret(s) \/ RecreateSecret(s) \/ CopyTeamSecret(s)
        PROVE  faults' \in Nat
    BY <2>1, CallType DEF CopySecret, ReplaceSecret, RecreateSecret, CopyTeamSecret
  <2>2. CASE SetUpSecrets \/ TakeNamespace
    BY <2>2, CallType DEF SetUpSecrets, TakeNamespace
  <2>3. CASE CopyReturns \/ TeamReturns
    BY <2>3 DEF CopyReturns, TeamReturns
  <2>4. CASE FindTeam
    BY <2>4 DEF FindTeam
  <2> QED
    BY <1>1, <2>1, <2>2, <2>3, <2>4 DEF CopyStep
<1>2. ASSUME NEW r \in Reservation, CheckOut(r)
      PROVE  faults' \in Nat
  BY <1>2, CallType DEF CheckOut
<1>3. ASSUME CleanupNext
      PROVE  faults' \in Nat
  BY <1>3, CallType
  DEF CleanupNext, CleanupStep, CapiControllers, Unfair, DeleteCAPIResources,
      ListMachinePools, RemoveFinalizer, AfterPools, ReleaseFinalizer, WaitForWorkers,
      FinishCluster, DeliverClusters, TimePasses, DeleteReservation, DeployCluster,
      LoseCluster, FinishPool
<1>4. ASSUME Crash
      PROVE  faults' \in Nat
  BY <1>4 DEF Crash
<1> QED
  BY <1>1, <1>2, <1>3, <1>4 DEF Next, vars

\* A copy that ends, or that has one secret behind it.
LEMMA LeaveInv ==
    ASSUME SecretInv, Leave, content' = content,
           place' \in {"new", "pooled", "taken", "wasted"},
           holder' \in Reservation \cup {SetUp},
           place' = "taken" =>
             /\ holder' \in Reservation
             /\ holder' \in Sourced => \A s \in Secret : Eligible(s) => content[s] = holder'
    PROVE  SecretInv'
<1> USE DEF SecretInv, Leave, Proceed
<1>1. SecretTypeOK'
  BY DEF SecretTypeOK
<1>2. CopyProgress'
  BY DEF CopyProgress
<1>3. SourceCopied'
  BY DEF SourceCopied, Taken, Eligible
<1> QED
  BY <1>1, <1>2, <1>3

LEMMA CopyDoneInv ==
    ASSUME SecretInv, copyPc \in {"copy", "recreate"},
           NEW s \in todo, NEW ok \in BOOLEAN, CopyDone(s, ok),
           content' = content \/ content' = [content EXCEPT ![s] = copyFor]
                              \/ content' = [content EXCEPT ![s] = "none"],
           ok /\ copyFor \in Sourced => content'[s] = copyFor,
           copyPc = "recreate" => s \in replacing
    PROVE  SecretInv'
<1> USE DEF SecretInv, CopyDone
<1>1. SecretTypeOK'
  BY DEF SecretTypeOK, Origin, CopyProgress
<1>2. CopyProgress'
  BY DEF CopyProgress, SecretTypeOK, Eligible, Taken
<1>3. SourceCopied'
  BY DEF CopyProgress, SecretTypeOK, SourceCopied, Taken, Eligible
<1> QED
  BY <1>1, <1>2, <1>3

LEMMA SetUpInv ==
    ASSUME SecretInv, SetUpSecrets
    PROVE  SecretInv'
<1>1. CASE Leave
  BY <1>1, LeaveInv DEF SetUpSecrets, SecretInv, SecretTypeOK
<1>2. CASE Proceed("copy", {s \in Secret : Eligible(s)}) /\ UNCHANGED <<place, copyFor, holder, content>>
  BY <1>2 DEF SetUpSecrets, SecretInv, SecretTypeOK, CopyProgress, SourceCopied, Taken, Eligible, Proceed
<1> QED
  BY <1>1, <1>2 DEF SetUpSecrets

LEMMA CheckOutInv ==
    ASSUME SecretInv, NEW r \in Reservation, CheckOut(r)
    PROVE  SecretInv'
<1>1. CASE Leave
  BY <1>1, LeaveInv DEF CheckOut, SecretInv, SecretTypeOK
<1>2. ASSUME copyFor' = r, UNCHANGED <<place, holder, content>>, place = "pooled",
             IF r \in Sourced
             THEN Proceed("copy", {s \in Secret : Eligible(s)})
             ELSE Proceed(AfterSource(r), {})
      PROVE  SecretInv'
  BY <1>2
  DEF SecretInv, SecretTypeOK, CopyProgress, SourceCopied, Taken, Eligible, Proceed,
      AfterSource
<1> QED
  BY <1>1, <1>2 DEF CheckOut

LEMMA CopyStepInv ==
    ASSUME SecretInv, CopyStep
    PROVE  SecretInv'
<1> USE DEF SecretInv
<1>1. ASSUME NEW s \in Secret, CopySecret(s)
      PROVE  SecretInv'
  <2>1. PICK result \in Results :
          Call(TRUE, result) /\ Store(s, copyFor, result) /\ CopyDone(s, result = "ok")
    BY <1>1 DEF CopySecret
  <2> QED
    BY <1>1, <2>1, CopyDoneInv DEF CopySecret, Store, Results, Applied, SecretTypeOK
<1>2. ASSUME NEW s \in Secret, ReplaceSecret(s)
      PROVE  SecretInv'
  <2>1. CASE ~overwrite
    BY <1>2, <2>1, CopyDoneInv DEF ReplaceSecret, overwrite
  <2>2. CASE overwrite
    <3>1. PICK result \in Results :
            /\ Call(TRUE, result)
            /\ Store(s, "none", result)
            /\ IF result = "ok"
               THEN /\ copyPc' = "recreate" /\ replacing' = {s}
                    /\ UNCHANGED <<place, holder, copyFor, todo, anyFailed>>
               ELSE CopyDone(s, FALSE)
      BY <1>2, <2>2 DEF ReplaceSecret
    <3>2. CASE result = "ok"
      <4>1. content' = [content EXCEPT ![s] = "none"]
        BY <3>1, <3>2 DEF Store, Applied
      <4>2. SecretTypeOK'
        BY <1>2, <3>1, <3>2, <4>1 DEF SecretTypeOK, Origin, ReplaceSecret
      <4>3. CopyProgress'
        BY <1>2, <3>1, <3>2, <4>1 DEF SecretTypeOK, CopyProgress, ReplaceSecret, Eligible, Taken
      <4>4. SourceCopied'
        BY <1>2, <3>1, <3>2, <4>1
        DEF SecretTypeOK, CopyProgress, SourceCopied, ReplaceSecret, Eligible, Taken
      <4> QED
        BY <4>2, <4>3, <4>4
    <3>3. CASE result # "ok"
      BY <1>2, <3>1, <3>3, CopyDoneInv DEF ReplaceSecret, Store, Applied
    <3> QED
      BY <3>2, <3>3
  <2> QED
    BY <2>1, <2>2
<1>3. ASSUME NEW s \in Secret, RecreateSecret(s)
      PROVE  SecretInv'
  <2>1. PICK result \in Results :
          Call(TRUE, result) /\ Store(s, copyFor, result) /\ CopyDone(s, result = "ok")
    BY <1>3 DEF RecreateSecret
  <2> QED
    BY <1>3, <2>1, CopyDoneInv
    DEF RecreateSecret, Store, Results, Applied, SecretTypeOK, CopyProgress
<1>4. ASSUME NEW s \in Secret, CopyTeamSecret(s)
      PROVE  SecretInv'
  <2>1. PICK result \in Results :
          /\ Call(content[s] = "none", result)
          /\ Store(s, "team", result)
          /\ IF result = "ok"
             THEN todo' = todo \ {s} /\ UNCHANGED <<copyPc, copyFor, replacing, anyFailed>>
             ELSE Leave
    BY <1>4 DEF CopyTeamSecret
  <2>2. \/ content' = content
        \/ content[s] = "none" /\ content' = [content EXCEPT ![s] = "team"]
    <3>1. CASE Applied(result)
      <4>1. content[s] = "none"
        BY <2>1, <3>1 DEF Applied, Call
      <4> QED
        BY <2>1, <3>1, <4>1 DEF Store
    <3>2. CASE ~Applied(result)
      BY <2>1, <3>2 DEF Store
    <3> QED
      BY <3>1, <3>2
  <2>3. copyPc = "teamcopy" /\ place # "taken" /\ UNCHANGED <<place, holder>>
    BY <1>4 DEF CopyTeamSecret, CopyProgress, Taken
  <2>4. CASE result = "ok"
    <3>1. SecretTypeOK'
      BY <2>1, <2>2, <2>3, <2>4 DEF SecretTypeOK, Origin
    <3>2. CopyProgress'
      BY <2>1, <2>2, <2>3, <2>4 DEF SecretTypeOK, CopyProgress, Eligible, Taken
    <3>3. SourceCopied'
      BY <2>1, <2>2, <2>3, <2>4 DEF SecretTypeOK, SourceCopied, Eligible, Taken
    <3> QED
      BY <3>1, <3>2, <3>3
  <2>5. CASE result # "ok"
    <3>1. SecretTypeOK'
      BY <2>1, <2>2, <2>3, <2>5 DEF SecretTypeOK, Origin, Leave, Proceed
    <3>2. CopyProgress'
      BY <2>1, <2>2, <2>3, <2>5 DEF CopyProgress, Leave, Proceed
    <3>3. SourceCopied'
      BY <2>1, <2>2, <2>3, <2>5 DEF SecretTypeOK, SourceCopied, Eligible, Taken
    <3> QED
      BY <3>1, <3>2, <3>3
  <2> QED
    BY <2>4, <2>5
<1>5. CASE CopyReturns
  <2>1. CASE Leave
    BY <1>5, <2>1, LeaveInv DEF CopyReturns, SecretTypeOK, CopyProgress, Taken
  <2>2. CASE ~Leave
    <3>1. /\ copyFor # SetUp /\ ~anyFailed /\ todo = {} /\ copyPc = "copy"
          /\ Proceed(AfterSource(copyFor), {})
          /\ UNCHANGED <<place, holder, content, copyFor>>
      BY <1>5, <2>2 DEF CopyReturns, CopyFailed
    <3> QED
      BY <3>1
      DEF Proceed, AfterSource, SecretTypeOK, CopyProgress, SourceCopied, Taken, Eligible
  <2> QED
    BY <2>1, <2>2
<1>6. CASE FindTeam
  <2>1. CASE Leave
    BY <1>6, <2>1, LeaveInv DEF FindTeam, SecretTypeOK, CopyProgress, Taken
  <2>2. CASE ~Leave
    BY <1>6, <2>2
    DEF FindTeam, Proceed, SecretTypeOK, CopyProgress, SourceCopied, Taken, Eligible
  <2> QED
    BY <2>1, <2>2
<1>7. CASE TeamReturns
  BY <1>7
  DEF TeamReturns, Proceed, SecretTypeOK, CopyProgress, SourceCopied, Taken, Eligible
<1>8. CASE TakeNamespace
  <2>1. copyPc = "update" /\ Leave /\ content' = content
    BY <1>8 DEF TakeNamespace
  <2>2. /\ copyFor \in Reservation /\ place # "taken"
        /\ copyFor \in Sourced => \A s \in Secret : Eligible(s) => content[s] = copyFor
    BY <2>1 DEF CopyProgress, Taken
  <2>3. \/ place' = "taken" /\ holder' = copyFor
        \/ place' \in {"wasted", place} /\ holder' = holder
    BY <1>8 DEF TakeNamespace
  <2> QED
    BY <2>1, <2>2, <2>3, LeaveInv DEF SecretTypeOK
<1>9. CASE SetUpSecrets
  BY <1>9, SetUpInv
<1> QED
  BY <1>1, <1>2, <1>3, <1>4, <1>5, <1>6, <1>7, <1>8, <1>9 DEF CopyStep

LEMMA SecretStep ==
    ASSUME SecretInv, [Next]_vars
    PROVE  SecretInv'
<1>1. ASSUME UNCHANGED secretVars
      PROVE  SecretInv'
  BY <1>1
  DEF secretVars, copyVars, SecretInv, SecretTypeOK, CopyProgress, SourceCopied, Taken,
      Eligible
<1>2. CASE Crash
  <2>1. CASE CopyCrash
    BY <2>1, LeaveInv DEF CopyCrash, SecretInv, SecretTypeOK, CopyProgress, Taken
  <2> QED
    BY <1>1, <1>2, <2>1 DEF Crash
<1> QED
  BY <1>1, <1>2, CopyStepInv, CheckOutInv DEF Next, vars

\* A reservation that names a source namespace gets a namespace with that
\* source's secrets, and nothing is copied that must not be, whatever was
\* copied before, and whatever failed or died on the way (CopySecretsFrom,
\* reserveNamespace).
THEOREM SecretsOfTheSource == Spec => []SourceCopied
<1>1. Init => SecretInv
  BY DEF Init, SecretInit, SecretInv, SecretTypeOK, Origin, CopyProgress, SourceCopied,
         Taken, Eligible
<1>2. SecretInv /\ [Next]_vars => SecretInv'
  BY SecretStep
<1>3. SecretInv => SourceCopied
  BY DEF SecretInv
<1> QED
  BY <1>1, <1>2, <1>3, PTL DEF Spec

-----------------------------------------------------------------------------
(***************************************************************************)
(* The cleanup.                                                            *)
(***************************************************************************)
LEMMA EndCleanupInv ==
    ASSUME CleanupInv, EndCleanup, UNCHANGED <<capiSeen, age>>,
           ending' \in {"no", "deleting", "released"},
           capi' \in [CapiCluster -> {"none", "running", "deleting", "waiting", "gone"}],
           \A c \in CapiCluster : capi[c] \in {"waiting", "gone"} => capi'[c] = capi[c],
           pool' = pool
    PROVE  CleanupInv'
<1> USE DEF CleanupInv, EndCleanup
<1>1. CapiTypeOK'
  BY DEF CapiTypeOK
<1>2. NotForcedEarly'
  BY DEF NotForcedEarly, CapiTypeOK
<1> QED
  BY <1>1, <1>2

LEMMA OperatorCleanupInv ==
    ASSUME CleanupInv, CleanupStep
    PROVE  CleanupInv'
<1> USE DEF CleanupInv
<1>1. CASE DeleteCAPIResources
  <2>1. PICK D \in SUBSET capiSeen, result \in Results :
          /\ capi' = [c \in CapiCluster |-> IF c \in D /\ capi[c] = "running"
                                            THEN "deleting" ELSE capi[c]]
          /\ IF result = "ok"
             THEN cleanPc' = "pools" /\ remaining' = SomeRemain /\ UNCHANGED stuck
             ELSE EndCleanup
    BY <1>1 DEF DeleteCAPIResources
  <2>2. /\ UNCHANGED <<ending, capiSeen, pool, age>>
        /\ capi' \in [CapiCluster -> {"none", "running", "deleting", "waiting", "gone"}]
        /\ \A c \in CapiCluster : capi[c] \in {"waiting", "gone"} => capi'[c] = capi[c]
    BY <1>1, <2>1 DEF DeleteCAPIResources, CapiTypeOK
  <2>3. CASE EndCleanup
    BY <2>2, <2>3, EndCleanupInv DEF CapiTypeOK
  <2>4. CASE cleanPc' = "pools" /\ remaining' = SomeRemain /\ UNCHANGED stuck
    <3>1. CapiTypeOK'
      BY <2>2, <2>4 DEF CapiTypeOK, SomeRemain
    <3>2. NotForcedEarly'
      BY <2>2, <2>4 DEF NotForcedEarly, CapiTypeOK
    <3> QED
      BY <2>2, <2>4, <3>1, <3>2
  <2> QED
    BY <2>1, <2>3, <2>4
<1>2. CASE ListMachinePools
  <2>1. UNCHANGED <<ending, capi, capiSeen, pool, age>>
    BY <1>2 DEF ListMachinePools, capiObjects
  <2>2. CASE EndCleanup
    BY <2>1, <2>2, EndCleanupInv DEF CapiTypeOK
  <2>3. CASE cleanPc' = "force" /\ stuck' = LongDeleting /\ UNCHANGED remaining
    <3>1. \A p \in LongDeleting : age[p] = stuckDeletionThreshold
      BY DEF LongDeleting, CapiTypeOK
    <3>2. CapiTypeOK'
      BY <2>1, <2>3 DEF CapiTypeOK, LongDeleting
    <3> QED
      BY <2>1, <2>3, <3>1, <3>2 DEF NotForcedEarly
  <2> QED
    BY <1>2, <2>2, <2>3 DEF ListMachinePools
<1>3. ASSUME NEW p \in MachinePool, RemoveFinalizer(p)
      PROVE  CleanupInv'
  <2>1. PICK result \in Results :
          /\ pool' = IF /\ clusterWaitingForWorkersDeletion(ClusterOf[p])
                        /\ pool[p] = "deleting" /\ Applied(result)
                     THEN [pool EXCEPT ![p] = "forced"] ELSE pool
          /\ IF result = "ok"
             THEN stuck' = stuck \ {p} /\ UNCHANGED <<cleanPc, remaining>>
             ELSE EndCleanup
    BY <1>3 DEF RemoveFinalizer
  <2>2. p \in stuck /\ UNCHANGED <<ending, capi, capiSeen, age>>
    BY <1>3 DEF RemoveFinalizer
  <2>3. /\ cleanPc' \in {"idle", cleanPc} /\ remaining' \in {FALSE, remaining}
        /\ stuck' \subseteq stuck
    BY <2>1 DEF EndCleanup
  <2>4. \/ pool' = pool
        \/ /\ pool' = [pool EXCEPT ![p] = "forced"]
           /\ capi[ClusterOf[p]] \in {"waiting", "gone"}
    BY <2>1 DEF clusterWaitingForWorkersDeletion
  <2>5. CapiTypeOK'
    BY <2>2, <2>3, <2>4 DEF CapiTypeOK
  <2>6. NotForcedEarly'
    BY <2>2, <2>4 DEF NotForcedEarly, CapiTypeOK
  <2> QED
    BY <2>2, <2>3, <2>5, <2>6
<1>4. CASE AfterPools
  <2>1. UNCHANGED <<ending, capi, capiSeen, pool, age>>
    BY <1>4 DEF AfterPools, capiObjects
  <2>2. CASE EndCleanup
    BY <2>1, <2>2, EndCleanupInv DEF CapiTypeOK
  <2>3. CASE cleanPc' = "release" /\ UNCHANGED <<remaining, stuck>>
    BY <2>1, <2>3 DEF CapiTypeOK, NotForcedEarly
  <2> QED
    BY <1>4, <2>2, <2>3 DEF AfterPools
<1>5. CASE ReleaseFinalizer
  <2>1. /\ EndCleanup /\ UNCHANGED <<capi, capiSeen, pool, age>>
        /\ ending' \in {"released", ending}
    BY <1>5 DEF ReleaseFinalizer, capiObjects
  <2> QED
    BY <2>1, EndCleanupInv DEF CapiTypeOK
<1> QED
  BY <1>1, <1>2, <1>3, <1>4, <1>5 DEF CleanupStep

\* The user, the CAPI controllers, the watch and the clock.
LEMMA OthersCleanupInv ==
    ASSUME CleanupInv, CleanupNext, ~CleanupStep
    PROVE  CleanupInv'
<1> USE DEF CleanupInv, CapiTypeOK
<1>1. CASE DeleteReservation
  BY <1>1 DEF DeleteReservation, capiObjects, cleanVars, NotForcedEarly
<1>2. ASSUME NEW c \in CapiCluster, DeployCluster(c)
      PROVE  CleanupInv'
  BY <1>2 DEF DeployCluster, cleanVars, NotForcedEarly
<1>3. ASSUME NEW c \in CapiCluster, LoseCluster(c) \/ FinishCluster(c)
      PROVE  CleanupInv'
  BY <1>3 DEF LoseCluster, FinishCluster, cleanVars, NotForcedEarly
<1>4. ASSUME NEW c \in CapiCluster, WaitForWorkers(c)
      PROVE  CleanupInv'
  BY <1>4 DEF WaitForWorkers, cleanVars, NotForcedEarly, PoolsOf
<1>5. ASSUME NEW p \in MachinePool, FinishPool(p)
      PROVE  CleanupInv'
  BY <1>5 DEF FinishPool, cleanVars, NotForcedEarly
<1>6. CASE DeliverClusters
  BY <1>6 DEF DeliverClusters, cleanVars, NotForcedEarly
<1>7. CASE TimePasses
  BY <1>7 DEF TimePasses, Young, cleanVars, NotForcedEarly
<1> QED
  BY <1>1, <1>2, <1>3, <1>4, <1>5, <1>6, <1>7 DEF CleanupNext, CapiControllers, Unfair

LEMMA CleanupStepInv ==
    ASSUME CleanupInv, [Next]_vars
    PROVE  CleanupInv'
<1>1. ASSUME UNCHANGED cleanupVars
      PROVE  CleanupInv'
  BY <1>1
  DEF cleanupVars, capiObjects, cleanVars, CleanupInv, CapiTypeOK, NotForcedEarly
<1>2. CASE Crash
  <2>1. CASE CleanupCrash
    BY <2>1, EndCleanupInv DEF CleanupCrash, capiObjects, CleanupInv, CapiTypeOK
  <2> QED
    BY <1>1, <1>2, <2>1 DEF Crash
<1> QED
  BY <1>1, <1>2, OperatorCleanupInv, OthersCleanupInv DEF Next, vars

LEMMA CleanupInit == Init => CleanupInv
<1> SUFFICES ASSUME CapiInit
             PROVE  CleanupInv
  BY DEF Init
<1>1. CapiTypeOK
  <2>1. 0 \in 0..stuckDeletionThreshold
    BY CapiCleanupAssumption
  <2>2. age \in [MachinePool -> 0..stuckDeletionThreshold]
    BY <2>1 DEF CapiInit
  <2> QED
    BY <2>2 DEF CapiInit, CapiTypeOK
<1>2. NotForcedEarly
  BY DEF CapiInit, NotForcedEarly
<1> QED
  BY <1>1, <1>2 DEF CapiInit, CleanupInv

\* No finalizer is removed from a machine pool that has not been stuck for
\* the threshold, or that its cluster does not wait for, however the
\* controllers interleave with RemoveStuckROSAMachinePoolFinalizers.
THEOREM ForcedOnlyWhenStuck == Spec => []NotForcedEarly
<1>1. CleanupInv => NotForcedEarly
  BY DEF CleanupInv
<1> QED
  BY CleanupInit, CleanupStepInv, <1>1, PTL DEF Spec

\* The secrets, the check-out, the clusters and the cleanup stay well-typed,
\* and no failure of one copy is counted in the next.
THEOREM NamespaceTypes == Spec => []TypeOK
<1> DEFINE Inv == SecretInv /\ CleanupInv /\ faults \in Nat
<1>1. Init => Inv
  BY CleanupInit
  DEF Init, SecretInit, SecretInv, SecretTypeOK, Origin, CopyProgress, SourceCopied,
      Taken, Eligible
<1>2. Inv /\ [Next]_vars => Inv'
  BY SecretStep, CleanupStepInv, FaultsType
<1>3. Inv => TypeOK
  BY DEF SecretInv, CleanupInv, TypeOK
<1> QED
  BY <1>1, <1>2, <1>3, PTL DEF Spec
-----------------------------------------------------------------------------
(***************************************************************************)
(* What is left of the clusters at the release.                            *)
(***************************************************************************)
\* Only a cluster in the cache is ever deleted, and the cache keeps it until it
\* is gone; only a cluster's controller deletes its machine pools.  So once a
\* reconcile has found no cluster, none is being deleted until it ends.
DrainingInv ==
    /\ \A c \in CapiCluster : capi[c] \in {"deleting", "waiting"} => c \in capiSeen
    /\ \A p \in MachinePool :
         pool[p] = "deleting" => capi[ClusterOf[p]] \in {"waiting", "gone"}
    /\ cleanPc = "release" => ~remaining
    /\ cleanPc \in {"pools", "force", "release"} /\ ~remaining =>
         \A c \in CapiCluster : capi[c] \notin {"deleting", "waiting"}

\* A reconcile that ends, or goes on, has deleted no cluster and no machine pool.
LEMMA NothingStarts ==
    ASSUME CapiTypeOK, DrainingInv, UNCHANGED <<capi, capiSeen>>,
           \A p \in MachinePool : pool'[p] = "deleting" => pool[p] = "deleting",
           \/ EndCleanup
           \/ cleanPc # "idle" /\ cleanPc' # "release" /\ UNCHANGED remaining
           \/ cleanPc # "idle" /\ ~remaining /\ UNCHANGED remaining
    PROVE  DrainingInv'
  BY DEF CapiTypeOK, DrainingInv, EndCleanup

LEMMA OperatorDrains ==
    ASSUME CapiTypeOK, DrainingInv, CleanupStep
    PROVE  DrainingInv'
<1>1. CASE DeleteCAPIResources
  <2>1. PICK D \in SUBSET capiSeen, result \in Results :
          /\ result = "ok" => D = capiSeen
          /\ capi' = [c \in CapiCluster |-> IF c \in D /\ capi[c] = "running"
                                            THEN "deleting" ELSE capi[c]]
          /\ IF result = "ok"
             THEN cleanPc' = "pools" /\ remaining' = SomeRemain /\ UNCHANGED stuck
             ELSE EndCleanup
    BY <1>1 DEF DeleteCAPIResources
  <2>2. UNCHANGED <<ending, capiSeen, pool, age>>
    BY <1>1 DEF DeleteCAPIResources
  <2>3. \A c \in CapiCluster :
          /\ capi'[c] \in {"deleting", "waiting"} => c \in capiSeen
          /\ capi[c] \in {"waiting", "gone"} => capi'[c] = capi[c]
    BY <2>1 DEF DrainingInv
  <2>4. CASE EndCleanup
    BY <2>2, <2>3, <2>4, CapiCleanupAssumption DEF DrainingInv, EndCleanup
  <2>5. CASE cleanPc' = "pools" /\ remaining' = SomeRemain
    BY <2>2, <2>3, <2>5, CapiCleanupAssumption DEF DrainingInv, SomeRemain
  <2> QED
    BY <2>1, <2>4, <2>5
<1>2. CASE ListMachinePools
  BY <1>2, NothingStarts DEF ListMachinePools, capiObjects
<1>3. ASSUME NEW p \in MachinePool, RemoveFinalizer(p)
      PROVE  DrainingInv'
  <2>1. \A q \in MachinePool : pool'[q] = "deleting" => pool[q] = "deleting"
    BY <1>3 DEF RemoveFinalizer, CapiTypeOK
  <2> QED
    BY <1>3, <2>1, NothingStarts DEF RemoveFinalizer
<1>4. CASE AfterPools
  BY <1>4, NothingStarts DEF AfterPools, capiObjects
<1>5. CASE ReleaseFinalizer
  BY <1>5, NothingStarts DEF ReleaseFinalizer, capiObjects
<1> QED
  BY <1>1, <1>2, <1>3, <1>4, <1>5 DEF CleanupStep

LEMMA OthersDrain ==
    ASSUME CapiTypeOK, DrainingInv, CleanupNext, ~CleanupStep
    PROVE  DrainingInv'
<1> USE DEF DrainingInv, CapiTypeOK
<1>1. CASE DeleteReservation
  BY <1>1 DEF DeleteReservation, capiObjects, cleanVars
<1>2. ASSUME NEW c \in CapiCluster, DeployCluster(c)
      PROVE  DrainingInv'
  BY <1>2, CapiCleanupAssumption DEF DeployCluster, cleanVars
<1>3. ASSUME NEW c \in CapiCluster, LoseCluster(c) \/ FinishCluster(c)
      PROVE  DrainingInv'
  BY <1>3, CapiCleanupAssumption DEF LoseCluster, FinishCluster, cleanVars
<1>4. ASSUME NEW c \in CapiCluster, WaitForWorkers(c)
      PROVE  DrainingInv'
  BY <1>4, CapiCleanupAssumption DEF WaitForWorkers, cleanVars, PoolsOf
<1>5. ASSUME NEW p \in MachinePool, FinishPool(p)
      PROVE  DrainingInv'
  BY <1>5 DEF FinishPool, cleanVars
<1>6. CASE DeliverClusters
  BY <1>6 DEF DeliverClusters, cleanVars, Existing
<1>7. CASE TimePasses
  BY <1>7 DEF TimePasses, cleanVars
<1> QED
  BY <1>1, <1>2, <1>3, <1>4, <1>5, <1>6, <1>7 DEF CleanupNext, CapiControllers, Unfair

LEMMA DrainingStep ==
    ASSUME CapiTypeOK, DrainingInv, [Next]_vars
    PROVE  DrainingInv'
<1>1. ASSUME UNCHANGED cleanupVars
      PROVE  DrainingInv'
  BY <1>1 DEF cleanupVars, capiObjects, cleanVars, DrainingInv
<1>2. CASE Crash
  <2>1. CASE CleanupCrash
    BY <2>1, NothingStarts DEF CleanupCrash, capiObjects
  <2> QED
    BY <1>1, <1>2, <2>1 DEF Crash
<1> QED
  BY <1>1, <1>2, OperatorDrains, OthersDrain DEF Next, vars

\* The release of a reservation, whichever step of Next it is, is the removal of
\* the finalizer.
LEMMA OnlyReleased ==
    ASSUME CapiTypeOK, Next, ending = "deleting", ending' = "released"
    PROVE  cleanPc = "release" /\ UNCHANGED capiObjects
<1>1. CASE CleanupNext
  <2>1. CASE ReleaseFinalizer
    BY <2>1 DEF ReleaseFinalizer
  <2> QED
    BY <1>1, <2>1
    DEF CleanupNext, CleanupStep, CapiControllers, Unfair, DeleteCAPIResources,
        ListMachinePools, RemoveFinalizer, AfterPools, WaitForWorkers, FinishCluster,
        DeliverClusters, TimePasses, DeleteReservation, DeployCluster, LoseCluster, FinishPool
<1>2. CASE UNCHANGED ending
  BY <1>2
<1> QED
  BY <1>1, <1>2 DEF Next, Crash, CleanupCrash, cleanupVars

\* When the reservation goes no cluster is still being deleted, nor a machine
\* pool of a cluster that is there, however late the cache shows the clusters
\* and whatever is deployed, lost or deleted while handleCAPICleanup runs.
THEOREM NothingDeletesAtRelease == Spec => DrainedAtRelease
<1> DEFINE Inv == CleanupInv /\ DrainingInv
<1>1. Init => Inv
  BY CleanupInit DEF Init, CapiInit, DrainingInv
<1>2. Inv /\ [Next]_vars => Inv'
  BY CleanupStepInv, DrainingStep DEF CleanupInv
<1>3. Inv /\ [Next]_vars =>
        [ending = "deleting" /\ ending' = "released" =>
           /\ \A c \in CapiCluster : capi[c] \notin {"deleting", "waiting"}
           /\ \A p \in MachinePool : pool[p] = "deleting" => capi[ClusterOf[p]] = "gone"]_vars
  <2> SUFFICES ASSUME Inv, Next, ending = "deleting", ending' = "released"
               PROVE  /\ \A c \in CapiCluster : capi[c] \notin {"deleting", "waiting"}
                      /\ \A p \in MachinePool :
                           pool[p] = "deleting" => capi[ClusterOf[p]] = "gone"
    OBVIOUS
  <2>1. cleanPc = "release"
    BY OnlyReleased DEF CleanupInv
  <2> QED
    BY <2>1, CapiCleanupAssumption DEF DrainingInv
<1> QED
  BY <1>1, <1>2, <1>3, PTL DEF Spec, DrainedAtRelease
=============================================================================
