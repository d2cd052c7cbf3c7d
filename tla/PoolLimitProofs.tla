--------------------------- MODULE PoolLimitProofs ---------------------------
(***************************************************************************)
(* The pool's size limit, for any number of namespaces, failures and       *)
(* crashes: how many namespaces there are.  A reconcile may count in a     *)
(* cache of any age, and a namespace may be checked out after it ceased to *)
(* be ready.  What is needed is that nobody but the pool's worker marks a  *)
(* namespace ready: a pool with Clowder exceeds its limit by the           *)
(* namespaces that its worker does not wait for (the run DocSizeLimit).    *)
(***************************************************************************)
EXTENDS PoolProofs

USE ApiCallsAssumption, ClusterAssumption, ClowdEnvControllerAssumption,
    PoolSizingAssumption, PoolControllerAssumption, NamespacesAssumption,
    CheckOutAbstractionAssumption

-----------------------------------------------------------------------------
(***************************************************************************)
(* Numbers of namespaces.                                                  *)
(***************************************************************************)
LEMMA Finite ==
    ASSUME NEW S \in SUBSET Namespace
    PROVE  IsFiniteSet(S) /\ Cardinality(S) \in Nat
  BY FS_Subset, FS_CardinalityType

LEMMA Smaller ==
    ASSUME NEW T \in SUBSET Namespace, NEW S \in SUBSET T
    PROVE  Cardinality(S) =< Cardinality(T)
  BY Finite, FS_Subset

LEMMA OneMore ==
    ASSUME NEW T \in SUBSET Namespace, NEW n \in Namespace, NEW S \in SUBSET (T \cup {n})
    PROVE  Cardinality(S) =< Cardinality(T) + 1
<1>1. IsFiniteSet(T) /\ Cardinality(T) \in Nat /\ T \cup {n} \in SUBSET Namespace
  BY Finite
<1>2. Cardinality(T \cup {n}) \in {Cardinality(T), Cardinality(T) + 1}
  BY <1>1, FS_AddElement
<1>3. Cardinality(S) =< Cardinality(T \cup {n})
  BY <1>1, Smaller
<1>4. Cardinality(S) \in Nat /\ Cardinality(T \cup {n}) \in Nat
  BY <1>1, Finite
<1> QED
  BY <1>1, <1>2, <1>3, <1>4

LEMMA Disjoint ==
    ASSUME NEW S \in SUBSET Namespace, NEW T \in SUBSET Namespace, S \cap T = {}
    PROVE  Cardinality(S \cup T) = Cardinality(S) + Cardinality(T)
<1>1. Cardinality(S \cap T) = 0
  BY FS_EmptySet
<1>2. /\ IsFiniteSet(S) /\ Cardinality(S) \in Nat
      /\ IsFiniteSet(T) /\ Cardinality(T) \in Nat
  BY Finite
<1>3. Cardinality(S \cup T) = Cardinality(S) + Cardinality(T) - Cardinality(S \cap T)
  BY <1>2, FS_Union
<1> QED
  BY <1>1, <1>2, <1>3

\* The namespaces that are counted in this cache.
Counted(o) ==
    \/ OwnedByPool(o) /\ o.env \in {"ready", "creating"}
    \/ Exists(o) /\ IsReservationUid(o.owner)

CountedIn(cache) == {n \in Namespace : Counted(cache[n])}

\* getPoolStatus counts each of them once.
LEMMA TotalIsCounted ==
    ASSUME NEW cache
    PROVE  Cardinality(CountedIn(cache)) = Total(PoolCounts(cache))
<1> DEFINE R == Pooled(cache, "ready")
           C == Pooled(cache, "creating")
           O == CheckedOut(cache)
<1>1. R \in SUBSET Namespace /\ C \in SUBSET Namespace /\ O \in SUBSET Namespace
  BY DEF Pooled, CheckedOut
<1>2. R \cap C = {} /\ (R \cup C) \cap O = {}
  BY DEF Pooled, CheckedOut, OwnedByPool, PoolUid, IsReservationUid
<1>3. CountedIn(cache) = (R \cup C) \cup O
  BY DEF CountedIn, Counted, Pooled, CheckedOut
<1>4. /\ PoolCounts(cache).ready = Cardinality(R)
      /\ PoolCounts(cache).creating = Cardinality(C)
      /\ PoolCounts(cache).reserved = Cardinality(O)
  BY DEF PoolCounts
<1> HIDE DEF R, C, O
<1>5. Cardinality(R \cup C) = Cardinality(R) + Cardinality(C)
  BY <1>1, <1>2, Disjoint
<1>6. Cardinality(CountedIn(cache)) = Cardinality(R \cup C) + Cardinality(O)
  BY <1>1, <1>2, <1>3, Disjoint
<1> QED
  BY <1>4, <1>5, <1>6 DEF Total

\* CalculateNamespaceQuantityDelta keeps to the limit.
LEMMA DeltaWithinLimit ==
    ASSUME HasLimit, poolSize \in Nat, NEW c \in Counts
    PROVE  QuantityDelta(c) \in Int /\ Total(c) + QuantityDelta(c) =< SizeLimit
<1>1. /\ c.ready \in Nat /\ c.creating \in Nat /\ c.reserved \in Nat
      /\ SizeLimit \in Nat /\ SizeLimit # NoLimit
  BY DEF Counts, HasLimit
<1> QED
  BY <1>1 DEF QuantityDelta, CalculateNamespaceQuantityDelta, Total

-----------------------------------------------------------------------------
(***************************************************************************)
(* What the worker still means to create.                                  *)
(***************************************************************************)
Positive(d) == IF d > 0 THEN d ELSE 0

Pending ==
    IF poolPc \in {"create", "own"} THEN delta
    ELSE IF poolPc \in {"clowdenv", "provision", "ready", "undo"} THEN delta - 1
    ELSE IF poolPc \in {"mark", "delete"} THEN Positive(delta)
    ELSE 0

Busy ==
    poolPc \in {"create", "own", "clowdenv", "provision", "ready", "undo"} => delta > 0

LEMMA PendingType ==
    ASSUME TypeInv, Busy
    PROVE  Pending \in Nat
  BY DEF TypeInv, PoolHands, Busy, Pending, Positive

LEMMA PendingNextType ==
    ASSUME TypeInv', Busy'
    PROVE  Pending' \in Nat
<1>1. delta' \in Int
  BY DEF TypeInv, PoolHands
<1>2. delta' > 0 => delta' \in Nat /\ delta' - 1 \in Nat
  BY <1>1, \A d \in Int : d > 0 => d \in Nat /\ d - 1 \in Nat, Zenon
<1>3. Pending' \in {0, delta', delta' - 1} /\ (Pending' # 0 => delta' > 0)
  BY <1>1 DEF Busy, Pending, Positive
<1> QED
  BY <1>2, <1>3

LEMMA EndPending ==
    ASSUME NEW again, EndReconcile(again)
    PROVE  Busy' /\ Pending' = 0
  BY DEF EndReconcile, Busy, Pending

LEMMA NextPending ==
    ASSUME delta \in Int, NextNamespace
    PROVE  Busy' /\ (delta > 0 => Pending' =< delta - 1)
<1>1. CASE delta > 1
  BY <1>1 DEF NextNamespace, Busy, Pending
<1>2. CASE ~(delta > 1)
  BY <1>2 DEF NextNamespace, Busy, Pending
<1> QED
  BY <1>1, <1>2

\* Only a new reconcile plans more than there was left to do.
LEMMA PendingFalls ==
    ASSUME TypeInv, Busy, [Next]_poolSystemVars, ~PoolReconcile
    PROVE  /\ Busy'
           /\ Pending' =< Pending
           /\ poolPc = "own" /\ poolPc' # "own" => Pending' =< Pending - 1
<1>0. delta \in Int /\ poolPc \in PoolSteps /\ Pending \in Nat
  BY PendingType DEF TypeInv, PoolHands
<1>1. ASSUME UNCHANGED <<poolPc, delta>>
      PROVE  Busy' /\ Pending' = Pending /\ ~(poolPc = "own" /\ poolPc' # "own")
  BY <1>1 DEF Busy, Pending
<1>2. ASSUME Busy', Pending' = 0, poolPc = "own" => Pending >= 1
      PROVE  /\ Busy' /\ Pending' =< Pending
             /\ poolPc = "own" /\ poolPc' # "own" => Pending' =< Pending - 1
  BY <1>0, <1>2
<1>3. poolPc = "own" => Pending >= 1
  BY <1>0 DEF Busy, Pending
<1>4. ASSUME NEW again, EndReconcile(again)
      PROVE  /\ Busy' /\ Pending' =< Pending
             /\ poolPc = "own" /\ poolPc' # "own" => Pending' =< Pending - 1
  BY <1>2, <1>3, <1>4, EndPending
<1>5. CASE \E n \in Namespace : MarkErrorNamespace(n)
  <2>1. CASE poolPc = "mark" /\ poolPc' = "delete" /\ delta' = delta
    BY <1>0, <2>1 DEF Busy, Pending
  <2> QED
    BY <1>4, <1>5, <2>1 DEF MarkErrorNamespace
<1>6. CASE DeleteErrorNamespace
  <2>1. CASE /\ poolPc = "delete" /\ delta' = delta
             /\ poolPc' = SizeStep(delta) \/ poolPc' = "mark"
    BY <1>0, <2>1 DEF Busy, Pending, Positive, SizeStep
  <2> QED
    BY <1>4, <1>6, <2>1 DEF DeleteErrorNamespace
<1>7. CASE \E n \in Namespace : CreateNamespace(n)
  BY <1>0, <1>7 DEF CreateNamespace, Busy, Pending
<1>8. CASE CreateRefused
  BY <1>4, <1>8 DEF CreateRefused
<1>9. CASE OwnNamespace
  <2>1. CASE /\ poolPc = "own" /\ delta' = delta
             /\ poolPc' \in {"clowdenv", "provision", "undo"}
    BY <1>0, <2>1 DEF Busy, Pending
  <2> QED
    BY <1>4, <1>9, <2>1 DEF OwnNamespace, InHand
<1>10. CASE ProvideClowdEnv
  BY <1>0, <1>10 DEF ProvideClowdEnv, InHand, Busy, Pending
<1>11. ASSUME poolPc \in {"provision", "ready", "undo"}, NextNamespace
       PROVE  Busy' /\ Pending' =< Pending
  BY <1>0, <1>11, NextPending DEF Busy, Pending
<1>12. CASE ProvisionNamespace
  <2>1. CASE poolPc = "provision" /\ delta' = delta /\ poolPc' \in {"ready", "undo"}
    BY <1>0, <2>1 DEF Busy, Pending
  <2> QED
    BY <1>11, <1>12, <2>1 DEF ProvisionNamespace, InHand
<1>13. CASE MarkReady
  <2>1. CASE poolPc = "ready" /\ delta' = delta /\ poolPc' = "undo"
    BY <1>0, <2>1 DEF Busy, Pending
  <2> QED
    BY <1>11, <1>13, <2>1 DEF MarkReady, InHand
<1>14. CASE UndoNamespace
  BY <1>4, <1>11, <1>14 DEF UndoNamespace
<1>15. ASSUME poolPc = "retire", poolPc' \in {"retire", "status"}
       PROVE  Busy' /\ Pending' =< Pending
  BY <1>15 DEF Busy, Pending
<1>16. CASE PickExcess \/ MarkExcess
  BY <1>4, <1>15, <1>16 DEF PickExcess, MarkExcess
<1>17. CASE UpdatePoolStatus
  BY <1>4, <1>17 DEF UpdatePoolStatus
<1>18. CASE PoolCrash
  BY <1>4, <1>18 DEF PoolCrash
<1>19. CASE ~PoolWorkerStep /\ ~PoolCrash
  <2>1. UNCHANGED <<poolPc, delta>>
    BY <1>19 DEF Next, NamespaceEvent, ResizePool, poolVars, poolWorkerVars, poolSystemVars
  <2> QED
    BY <1>0, <1>1, <2>1
<1> QED
  BY <1>5, <1>6, <1>7, <1>8, <1>9, <1>10, <1>12, <1>13, <1>14, <1>16, <1>17, <1>18, <1>19
  DEF PoolWorkerStep

\* The namespace in hand exists from the moment it is created.
ToCreate ==
    IF poolPc \in {"mark", "delete"} THEN 0
    ELSE IF poolPc = "own" THEN Pending - 1
    ELSE Pending

\* How the worker leaves a namespace that it creates or deletes.
LEMMA HandStays ==
    ASSUME TypeInv, [Next]_poolSystemVars, ~PoolCrash, ~DeleteErrorNamespace, ~OwnNamespace
    PROVE  /\ poolPc \in {"own", "delete"} => poolPc' = poolPc /\ nsName' = nsName
           /\ poolPc = "mark" =>
                \/ UNCHANGED <<poolPc, nsName, errNamespaceList, delta>>
                \/ \E n \in Namespace : MarkErrorNamespace(n)
           /\ poolPc = "delete" => UNCHANGED <<errNamespaceList, delta>>
           /\ poolPc' = "delete" => \/ poolPc = "delete"
                                    \/ \E n \in Namespace : MarkErrorNamespace(n)
           /\ poolPc' = "mark" => poolPc = "mark" \/ PoolReconcile
<1>1. CASE PoolWorkerStep
  BY <1>1
  DEF PoolWorkerStep, PoolReconcile, MarkErrorNamespace, CreateNamespace, CreateRefused,
      ProvideClowdEnv, ProvisionNamespace, MarkReady, UndoNamespace, PickExcess,
      MarkExcess, UpdatePoolStatus, EndReconcile, NextNamespace, InHand, SizeStep
<1>2. CASE ~PoolWorkerStep
  <2>1. UNCHANGED <<poolPc, nsName, errNamespaceList, delta>>
    BY <1>2 DEF Next, NamespaceEvent, ResizePool, poolVars, poolWorkerVars, poolSystemVars
  <2> QED
    BY <2>1
<1> QED
  BY <1>1, <1>2

LEMMA ToCreateFalls ==
    ASSUME TypeInv, TypeInv', Busy, [Next]_poolSystemVars, ~PoolReconcile, ~PoolCrash,
           ~DeleteErrorNamespace
    PROVE  /\ ToCreate' =< ToCreate
           /\ poolPc = "create" /\ poolPc' = "own" => ToCreate' =< ToCreate - 1
<1>1. /\ Busy'
      /\ Pending' =< Pending
      /\ poolPc = "own" /\ poolPc' # "own" => Pending' =< Pending - 1
  BY PendingFalls
<1>2. Pending \in Nat /\ Pending' \in Nat
  BY <1>1, PendingType, PendingNextType
<1>3. poolPc \in {"mark", "delete"} => poolPc' \in {"mark", "delete", "idle"}
  <2>1. CASE OwnNamespace
    BY <2>1 DEF OwnNamespace
  <2>2. CASE ~OwnNamespace
    BY <2>2, HandStays DEF MarkErrorNamespace, EndReconcile
  <2> QED
    BY <2>1, <2>2
<1>4. poolPc' = "idle" => Pending' = 0
  BY DEF Pending
<1>5. poolPc = "own" => Pending >= 1
  BY DEF Busy, Pending, TypeInv, PoolHands
<1>6. poolPc' = "own" => poolPc \in {"create", "own"}
  BY StepBegins DEF CreateNamespace
<1>7. CASE poolPc' = "own"
  <2>1. ToCreate' = Pending' - 1
    BY <1>7 DEF ToCreate
  <2>2. Pending' - 1 =< Pending - 1 /\ Pending' - 1 =< Pending
    <3>1. \A p, q \in Nat : q =< p => q - 1 =< p - 1 /\ q - 1 =< p
      OBVIOUS
    <3> QED
      BY <1>1, <1>2, <3>1, Zenon
  <2>3. CASE poolPc = "own"
    <3>1. ToCreate = Pending - 1
      BY <2>3 DEF ToCreate
    <3> QED
      BY <2>1, <2>2, <2>3, <3>1, Zenon
  <2>4. CASE poolPc = "create"
    <3>1. ToCreate = Pending
      BY <2>4 DEF ToCreate
    <3> QED
      BY <2>1, <2>2, <3>1, Zenon
  <2> QED
    BY <1>6, <1>7, <2>3, <2>4
<1>8. CASE poolPc' # "own"
  <2>1. ToCreate' \in {0, Pending'}
    BY <1>8 DEF ToCreate
  <2> QED
    BY <1>1, <1>2, <1>3, <1>4, <1>5, <1>8, <2>1 DEF ToCreate
<1> QED
  BY <1>7, <1>8

-----------------------------------------------------------------------------
(***************************************************************************)
(* The namespaces that there are.                                          *)
(***************************************************************************)
Active == {n \in Namespace : ns[n].phase = "Active"}

BaseInv == TypeInv /\ OwnerInv /\ ProvisionInv

LEMMA BaseStep ==
    ASSUME ~ClowderPool, BaseInv, [Next]_poolSystemVars
    PROVE  BaseInv'
  BY TypeStep, StepOwner, ProvisionStep DEF BaseInv

LEMMA BaseFacts ==
    ASSUME BaseInv
    PROVE  /\ NsTyped /\ NsVersions /\ PoolHands
           /\ envPc = "idle" /\ envQueue = {} /\ clowdEnvs = {}
           /\ faults \in Nat /\ poolSize \in Nat
<1>1. TypeInv /\ TypeOK /\ OwnerInv /\ ProvisionInv
  BY DEF BaseInv, TypeInv
<1>2. ClusterTypeOK /\ EnvTypeOK /\ PoolTypeOK /\ PoolHands /\ EnvHands
  BY <1>1 DEF TypeInv, TypeOK
<1> QED
  BY <1>1, <1>2
  DEF ClusterTypeOK, NsTyped, EnvTypeOK, EnvHands, PoolTypeOK, OwnerInv, ProvisionInv

LEMMA StepActive ==
    ASSUME BaseInv, [Next]_poolSystemVars
    PROVE  \/ Active' \subseteq Active
           \/ /\ poolPc = "create" /\ poolPc' = "own"
              /\ nsName' \in Namespace /\ Active' \subseteq Active \cup {nsName'}
<1>0. NsTyped /\ NsVersions /\ TypeInv
  BY BaseFacts DEF BaseInv
<1>1. ASSUME NEW n \in Namespace, NEW o \in NsObject, StoresNs(n, o)
      PROVE  \/ Active' \subseteq Active
             \/ /\ poolPc = "create" /\ poolPc' = "own"
                /\ nsName' \in Namespace /\ Active' \subseteq Active \cup {nsName'}
  <2>1. /\ \A m \in Namespace \ {n} : ns'[m] = ns[m]
        /\ ns'[n].phase = o.phase
    BY <1>0, <1>1, StoredFields
  <2>2. Begun(n, o) \/ Taken(n, o) \/ Marked(n, o) \/ Lent(n, o) \/ Dying(n, o) \/ Dead(n, o)
    BY <1>1 DEF StoresNs
  <2>3. CASE Begun(n, o)
    BY <2>1, <2>3 DEF Begun, Active
  <2>4. CASE ~Begun(n, o)
    <3>1. o.phase = "Active" => ns[n].phase = "Active"
      BY <2>2, <2>4 DEF Taken, Marked, Lent, Dying, Dead
    <3> QED
      BY <2>1, <3>1 DEF Active
  <2> QED
    BY <2>3, <2>4
<1>2. CASE ns' = ns
  BY <1>2 DEF Active
<1> QED
  BY <1>0, <1>1, <1>2, StepStores DEF nsVars, DeliverNs, Restarts

LEMMA ActiveNumber ==
    ASSUME NEW S
    PROVE  /\ Active \in SUBSET Namespace /\ Active \ S \in SUBSET Namespace
           /\ Cardinality(Active) \in Nat /\ Cardinality(Active \ S) \in Nat
<1>1. Active \in SUBSET Namespace /\ Active \ S \in SUBSET Namespace
  BY DEF Active
<1> QED
  BY <1>1, Finite

LEMMA NextActiveNumber ==
    ASSUME NEW S
    PROVE  /\ Active' \in SUBSET Namespace /\ Active' \ S \in SUBSET Namespace
           /\ Cardinality(Active') \in Nat /\ Cardinality(Active' \ S) \in Nat
<1>1. Active' \in SUBSET Namespace /\ Active' \ S \in SUBSET Namespace
  BY DEF Active
<1> QED
  BY <1>1, Finite

-----------------------------------------------------------------------------
(***************************************************************************)
(* Namespaces that every reconcile to come counts or deletes, however old  *)
(* its cache is, because no copy that the cache shows or will show is any  *)
(* different.  The worker does not create another namespace before the     *)
(* one it has in hand is one of these, or is deleted, unless a call fails. *)
(***************************************************************************)
Tallied(v) ==
    \/ v.owner = PoolUid /\ v.env \in {"creating", "ready", "error"}
    \/ IsReservationUid(v.owner)

Covered(n) == \A v \in nsWatch[n] \cup {nsCache[n], ns[n]} : Tallied(v)

InWork == poolPc \in {"own", "provision", "ready", "undo", "delete"}

LeftBehind == {n \in Active : ~Covered(n) /\ ~(InWork /\ n = nsName)}

HandTallied == poolPc \in {"provision", "ready"} => Tallied(ns[nsName])

\* What comes to be stored of a namespace that is tallied.
LEMMA StoredTally ==
    ASSUME ~ClowderPool, BaseInv, NEW n \in Namespace, NEW o \in NsObject, StoresNs(n, o),
           Tallied(ns[n]), ~(poolPc = "mark" /\ poolPc' # "mark")
    PROVE  Tallied(ns'[n])
<1>0. NsTyped /\ envPc = "idle" /\ AbsentUnowned
  BY BaseFacts DEF BaseInv, OwnerInv
<1>1. ns'[n].owner = o.owner /\ ns'[n].env = o.env
  BY <1>0, StoredFields
<1>2. Begun(n, o) \/ Taken(n, o) \/ Marked(n, o) \/ Lent(n, o) \/ Dying(n, o) \/ Dead(n, o)
  BY DEF StoresNs
<1>3. ~Begun(n, o)
  BY <1>0 DEF Begun, AbsentUnowned, Tallied, NoOwner, PoolUid, IsReservationUid
<1>4. Tallied(o)
  BY <1>0, <1>2, <1>3
  DEF Taken, Marked, MayMark, Lent, Dying, Dead, SameOwner, Tallied
<1> QED
  BY <1>1, <1>4 DEF Tallied

\* Marking a namespace leaves the others alone.
LEMMA MarkLeaves ==
    ASSUME NsTyped, NsVersions, NEW n \in Namespace, MarkErrorNamespace(n)
    PROVE  /\ UNCHANGED nsCache
           /\ \A m \in Namespace \ {n} : ns'[m] = ns[m] /\ nsWatch'[m] = nsWatch[m]
           /\ \/ UNCHANGED <<ns, nsWatch>>
              \/ poolPc' = "delete" /\ nsName' = n
              \/ faults' = faults - 1
<1>1. PICK result \in Results :
        /\ UpdateAnnotations(n, "deleting", result)
        /\ result = "ok" => poolPc' = "delete" /\ nsName' = n
  BY DEF MarkErrorNamespace
<1>2. UNCHANGED nsCache
  BY DEF MarkErrorNamespace, beyondNs
<1>3. \/ UNCHANGED <<ns, nsWatch>>
      \/ /\ Applied(result)
         /\ WriteNs(n, [ns[n] EXCEPT !.env = "deleting"])
         /\ [ns[n] EXCEPT !.env = "deleting"] \in NsObject
  BY <1>1, AnnotationsWritten DEF EnvStatus
<1>4. \A m \in Namespace \ {n} : ns'[m] = ns[m] /\ nsWatch'[m] = nsWatch[m]
  BY <1>3, WrittenNs
<1>5. result = "lost" => faults' = faults - 1
  BY <1>1 DEF UpdateAnnotations, Retried, Call
<1> QED
  BY <1>1, <1>2, <1>3, <1>4, <1>5 DEF Applied

LEMMA CoverStays ==
    ASSUME ~ClowderPool, BaseInv, [Next]_poolSystemVars, NEW n \in Namespace, Covered(n),
           ~MarkErrorNamespace(n)
    PROVE  Covered(n)'
<1>0. NsTyped /\ NsVersions /\ TypeInv
  BY BaseFacts DEF BaseInv
<1>1. ASSUME NEW m \in Namespace, MarkErrorNamespace(m)
      PROVE  Covered(n)'
  BY <1>0, <1>1, MarkLeaves DEF Covered
<1>2. CASE UNCHANGED nsVars
  BY <1>2 DEF nsVars, Covered
<1>3. CASE Restarts
  BY <1>3 DEF Restarts, Covered
<1>4. ASSUME NEW m \in Namespace, DeliverNs(m)
      PROVE  Covered(n)'
  <2>1. /\ nsWatch'[n] \cup {nsCache'[n]} \subseteq nsWatch[n] \cup {nsCache[n]}
        /\ ns' = ns
    BY <1>0, <1>4 DEF DeliverNs, NsTyped
  <2> QED
    BY <2>1 DEF Covered
<1>5. ASSUME NEW m \in Namespace, NEW o \in NsObject, StoresNs(m, o),
             ~(poolPc = "mark" /\ poolPc' # "mark")
      PROVE  Covered(n)'
  <2>1. /\ \A k \in Namespace \ {m} : ns'[k] = ns[k] /\ nsWatch'[k] = nsWatch[k]
        /\ nsWatch'[m] \subseteq nsWatch[m] \cup {ns'[m]}
        /\ nsCache' = nsCache
    BY <1>0, <1>5, WrittenNs DEF StoresNs
  <2>2. m = n => Tallied(ns'[n])
    BY <1>5, StoredTally DEF Covered
  <2> QED
    BY <2>1, <2>2 DEF Covered
<1>6. ASSUME \A m \in Namespace : ~MarkErrorNamespace(m), ~PoolCrash
      PROVE  ~(poolPc = "mark" /\ poolPc' # "mark")
  <2>1. poolPc = "mark" => ~DeleteErrorNamespace /\ ~OwnNamespace
    BY DEF DeleteErrorNamespace, OwnNamespace
  <2> QED
    BY <1>0, <1>6, <2>1, HandStays
<1>7. CASE PoolCrash
  BY <1>3, <1>7 DEF PoolCrash, Restarts
<1> QED
  BY <1>0, <1>1, <1>2, <1>3, <1>4, <1>5, <1>6, <1>7, StepStores

\* The namespace in hand is tallied once the pool owns it.
LEMMA StepHandTallied ==
    ASSUME ~ClowderPool, BaseInv, HandTallied, [Next]_poolSystemVars
    PROVE  HandTallied'
<1>0. NsTyped /\ NsVersions /\ PoolHands /\ TypeInv
  BY BaseFacts DEF BaseInv
<1>1. CASE OwnNamespace
  <2>1. PICK result \in Results :
          /\ IF Applied(result)
             THEN WriteNs(nsName, Owned(nsCache[nsName]))
             ELSE UNCHANGED <<ns, nsWatch>>
          /\ \/ result = "ok" /\ InHand(IF ClowderPool THEN "clowdenv" ELSE "provision")
             \/ result # "ok" /\ Exists(nsCache[nsName]) /\ InHand("undo")
             \/ result = "failed" /\ EndReconcile(TRUE)
    BY <1>1 DEF OwnNamespace
  <2>2. CASE result = "ok"
    <3>1. nsName \in Namespace /\ nsCache[nsName] \in NsObject /\ nsName' = nsName
      BY <1>0, <1>1, <2>1, <2>2 DEF OwnNamespace, PoolHands, NsTyped, InHand
    <3> DEFINE o == Owned(nsCache[nsName])
    <3>2. o \in NsObject /\ o.owner = PoolUid /\ o.env = "creating"
      BY <3>1, NsTypes
    <3>3. WriteNs(nsName, o)
      BY <2>1, <2>2 DEF Applied
    <3> HIDE DEF o
    <3>4. ns'[nsName].owner = PoolUid /\ ns'[nsName].env = "creating"
      BY <1>0, <3>1, <3>2, <3>3, WrittenNs
    <3> QED
      BY <3>1, <3>4 DEF HandTallied, Tallied
  <2>3. CASE result # "ok"
    BY <2>1, <2>3 DEF InHand, EndReconcile, HandTallied
  <2> QED
    BY <2>2, <2>3
<1>2. ASSUME poolPc' \in {"provision", "ready"}, ~OwnNamespace
      PROVE  poolPc \in {"provision", "ready"} /\ nsName' = nsName
  <2>1. CASE PoolWorkerStep
    <3>1. CASE PoolReconcile \/ DeleteErrorNamespace \/ CreateRefused \/ UndoNamespace
               \/ PickExcess \/ MarkExcess \/ UpdatePoolStatus \/ MarkReady
               \/ ProvisionNamespace \/ ProvideClowdEnv
      BY <1>0, <1>2, <3>1
      DEF PoolReconcile, DeleteErrorNamespace, CreateRefused, MarkReady, UndoNamespace,
          PickExcess, MarkExcess, UpdatePoolStatus, ProvisionNamespace, ProvideClowdEnv,
          EndReconcile, NextNamespace, InHand, SizeStep, PoolHands
    <3>2. CASE \E n \in Namespace : MarkErrorNamespace(n) \/ CreateNamespace(n)
      BY <1>2, <3>2 DEF MarkErrorNamespace, CreateNamespace, EndReconcile
    <3> QED
      BY <1>2, <2>1, <3>1, <3>2 DEF PoolWorkerStep
  <2>2. CASE PoolCrash
    BY <1>2, <2>2 DEF PoolCrash, EndReconcile
  <2>3. CASE ~PoolWorkerStep /\ ~PoolCrash
    BY <1>2, <2>3 DEF Next, NamespaceEvent, ResizePool, poolVars, poolWorkerVars, poolSystemVars
  <2> QED
    BY <2>1, <2>2, <2>3
<1>3. ASSUME poolPc' \in {"provision", "ready"}, ~OwnNamespace
      PROVE  Tallied(ns'[nsName])
  <2>1. /\ nsName \in Namespace /\ poolPc \in {"provision", "ready"}
        /\ Tallied(ns[nsName])
    BY <1>0, <1>2, <1>3 DEF PoolHands, HandTallied
  <2>2. ASSUME NEW n \in Namespace, NEW o \in NsObject, StoresNs(n, o)
        PROVE  Tallied(ns'[nsName])
    <3>1. n # nsName => ns'[nsName] = ns[nsName]
      BY <1>0, <2>1, <2>2, StoredFields
    <3> QED
      BY <2>1, <2>2, <3>1, StoredTally
  <2> QED
    BY <1>0, <2>1, <2>2, StepStores DEF nsVars, DeliverNs, Restarts
<1> QED
  BY <1>1, <1>2, <1>3 DEF HandTallied

\* A deletion that is not answered by an error was done.
LEMMA DeleteEnds ==
    ASSUME NsTyped, NEW n \in Namespace, NEW result, DeleteNs(n, result)
    PROVE  /\ \A m \in Namespace \ {n} : ns'[m] = ns[m]
           /\ ns'[n].phase = "Active" => result # "ok" /\ faults' = faults - 1
<1>1. CASE Applied(result)
  <2> DEFINE o == [ns[n] EXCEPT !.phase = "Terminating"]
  <2>1. ns[n] \in NsObject
    BY DEF NsTyped
  <2>2. o \in NsObject /\ o.phase = "Terminating"
    BY <2>1 DEF NsObject
  <2>3. WriteNs(n, o)
    BY <1>1 DEF DeleteNs
  <2> HIDE DEF o
  <2> QED
    BY <2>2, <2>3, WrittenNs
<1>2. CASE ~Applied(result)
  BY <1>2 DEF DeleteNs, Call, Applied, Exists
<1> QED
  BY <1>1, <1>2

\* The namespace in hand is deleted or covered when the worker turns to
\* something else, unless a call fails.
LEMMA HandLeft ==
    ASSUME ~ClowderPool, BaseInv, HandTallied, [Next]_poolSystemVars, InWork,
           NEW n \in Namespace, n = nsName, n \in Active', ~Covered(n)',
           ~(InWork' /\ nsName' = n)
    PROVE  faults' = faults - 1
<1>0. NsTyped /\ NsVersions /\ PoolHands /\ TypeInv
  BY BaseFacts DEF BaseInv
<1>1. CASE DeleteErrorNamespace \/ UndoNamespace
  BY <1>0, <1>1, DeleteEnds DEF DeleteErrorNamespace, UndoNamespace, Active
<1>2. CASE OwnNamespace
  <2>1. PICK result \in Results :
          /\ Retried(nsName, result)
          /\ IF Applied(result)
             THEN WriteNs(nsName, Owned(nsCache[nsName]))
             ELSE UNCHANGED <<ns, nsWatch>>
          /\ \/ result = "ok" /\ InHand(IF ClowderPool THEN "clowdenv" ELSE "provision")
             \/ result # "ok" /\ Exists(nsCache[nsName]) /\ InHand("undo")
             \/ result = "failed" /\ EndReconcile(TRUE)
    BY <1>2 DEF OwnNamespace
  <2>2. result = "failed"
    BY <2>1 DEF InHand, InWork
  <2>3. ns' = ns /\ ns[nsName].phase = "Active"
    BY <2>1, <2>2 DEF Applied, Active
  <2>4. CASE nsWatch[nsName] = {} /\ Call(Exists(nsCache[nsName]), result)
    <3>1. nsCache[nsName] = ns[nsName]
      BY <1>0, <2>4 DEF NsVersions
    <3> QED
      BY <2>2, <2>3, <2>4, <3>1 DEF Call, Exists
  <2> QED
    BY <2>1, <2>4 DEF Retried
<1>3. CASE ProvisionNamespace
  BY <1>3 DEF ProvisionNamespace, InHand, InWork
<1>4. CASE MarkReady
  <2>1. PICK result \in Results :
          /\ UpdateAnnotations(nsName, "ready", result)
          /\ IF result = "ok" THEN NextNamespace ELSE InHand("undo")
    BY <1>4 DEF MarkReady
  <2>2. result = "ok" /\ UNCHANGED nsCache
    BY <1>4, <2>1 DEF InHand, InWork, MarkReady, beyondNs
  <2> DEFINE o == [ns[n] EXCEPT !.env = "ready"]
  <2>3. WriteNs(nsName, o) /\ o \in NsObject
    BY <1>0, <2>1, <2>2, AnnotationsWritten DEF EnvStatus, Applied
  <2>4. nsWatch[n] = {} /\ nsCache[n] = ns[n] /\ Tallied(ns[n])
    BY <1>0, <1>4, <2>1, <2>2
    DEF UpdateAnnotations, Retried, NsVersions, MarkReady, HandTallied
  <2>5. o.env = "ready" /\ o.owner = ns[n].owner
    BY <1>0 DEF NsTyped, NsObject
  <2> HIDE DEF o
  <2>6. /\ ns'[n].env = "ready" /\ ns'[n].owner = ns[n].owner
        /\ nsWatch'[n] \subseteq {ns'[n]}
    BY <1>0, <2>3, <2>4, <2>5, WrittenNs
  <2>7. Tallied(ns'[n])
    BY <2>4, <2>6 DEF Tallied
  <2> QED
    BY <2>2, <2>4, <2>6, <2>7 DEF Covered
<1>5. CASE PoolCrash
  BY <1>5 DEF PoolCrash
<1>6. CASE \/ PoolReconcile \/ CreateRefused \/ ProvideClowdEnv \/ PickExcess
           \/ MarkExcess \/ UpdatePoolStatus
           \/ \E m \in Namespace : MarkErrorNamespace(m) \/ CreateNamespace(m)
  BY <1>6
  DEF PoolReconcile, CreateRefused, ProvideClowdEnv, PickExcess, MarkExcess,
      UpdatePoolStatus, MarkErrorNamespace, CreateNamespace, InWork
<1>7. CASE ~PoolWorkerStep /\ ~PoolCrash
  BY <1>7
  DEF Next, NamespaceEvent, ResizePool, poolVars, poolWorkerVars, poolSystemVars, InWork
<1> QED
  BY <1>1, <1>2, <1>3, <1>4, <1>5, <1>6, <1>7 DEF PoolWorkerStep

\* Every failure leaves at most one more namespace behind.
LEMMA StepLeavesBehind ==
    ASSUME ~ClowderPool, BaseInv, HandTallied, [Next]_poolSystemVars
    PROVE  \/ LeftBehind' \subseteq LeftBehind
           \/ /\ faults' = faults - 1
              /\ \E n \in Namespace : LeftBehind' \subseteq LeftBehind \cup {n}
<1>0. NsTyped /\ NsVersions /\ PoolHands /\ TypeInv
  BY BaseFacts DEF BaseInv
<1>1. ASSUME NEW n \in LeftBehind', n \notin LeftBehind
      PROVE  /\ n \in Namespace /\ faults' = faults - 1
             /\ MarkErrorNamespace(n) \/ (InWork /\ n = nsName)
  <2>1. n \in Namespace /\ n \in Active' /\ ~Covered(n)' /\ ~(InWork' /\ nsName' = n)
    BY <1>1 DEF LeftBehind, Active
  <2>2. n \in Active
    BY <2>1, StepActive DEF InWork
  <2>3. CASE Covered(n)
    <3>1. MarkErrorNamespace(n)
      BY <2>1, <2>3, CoverStays
    <3>2. \/ UNCHANGED <<ns, nsWatch, nsCache>>
          \/ poolPc' = "delete" /\ nsName' = n
          \/ faults' = faults - 1
      BY <1>0, <2>1, <3>1, MarkLeaves
    <3>3. ~UNCHANGED <<ns, nsWatch, nsCache>>
      BY <2>1, <2>3 DEF Covered
    <3> QED
      BY <2>1, <3>1, <3>2, <3>3 DEF InWork
  <2>4. CASE ~Covered(n)
    <3>1. InWork /\ n = nsName
      BY <1>1, <2>2, <2>4 DEF LeftBehind
    <3> QED
      BY <2>1, <3>1, HandLeft
  <2> QED
    BY <2>3, <2>4
<1>2. ASSUME NEW n \in LeftBehind', n \notin LeftBehind
      PROVE  LeftBehind' \subseteq LeftBehind \cup {n}
  <2>1. ASSUME NEW m \in LeftBehind', m \notin LeftBehind, m # n
        PROVE  FALSE
    <3>1. /\ MarkErrorNamespace(n) \/ (InWork /\ n = nsName)
          /\ MarkErrorNamespace(m) \/ (InWork /\ m = nsName)
      BY <1>1, <1>2, <2>1
    <3>2. MarkErrorNamespace(n) /\ MarkErrorNamespace(m)
      BY <2>1, <3>1 DEF MarkErrorNamespace, InWork
    <3>3. n \in Namespace /\ ~Covered(m)' /\ m \in Active' /\ m \in Namespace
      BY <1>1, <1>2, <2>1 DEF LeftBehind, Active
    <3>4. ns'[m] = ns[m] /\ nsWatch'[m] = nsWatch[m] /\ UNCHANGED nsCache
      BY <1>0, <2>1, <3>2, <3>3, MarkLeaves
    <3>5. m \in Active /\ ~Covered(m) /\ ~InWork
      BY <3>2, <3>3, <3>4 DEF Active, Covered, MarkErrorNamespace, InWork
    <3> QED
      BY <2>1, <3>5 DEF LeftBehind
  <2> QED
    BY <2>1
<1> QED
  BY <1>1, <1>2

-----------------------------------------------------------------------------
(***************************************************************************)
(* The namespaces that there are and those still to be created.            *)
(***************************************************************************)
Tolerated == SizeLimit + Failures

WithinBounds ==
    /\ Cardinality(Active) + ToCreate =< Tolerated
    /\ poolPc \in {"mark", "delete"} =>
         Cardinality(Active \ errNamespaceList) + Positive(delta) =< Tolerated
    /\ poolPc = "delete" => nsName \in errNamespaceList

\* A namespace that the cache does not show yet has no owner there.
SeenAbsent == \A n \in Namespace : nsCache[n].phase = "Absent" => nsCache[n].owner = NoOwner

ExcessInv ==
    /\ BaseInv
    /\ SeenInv
    /\ SeenAbsent
    /\ Busy
    /\ HandTallied
    /\ Cardinality(LeftBehind) =< Failures
    /\ HasLimit => WithinBounds

LEMMA StepSeenAbsent ==
    ASSUME BaseInv, SeenInv, SeenAbsent, [Next]_poolSystemVars
    PROVE  SeenAbsent'
<1>0. NsTyped /\ NsVersions /\ TypeInv /\ AbsentUnowned
  BY BaseFacts DEF BaseInv, OwnerInv
<1>1. ASSUME NEW n \in Namespace, DeliverNs(n)
      PROVE  SeenAbsent'
  <2>1. PICK v \in nsWatch[n] : nsCache' = [nsCache EXCEPT ![n] = v]
    BY <1>1 DEF DeliverNs
  <2> QED
    BY <1>0, <2>1 DEF SeenInv, SeenAbsent, NsTyped
<1>2. CASE Restarts
  BY <1>0, <1>2 DEF Restarts, SeenAbsent, AbsentUnowned
<1>3. CASE nsCache' = nsCache
  BY <1>3 DEF SeenAbsent
<1> QED
  BY <1>0, <1>1, <1>2, <1>3, StepStores DEF nsVars, StoresNs

LEMMA LeftBehindNumber ==
    /\ LeftBehind \in SUBSET Namespace /\ Cardinality(LeftBehind) \in Nat
    /\ LeftBehind' \in SUBSET Namespace /\ Cardinality(LeftBehind') \in Nat
<1>1. LeftBehind \in SUBSET Namespace /\ LeftBehind' \in SUBSET Namespace
  BY DEF LeftBehind, Active
<1> QED
  BY <1>1, Finite

\* A new failure is tolerated as soon as it happens.
LEMMA StepFailures ==
    ASSUME ~ClowderPool, BaseInv, BaseInv', HandTallied, Cardinality(LeftBehind) =< Failures,
           [Next]_poolSystemVars
    PROVE  /\ Cardinality(LeftBehind') =< Failures'
           /\ Failures \in Int /\ Failures' \in Int /\ Failures =< Failures'
<1>0. faults \in Nat /\ faults' \in Nat /\ MaxFaults \in Nat
  BY DEF BaseInv, TypeInv, TypeOK, ClusterTypeOK
<1>1. faults' = faults \/ faults' = faults - 1
  BY StepFaults DEF BaseInv
<1>2. Failures \in Int /\ Failures' \in Int /\ Failures =< Failures'
  <2>1. Failures = MaxFaults - faults /\ Failures' = MaxFaults - faults'
    BY DEF Failures
  <2>2. CASE faults' = faults
    BY <1>0, <2>1, <2>2
  <2>3. CASE faults' = faults - 1
    <3>1. Failures' = Failures + 1 /\ Failures \in Int
      BY <1>0, <2>1, <2>3
    <3> QED
      BY <3>1
  <2> QED
    BY <1>1, <2>2, <2>3
<1>3. CASE LeftBehind' \subseteq LeftBehind
  <2>1. Cardinality(LeftBehind') =< Cardinality(LeftBehind)
    BY <1>3, LeftBehindNumber, Smaller
  <2> QED
    BY <1>2, <2>1, LeftBehindNumber
<1>4. ASSUME faults' = faults - 1,
             NEW n \in Namespace, LeftBehind' \subseteq LeftBehind \cup {n}
      PROVE  Cardinality(LeftBehind') =< Failures'
  <2>1. Cardinality(LeftBehind') =< Cardinality(LeftBehind) + 1
    BY <1>4, LeftBehindNumber, OneMore
  <2>2. Failures' = Failures + 1
    BY <1>0, <1>4 DEF Failures
  <2> QED
    BY <1>2, <2>1, <2>2, LeftBehindNumber
<1> QED
  BY <1>2, <1>3, <1>4, StepLeavesBehind

\* What a reconcile does not count it deletes first, or it was left behind.
LEMMA NotCounted ==
    ASSUME BaseInv, SeenInv, SeenAbsent, PoolReconcile
    PROVE  Active \ errNamespaceList' \subseteq CountedIn(nsCache) \cup LeftBehind
<1>1. ASSUME NEW n \in Namespace, n \in Active, n \notin LeftBehind
      PROVE  n \in CountedIn(nsCache) \cup Pooled(nsCache, "error")
  <2>1. Tallied(nsCache[n])
    BY <1>1 DEF LeftBehind, Covered, PoolReconcile, InWork
  <2>2. nsCache[n] \in NsObject /\ ns[n].phase = "Active"
    BY <1>1, BaseFacts DEF NsTyped, Active
  <2>3. Exists(nsCache[n])
    <3>1. nsCache[n].phase # "Gone"
      BY <2>2 DEF SeenInv
    <3>2. nsCache[n].phase # "Absent"
      BY <2>1 DEF SeenAbsent, Tallied, NoOwner, PoolUid, IsReservationUid
    <3> QED
      BY <2>2, <3>1, <3>2 DEF NsObject, Exists
  <2> QED
    BY <2>1, <2>3 DEF Tallied, CountedIn, Counted, Pooled, OwnedByPool
<1>2. errNamespaceList' = Pooled(nsCache, "error")
  BY DEF PoolReconcile
<1> QED
  BY <1>1, <1>2 DEF Active

LEMMA ReconcileBounds ==
    ASSUME HasLimit, ExcessInv, PoolReconcile, faults' = faults
    PROVE  Busy' /\ WithinBounds'
<1>0. /\ SizeLimit \in Nat /\ BaseInv /\ poolPc = "idle" /\ ToCreate = 0
      /\ poolSize \in Nat /\ SeenInv /\ SeenAbsent /\ WithinBounds
      /\ Cardinality(LeftBehind) =< Failures
  BY BaseFacts DEF HasLimit, ExcessInv, PoolReconcile, ToCreate, Pending
<1>1. Failures \in Int /\ Tolerated' = Tolerated /\ Tolerated \in Int
  BY <1>0, BaseFacts DEF Tolerated, Failures
<1> DEFINE c == PoolCounts(nsCache)
           rest == Active \ errNamespaceList'
<1>2. c \in Counts /\ delta' = QuantityDelta(c)
  BY CountTypes DEF PoolReconcile
<1>3. delta' \in Int /\ Total(c) + delta' =< SizeLimit
  BY <1>0, <1>2, DeltaWithinLimit
<1>4. /\ Active' = Active
      /\ poolPc' = IF errNamespaceList' = {} THEN SizeStep(delta') ELSE "mark"
  BY DEF PoolReconcile, clusterVars, nsVars, Active
<1>5. Busy' /\ Pending' = Positive(delta') /\ Positive(delta') \in {0, delta'}
  BY <1>3, <1>4 DEF SizeStep, Busy, Pending, Positive
<1>6. Cardinality(rest) =< Total(c) + Cardinality(LeftBehind)
  <2>1. CountedIn(nsCache) \in SUBSET Namespace /\ LeftBehind \in SUBSET Namespace
    BY LeftBehindNumber DEF CountedIn
  <2> DEFINE both == CountedIn(nsCache) \cup LeftBehind
  <2>2. Cardinality(rest) =< Cardinality(both)
    <3>1. rest \in SUBSET both /\ both \in SUBSET Namespace
      BY <1>0, <2>1, NotCounted
    <3> HIDE DEF rest, both
    <3> QED
      BY <3>1, Smaller
  <2>3. Cardinality(both) =< Cardinality(CountedIn(nsCache)) + Cardinality(LeftBehind)
    <3>1. LeftBehind \ CountedIn(nsCache) \in SUBSET LeftBehind
      OBVIOUS
    <3>2. /\ both = CountedIn(nsCache) \cup (LeftBehind \ CountedIn(nsCache))
          /\ CountedIn(nsCache) \cap (LeftBehind \ CountedIn(nsCache)) = {}
          /\ LeftBehind \ CountedIn(nsCache) \in SUBSET Namespace
      BY <2>1
    <3> HIDE DEF both
    <3>3. Cardinality(both)
            = Cardinality(CountedIn(nsCache)) + Cardinality(LeftBehind \ CountedIn(nsCache))
      BY <2>1, <3>2, Disjoint
    <3>4. Cardinality(LeftBehind \ CountedIn(nsCache)) =< Cardinality(LeftBehind)
      BY <2>1, <3>1, Smaller
    <3>5. /\ Cardinality(CountedIn(nsCache)) \in Nat /\ Cardinality(LeftBehind) \in Nat
          /\ Cardinality(LeftBehind \ CountedIn(nsCache)) \in Nat
      BY <2>1, <3>2, Finite
    <3> QED
      BY <3>3, <3>4, <3>5
  <2>4. Cardinality(CountedIn(nsCache)) = Total(c)
    BY TotalIsCounted
  <2>5. /\ rest \in SUBSET Namespace /\ both \in SUBSET Namespace
    BY <2>1 DEF Active
  <2>6. /\ Cardinality(rest) \in Nat /\ Cardinality(both) \in Nat
        /\ Cardinality(LeftBehind) \in Nat /\ Cardinality(CountedIn(nsCache)) \in Nat
    BY <2>1, <2>5, Finite
  <2> HIDE DEF rest, both, c
  <2> QED
    BY <2>2, <2>3, <2>4, <2>6
<1>7. /\ Cardinality(rest) \in Nat /\ Cardinality(Active) \in Nat
      /\ Cardinality(rest) =< Cardinality(Active) /\ Cardinality(LeftBehind) \in Nat
      /\ Total(c) \in Int
  <2>1. Total(c) \in Int
    BY <1>2 DEF Counts, Total
  <2> QED
    BY <2>1, ActiveNumber, Smaller, LeftBehindNumber
<1>8. Cardinality(Active) =< Tolerated
  BY <1>0, <1>1, <1>7 DEF WithinBounds
<1> HIDE DEF c, rest
<1>9. Cardinality(rest) + Positive(delta') =< Tolerated
  <2>1. CASE Positive(delta') = delta'
    BY <1>0, <1>1, <1>3, <1>6, <1>7, <2>1 DEF Tolerated
  <2>2. CASE Positive(delta') = 0
    BY <1>1, <1>7, <1>8, <2>2
  <2> QED
    BY <1>5, <2>1, <2>2
<1>10. CASE errNamespaceList' = {}
  <2>1. poolPc' \notin {"mark", "delete", "own"}
    BY <1>4, <1>10 DEF SizeStep
  <2>2. ToCreate' = Positive(delta') /\ rest = Active'
    BY <1>4, <1>5, <1>10, <2>1 DEF ToCreate, rest
  <2> QED
    BY <1>1, <1>5, <1>9, <2>1, <2>2 DEF WithinBounds
<1>11. CASE errNamespaceList' # {}
  <2>1. poolPc' = "mark" /\ ToCreate' = 0
    BY <1>4, <1>11 DEF ToCreate
  <2>2. Cardinality(Active') + 0 =< Tolerated
    BY <1>1, <1>4, <1>7, <1>8
  <2> QED
    BY <1>1, <1>4, <1>5, <1>9, <2>1, <2>2 DEF WithinBounds, rest
<1> QED
  BY <1>10, <1>11

\* What is tolerated is a number, and only grows.
LEMMA ToleranceGrows ==
    ASSUME HasLimit, Failures \in Int, Failures' \in Int, Failures =< Failures'
    PROVE  Tolerated \in Int /\ Tolerated' \in Int /\ Tolerated =< Tolerated'
<1>1. SizeLimit \in Nat
  BY DEF HasLimit
<1>2. Tolerated = SizeLimit + Failures /\ Tolerated' = SizeLimit + Failures'
  BY DEF Tolerated
<1>3. \A s \in Nat : \A f, g \in Int : f =< g =>
        s + f \in Int /\ s + g \in Int /\ s + f =< s + g
  OBVIOUS
<1> QED
  BY <1>1, <1>2, <1>3, Zenon

LEMMA NoneToCreate ==
    ASSUME HasLimit, ExcessInv, Tolerated \in Int
    PROVE  ToCreate \in Nat /\ Cardinality(Active) =< Tolerated
<1>1. TypeInv /\ Busy /\ Cardinality(Active) + ToCreate =< Tolerated
  BY DEF ExcessInv, BaseInv, WithinBounds
<1>2. Pending \in Nat /\ (poolPc = "own" => Pending - 1 \in Nat)
  BY <1>1, PendingType DEF Busy, Pending, TypeInv, PoolHands
<1>3. ToCreate \in Nat
  BY <1>2 DEF ToCreate
<1>4. Cardinality(Active) \in Nat
  BY ActiveNumber
<1> QED
  BY <1>1, <1>3, <1>4

LEMMA DeleteBounds ==
    ASSUME HasLimit, ExcessInv, [Next]_poolSystemVars, DeleteErrorNamespace, TypeInv',
           Failures \in Int, Failures' \in Int, Failures =< Failures'
    PROVE  WithinBounds'
<1>0. /\ NsTyped /\ PoolHands /\ TypeInv /\ BaseInv /\ Busy /\ WithinBounds
      /\ poolPc = "delete" /\ nsName \in Namespace
  BY BaseFacts DEF ExcessInv, BaseInv, DeleteErrorNamespace, PoolHands
<1>1. PICK result \in Results :
        /\ DeleteNs(nsName, result)
        /\ IF result = "ok"
           THEN /\ errNamespaceList' = errNamespaceList \ {nsName}
                /\ poolPc' = IF errNamespaceList' = {} THEN SizeStep(delta) ELSE "mark"
                /\ nsName' = NoNamespace
                /\ UNCHANGED <<poolQueued, counts, delta, poolCurrent>>
           ELSE EndReconcile(TRUE)
  BY DEF DeleteErrorNamespace
<1>2. Tolerated \in Int /\ Tolerated' \in Int /\ Tolerated =< Tolerated'
  BY ToleranceGrows
<1>3. Active' \subseteq Active
  BY <1>0, StepActive
<1>4. Cardinality(Active') =< Cardinality(Active)
  BY <1>3, ActiveNumber, Smaller
<1>5. /\ Cardinality(Active) =< Tolerated
      /\ Cardinality(Active \ errNamespaceList) + Positive(delta) =< Tolerated
  BY <1>0, <1>2, NoneToCreate DEF WithinBounds
<1> DEFINE a == Cardinality(Active')
<1>6. a \in Nat /\ Cardinality(Active) \in Nat
  BY ActiveNumber, NextActiveNumber
<1>7. a + 0 =< Tolerated'
  BY <1>2, <1>4, <1>5, <1>6
<1> HIDE DEF a
<1>8. CASE result # "ok"
  <2>1. poolPc' = "idle" /\ ToCreate' = 0
    BY <1>1, <1>8, EndPending DEF EndReconcile, ToCreate
  <2> QED
    BY <1>7, <2>1 DEF a, WithinBounds
<1>9. CASE result = "ok"
  <2>1. /\ errNamespaceList' = errNamespaceList \ {nsName} /\ delta' = delta
        /\ poolPc' = IF errNamespaceList' = {} THEN SizeStep(delta) ELSE "mark"
    BY <1>1, <1>9
  <2>2. Active' \subseteq Active \ {nsName}
    <3>1. ns'[nsName].phase # "Active"
      BY <1>0, <1>1, <1>9, DeleteEnds
    <3> QED
      BY <1>3, <3>1 DEF Active
  <2>3. Active' \ errNamespaceList' \subseteq Active \ errNamespaceList
    BY <2>1, <2>2
  <2>4. Positive(delta) \in Nat
    BY <1>0 DEF PoolHands, Positive
  <2>5. Cardinality(Active' \ errNamespaceList') + Positive(delta) =< Tolerated'
    <3> DEFINE x == Cardinality(Active' \ errNamespaceList')
               y == Cardinality(Active \ errNamespaceList)
    <3>1. x =< y
      BY <2>3, ActiveNumber, Smaller
    <3>2. x \in Nat /\ y \in Nat /\ y + Positive(delta) =< Tolerated
      BY <1>5, ActiveNumber, NextActiveNumber
    <3> HIDE DEF x, y
    <3>3. x + Positive(delta) =< Tolerated'
      BY <1>2, <2>4, <3>1, <3>2
    <3> QED
      BY <3>3 DEF x
  <2>6. CASE errNamespaceList' = {}
    <3>1. poolPc' \notin {"mark", "delete", "own"}
      BY <2>1, <2>6 DEF SizeStep
    <3>2. ToCreate' = Pending' /\ Active' \ errNamespaceList' = Active'
      BY <2>6, <3>1 DEF ToCreate
    <3>3. Pending' =< Pending /\ Pending = Positive(delta) /\ Busy'
      BY <1>0, PendingFalls DEF PoolReconcile, Pending
    <3>4. Pending' \in Nat
      BY <3>3, PendingNextType
    <3>5. a + Positive(delta) =< Tolerated'
      BY <2>5, <3>2 DEF a
    <3>6. a + Pending' =< Tolerated'
      <4>1. \A l \in Int : \A x, y, p \in Nat : p =< y /\ x + y =< l => x + p =< l
        OBVIOUS
      <4>2. Pending' =< Positive(delta)
        BY <3>3
      <4> QED
        BY <1>2, <1>6, <2>4, <3>4, <3>5, <4>1, <4>2, Zenon
    <3> QED
      BY <3>1, <3>2, <3>6 DEF a, WithinBounds
  <2>7. CASE errNamespaceList' # {}
    <3>1. poolPc' = "mark" /\ ToCreate' = 0
      BY <2>1, <2>7 DEF ToCreate
    <3> QED
      BY <1>7, <2>1, <2>5, <3>1 DEF a, WithinBounds
  <2> QED
    BY <2>6, <2>7
<1> QED
  BY <1>8, <1>9

LEMMA CrashBounds ==
    ASSUME HasLimit, ExcessInv, PoolCrash,
           Failures \in Int, Failures' \in Int, Failures =< Failures'
    PROVE  WithinBounds'
<1>1. /\ Tolerated \in Int /\ Tolerated' \in Int /\ Tolerated =< Tolerated'
      /\ Cardinality(Active) =< Tolerated
  BY ToleranceGrows, NoneToCreate
<1>2. Active' = Active /\ poolPc' = "idle" /\ ToCreate' = 0
  BY DEF PoolCrash, EndReconcile, Active, ToCreate, Pending
<1>3. Cardinality(Active) \in Nat
  BY ActiveNumber
<1>4. Cardinality(Active) + 0 =< Tolerated'
  BY <1>1, <1>3
<1> QED
  BY <1>2, <1>4 DEF WithinBounds

LEMMA OtherBounds ==
    ASSUME HasLimit, ExcessInv, [Next]_poolSystemVars, TypeInv',
           Failures \in Int, Failures' \in Int, Failures =< Failures',
           ~PoolReconcile, ~DeleteErrorNamespace, ~PoolCrash
    PROVE  WithinBounds'
<1>0. /\ PoolHands /\ TypeInv /\ Busy /\ BaseInv /\ WithinBounds
      /\ Cardinality(Active) + ToCreate =< Tolerated
  BY BaseFacts DEF ExcessInv, BaseInv, WithinBounds
<1>1. /\ ToCreate' =< ToCreate
      /\ poolPc = "create" /\ poolPc' = "own" => ToCreate' =< ToCreate - 1
  BY <1>0, ToCreateFalls
<1>2. ToCreate \in Int /\ ToCreate' \in Int
  <2>1. Busy' /\ Pending \in Nat
    BY <1>0, PendingFalls, PendingType
  <2>2. Pending' \in Nat
    BY <2>1, PendingNextType
  <2>3. \A p \in Nat : p \in Int /\ p - 1 \in Int /\ 0 \in Int
    OBVIOUS
  <2>4. ToCreate \in {0, Pending - 1, Pending} /\ ToCreate' \in {0, Pending' - 1, Pending'}
    BY DEF ToCreate
  <2>5. Pending \in Int /\ Pending - 1 \in Int /\ Pending' \in Int /\ Pending' - 1 \in Int
    BY <2>1, <2>2, <2>3, Zenon
  <2> QED
    BY <2>4, <2>5
<1>3. Tolerated \in Int /\ Tolerated' \in Int /\ Tolerated =< Tolerated'
  BY ToleranceGrows
<1>4. Cardinality(Active') + ToCreate' =< Tolerated'
  <2> DEFINE a == Cardinality(Active)
             b == Cardinality(Active')
  <2>1. a \in Nat /\ b \in Nat
    BY ActiveNumber, NextActiveNumber
  <2>2. \A t, u \in Int : \/ b =< a /\ u =< t
                          \/ b =< a + 1 /\ u =< t - 1
                          => (a + t =< Tolerated => b + u =< Tolerated')
    BY <1>3, <2>1
  <2>3. CASE Active' \subseteq Active
    <3>1. b =< a
      BY <2>3, ActiveNumber, Smaller
    <3> QED
      BY <1>0, <1>1, <1>2, <2>2, <3>1, Zenon
  <2>4. CASE /\ poolPc = "create" /\ poolPc' = "own"
             /\ nsName' \in Namespace /\ Active' \subseteq Active \cup {nsName'}
    <3>1. b =< a + 1
      BY <2>4, ActiveNumber, OneMore
    <3>2. ToCreate' =< ToCreate - 1
      BY <1>1, <2>4
    <3> QED
      BY <1>0, <1>2, <2>2, <3>1, <3>2, Zenon
  <2> QED
    BY <1>0, <2>3, <2>4, StepActive
<1>5. ASSUME poolPc' \in {"mark", "delete"}
      PROVE  /\ poolPc \in {"mark", "delete"}
             /\ errNamespaceList' = errNamespaceList /\ delta' = delta
             /\ poolPc' = "delete" => nsName' \in errNamespaceList'
  <2>1. ~OwnNamespace
    BY <1>5 DEF OwnNamespace, InHand, EndReconcile
  <2>2. CASE \E n \in Namespace : MarkErrorNamespace(n)
    BY <1>5, <2>2 DEF MarkErrorNamespace, EndReconcile
  <2>3. CASE ~(\E n \in Namespace : MarkErrorNamespace(n))
    BY <1>0, <1>5, <2>1, <2>3, HandStays DEF WithinBounds
  <2> QED
    BY <2>2, <2>3
<1>6. ASSUME poolPc' \in {"mark", "delete"}
      PROVE  Cardinality(Active' \ errNamespaceList') + Positive(delta') =< Tolerated'
  <2> DEFINE x == Cardinality(Active' \ errNamespaceList)
             y == Cardinality(Active \ errNamespaceList)
  <2>1. Active' \ errNamespaceList \subseteq Active \ errNamespaceList
    BY <1>0, <1>5, <1>6, StepActive
  <2>2. x =< y /\ x \in Nat /\ y \in Nat
    BY <2>1, ActiveNumber, NextActiveNumber, Smaller
  <2>3. y + Positive(delta) =< Tolerated /\ Positive(delta) \in Nat
    BY <1>0, <1>5, <1>6 DEF WithinBounds, PoolHands, Positive
  <2> HIDE DEF x, y
  <2>4. x + Positive(delta) =< Tolerated'
    BY <1>3, <2>2, <2>3
  <2> QED
    BY <1>5, <1>6, <2>4 DEF x
<1> QED
  BY <1>4, <1>5, <1>6 DEF WithinBounds

-----------------------------------------------------------------------------
LEMMA ExcessStep ==
    ASSUME ~ClowderPool, ExcessInv, [Next]_poolSystemVars
    PROVE  ExcessInv'
<1>1. /\ BaseInv /\ SeenInv /\ SeenAbsent /\ Busy /\ HandTallied /\ TypeInv
      /\ Cardinality(LeftBehind) =< Failures
  BY DEF ExcessInv, BaseInv
<1>2. BaseInv' /\ SeenInv' /\ SeenAbsent' /\ HandTallied' /\ TypeInv'
  <2>1. BaseInv' /\ TypeInv'
    BY <1>1, BaseStep DEF BaseInv
  <2>2. SeenInv'
    BY <1>1, BaseFacts, StepSeen
  <2>3. SeenAbsent'
    BY <1>1, StepSeenAbsent
  <2>4. HandTallied'
    BY <1>1, StepHandTallied
  <2> QED
    BY <2>1, <2>2, <2>3, <2>4
<1>3. /\ Cardinality(LeftBehind') =< Failures'
      /\ Failures \in Int /\ Failures' \in Int /\ Failures =< Failures'
  BY <1>1, <1>2, StepFailures
<1>4. Busy'
  <2>1. CASE PoolReconcile
    <3>1. /\ delta' = QuantityDelta(PoolCounts(nsCache))
          /\ poolPc' \in {SizeStep(delta'), "mark"}
      BY <2>1 DEF PoolReconcile
    <3>2. delta' \in Int
      BY <1>2 DEF TypeInv, PoolHands
    <3> QED
      BY <3>1, <3>2 DEF SizeStep, Busy
  <2> QED
    BY <1>1, <2>1, PendingFalls
<1>5. ASSUME HasLimit
      PROVE  WithinBounds'
  <2>1. CASE PoolReconcile
    <3>1. faults' = faults
      BY <2>1 DEF PoolReconcile, clusterVars
    <3> QED
      BY <1>5, <2>1, <3>1, ReconcileBounds
  <2> QED
    BY <1>2, <1>3, <1>5, <2>1, DeleteBounds, CrashBounds, OtherBounds
<1> QED
  BY <1>2, <1>3, <1>4, <1>5 DEF ExcessInv, HasLimit

LEMMA ExcessInit ==
    ASSUME Init
    PROVE  ExcessInv
<1>1. BaseInv
  <2>1. ProvisionInv
    BY DEF Init, ClusterInit, EnvInit, PoolInit, ProvisionInv, AbsentNs
  <2> QED
    BY <2>1, TypeInit, OwnerInit DEF BaseInv
<1>2. SeenInv /\ SeenAbsent /\ Busy /\ HandTallied
  BY DEF Init, ClusterInit, PoolInit, SeenInv, SeenAbsent, AbsentNs, Busy, HandTallied
<1>3. Active = {} /\ LeftBehind = {} /\ poolPc = "idle" /\ ToCreate = 0 /\ faults = MaxFaults
  BY DEF Init, ClusterInit, PoolInit, Active, LeftBehind, AbsentNs, ToCreate, Pending
<1>4. Cardinality(Active) = 0 /\ Cardinality(LeftBehind) = 0
  BY <1>3, FS_EmptySet
<1>5. Failures = 0
  BY <1>3 DEF Failures
<1>6. Cardinality(LeftBehind) =< Failures
  BY <1>4, <1>5
<1>7. ASSUME HasLimit
      PROVE  WithinBounds
  BY <1>3, <1>4, <1>5, <1>7 DEF HasLimit, WithinBounds, Tolerated
<1> QED
  BY <1>1, <1>2, <1>6, <1>7 DEF ExcessInv

LEMMA ExcessKept ==
    ASSUME ExcessInv
    PROVE  ExcessOnlyByFailures
<1>1. ASSUME HasLimit
      PROVE  Cardinality(Active) =< SizeLimit + Failures
  <2>1. Tolerated \in Int
    BY <1>1, BaseFacts DEF HasLimit, Tolerated, Failures, ExcessInv
  <2> QED
    BY <1>1, <2>1, NoneToCreate DEF Tolerated
<1> QED
  BY <1>1 DEF ExcessOnlyByFailures, Active

\* There are never more namespaces than the pool's sizeLimit, but one for each
\* call or operator that has failed: a reconcile counts what its cache shows, of
\* whatever age, and what it does not count it deletes before it creates another
\* namespace, unless a failure left it behind.
THEOREM ExcessIsFailures ==
    ASSUME ~ClowderPool
    PROVE  Spec => []ExcessOnlyByFailures
<1>1. ExcessInv /\ [Next]_poolSystemVars => ExcessInv'
  BY ExcessStep
<1> QED
  BY <1>1, ExcessInit, ExcessKept, PTL DEF Spec
=============================================================================
