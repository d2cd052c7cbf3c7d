--------------------------- MODULE ClusterProofs ---------------------------
(***************************************************************************)
(* What the proofs about the controllers need to know of the API server,   *)
(* of the informer cache of namespaces, and of UpdateAnnotations.          *)
(***************************************************************************)
EXTENDS Namespaces, TLAPS

USE ApiCallsAssumption, ClusterAssumption, NamespacesAssumption

-----------------------------------------------------------------------------
(***************************************************************************)
(* Types.                                                                  *)
(***************************************************************************)
LEMMA NsTypes ==
    ASSUME NEW o \in NsObject
    PROVE  /\ \A env \in EnvStatus : [o EXCEPT !.env = env] \in NsObject
           /\ [o EXCEPT !.phase = "Terminating"] \in NsObject
           /\ [o EXCEPT !.phase = "Gone"] \in NsObject
           /\ \A uid \in Nat : [o EXCEPT !.owner = uid, !.reserved = TRUE] \in NsObject
           /\ Owned(o) \in NsObject
           /\ Owned(o).phase = o.phase /\ Owned(o).owner = PoolUid
           /\ Owned(o).env = "creating" /\ ~Owned(o).reserved
  BY DEF NsObject, EnvStatus, Owned, PoolUid

LEMMA EmptyNsType ==
    /\ EmptyNs \in NsObject /\ EmptyNs.phase = "Active"
    /\ EmptyNs.owner = NoOwner /\ EmptyNs.env = "none"
  BY DEF EmptyNs, AbsentNs, NsObject, EnvStatus, NoOwner

LEMMA CallType ==
    ASSUME NEW can, NEW result, faults \in Nat, Call(can, result)
    PROVE  faults' \in Nat
  BY DEF Call

LEMMA WriteNsType ==
    ASSUME NEW n \in Namespace, NEW o \in NsObject, WriteNs(n, o),
           ns \in [Namespace -> NsObject],
           nsWatch \in [Namespace -> SUBSET NsObject]
    PROVE  /\ ns' \in [Namespace -> NsObject]
           /\ nsWatch' \in [Namespace -> SUBSET NsObject]
<1> DEFINE v == [o EXCEPT !.rv = ns[n].rv + 1]
<1>1. v \in NsObject
  BY DEF NsObject
<1>2. CASE o = ns[n]
  BY <1>2 DEF WriteNs
<1>3. CASE o # ns[n]
  BY <1>1, <1>3 DEF WriteNs
<1> QED
  BY <1>2, <1>3

LEMMA RetriedType ==
    ASSUME NEW n \in Namespace, NEW result, Retried(n, result), faults \in Nat
    PROVE  faults' \in Nat
  BY CallType DEF Retried

LEMMA UpdateAnnotationsType ==
    ASSUME NEW n \in Namespace, NEW env \in EnvStatus, NEW result,
           ClusterTypeOK, UpdateAnnotations(n, env, result)
    PROVE  /\ ns' \in [Namespace -> NsObject]
           /\ nsWatch' \in [Namespace -> SUBSET NsObject]
           /\ faults' \in Nat
<1>1. [nsCache[n] EXCEPT !.env = env] \in NsObject
  BY NsTypes DEF ClusterTypeOK
<1>2. faults' \in Nat
  BY RetriedType DEF UpdateAnnotations, ClusterTypeOK
<1>3. CASE Applied(result)
  BY <1>1, <1>2, <1>3, WriteNsType DEF UpdateAnnotations, ClusterTypeOK
<1>4. CASE ~Applied(result)
  BY <1>2, <1>4 DEF UpdateAnnotations, ClusterTypeOK
<1> QED
  BY <1>3, <1>4

LEMMA DeleteNsType ==
    ASSUME NEW n \in Namespace, NEW result, ClusterTypeOK, DeleteNs(n, result)
    PROVE  /\ ns' \in [Namespace -> NsObject]
           /\ nsWatch' \in [Namespace -> SUBSET NsObject]
           /\ faults' \in Nat
<1>1. [ns[n] EXCEPT !.phase = "Terminating"] \in NsObject
  BY NsTypes DEF ClusterTypeOK
<1>2. faults' \in Nat
  BY CallType DEF DeleteNs, ClusterTypeOK
<1>3. CASE Applied(result)
  BY <1>1, <1>2, <1>3, WriteNsType DEF DeleteNs, ClusterTypeOK
<1>4. CASE ~Applied(result)
  BY <1>2, <1>4 DEF DeleteNs, ClusterTypeOK
<1> QED
  BY <1>3, <1>4

-----------------------------------------------------------------------------
(***************************************************************************)
(* What is stored and what the cache shows of it.                          *)
(***************************************************************************)
NsTyped ==
    /\ ns \in [Namespace -> NsObject]
    /\ nsCache \in [Namespace -> NsObject]
    /\ nsWatch \in [Namespace -> SUBSET NsObject]

\* A copy of a namespace that has its current version is equal to it, and the
\* cache is current as soon as there is nothing left to deliver.
NsVersions ==
    \A n \in Namespace :
        /\ \A v \in nsWatch[n] \cup {nsCache[n]} :
             v.rv =< ns[n].rv /\ (v.rv = ns[n].rv => v = ns[n])
        /\ nsWatch[n] = {} => nsCache[n] = ns[n]
        /\ nsWatch[n] # {} => ns[n] \in nsWatch[n]

\* What a namespace becomes when o is stored.
LEMMA WrittenNs ==
    ASSUME NsTyped, NEW n \in Namespace, NEW o \in NsObject, WriteNs(n, o)
    PROVE  /\ \A m \in Namespace \ {n} : ns'[m] = ns[m] /\ nsWatch'[m] = nsWatch[m]
           /\ ns'[n].phase = o.phase /\ ns'[n].owner = o.owner
           /\ ns'[n].env = o.env /\ ns'[n].reserved = o.reserved
           /\ ns'[n] \in NsObject
           /\ \/ ns'[n] = ns[n] /\ nsWatch'[n] = nsWatch[n]
              \/ /\ ns'[n].rv = ns[n].rv + 1
                 /\ nsWatch'[n] = nsWatch[n] \cup {ns'[n]}
<1> DEFINE v == [o EXCEPT !.rv = ns[n].rv + 1]
<1>0. ns[n].rv \in Nat
  BY DEF NsObject, NsTyped
<1>1. /\ v \in NsObject /\ v.phase = o.phase /\ v.owner = o.owner
      /\ v.env = o.env /\ v.reserved = o.reserved /\ v.rv = ns[n].rv + 1
  BY <1>0 DEF NsObject
<1>2. CASE o = ns[n]
  BY <1>2 DEF WriteNs, NsTyped
<1>3. CASE o # ns[n]
  <2>1. ns' = [ns EXCEPT ![n] = v] /\ nsWatch' = [nsWatch EXCEPT ![n] = @ \cup {v}]
    BY <1>3 DEF WriteNs
  <2> HIDE DEF v
  <2> QED
    BY <1>1, <2>1 DEF NsTyped
<1> QED
  BY <1>2, <1>3

LEMMA WriteVersions ==
    ASSUME NsTyped, NsVersions, NEW n \in Namespace, NEW o \in NsObject, WriteNs(n, o),
           UNCHANGED nsCache
    PROVE  NsVersions'
<1>1. /\ \A m \in Namespace \ {n} : ns'[m] = ns[m] /\ nsWatch'[m] = nsWatch[m]
      /\ \/ ns'[n] = ns[n] /\ nsWatch'[n] = nsWatch[n]
         \/ /\ ns'[n].rv = ns[n].rv + 1
            /\ nsWatch'[n] = nsWatch[n] \cup {ns'[n]}
  BY WrittenNs
<1>2. ns[n].rv \in Nat /\ \A v \in nsWatch[n] \cup {nsCache[n]} : v.rv \in Nat
  BY DEF NsTyped, NsObject
<1> QED
  BY <1>1, <1>2 DEF NsVersions

LEMMA DeliverVersions ==
    ASSUME NsTyped, NsVersions, NEW n \in Namespace, DeliverNs(n)
    PROVE  NsVersions'
<1>1. PICK v \in nsWatch[n] :
        /\ IsOldest(v, nsWatch[n])
        /\ nsCache' = [nsCache EXCEPT ![n] = v]
        /\ nsWatch' = [nsWatch EXCEPT ![n] = @ \ {v}]
  BY DEF DeliverNs
<1>2. /\ ns' = ns
      /\ nsCache'[n] = v /\ nsWatch'[n] = nsWatch[n] \ {v}
      /\ \A m \in Namespace \ {n} : nsCache'[m] = nsCache[m] /\ nsWatch'[m] = nsWatch[m]
  BY <1>1 DEF DeliverNs, NsTyped
<1>3. ns[n] \in nsWatch[n] /\ v.rv =< ns[n].rv /\ (v.rv = ns[n].rv => v = ns[n])
  BY DEF NsVersions
<1>4. \A w \in nsWatch[n] : v.rv =< w.rv /\ w.rv =< ns[n].rv /\ (w.rv = ns[n].rv => w = ns[n])
  BY <1>1 DEF NsVersions, IsOldest
<1>5. v.rv \in Nat /\ ns[n].rv \in Nat /\ \A w \in nsWatch[n] : w.rv \in Nat
  BY DEF NsTyped, NsObject
<1>6. v = ns[n] => nsWatch[n] = {v}
  BY <1>3, <1>4, <1>5
<1> QED
  BY <1>2, <1>3, <1>4, <1>6 DEF NsVersions

LEMMA RestartVersions ==
    ASSUME NsTyped, nsCache' = ns, nsWatch' = [n \in Namespace |-> {}], UNCHANGED ns
    PROVE  NsVersions'
<1>1. \A n \in Namespace : nsWatch'[n] = {} /\ nsCache'[n] = ns'[n]
  OBVIOUS
<1>2. \A n \in Namespace : ns'[n].rv \in Nat
  BY DEF NsTyped, NsObject
<1> QED
  BY <1>1, <1>2 DEF NsVersions

LEMMA InitVersions ==
    ASSUME ClusterInit
    PROVE  NsVersions
  BY DEF ClusterInit, NsVersions, AbsentNs

\* An Update of the cached copy that is retried works on the stored object.
LEMMA RetriedCurrent ==
    ASSUME NsVersions, NEW n \in Namespace, NEW result, Retried(n, result), Applied(result)
    PROVE  nsCache[n] = ns[n] /\ Exists(ns[n])
<1>1. nsWatch[n] = {} /\ Exists(nsCache[n])
  BY DEF Retried, Call, Applied
<1> QED
  BY <1>1 DEF NsVersions

LEMMA CurrentNs ==
    ASSUME NsVersions, NEW n \in Namespace, NsCurrent(n, nsCache[n])
    PROVE  nsCache[n] = ns[n] /\ Exists(ns[n])
  BY DEF NsCurrent, NsVersions

\* UpdateAnnotations changes the env-status of what is stored, or nothing.
LEMMA AnnotationsWritten ==
    ASSUME NsTyped, NsVersions, NEW n \in Namespace, NEW env \in EnvStatus, NEW result,
           UpdateAnnotations(n, env, result)
    PROVE  \/ UNCHANGED <<ns, nsWatch>> /\ ~Applied(result)
           \/ /\ Exists(ns[n]) /\ Applied(result)
              /\ WriteNs(n, [ns[n] EXCEPT !.env = env])
              /\ [ns[n] EXCEPT !.env = env] \in NsObject
<1>1. CASE Applied(result)
  BY <1>1, RetriedCurrent, NsTypes DEF UpdateAnnotations, NsTyped
<1>2. CASE ~Applied(result)
  BY <1>2 DEF UpdateAnnotations
<1> QED
  BY <1>1, <1>2
=============================================================================
