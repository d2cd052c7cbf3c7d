------------------------------ MODULE Cluster ------------------------------
(***************************************************************************)
(* The part of the Kubernetes cluster that the operator reads and writes:  *)
(* the namespaces of one NamespacePool and the NamespaceReservations that  *)
(* ask for them.                                                           *)
(*                                                                         *)
(* None of this is code of the repository.  It is modelled from how the    *)
(* repository uses it through controller-runtime's client:                 *)
(*                                                                         *)
(*  - the API server keeps the current version of an object; an Update     *)
(*    succeeds only when the caller's copy carries the current             *)
(*    resourceVersion; an update that changes nothing creates no version;  *)
(*  - Get and List of mgr.GetClient() (run.go:66-91) read an informer      *)
(*    cache, which receives the versions of an object in order but late;   *)
(*  - Delete of an object with a finalizer only sets its deletion          *)
(*    timestamp; without one it removes the object;                        *)
(*  - the garbage collector deletes a namespace whose owner is gone;       *)
(*  - any call may fail, and a write may take effect although the caller   *)
(*    sees an error.                                                       *)
(***************************************************************************)
EXTENDS ApiCalls

CONSTANTS
    Namespace,    \* names that CreateNamespace may draw
    Reservation,  \* names users give to their NamespaceReservations
    NoNamespace,  \* the empty Status.Namespace
    NoKey,        \* no reservation is being looked at
    Durations,    \* the values of Spec.Duration users write
    RestoredFinalizer, \* may a user's manifest already have the finalizer?
    CapiUsers,    \* namespaces in which users deploy CAPI clusters
    MaxUid,       \* bound: how many reservations are ever created
    MaxTime       \* bound: the last instant of the clock

(***************************************************************************)
(* Spec.Duration is an optional string.  A parsable one is its length in   *)
(* clock units; the other two values are the ones the code tells apart.    *)
(***************************************************************************)
Unparsable == -1
Unset      == -2

ASSUME ClusterAssumption ==
    /\ NoNamespace \notin Namespace
    /\ NoKey \notin Reservation
    /\ Durations \subseteq Nat \cup {Unparsable, Unset}
    /\ RestoredFinalizer \in BOOLEAN
    /\ CapiUsers \subseteq Namespace
    /\ MaxUid \in Nat
    /\ MaxTime \in Nat

VARIABLES
    ns,          \* ns[n]: namespace n on the API server
    nsCache,     \* nsCache[n]: namespace n in the informer cache
    nsWatch,     \* nsWatch[n]: versions of n the cache has not received yet
    roleBinding, \* roleBinding[n]: the reservation rolebinding was created
    res,         \* res[r]: reservation r on the API server
    resCache,    \* the same for reservations
    resWatch,
    clusters,    \* clusters[n]: CAPI Cluster resources in namespace n
    clusterCache,\* the same in the informer cache
    nextUid,     \* UIDs below this one were given to reservations
    now          \* the clock; 0 is Go's zero time, never the current time

nsVars  == <<ns, nsCache, nsWatch>>
resVars == <<res, resCache, resWatch, nextUid>>
capiVars == <<clusters, clusterCache>>
clusterVars == <<nsVars, roleBinding, resVars, capiVars, now, faults>>

ZeroTime == 0

(***************************************************************************)
(* The owner of a namespace is a UID: the pool's, or a reservation's.      *)
(***************************************************************************)
NoOwner == -1
PoolUid == 0
IsReservationUid(u) == u > 0

EnvStatus == {"none", "creating", "ready", "error", "deleting"}

NsObject == [phase    : {"Absent", "Active", "Terminating", "Gone"},
             rv       : Nat,
             owner    : Nat \cup {NoOwner},
             env      : EnvStatus,
             reserved : BOOLEAN]

State == {"", "waiting", "active", "deleting"}

ResObject == [live       : BOOLEAN,
              uid        : Nat,
              rv         : Nat,
              created    : Nat,
              duration   : Nat \cup {Unparsable, Unset},
              deleting   : BOOLEAN,
              finalizer  : BOOLEAN,
              state      : State,
              namespace  : Namespace \cup {NoNamespace},
              expiration : Nat]

AbsentNs == [phase |-> "Absent", rv |-> 0, owner |-> NoOwner,
             env |-> "none", reserved |-> FALSE]

NoReservation(rv) ==
    [live |-> FALSE, uid |-> 0, rv |-> rv, created |-> 0, duration |-> 0,
     deleting |-> FALSE, finalizer |-> FALSE, state |-> "",
     namespace |-> NoNamespace, expiration |-> ZeroTime]

ClusterState == {"none", "running", "deleting"}

ClusterTypeOK ==
    /\ ns \in [Namespace -> NsObject]
    /\ nsCache \in [Namespace -> NsObject]
    /\ nsWatch \in [Namespace -> SUBSET NsObject]
    /\ roleBinding \in [Namespace -> BOOLEAN]
    /\ res \in [Reservation -> ResObject]
    /\ resCache \in [Reservation -> ResObject]
    /\ resWatch \in [Reservation -> SUBSET ResObject]
    /\ clusters \in [Namespace -> ClusterState]
    /\ clusterCache \in [Namespace -> ClusterState]
    /\ nextUid \in Nat \ {0}
    /\ now \in Nat \ {0}
    /\ faults \in Nat

ClusterInit ==
    /\ ns = [n \in Namespace |-> AbsentNs]
    /\ nsCache = ns
    /\ nsWatch = [n \in Namespace |-> {}]
    /\ roleBinding = [n \in Namespace |-> FALSE]
    /\ res = [r \in Reservation |-> NoReservation(0)]
    /\ resCache = res
    /\ resWatch = [r \in Reservation |-> {}]
    /\ clusters = [n \in Namespace |-> "none"]
    /\ clusterCache = clusters
    /\ nextUid = 1
    /\ now = 1
    /\ faults = MaxFaults

-----------------------------------------------------------------------------
(***************************************************************************)
(* API calls.                                                              *)
(***************************************************************************)
Exists(o) == o.phase \in {"Active", "Terminating"}

\* The server stores o as the next version of the namespace or reservation.
WriteNs(n, o) ==
    LET v == [o EXCEPT !.rv = ns[n].rv + 1] IN
    IF o = ns[n]
    THEN UNCHANGED <<ns, nsWatch>>
    ELSE /\ ns' = [ns EXCEPT ![n] = v]
         /\ nsWatch' = [nsWatch EXCEPT ![n] = @ \cup {v}]

NextVersion(r, o) ==
    IF o = res[r] THEN o ELSE [o EXCEPT !.rv = res[r].rv + 1]

WriteRes(r, o) ==
    /\ res' = [res EXCEPT ![r] = NextVersion(r, o)]
    /\ resWatch' = [resWatch EXCEPT
                      ![r] = IF o = res[r] THEN @ ELSE @ \cup {NextVersion(r, o)}]

\* Optimistic concurrency control: the caller's copy must be current.
NsCurrent(n, copy)  == Exists(ns[n]) /\ copy.rv = ns[n].rv
ResCurrent(r, copy) == res[r].live /\ copy.rv = res[r].rv

\* client.Delete of a reservation: by name, whatever version the caller saw.
AfterDelete(o) == IF o.finalizer THEN [o EXCEPT !.deleting = TRUE]
                                 ELSE NoReservation(o.rv)

-----------------------------------------------------------------------------
(***************************************************************************)
(* What happens in the cluster without the operator.                       *)
(***************************************************************************)
\* The oldest version among those the cache has not received.
IsOldest(v, V) == v \in V /\ \A w \in V : v.rv =< w.rv

DeliverNs(n) ==
    /\ \E v \in nsWatch[n] :
         /\ IsOldest(v, nsWatch[n])
         /\ nsCache' = [nsCache EXCEPT ![n] = v]
         /\ nsWatch' = [nsWatch EXCEPT ![n] = @ \ {v}]
    /\ UNCHANGED <<ns, roleBinding, resVars, capiVars, now, faults>>

DeliverRes(r) ==
    /\ \E v \in resWatch[r] :
         /\ IsOldest(v, resWatch[r])
         /\ resCache' = [resCache EXCEPT ![r] = v]
         /\ resWatch' = [resWatch EXCEPT ![r] = @ \ {v}]
    /\ UNCHANGED <<nsVars, roleBinding, res, nextUid, capiVars, now, faults>>

\* Garbage collection deletes a namespace whose owner no longer exists.
OwnerGone(n) ==
    /\ IsReservationUid(ns[n].owner)
    /\ \A r \in Reservation : ~(res[r].live /\ res[r].uid = ns[n].owner)

GarbageCollect(n) ==
    /\ ns[n].phase = "Active"
    /\ OwnerGone(n)
    /\ WriteNs(n, [ns[n] EXCEPT !.phase = "Terminating"])
    /\ UNCHANGED <<nsCache, roleBinding, resVars, capiVars, now, faults>>

\* A terminating namespace goes away once nothing in it has a finalizer.
FinalizeNamespace(n) ==
    /\ ns[n].phase = "Terminating"
    /\ clusters[n] = "none"
    /\ WriteNs(n, [ns[n] EXCEPT !.phase = "Gone"])
    /\ UNCHANGED <<nsCache, roleBinding, resVars, capiVars, now, faults>>

\* Users create, edit and delete reservations.  A name may be used again.
CreateReservation(r, d) ==
    /\ ~res[r].live
    /\ nextUid =< MaxUid
    /\ \E f \in {FALSE, RestoredFinalizer} :
         WriteRes(r, [NoReservation(res[r].rv) EXCEPT
                        !.live = TRUE, !.uid = nextUid, !.created = now,
                        !.duration = d, !.finalizer = f])
    /\ nextUid' = nextUid + 1
    /\ UNCHANGED <<nsVars, roleBinding, resCache, capiVars, now, faults>>

\* A user prolongs a reservation, or breaks its duration.
EditDuration(r, d) ==
    /\ res[r].live /\ ~res[r].deleting
    /\ res[r].duration \in Nat
    /\ d > res[r].duration \/ d = Unparsable
    /\ WriteRes(r, [res[r] EXCEPT !.duration = d])
    /\ UNCHANGED <<nsVars, roleBinding, resCache, nextUid, capiVars, now, faults>>

DeleteReservation(r) ==
    /\ res[r].live /\ ~res[r].deleting
    /\ WriteRes(r, AfterDelete(res[r]))
    /\ UNCHANGED <<nsVars, roleBinding, resCache, nextUid, capiVars, now, faults>>

\* A user deploys a CAPI cluster in the namespace of an active reservation;
\* the CAPI controllers remove a cluster some time after its deletion, with
\* credentials that are lost when the namespace terminates (capi.go:18-20).
DeployCluster(r) ==
    /\ res[r].live /\ ~res[r].deleting /\ res[r].state = "active"
    /\ res[r].namespace \in CapiUsers
    /\ ns[res[r].namespace].phase = "Active"
    /\ clusters[res[r].namespace] = "none"
    /\ clusters' = [clusters EXCEPT ![res[r].namespace] = "running"]
    /\ UNCHANGED <<nsVars, roleBinding, resVars, clusterCache, now, faults>>

ClusterRemoved(n) ==
    /\ clusters[n] = "deleting"
    /\ ns[n].phase = "Active"
    /\ clusters' = [clusters EXCEPT ![n] = "none"]
    /\ UNCHANGED <<nsVars, roleBinding, resVars, clusterCache, now, faults>>

\* Only the presence of a cluster matters to the operator, so the cache may
\* jump to the current state.
DeliverCluster(n) ==
    /\ clusterCache[n] # clusters[n]
    /\ clusterCache' = [clusterCache EXCEPT ![n] = clusters[n]]
    /\ UNCHANGED <<nsVars, roleBinding, resVars, clusters, now, faults>>

Tick ==
    /\ now < MaxTime
    /\ now' = now + 1
    /\ UNCHANGED <<nsVars, roleBinding, resVars, capiVars, faults>>
=============================================================================
