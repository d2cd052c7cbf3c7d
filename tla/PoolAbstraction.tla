-------------------------- MODULE PoolAbstraction --------------------------
(***************************************************************************)
(* What the pool controller and the ClowdEnvironment controller do to      *)
(* namespaces, as seen by the reservation controller and the poller.  How  *)
(* many namespaces there are to be is left out: the pool creates one, or   *)
(* gives one up, whenever it likes.  It decides from a List of the         *)
(* informer cache and acts later; `poolPlan' is what a reconcile has       *)
(* decided and not done yet.  PoolSystem is the detailed model of the same *)
(* code, and implements this one.                                          *)
(***************************************************************************)
EXTENDS Namespaces

CONSTANT
    Excess        \* the namespaces the pool may find to be in excess

ASSUME PoolAbstractionAssumption == Excess \subseteq Namespace

VARIABLE poolPlan \* poolPlan[n]: what the pool controller has in mind for n

Plan == {"none", "own", "prepare", "retire", "mark", "delete"}

PoolAbstractionTypeOK == poolPlan \in [Namespace -> Plan]

NoPlans == [n \in Namespace |-> "none"]

PoolAbstractionInit == poolPlan = NoPlans

\* How a step goes on with n; or the reconcile ends.
Intend(n, plan) == poolPlan' = [poolPlan EXCEPT ![n] = plan]
GiveUp == poolPlan' = NoPlans

besidesNs == <<nsCache, roleBinding, resVars, capiVars, now>>

-----------------------------------------------------------------------------
(***************************************************************************)
(* increaseReadyNamespacesQueue: a namespace is created, given to the pool *)
(* and set up, and deleted by name if any of that fails, whatever it has   *)
(* become by then: an answer may be lost.                                  *)
(***************************************************************************)
CreateNamespace(n) ==
    /\ poolPlan = NoPlans
    /\ ns[n].phase = "Absent"
    /\ \E result \in Results :
         /\ Call(TRUE, result)
         /\ IF Applied(result) THEN WriteNs(n, EmptyNs) ELSE UNCHANGED <<ns, nsWatch>>
    /\ Intend(n, "own")
    /\ UNCHANGED besidesNs

OwnNamespace(n) ==
    /\ poolPlan[n] = "own"
    /\ \E result \in Results :
         /\ Retried(n, result)
         /\ IF Applied(result)
            THEN WriteNs(n, Owned(nsCache[n]))
            ELSE UNCHANGED <<ns, nsWatch>>
         /\ \/ result = "ok" /\ Intend(n, "prepare")
            \/ result # "ok" /\ Exists(nsCache[n]) /\ Intend(n, "delete")
            \/ result = "failed" /\ GiveUp
    /\ UNCHANGED besidesNs

\* The ClowdEnvironment, for which the namespace is read, or the quotas and
\* the secrets, which a namespace that is terminating refuses.
PrepareFails(n) ==
    /\ poolPlan[n] = "prepare"
    /\ \E can \in {Exists(nsCache[n]), ns[n].phase = "Active"},
          result \in Results \ {"ok"} :
         Call(can, result)
    /\ Intend(n, "delete")
    /\ UNCHANGED <<ns, nsWatch, besidesNs>>

Prepared(n) ==
    /\ ClowderPool
    /\ poolPlan[n] = "prepare"
    /\ Intend(n, "none")
    /\ UNCHANGED clusterVars

MarkReady(n) ==
    /\ ~ClowderPool
    /\ poolPlan[n] = "prepare"
    /\ \E result \in Results :
         /\ UpdateAnnotations(n, "ready", result)
         /\ Intend(n, IF result = "ok" THEN "none" ELSE "delete")
    /\ UNCHANGED besidesNs

-----------------------------------------------------------------------------
(***************************************************************************)
(* decreaseReadyNamespacesQueue, which may mark the same one repeatedly.   *)
(***************************************************************************)
PlanRetire(n) ==
    /\ n \in Excess
    /\ poolPlan = NoPlans
    /\ IsReady(nsCache[n]) /\ ~nsCache[n].reserved
    /\ Intend(n, "retire")
    /\ UNCHANGED clusterVars

RetireNamespace(n) ==
    /\ poolPlan[n] = "retire"
    /\ \E result \in Results :
         /\ UpdateAnnotations(n, "error", result)
         /\ GiveUp \/ (result = "ok" /\ UNCHANGED poolPlan)
    /\ UNCHANGED besidesNs

(***************************************************************************)
(* deleteErrorNamespaces.  UpdateAnnotations(deleting) and Delete take     *)
(* what the namespace has become since it was listed.                      *)
(***************************************************************************)
InError == {n \in Namespace : OwnedByPool(nsCache[n]) /\ nsCache[n].env = "error"}

PlanDelete ==
    /\ poolPlan = NoPlans
    /\ InError # {}
    /\ poolPlan' = [n \in Namespace |-> IF n \in InError THEN "mark" ELSE "none"]
    /\ UNCHANGED clusterVars

MarkErrorNamespace(n) ==
    /\ poolPlan[n] = "mark"
    /\ \E result \in Results :
         /\ UpdateAnnotations(n, "deleting", result)
         /\ IF result = "ok" THEN Intend(n, "delete") ELSE GiveUp
    /\ UNCHANGED besidesNs

DeleteNamespace(n) ==
    /\ poolPlan[n] = "delete"
    /\ \E result \in Results :
         /\ DeleteNs(n, result)
         /\ IF result = "ok" THEN Intend(n, "none") ELSE GiveUp
    /\ UNCHANGED besidesNs

PoolStep(n) ==
    \/ CreateNamespace(n)
    \/ OwnNamespace(n)
    \/ PrepareFails(n)
    \/ Prepared(n)
    \/ MarkReady(n)
    \/ PlanRetire(n)
    \/ RetireNamespace(n)
    \/ MarkErrorNamespace(n)
    \/ DeleteNamespace(n)

\* The controller of ClowdEnvironments, whose events pass once the cache shows
\* the namespace in a pool; it does not look at the owner again.
EnvStep(n) ==
    /\ ClowderPool
    /\ nsCache[n].owner # NoOwner
    /\ \E env \in {"error", "ready"}, result \in Results :
         UpdateAnnotations(n, env, result)
    /\ UNCHANGED <<poolPlan, besidesNs>>
=============================================================================
