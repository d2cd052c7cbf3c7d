----------------------------- MODULE Namespaces -----------------------------
(***************************************************************************)
(* helpers/namespaces.go: what the controllers read from and write to a    *)
(* namespace of the pool.                                                  *)
(***************************************************************************)
EXTENDS Cluster

CONSTANT ClowderPool \* does the pool's spec have a ClowdEnvironment?

ASSUME NamespacesAssumption == ClowderPool \in BOOLEAN

\* The owner reference and the pool label are set by the same Update.
OwnedByPool(o) == Exists(o) /\ o.owner = PoolUid

\* Whether a namespace is ready depends on its owner and its env-status, not
\* on its phase nor on the `reserved' annotation.
IsReady(o) == OwnedByPool(o) /\ o.env = "ready"

\* With a bug: the owner is not looked at.
ReadyOfAnyOwner == {n \in Namespace : Exists(nsCache[n]) /\ nsCache[n].env = "ready"}

GetReadyNamespaces == {n \in Namespace : IsReady(nsCache[n])}

\* A read of the cache followed by an Update, retried for a while as long as
\* the read finds nothing or the Update conflicts.
Retried(n, result) ==
    \/ nsWatch[n] = {} /\ Call(Exists(nsCache[n]), result)
    \/ result = "failed" /\ faults > 0 /\ faults' = faults - 1

\* With a bug: whatever the server has is overwritten by the cached copy.
UpdateAnnotationsBlindly(n, env, result) ==
    /\ Call(Exists(ns[n]), result)
    /\ IF Applied(result)
       THEN WriteNs(n, [nsCache[n] EXCEPT !.env = env])
       ELSE UNCHANGED <<ns, nsWatch>>

UpdateAnnotations(n, env, result) ==
    /\ Retried(n, result)
    /\ IF Applied(result)
       THEN WriteNs(n, [nsCache[n] EXCEPT !.env = env])
       ELSE UNCHANGED <<ns, nsWatch>>

\* What a namespace is when it is created, and when it is given its label, its
\* annotations and its owner.
EmptyNs == [AbsentNs EXCEPT !.phase = "Active"]
Owned(o) == [o EXCEPT !.owner = PoolUid, !.env = "creating", !.reserved = FALSE]

\* client.Delete of a namespace: by name.
DeleteNs(n, result) ==
    /\ Call(Exists(ns[n]), result)
    /\ IF Applied(result)
       THEN WriteNs(n, [ns[n] EXCEPT !.phase = "Terminating"])
       ELSE UNCHANGED <<ns, nsWatch>>
=============================================================================
