------------------------- MODULE ClowdEnvController -------------------------
(***************************************************************************)
(* clowdenvironment_controller.go: when the ClowdEnvironment of a          *)
(* namespace is ready, its worker creates the FrontendEnvironment and      *)
(* marks the namespace ready, whatever its env-status has become.  A       *)
(* ClowdEnvironment has the name of its namespace and is identified with   *)
(* it.  One that is not ready yet is only requeued, so its first reconcile *)
(* here is the first that finds it ready.                                  *)
(***************************************************************************)
EXTENDS Namespaces

CONSTANT
    MaxEnvEvents   \* bound: how often a ClowdEnvironment reports to be ready

ASSUME ClowdEnvControllerAssumption == MaxEnvEvents \in Nat

VARIABLES
    clowdEnvs,   \* the ClowdEnvironments that were created
    envEvents,   \* envEvents[n]: reports that n's may still make
    envQueue,    \* those to reconcile
    envPc,       \* the next step of the reconcile in progress
    envNs,       \* the namespace it is about
    completed,   \* the namespaces with a completion-time
    frontendEnvs,\* the FrontendEnvironments that were created
    shims        \* the namespaces that got all their shim services

frontendVars == <<frontendEnvs, shims>>
envWorkerVars == <<envEvents, envQueue, envPc, envNs, completed, frontendVars>>
envVars == <<clowdEnvs, envWorkerVars>>

EnvTypeOK ==
    /\ clowdEnvs \in SUBSET Namespace
    /\ envEvents \in [Namespace -> 0..MaxEnvEvents]
    /\ envQueue \in SUBSET clowdEnvs
    /\ envPc \in {"idle", "frontend", "shims", "error", "ready"}
    /\ envNs \in Namespace \cup {NoNamespace}
    /\ envPc # "idle" => envNs # NoNamespace
    /\ completed \in SUBSET Namespace
    /\ frontendEnvs \in SUBSET Namespace
    /\ shims \in SUBSET frontendEnvs

EnvInit ==
    /\ clowdEnvs = {}
    /\ envEvents = [n \in Namespace |-> MaxEnvEvents]
    /\ envQueue = {}
    /\ envPc = "idle"
    /\ envNs = NoNamespace
    /\ completed = {}
    /\ frontendEnvs = {}
    /\ shims = {}

\* helpers/clowdenvs.go, called by the pool controller.
CreateClowdEnv(n) == clowdEnvs' = clowdEnvs \cup {n}

EndEnvReconcile(again) ==
    /\ envPc' = "idle"
    /\ envNs' = NoNamespace
    /\ envQueue' = IF again THEN envQueue \cup {envNs} ELSE envQueue

\* poolFilter lets an event pass if the cache shows the namespace in a pool;
\* the reconcile does not look at the owner again.
EnvEvent(n) ==
    /\ n \in clowdEnvs
    /\ envEvents[n] > 0
    /\ OwnedByPool(nsCache[n])
    /\ envEvents' = [envEvents EXCEPT ![n] = @ - 1]
    /\ envQueue' = envQueue \cup {n}
    /\ UNCHANGED <<clowdEnvs, envPc, envNs, completed, frontendVars,
                   clusterVars>>

\* A ClowdEnvironment goes with its namespace.
EnvReconcile(n) ==
    /\ envPc = "idle"
    /\ n \in envQueue
    /\ envQueue' = envQueue \ {n}
    /\ IF ns[n].phase = "Gone"
       THEN UNCHANGED <<envPc, envNs>>
       ELSE envPc' = "frontend" /\ envNs' = n
    /\ UNCHANGED <<clowdEnvs, envEvents, completed, frontendVars, clusterVars>>

(***************************************************************************)
(* CreateFrontendEnv (helpers/frontends.go).  A FrontendEnvironment that   *)
(* exists is taken to be complete; otherwise it is created and then the    *)
(* shim services.  The cache may not show one that exists: then Create is  *)
(* an error.  The calls about frontends may fail at any time, and are not  *)
(* among those that MaxFaults bounds.                                      *)
(***************************************************************************)
EnvGoto(step) == envPc' = step /\ UNCHANGED <<envNs, envQueue>>

\* With a bug: the error of CreateFrontendEnv is only logged.
CreateFrontendEnvLogged ==
    /\ envPc = "frontend"
    /\ \E result \in Results :
         /\ Applied(result) => Exists(nsCache[envNs])
         /\ frontendEnvs' = IF Applied(result)
                            THEN frontendEnvs \cup {envNs} ELSE frontendEnvs
    /\ EnvGoto("ready")
    /\ UNCHANGED <<clowdEnvs, envEvents, completed, shims, clusterVars>>

CreateFrontendEnv ==
    /\ envPc = "frontend"
    /\ \E result \in Results :
         IF envNs \in frontendEnvs
         THEN /\ EnvGoto(IF result = "ok" THEN "ready" ELSE "error")
              /\ UNCHANGED frontendEnvs
         ELSE /\ Applied(result) => Exists(nsCache[envNs])
              /\ frontendEnvs' = IF Applied(result)
                                 THEN frontendEnvs \cup {envNs} ELSE frontendEnvs
              /\ EnvGoto(IF result = "ok" THEN "shims" ELSE "error")
    /\ UNCHANGED <<clowdEnvs, envEvents, completed, shims, clusterVars>>

\* A shim is left out, and that is no error, if its original is not found: there
\* is none, the cache does not show it yet, or the read fails.  A namespace that
\* is terminating refuses those whose originals are found.
CreateShimServices ==
    /\ envPc = "shims"
    /\ \E result \in {"ok", "failed"} : EnvGoto(IF result = "ok" THEN "ready" ELSE "error")
    /\ \/ ns[envNs].phase = "Active" /\ shims' = shims \cup {envNs}
       \/ UNCHANGED shims
    /\ UNCHANGED <<clowdEnvs, envEvents, completed, frontendEnvs, clusterVars>>

\* After marking the namespace with the error the reconcile goes on.
EnvMarkError ==
    /\ envPc = "error"
    /\ \E result \in Results :
         /\ UpdateAnnotations(envNs, "error", result)
         /\ IF result = "ok"
            THEN envPc' = "ready" /\ UNCHANGED <<envNs, envQueue>>
            ELSE EndEnvReconcile(TRUE)
    /\ UNCHANGED <<clowdEnvs, envEvents, completed, frontendVars, nsCache, roleBinding,
                   resVars, capiVars, now>>

\* With a bug: the Update of the older copy is accepted, and undoes the rest.
EnvMarkReadyUndone ==
    /\ envPc = "ready"
    /\ \E result \in Results :
         /\ UpdateAnnotations(envNs, nsCache[envNs].env, result)
         /\ completed' = IF result = "ok" THEN completed \cup {envNs} ELSE completed
         /\ EndEnvReconcile(result # "ok")
    /\ UNCHANGED <<clowdEnvs, envEvents, frontendVars, nsCache, roleBinding, resVars,
                   capiVars, now>>

\* The first time, the completion-time is stored too, by an UpdateAnnotations
\* after which the Update of the older copy is a conflict: the reconcile is
\* repeated.
EnvMarkReady ==
    /\ envPc = "ready"
    /\ \E result \in Results :
         /\ UpdateAnnotations(envNs, "ready", result)
         /\ completed' = IF result = "ok" THEN completed \cup {envNs} ELSE completed
         /\ EndEnvReconcile(result # "ok" \/ envNs \notin completed)
    /\ UNCHANGED <<clowdEnvs, envEvents, frontendVars, nsCache, roleBinding, resVars,
                   capiVars, now>>

\* After a restart every ClowdEnvironment of a pool's namespace is an event.
RestartEnvController ==
    /\ envPc' = "idle"
    /\ envNs' = NoNamespace
    /\ envQueue' = {n \in clowdEnvs : OwnedByPool(ns[n])}
    /\ UNCHANGED <<clowdEnvs, envEvents, completed, frontendVars>>

EnvWorkerStep ==
    \/ \E n \in Namespace : EnvReconcile(n)
    \/ CreateFrontendEnv
    \/ CreateShimServices
    \/ EnvMarkError
    \/ EnvMarkReady
=============================================================================
