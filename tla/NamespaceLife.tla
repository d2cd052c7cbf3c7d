--------------------------- MODULE NamespaceLife ---------------------------
(***************************************************************************)
(* What is in one namespace, from its set-up by the pool controller to its *)
(* release: the secrets it is given while reservations try to take it, and *)
(* the CAPI clusters its holder deploys and the operator removes.          *)
(***************************************************************************)
EXTENDS SecretCopy, CapiCleanup

vars == <<secretVars, cleanupVars, faults>>

Init ==
    /\ faults = MaxFaults
    /\ SecretInit
    /\ CapiInit

\* The pool has no claim on a namespace that is taken.
Taken == place = "taken"

Crash ==
    /\ faults > 0
    /\ faults' = faults - 1
    /\ \/ CopyCrash /\ UNCHANGED cleanupVars
       \/ CleanupCrash /\ UNCHANGED secretVars

CleanupNext ==
    \/ CleanupStep
    \/ \E c \in CapiCluster : CapiControllers(c)
    \/ DeliverClusters
    \/ TimePasses
    \/ Unfair

Next ==
    \/ CopyStep /\ UNCHANGED cleanupVars
    \/ \E r \in Reservation : CheckOut(r) /\ UNCHANGED cleanupVars
    \/ Taken /\ CleanupNext /\ UNCHANGED secretVars
    \/ Crash

(***************************************************************************)
(* Fairness.  Workers keep running, the cleanup is repeated, the cluster   *)
(* controllers and the watch make progress, and time passes.  Nobody need  *)
(* ask for the namespace, and a machine pool's controller need not do      *)
(* anything.                                                               *)
(***************************************************************************)
Fairness ==
    /\ WF_vars(CopyStep /\ UNCHANGED cleanupVars)
    /\ WF_vars(Taken /\ CleanupStep /\ UNCHANGED secretVars)
    /\ WF_vars(Taken /\ DeliverClusters /\ UNCHANGED secretVars)
    /\ WF_vars(Taken /\ TimePasses /\ UNCHANGED secretVars)
    /\ \A c \in CapiCluster :
         WF_vars(Taken /\ CapiControllers(c) /\ UNCHANGED secretVars)

Spec == Init /\ [][Next]_vars

FairSpec == Spec /\ Fairness

-----------------------------------------------------------------------------
TypeOK == SecretTypeOK /\ CapiTypeOK /\ faults \in Nat

\* A reservation that names a source namespace never gets a namespace in which
\* a secret of that source is missing or is another one, and no secret is ever
\* copied that is not to be, whatever earlier check-outs have left there.
SourceCopied ==
    \A s \in Secret :
        /\ Taken /\ holder \in Sourced /\ Eligible(s) => content[s] = holder
        /\ content[s] \in Sourced \cup {SetUp} =>
              /\ Annotations[s].qontract \in {"vault", "rhcs"}
              /\ Annotations[s].bonfireIgnore # "true"

\* A check-out that failed half way can be repeated: once calls succeed again,
\* one in which no secret has failed takes the namespace, whatever was copied
\* there before.  (Not if the reservation has a team: the team's secrets exist
\* already at the second attempt.)
RetrySucceeds ==
    \A r \in Reservation \ InTeam :
        faults = 0 /\ copyFor = r /\ ~anyFailed ~> Taken /\ holder = r

\* When the reservation goes no cluster, and no machine pool of a cluster that
\* was left to its controller, is still being deleted: nothing would remove it
\* once the namespace's secrets are gone (capi.go:18-20).
DrainedAtRelease ==
    [][ending = "deleting" /\ ending' = "released" =>
         /\ \A c \in CapiCluster : capi[c] \notin {"deleting", "waiting"}
         /\ \A p \in MachinePool : pool[p] = "deleting" => capi[ClusterOf[p]] = "gone"]_vars

\* A finalizer is removed by force only after the threshold, and from a machine
\* pool its cluster waits for or has left behind (capi.go:48-51), whatever has
\* happened since the machine pools were listed.
NotForcedEarly ==
    \A p \in MachinePool :
        pool[p] = "forced" => /\ age[p] = stuckDeletionThreshold
                              /\ capi[ClusterOf[p]] \in {"waiting", "gone"}

\* Machine pools whose controller never finishes do not keep a reservation
\* from being removed.
CleanupFinishes == ending = "deleting" ~> ending = "released"

(***************************************************************************)
(* What a test of the repository says and the code does not ensure.        *)
(***************************************************************************)
\* A reservation does not get secrets of a source namespace that it does not
\* name (namespacepool_controller_suite_test.go:391).
NoForeignSecrets ==
    Taken => \A s \in Secret : content[s] \in {"none", "team", SetUp, holder}
=============================================================================
