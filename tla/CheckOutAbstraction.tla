------------------------ MODULE CheckOutAbstraction ------------------------
(***************************************************************************)
(* What the reservation controller does to namespaces, as seen by the pool *)
(* controller and the ClowdEnvironment controller: its worker picks one    *)
(* that is ready in the cache, verifies it, and later takes it as whatever *)
(* it has become.  Which reservation it is for, and what goes on with it   *)
(* then, is left out.  ReservationController is the detailed model.        *)
(***************************************************************************)
EXTENDS Namespaces

CONSTANT
    PromptCheckOuts \* is a namespace only taken while the cache shows it ready?

ASSUME CheckOutAbstractionAssumption == PromptCheckOuts \in BOOLEAN

VARIABLE taking \* the namespace that was picked

CheckOutTypeOK == taking \in Namespace \cup {NoNamespace}

CheckOutInit == taking = NoNamespace

Pick(n) ==
    /\ taking = NoNamespace
    /\ IsReady(nsCache[n])
    /\ taking' = n
    /\ UNCHANGED clusterVars

\* verifyClowdEnvForReadyNs.
Condemn ==
    /\ ClowderPool
    /\ taking # NoNamespace
    /\ \E result \in Results : UpdateAnnotations(taking, "error", result)
    /\ taking' = NoNamespace
    /\ UNCHANGED <<nsCache, roleBinding, resVars, capiVars, now>>

\* reserveNamespace, for the reservation with this UID.
TakenBy(o, uid) == [o EXCEPT !.owner = uid, !.reserved = TRUE]

Take(uid) ==
    /\ IsReservationUid(uid)
    /\ taking # NoNamespace
    /\ PromptCheckOuts => IsReady(nsCache[taking])
    /\ \E result \in Results :
         /\ Call(NsCurrent(taking, nsCache[taking]), result)
         /\ IF Applied(result)
            THEN WriteNs(taking, TakenBy(nsCache[taking], uid))
            ELSE UNCHANGED <<ns, nsWatch>>
    /\ taking' = NoNamespace
    /\ UNCHANGED <<nsCache, roleBinding, resVars, capiVars, now>>

\* A secret cannot be copied, or the operator dies.
LetGo ==
    /\ taking # NoNamespace
    /\ taking' = NoNamespace
    /\ UNCHANGED clusterVars
=============================================================================
