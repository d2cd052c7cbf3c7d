------------------------------ MODULE Checkout ------------------------------
(***************************************************************************)
(* What checking namespaces out amounts to (README.md:9-11): a reservation *)
(* is lent at most one namespace of the pool, and a namespace is lent at   *)
(* most once, since it is deleted with its reservation                     *)
(* (namespacereservation_controller.go:344-345).  There is no cache, no    *)
(* queue and no failure here.  ReservationSystem implements it.            *)
(***************************************************************************)
CONSTANTS Namespace, Reservation, NoNamespace

VARIABLES
    stage,  \* stage[r]: how far the reservation of that name has come
    lease,  \* lease[r]: the namespace it was lent
    fresh   \* the namespaces nobody was lent

checkoutVars == <<stage, lease, fresh>>

Stage == {"absent", "requested", "lent", "returning"}

CheckoutTypeOK ==
    /\ stage \in [Reservation -> Stage]
    /\ lease \in [Reservation -> Namespace \cup {NoNamespace}]
    /\ fresh \in SUBSET Namespace

Init ==
    /\ stage = [r \in Reservation |-> "absent"]
    /\ lease = [r \in Reservation |-> NoNamespace]
    /\ fresh = Namespace

Move(r, from, to) == stage[r] \in from /\ stage' = [stage EXCEPT ![r] = to]

Request(r) == Move(r, {"absent"}, "requested") /\ UNCHANGED <<lease, fresh>>

Lend(r, n) ==
    /\ Move(r, {"requested"}, "lent")
    /\ n \in fresh
    /\ fresh' = fresh \ {n}
    /\ lease' = [lease EXCEPT ![r] = n]

\* A namespace whose check-out failed half way is not lent to anybody else.
Waste(n) ==
    /\ n \in fresh
    /\ fresh' = fresh \ {n}
    /\ UNCHANGED <<stage, lease>>

Return(r) == Move(r, {"lent"}, "returning") /\ UNCHANGED <<lease, fresh>>

End(r) ==
    /\ Move(r, {"requested", "lent", "returning"}, "absent")
    /\ lease' = [lease EXCEPT ![r] = NoNamespace]
    /\ UNCHANGED fresh

Next ==
    \/ \E r \in Reservation : Request(r) \/ Return(r) \/ End(r)
    \/ \E r \in Reservation, n \in Namespace : Lend(r, n)
    \/ \E n \in Namespace : Waste(n)

Spec == Init /\ [][Next]_checkoutVars
=============================================================================
