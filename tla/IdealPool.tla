----------------------------- MODULE IdealPool -----------------------------
(***************************************************************************)
(* The pool as helpers/pool.go imagines it: a reconcile knows the exact    *)
(* numbers of ready, creating and reserved namespaces, and is over before  *)
(* anything else happens.  PoolController is the pool as it is.            *)
(***************************************************************************)
EXTENDS PoolSizing

CONSTANTS
    Limit,       \* Spec.SizeLimit
    Sizes,       \* the values users give to Spec.Size
    MaxReserved  \* bound: reservations at a time

ASSUME IdealPoolAssumption ==
    /\ Limit \in Nat \cup {NoLimit}
    /\ Sizes \subseteq Nat
    /\ MaxReserved \in Nat

VARIABLES size, ready, creating, reserved

idealVars == <<size, ready, creating, reserved>>

Delta == CalculateNamespaceQuantityDelta(Limit, size, ready, creating, reserved)

Init ==
    /\ size \in Sizes
    /\ ready = 0 /\ creating = 0 /\ reserved = 0

\* A reconcile that creates what is missing, and one that finds too much: it
\* gives up one ready namespace, however many are in excess.
Increase ==
    /\ Delta > 0
    /\ creating' = creating + Delta
    /\ UNCHANGED <<size, ready, reserved>>

\* With a bug: a namespace is given up although none is ready.
DecreaseAnyway ==
    /\ Delta < 0
    /\ ready' = ready - 1
    /\ UNCHANGED <<size, creating, reserved>>

Decrease ==
    /\ Delta < 0 /\ ready > 0
    /\ ready' = ready - 1
    /\ UNCHANGED <<size, creating, reserved>>

\* A new namespace becomes ready, or ends in error and is deleted.
Finish ==
    /\ creating > 0
    /\ creating' = creating - 1
    /\ ready' \in {ready, ready + 1}
    /\ UNCHANGED <<size, reserved>>

\* Reservations begin and end, users resize the pool.
CheckOut ==
    /\ ready > 0 /\ reserved < MaxReserved
    /\ ready' = ready - 1
    /\ reserved' = reserved + 1
    /\ UNCHANGED <<size, creating>>

Return ==
    /\ reserved > 0
    /\ reserved' = reserved - 1
    /\ UNCHANGED <<size, ready, creating>>

Resize(s) ==
    /\ size' = s
    /\ UNCHANGED <<ready, creating, reserved>>

Next ==
    \/ Increase
    \/ Decrease
    \/ Finish
    \/ CheckOut
    \/ Return
    \/ \E s \in Sizes : Resize(s)

Spec == Init /\ [][Next]_idealVars

IdealTypeOK ==
    /\ size \in Nat
    /\ ready \in Nat
    /\ creating \in Nat
    /\ reserved \in Nat

\* The cap of Spec.SizeLimit: CalculateNamespaceQuantityDelta takes the
\* smaller of what the size and what the limit asks for.
WithinLimit == Limit # NoLimit => ready + creating + reserved =< Limit

\* A reconcile that creates namespaces creates exactly the missing ones: the
\* next one finds nothing to do.
IncreaseSettles == [][Delta > 0 /\ creating' > creating => Delta' = 0]_idealVars
=============================================================================
