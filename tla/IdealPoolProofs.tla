-------------------------- MODULE IdealPoolProofs --------------------------
(***************************************************************************)
(* For every size and limit, the arithmetic of helpers/pool.go keeps a     *)
(* pool within its limit, and fills it in one go.                          *)
(***************************************************************************)
EXTENDS IdealPool, TLAPS

USE IdealPoolAssumption, PoolSizingAssumption

\* CalculateNamespaceQuantityDelta is the smaller of what is missing from the
\* queue and what the limit leaves.
LEMMA DeltaBounds ==
    ASSUME IdealTypeOK
    PROVE  /\ Delta \in Int
           /\ Delta =< size - (ready + creating)
           /\ Limit # NoLimit => Delta =< Limit - (ready + creating + reserved)
           /\ \/ Delta = size - (ready + creating)
              \/ Limit # NoLimit /\ Delta = Limit - (ready + creating + reserved)
  BY DEF IdealTypeOK, Delta, CalculateNamespaceQuantityDelta

\* The numbers of ready, creating and reserved namespaces never get negative:
\* a pool that is over its limit gives up ready namespaces only.
THEOREM IdealTyping == Spec => []IdealTypeOK
<1>1. Init => IdealTypeOK
  BY DEF Init, IdealTypeOK
<1>2. IdealTypeOK /\ [Next]_idealVars => IdealTypeOK'
  <2> SUFFICES ASSUME IdealTypeOK, [Next]_idealVars
               PROVE  IdealTypeOK'
    OBVIOUS
  <2>1. CASE Increase
    BY <2>1, DeltaBounds DEF Increase, IdealTypeOK
  <2>2. CASE Decrease
    BY <2>2 DEF Decrease, IdealTypeOK
  <2>3. CASE Finish
    BY <2>3 DEF Finish, IdealTypeOK
  <2>4. CASE CheckOut
    BY <2>4 DEF CheckOut, IdealTypeOK
  <2>5. CASE Return
    BY <2>5 DEF Return, IdealTypeOK
  <2>6. ASSUME NEW s \in Sizes, Resize(s)
        PROVE  IdealTypeOK'
    BY <2>6 DEF Resize, IdealTypeOK
  <2>7. CASE UNCHANGED idealVars
    BY <2>7 DEF idealVars, IdealTypeOK
  <2> QED
    BY <2>1, <2>2, <2>3, <2>4, <2>5, <2>6, <2>7 DEF Next
<1> QED
  BY <1>1, <1>2, PTL DEF Spec

\* The cap of Spec.SizeLimit holds whatever users reserve, return and resize.
THEOREM IdealPoolWithinLimit == Spec => []WithinLimit
<1>1. Init => WithinLimit
  BY DEF Init, WithinLimit
<1>2. IdealTypeOK /\ WithinLimit /\ [Next]_idealVars => WithinLimit'
  <2> SUFFICES ASSUME IdealTypeOK, WithinLimit, [Next]_idealVars, Limit # NoLimit
               PROVE  ready' + creating' + reserved' =< Limit
    BY DEF WithinLimit
  <2>0. ready + creating + reserved =< Limit /\ Limit \in Nat
    BY DEF WithinLimit
  <2>1. CASE Increase
    <3>1. Delta \in Int /\ Delta =< Limit - (ready + creating + reserved)
      BY DeltaBounds
    <3> QED
      BY <2>0, <2>1, <3>1 DEF Increase, IdealTypeOK
  <2>2. CASE Decrease
    BY <2>0, <2>2 DEF Decrease, IdealTypeOK
  <2>3. CASE Finish
    <3>1. ready' = ready \/ ready' = ready + 1
      BY <2>3 DEF Finish
    <3>2. creating' = creating - 1 /\ reserved' = reserved
      BY <2>3 DEF Finish
    <3> QED
      BY <2>0, <3>1, <3>2 DEF IdealTypeOK
  <2>4. CASE CheckOut
    BY <2>0, <2>4 DEF CheckOut, IdealTypeOK
  <2>5. CASE Return
    BY <2>0, <2>5 DEF Return, IdealTypeOK
  <2>6. ASSUME NEW s \in Sizes, Resize(s)
        PROVE  ready' + creating' + reserved' =< Limit
    BY <2>0, <2>6 DEF Resize, IdealTypeOK
  <2>7. CASE UNCHANGED idealVars
    BY <2>0, <2>7 DEF idealVars
  <2> QED
    BY <2>1, <2>2, <2>3, <2>4, <2>5, <2>6, <2>7 DEF Next
<1> QED
  BY <1>1, <1>2, IdealTyping, PTL DEF Spec

\* A reconcile that creates namespaces leaves nothing to create or to give
\* up to the next one.
THEOREM IdealPoolIncreaseSettles == Spec => IncreaseSettles
<1>1. IdealTypeOK /\ IdealTypeOK' /\ [Next]_idealVars
        => [Delta > 0 /\ creating' > creating => Delta' = 0]_idealVars
  <2> SUFFICES ASSUME IdealTypeOK, IdealTypeOK', Next,
                      Delta > 0, creating' > creating
               PROVE  Delta' = 0
    OBVIOUS
  <2>1. Increase
    BY DEF Next, Increase, Decrease, Finish, CheckOut, Return, Resize, IdealTypeOK
  <2> QED
    BY <2>1 DEF Increase, IdealTypeOK, Delta, CalculateNamespaceQuantityDelta
<1> QED
  BY <1>1, IdealTyping, PTL DEF Spec, IncreaseSettles
=============================================================================
