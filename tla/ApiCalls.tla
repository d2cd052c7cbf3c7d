------------------------------ MODULE ApiCalls ------------------------------
(***************************************************************************)
(* Calls of controller-runtime's client, as the operator's code sees them: *)
(* a call that the API server would accept may fail all the same, before   *)
(* it takes effect or after.                                               *)
(***************************************************************************)
EXTENDS Integers, FiniteSets

CONSTANT MaxFaults   \* bound: failed API calls and operator crashes

ASSUME ApiCallsAssumption == MaxFaults \in Nat

VARIABLE faults      \* failures that may still happen

\* The outcome of a call that the server would accept iff `can' holds: it
\* succeeds, is refused, fails, or is applied while the answer is lost.
Call(can, result) ==
    \/ can /\ result = "ok" /\ UNCHANGED faults
    \/ ~can /\ result = "failed" /\ UNCHANGED faults
    \/ /\ can /\ result \in {"failed", "lost"}
       /\ faults > 0
       /\ faults' = faults - 1

Results == {"ok", "failed", "lost"}
Applied(result) == result \in {"ok", "lost"}
=============================================================================
