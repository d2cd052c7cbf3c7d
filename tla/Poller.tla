------------------------------- MODULE Poller -------------------------------
(***************************************************************************)
(* poller.go: the goroutine that deletes expired reservations.  It works   *)
(* on the map activeReservations from the name of a reservation to its     *)
(* expiration, which the reservation controller also writes.               *)
(***************************************************************************)
EXTENDS Cluster

CONSTANT
    PopulateMayFail   \* may the List at start-up fail?

ASSUME PollerAssumption == PopulateMayFail \in BOOLEAN

VARIABLES
    activeReservations, \* Untracked, or the recorded expiration
    pollerPc,           \* "populate", "scan", "delete", or "dead"
    pollerKey           \* the reservation whose entry was just removed

pollerVars == <<activeReservations, pollerPc, pollerKey>>

Untracked == -1

PollerTypeOK ==
    /\ activeReservations \in [Reservation -> Nat \cup {Untracked}]
    /\ pollerPc \in {"populate", "scan", "delete", "dead"}
    /\ pollerKey \in Reservation \cup {NoKey}
    /\ pollerPc = "delete" => pollerKey # NoKey

PollerInit ==
    /\ activeReservations = [r \in Reservation |-> Untracked]
    /\ pollerPc = "populate"
    /\ pollerKey = NoKey

Track(r, expiration) ==
    activeReservations' = [activeReservations EXCEPT ![r] = expiration]

namespaceIsExpired(expiration) ==
    expiration # ZeroTime /\ expiration =< now

\* Every active reservation of the cache is recorded; if the List fails the
\* goroutine returns.
populateActiveReservations ==
    /\ pollerPc = "populate"
    /\ \/ /\ activeReservations' =
               [r \in Reservation |->
                  IF resCache[r].live /\ resCache[r].state = "active"
                  THEN resCache[r].expiration
                  ELSE activeReservations[r]]
          /\ pollerPc' = "scan"
       \/ /\ PopulateMayFail
          /\ pollerPc' = "dead"
          /\ UNCHANGED activeReservations
    /\ UNCHANGED <<pollerKey, clusterVars>>

\* The loop meets an expired entry and removes it from the map.
PollExpired(r) ==
    /\ pollerPc = "scan"
    /\ activeReservations[r] # Untracked
    /\ namespaceIsExpired(activeReservations[r])
    /\ Track(r, Untracked)
    /\ pollerPc' = "delete"
    /\ pollerKey' = r
    /\ UNCHANGED clusterVars

\* Then it deletes what has that name.  Get fails if the cache has no such
\* reservation, and the Delete of the empty object that follows fails too.
\* No failure is retried.
PollDelete ==
    /\ pollerPc = "delete"
    /\ pollerPc' = "scan"
    /\ pollerKey' = NoKey
    /\ \E result \in Results :
         /\ Call(resCache[pollerKey].live /\ res[pollerKey].live, result)
         /\ IF Applied(result)
            THEN WriteRes(pollerKey, AfterDelete(res[pollerKey]))
            ELSE UNCHANGED <<res, resWatch>>
    /\ UNCHANGED <<activeReservations, nsVars, roleBinding, resCache,
                   nextUid, capiVars, now>>
=============================================================================
