------------------------ MODULE MCReservationSystem ------------------------
(***************************************************************************)
(* ReservationSystem with small constants, for TLC.                        *)
(***************************************************************************)
EXTENDS ReservationSystem, TLC

\* Values of Spec.Duration that are not lengths have no notation in a cfg.
WithBadValues == {1, Unparsable, Unset}

\* Names are interchangeable (safety runs only).
Symmetry == Permutations(Namespace) \cup Permutations(Reservation)
=============================================================================
