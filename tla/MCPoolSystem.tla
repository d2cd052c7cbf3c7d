---------------------------- MODULE MCPoolSystem ----------------------------
(***************************************************************************)
(* PoolSystem with small constants, for TLC.                               *)
(***************************************************************************)
EXTENDS PoolSystem, TLC

\* Names are interchangeable (safety runs only).
Symmetry == Permutations(Namespace)
=============================================================================
