-------------------------- MODULE MCNamespaceLife --------------------------
(***************************************************************************)
(* NamespaceLife with small constants, for TLC.                            *)
(***************************************************************************)
EXTENDS NamespaceLife

CONSTANTS vaulted, certificate, ignored, foreign, teamSecret, c1, c2, p1, p2

\* A secret of each kind, two of them to be copied.
Kinds ==
    [s \in {vaulted, certificate, ignored, foreign, teamSecret} |->
       [qontract      |-> CASE s = certificate -> "rhcs"
                            [] s = foreign -> "other"
                            [] s = teamSecret -> "missing"
                            [] OTHER -> "vault",
        bonfireIgnore |-> IF s = ignored THEN "true"
                          ELSE IF s = vaulted THEN "missing" ELSE "false"]]

\* Two clusters, one of them with two machine pools.
Labels == [p \in {p1, p2} |-> c1]
=============================================================================
