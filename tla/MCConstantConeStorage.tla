----------------------- MODULE MCConstantConeStorage -----------------------
(* A small directory tree for TLC. *)
EXTENDS ConstantConeStorage

\* Two cones share both directories above them.
Siblings == {asPath(<<"a", "b", "1">>, 1), asPath(<<"a", "b", "2">>, 1)}
=============================================================================
