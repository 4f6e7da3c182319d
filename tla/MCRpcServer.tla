---------------------------- MODULE MCRpcServer ----------------------------
(* A small fan and two workers for TLC. *)
EXTENDS RpcServer, TLC

CONSTANTS
  c1, c2, c3,
  MaxRaced        \* bound: the cones found in a state in which threads raced

\* A triangle: every cone is found from the two others.
Triangle == c1 :> {c2, c3} @@ c2 :> {c1, c3} @@ c3 :> {c1, c2}

\* The fan is the same with the two cones exchanged that are not initial.
Symmetry ==
  {p @@ q : p \in Permutations(Worker), q \in Permutations({c2, c3})}

\* What comes after a race is followed only while few cones are found.
RacedBound == raced => Cardinality(Found) <= MaxRaced
=============================================================================
