-------------------------- MODULE MCTraverseGitfan --------------------------
(* Small fans for TLC. *)
EXTENDS TraverseGitfan, TLC

CONSTANTS c1, c2, c3, c4, c5

\* A fan in which several jobs find the same cones at once: c2 and c3 share
\* their neighbours c1, c4 and each other.  c5 is never found.
Fan ==
  c1 :> {c2, c3} @@ c2 :> {c1, c3, c4} @@ c3 :> {c1, c2, c4} @@
  c4 :> {c2, c3} @@ c5 :> {c4}

\* The default of --max-cones.
Unlimited == -1

TokenSymmetry == Permutations(Token)
=============================================================================
