-------------------------- MODULE MCGitFanWorkflow --------------------------
(***************************************************************************)
(* The geometry of MCOrbitCones with two a-faces, and a fan of two cones.  *)
(* The options of the command line come in the combinations that lead      *)
(* through every branch.                                                   *)
(***************************************************************************)
EXTENDS GitFanWorkflow, MCOrbitCones

\* Options, as main() finds them, where a moving cone is given or asked for.
Options(symmetry_group, moving_cone, exists, representatives, cones, action) ==
  [symmetry_group |-> symmetry_group, moving_cone |-> moving_cone,
   moving_cone_exists |-> exists,
   simplex_orbit_representatives |-> representatives,
   precomputed_orbit_cones |-> cones,
   precomputed_symmetry_group_on_hashes |-> action]

\* Two a-faces with one orbit of three cones each; their cuts with the moving
\* cone are in one orbit.
Symmetric == [group |-> Rotations, afaces |-> <<{1, 4, 5}, {1, 2, 5}>>]
OneFace == [group |-> Rotations, afaces |-> <<{1, 4, 5}>>]
Asymmetric == [group |-> <<Identity>>, afaces |-> <<{1, 2, 3}, {1, 4, 5}>>]
NoFaces == [group |-> <<Identity>>, afaces |-> <<>>]

TwoCones == <<Rays({1, 4, 5}), Rays({2, 5, 6})>>

WorkflowProblems ==
  {Options(TRUE, FALSE, FALSE, FALSE, Missing, Missing) @@ OneFace,
   Options(TRUE, TRUE, FALSE, TRUE, Missing, Missing) @@ Symmetric,
   Options(FALSE, TRUE, TRUE, FALSE, Missing, Missing) @@ Asymmetric,
   Options(FALSE, FALSE, FALSE, FALSE, Missing, Missing) @@ NoFaces,
   Options(TRUE, TRUE, FALSE, FALSE, TwoCones, <<<<1, 2>>, <<2, 1>>>>)
     @@ Symmetric,
   Options(FALSE, FALSE, FALSE, FALSE, TwoCones, Missing) @@ NoFaces,
   Options(FALSE, TRUE, TRUE, FALSE, <<>>, Missing) @@ NoFaces}

Pair == (1 :> {2}) @@ (2 :> {1})
=============================================================================
