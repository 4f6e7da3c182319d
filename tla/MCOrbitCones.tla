---------------------------- MODULE MCOrbitCones ----------------------------
(***************************************************************************)
(* A torus action of dimension three with six columns: the unit vectors 1, *)
(* 2 and 3 and their sums 4 = 1 + 2, 5 = 2 + 3 and 6 = 1 + 3.  Seen from   *)
(* the origin it is a triangle and the midpoints of its sides; symmetries  *)
(* permute the coordinates.  A cone is the set of its rays.                *)
(***************************************************************************)
EXTENDS OrbitCones

Q == <<<<1, 0, 0>>, <<0, 1, 0>>, <<0, 0, 1>>,
       <<1, 1, 0>>, <<0, 1, 1>>, <<1, 0, 1>>>>
Ends == (4 :> {1, 2}) @@ (5 :> {2, 3}) @@ (6 :> {1, 3})

Column == DOMAIN Q
Columns == SUBSET Column

\* The rays of the cone over some columns: a midpoint between two of them is
\* not one.
Rays(f) == {Q[i] : i \in {j \in f : j <= 3 \/ ~ Ends[j] \subseteq f}}

\* What the moving cone, see below, cuts out of two of them.
Half == {Q[4], Q[5], <<2, 1, 1>>}

\* A symmetry maps the column i to the column sigma[i].
Preimage(c, sigma) == {[j \in 1..3 |-> v[sigma[j]]] : v \in c}

\* The moving cone is the cone over the midpoints.  It has a corner in common
\* with some cones only, and cuts half of itself out of others.
Cut(c) ==
  CASE c = Rays({1, 2, 3}) -> Rays({4, 5, 6})
    [] c = Rays({1, 4, 6}) -> NoCone
    [] c \in {Rays({1, 4, 5}), Rays({1, 2, 5})} ->
         Half
    [] c = Rays({2, 5, 6}) -> {Q[5], Q[6], <<1, 2, 1>>}
    [] OTHER -> NoCone

\* Some order of the cones.
Number(v) == 9 * v[1] + 3 * v[2] + v[3]
Precedes(c, d) == \E v \in c \ d : \A w \in d \ c : Number(v) < Number(w)

\* The symmetry that permutes the vertices like s.
Symmetry(s) ==
  s \o [i \in 1..3 |-> CHOOSE m \in 4..6 : Ends[m] = {s[j] : j \in Ends[i + 3]}]

Identity == Symmetry(<<1, 2, 3>>)
Rotations == <<Symmetry(<<2, 3, 1>>), Symmetry(<<3, 1, 2>>), Identity>>
Triangle == Rotations \o <<Symmetry(<<2, 1, 3>>), Symmetry(<<1, 3, 2>>),
                           Symmetry(<<3, 2, 1>>)>>

\* The cones of all a-faces and their cuts, and where symmetries map them.
Cones == {Preimage(c, sigma) : c \in {Rays(f) : f \in Columns} \cup {Half},
                               sigma \in Range(Triangle)}

\* With all symmetries, where two a-faces have the same cone, and where their
\* cones have the same cut; with the rotations only, where two a-faces are of
\* one orbit; without symmetries, and without a-faces.
Problems ==
  {[group |-> Triangle, moving_cone |-> FALSE,
    afaces |-> <<{1, 2, 3}, {1, 2, 3, 4}, {1, 4, 5}, {1, 4, 6}>>],
   [group |-> Triangle, moving_cone |-> TRUE,
    afaces |-> <<{1, 2, 3}, {1, 4, 5}, {1, 2, 5}, {1, 4, 6}>>],
   [group |-> Rotations, moving_cone |-> FALSE,
    afaces |-> <<{1, 4, 5}, {2, 5, 6}, {1, 2, 5}>>],
   [group |-> Rotations, moving_cone |-> TRUE,
    afaces |-> <<{1, 4, 5}, {2, 5, 6}, {1, 2, 5}>>],
   [group |-> <<Identity>>, moving_cone |-> TRUE,
    afaces |-> <<{1, 2, 3}, {1, 2, 5}, {1, 4, 5}>>],
   [group |-> Triangle, moving_cone |-> FALSE, afaces |-> <<>>]}
=============================================================================
