-------------------------- MODULE MCFullDimAfaces --------------------------
(***************************************************************************)
(* The faces of a simplex with five vertices, or files of a few of them.   *)
(***************************************************************************)
EXTENDS FullDimAfaces

Lines == <<<<1, 2, 3>>, <<2, 3, 5>>, <<1, 2, 3, 4>>, <<1, 2, 3, 4, 5>>>>

\* Files of three and four lines, and the empty file.
RepresentativeFiles ==
  [lines : {SubSeq(Lines, 1, n) : n \in {3, 4}}, newline : BOOLEAN]
    \cup {[lines |-> <<>>, newline |-> FALSE]}

\* Some faces of every size.
SomeFaces == {f \in Faces(R, K) : 5 \in f}
=============================================================================
