------------------------ MODULE MCListManipulation ------------------------
(* Lists and arguments for TLC; the lists are those of the repository's *)
(* test of the net and one whose length is a multiple of the batch size. *)
EXTENDS ListManipulation

Number == -4..8

Lists == {<<-1, 4, -3, 4, 3>>, <<>>, <<1, 0, -2, 1>>}

\* Batches of two elements, of one element as the group is larger than
\* job_size, and a step that is skipped.
Arguments ==
  {[skip |-> FALSE, symmetry_group_size |-> 1],
   [skip |-> FALSE, symmetry_group_size |-> 3],
   [skip |-> TRUE, symmetry_group_size |-> 1]}
=============================================================================
