------------------------ MODULE SimplexFaceIterator ------------------------
(***************************************************************************)
(* The iterator of util-gitfan/simplexfaceiterator.cpp over the faces of a *)
(* simplex: the subsets of 1..n with at least k elements, by size and then *)
(* in lexicographic order, each as the increasing sequence of its          *)
(* elements.  The first face of a batch of work is found by jumping over   *)
(* the batch before, whole blocks of faces at a time.                      *)
(*                                                                         *)
(* Products are exact here.  In the code they are unsigned longs; the one  *)
(* that is formed is at most (inc + 1) * n, where inc is a batch size.     *)
(***************************************************************************)
EXTENDS Naturals, FiniteSets, Sequences

\* make_iota_vector().
Iota(k) == [i \in 1..k |-> i]

\* An iterator that starts at the given face.
Iterators == [n : Nat, k : Nat, cur : Seq(Nat)]
Iterator(n, start) == [n |-> n, k |-> Len(start), cur |-> start]

isEnd(it) == it.k > it.n

\* Where the block of consecutive numbers at the end of cur starts.
startOfOneBlock(cur) ==
  CHOOSE i \in 1..Len(cur) :
    /\ \A j \in i..Len(cur) - 1 : cur[j] + 1 = cur[j + 1]
    /\ i > 1 => cur[i - 1] + 1 # cur[i]

\* The last number that can be is increased, those after it follow it closely.
PushOne(cur) ==
  LET one == startOfOneBlock(cur) - 1
  IN  [i \in DOMAIN cur |->
         IF i < one THEN cur[i] ELSE cur[one] + 1 + (i - one)]

\* Fault: off by one in the product.
ArrangementsTooFew(z, s) ==
  LET diff[t \in Nat \ {0}] ==
        IF t = 1 THEN z + 1 ELSE (diff[t - 1] * (z + t - 1)) \div t
  IN  diff[s]

\* How many faces there are with the last s numbers anywhere on the z + s
\* places at the end: z + s over s.
Arrangements(z, s) ==
  LET diff[t \in Nat \ {0}] ==
        IF t = 1 THEN z + 1 ELSE (diff[t - 1] * (z + t)) \div t
  IN  diff[s]

\* How many numbers of the last block can be shifted to the end in inc steps.
Shiftable(z, block, inc) ==
  CHOOSE s \in 1..block :
    /\ \A t \in 2..s : inc >= Arrangements(z, t) - 1
    /\ s < block => inc < Arrangements(z, s + 1) - 1

\* Are all numbers at the right end already?
LastOfSize(n, cur) ==
  cur = <<>> \/ (cur[Len(cur)] = n /\ startOfOneBlock(cur) = 1)

\* One pass of the loop of increment() over the faces of one size, with inc
\* steps to go.
Step(n, s) ==
  LET size == Len(s.cur)
      zeroCount == n - s.cur[size]
      block == size + 1 - startOfOneBlock(s.cur)
      shifted == Shiftable(zeroCount, block, s.inc)
  IN  IF zeroCount = 0 THEN
        [s EXCEPT !.cur = PushOne(@), !.inc = @ - 1]
      ELSE IF zeroCount >= s.inc THEN
        [s EXCEPT !.cur[size] = @ + s.inc, !.inc = 0]
      ELSE
        [s EXCEPT !.cur = [i \in 1..size |-> IF i > size - shifted
                                             THEN n - (size - i) ELSE s.cur[i]],
                  !.inc = @ - (Arrangements(zeroCount, shifted) - 1)]

\* Fault: the step from the last face to the end does not count.
NextSizeUncounted(n, s) ==
  IF s.k < n
  THEN [k |-> s.k + 1, cur |-> Iota(s.k + 1), inc |-> s.inc - 1]
  ELSE [k |-> n + 1, cur |-> <<>>, inc |-> s.inc]

\* After the last face of a size, the first of the next size, or the end.
NextSize(n, s) ==
  IF s.k < n
  THEN [k |-> s.k + 1, cur |-> Iota(s.k + 1), inc |-> s.inc - 1]
  ELSE [k |-> n + 1, cur |-> <<>>, inc |-> s.inc - 1]

\* increment(): the iterator moved by inc steps, fewer at the end, and how
\* many of them it took.
increment(it, inc) ==
  LET loop[s \in [k : Nat, cur : Seq(Nat), inc : Nat]] ==
        IF s.inc = 0 \/ s.k > it.n THEN s
        ELSE loop[IF LastOfSize(it.n, s.cur) THEN NextSize(it.n, s)
                  ELSE Step(it.n, s)]
      end == loop[[k |-> it.k, cur |-> it.cur, inc |-> inc]]
  IN  [it |-> [n |-> it.n, k |-> end.k, cur |-> end.cur],
       steps |-> inc - end.inc]

-----------------------------------------------------------------------------
(* The definition the iterator is compared with: faces as sets *)

Faces(n, k) == {f \in SUBSET (1..n) : Cardinality(f) >= k}

\* Does the face g come before the face f?
Before(g, f) ==
  \/ Cardinality(g) < Cardinality(f)
  \/ /\ Cardinality(g) = Cardinality(f)
     /\ \E e \in g \ f : \A d \in f \ g : e < d

\* The face that an increasing sequence lists, and no other sequence does.
Elements(cur) == {cur[i] : i \in DOMAIN cur}
Increasing(cur) == \A i \in 1..Len(cur) - 1 : cur[i] < cur[i + 1]
=============================================================================
