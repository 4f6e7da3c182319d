------------------------ MODULE GitFanWorkflowProofs ------------------------
(***************************************************************************)
(* Proofs about OrbitCones and GitFanWorkflow.                             *)
(*                                                                         *)
(* OrbitInv says what the list of OrbitCones names at each place of the    *)
(* control token; the steps of the net preserve it, by themselves and      *)
(* within the workflow.  WorkflowInv adds the sessions of the workers:     *)
(* each one agrees with the function Symbols, whose values no step changes *)
(* for a symbol that may have been loaded.  ResultInv adds the fan and the *)
(* files of the result.  ConesInv says which cones the list stands for at  *)
(* each place of the control token, so that in the end it has those of the *)
(* orbits once each, with the symmetries as permutations of their numbers. *)
(***************************************************************************)
EXTENDS GitFanWorkflow, DataLemmas

-----------------------------------------------------------------------------
(* Sequences *)

\* Every element of b \o c comes from one of b and c.
LEMMA ConcatElements ==
  ASSUME NEW S, NEW b \in Seq(S), NEW c \in Seq(S)
  PROVE  /\ b \o c \in Seq(S)
         /\ \A i \in DOMAIN (b \o c) :
              \/ i \in DOMAIN b /\ (b \o c)[i] = b[i]
              \/ i - Len(b) \in DOMAIN c /\ (b \o c)[i] = c[i - Len(b)]
  OBVIOUS

\* Its length is the sum of theirs.
LEMMA ConcatLength ==
  ASSUME NEW S, NEW b \in Seq(S), NEW c \in Seq(S)
  PROVE  b \o c \in Seq(S) /\ Len(b \o c) = Len(b) + Len(c)
  OBVIOUS

\* Sequences with different elements make one with different elements.
LEMMA ConcatInjective ==
  ASSUME NEW S, NEW b \in Seq(S), NEW c \in Seq(S),
         IsInjective(b), IsInjective(c),
         \A i \in DOMAIN b, j \in DOMAIN c : b[i] # c[j]
  PROVE  IsInjective(b \o c)
  <1> SUFFICES ASSUME NEW i \in DOMAIN (b \o c), NEW j \in DOMAIN (b \o c),
                      (b \o c)[i] = (b \o c)[j]
               PROVE  i = j
    BY DEF IsInjective
  <1>1. i \in Nat /\ j \in Nat /\ Len(b) \in Nat
    OBVIOUS
  <1> QED
    BY ConcatElements, <1>1 DEF IsInjective

\* FlattenSeq() appends one sequence after the other.
LEMMA FlattenRecursion ==
  ASSUME NEW S, NEW ss \in Seq(Seq(S)), Len(ss) # 0
  PROVE  \E f : /\ FlattenSeq(ss) = f[Len(ss)]
                /\ f[1] = ss[1]
                /\ \A i \in 2..Len(ss) : f[i] = f[i - 1] \o ss[i]
  <1> DEFINE N == Len(ss)
             Flat(f) == f = [i \in 1..N |-> IF i = 1 THEN ss[i]
                                            ELSE f[i - 1] \o ss[i]]
             step == [i \in 1..N |-> [t \in Seq(S) |-> t \o ss[i]]]
  <1>1. FlattenSeq(ss) = (CHOOSE f : Flat(f))[N]
    BY DEF FlattenSeq
  <1>2. N \in Nat /\ \A i \in 1..N : ss[i] \in Seq(S)
    OBVIOUS
  <1>3. step \in [1..N -> [Seq(S) -> Seq(S)]]
    BY <1>2
  <1>4. PICK g : DefinedByRecursion(g, N, Seq(S), <<>>, step)
    <2> HIDE DEF step
    <2>1. <<>> \in Seq(S)
      OBVIOUS
    <2> QED
      BY <1>2, <1>3, <2>1, IntervalRecursion
  <1>5. ASSUME NEW i \in 1..N
        PROVE  g[i - 1] \in Seq(S) /\ g[i] = g[i - 1] \o ss[i]
    <2>1. i - 1 \in 0..N
      BY <1>2
    <2>2. g[i - 1] \in Seq(S) /\ g[i] = step[i][g[i - 1]]
      <3> HIDE DEF step
      <3> QED
        BY <1>4, <2>1 DEF DefinedByRecursion
    <2>3. \A t \in Seq(S) : step[i][t] = t \o ss[i]
      OBVIOUS
    <2> HIDE DEF step
    <2> QED
      BY <2>2, <2>3
  <1> HIDE DEF step
  <1>6. g[1] = ss[1]
    <2>1. 1 \in 1..N /\ 1 - 1 = 0
      BY <1>2
    <2>2. g[0] = <<>>
      BY <1>4 DEF DefinedByRecursion
    <2>3. g[1] = <<>> \o ss[1] /\ ss[1] \in Seq(S)
      BY <1>2, <1>5, <2>1, <2>2
    <2> QED
      BY <2>3
  <1> DEFINE h == [i \in 1..N |-> g[i]]
  <1>7. Flat(h)
    <2>1. ASSUME NEW i \in 1..N
          PROVE  h[i] = IF i = 1 THEN ss[i] ELSE h[i - 1] \o ss[i]
      <3>1. i # 1 => i - 1 \in 1..N
        BY <1>2
      <3>2. i # 1 => h[i] = h[i - 1] \o ss[i]
        BY <1>5, <3>1
      <3> QED
        BY <1>6, <3>2
    <2> QED
      BY <2>1
  <1>8. Flat(CHOOSE f : Flat(f))
    <2> HIDE DEF Flat
    <2> QED
      BY <1>7
  <1> DEFINE f == CHOOSE f : Flat(f)
  <1>9. f = [i \in 1..N |-> IF i = 1 THEN ss[i] ELSE f[i - 1] \o ss[i]]
    BY <1>8
  <1> HIDE DEF f
  <1>10. \A i \in 1..N : f[i] = IF i = 1 THEN ss[i] ELSE f[i - 1] \o ss[i]
    BY <1>9, Zenon
  <1>11. 1 \in 1..N /\ \A i \in 2..N : i \in 1..N /\ i # 1
    BY <1>2
  <1>12. f[1] = ss[1] /\ \A i \in 2..N : f[i] = f[i - 1] \o ss[i]
    BY <1>10, <1>11, Zenon
  <1> QED
    BY <1>1, <1>12 DEF f

\* Its elements are elements of the sequences, and are different if these
\* have no element twice and none in common.
LEMMA Flatten ==
  ASSUME NEW S, NEW ss \in Seq(Seq(S))
  PROVE  /\ FlattenSeq(ss) \in Seq(S)
         /\ \A i \in DOMAIN FlattenSeq(ss) :
              \E n \in DOMAIN ss : \E j \in DOMAIN ss[n] :
                FlattenSeq(ss)[i] = ss[n][j]
         /\ (/\ \A n \in DOMAIN ss : IsInjective(ss[n])
             /\ \A m, n \in DOMAIN ss : m # n =>
                  \A i \in DOMAIN ss[m], j \in DOMAIN ss[n] :
                    ss[m][i] # ss[n][j])
            => IsInjective(FlattenSeq(ss))
  <1> DEFINE Distinct == /\ \A n \in DOMAIN ss : IsInjective(ss[n])
                         /\ \A m, n \in DOMAIN ss : m # n =>
                              \A i \in DOMAIN ss[m], j \in DOMAIN ss[n] :
                                ss[m][i] # ss[n][j]
             Good(t, k) == /\ t \in Seq(S)
                           /\ \A i \in DOMAIN t :
                                \E n \in 1..k : \E j \in DOMAIN ss[n] :
                                  t[i] = ss[n][j]
                           /\ Distinct => IsInjective(t)
  <1>1. DOMAIN ss = 1..Len(ss) /\ Len(ss) \in Nat
    OBVIOUS
  <1>2. \A n \in DOMAIN ss : ss[n] \in Seq(S)
    OBVIOUS
  <1>3. CASE Len(ss) = 0
    <2>1. FlattenSeq(ss) = <<>>
      BY <1>3 DEF FlattenSeq
    <2>2. IsInjective(<<>>)
      BY DEF IsInjective
    <2> QED
      BY <2>1, <2>2
  <1>4. CASE Len(ss) # 0
    <2>1. PICK f : /\ FlattenSeq(ss) = f[Len(ss)]
                   /\ f[1] = ss[1]
                   /\ \A i \in 2..Len(ss) : f[i] = f[i - 1] \o ss[i]
      BY <1>4, FlattenRecursion, Zenon
    <2> DEFINE P == {k \in Nat : k = 0 \/ Good(f[k], k)}
    <2>2. 0 \in P
      OBVIOUS
    <2>3. 1 \in P
      <3>1. 1 \in DOMAIN ss /\ ss[1] \in Seq(S)
        BY <1>1, <1>2, <1>4
      <3>2. \A i \in DOMAIN ss[1] :
              \E n \in 1..1 : \E j \in DOMAIN ss[n] : ss[1][i] = ss[n][j]
        OBVIOUS
      <3>3. Distinct => IsInjective(ss[1])
        BY <3>1
      <3> QED
        BY <2>1, <3>1, <3>2, <3>3
    <2>4. ASSUME NEW k \in 0 .. Len(ss) - 1, k \in P, k # 0
          PROVE  k + 1 \in P
      <3> DEFINE t == f[k]
                 u == ss[k + 1]
      <3>1. k + 1 \in DOMAIN ss /\ k + 1 \in 2..Len(ss) /\ k \in Nat
        BY <1>1, <2>4
      <3>2. f[k + 1] = t \o u
        <4>1. (k + 1) - 1 = k
          BY <3>1
        <4> QED
          BY <2>1, <3>1, <4>1
      <3>3. Good(t, k) /\ u \in Seq(S)
        BY <1>2, <2>4, <3>1
      <3>4. ASSUME NEW i \in DOMAIN (t \o u)
            PROVE  \E n \in 1 .. k + 1 : \E j \in DOMAIN ss[n] :
                     (t \o u)[i] = ss[n][j]
        <4> HIDE DEF t, u
        <4>1. CASE i \in DOMAIN t /\ (t \o u)[i] = t[i]
          <5>1. PICK n \in 1..k : \E j \in DOMAIN ss[n] : t[i] = ss[n][j]
            BY <3>3, <4>1
          <5>2. n \in 1 .. k + 1
            BY <3>1
          <5> QED
            BY <4>1, <5>1, <5>2
        <4>2. CASE i - Len(t) \in DOMAIN u /\ (t \o u)[i] = u[i - Len(t)]
          <5>1. k + 1 \in 1 .. k + 1
            BY <3>1
          <5> QED
            BY <4>2, <5>1 DEF u
        <4> QED
          BY <3>3, <4>1, <4>2, ConcatElements
      <3>5. Distinct => IsInjective(t \o u)
        <4> SUFFICES ASSUME Distinct PROVE IsInjective(t \o u)
          OBVIOUS
        <4>1. IsInjective(t) /\ IsInjective(u)
          BY <3>1, <3>3
        <4>2. ASSUME NEW i \in DOMAIN t, NEW j \in DOMAIN u
              PROVE  t[i] # u[j]
          <5>1. PICK n \in 1..k : \E l \in DOMAIN ss[n] : t[i] = ss[n][l]
            BY <3>3
          <5>2. n \in DOMAIN ss /\ n # k + 1
            BY <1>1, <3>1
          <5> QED
            BY <3>1, <5>1, <5>2
        <4> HIDE DEF t, u
        <4> QED
          BY <3>3, <4>1, <4>2, ConcatInjective
      <3>6. t \o u \in Seq(S)
        BY <3>3, ConcatElements
      <3> HIDE DEF t, u
      <3>7. Good(t \o u, k + 1)
        BY <3>4, <3>5, <3>6
      <3> HIDE DEF Good
      <3>8. Good(f[k + 1], k + 1)
        BY <3>2, <3>7, Zenon
      <3>9. k + 1 \in Nat
        BY <3>1
      <3> QED
        BY <3>8, <3>9
    <2>5. Len(ss) \in P
      <3> HIDE DEF P
      <3>1. \A k \in 0 .. Len(ss) - 1 : k \in P => k + 1 \in P
        BY <2>3, <2>4
      <3>2. \A k \in 0..Len(ss) : k \in P
        BY <1>1, <2>2, <3>1, BoundedInduction
      <3> QED
        BY <1>1, <3>2
    <2>6. Good(FlattenSeq(ss), Len(ss))
      BY <1>4, <2>1, <2>5
    <2> QED
      BY <1>1, <2>6
  <1> QED
    BY <1>1, <1>3, <1>4

\* A set of numbers in ascending order has each of them once.
LEMMA AscendingShape ==
  ASSUME NEW N \in Nat, NEW S \in SUBSET (1..N)
  PROVE  /\ Cardinality(S) \in Nat
         /\ Cardinality(S) = 0 <=> S = {}
         /\ Ascending(S) \in [1..Cardinality(S) -> S]
         /\ IsInjective(Ascending(S))
  <1> DEFINE Up(i) == {j \in S : j <= i}
             Rank(i) == Cardinality(Up(i))
             P == {m \in Nat : \A k \in 1..Rank(m) : \E i \in S : Rank(i) = k}
  <1>0. \A j \in S : j \in Nat /\ 1 <= j /\ j <= N
    OBVIOUS
  <1>1. IsFiniteSet(S)
    <2>1. IsFiniteSet(1..N)
      BY FS_Interval
    <2> QED
      BY <2>1, FS_Subset
  <1>2. Cardinality(S) \in Nat /\ (Cardinality(S) = 0 <=> S = {})
    BY <1>1, FS_CardinalityType, FS_EmptySet
  <1>3. \A i \in Nat : IsFiniteSet(Up(i)) /\ Rank(i) \in Nat
    BY <1>1, FS_Subset, FS_CardinalityType
  <1>4. 0 \in P
    <2>1. Up(0) = {}
      <3>1. \A j \in S : ~ (j <= 0)
        BY <1>0
      <3> QED
        BY <3>1, Zenon
    <2>2. Rank(0) = 0
      BY <2>1, FS_EmptySet
    <2> HIDE DEF Rank
    <2> QED
      BY <2>2
  <1>5. ASSUME NEW m \in 0 .. N - 1, m \in P PROVE m + 1 \in P
    <2>1. m \in Nat /\ m + 1 \in Nat
      OBVIOUS
    <2>2. CASE m + 1 \in S
      <3>1. Up(m + 1) = Up(m) \cup {m + 1} /\ m + 1 \notin Up(m)
        <4>1. \A j \in S : j <= m + 1 <=> j <= m \/ j = m + 1
          BY <1>0, <2>1
        <4>2. ~ (m + 1 <= m)
          BY <2>1
        <4> QED
          BY <2>2, <4>1, <4>2, Zenon
      <3>2. Rank(m + 1) = Rank(m) + 1
        BY <1>3, <2>1, <3>1, FS_AddElement
      <3>3. ASSUME NEW k \in 1..Rank(m + 1) PROVE \E i \in S : Rank(i) = k
        <4>1. CASE k = Rank(m + 1)
          BY <2>2, <4>1
        <4>2. CASE k # Rank(m + 1)
          <5>0. Rank(m) \in Nat
            BY <1>3, <2>1
          <5> HIDE DEF Rank
          <5>1. k \in 1..Rank(m)
            BY <5>0, <3>2, <4>2
          <5> QED
            BY <1>5, <5>1
        <4> QED
          BY <4>1, <4>2
      <3> HIDE DEF Rank
      <3> QED
        BY <2>1, <3>3
    <2>3. CASE m + 1 \notin S
      <3>1. Up(m + 1) = Up(m)
        <4>1. \A j \in S : j <= m + 1 <=> j <= m
          BY <1>0, <2>1, <2>3
        <4> QED
          BY <4>1, Zenon
      <3>2. Rank(m + 1) = Rank(m)
        BY <3>1
      <3> HIDE DEF Rank
      <3> QED
        BY <1>5, <2>1, <3>2
    <2> QED
      BY <2>2, <2>3
  <1>6. N \in P
    <2> HIDE DEF P
    <2>1. \A m \in 0 .. N - 1 : m \in P => m + 1 \in P
      BY <1>5
    <2>2. \A m \in 0..N : m \in P
      BY <1>4, <2>1, BoundedInduction
    <2> QED
      BY <2>2
  <1>7. Up(N) = S
    BY <1>0
  <1>8. \A k \in 1..Cardinality(S) : \E i \in S : Rank(i) = k
    BY <1>6, <1>7
  <1>9. Ascending(S) =
          [k \in 1..Cardinality(S) |-> CHOOSE i \in S : Rank(i) = k]
    BY DEF Ascending
  <1> HIDE DEF Rank
  <1>10. \A k \in 1..Cardinality(S) :
           Ascending(S)[k] \in S /\ Rank(Ascending(S)[k]) = k
    BY <1>8, <1>9
  <1>11. DOMAIN Ascending(S) = 1..Cardinality(S)
    BY <1>9
  <1>12. Ascending(S) \in [1..Cardinality(S) -> S]
    BY <1>9, <1>10
  <1>13. IsInjective(Ascending(S))
    BY <1>10, <1>11 DEF IsInjective
  <1> QED
    BY <1>2, <1>12, <1>13

\* One of several different cones is less than all others.
LEMMA LeastCone ==
  ASSUME NEW N \in Nat \ {0}, NEW c \in [1..N -> Cone], IsInjective(c)
  PROVE  \E m \in 1..N : \A j \in 1..N \ {m} : Less(c[m], c[j])
  <1> DEFINE Least(m, k) == m \in 1..k /\ \A j \in 1..k \ {m} : Less(c[m], c[j])
             P == {k \in Nat : k = 0 \/ \E m \in Nat : Least(m, k)}
  <1>1. 0 \in P
    OBVIOUS
  <1>2. ASSUME NEW k \in 0 .. N - 1, k \in P PROVE k + 1 \in P
    <2>1. k \in Nat /\ k + 1 \in 1..N
      OBVIOUS
    <2>2. CASE k = 0
      <3>1. Least(1, 1)
        OBVIOUS
      <3> QED
        BY <2>2, <3>1
    <2>3. CASE k # 0
      <3>1. PICK m \in Nat : Least(m, k)
        BY <1>2, <2>3
      <3>2. m \in 1..N /\ m # k + 1
        BY <3>1
      <3>3. c[m] \in Cone /\ c[k + 1] \in Cone /\ c[m] # c[k + 1]
        BY <2>1, <3>2 DEF IsInjective
      <3>4. CASE Less(c[m], c[k + 1])
        <4>1. \A j \in 1 .. k + 1 \ {m} : j = k + 1 \/ j \in 1..k \ {m}
          BY <2>1
        <4>2. Least(m, k + 1)
          BY <3>1, <3>4, <4>1
        <4> QED
          BY <2>1, <4>2
      <3>5. CASE Less(c[k + 1], c[m])
        <4>1. ASSUME NEW j \in 1 .. k + 1 \ {k + 1}
              PROVE  Less(c[k + 1], c[j])
          <5>1. j \in 1..k /\ c[j] \in Cone
            BY <2>1
          <5> QED
            BY <3>1, <3>3, <3>5, <5>1, OrderAssumption
        <4>2. Least(k + 1, k + 1)
          BY <2>1, <4>1
        <4> QED
          BY <2>1, <4>2
      <3> QED
        BY <3>3, <3>4, <3>5, OrderAssumption
    <2> QED
      BY <2>2, <2>3
  <1>3. N \in P
    <2> HIDE DEF P
    <2>1. \A k \in 0 .. N - 1 : k \in P => k + 1 \in P
      BY <1>2
    <2>2. \A k \in 0..N : k \in P
      BY <1>1, <2>1, BoundedInduction
    <2> QED
      BY <2>2
  <1> QED
    BY <1>3

\* expandOrbitConeOrbit() keeps the indices of some cones of an orbit, none
\* of them twice.
LEMMA ElementsShape ==
  ASSUME NEW orbit \in Seq(Cone), orbit # <<>>
  PROVE  /\ Elements(orbit) \in Seq(DOMAIN orbit)
         /\ IsInjective(Elements(orbit))
  <1> DEFINE N == Len(orbit)
             New == {i \in DOMAIN orbit : \A j \in 1..(i - 1) :
                                            orbit[j] # orbit[i]}
             first == Firsts(orbit)
             n == Cardinality(New)
             c == [k \in 1..n |-> orbit[first[k]]]
             min == minimalElementIndex(orbit)
  <1>1. N \in Nat /\ N # 0 /\ DOMAIN orbit = 1..N
    OBVIOUS
  <1>2. New \in SUBSET (1..N) /\ 1 \in New
    BY <1>1
  <1>3. /\ n \in Nat /\ n # 0
        /\ first \in [1..n -> New]
        /\ IsInjective(first)
    <2>1. first = Ascending(New)
      BY DEF Firsts
    <2> HIDE DEF New, first
    <2> QED
      BY <1>1, <1>2, <2>1, AscendingShape
  <1>4. \A i, j \in New : orbit[i] = orbit[j] => i = j
    <2> SUFFICES ASSUME NEW i \in New, NEW j \in New, i < j
                 PROVE  orbit[i] # orbit[j]
      BY <1>1
    <2>1. i \in 1 .. j - 1
      BY <1>1
    <2> QED
      BY <2>1
  <1>5. c \in [1..n -> Cone]
    <2>1. \A k \in 1..n : first[k] \in DOMAIN orbit
      BY <1>3
    <2> HIDE DEF n, first
    <2> QED
      BY <2>1
  <1> HIDE DEF New, n, first
  <1>6. IsInjective(c)
    BY <1>3, <1>4 DEF IsInjective
  <1>7. \E m \in 1..n : \A j \in 1..n \ {m} : Less(c[m], c[j])
    <2> HIDE DEF c
    <2> QED
      BY <1>3, <1>5, <1>6, LeastCone
  <1>8. min \in 1..n
    <2>1. DOMAIN first = 1..n
      BY <1>3
    <2>2. min = CHOOSE m \in 1..n : \A j \in 1..n \ {m} :
                                      Less(orbit[first[m]], orbit[first[j]])
      BY <2>1 DEF minimalElementIndex, first
    <2>3. \E m \in 1..n : \A j \in 1..n \ {m} :
                            Less(orbit[first[m]], orbit[first[j]])
      BY <1>7
    <2> HIDE DEF min
    <2> QED
      BY <2>2, <2>3
  <1>9. Elements(orbit) = [first EXCEPT ![1] = first[min], ![min] = first[1]]
    BY DEF Elements, first
  <1> HIDE DEF min
  <1>10. /\ DOMAIN Elements(orbit) = 1..n
         /\ \A k \in 1..n : Elements(orbit)[k] =
              IF k = min THEN first[1] ELSE IF k = 1 THEN first[min] ELSE first[k]
    BY <1>3, <1>8, <1>9
  <1>11. 1 \in 1..n /\ New \subseteq DOMAIN orbit
    BY <1>3 DEF New
  <1>12. \A k \in 1..n : Elements(orbit)[k] \in DOMAIN orbit
    BY <1>3, <1>8, <1>10, <1>11
  <1>13. Elements(orbit) = [k \in 1..n |-> Elements(orbit)[k]]
    BY <1>3, <1>9
  <1>14. Elements(orbit) \in Seq(DOMAIN orbit)
    BY <1>3, <1>12, <1>13
  <1>15. IsInjective(Elements(orbit))
    BY <1>3, <1>8, <1>10, <1>11 DEF IsInjective
  <1> QED
    BY <1>14, <1>15

-----------------------------------------------------------------------------
(* The steps of the net orbit_cones_from_afaces *)

\* A list of results in some order.
IsInOrder(l, results) ==
  \E at \in [1..Cardinality(DOMAIN results) -> DOMAIN results] :
    /\ IsInjective(at)
    /\ l = [i \in DOMAIN at |-> results[at[i]]]

\* It has no more than these results, and none twice.
LEMMA InOrder ==
  ASSUME NEW results, NEW T, IsFiniteSet(DOMAIN results),
         \A x \in DOMAIN results : results[x] \in T,
         NEW l, IsInOrder(l, results)
  PROVE  /\ l \in Seq(T)
         /\ \E at \in [DOMAIN l -> DOMAIN results] :
              /\ \A i, j \in DOMAIN l : i # j => at[i] # at[j]
              /\ \A i \in DOMAIN l : l[i] = results[at[i]]
         /\ IsInjective(results) => IsInjective(l)
  <1> DEFINE n == Cardinality(DOMAIN results)
  <1>1. n \in Nat
    BY FS_CardinalityType
  <1>2. PICK at \in [1..n -> DOMAIN results] :
          /\ IsInjective(at)
          /\ l = [i \in DOMAIN at |-> results[at[i]]]
    BY DEF IsInOrder
  <1> HIDE DEF n
  <1>3. DOMAIN at = 1..n /\ DOMAIN l = 1..n
    BY <1>2
  <1>4. \A i \in DOMAIN l : at[i] \in DOMAIN results /\ l[i] = results[at[i]]
    BY <1>2, <1>3
  <1>5. l \in Seq(T)
    BY <1>1, <1>2, <1>3
  <1>6. \A i, j \in DOMAIN l : i # j => at[i] # at[j]
    BY <1>2, <1>3 DEF IsInjective
  <1>7. at \in [DOMAIN l -> DOMAIN results]
    BY <1>2, <1>3
  <1>8. IsInjective(results) => IsInjective(l)
    BY <1>4, <1>6 DEF IsInjective
  <1> QED
    BY <1>4, <1>5, <1>6, <1>7, <1>8

\* A file that is overwritten has its new content, the others keep theirs.
LEMMA OverwriteShape ==
  ASSUME NEW f, NEW g, NEW T,
         \A p \in DOMAIN f : f[p] \in T,
         \A p \in DOMAIN g : g[p] \in T
  PROVE  /\ DOMAIN Overwrite(f, g) = DOMAIN f \cup DOMAIN g
         /\ \A p \in DOMAIN Overwrite(f, g) : Overwrite(f, g)[p] \in T
         /\ \A p \in DOMAIN f \ DOMAIN g : Overwrite(f, g)[p] = f[p]
  BY DEF Overwrite

\* What the assumptions say of the problem at hand.
LEMMA ProblemFacts ==
  ASSUME ProblemShape
  PROVE  /\ group \in Seq(Seq(Nat)) /\ group # <<>>
         /\ in_data.afaces \in Seq(AFace) /\ IsInjective(in_data.afaces)
         /\ \A f, g \in Range(in_data.afaces) :
              AFacePath(f) = AFacePath(g) => f = g
         /\ \A i \in DOMAIN group, c \in Cone : preimageCone(c, group[i]) \in Cone
  <1>1. PICK problem \in Problem : /\ group = problem.group
                                   /\ in_data.afaces = problem.afaces
    BY DEF ProblemShape
  <1>2. /\ IsGroupAction(problem.group) /\ problem.group # <<>>
        /\ problem.afaces \in Seq(AFace) /\ IsInjective(problem.afaces)
        /\ \A f, g \in Range(problem.afaces) :
             AFaceName(f, Len(problem.group[1])) =
               AFaceName(g, Len(problem.group[1])) => f = g
    BY ProblemAssumption
  <1>3. \A f, g \in Range(in_data.afaces) : AFacePath(f) = AFacePath(g) => f = g
    BY <1>1, <1>2 DEF AFacePath
  <1>4. \A i \in DOMAIN group : group[i] \in Range(problem.group)
    BY <1>1 DEF Range
  <1>5. \A i \in DOMAIN group, c \in Cone : preimageCone(c, group[i]) \in Cone
    BY <1>4, ConeAssumption
  <1> QED
    BY <1>1, <1>2, <1>3, <1>5 DEF IsGroupAction

\* The index sets of lists are finite.
LEMMA FiniteIndices ==
  ASSUME NEW T, NEW l \in Seq(T)
  PROVE  IsFiniteSet(DOMAIN l) /\ \A S \in SUBSET DOMAIN l : IsFiniteSet(S)
  <1>1. DOMAIN l = 1..Len(l) /\ Len(l) \in Nat
    OBVIOUS
  <1>2. IsFiniteSet(DOMAIN l)
    BY <1>1, FS_Interval
  <1> QED
    BY <1>2, FS_Subset

\* What a list manipulation makes of the list.
LEMMA ListStepOrder ==
  ASSUME NEW STATE results, NEW from, NEW to, ListStep(from, to, results)
  PROVE  /\ control = from /\ control' = to
         /\ IsInOrder(list', results)
         /\ UNCHANGED <<in_data, enable_clean, symmetry_group_on_hashes>>
  BY DEF ListStep, Move, IsInOrder, list

\* compute_orbit_cones: a-faces become files named after them.
LEMMA ComputePreserves ==
  ASSUME OrbitInv, compute_orbit_cones
  PROVE  OrbitInv'
  <1> USE DEF OrbitInv
  <1> DEFINE results == compute_orbit_cones_process
             face(p) == CHOOSE f \in Range(list) : AFacePath(f) = p
             new == [p \in Range(results) |-> computeOrbitCone(face(p)).content]
  <1>1. /\ control = "aface_reps_available"
        /\ control' = "orbit_cone_reps_available"
        /\ IsInOrder(list', results)
        /\ UNCHANGED <<in_data, enable_clean, symmetry_group_on_hashes>>
    BY ListStepOrder DEF compute_orbit_cones
  <1>2. list \in Seq(Range(in_data.afaces)) /\ IsInjective(list)
    BY <1>1 DEF ListShape, ListsAFaces
  <1>3. results = [i \in DOMAIN list |-> AFacePath(list[i])]
    BY DEF compute_orbit_cones_process, computeOrbitCone
  <1>4. ProblemShape'
    BY <1>1 DEF ProblemShape, group
  <1>5. \A i \in DOMAIN list : list[i] \in Range(in_data.afaces)
    BY <1>2
  <1>6. IsInjective(results)
    BY <1>2, <1>3, <1>5, ProblemFacts DEF IsInjective
  <1>7. Range(list) \subseteq AFace
    BY <1>5, ProblemFacts DEF Range
  <1>8. ASSUME NEW p \in Range(results) PROVE new[p] \in Cone
    <2>1. PICK i \in DOMAIN list : p = AFacePath(list[i])
      BY <1>3 DEF Range
    <2>2. list[i] \in Range(list)
      BY DEF Range
    <2>3. face(p) \in Range(list)
      BY <2>1, <2>2
    <2>4. new[p] = computeOrbitConeForAFace(face(p))
      BY DEF computeOrbitCone
    <2> HIDE DEF face, new
    <2> QED
      BY <1>7, <2>3, <2>4, ConeAssumption
  <1>9. cone_files' = Overwrite(cone_files, new)
    BY DEF compute_orbit_cones
  <1>10. DOMAIN new = Range(results)
    OBVIOUS
  <1> HIDE DEF new
  <1>11. /\ DOMAIN cone_files' = DOMAIN cone_files \cup Range(results)
         /\ \A p \in DOMAIN cone_files' : cone_files'[p] \in Cone
    BY <1>8, <1>9, <1>10, OverwriteShape DEF FileShape, Content
  <1>12. list' \in Seq(DOMAIN cone_files') /\ IsInjective(list')
    <2>1. \A x \in DOMAIN results : results[x] \in DOMAIN cone_files'
      BY <1>11 DEF Range
    <2>2. IsFiniteSet(DOMAIN results)
      BY <1>2, <1>3, FiniteIndices
    <2> HIDE DEF results
    <2> QED
      BY <1>1, <1>6, <2>1, <2>2, InOrder
  <1>13. ListShape'
    BY <1>1, <1>12 DEF ListShape, ListsAFaces, ListsOrbits, list
  <1>14. FileShape'
    BY <1>1, <1>11 DEF FileShape, ListsFinalPaths, Content
  <1> QED
    BY <1>4, <1>13, <1>14

\* intersect_with_moving_cone: files are dropped or overwritten in place.
LEMMA IntersectPreserves ==
  ASSUME OrbitInv, intersect_with_moving_cone
  PROVE  OrbitInv'
  <1> USE DEF OrbitInv
  <1> DEFINE results == intersect_with_moving_cone_process
             kept == {i \in DOMAIN list :
                        intersectWithMovingCone(Content(list[i])) # NoCone}
             cuts == [p \in Range(KeptOrbitCones) |->
                        intersectWithMovingCone(Content(p))]
  <1>1. /\ control = "orbit_cone_reps_available"
        /\ control' = "intersected_orbit_cone_reps_available"
        /\ IsInOrder(list', results)
        /\ UNCHANGED <<in_data, enable_clean, symmetry_group_on_hashes>>
    BY ListStepOrder DEF intersect_with_moving_cone
  <1>2. list \in Seq(DOMAIN cone_files) /\ IsInjective(list)
    BY <1>1 DEF ListShape, ListsAFaces, ListsOrbits
  <1>3. ProblemShape'
    BY <1>1 DEF ProblemShape, group
  <1>4. KeptOrbitCones = [i \in kept |-> list[i]]
    BY DEF KeptOrbitCones, Restrict
  <1>5. /\ DOMAIN results \subseteq DOMAIN list
        /\ \A i \in DOMAIN results : results[i] = list[i]
    BY <1>4 DEF intersect_with_moving_cone_process
  <1>6. ASSUME NEW p \in Range(KeptOrbitCones)
        PROVE  p \in DOMAIN cone_files /\ cuts[p] \in Cone
    <2>1. PICK i \in kept : p = list[i]
      BY <1>4 DEF Range
    <2>2. p \in DOMAIN cone_files /\ Content(p) \in Cone
      BY <1>2, <2>1 DEF FileShape
    <2>3. cuts[p] = intersectWithMovingCone(Content(p)) /\ cuts[p] # NoCone
      BY <2>1
    <2> HIDE DEF cuts
    <2> QED
      BY <2>2, <2>3, ConeAssumption
  <1>7. /\ DOMAIN cone_files \subseteq DOMAIN cone_files'
        /\ \A p \in DOMAIN cone_files' : cone_files'[p] \in Cone
    <2>1. \A p \in DOMAIN cone_files : cone_files[p] \in Cone
      BY DEF FileShape, Content
    <2>2. DOMAIN cuts = Range(KeptOrbitCones)
      OBVIOUS
    <2>3. \/ cone_files' = cone_files
          \/ cone_files' = Overwrite(cone_files, cuts)
      BY DEF intersect_with_moving_cone
    <2>4. \A p \in DOMAIN cuts : cuts[p] \in Cone
      BY <1>6, <2>2
    <2> HIDE DEF cuts
    <2>5. CASE cone_files' = cone_files
      BY <2>1, <2>5
    <2>6. CASE cone_files' = Overwrite(cone_files, cuts)
      <3> DEFINE o == Overwrite(cone_files, cuts)
      <3>1. /\ DOMAIN o = DOMAIN cone_files \cup DOMAIN cuts
            /\ \A p \in DOMAIN o : o[p] \in Cone
        BY <2>1, <2>4, OverwriteShape
      <3> HIDE DEF o
      <3>2. cone_files' = o
        BY <2>6 DEF o
      <3> QED
        BY <3>1, <3>2
    <2> QED
      BY <2>3, <2>5, <2>6
  <1>8. list' \in Seq(DOMAIN cone_files') /\ IsInjective(list')
    <2>1. \A x \in DOMAIN results : results[x] \in DOMAIN cone_files'
      <3>1. \A i \in DOMAIN list : list[i] \in DOMAIN cone_files
        BY <1>2
      <3> HIDE DEF results
      <3> QED
        BY <1>5, <1>7, <3>1
    <2>2. IsFiniteSet(DOMAIN results)
      BY <1>2, <1>5, FiniteIndices
    <2>3. IsInjective(results)
      BY <1>2, <1>5 DEF IsInjective
    <2> HIDE DEF results
    <2> QED
      BY <1>1, <2>1, <2>2, <2>3, InOrder
  <1>9. ListShape'
    BY <1>1, <1>8 DEF ListShape, ListsAFaces, ListsOrbits, list
  <1>10. FileShape'
    BY <1>1, <1>7 DEF FileShape, ListsFinalPaths, Content
  <1> QED
    BY <1>3, <1>9, <1>10

\* expand_orbit_cone_orbits: each file becomes an orbit of files.
LEMMA ExpandPreserves ==
  ASSUME OrbitInv, expand_orbit_cone_orbits
  PROVE  OrbitInv'
  <1> USE DEF OrbitInv
  <1> DEFINE results == expand_orbit_cone_orbits_process
             orbit == [n \in DOMAIN list |-> OrbitOf(n)]
             written == {OrbitPath(n, i) : n \in DOMAIN list, i \in DOMAIN group}
             new == [p \in written |-> orbit[p.name[1]][p.name[2]]]
  <1>1. /\ control = "intersected_orbit_cone_reps_available"
        /\ control' = "orbit_cone_orbits_available"
        /\ IsInOrder(list', results)
        /\ UNCHANGED <<in_data, enable_clean, symmetry_group_on_hashes>>
    BY ListStepOrder DEF expand_orbit_cone_orbits
  <1>2. list \in Seq(DOMAIN cone_files) /\ IsInjective(list)
    BY <1>1 DEF ListShape, ListsAFaces, ListsOrbits
  <1>3. ProblemShape' /\ group' = group
    BY <1>1 DEF ProblemShape, group
  <1>4. ASSUME NEW n \in DOMAIN list
        PROVE  /\ OrbitOf(n) = [i \in DOMAIN group |->
                                  preimageCone(Content(list[n]), group[i])]
               /\ OrbitOf(n) \in Seq(Cone) /\ OrbitOf(n) # <<>>
               /\ DOMAIN OrbitOf(n) = DOMAIN group
    <2>1. OrbitOf(n) = [i \in DOMAIN group |->
                          preimageCone(Content(list[n]), group[i])]
      BY DEF OrbitOf, computeOrbitConeOrbitWithDuplicates
    <2>2. Content(list[n]) \in Cone
      BY <1>2 DEF FileShape
    <2>3. \A i \in DOMAIN group : preimageCone(Content(list[n]), group[i]) \in Cone
      BY <2>2, ProblemFacts
    <2>4. DOMAIN group = 1..Len(group) /\ Len(group) \in Nat /\ Len(group) # 0
      BY ProblemFacts
    <2> QED
      BY <2>1, <2>3, <2>4
  <1>5. ASSUME NEW n \in DOMAIN list
        PROVE  /\ results[n].group_action = n
               /\ DOMAIN results[n].elements = DOMAIN Elements(OrbitOf(n))
               /\ \A e \in DOMAIN results[n].elements :
                    results[n].elements[e] = OrbitPath(n, Elements(OrbitOf(n))[e])
               /\ results[n] = [elements |-> results[n].elements,
                                group_action |-> n]
    BY DEF expand_orbit_cone_orbits_process, expandOrbitConeOrbit
  <1>6. DOMAIN results = DOMAIN list
    BY DEF expand_orbit_cone_orbits_process
  <1>7. ASSUME NEW p \in written PROVE new[p] \in Cone
    <2>1. PICK n \in DOMAIN list, i \in DOMAIN group : p = OrbitPath(n, i)
      OBVIOUS
    <2>2. p.name[1] = n /\ p.name[2] = i
      BY <2>1 DEF OrbitPath
    <2>3. orbit[n] = OrbitOf(n) /\ OrbitOf(n)[i] \in Cone
      BY <1>4
    <2>4. new[p] = orbit[p.name[1]][p.name[2]]
      OBVIOUS
    <2> HIDE DEF new, orbit, written
    <2> QED
      BY <2>2, <2>3, <2>4
  <1>8. cone_files' = Overwrite(cone_files, new)
    BY DEF expand_orbit_cone_orbits
  <1>9. DOMAIN new = written
    OBVIOUS
  <1>10. /\ DOMAIN cone_files' = DOMAIN cone_files \cup written
         /\ \A p \in DOMAIN cone_files' : cone_files'[p] \in Cone
    <2> HIDE DEF new, written
    <2> QED
      BY <1>7, <1>8, <1>9, OverwriteShape DEF FileShape, Content
  <1>a. \A n \in DOMAIN list, i \in DOMAIN group :
          OrbitPath(n, i) \in DOMAIN cone_files'
    BY <1>10
  <1> HIDE DEF new, orbit, written, results
  <1>11. ASSUME NEW n \in DOMAIN list
         PROVE  /\ results[n] \in [elements : Seq(DOMAIN cone_files'),
                                   group_action : Nat]
                /\ IsInjective(results[n].elements)
                /\ \A p \in Range(results[n].elements) :
                     \E i \in DOMAIN group : p = OrbitPath(n, i)
    <2> DEFINE es == Elements(OrbitOf(n))
    <2>1. es \in Seq(DOMAIN group) /\ IsInjective(es)
      BY <1>4, ElementsShape
    <2>2. \A e \in DOMAIN results[n].elements :
            /\ e \in DOMAIN es
            /\ es[e] \in DOMAIN group
            /\ results[n].elements[e] = OrbitPath(n, es[e])
      <3>1. \A e \in DOMAIN es : es[e] \in DOMAIN group
        BY <2>1
      <3> QED
        BY <1>5, <3>1
    <2> HIDE DEF es
    <2>3. IsInjective(results[n].elements)
      <3>1. \A i, j \in DOMAIN group : OrbitPath(n, i) = OrbitPath(n, j) => i = j
        BY DEF OrbitPath
      <3> QED
        BY <2>1, <2>2, <3>1 DEF IsInjective
    <2>4. \A e \in DOMAIN results[n].elements :
            results[n].elements[e] \in DOMAIN cone_files'
      BY <1>a, <2>2
    <2>5. DOMAIN results[n].elements = 1..Len(es) /\ Len(es) \in Nat
      <3>1. DOMAIN results[n].elements = DOMAIN es
        BY <1>5 DEF es
      <3> QED
        BY <2>1, <3>1
    <2>6. results[n].elements = [e \in 1..Len(es) |-> results[n].elements[e]]
      <3>1. results[n].elements = [e \in DOMAIN es |-> OrbitPath(n, es[e])]
        BY DEF results, es, expand_orbit_cone_orbits_process,
               expandOrbitConeOrbit
      <3> QED
        BY <2>1, <3>1
    <2>7. results[n].elements \in Seq(DOMAIN cone_files')
      BY <2>4, <2>5, <2>6
    <2>8. n \in Nat
      BY <1>2
    <2>9. results[n] \in [elements : Seq(DOMAIN cone_files'), group_action : Nat]
      <3> DEFINE els == results[n].elements
      <3>1. results[n] = [elements |-> els, group_action |-> n]
        BY <1>5
      <3>2. els \in Seq(DOMAIN cone_files')
        BY <2>7
      <3> HIDE DEF els
      <3> QED
        BY <2>8, <3>1, <3>2
    <2>10. \A p \in Range(results[n].elements) :
             \E i \in DOMAIN group : p = OrbitPath(n, i)
      BY <2>2 DEF Range
    <2> QED
      BY <2>3, <2>9, <2>10
  <1>12. /\ list' \in Seq([elements : Seq(DOMAIN cone_files'),
                           group_action : Nat])
         /\ \E at \in [DOMAIN list' -> DOMAIN results] :
              /\ \A i, j \in DOMAIN list' : i # j => at[i] # at[j]
              /\ \A i \in DOMAIN list' : list'[i] = results[at[i]]
    <2> DEFINE T == [elements : Seq(DOMAIN cone_files'), group_action : Nat]
    <2>1. IsFiniteSet(DOMAIN results)
      BY <1>2, <1>6, FiniteIndices
    <2>2. \A n \in DOMAIN results : results[n] \in T
      BY <1>6, <1>11
    <2> HIDE DEF T
    <2>3. /\ list' \in Seq(T)
          /\ \E at \in [DOMAIN list' -> DOMAIN results] :
               /\ \A i, j \in DOMAIN list' : i # j => at[i] # at[j]
               /\ \A i \in DOMAIN list' : list'[i] = results[at[i]]
      BY <1>1, <2>1, <2>2, InOrder
    <2> QED
      BY <2>3 DEF T
  <1>13. PICK at \in [DOMAIN list' -> DOMAIN results] :
           /\ \A i, j \in DOMAIN list' : i # j => at[i] # at[j]
           /\ \A i \in DOMAIN list' : list'[i] = results[at[i]]
    BY <1>12
  <1>14. ASSUME NEW m \in DOMAIN list'
         PROVE  /\ list'[m].group_action = at[m]
                /\ IsInjective(list'[m].elements)
                /\ \A p \in Range(list'[m].elements) :
                     \E i \in DOMAIN group' :
                       p = OrbitPath(list'[m].group_action, i)
    <2>1. at[m] \in DOMAIN list /\ list'[m] = results[at[m]]
      BY <1>6, <1>13
    <2>2. results[at[m]].group_action = at[m]
      BY <1>5, <2>1
    <2>3. /\ IsInjective(results[at[m]].elements)
          /\ \A p \in Range(results[at[m]].elements) :
               \E i \in DOMAIN group : p = OrbitPath(at[m], i)
      BY <1>11, <2>1
    <2> QED
      BY <1>3, <2>1, <2>2, <2>3
  <1>15. \A m, n \in DOMAIN list' :
           m # n => list'[m].group_action # list'[n].group_action
    BY <1>13, <1>14
  <1>16. ListsOrbits' /\ ~ ListsAFaces'
    BY <1>1 DEF ListsOrbits, ListsAFaces
  <1>17. ListShape'
    BY <1>12, <1>14, <1>15, <1>16 DEF ListShape, OrbitPath
  <1>18. FileShape'
    BY <1>1, <1>10 DEF FileShape, ListsFinalPaths, Content
  <1> QED
    BY <1>3, <1>17, <1>18

\* keep_unique_orbit_cones: orbits are dropped.
LEMMA UniquePreserves ==
  ASSUME OrbitInv, keep_unique_orbit_cones
  PROVE  OrbitInv'
  <1> USE DEF OrbitInv
  <1> DEFINE results == keep_unique_orbit_cones_process
             T == [elements : Seq(DOMAIN cone_files), group_action : Nat]
  <1>1. /\ control = "orbit_cone_orbits_available"
        /\ control' = "unique_orbit_cone_orbits_available"
        /\ IsInOrder(list', results)
        /\ UNCHANGED <<in_data, enable_clean, cone_files>>
    BY ListStepOrder DEF keep_unique_orbit_cones
  <1>2. ProblemShape' /\ group' = group
    BY <1>1 DEF ProblemShape, group
  <1>3. ListsOrbits /\ ListsOrbits' /\ ~ ListsAFaces'
    BY <1>1 DEF ListsOrbits, ListsAFaces
  <1>4. /\ DOMAIN results \subseteq DOMAIN list
        /\ \A i \in DOMAIN results : results[i] = list[i]
    BY DEF keep_unique_orbit_cones_process, Restrict
  <1> HIDE DEF results
  <1>5. list \in Seq(T)
    BY <1>3 DEF ListShape
  <1> HIDE DEF T
  <1>6. /\ list' \in Seq(T)
        /\ \E at \in [DOMAIN list' -> DOMAIN results] :
             /\ \A i, j \in DOMAIN list' : i # j => at[i] # at[j]
             /\ \A i \in DOMAIN list' : list'[i] = results[at[i]]
    <2>1. IsFiniteSet(DOMAIN results)
      BY <1>4, <1>5, FiniteIndices
    <2>2. \A i \in DOMAIN results : results[i] \in T
      <3>1. \A i \in DOMAIN list : list[i] \in T
        BY <1>5
      <3> QED
        BY <1>4, <3>1
    <2> QED
      BY <1>1, <2>1, <2>2, InOrder
  <1>7. PICK at \in [DOMAIN list' -> DOMAIN results] :
          /\ \A i, j \in DOMAIN list' : i # j => at[i] # at[j]
          /\ \A i \in DOMAIN list' : list'[i] = results[at[i]]
    BY <1>6
  <1>8. \A i \in DOMAIN list' : at[i] \in DOMAIN list /\ list'[i] = list[at[i]]
    BY <1>4, <1>7
  <1>9. ASSUME NEW n \in DOMAIN list'
        PROVE  /\ IsInjective(list'[n].elements)
               /\ \A p \in Range(list'[n].elements) :
                    \E i \in DOMAIN group' : p = OrbitPath(list'[n].group_action, i)
    <2>1. /\ IsInjective(list[at[n]].elements)
          /\ \A p \in Range(list[at[n]].elements) :
               \E i \in DOMAIN group : p = OrbitPath(list[at[n]].group_action, i)
      BY <1>3, <1>8 DEF ListShape
    <2> QED
      BY <1>2, <1>8, <2>1
  <1>10. \A m, n \in DOMAIN list' :
           m # n => list'[m].group_action # list'[n].group_action
    BY <1>3, <1>7, <1>8 DEF ListShape
  <1>11. ListShape'
    BY <1>1, <1>3, <1>6, <1>9, <1>10 DEF ListShape, T, OrbitPath
  <1>12. FileShape'
    BY <1>1 DEF FileShape, ListsFinalPaths, Content
  <1> QED
    BY <1>2, <1>11, <1>12

\* The cones of all orbits, one after the other.
LEMMA FlattenedShape ==
  ASSUME OrbitInv, ListsOrbits
  PROVE  /\ Flattened \in Seq(DOMAIN cone_files)
         /\ IsInjective(Flattened)
         /\ \A p \in Range(Flattened) :
              \E n \in Nat : \E i \in DOMAIN group : p = OrbitPath(n, i)
  <1> DEFINE ss == [n \in DOMAIN list |-> list[n].elements]
             T == [elements : Seq(DOMAIN cone_files), group_action : Nat]
  <1>1. /\ list \in Seq(T)
        /\ \A n \in DOMAIN list :
             /\ IsInjective(list[n].elements)
             /\ \A p \in Range(list[n].elements) :
                  \E i \in DOMAIN group : p = OrbitPath(list[n].group_action, i)
        /\ \A m, n \in DOMAIN list :
             m # n => list[m].group_action # list[n].group_action
    BY DEF OrbitInv, ListShape
  <1>2. \A n \in DOMAIN list : /\ list[n].elements \in Seq(DOMAIN cone_files)
                               /\ list[n].group_action \in Nat
    <2>1. \A n \in DOMAIN list : list[n] \in T
      <3> HIDE DEF T
      <3> QED
        BY <1>1
    <2> QED
      BY <2>1
  <1>3. ss \in Seq(Seq(DOMAIN cone_files))
    <2>1. DOMAIN list = 1..Len(list) /\ Len(list) \in Nat
      <3> HIDE DEF T
      <3> QED
        BY <1>1
    <2> QED
      BY <1>2, <2>1
  <1>4. DOMAIN ss = DOMAIN list /\ \A n \in DOMAIN list : ss[n] = list[n].elements
    OBVIOUS
  <1>5. Flattened = FlattenSeq(ss)
    BY DEF Flattened
  <1> HIDE DEF ss, T
  <1>6. ASSUME NEW n \in DOMAIN ss, NEW j \in DOMAIN ss[n]
        PROVE  \E i \in DOMAIN group :
                 ss[n][j] = OrbitPath(list[n].group_action, i)
    BY <1>1, <1>4 DEF Range
  <1>7. ASSUME NEW m \in DOMAIN ss, NEW n \in DOMAIN ss, m # n,
               NEW i \in DOMAIN ss[m], NEW j \in DOMAIN ss[n]
        PROVE  ss[m][i] # ss[n][j]
    <2>1. PICK k \in DOMAIN group :
            ss[m][i] = OrbitPath(list[m].group_action, k)
      BY <1>6
    <2>2. PICK l \in DOMAIN group :
            ss[n][j] = OrbitPath(list[n].group_action, l)
      BY <1>6
    <2>3. ss[m][i].name[1] = list[m].group_action
      BY <2>1 DEF OrbitPath
    <2>4. ss[n][j].name[1] = list[n].group_action
      BY <2>2 DEF OrbitPath
    <2>5. list[m].group_action # list[n].group_action
      BY <1>1, <1>4, <1>7
    <2> QED
      BY <2>3, <2>4, <2>5
  <1>8. \A n \in DOMAIN ss : IsInjective(ss[n])
    BY <1>1, <1>4
  <1>9. /\ Flattened \in Seq(DOMAIN cone_files)
        /\ \A i \in DOMAIN Flattened :
             \E n \in DOMAIN ss : \E j \in DOMAIN ss[n] :
               Flattened[i] = ss[n][j]
        /\ IsInjective(Flattened)
    BY <1>3, <1>5, <1>7, <1>8, Flatten
  <1>10. ASSUME NEW p \in Range(Flattened)
         PROVE  \E n \in Nat : \E i \in DOMAIN group : p = OrbitPath(n, i)
    <2>1. PICK k \in DOMAIN Flattened : p = Flattened[k]
      BY DEF Range
    <2>2. PICK n \in DOMAIN ss : \E j \in DOMAIN ss[n] : p = ss[n][j]
      BY <1>9, <2>1
    <2>3. \E i \in DOMAIN group : p = OrbitPath(list[n].group_action, i)
      BY <1>6, <2>2
    <2> QED
      BY <1>2, <1>4, <2>3
  <1> QED
    BY <1>9, <1>10

\* removeOrbitStructure: the files are copied to the results.
LEMMA RemoveStructurePreserves ==
  ASSUME OrbitInv, removeOrbitStructure
  PROVE  OrbitInv'
  <1> USE DEF OrbitInv
  <1> DEFINE paths == {FinalPath(p) : p \in Range(Flattened)}
             from(q) == CHOOSE p \in Range(Flattened) : FinalPath(p) = q
             new == [q \in paths |-> Content(from(q))]
  <1>1. /\ control = "unique_orbit_cone_orbits_available"
        /\ control' = "orbit_cones_available"
        /\ list' = [i \in DOMAIN Flattened |-> FinalPath(Flattened[i])]
        /\ cone_files' = Overwrite(cone_files, new)
        /\ UNCHANGED <<in_data, enable_clean>>
    BY DEF removeOrbitStructure, Move, list
  <1>2. ProblemShape' /\ group' = group
    BY <1>1 DEF ProblemShape, group
  <1>3. /\ Flattened \in Seq(DOMAIN cone_files)
        /\ IsInjective(Flattened)
        /\ \A p \in Range(Flattened) :
             \E n \in Nat : \E i \in DOMAIN group : p = OrbitPath(n, i)
    BY <1>1, FlattenedShape DEF ListsOrbits
  <1>4. \A p \in Range(Flattened) : p \in DOMAIN cone_files /\ Content(p) \in Cone
    BY <1>3 DEF Range, FileShape
  <1>5. \A n \in Nat, i \in DOMAIN group :
          FinalPath(OrbitPath(n, i)) =
            [directory |-> "orbit_cones", aface |-> <<>>, name |-> <<n, i>>]
    BY DEF FinalPath, OrbitPath
  <1>6. ASSUME NEW p \in Range(Flattened), NEW q \in Range(Flattened),
               FinalPath(p) = FinalPath(q)
        PROVE  p = q
    <2>1. PICK m \in Nat : \E i \in DOMAIN group : p = OrbitPath(m, i)
      BY <1>3
    <2>2. PICK i \in DOMAIN group : p = OrbitPath(m, i)
      BY <2>1
    <2>3. PICK n \in Nat : \E j \in DOMAIN group : q = OrbitPath(n, j)
      BY <1>3
    <2>4. PICK j \in DOMAIN group : q = OrbitPath(n, j)
      BY <2>3
    <2>5. FinalPath(p).name = <<m, i>> /\ FinalPath(q).name = <<n, j>>
      BY <1>5, <2>2, <2>4
    <2>6. m = n /\ i = j
      BY <1>6, <2>5
    <2> QED
      BY <2>2, <2>4, <2>6
  <1>7. \A p \in Range(Flattened) : FinalPath(p).directory = "orbit_cones"
    BY <1>3, <1>5
  <1>8. ASSUME NEW q \in paths PROVE new[q] \in Cone
    <2>1. \E p \in Range(Flattened) : FinalPath(p) = q
      OBVIOUS
    <2>2. from(q) \in Range(Flattened)
      BY <2>1
    <2>3. new[q] = Content(from(q))
      OBVIOUS
    <2> HIDE DEF from, new
    <2> QED
      BY <1>4, <2>2, <2>3
  <1>9. DOMAIN new = paths
    OBVIOUS
  <1>10. \A i \in DOMAIN Flattened : Flattened[i] \in Range(Flattened)
    BY DEF Range
  <1>11. \A i \in DOMAIN Flattened : FinalPath(Flattened[i]) \in paths
    BY <1>10
  <1> HIDE DEF new, paths
  <1>12. /\ DOMAIN cone_files' = DOMAIN cone_files \cup paths
         /\ \A p \in DOMAIN cone_files' : cone_files'[p] \in Cone
    BY <1>1, <1>8, <1>9, OverwriteShape DEF FileShape, Content
  <1>13. /\ DOMAIN list' = DOMAIN Flattened
         /\ \A i \in DOMAIN list' : list'[i] = FinalPath(Flattened[i])
    BY <1>1
  <1>14. list' \in Seq(DOMAIN cone_files')
    <2>1. DOMAIN Flattened = 1..Len(Flattened) /\ Len(Flattened) \in Nat
      BY <1>3
    <2> QED
      BY <1>1, <1>11, <1>12, <2>1
  <1>15. IsInjective(list')
    BY <1>3, <1>6, <1>10, <1>13 DEF IsInjective
  <1>16. \A p \in Range(list') : p.directory = "orbit_cones"
    BY <1>7, <1>10, <1>13 DEF Range
  <1>17. ListShape'
    BY <1>1, <1>14, <1>15 DEF ListShape, ListsAFaces, ListsOrbits
  <1>18. FileShape'
    BY <1>1, <1>12, <1>16 DEF FileShape, Content
  <1> QED
    BY <1>2, <1>17, <1>18

\* clean: the intermediate files are removed.
LEMMA CleanPreserves ==
  ASSUME OrbitInv, clean
  PROVE  /\ OrbitInv'
         /\ \A p \in Range(list) : /\ p \in DOMAIN cone_files /\ p \in DOMAIN cone_files'
                                   /\ cone_files'[p] = cone_files[p]
  <1> USE DEF OrbitInv
  <1> DEFINE kept == {q \in DOMAIN cone_files : q.directory # "tmp"}
  <1>1. /\ control = "finished"
        /\ ~ enable_clean'
        /\ cone_files' = [p \in kept |-> cone_files[p]]
        /\ UNCHANGED <<in_data, control, inout_processed_list>>
    BY DEF clean, FileShape
  <1>2. ProblemShape' /\ list' = list
    BY <1>1 DEF ProblemShape, group, list
  <1>3. list \in Seq(DOMAIN cone_files) /\ IsInjective(list)
    BY <1>1 DEF ListShape, ListsAFaces, ListsOrbits
  <1>4. \A p \in Range(list) : p.directory = "orbit_cones"
    BY <1>1 DEF FileShape, ListsFinalPaths
  <1>5. \A i \in DOMAIN list : list[i] \in DOMAIN cone_files /\ list[i] \in Range(list)
    BY <1>3 DEF Range
  <1>6. \A i \in DOMAIN list : list[i] \in kept
    BY <1>4, <1>5
  <1>7. DOMAIN cone_files' = kept /\ \A p \in kept : cone_files'[p] = cone_files[p]
    BY <1>1
  <1>8. kept \subseteq DOMAIN cone_files
    OBVIOUS
  <1> HIDE DEF kept
  <1>9. list' \in Seq(DOMAIN cone_files')
    BY <1>2, <1>3, <1>6, <1>7
  <1>10. ListShape'
    BY <1>1, <1>2, <1>3, <1>9 DEF ListShape, ListsAFaces, ListsOrbits
  <1>11. \A p \in DOMAIN cone_files' : cone_files'[p] \in Cone
    BY <1>7, <1>8 DEF FileShape, Content
  <1>12. FileShape'
    BY <1>1, <1>2, <1>4, <1>11 DEF FileShape, Content
  <1>13. \A p \in Range(list) : /\ p \in DOMAIN cone_files /\ p \in DOMAIN cone_files'
                                /\ cone_files'[p] = cone_files[p]
    BY <1>5, <1>6, <1>7 DEF Range
  <1> QED
    BY <1>2, <1>10, <1>12, <1>13

\* Steps that move the control token and leave list and files alone.
LEMMA StutterPreserves ==
  ASSUME OrbitInv, UNCHANGED vars
  PROVE  OrbitInv'
  <1> USE DEF OrbitInv, vars
  <1>1. ProblemShape'
    BY DEF ProblemShape, group
  <1>2. ListShape'
    BY DEF ListShape, ListsAFaces, ListsOrbits, list, group, OrbitPath
  <1>3. FileShape'
    BY DEF FileShape, ListsFinalPaths, list, Content
  <1> QED
    BY <1>1, <1>2, <1>3

\* Start and split_control_path.
LEMMA MovePreserves ==
  ASSUME OrbitInv, Start \/ split_control_path
  PROVE  OrbitInv'
  <1> USE DEF OrbitInv, Start, split_control_path, Move
  <1>1. ProblemShape'
    BY DEF ProblemShape, group
  <1>2. ListShape'
    BY DEF ListShape, ListsAFaces, ListsOrbits, list
  <1>3. FileShape'
    BY DEF FileShape, ListsFinalPaths, list, Content
  <1> QED
    BY <1>1, <1>2, <1>3

\* The invariant of the net: what the list names at each place of the control
\* token, and what is in the files it names.
THEOREM OrbitInvariant == Spec => []OrbitInv
  <1>1. Init => OrbitInv
    <2> SUFFICES ASSUME Init PROVE OrbitInv
      OBVIOUS
    <2> USE DEF Init
    <2>1. ProblemShape
      BY DEF ProblemShape, group
    <2>2. list \in Seq(Range(in_data.afaces)) /\ IsInjective(list)
      <3>1. list \in Seq(AFace) /\ IsInjective(list) /\ list = in_data.afaces
        BY <2>1, ProblemFacts DEF list
      <3> QED
        BY <3>1 DEF Range
    <2>3. ListShape
      BY <2>2 DEF ListShape, ListsAFaces, ListsOrbits
    <2>4. FileShape
      BY DEF FileShape, ListsFinalPaths
    <2> QED
      BY <2>1, <2>3, <2>4 DEF OrbitInv
  <1>2. OrbitInv /\ [Next]_vars => OrbitInv'
    BY MovePreserves, ComputePreserves, IntersectPreserves, ExpandPreserves,
       UniquePreserves, RemoveStructurePreserves, CleanPreserves,
       StutterPreserves
    DEF Next, Finished
  <1> QED
    BY <1>1, <1>2, PTL DEF Spec

\* FilesThere is a part of the invariant, read for each kind of list.
LEMMA FilesThereFollows ==
  ASSUME OrbitInv
  PROVE  FilesThere
  <1>1. CASE ListsAFaces
    <2>1. FilesOf(list) = <<>>
      BY <1>1 DEF FilesOf, ListsAFaces
    <2> QED
      BY <2>1 DEF FilesThere, IsInjective, Range
  <1>2. CASE ListsOrbits
    <2>1. FilesOf(list) = Flattened
      BY <1>2 DEF FilesOf, ListsOrbits, Flattened
    <2> QED
      BY <1>2, <2>1, FlattenedShape DEF FilesThere, Range
  <1>3. CASE ~ ListsAFaces /\ ~ ListsOrbits
    <2>1. FilesOf(list) = list
      BY <1>3 DEF FilesOf, ListsAFaces, ListsOrbits
    <2>2. list \in Seq(DOMAIN cone_files) /\ IsInjective(list)
      BY <1>3 DEF OrbitInv, ListShape
    <2> QED
      BY <2>1, <2>2 DEF FilesThere, Range
  <1> QED
    BY <1>1, <1>2, <1>3

\* For any geometry, group and a-faces, in whatever order workers finish: no
\* two cones of the list share a file, and the files are there as long as the
\* list names them, during and after the removal of intermediate files too.
THEOREM FilesAlwaysThere == Spec => []FilesThere
  BY OrbitInvariant, FilesThereFollows, PTL

-----------------------------------------------------------------------------
(* What tasks leave of a Singular session *)

\* A session that agrees with the symbols still does when a current value is
\* put in.
LEMMA PutAgrees ==
  ASSUME NEW s, NEW symbols, Agrees(s, symbols),
         NEW name \in DOMAIN symbols
  PROVE  /\ Agrees(put(s, name, symbols[name]), symbols)
         /\ name \in DOMAIN put(s, name, symbols[name])
  BY DEF Agrees, put

\* So does one that loads a symbol unless it is there.
LEMMA LoadAgrees ==
  ASSUME NEW s, NEW symbols, Agrees(s, symbols),
         NEW name \in DOMAIN symbols
  PROVE  /\ Agrees(load_ssi_if_not_defined(s, name, symbols[name]), symbols)
         /\ name \in DOMAIN load_ssi_if_not_defined(s, name, symbols[name])
  BY PutAgrees DEF load_ssi_if_not_defined, load_ssi, symbol_exists

\* Symbols that are put in and killed leave nothing behind.
LEMMA ScratchAgrees ==
  ASSUME NEW s, NEW symbols, Agrees(s, symbols), NEW names
  PROVE  Agrees(Scratch(s, names, names), symbols)
  BY DEF Agrees, Scratch, kill

\* The symbols that need no result of another task, and the input data.
InputAgrees(symbols, data) ==
  /\ {IDEAL, TORUS_ACTION, SYMMETRY_GROUP, SYMMETRY_GROUP_ON_CONES}
       \subseteq DOMAIN symbols
  /\ symbols[IDEAL] = data.ideal
  /\ symbols[TORUS_ACTION] = data.Q
  /\ symbols[SYMMETRY_GROUP] =
       IF data.symmetry_group THEN data.group ELSE trivialGroupAction(data.r)
  /\ symbols[SYMMETRY_GROUP_ON_CONES] =
       groupActionOnQImage(symbols[SYMMETRY_GROUP], symbols[TORUS_ACTION])

MovingConeAgrees(symbols, data, file) ==
  /\ MOVING_CONE \in DOMAIN symbols
  /\ symbols[MOVING_CONE] =
       IF data.moving_cone THEN file ELSE coneViaPoints(data.Q)

\* Loading the input and the group.
LEMMA GlobalsAgree ==
  ASSUME NEW s, NEW symbols, NEW data, Agrees(s, symbols),
         InputAgrees(symbols, data)
  PROVE  /\ Agrees(load_ssi_if_not_defined(s, IDEAL, data.ideal), symbols)
         /\ Agrees(loadTorusAction(s, data), symbols)
         /\ TORUS_ACTION \in DOMAIN loadTorusAction(s, data)
         /\ Agrees(loadSymmetryGroup(s, data), symbols)
         /\ SYMMETRY_GROUP \in DOMAIN loadSymmetryGroup(s, data)
         /\ DOMAIN s \subseteq DOMAIN loadSymmetryGroup(s, data)
  <1>1. /\ Agrees(load_ssi_if_not_defined(s, IDEAL, data.ideal), symbols)
        /\ Agrees(loadTorusAction(s, data), symbols)
        /\ TORUS_ACTION \in DOMAIN loadTorusAction(s, data)
    <2>1. IDEAL \in DOMAIN symbols /\ TORUS_ACTION \in DOMAIN symbols
      BY DEF InputAgrees
    <2>2. symbols[IDEAL] = data.ideal /\ symbols[TORUS_ACTION] = data.Q
      BY DEF InputAgrees
    <2> QED
      BY <2>1, <2>2, LoadAgrees DEF loadTorusAction
  <1>2. SYMMETRY_GROUP \in DOMAIN symbols
    BY DEF InputAgrees
  <1> DEFINE sg == symbols[SYMMETRY_GROUP]
  <1>3. loadSymmetryGroup(s, data) =
          IF SYMMETRY_GROUP \in DOMAIN s THEN s ELSE put(s, SYMMETRY_GROUP, sg)
    BY DEF InputAgrees, loadSymmetryGroup, symbol_exists,
           load_ssi_if_not_defined, load_ssi
  <1>4. DOMAIN put(s, SYMMETRY_GROUP, sg) = DOMAIN s \cup {SYMMETRY_GROUP}
    BY DEF put
  <1> QED
    BY <1>1, <1>2, <1>3, <1>4, PutAgrees

\* Loading the group on cones, which is computed from the group.
LEMMA GroupOnConesAgrees ==
  ASSUME NEW s, NEW symbols, NEW data, Agrees(s, symbols),
         InputAgrees(symbols, data)
  PROVE  Agrees(loadSymmetryGroupOnCones(s, data), symbols)
  <1> DEFINE q == loadTorusAction(s, data)
             t == loadSymmetryGroup(q, data)
  <1>1. Agrees(q, symbols) /\ TORUS_ACTION \in DOMAIN q
    BY GlobalsAgree
  <1> HIDE DEF q
  <1>2. /\ Agrees(t, symbols)
        /\ SYMMETRY_GROUP \in DOMAIN t /\ TORUS_ACTION \in DOMAIN t
    BY <1>1, GlobalsAgree
  <1>3. loadSymmetryGroupOnCones(s, data) =
          IF SYMMETRY_GROUP_ON_CONES \in DOMAIN s THEN s
          ELSE put(t, SYMMETRY_GROUP_ON_CONES,
                   groupActionOnQImage(t[SYMMETRY_GROUP], t[TORUS_ACTION]))
    BY DEF loadSymmetryGroupOnCones, symbol_exists, q
  <1> HIDE DEF t
  <1>4. /\ SYMMETRY_GROUP_ON_CONES \in DOMAIN symbols
        /\ groupActionOnQImage(t[SYMMETRY_GROUP], t[TORUS_ACTION]) =
             symbols[SYMMETRY_GROUP_ON_CONES]
    BY <1>2 DEF Agrees, InputAgrees
  <1> QED
    BY <1>2, <1>3, <1>4, PutAgrees

\* Loading or computing the moving cone.
LEMMA MovingConeLoaded ==
  ASSUME NEW s, NEW symbols, NEW data, NEW file, Agrees(s, symbols),
         InputAgrees(symbols, data), MovingConeAgrees(symbols, data, file)
  PROVE  Agrees(loadMovingCone(s, data, file), symbols)
  <1> DEFINE q == loadTorusAction(s, data)
             v == symbols[MOVING_CONE]
  <1>1. Agrees(q, symbols)
    BY GlobalsAgree
  <1>2. MOVING_CONE \in DOMAIN symbols
    BY DEF MovingConeAgrees
  <1>3. \/ loadMovingCone(s, data, file) = s
        \/ loadMovingCone(s, data, file) = put(s, MOVING_CONE, v)
        \/ loadMovingCone(s, data, file) = put(q, MOVING_CONE, v)
    BY DEF loadMovingCone, MovingConeAgrees, load_ssi_if_not_defined, load_ssi,
           symbol_exists
  <1> HIDE DEF q
  <1> QED
    BY <1>1, <1>2, <1>3, PutAgrees

\* The tasks before the traversal.
LEMMA TasksAgree ==
  ASSUME NEW s, NEW symbols, NEW data, Agrees(s, symbols),
         InputAgrees(symbols, data)
  PROVE  /\ Agrees(readAndSetDimensionParameters(s, data), symbols)
         /\ Agrees(findOrbitRepresentatives(s, data), symbols)
         /\ Agrees(computeFullDimAFaces(s, data), symbols)
         /\ Agrees(computeOrbitConeAndWriteSSIFile(s, data), symbols)
         /\ Agrees(ExpandOrbit(s, data), symbols)
  <1> DEFINE q == loadTorusAction(s, data)
             i == load_ssi_if_not_defined(s, IDEAL, data.ideal)
             g == loadSymmetryGroup(s, data)
             h == readGroupActionFromSymbol(g)
             c == computeOrbitConeOrbitWithDuplicatesAndWriteSSIFiles(h, data)
  <1>1. Agrees(q, symbols) /\ Agrees(i, symbols) /\ Agrees(g, symbols)
    BY GlobalsAgree
  <1>2. Agrees(readAndSetDimensionParameters(s, data), symbols)
    BY <1>1, GlobalsAgree DEF readAndSetDimensionParameters
  <1>3. Agrees(findOrbitRepresentatives(s, data), symbols)
    BY <1>1, ScratchAgrees DEF findOrbitRepresentatives
  <1>4. Agrees(computeFullDimAFaces(s, data), symbols)
    <2> HIDE DEF i
    <2>1. Agrees(loadTorusAction(i, data), symbols)
      BY <1>1, GlobalsAgree
    <2> QED
      BY <2>1, ScratchAgrees DEF computeFullDimAFaces, i
  <1>5. Agrees(computeOrbitConeAndWriteSSIFile(s, data), symbols)
    BY <1>1, ScratchAgrees DEF computeOrbitConeAndWriteSSIFile
  <1>6. Agrees(ExpandOrbit(s, data), symbols)
    <2> HIDE DEF g, h, c
    <2>1. Agrees(h, symbols)
      BY <1>1, ScratchAgrees DEF h, readGroupActionFromSymbol
    <2>2. Agrees(loadSymmetryGroupOnCones(h, data), symbols)
      BY <2>1, GroupOnConesAgrees
    <2>3. Agrees(c, symbols)
      BY <2>2, ScratchAgrees
      DEF c, computeOrbitConeOrbitWithDuplicatesAndWriteSSIFiles
    <2> QED
      BY <2>3, ScratchAgrees DEF ExpandOrbit, writeGroupActionToSSIFile, c, h, g
  <1> QED
    BY <1>2, <1>3, <1>4, <1>5, <1>6

\* The tasks that only have scratch symbols.
LEMMA ScratchTasksAgree ==
  ASSUME NEW s, NEW symbols, Agrees(s, symbols)
  PROVE  /\ Agrees(writeTrivialGroupActionToSSIFile(s), symbols)
         /\ Agrees(writeGroupActionToSSIFile(readGroupAction(s)), symbols)
  <1>1. Agrees(readGroupActionFromSymbol(s), symbols)
    BY ScratchAgrees DEF readGroupActionFromSymbol
  <1>2. Agrees(readGroupAction(s), symbols)
    BY <1>1, ScratchAgrees DEF readGroupAction
  <1> QED
    BY <1>2, ScratchAgrees
    DEF writeTrivialGroupActionToSSIFile, writeGroupActionToSSIFile

\* The tasks that need the moving cone, or the orbit cones and the group that
\* permutes them.
LEMMA ConeTasksAgree ==
  ASSUME NEW s, NEW symbols, NEW data, NEW file, Agrees(s, symbols),
         InputAgrees(symbols, data), MovingConeAgrees(symbols, data, file)
  PROVE  /\ Agrees(intersectWithMovingConeAndOverwriteSSIFiles(s, data, file),
                   symbols)
         /\ {ORBIT_CONES, SYMMETRY_GROUP_ON_HASHES} \subseteq DOMAIN symbols =>
              LET cones == symbols[ORBIT_CONES]
                  action == symbols[SYMMETRY_GROUP_ON_HASHES]
              IN  /\ Agrees(computeInitialCone(s, data, file, cones, action),
                            symbols)
                  /\ Agrees(computeNeighbourHashes(s, data, file, cones, action),
                            symbols)
  <1>1. Agrees(intersectWithMovingConeAndOverwriteSSIFiles(s, data, file), symbols)
    BY MovingConeLoaded, ScratchAgrees
    DEF intersectWithMovingConeAndOverwriteSSIFiles
  <1>2. ASSUME {ORBIT_CONES, SYMMETRY_GROUP_ON_HASHES} \subseteq DOMAIN symbols
        PROVE  LET cones == symbols[ORBIT_CONES]
                   action == symbols[SYMMETRY_GROUP_ON_HASHES]
               IN  /\ Agrees(computeInitialCone(s, data, file, cones, action),
                             symbols)
                   /\ Agrees(computeNeighbourHashes(s, data, file, cones, action),
                             symbols)
    <2> DEFINE cones == symbols[ORBIT_CONES]
               action == symbols[SYMMETRY_GROUP_ON_HASHES]
               q == loadTorusAction(s, data)
               t == load_ssi_if_not_defined(q, ORBIT_CONES, cones)
               u == load_ssi_if_not_defined(t, SYMMETRY_GROUP_ON_HASHES, action)
               m == loadMovingCone(s, data, file)
               n == load_ssi_if_not_defined(m, SYMMETRY_GROUP_ON_HASHES, action)
               o == load_ssi_if_not_defined(n, ORBIT_CONES, cones)
    <2>1. ORBIT_CONES \in DOMAIN symbols /\ SYMMETRY_GROUP_ON_HASHES \in DOMAIN symbols
      BY <1>2
    <2>2. computeInitialCone(s, data, file, cones, action) =
            Scratch(loadMovingCone(u, data, file), {"hash"}, {"hash"})
      BY DEF computeInitialCone
    <2>3. computeNeighbourHashes(s, data, file, cones, action) =
            Scratch(o, {"hash", "neighbours"}, {"hash", "neighbours"})
      BY DEF computeNeighbourHashes
    <2> HIDE DEF q, t, u, m, n, o
    <2>4. Agrees(q, symbols) /\ Agrees(m, symbols)
      BY GlobalsAgree, MovingConeLoaded DEF q, m
    <2>5. Agrees(t, symbols) /\ Agrees(n, symbols)
      BY <2>1, <2>4, LoadAgrees DEF t, n
    <2>6. Agrees(u, symbols) /\ Agrees(o, symbols)
      BY <2>1, <2>5, LoadAgrees DEF u, o
    <2>7. Agrees(loadMovingCone(u, data, file), symbols)
      BY <2>6, MovingConeLoaded
    <2> QED
      BY <2>2, <2>3, <2>6, <2>7, ScratchAgrees
  <1> QED
    BY <1>1, <1>2

-----------------------------------------------------------------------------
(* The symbols that may be loaded *)

\* The values of the symbols, one by one.
LEMMA CurrentValues ==
  /\ Current(IDEAL) = in_data.ideal
  /\ Current(TORUS_ACTION) = in_data.Q
  /\ Current(MOVING_CONE) =
       IF in_data.moving_cone THEN moving_cone_file ELSE coneViaPoints(in_data.Q)
  /\ Current(SYMMETRY_GROUP) = group
  /\ Current(SYMMETRY_GROUP_ON_CONES) = groupActionOnQImage(group, in_data.Q)
  /\ Current(SYMMETRY_GROUP_ON_HASHES) = symmetry_group_on_hashes
  /\ Current(ORBIT_CONES) = Contents(list)
  BY DEF Current, IDEAL, TORUS_ACTION, MOVING_CONE, SYMMETRY_GROUP,
         SYMMETRY_GROUP_ON_CONES, SYMMETRY_GROUP_ON_HASHES, ORBIT_CONES

\* What IsThere asks of them.
LEMMA ThereValues ==
  ASSUME NEW v
  PROVE  /\ IsThere(IDEAL, v) /\ IsThere(TORUS_ACTION, v)
         /\ IsThere(SYMMETRY_GROUP, v) /\ IsThere(SYMMETRY_GROUP_ON_CONES, v)
         /\ IsThere(MOVING_CONE, v) = (v # Missing)
         /\ IsThere(SYMMETRY_GROUP_ON_HASHES, v) = (v # <<>>)
         /\ IsThere(ORBIT_CONES, v) = (Missing \notin Range(v))
  BY DEF IsThere, IDEAL, TORUS_ACTION, MOVING_CONE, SYMMETRY_GROUP,
         SYMMETRY_GROUP_ON_CONES, SYMMETRY_GROUP_ON_HASHES, ORBIT_CONES

\* Symbols have different names.
LEMMA DifferentSymbols ==
  /\ {IDEAL, TORUS_ACTION, MOVING_CONE, SYMMETRY_GROUP, SYMMETRY_GROUP_ON_CONES}
       \cap {ORBIT_CONES, SYMMETRY_GROUP_ON_HASHES} = {}
  BY DEF IDEAL, TORUS_ACTION, MOVING_CONE, SYMMETRY_GROUP,
         SYMMETRY_GROUP_ON_CONES, SYMMETRY_GROUP_ON_HASHES, ORBIT_CONES

\* What the assumptions say of the input at hand.
LEMMA DataFacts ==
  ASSUME DataShape
  PROVE  /\ ProblemShape
         /\ in_data.Q = "torus action"
         /\ in_data.moving_cone \in BOOLEAN /\ in_data.symmetry_group \in BOOLEAN
         /\ input_data /\ ~ in_data.symmetry_group =>
              group = trivialGroupAction(in_data.r)
         /\ Precomputed # Missing => Precomputed \in Seq(Cone)
         /\ \/ in_data.precomputed_symmetry_group_on_hashes = Missing
            \/ in_data.precomputed_symmetry_group_on_hashes # <<>>
  <1>1. PICK problem \in Problem, representatives \in BOOLEAN :
          in_data = [InputData(problem) EXCEPT
                       !.r = IF input_data THEN Len(problem.group[1]) ELSE 0,
                       !.simplex_orbit_representatives = representatives]
    BY DEF DataShape
  <1>2. /\ group = problem.group
        /\ in_data.afaces = problem.afaces
        /\ in_data.moving_cone = problem.moving_cone
        /\ in_data.symmetry_group = problem.symmetry_group
        /\ in_data.Q = "torus action"
        /\ in_data.r = IF input_data THEN Len(problem.group[1]) ELSE 0
        /\ Precomputed = problem.precomputed_orbit_cones
        /\ in_data.precomputed_symmetry_group_on_hashes =
             problem.precomputed_symmetry_group_on_hashes
    BY <1>1 DEF InputData, group, Precomputed
  <1>3. /\ problem.moving_cone \in BOOLEAN
        /\ problem.symmetry_group \in BOOLEAN
        /\ ~ problem.symmetry_group =>
             problem.group = trivialGroupAction(Len(problem.group[1]))
        /\ problem.precomputed_orbit_cones \in Seq(Cone) \cup {Missing}
        /\ \/ problem.precomputed_symmetry_group_on_hashes = Missing
           \/ problem.precomputed_symmetry_group_on_hashes # <<>>
    BY ProblemAssumption, WorkflowAssumption
  <1>4. ProblemShape
    BY <1>2 DEF ProblemShape
  <1> QED
    BY <1>2, <1>3, <1>4

\* Once the input is processed, what does not depend on other tasks may be
\* loaded.
LEMMA InputSymbols ==
  DataShape /\ PhaseShape /\ input_data =>
    /\ InputAgrees(Symbols, in_data)
    /\ MovingConeAgrees(Symbols, in_data, moving_cone_file)
  <1> SUFFICES ASSUME DataShape, PhaseShape, input_data
               PROVE  /\ InputAgrees(Symbols, in_data)
                      /\ MovingConeAgrees(Symbols, in_data, moving_cone_file)
    OBVIOUS
  <1>1. {IDEAL, TORUS_ACTION, SYMMETRY_GROUP, SYMMETRY_GROUP_ON_CONES}
          \subseteq Loadable
    BY ThereValues, DifferentSymbols DEF Loadable, Globals
  <1>2. Current(MOVING_CONE) # Missing
    BY CurrentValues, DataFacts, MissingAssumption DEF PhaseShape
  <1>3. MOVING_CONE \in Loadable
    BY <1>2, ThereValues, DifferentSymbols DEF Loadable, Globals
  <1>4. DOMAIN Symbols = Loadable /\ \A n \in Loadable : Symbols[n] = Current(n)
    BY DEF Symbols
  <1>5. group = IF in_data.symmetry_group THEN in_data.group
                ELSE trivialGroupAction(in_data.r)
    BY DataFacts DEF group
  <1>6. InputAgrees(Symbols, in_data)
    BY <1>1, <1>4, <1>5, CurrentValues DEF InputAgrees
  <1>7. MovingConeAgrees(Symbols, in_data, moving_cone_file)
    BY <1>3, <1>4, CurrentValues DEF MovingConeAgrees
  <1> QED
    BY <1>6, <1>7

\* From the start of the traversal on the orbit cones and the group that
\* permutes them may be loaded.
LEMMA TraversalSymbols ==
  ASSUME OrbitInv, PhaseShape, input_data, traverse # "off"
  PROVE  /\ {ORBIT_CONES, SYMMETRY_GROUP_ON_HASHES} \subseteq DOMAIN Symbols
         /\ Symbols[ORBIT_CONES] = Contents(list)
         /\ Symbols[SYMMETRY_GROUP_ON_HASHES] = symmetry_group_on_hashes
  <1>1. control = "finished" /\ symmetry_group_on_hashes # <<>>
    BY DEF PhaseShape, ListsFinalPaths
  <1>2. list \in Seq(DOMAIN cone_files)
    BY <1>1 DEF OrbitInv, ListShape, ListsAFaces, ListsOrbits
  <1>3. ASSUME NEW i \in DOMAIN list PROVE Contents(list)[i] # Missing
    <2>1. list[i] \in DOMAIN cone_files
      BY <1>2
    <2>2. Contents(list)[i] = cone_files[list[i]]
      BY <2>1 DEF Contents, FileContent
    <2>3. cone_files[list[i]] \in Cone
      BY <2>1 DEF OrbitInv, FileShape, Content
    <2> QED
      BY <2>2, <2>3, MissingAssumption
  <1>4. DOMAIN Contents(list) = DOMAIN list
    BY DEF Contents
  <1>5. Missing \notin Range(Contents(list))
    BY <1>3, <1>4 DEF Range
  <1>6. IsThere(ORBIT_CONES, Contents(list))
    BY <1>5, ThereValues
  <1>7. IsThere(SYMMETRY_GROUP_ON_HASHES, symmetry_group_on_hashes)
    BY <1>1, ThereValues
  <1>8. {ORBIT_CONES, SYMMETRY_GROUP_ON_HASHES} \subseteq Loadable
    BY <1>6, <1>7, CurrentValues DEF Loadable, Globals
  <1> QED
    BY <1>8, CurrentValues DEF Symbols

\* No symbol that may have been loaded changes its value.
LEMMA SymbolsKept ==
  ASSUME input_data, input_data',
         UNCHANGED <<in_data, moving_cone_file>>,
         \/ traverse = "off"
         \/ /\ traverse' # "off"
            /\ UNCHANGED <<inout_processed_list, symmetry_group_on_hashes>>
            /\ \A p \in Range(list) : FileContent(p)' = FileContent(p),
         NEW s, Agrees(s, Symbols)
  PROVE  Agrees(s, Symbols')
  <1> DEFINE Late == {ORBIT_CONES, SYMMETRY_GROUP_ON_HASHES}
  <1>1. ASSUME NEW n \in Globals \ Late
        PROVE  Current(n)' = Current(n)
    BY DEF Current, Globals, group
  <1>2. ASSUME traverse # "off", NEW n \in Late
        PROVE  Current(n)' = Current(n)
    <2>1. list' = list /\ symmetry_group_on_hashes' = symmetry_group_on_hashes
      BY <1>2 DEF list
    <2>2. \A i \in DOMAIN list : FileContent(list[i])' = FileContent(list[i])
      BY <1>2, <2>1 DEF Range, FileContent
    <2>3. Contents(list)' = Contents(list)
      BY <2>1, <2>2 DEF Contents, FileContent
    <2> QED
      BY <2>1, <2>3 DEF Current, IDEAL, TORUS_ACTION, MOVING_CONE,
           SYMMETRY_GROUP, SYMMETRY_GROUP_ON_CONES, SYMMETRY_GROUP_ON_HASHES,
           ORBIT_CONES
  <1>3. ASSUME NEW n \in Loadable
        PROVE  n \in Loadable' /\ Current(n)' = Current(n)
    <2>1. n \in Globals /\ (n \in Late => traverse # "off") /\ IsThere(n, Current(n))
      BY DEF Loadable
    <2>2. Current(n)' = Current(n)
      BY <1>1, <1>2, <2>1
    <2>3. IsThere(n, Current(n))'
      BY <2>1, <2>2 DEF IsThere
    <2> QED
      BY <2>1, <2>2, <2>3 DEF Loadable
  <1> QED
    BY <1>3 DEF Agrees, Symbols

-----------------------------------------------------------------------------
(* The steps of the workflow *)

\* The input data stay.
LEMMA DataKept ==
  ASSUME DataShape, UNCHANGED <<in_data, input_data>>
  PROVE  DataShape'
  BY DEF DataShape, InputData

\* Sessions stay valid if tasks leave valid ones on their workers.
LEMMA SessionsKept ==
  ASSUME WorkflowInv, input_data, input_data',
         UNCHANGED <<in_data, moving_cone_file>>,
         \/ traverse = "off"
         \/ /\ traverse' # "off"
            /\ UNCHANGED <<inout_processed_list, symmetry_group_on_hashes>>
            /\ \A p \in Range(list) : FileContent(p)' = FileContent(p),
         DOMAIN session' = Worker,
         \A w \in Worker : \/ session'[w] = session[w]
                           \/ Agrees(session'[w], Symbols)
                           \/ Agrees(session'[w], Symbols')
  PROVE  SessionShape'
  <1>1. \A s : Agrees(s, Symbols) => Agrees(s, Symbols')
    BY SymbolsKept
  <1>2. \A w \in Worker : Agrees(session[w], Symbols)
    BY DEF WorkflowInv, SessionShape
  <1>3. \A w \in Worker : Agrees(session'[w], Symbols')
    BY <1>1, <1>2
  <1> QED
    BY <1>3 DEF SessionShape, Agrees

\* Steps that only move along the control paths, or end the workflow.
LEMMA PathPreserves ==
  ASSUME WorkflowInv,
         UNCHANGED <<orbitVars, input_data, session, moving_cone_file>>,
         traverse' = traverse \/ (control = "finished" /\ traverse' # "off")
  PROVE  WorkflowInv'
  <1> USE DEF WorkflowInv, orbitVars
  <1>1. OrbitInv'
    BY StutterPreserves
  <1>2. DataShape'
    BY DataKept DEF vars
  <1>3. PhaseShape'
    BY DEF PhaseShape, ListsFinalPaths, vars
  <1>4. SessionShape'
    <2>1. CASE input_data
      <3>1. \A p \in Range(list) : FileContent(p)' = FileContent(p)
        BY DEF FileContent, vars
      <3>2. DOMAIN session' = Worker /\ \A w \in Worker : session'[w] = session[w]
        BY DEF SessionShape
      <3> QED
        BY <2>1, <3>1, <3>2, SessionsKept DEF vars
    <2>2. CASE ~ input_data
      <3>1. Loadable = {} /\ Loadable' = {}
        BY <2>2 DEF Loadable
      <3> QED
        BY <3>1 DEF SessionShape, Agrees, Symbols
    <2> QED
      BY <2>1, <2>2
  <1> QED
    BY <1>1, <1>2, <1>3, <1>4

\* Tasks before the traversal on some workers.
LEMMA TakePartPreserves ==
  ASSUME WorkflowInv, OrbitInv', input_data, traverse = "off",
         UNCHANGED in_data, control' # "start",
         ListsFinalPaths' => symmetry_group_on_hashes' # <<>>,
         NEW STATE tasks, NEW STATE after, TakePart(tasks, after),
         \A w \in Worker : Agrees(after[w], Symbols)
  PROVE  WorkflowInv'
  <1> USE DEF WorkflowInv
  <1>1. /\ UNCHANGED <<input_data, moving_cone_file, traverse>>
        /\ DOMAIN session' = Worker
        /\ \A w \in Worker : session'[w] = after[w] \/ session'[w] = session[w]
    BY DEF TakePart, pathVars
  <1>2. DataShape'
    BY <1>1, DataKept
  <1>3. PhaseShape'
    BY <1>1 DEF PhaseShape
  <1>4. SessionShape'
    BY <1>1, SessionsKept
  <1> QED
    BY <1>2, <1>3, <1>4

\* The net orbit_cones_from_afaces, with the tasks of its steps.
LEMMA NetPreserves ==
  ASSUME WorkflowInv, orbit_cones_from_afaces
  PROVE  WorkflowInv'
  <1> USE DEF WorkflowInv
  <1>1. \A w \in Worker : Agrees(session[w], Symbols)
    BY DEF SessionShape
  <1>2. control # "start" => input_data
    BY DEF PhaseShape
  <1>3. control # "finished" => traverse = "off"
    BY DEF PhaseShape
  <1>4. input_data => /\ InputAgrees(Symbols, in_data)
                      /\ MovingConeAgrees(Symbols, in_data, moving_cone_file)
    BY InputSymbols
  <1>5. CASE Start /\ NoTask
    <2>1. OrbitInv'
      BY <1>5, MovePreserves
    <2>2. /\ control = "enabled" /\ control' = "aface_reps_available"
          /\ UNCHANGED in_data
      BY <1>5 DEF Start, Move
    <2> QED
      BY <1>1, <1>2, <1>3, <1>5, <2>1, <2>2, TakePartPreserves
      DEF NoTask, ListsFinalPaths
  <1>6. ASSUME compute_orbit_cones,
               TakePart(list, [w \in Worker |->
                          computeOrbitConeAndWriteSSIFile(session[w], in_data)])
        PROVE  WorkflowInv'
    <2> DEFINE after == [w \in Worker |->
                           computeOrbitConeAndWriteSSIFile(session[w], in_data)]
    <2>1. OrbitInv'
      BY <1>6, ComputePreserves
    <2>2. /\ control = "aface_reps_available"
          /\ control' = "orbit_cone_reps_available"
          /\ UNCHANGED in_data
      BY <1>6, ListStepOrder DEF compute_orbit_cones
    <2>3. \A w \in Worker : Agrees(after[w], Symbols)
      BY <1>1, <1>2, <1>4, <2>2, TasksAgree
    <2> HIDE DEF after
    <2> QED
      BY <1>2, <1>3, <1>6, <2>1, <2>2, <2>3, TakePartPreserves
      DEF after, ListsFinalPaths
  <1>7. ASSUME intersect_with_moving_cone,
               TakePart(IF in_data.moving_cone THEN list ELSE <<>>,
                        [w \in Worker |->
                           intersectWithMovingConeAndOverwriteSSIFiles(
                             session[w], in_data, moving_cone_file)])
        PROVE  WorkflowInv'
    <2> DEFINE after == [w \in Worker |->
                           intersectWithMovingConeAndOverwriteSSIFiles(
                             session[w], in_data, moving_cone_file)]
               tasks == IF in_data.moving_cone THEN list ELSE <<>>
    <2>1. OrbitInv'
      BY <1>7, IntersectPreserves
    <2>2. /\ control = "orbit_cone_reps_available"
          /\ control' = "intersected_orbit_cone_reps_available"
          /\ UNCHANGED in_data
      BY <1>7, ListStepOrder DEF intersect_with_moving_cone
    <2>3. \A w \in Worker : Agrees(after[w], Symbols)
      BY <1>1, <1>2, <1>4, <2>2, ConeTasksAgree
    <2>4. TakePart(tasks, after)
      BY <1>7
    <2> HIDE DEF after, tasks
    <2> QED
      BY <1>2, <1>3, <2>1, <2>2, <2>3, <2>4, TakePartPreserves
      DEF ListsFinalPaths
  <1>8. ASSUME expand_orbit_cone_orbits,
               TakePart(list, [w \in Worker |-> ExpandOrbit(session[w], in_data)])
        PROVE  WorkflowInv'
    <2> DEFINE after == [w \in Worker |-> ExpandOrbit(session[w], in_data)]
    <2>1. OrbitInv'
      BY <1>8, ExpandPreserves
    <2>2. /\ control = "intersected_orbit_cone_reps_available"
          /\ control' = "orbit_cone_orbits_available"
          /\ UNCHANGED in_data
      BY <1>8, ListStepOrder DEF expand_orbit_cone_orbits
    <2>3. \A w \in Worker : Agrees(after[w], Symbols)
      BY <1>1, <1>2, <1>4, <2>2, TasksAgree
    <2>4. TakePart(list, after)
      BY <1>8
    <2> HIDE DEF after
    <2> QED
      BY <1>2, <1>3, <2>1, <2>2, <2>3, <2>4, TakePartPreserves
      DEF ListsFinalPaths
  <1>9. CASE keep_unique_orbit_cones /\ NoTask
    <2>1. OrbitInv'
      BY <1>9, UniquePreserves
    <2>2. /\ control = "orbit_cone_orbits_available"
          /\ control' = "unique_orbit_cone_orbits_available"
          /\ UNCHANGED in_data
      BY <1>9, ListStepOrder DEF keep_unique_orbit_cones
    <2> QED
      BY <1>1, <1>2, <1>3, <1>9, <2>1, <2>2, TakePartPreserves
      DEF NoTask, ListsFinalPaths
  <1>10. ASSUME removeOrbitStructure,
                TakePart(<<"flatten">>,
                         [w \in Worker |-> writeGroupActionToSSIFile(
                                             readGroupAction(session[w]))])
         PROVE  WorkflowInv'
    <2> DEFINE after == [w \in Worker |-> writeGroupActionToSSIFile(
                                            readGroupAction(session[w]))]
    <2>1. OrbitInv'
      BY <1>10, RemoveStructurePreserves
    <2>2. /\ control = "unique_orbit_cone_orbits_available"
          /\ control' = "orbit_cones_available"
          /\ symmetry_group_on_hashes' = GroupActionOnFlattened
          /\ UNCHANGED in_data
      BY <1>10 DEF removeOrbitStructure, Move
    <2>3. GroupActionOnFlattened # <<>>
      <3>1. DOMAIN GroupActionOnFlattened = DOMAIN group
        BY DEF GroupActionOnFlattened
      <3>2. DOMAIN group # {}
        BY ProblemFacts DEF OrbitInv
      <3>3. DOMAIN <<>> = {}
        OBVIOUS
      <3> QED
        BY <3>1, <3>2, <3>3
    <2>4. \A w \in Worker : Agrees(after[w], Symbols)
      BY <1>1, ScratchTasksAgree
    <2>5. TakePart(<<"flatten">>, after)
      BY <1>10
    <2> HIDE DEF after
    <2> QED
      BY <1>2, <1>3, <2>1, <2>2, <2>3, <2>4, <2>5, TakePartPreserves
  <1>11. CASE split_control_path /\ NoTask
    <2>1. OrbitInv'
      BY <1>11, MovePreserves
    <2>2. /\ control = "orbit_cones_available" /\ control' = "finished"
          /\ UNCHANGED <<in_data, symmetry_group_on_hashes>>
      BY <1>11 DEF split_control_path, Move
    <2>3. symmetry_group_on_hashes # <<>>
      BY <2>2 DEF PhaseShape, ListsFinalPaths
    <2> QED
      BY <1>1, <1>2, <1>3, <1>11, <2>1, <2>2, <2>3, TakePartPreserves DEF NoTask
  <1>12. CASE clean /\ NoTask
    <2>1. /\ OrbitInv'
          /\ \A p \in Range(list) :
               /\ p \in DOMAIN cone_files /\ p \in DOMAIN cone_files'
               /\ cone_files'[p] = cone_files[p]
      BY <1>12, CleanPreserves
    <2>2. /\ control = "finished"
          /\ UNCHANGED <<in_data, control, inout_processed_list,
                         symmetry_group_on_hashes>>
      BY <1>12 DEF clean, OrbitInv, FileShape
    <2>3. /\ UNCHANGED <<input_data, moving_cone_file, traverse>>
          /\ DOMAIN session' = Worker
          /\ \A w \in Worker : session'[w] = session[w]
      BY <1>12 DEF NoTask, TakePart, pathVars
    <2>4. \A p \in Range(list) : FileContent(p)' = FileContent(p)
      BY <2>1 DEF FileContent
    <2>5. SessionShape'
      BY <1>2, <2>2, <2>3, <2>4, SessionsKept
    <2>6. DataShape'
      BY <2>2, <2>3, DataKept
    <2>7. PhaseShape'
      BY <2>2, <2>3 DEF PhaseShape, ListsFinalPaths
    <2> QED
      BY <2>1, <2>5, <2>6, <2>7
  <1> QED
    BY <1>5, <1>6, <1>7, <1>8, <1>9, <1>10, <1>11, <1>12
    DEF orbit_cones_from_afaces

\* The net full_dim_afaces.
LEMMA AfacesPreserves ==
  ASSUME WorkflowInv, full_dim_afaces
  PROVE  WorkflowInv'
  <1> USE DEF WorkflowInv
  <1> DEFINE after == [w \in Worker |-> computeFullDimAFaces(session[w], in_data)]
  <1>1. /\ control = "full_dim_afaces_start" /\ control' = "enabled"
        /\ list' = in_data.afaces
        /\ TakePart(<<"batch">>, after)
        /\ UNCHANGED <<in_data, enable_clean, cone_files, symmetry_group_on_hashes>>
    BY DEF full_dim_afaces, Move, list
  <1>2. input_data /\ traverse = "off"
    BY <1>1 DEF PhaseShape
  <1>3. OrbitInv'
    <2>1. ProblemShape'
      BY <1>1 DEF OrbitInv, ProblemShape, group
    <2>2. list' \in Seq(Range(in_data'.afaces)) /\ IsInjective(list')
      <3>1. in_data.afaces \in Seq(AFace) /\ IsInjective(in_data.afaces)
        BY ProblemFacts DEF OrbitInv
      <3>2. in_data.afaces \in Seq(Range(in_data.afaces))
        BY <3>1 DEF Range
      <3> QED
        BY <1>1, <3>1, <3>2
    <2>3. ListShape'
      BY <1>1, <2>2 DEF ListShape, ListsAFaces, ListsOrbits
    <2>4. FileShape'
      BY <1>1 DEF OrbitInv, FileShape, ListsFinalPaths, Content
    <2> QED
      BY <2>1, <2>3, <2>4 DEF OrbitInv
  <1>4. InputAgrees(Symbols, in_data)
    BY <1>2, InputSymbols
  <1>5. \A w \in Worker : Agrees(after[w], Symbols)
    BY <1>4, TasksAgree DEF SessionShape
  <1> HIDE DEF after
  <1> QED
    BY <1>1, <1>2, <1>3, <1>5, TakePartPreserves DEF ListsFinalPaths

\* Without precomputed cones.
LEMMA CheckPreserves ==
  ASSUME WorkflowInv, check_precomputed_orbit_cones
  PROVE  WorkflowInv'
  <1> USE DEF WorkflowInv, check_precomputed_orbit_cones, Move
  <1>1. OrbitInv'
    BY DEF OrbitInv, ProblemShape, group, ListShape, FileShape, ListsAFaces,
           ListsOrbits, ListsFinalPaths, list, Content
  <1>2. DataShape'
    BY DataKept
  <1>3. PhaseShape'
    BY DEF PhaseShape, ListsFinalPaths, pathVars
  <1>4. DOMAIN session' = Worker /\ \A w \in Worker : session'[w] = session[w]
    BY DEF SessionShape
  <1>5. traverse = "off"
    BY DEF PhaseShape
  <1>6. SessionShape'
    BY <1>4, <1>5, SessionsKept
  <1> QED
    BY <1>1, <1>2, <1>3, <1>6

\* With precomputed cones.
LEMMA PrecomputedPreserves ==
  ASSUME WorkflowInv, NEW w \in Worker, processPrecomputedData(w)
  PROVE  WorkflowInv'
  <1> USE DEF WorkflowInv
  <1> DEFINE given == in_data.precomputed_symmetry_group_on_hashes
             paths == {PrecomputedPath(i) : i \in DOMAIN Precomputed}
  <1>1. /\ input_data /\ Precomputed # Missing
        /\ control = "start" /\ control' = "finished"
        /\ list' = [i \in DOMAIN Precomputed |-> PrecomputedPath(i)]
        /\ cone_files' = [p \in paths |-> Precomputed[p.name[2]]]
        /\ symmetry_group_on_hashes' =
             IF given # Missing THEN given
             ELSE trivialGroupAction(Len(Precomputed))
        /\ session' = [session EXCEPT ![w] =
                         IF given # Missing THEN @
                         ELSE writeTrivialGroupActionToSSIFile(@)]
        /\ UNCHANGED <<in_data, input_data, enable_clean, moving_cone_file, traverse>>
    BY DEF processPrecomputedData, Move, list, pathVars
  <1>2. Precomputed \in Seq(Cone)
    BY <1>1, DataFacts
  <1>3. \A i \in DOMAIN Precomputed :
          /\ PrecomputedPath(i).directory = "orbit_cones"
          /\ PrecomputedPath(i).name[2] = i
    BY DEF PrecomputedPath
  <1>4. /\ DOMAIN list' = DOMAIN Precomputed
        /\ \A i \in DOMAIN Precomputed : list'[i] = PrecomputedPath(i)
    BY <1>1
  <1>5. IsInjective(list')
    BY <1>3, <1>4 DEF IsInjective
  <1>6. \A p \in Range(list') : p.directory = "orbit_cones"
    BY <1>3, <1>4 DEF Range
  <1>7. DOMAIN cone_files' = paths /\ \A p \in paths : cone_files'[p] \in Cone
    <2>1. DOMAIN cone_files' = paths
      BY <1>1
    <2>2. ASSUME NEW p \in paths PROVE cone_files'[p] \in Cone
      <3>1. PICK i \in DOMAIN Precomputed : p = PrecomputedPath(i)
        OBVIOUS
      <3>2. cone_files'[p] = Precomputed[p.name[2]]
        BY <1>1
      <3>3. p.name[2] = i /\ Precomputed[i] \in Cone
        BY <1>2, <1>3, <3>1
      <3> QED
        BY <3>2, <3>3
    <2> QED
      BY <2>1, <2>2
  <1>8. \A i \in DOMAIN Precomputed : PrecomputedPath(i) \in paths
    OBVIOUS
  <1> HIDE DEF paths
  <1>9. list' \in Seq(DOMAIN cone_files')
    <2>1. DOMAIN Precomputed = 1..Len(Precomputed) /\ Len(Precomputed) \in Nat
      BY <1>2
    <2> QED
      BY <1>1, <1>7, <1>8, <2>1
  <1>10. ProblemShape'
    BY <1>1 DEF OrbitInv, ProblemShape, group
  <1>11. ListShape'
    BY <1>1, <1>5, <1>9 DEF ListShape, ListsAFaces, ListsOrbits
  <1>12. FileShape'
    BY <1>1, <1>6, <1>7 DEF OrbitInv, FileShape, Content
  <1>13. symmetry_group_on_hashes' # <<>>
    BY <1>1, DataFacts DEF trivialGroupAction
  <1>14. DataShape'
    BY <1>1, DataKept
  <1>15. traverse = "off"
    BY <1>1 DEF PhaseShape
  <1>16. PhaseShape'
    BY <1>1, <1>13, <1>15 DEF PhaseShape
  <1>17. SessionShape'
    <2>1. DOMAIN session = Worker /\ Agrees(session[w], Symbols)
      BY DEF SessionShape
    <2>2. Agrees(writeTrivialGroupActionToSSIFile(session[w]), Symbols)
      BY <2>1, ScratchTasksAgree
    <2>3. /\ DOMAIN session' = Worker
          /\ \A v \in Worker : v # w => session'[v] = session[v]
          /\ session'[w] = IF given # Missing THEN session[w]
                           ELSE writeTrivialGroupActionToSSIFile(session[w])
      BY <1>1, <2>1
    <2>4. \A v \in Worker : session'[v] = session[v] \/ Agrees(session'[v], Symbols)
      BY <2>2, <2>3
    <2> QED
      BY <1>1, <1>15, <2>3, <2>4, SessionsKept
  <1> QED
    BY <1>10, <1>11, <1>12, <1>14, <1>16, <1>17 DEF OrbitInv

\* A task of the traversal.
LEMMA TraversalPreserves ==
  ASSUME WorkflowInv, NEW w \in Worker,
         compute_initial_cone(w) \/ expand_cones(w)
  PROVE  WorkflowInv'
  <1> USE DEF WorkflowInv
  <1> DEFINE initial == computeInitialCone(session[w], in_data, moving_cone_file,
                          Contents(list), symmetry_group_on_hashes)
             expanded == computeNeighbourHashes(session[w], in_data,
                           moving_cone_file, Contents(list),
                           symmetry_group_on_hashes)
  <1>1. /\ traverse # "off" /\ traverse' # "off"
        /\ \/ session' = [session EXCEPT ![w] = session[w]]
           \/ session' = [session EXCEPT ![w] = initial]
           \/ session' = [session EXCEPT ![w] = expanded]
        /\ UNCHANGED <<orbitVars, input_data, moving_cone_file>>
    BY DEF compute_initial_cone, expand_cones, Traverses
  <1>2. control = "finished" /\ input_data
    BY <1>1 DEF PhaseShape
  <1>3. OrbitInv'
    BY <1>1, StutterPreserves DEF orbitVars
  <1>4. DataShape'
    BY <1>1, DataKept DEF orbitVars, vars
  <1>5. PhaseShape'
    BY <1>1, <1>2 DEF PhaseShape, ListsFinalPaths, orbitVars, vars
  <1>6. DOMAIN session = Worker /\ Agrees(session[w], Symbols)
    BY DEF SessionShape
  <1>7. /\ InputAgrees(Symbols, in_data)
        /\ MovingConeAgrees(Symbols, in_data, moving_cone_file)
        /\ {ORBIT_CONES, SYMMETRY_GROUP_ON_HASHES} \subseteq DOMAIN Symbols
        /\ Symbols[ORBIT_CONES] = Contents(list)
        /\ Symbols[SYMMETRY_GROUP_ON_HASHES] = symmetry_group_on_hashes
    BY <1>1, <1>2, InputSymbols, TraversalSymbols
  <1>8. Agrees(initial, Symbols) /\ Agrees(expanded, Symbols)
    BY <1>6, <1>7, ConeTasksAgree
  <1> HIDE DEF initial, expanded
  <1>9. DOMAIN session' = Worker
    BY <1>1, <1>6
  <1>10. \A v \in Worker : session'[v] = session[v] \/ Agrees(session'[v], Symbols)
    BY <1>1, <1>6, <1>8
  <1>11. \A p \in Range(list) : FileContent(p)' = FileContent(p)
    BY <1>1 DEF FileContent, orbitVars, vars
  <1>12. SessionShape'
    BY <1>1, <1>2, <1>9, <1>10, <1>11, SessionsKept DEF orbitVars, vars
  <1> QED
    BY <1>3, <1>4, <1>5, <1>12

\* preprocess_input, the first task.
LEMMA PreprocessPreserves ==
  ASSUME WorkflowInv, NEW w \in Worker, preprocess_input(w)
  PROVE  WorkflowInv'
  <1> USE DEF WorkflowInv
  <1> DEFINE data == [in_data EXCEPT !.r = Len(in_data.group[1])]
             s == readAndSetDimensionParameters(session[w], data)
             computes == data.moving_cone /\ moving_cone_file = Missing
             t == IF computes THEN computeMovingCone(s, data) ELSE s
             finds == data.symmetry_group /\ ~ data.simplex_orbit_representatives
             u == IF finds THEN findOrbitRepresentatives(t, data) ELSE t
  <1>1. /\ ~ input_data /\ input_data'
        /\ in_data' = [data EXCEPT !.simplex_orbit_representatives = @ \/ finds]
        /\ moving_cone_file' =
             IF computes THEN movingCone(data.Q) ELSE moving_cone_file
        /\ session' = [session EXCEPT ![w] = u]
        /\ UNCHANGED <<control, enable_clean, inout_processed_list, cone_files,
                       symmetry_group_on_hashes, traverse>>
    BY DEF preprocess_input, pathVars
  <1>2. PICK problem \in Problem, representatives \in BOOLEAN :
          in_data = [InputData(problem) EXCEPT
                       !.r = 0, !.simplex_orbit_representatives = representatives]
    BY <1>1 DEF DataShape
  <1>3. DataShape'
    <2> DEFINE b == representatives \/ finds
    <2>1. in_data' = [InputData(problem) EXCEPT
                        !.r = Len(problem.group[1]),
                        !.simplex_orbit_representatives = b]
      BY <1>1, <1>2 DEF InputData
    <2>2. b \in BOOLEAN
      OBVIOUS
    <2> HIDE DEF b
    <2> QED
      BY <1>1, <2>1, <2>2 DEF DataShape, InputData
  <1>4. /\ data.group = group /\ data.Q = "torus action"
        /\ in_data'.ideal = data.ideal
        /\ in_data'.Q = data.Q
        /\ in_data'.group = data.group
        /\ in_data'.symmetry_group = data.symmetry_group
        /\ in_data'.r = data.r
        /\ in_data'.moving_cone = data.moving_cone
        /\ in_data'.moving_cone = in_data.moving_cone
        /\ in_data'.afaces = in_data.afaces
        /\ in_data'.group = in_data.group
    BY <1>1, <1>2 DEF InputData, group
  <1>5. control = "start"
    BY <1>1 DEF PhaseShape
  <1>6. OrbitInv'
    <2>1. ProblemShape'
      BY <1>4 DEF OrbitInv, ProblemShape, group
    <2>2. ListShape' /\ FileShape'
      BY <1>1, <1>5 DEF OrbitInv, ListShape, FileShape, ListsAFaces, ListsOrbits,
                        ListsFinalPaths, list, Content
    <2> QED
      BY <2>1, <2>2 DEF OrbitInv
  <1>7. PhaseShape'
    <2>1. in_data'.moving_cone => moving_cone_file' # Missing
      BY <1>1, <1>4, MissingAssumption
    <2>2. traverse = "off"
      BY <1>5 DEF PhaseShape
    <2> QED
      BY <1>1, <1>5, <2>1, <2>2 DEF PhaseShape, ListsFinalPaths
  <1>8. /\ InputAgrees(Symbols', in_data')
        /\ MovingConeAgrees(Symbols', in_data', moving_cone_file')
    <2>1. (DataShape /\ PhaseShape /\ input_data =>
             /\ InputAgrees(Symbols, in_data)
             /\ MovingConeAgrees(Symbols, in_data, moving_cone_file))'
      BY InputSymbols, PTL
    <2> QED
      BY <1>1, <1>3, <1>7, <2>1 DEF InputAgrees, MovingConeAgrees
  <1>9. InputAgrees(Symbols', data)
    BY <1>4, <1>8 DEF InputAgrees
  <1>10. \A v \in Worker : Agrees(session[v], Symbols')
    <2>1. Loadable = {}
      BY <1>1 DEF Loadable
    <2> QED
      BY <2>1 DEF SessionShape, Agrees, Symbols
  <1>11. Agrees(u, Symbols')
    <2> HIDE DEF data, s, t, u, finds
    <2>1. Agrees(s, Symbols')
      BY <1>9, <1>10, TasksAgree DEF s
    <2>2. Agrees(t, Symbols')
      <3>1. CASE computes
        <4>1. Agrees(loadTorusAction(s, data), Symbols')
          BY <1>9, <2>1, GlobalsAgree
        <4>2. MOVING_CONE \in DOMAIN Symbols' /\ Symbols'[MOVING_CONE] = movingCone(data.Q)
          BY <1>1, <1>4, <1>8, <3>1 DEF MovingConeAgrees
        <4>3. t = put(loadTorusAction(s, data), MOVING_CONE, movingCone(data.Q))
          BY <3>1 DEF t, computeMovingCone
        <4> QED
          BY <4>1, <4>2, <4>3, PutAgrees
      <3>2. CASE ~ computes
        BY <2>1, <3>2 DEF t
      <3> QED
        BY <3>1, <3>2
    <2> QED
      BY <1>9, <2>2, TasksAgree DEF u
  <1>12. SessionShape'
    <2> HIDE DEF u
    <2>1. DOMAIN session = Worker
      BY DEF SessionShape
    <2>2. /\ DOMAIN session' = Worker
          /\ \A v \in Worker : Agrees(session'[v], Symbols')
      BY <1>1, <1>10, <1>11, <2>1
    <2> QED
      BY <2>2 DEF SessionShape, Agrees
  <1> QED
    BY <1>3, <1>6, <1>7, <1>12

-----------------------------------------------------------------------------
(* The results *)

\* The input data before anything is added.
LEMMA InputDataShape ==
  ASSUME NEW problem
  PROVE  InputData(problem) =
           [InputData(problem) EXCEPT
              !.r = 0, !.simplex_orbit_representatives =
                         problem.simplex_orbit_representatives]
  <1> DEFINE d == InputData(problem)
             e == [d EXCEPT !.r = 0, !.simplex_orbit_representatives =
                                       problem.simplex_orbit_representatives]
  <1>1. d.r = 0 /\ d.simplex_orbit_representatives =
                    problem.simplex_orbit_representatives
    BY DEF InputData
  <1>2. DOMAIN e = DOMAIN d
    BY DEF InputData
  <1>3. \A x \in DOMAIN d : e[x] = d[x]
    <2> HIDE DEF d
    <2> QED
      BY <1>1
  <1>4. d = [x \in DOMAIN d |-> d[x]]
    BY DEF InputData
  <1>5. e = [x \in DOMAIN d |-> e[x]]
    OBVIOUS
  <1> HIDE DEF d, e
  <1>6. d = e
    BY <1>3, <1>4, <1>5
  <1> QED
    BY <1>6 DEF d, e

\* The invariant of the whole computation: in which order files come to be, and
\* what the sessions of workers have of them.
THEOREM WorkflowInvariant == WorkflowSpec => []WorkflowInv
  <1>1. WorkflowInit => WorkflowInv
    <2> SUFFICES ASSUME WorkflowInit PROVE WorkflowInv
      OBVIOUS
    <2> USE DEF WorkflowInit
    <2>1. DataShape
      <3>1. PICK problem \in Problem : in_data = InputData(problem)
        OBVIOUS
      <3>2. problem.simplex_orbit_representatives \in BOOLEAN
        BY WorkflowAssumption
      <3>3. ~ input_data
        OBVIOUS
      <3>4. in_data = [InputData(problem) EXCEPT
                         !.r = 0, !.simplex_orbit_representatives =
                                    problem.simplex_orbit_representatives]
        BY <3>1, InputDataShape
      <3>5. in_data = [InputData(problem) EXCEPT
                         !.r = IF input_data THEN Len(problem.group[1]) ELSE 0,
                         !.simplex_orbit_representatives =
                           problem.simplex_orbit_representatives]
        BY <3>3, <3>4
      <3> QED
        BY <3>2, <3>5 DEF DataShape
    <2>2. ProblemShape
      BY <2>1, DataFacts
    <2>3. ListShape
      BY DEF ListShape, ListsAFaces, ListsOrbits, list, IsInjective
    <2>4. FileShape
      BY DEF FileShape, ListsFinalPaths
    <2>5. PhaseShape
      BY DEF PhaseShape, ListsFinalPaths
    <2>6. SessionShape
      BY DEF SessionShape, Agrees, NoSymbols
    <2> QED
      BY <2>1, <2>2, <2>3, <2>4, <2>5, <2>6 DEF WorkflowInv, OrbitInv
  <1>2. WorkflowInv /\ [WorkflowNext]_workflowVars => WorkflowInv'
    <2> SUFFICES ASSUME WorkflowInv, [WorkflowNext]_workflowVars
                 PROVE  WorkflowInv'
      OBVIOUS
    <2>1. CASE \/ Throw \/ SplitPath \/ BeginOrder \/ EndOrder \/ EndTraversal
               \/ outputGitCones \/ outputLoadGitConesSingularFile
               \/ EndLoadFile \/ JoinPaths
               \/ UNCHANGED workflowVars
      <3>1. /\ UNCHANGED <<orbitVars, input_data, session, moving_cone_file>>
            /\ traverse' = traverse \/ (control = "finished" /\ traverse' # "off")
        <4>1. CASE EndTraversal
          <5>1. traverse = "running" /\ traverse' = "end"
            BY <4>1 DEF EndTraversal
          <5>2. control = "finished"
            BY <5>1 DEF WorkflowInv, PhaseShape
          <5> QED
            BY <4>1, <5>1, <5>2 DEF EndTraversal
        <4>2. CASE ~ EndTraversal
          BY <2>1, <4>2
          DEF Throw, SplitPath, BeginOrder, EndOrder, outputGitCones,
              outputLoadGitConesSingularFile, EndLoadFile, JoinPaths,
              workflowVars, pathVars
        <4> QED
          BY <4>1, <4>2
      <3> QED
        BY <3>1, PathPreserves
    <2>2. CASE \E w \in Worker : \/ preprocess_input(w)
                                 \/ processPrecomputedData(w)
                                 \/ compute_initial_cone(w)
                                 \/ expand_cones(w)
      BY <2>2, PreprocessPreserves, PrecomputedPreserves, TraversalPreserves
    <2>3. CASE \/ check_precomputed_orbit_cones \/ full_dim_afaces
               \/ orbit_cones_from_afaces
      BY <2>3, CheckPreserves, AfacesPreserves, NetPreserves
    <2> QED
      BY <2>1, <2>2, <2>3 DEF WorkflowNext, Step
  <1> QED
    BY <1>1, <1>2, PTL DEF WorkflowSpec

\* However the tasks are spread over the workers, and whatever options are
\* given: a symbol that a session keeps from an earlier task is what loading it
\* again would give, none was loaded before the files were there that make it,
\* and no task leaves scratch symbols.
THEOREM SymbolsAlwaysCurrent == WorkflowSpec => []SymbolsCurrent
  <1>1. WorkflowInv => SymbolsCurrent
    <2> SUFFICES ASSUME WorkflowInv, NEW w \in Worker, NEW name \in DOMAIN session[w]
                 PROVE  /\ name \in Globals
                        /\ session[w][name] = Current(name)
                        /\ IsThere(name, session[w][name])
      BY DEF SymbolsCurrent
    <2>1. name \in Loadable /\ session[w][name] = Current(name)
      BY DEF WorkflowInv, SessionShape, Agrees, Symbols
    <2> QED
      BY <2>1 DEF Loadable
  <1> QED
    BY <1>1, WorkflowInvariant, PTL

\* In the whole computation too, with precomputed orbit cones or not, the list
\* names files that are there, each of them once.
THEOREM WorkflowFilesThere == WorkflowSpec => []FilesThere
  <1>1. WorkflowInv => FilesThere
    BY FilesThereFollows DEF WorkflowInv
  <1> QED
    BY <1>1, WorkflowInvariant, PTL

-----------------------------------------------------------------------------
(* The results *)

\* How many elements FlattenSeq() puts out depends only on the lengths of the
\* sequences.
LEMMA FlattenLength ==
  ASSUME NEW S, NEW ss \in Seq(Seq(S)), NEW tt \in Seq(Seq(S)),
         Len(ss) = Len(tt),
         \A n \in DOMAIN ss : DOMAIN ss[n] = DOMAIN tt[n]
  PROVE  DOMAIN FlattenSeq(ss) = DOMAIN FlattenSeq(tt)
  <1>1. /\ DOMAIN ss = 1..Len(ss) /\ Len(ss) \in Nat
        /\ DOMAIN tt = 1..Len(ss)
    OBVIOUS
  <1>2. \A n \in 1..Len(ss) : ss[n] \in Seq(S) /\ tt[n] \in Seq(S)
    BY <1>1
  <1>3. CASE Len(ss) = 0
    <2>1. FlattenSeq(ss) = <<>>
      BY <1>3 DEF FlattenSeq
    <2>2. FlattenSeq(tt) = <<>>
      <3>1. Len(tt) = 0
        BY <1>3
      <3> QED
        BY <3>1 DEF FlattenSeq
    <2> QED
      BY <2>1, <2>2
  <1>4. CASE Len(ss) # 0
    <2>1. PICK f : /\ FlattenSeq(ss) = f[Len(ss)]
                   /\ f[1] = ss[1]
                   /\ \A i \in 2..Len(ss) : f[i] = f[i - 1] \o ss[i]
      BY <1>4, FlattenRecursion, Zenon
    <2>2. PICK g : /\ FlattenSeq(tt) = g[Len(ss)]
                   /\ g[1] = tt[1]
                   /\ \A i \in 2..Len(ss) : g[i] = g[i - 1] \o tt[i]
      <3>1. Len(tt) # 0
        BY <1>4
      <3>2. \E g : /\ FlattenSeq(tt) = g[Len(tt)]
                  /\ g[1] = tt[1]
                  /\ \A i \in 2..Len(tt) : g[i] = g[i - 1] \o tt[i]
        BY <3>1, FlattenRecursion, Zenon
      <3> QED
        BY <3>2, Zenon
    <2> DEFINE Same(t, u) == t \in Seq(S) /\ u \in Seq(S) /\ Len(t) = Len(u)
               P == {k \in Nat : k = 0 \/ Same(f[k], g[k])}
    <2>3. \A n \in 1..Len(ss) : Same(ss[n], tt[n])
      <3> SUFFICES ASSUME NEW n \in 1..Len(ss) PROVE Same(ss[n], tt[n])
        OBVIOUS
      <3>1. ss[n] \in Seq(S) /\ tt[n] \in Seq(S) /\ DOMAIN ss[n] = DOMAIN tt[n]
        BY <1>1, <1>2
      <3> QED
        BY <3>1
    <2>4. 0 \in P
      OBVIOUS
    <2>5. 1 \in P
      <3>1. 1 \in 1..Len(ss)
        BY <1>1, <1>4
      <3>2. Same(f[1], g[1])
        BY <2>1, <2>2, <2>3, <3>1
      <3> QED
        BY <3>2
    <2>6. ASSUME NEW k \in 0 .. Len(ss) - 1, k \in P, k # 0
          PROVE  k + 1 \in P
      <3>1. k + 1 \in 1..Len(ss) /\ k + 1 \in 2..Len(ss) /\ k \in Nat
            /\ (k + 1) - 1 = k /\ k + 1 \in Nat
        BY <1>1, <2>6
      <3>2. f[k + 1] = f[k] \o ss[k + 1] /\ g[k + 1] = g[k] \o tt[k + 1]
        BY <2>1, <2>2, <3>1
      <3>3. Same(f[k], g[k]) /\ Same(ss[k + 1], tt[k + 1])
        BY <2>3, <2>6, <3>1
      <3> DEFINE a == f[k]
                 b == g[k]
                 c == ss[k + 1]
                 d == tt[k + 1]
      <3>4. Same(a, b) /\ Same(c, d)
        BY <3>3
      <3> HIDE DEF a, b, c, d
      <3>5. Same(a \o c, b \o d)
        <4>1. a \o c \in Seq(S) /\ Len(a \o c) = Len(a) + Len(c)
          BY <3>4, ConcatLength, Zenon
        <4>2. b \o d \in Seq(S) /\ Len(b \o d) = Len(b) + Len(d)
          BY <3>4, ConcatLength, Zenon
        <4>3. Len(a \o c) = Len(b \o d)
          BY <3>4, <4>1, <4>2
        <4> QED
          BY <4>1, <4>2, <4>3, Zenon
      <3> HIDE DEF Same
      <3>6. Same(f[k + 1], g[k + 1])
        BY <3>2, <3>5 DEF a, b, c, d
      <3> QED
        BY <3>1, <3>6
    <2>7. Len(ss) \in P
      <3> HIDE DEF P
      <3>1. \A k \in 0 .. Len(ss) - 1 : k \in P => k + 1 \in P
        BY <2>5, <2>6
      <3>2. \A k \in 0..Len(ss) : k \in P
        BY <1>1, <2>4, <3>1, BoundedInduction
      <3> QED
        BY <1>1, <3>2
    <2>8. Same(FlattenSeq(ss), FlattenSeq(tt))
      BY <1>4, <2>1, <2>2, <2>7
    <2> QED
      BY <2>8
  <1> QED
    BY <1>3, <1>4

\* The group on the cones of all orbits permutes as many numbers as there are
\* cones.
LEMMA GroupOnAllCones ==
  ASSUME OrbitInv, ListsOrbits, NEW p \in DOMAIN group
  PROVE  DOMAIN GroupActionOnFlattened[p] = DOMAIN Flattened
  <1> DEFINE T == [elements : Seq(DOMAIN cone_files), group_action : Nat]
             shifted(n) == [e \in DOMAIN list[n].elements |->
                              action_files[list[n].group_action][p][e] + Shift(n)]
             ss == [n \in DOMAIN list |-> list[n].elements]
             tt == [n \in DOMAIN list |-> shifted(n)]
             V == UNION {{shifted(n)[e] : e \in DOMAIN list[n].elements} :
                           n \in DOMAIN list}
             U == V \cup DOMAIN cone_files
  <1>1. list \in Seq(T)
    BY DEF OrbitInv, ListShape
  <1>2. \A n \in DOMAIN list : list[n].elements \in Seq(DOMAIN cone_files)
    <2>1. \A n \in DOMAIN list : list[n] \in T
      <3> HIDE DEF T
      <3> QED
        BY <1>1
    <2> QED
      BY <2>1
  <1>3. DOMAIN list = 1..Len(list) /\ Len(list) \in Nat
    <2> HIDE DEF T
    <2> QED
      BY <1>1
  <1>4. ss \in Seq(Seq(U)) /\ Len(ss) = Len(list)
    <2>1. \A n \in DOMAIN list : list[n].elements \in Seq(U)
      <3> HIDE DEF V
      <3> QED
        BY <1>2
    <2> HIDE DEF U
    <2> QED
      BY <1>3, <2>1
  <1>5. ASSUME NEW n \in DOMAIN list
        PROVE  shifted(n) \in Seq(V) /\ DOMAIN shifted(n) = DOMAIN list[n].elements
    <2>1. \A e \in DOMAIN list[n].elements : shifted(n)[e] \in V
      <3> HIDE DEF shifted
      <3> QED
        OBVIOUS
    <2>2. DOMAIN shifted(n) = DOMAIN list[n].elements
      OBVIOUS
    <2>3. shifted(n) = [e \in DOMAIN list[n].elements |-> shifted(n)[e]]
      OBVIOUS
    <2>4. PICK l \in Nat : DOMAIN list[n].elements = 1..l
      BY <1>2
    <2> HIDE DEF V, shifted
    <2> QED
      BY <2>1, <2>2, <2>3, <2>4
  <1>6. GroupActionOnFlattened[p] = FlattenSeq(tt)
    BY DEF GroupActionOnFlattened
  <1>7. Flattened = FlattenSeq(ss)
    BY DEF Flattened
  <1>8. tt \in Seq(Seq(U)) /\ Len(tt) = Len(list)
    <2>1. \A n \in DOMAIN list : shifted(n) \in Seq(U)
      <3> HIDE DEF V, shifted
      <3> QED
        BY <1>5
    <2> HIDE DEF U, shifted
    <2> QED
      BY <1>3, <2>1
  <1>9. \A n \in DOMAIN ss : DOMAIN ss[n] = DOMAIN tt[n]
    <2> HIDE DEF shifted
    <2> QED
      BY <1>5
  <1> HIDE DEF U, ss, tt
  <1> QED
    BY <1>4, <1>6, <1>7, <1>8, <1>9, FlattenLength

\* Where control is finished or the list has its final paths, list and group
\* are no longer changed.
LEMMA ConesKept ==
  ASSUME ConesShape, ListsFinalPaths,
         UNCHANGED <<inout_processed_list, symmetry_group_on_hashes>>
  PROVE  ConesShape'
  BY DEF ConesShape, list

\* The net of the orbit cones ends with their files and with a group on them.
LEMMA NetCones ==
  ASSUME OrbitInv, ConesShape, Next
  PROVE  ConesShape'
  <1>1. CASE \/ Start \/ compute_orbit_cones \/ intersect_with_moving_cone
             \/ expand_orbit_cone_orbits \/ keep_unique_orbit_cones
    BY <1>1 DEF Start, compute_orbit_cones, intersect_with_moving_cone,
         expand_orbit_cone_orbits, keep_unique_orbit_cones, ListStep, Move,
         ConesShape, ListsFinalPaths
  <1>2. ASSUME removeOrbitStructure PROVE ConesShape'
    <2>1. /\ ListsOrbits
          /\ list' = [i \in DOMAIN Flattened |-> FinalPath(Flattened[i])]
          /\ symmetry_group_on_hashes' = GroupActionOnFlattened
      BY <1>2 DEF removeOrbitStructure, Move, list, ListsOrbits
    <2>2. \A p \in Range(Flattened) :
            \E n \in Nat : \E i \in DOMAIN group : p = OrbitPath(n, i)
      BY <2>1, FlattenedShape
    <2>3. ASSUME NEW i \in DOMAIN Flattened
          PROVE  list'[i] = [directory |-> "orbit_cones", aface |-> <<>>,
                             name |-> list'[i].name]
      <3>1. list'[i] = FinalPath(Flattened[i])
        BY <2>1
      <3>2. PICK n \in Nat : \E j \in DOMAIN group : Flattened[i] = OrbitPath(n, j)
        BY <2>2 DEF Range
      <3>3. PICK j \in DOMAIN group : Flattened[i] = OrbitPath(n, j)
        BY <3>2
      <3>4. FinalPath(OrbitPath(n, j)) =
              [directory |-> "orbit_cones", aface |-> <<>>, name |-> <<n, j>>]
        BY DEF FinalPath, OrbitPath
      <3> QED
        BY <3>1, <3>3, <3>4
    <2>4. DOMAIN GroupActionOnFlattened = DOMAIN group
      BY DEF GroupActionOnFlattened
    <2>5. \A p \in DOMAIN group :
            DOMAIN GroupActionOnFlattened[p] = DOMAIN Flattened
      BY <2>1, GroupOnAllCones
    <2>6. DOMAIN list' = DOMAIN Flattened
      BY <2>1
    <2> QED
      BY <2>1, <2>3, <2>4, <2>5, <2>6 DEF ConesShape
  <1>3. ASSUME split_control_path \/ clean \/ Finished PROVE ConesShape'
    BY <1>3 DEF split_control_path, clean, Finished, Move, vars, ConesShape,
         ListsFinalPaths, list
  <1> QED
    BY <1>1, <1>2, <1>3 DEF Next

\* Precomputed cones and the group that comes with them, or the trivial one.
LEMMA PrecomputedCones ==
  ASSUME DataShape, NEW w \in Worker, processPrecomputedData(w)
  PROVE  ConesShape'
  <1> DEFINE given == in_data.precomputed_symmetry_group_on_hashes
  <1>1. /\ Precomputed # Missing
        /\ list' = [i \in DOMAIN Precomputed |-> PrecomputedPath(i)]
        /\ symmetry_group_on_hashes' =
             IF given # Missing THEN given
             ELSE trivialGroupAction(Len(Precomputed))
    BY DEF processPrecomputedData, list
  <1>2. PICK problem \in Problem :
          /\ given = problem.precomputed_symmetry_group_on_hashes
          /\ Precomputed = problem.precomputed_orbit_cones
    BY DEF DataShape, InputData, Precomputed
  <1>3. Precomputed \in Seq(Cone)
    BY <1>1, <1>2, WorkflowAssumption
  <1>4. DOMAIN list' = DOMAIN Precomputed
    BY <1>1
  <1>5. \A i \in DOMAIN list' :
          list'[i] = [directory |-> "orbit_cones", aface |-> <<>>,
                      name |-> list'[i].name]
    BY <1>1 DEF PrecomputedPath
  <1>6. ASSUME given # Missing, NEW p \in DOMAIN given
        PROVE  DOMAIN given[p] = DOMAIN Precomputed
    <2>1. \A q \in Range(given) : DOMAIN q = DOMAIN Precomputed
      BY <1>1, <1>2, <1>6, WorkflowAssumption
    <2> QED
      BY <2>1 DEF Range
  <1>7. ASSUME list' # <<>>, NEW p \in DOMAIN trivialGroupAction(Len(Precomputed))
        PROVE  DOMAIN trivialGroupAction(Len(Precomputed))[p] = DOMAIN Precomputed
    <2>1. Len(Precomputed) \in Nat /\ DOMAIN Precomputed = 1..Len(Precomputed)
      BY <1>3
    <2>2. DOMAIN Precomputed # {}
      BY <1>1, <1>3, <1>7
    <2>3. Len(Precomputed) # 0
      BY <2>1, <2>2
    <2>4. trivialGroupAction(Len(Precomputed)) =
            <<[i \in 1..Len(Precomputed) |-> i]>>
      BY <2>3 DEF trivialGroupAction
    <2> QED
      BY <1>7, <2>1, <2>4
  <1> QED
    BY <1>1, <1>4, <1>5, <1>6, <1>7 DEF ConesShape

\* What is on the disk of lines that were written in order.
LEMMA BeginningShape ==
  ASSUME NEW lines, NEW b \in Beginnings(lines), Len(lines) \in Nat
  PROVE  /\ DOMAIN b \subseteq 1..Len(lines)
         /\ \A i \in DOMAIN b : b[i] = CutOff \/ b[i] = lines[i]
  <1>1. PICK n \in 0..Len(lines), half \in BOOLEAN :
          b = [i \in 1..n |-> IF i = n /\ half THEN CutOff ELSE lines[i]]
    BY DEF Beginnings
  <1>2. DOMAIN b = 1..n
    BY <1>1
  <1>3. \A i \in 1..n : b[i] = CutOff \/ b[i] = lines[i]
    BY <1>1
  <1> QED
    BY <1>2, <1>3

\* What is on the disk of the file that loads the cones.
LEMMA LoadFileShape ==
  ASSUME NEW S, NEW l \in Seq(S), NEW cones, NEW f \in LoadFiles(l, cones)
  PROVE  /\ DOMAIN f.orbit_cones \subseteq DOMAIN l
         /\ \A i \in DOMAIN f.orbit_cones : f.orbit_cones[i] = l[i]
         /\ f.git_cones # {} \/ f.commands => f.orbit_cones = l
         /\ f.commands => f.git_cones = cones
  <1>1. CASE \E n \in 0..Len(l) : f = LoadFile(SubSeq(l, 1, n), {}, FALSE)
    <2>1. PICK n \in 0..Len(l) : f = LoadFile(SubSeq(l, 1, n), {}, FALSE)
      BY <1>1
    <2>2. /\ f.orbit_cones = SubSeq(l, 1, n)
          /\ f.git_cones = {} /\ f.commands = FALSE
      BY <2>1 DEF LoadFile
    <2>3. /\ DOMAIN SubSeq(l, 1, n) = 1..n
          /\ \A i \in 1..n : SubSeq(l, 1, n)[i] = l[i]
      OBVIOUS
    <2>4. 1..n \subseteq DOMAIN l
      OBVIOUS
    <2> QED
      BY <2>2, <2>3, <2>4
  <1>2. CASE \E T \in SUBSET cones : f = LoadFile(l, T, FALSE)
    BY <1>2 DEF LoadFile
  <1>3. CASE f = LoadFile(l, cones, TRUE)
    BY <1>3 DEF LoadFile
  <1> QED
    BY <1>1, <1>2, <1>3 DEF LoadFiles, PartsOfLoadFile

\* The file that loads the cones begins with the same lines whatever cones are
\* saved.
LEMMA PartsOfAny ==
  ASSUME NEW l, NEW cones
  PROVE  /\ PartsOfLoadFile(l, {}) \subseteq LoadFiles(l, cones)
         /\ PartsOfLoadFile(l, cones) \subseteq LoadFiles(l, cones)
  <1>1. {} \in SUBSET cones
    OBVIOUS
  <1> QED
    BY <1>1 DEF LoadFiles, PartsOfLoadFile

\* The results stay what they are while no task writes them.
LEMMA ResultsKept ==
  ASSUME ResultShape, list' = list, UNCHANGED <<order, output, resultVars>>,
         output # "off" => found' = found
  PROVE  ResultShape'
  <1>1. LoadFiles(list, git_cones_file)' = LoadFiles(list, git_cones_file)
    BY DEF LoadFiles, PartsOfLoadFile, LoadFile, resultVars
  <1>2. outputOrbitConesOrder(list)' = outputOrbitConesOrder(list)
    BY DEF outputOrbitConesOrder, FileName
  <1>3. Beginnings(outputOrbitConesOrder(list))' =
          Beginnings(outputOrbitConesOrder(list))
    BY <1>2 DEF Beginnings
  <1> QED
    BY <1>1, <1>2, <1>3 DEF ResultShape, resultVars

\* Before the traversal no step touches the fan or the results.
LEMMA ResultsNotStarted ==
  ASSUME PhaseShape, FanShape, ResultShape, control # "finished",
         UNCHANGED <<fanVars, pathVars, resultVars, outcome>>
  PROVE  FanShape' /\ ResultShape'
  <1> USE DEF fanVars, pathVars, resultVars
  <1>1. traverse = "off"
    BY DEF PhaseShape
  <1>2. order = "off" /\ output = "off" /\ found = {} /\ outcome # "returned"
    BY <1>1 DEF FanShape
  <1>3. load_file = Missing
    BY <1>2 DEF ResultShape
  <1>4. FanShape'
    BY <1>1, <1>2 DEF FanShape
  <1>5. ResultShape'
    BY <1>2, <1>3 DEF ResultShape
  <1> QED
    BY <1>4, <1>5

\* From then on the list stays as it is.
LEMMA FanKept ==
  ASSUME FanShape, list' = list, UNCHANGED <<fanVars, pathVars>>,
         outcome' = outcome \/ outcome' # "returned"
  PROVE  FanShape'
  BY DEF FanShape, fanVars, pathVars, Fan!Frontier

\* Finding a cone while the traversal runs.
LEMMA FindKeeps ==
  ASSUME FanShape, traverse # "end", traverse' \notin {"off", "end"},
         list # <<>>, list' = list, UNCHANGED <<order, output, outcome>>,
         \/ UNCHANGED fanVars
         \/ \E c \in GitCone : Fan!Find(c)
  PROVE  FanShape' /\ output = "off"
  <1>1. found' \subseteq GitCone
    BY DEF FanShape, fanVars, Fan!Find
  <1>2. output = "off"
    BY DEF FanShape
  <1> QED
    BY <1>1, <1>2 DEF FanShape

\* A step of the two control paths and the fan.
LEMMA FanPreserved ==
  ASSUME PhaseShape, FanShape, list' = list,
         \/ SplitPath \/ BeginOrder \/ EndOrder \/ EndTraversal
         \/ outputGitCones \/ outputLoadGitConesSingularFile
         \/ EndLoadFile \/ JoinPaths
  PROVE  FanShape'
  <1> USE DEF FanShape, fanVars, pathVars
  <1>1. CASE SplitPath \/ BeginOrder \/ EndOrder
    BY <1>1 DEF SplitPath, BeginOrder, EndOrder, Fan!Frontier
  <1>2. CASE EndTraversal
    <2>1. /\ traverse = "running" /\ traverse' = "end" /\ found' = found
          /\ UNCHANGED <<order, output, outcome>>
      BY <1>2 DEF EndTraversal, Fan!Report
    <2>2. CASE list = <<>>
      <3>1. found = {} /\ reported' = {0}
        BY <1>2, <2>2 DEF EndTraversal
      <3>2. reported' = {Cardinality(found)}
        BY <3>1, FS_EmptySet
      <3> QED
        BY <2>1, <2>2, <3>2
    <2>3. CASE list # <<>>
      <3>1. Fan!Report
        BY <1>2, <2>3 DEF EndTraversal
      <3>2. reported' = {Cardinality(found)} /\ Fan!Frontier(found) \subseteq found
        <4>1. Fan!Cardinality(found) = Cardinality(found)
          BY DEF Cardinality, Fan!Cardinality
        <4> QED
          BY <3>1, <4>1 DEF Fan!Report
      <3> QED
        BY <2>1, <3>2 DEF Fan!Frontier
    <2> QED
      BY <2>2, <2>3
  <1>3. CASE \/ outputGitCones \/ outputLoadGitConesSingularFile
             \/ EndLoadFile \/ JoinPaths
    BY <1>3 DEF outputGitCones, outputLoadGitConesSingularFile, EndLoadFile,
         JoinPaths, Fan!Frontier
  <1> QED
    BY <1>1, <1>2, <1>3

\* The tasks that write results, whatever is lost without notice.
LEMMA WritePreserves ==
  ASSUME ResultShape, list' = list,
         \/ EndOrder \/ outputGitCones \/ outputLoadGitConesSingularFile
         \/ EndLoadFile
  PROVE  ResultShape'
  <1> DEFINE lines == outputOrbitConesOrder(list)
             files == LoadFiles(list, git_cones_file)
  <1>1. lines' = lines
    BY DEF outputOrbitConesOrder, FileName
  <1>2. Beginnings(lines)' = Beginnings(lines)
    BY <1>1 DEF Beginnings
  <1>3. git_cones_file' = git_cones_file => files' = files
    BY DEF LoadFiles, PartsOfLoadFile, LoadFile
  <1>4. /\ order = "end" => /\ order_file \in Beginnings(lines)
                            /\ "order" \notin truncated => order_file = lines
        /\ output # "off" /\ "git_cones" \notin truncated => git_cones_file = found
        /\ load_file # Missing \/ output \in {"loading", "end"} =>
             output # "off" /\ load_file \in files
        /\ output = "end" /\ "load_file" \notin truncated => load_file.commands
    BY DEF ResultShape
  <1> SUFFICES /\ order' = "end" =>
                    /\ order_file' \in Beginnings(lines)'
                    /\ "order" \notin truncated' => order_file' = lines'
               /\ output' # "off" /\ "git_cones" \notin truncated' =>
                    git_cones_file' = found'
               /\ load_file' # Missing \/ output' \in {"loading", "end"} =>
                    output' # "off" /\ load_file' \in files'
               /\ output' = "end" /\ "load_file" \notin truncated' => load_file'.commands
    BY DEF ResultShape
  <1>5. CASE EndOrder
    <2>1. /\ order_file' \in Beginnings(lines)
          /\ "order" \notin truncated' => order_file' = lines
          /\ truncated \subseteq truncated'
          /\ UNCHANGED <<output, git_cones_file, load_file, found>>
          /\ truncated' \subseteq truncated \cup {"order"}
      BY <1>5 DEF EndOrder, Written, fanVars
    <2> HIDE DEF lines, files
    <2> QED
      BY <1>1, <1>2, <1>3, <1>4, <2>1
  <1>6. CASE outputGitCones
    <2>1. /\ output = "off" /\ output' = "saved"
          /\ "git_cones" \notin truncated' => git_cones_file' = found
          /\ truncated \subseteq truncated'
          /\ truncated' \subseteq truncated \cup {"git_cones"}
          /\ UNCHANGED <<order, order_file, load_file, found>>
      BY <1>6 DEF outputGitCones, Written, fanVars
    <2> HIDE DEF lines, files
    <2> QED
      BY <1>1, <1>2, <1>4, <2>1
  <1>7. CASE outputLoadGitConesSingularFile
    <2>1. /\ output = "saved" /\ output' = "loading"
          /\ load_file' \in PartsOfLoadFile(list, {})
          /\ UNCHANGED <<order, order_file, git_cones_file, found, truncated>>
      BY <1>7 DEF outputLoadGitConesSingularFile, fanVars
    <2>2. load_file' \in files
      BY <2>1, PartsOfAny
    <2> HIDE DEF lines, files
    <2> QED
      BY <1>1, <1>2, <1>3, <1>4, <2>1, <2>2
  <1>8. CASE EndLoadFile
    <2>1. /\ output = "loading" /\ output' = "end"
          /\ load_file' \in files
          /\ "load_file" \notin truncated' => load_file'.commands
          /\ truncated \subseteq truncated'
          /\ truncated' \subseteq truncated \cup {"load_file"}
          /\ UNCHANGED <<order, order_file, git_cones_file, found>>
      BY <1>8 DEF EndLoadFile, Written, fanVars
    <2> HIDE DEF lines, files
    <2> QED
      BY <1>1, <1>2, <1>3, <1>4, <2>1
  <1> QED
    BY <1>5, <1>6, <1>7, <1>8

\* A task that throws leaves its result as far as it got.
LEMMA ThrowPreserves ==
  ASSUME FanShape, ResultShape, list' = list, Throw
  PROVE  FanShape' /\ ResultShape'
  <1> DEFINE lines == outputOrbitConesOrder(list)
             files == LoadFiles(list, git_cones_file)
  <1>1. /\ UNCHANGED <<traverse, order, output, found, reported, truncated>>
        /\ outcome' = "threw"
        /\ order_file' = order_file \/ order = "writing"
        /\ git_cones_file' = git_cones_file \/ output = "off"
        /\ \/ load_file' = load_file
           \/ /\ output \in {"saved", "loading"}
              /\ load_file' \in files
    <2>1. /\ UNCHANGED <<traverse, order, output, found, reported, truncated>>
          /\ outcome' = "threw"
          /\ order_file' = order_file \/ order = "writing"
          /\ git_cones_file' = git_cones_file \/ output = "off"
      BY DEF Throw, fanVars, pathVars
    <2>2. \/ load_file' = load_file
          \/ output = "saved" /\ load_file' \in PartsOfLoadFile(list, {})
          \/ /\ output = "loading"
             /\ load_file' \in PartsOfLoadFile(list, git_cones_file)
      BY DEF Throw
    <2> QED
      BY <2>1, <2>2, PartsOfAny
  <1>2. FanShape'
    BY <1>1 DEF FanShape, Fan!Frontier
  <1>3. lines' = lines
    BY DEF outputOrbitConesOrder, FileName
  <1>4. Beginnings(lines)' = Beginnings(lines)
    BY <1>3 DEF Beginnings
  <1>5. git_cones_file' = git_cones_file => files' = files
    BY DEF LoadFiles, PartsOfLoadFile, LoadFile
  <1>6. /\ order = "end" => /\ order_file \in Beginnings(lines)
                            /\ "order" \notin truncated => order_file = lines
        /\ output # "off" /\ "git_cones" \notin truncated => git_cones_file = found
        /\ load_file # Missing \/ output \in {"loading", "end"} =>
             output # "off" /\ load_file \in files
        /\ output = "end" /\ "load_file" \notin truncated => load_file.commands
    BY DEF ResultShape
  <1>7. /\ order' = "end" => /\ order_file' \in Beginnings(lines)'
                             /\ "order" \notin truncated' => order_file' = lines'
        /\ output' # "off" /\ "git_cones" \notin truncated' => git_cones_file' = found'
        /\ load_file' # Missing \/ output' \in {"loading", "end"} =>
             output' # "off" /\ load_file' \in files'
        /\ output' = "end" /\ "load_file" \notin truncated' => load_file'.commands
    <2> HIDE DEF lines, files
    <2>1. CASE output = "off"
      BY <1>1, <1>3, <1>4, <1>6, <2>1
    <2>2. CASE output # "off"
      BY <1>1, <1>3, <1>4, <1>5, <1>6, <2>2
    <2> QED
      BY <2>1, <2>2
  <1>8. ResultShape'
    BY <1>7 DEF ResultShape
  <1> QED
    BY <1>2, <1>8

\* The orbit cones, the fan and the results, at every step of the workflow.
LEMMA ResultsPreserved ==
  ASSUME WorkflowInv, ResultInv, [WorkflowNext]_workflowVars
  PROVE  ResultInv'
  <1> USE DEF WorkflowInv, ResultInv
  <1>1. ASSUME NEW w \in Worker, preprocess_input(w) PROVE ResultInv'
    <2>1. control # "finished" /\ UNCHANGED control
      BY <1>1 DEF preprocess_input, PhaseShape
    <2>2. /\ UNCHANGED <<inout_processed_list, symmetry_group_on_hashes>>
          /\ UNCHANGED <<fanVars, pathVars, resultVars, outcome>>
      BY <1>1 DEF preprocess_input
    <2>3. ConesShape'
      BY <2>1, <2>2 DEF ConesShape, ListsFinalPaths, list
    <2> QED
      BY <2>1, <2>2, <2>3, ResultsNotStarted
  <1>2. ASSUME NEW w \in Worker, processPrecomputedData(w) PROVE ResultInv'
    <2>1. control # "finished"
      BY <1>2 DEF processPrecomputedData, Move
    <2>2. UNCHANGED <<fanVars, pathVars, resultVars, outcome>>
      BY <1>2 DEF processPrecomputedData
    <2> QED
      BY <1>2, <2>1, <2>2, PrecomputedCones, ResultsNotStarted
  <1>3. ASSUME NEW w \in Worker, compute_initial_cone(w) PROVE ResultInv'
    <2>1. /\ traverse = "start" /\ traverse' = "running"
          /\ UNCHANGED <<orbitVars, order, output, resultVars, outcome>>
      BY <1>3 DEF compute_initial_cone, Traverses
    <2>2. list' = list /\ ConesShape'
      BY <2>1 DEF ConesShape, ListsFinalPaths, list, orbitVars, vars
    <2>3. output = "off"
      BY <2>1 DEF FanShape
    <2>4. ResultShape'
      BY <2>1, <2>2, <2>3, ResultsKept
    <2>5. CASE list = <<>>
      <3>1. UNCHANGED fanVars
        BY <1>3, <2>5 DEF compute_initial_cone
      <3>2. FanShape'
        BY <2>1, <2>2, <2>5, <3>1 DEF FanShape, fanVars
      <3> QED
        BY <2>2, <2>4, <3>2
    <2>6. CASE list # <<>>
      <3>1. \E c \in GitCone : Fan!Find(c)
        BY <1>3, <2>6, FanAssumption DEF compute_initial_cone
      <3>2. FanShape'
        BY <2>1, <2>2, <2>6, <3>1, FindKeeps
      <3> QED
        BY <2>2, <2>4, <3>2
    <2> QED
      BY <2>5, <2>6
  <1>4. ASSUME NEW w \in Worker, expand_cones(w) PROVE ResultInv'
    <2>1. /\ traverse = "running" /\ UNCHANGED traverse /\ list # <<>>
          /\ UNCHANGED <<orbitVars, order, output, resultVars, outcome>>
          /\ UNCHANGED fanVars \/ \E c \in GitCone : Fan!Find(c)
      BY <1>4 DEF expand_cones, Traverses
    <2>2. list' = list /\ ConesShape'
      BY <2>1 DEF ConesShape, ListsFinalPaths, list, orbitVars, vars
    <2>3. FanShape' /\ output = "off"
      BY <2>1, <2>2, FindKeeps
    <2>4. ResultShape'
      BY <2>1, <2>2, <2>3, ResultsKept
    <2> QED
      BY <2>2, <2>3, <2>4
  <1>5. ASSUME check_precomputed_orbit_cones \/ full_dim_afaces PROVE ResultInv'
    <2>1. control # "finished" /\ ~ ListsFinalPaths'
      BY <1>5 DEF check_precomputed_orbit_cones, full_dim_afaces, Move,
           ListsFinalPaths
    <2>2. UNCHANGED <<fanVars, pathVars, resultVars, outcome>>
      BY <1>5 DEF check_precomputed_orbit_cones, full_dim_afaces, TakePart
    <2> QED
      BY <2>1, <2>2, ResultsNotStarted DEF ConesShape
  <1>6. ASSUME orbit_cones_from_afaces PROVE ResultInv'
    <2>1. UNCHANGED <<fanVars, pathVars, resultVars, outcome>>
      BY <1>6 DEF orbit_cones_from_afaces, TakePart, NoTask
    <2>2. Next
      BY <1>6 DEF orbit_cones_from_afaces, Next
    <2>3. control # "finished" \/ clean
      BY <1>6 DEF orbit_cones_from_afaces, Start, compute_orbit_cones,
           intersect_with_moving_cone, expand_orbit_cone_orbits,
           keep_unique_orbit_cones, removeOrbitStructure, split_control_path,
           ListStep, Move
    <2>4. ConesShape'
      BY <2>2, NetCones
    <2>5. CASE control # "finished"
      BY <2>1, <2>4, <2>5, ResultsNotStarted
    <2>6. CASE clean
      <3>1. list' = list
        BY <2>6 DEF clean, list
      <3>2. UNCHANGED <<order, output, resultVars, found>>
        BY <2>1 DEF fanVars, pathVars
      <3> QED
        BY <2>1, <2>4, <3>1, <3>2, FanKept, ResultsKept
    <2> QED
      BY <2>3, <2>5, <2>6
  <1>7. ASSUME \/ Throw \/ SplitPath \/ BeginOrder \/ EndOrder \/ EndTraversal
               \/ outputGitCones \/ outputLoadGitConesSingularFile
               \/ EndLoadFile \/ JoinPaths
               \/ UNCHANGED workflowVars
        PROVE  ResultInv'
    <2>1. UNCHANGED orbitVars
      BY <1>7 DEF Throw, SplitPath, BeginOrder, EndOrder, EndTraversal,
           outputGitCones, outputLoadGitConesSingularFile, EndLoadFile,
           JoinPaths, workflowVars
    <2>2. list' = list /\ ConesShape'
      BY <2>1 DEF orbitVars, vars, ConesShape, ListsFinalPaths, list
    <2>3. CASE Throw
      BY <2>2, <2>3, ThrowPreserves
    <2>4. CASE UNCHANGED workflowVars
      <3>1. UNCHANGED <<fanVars, pathVars, resultVars, outcome>>
        BY <2>4 DEF workflowVars
      <3>2. UNCHANGED <<order, output, resultVars, found>>
        BY <3>1 DEF fanVars, pathVars
      <3> QED
        BY <2>2, <3>1, <3>2, FanKept, ResultsKept
    <2>5. CASE \/ EndOrder \/ outputGitCones \/ outputLoadGitConesSingularFile
               \/ EndLoadFile
      BY <2>2, <2>5, FanPreserved, WritePreserves
    <2>6. CASE SplitPath \/ BeginOrder \/ JoinPaths \/ EndTraversal
      <3>1. ResultShape'
        <4>1. CASE JoinPaths
          <5>1. UNCHANGED <<order, output, resultVars, found>>
            BY <4>1 DEF JoinPaths, fanVars, pathVars
          <5> QED
            BY <2>2, <5>1, ResultsKept
        <4>2. CASE EndTraversal
          <5>1. UNCHANGED <<order, output, resultVars, found>>
            BY <4>2 DEF EndTraversal, Fan!Report
          <5> QED
            BY <2>2, <5>1, ResultsKept
        <4>3. CASE SplitPath \/ BeginOrder
          <5>1. /\ order' # "end"
                /\ UNCHANGED <<output, found, git_cones_file, load_file, truncated>>
            BY <4>3 DEF SplitPath, BeginOrder, fanVars, resultVars
          <5>2. LoadFiles(list, git_cones_file)' = LoadFiles(list, git_cones_file)
            BY <2>2, <5>1 DEF LoadFiles, PartsOfLoadFile, LoadFile
          <5> QED
            BY <5>1, <5>2 DEF ResultShape
        <4> QED
          BY <2>6, <4>1, <4>2, <4>3
      <3> QED
        BY <2>2, <2>6, <3>1, FanPreserved
    <2> QED
      BY <1>7, <2>3, <2>4, <2>5, <2>6
  <1> QED
    BY <1>1, <1>2, <1>3, <1>4, <1>5, <1>6, <1>7 DEF WorkflowNext, Step

\* How far the fan and the results are, along both control paths, whatever task
\* throws and whatever is lost without notice when a result is written.
THEOREM ResultInvariant == WorkflowSpec => []ResultInv
  <1>1. WorkflowInit => ResultInv
    BY DEF WorkflowInit, ResultInv, ConesShape, ListsFinalPaths, FanShape,
           ResultShape
  <1>2. WorkflowInv /\ ResultInv /\ [WorkflowNext]_workflowVars => ResultInv'
    BY ResultsPreserved
  <1> QED
    BY <1>1, <1>2, WorkflowInvariant, PTL DEF WorkflowSpec

\* From the moment at which outputLoadGitConesSingularFile() creates the file
\* that loads the cones, and also if the task throws in the middle of it: every
\* orbit cone it names is there, it has git cones only when it has all orbit
\* cones, which are those that the symmetry group permutes, and what is missing
\* of the fan in a file that was written to its end is missing in the file of
\* the saved cones.
THEOREM LoadFileAlwaysUsable == WorkflowSpec => []LoadFileUsable
  <1>1. WorkflowInv /\ ResultInv => LoadFileUsable
    <2> SUFFICES ASSUME WorkflowInv, ResultInv, load_file # Missing
                 PROVE  /\ \A i \in DOMAIN load_file.orbit_cones :
                             /\ load_file.orbit_cones[i].directory = "orbit_cones"
                             /\ load_file.orbit_cones[i] \in DOMAIN cone_files
                        /\ load_file.git_cones # {} \/ load_file.commands =>
                             \/ load_file.orbit_cones = <<>>
                             \/ \A p \in DOMAIN symmetry_group_on_hashes :
                                  DOMAIN symmetry_group_on_hashes[p] =
                                    DOMAIN load_file.orbit_cones
                        /\ load_file.commands /\ "git_cones" \notin truncated =>
                             reported = {Cardinality(load_file.git_cones)}
      BY DEF LoadFileUsable
    <2> USE DEF WorkflowInv, ResultInv
    <2>1. /\ load_file \in LoadFiles(list, git_cones_file)
          /\ output # "off"
          /\ "git_cones" \notin truncated => git_cones_file = found
      BY DEF ResultShape
    <2>2. traverse = "end" /\ reported = {Cardinality(found)}
      BY <2>1 DEF FanShape
    <2>3. control = "finished"
      BY <2>2 DEF PhaseShape
    <2>4. list \in Seq(DOMAIN cone_files)
      BY <2>3 DEF OrbitInv, ListShape, ListsAFaces, ListsOrbits
    <2>5. /\ DOMAIN load_file.orbit_cones \subseteq DOMAIN list
          /\ \A i \in DOMAIN load_file.orbit_cones :
               load_file.orbit_cones[i] = list[i]
          /\ load_file.git_cones # {} \/ load_file.commands =>
               load_file.orbit_cones = list
          /\ load_file.commands => load_file.git_cones = git_cones_file
      BY <2>1, <2>4, LoadFileShape
    <2>6. \A i \in DOMAIN list : /\ list[i].directory = "orbit_cones"
                                 /\ list[i] \in DOMAIN cone_files
      BY <2>3, <2>4 DEF OrbitInv, FileShape, ListsFinalPaths, Range
    <2>7. list # <<>> =>
            \A p \in DOMAIN symmetry_group_on_hashes :
              DOMAIN symmetry_group_on_hashes[p] = DOMAIN list
      BY <2>3 DEF ConesShape, ListsFinalPaths
    <2>8. \A i \in DOMAIN load_file.orbit_cones :
            /\ load_file.orbit_cones[i].directory = "orbit_cones"
            /\ load_file.orbit_cones[i] \in DOMAIN cone_files
      BY <2>5, <2>6
    <2>9. load_file.commands /\ "git_cones" \notin truncated =>
            reported = {Cardinality(load_file.git_cones)}
      BY <2>1, <2>2, <2>5
    <2>10. ASSUME load_file.git_cones # {} \/ load_file.commands,
                  load_file.orbit_cones # <<>>
           PROVE  \A p \in DOMAIN symmetry_group_on_hashes :
                    DOMAIN symmetry_group_on_hashes[p] =
                      DOMAIN load_file.orbit_cones
      <3>1. load_file.orbit_cones = list
        BY <2>5, <2>10
      <3> QED
        BY <2>7, <2>10, <3>1
    <2> QED
      BY <2>8, <2>9, <2>10
  <1> QED
    BY <1>1, WorkflowInvariant, ResultInvariant, PTL

\* When main() returns, the two files with orbit cones and all sessions of
\* workers that have used them have the same cones in the same order, as far as
\* the files were written; if no write error was left unnoticed the fan is
\* complete.
THEOREM ResultsAlwaysAgree == WorkflowSpec => []ResultsAgree
  <1>1. WorkflowInv /\ ResultInv => ResultsAgree
    <2> DEFINE names == {j \in DOMAIN order_file : order_file[j] # CutOff}
               listed == [i \in DOMAIN order_file |->
                            FileContent([directory |-> "orbit_cones",
                                         aface |-> <<>>,
                                         name |-> order_file[i]])]
               whole == [i \in names |-> listed[i]]
               loaded == Contents(load_file.orbit_cones)
               all == Contents(list)
    <2> SUFFICES ASSUME WorkflowInv, ResultInv, outcome = "returned"
                 PROVE  /\ \A w \in Worker :
                             ORBIT_CONES \in DOMAIN session[w] =>
                               /\ Agrees(whole, session[w][ORBIT_CONES])
                               /\ Agrees(loaded, session[w][ORBIT_CONES])
                               /\ truncated = {} => session[w][ORBIT_CONES] = listed
                        /\ \A i \in DOMAIN whole \cap DOMAIN loaded :
                             whole[i] = loaded[i]
                        /\ truncated = {} =>
                             /\ listed = loaded
                             /\ load_file.git_cones =
                                  IF listed = <<>> THEN {} ELSE GitCone
      BY DEF ResultsAgree
    <2> USE DEF WorkflowInv, ResultInv
    <2>1. /\ order = "end" /\ output = "end" /\ traverse = "end"
          /\ found \subseteq GitCone
          /\ found # {} => list # <<>>
          /\ list # <<>> => Fan!Frontier(found) \subseteq found
      BY DEF FanShape
    <2>2. /\ order_file \in Beginnings(outputOrbitConesOrder(list))
          /\ truncated = {} => order_file = outputOrbitConesOrder(list)
          /\ truncated = {} => git_cones_file = found
          /\ load_file \in LoadFiles(list, git_cones_file)
          /\ truncated = {} => load_file.commands
      BY <2>1 DEF ResultShape
    <2>3. control = "finished"
      BY <2>1 DEF PhaseShape
    <2>4. \A i \in DOMAIN list :
            list[i] = [directory |-> "orbit_cones", aface |-> <<>>,
                       name |-> list[i].name]
      BY <2>3 DEF ConesShape, ListsFinalPaths
    <2>5. list \in Seq(DOMAIN cone_files)
      BY <2>3 DEF OrbitInv, ListShape, ListsAFaces, ListsOrbits
    <2>6. /\ Len(outputOrbitConesOrder(list)) = Len(list)
          /\ Len(list) \in Nat /\ DOMAIN list = 1..Len(list)
          /\ DOMAIN outputOrbitConesOrder(list) = DOMAIN list
          /\ \A i \in DOMAIN list : outputOrbitConesOrder(list)[i] = list[i].name
      BY <2>5 DEF outputOrbitConesOrder, FileName
    <2>7. /\ names \subseteq DOMAIN list
          /\ \A i \in names : order_file[i] = list[i].name
      BY <2>2, <2>6, BeginningShape
    <2>8. all = [i \in DOMAIN list |-> FileContent(list[i])]
      BY DEF Contents
    <2>9. Agrees(whole, all)
      <3>1. \A i \in names :
              FileContent([directory |-> "orbit_cones", aface |-> <<>>,
                           name |-> order_file[i]]) = FileContent(list[i])
        BY <2>4, <2>7
      <3>2. \A i \in names : listed[i] = FileContent(list[i])
        BY <3>1
      <3>3. DOMAIN whole = names /\ \A i \in names : whole[i] = listed[i]
        OBVIOUS
      <3> HIDE DEF names, listed, whole, all
      <3> QED
        BY <2>7, <2>8, <3>2, <3>3 DEF Agrees
    <2>10. /\ DOMAIN load_file.orbit_cones \subseteq DOMAIN list
           /\ \A i \in DOMAIN load_file.orbit_cones :
                load_file.orbit_cones[i] = list[i]
           /\ load_file.commands => load_file.orbit_cones = list
           /\ load_file.commands => load_file.git_cones = git_cones_file
      BY <2>2, <2>5, LoadFileShape
    <2>11. Agrees(loaded, all)
      <3>1. loaded = [i \in DOMAIN load_file.orbit_cones |->
                        FileContent(load_file.orbit_cones[i])]
        BY DEF Contents
      <3> HIDE DEF loaded, all
      <3> QED
        BY <2>8, <2>10, <3>1 DEF Agrees
    <2>12. ASSUME NEW w \in Worker, ORBIT_CONES \in DOMAIN session[w]
           PROVE  session[w][ORBIT_CONES] = all
      <3>1. session[w][ORBIT_CONES] = Current(ORBIT_CONES)
        BY <2>12 DEF SessionShape, Agrees, Symbols
      <3>2. Current(ORBIT_CONES) = all
        BY CurrentValues
      <3> QED
        BY <3>1, <3>2
    <2>13. all = <<>> <=> list = <<>>
      <3>1. DOMAIN all = DOMAIN list
        BY <2>8
      <3> QED
        BY <2>5, <2>8, <3>1
    <2>14. ASSUME truncated = {} PROVE listed = all
      <3>1. /\ DOMAIN order_file = DOMAIN list
            /\ \A i \in DOMAIN list : order_file[i] = list[i].name
        BY <2>2, <2>6, <2>14
      <3>2. \A i \in DOMAIN list :
              FileContent([directory |-> "orbit_cones", aface |-> <<>>,
                           name |-> order_file[i]]) = FileContent(list[i])
        BY <2>4, <3>1
      <3> QED
        BY <2>8, <3>1, <3>2
    <2>15. truncated = {} => loaded = all /\ load_file.git_cones = found
      BY <2>2, <2>10
    <2>16. found = IF list = <<>> THEN {} ELSE GitCone
      BY <2>1, FanAssumption
    <2>17. \A i \in DOMAIN whole \cap DOMAIN loaded : whole[i] = loaded[i]
      <3> HIDE DEF whole, loaded, all
      <3> QED
        BY <2>9, <2>11 DEF Agrees
    <2> HIDE DEF listed, whole, loaded, all
    <2> QED
      BY <2>9, <2>11, <2>12, <2>13, <2>14, <2>15, <2>16, <2>17
  <1> QED
    BY <1>1, WorkflowInvariant, ResultInvariant, PTL

-----------------------------------------------------------------------------
(* Orbits *)

\* An injective function into a set of the size of its domain misses nothing.
LEMMA InjectiveOnto ==
  ASSUME NEW T, IsFiniteSet(T), NEW f \in [1..Cardinality(T) -> T],
         IsInjective(f)
  PROVE  \A t \in T : \E k \in 1..Cardinality(T) : f[k] = t
  <1> DEFINE S == 1..Cardinality(T)
  <1>1. Cardinality(T) \in Nat
    BY FS_CardinalityType
  <1>2. Cardinality(S) = Cardinality(T)
    BY <1>1, FS_Interval
  <1>3. f \in Injection(S, T)
    BY DEF Injection
  <1> HIDE DEF S
  <1>4. f \in Surjection(S, T)
    BY <1>2, <1>3, FS_Injection
  <1> QED
    BY <1>4 DEF Surjection, S

\* A list of results in some order has all of them.
LEMMA InOrderOnto ==
  ASSUME NEW results, IsFiniteSet(DOMAIN results),
         NEW l, IsInOrder(l, results)
  PROVE  \A x \in DOMAIN results : \E i \in DOMAIN l : l[i] = results[x]
  <1>1. PICK at \in [1..Cardinality(DOMAIN results) -> DOMAIN results] :
          /\ IsInjective(at)
          /\ l = [i \in DOMAIN at |-> results[at[i]]]
    BY DEF IsInOrder
  <1> DEFINE N == Cardinality(DOMAIN results)
  <1>2. \A x \in DOMAIN results : \E k \in 1..N : at[k] = x
    BY <1>1, InjectiveOnto
  <1> HIDE DEF N
  <1>3. DOMAIN at = 1..N
    BY <1>1 DEF N
  <1> QED
    BY <1>1, <1>2, <1>3

\* The indices of the first of all equal cones stand for all cones of an orbit,
\* each once, and one of them for the least.
LEMMA FirstsShape ==
  ASSUME NEW orbit \in Seq(Cone), orbit # <<>>
  PROVE  \E n \in Nat \ {0} :
           /\ Firsts(orbit) \in [1..n -> DOMAIN orbit]
           /\ \A j, k \in 1..n :
                orbit[Firsts(orbit)[j]] = orbit[Firsts(orbit)[k]] => j = k
           /\ \A i \in DOMAIN orbit :
                \E k \in 1..n : orbit[Firsts(orbit)[k]] = orbit[i]
           /\ minimalElementIndex(orbit) \in 1..n
           /\ \A j \in 1..n \ {minimalElementIndex(orbit)} :
                Less(orbit[Firsts(orbit)[minimalElementIndex(orbit)]],
                     orbit[Firsts(orbit)[j]])
  <1> DEFINE N == Len(orbit)
             New == {i \in DOMAIN orbit : \A j \in 1..(i - 1) :
                                            orbit[j] # orbit[i]}
             first == Firsts(orbit)
             n == Cardinality(New)
             c == [k \in 1..n |-> orbit[first[k]]]
             min == minimalElementIndex(orbit)
  <1>1. N \in Nat /\ N # 0 /\ DOMAIN orbit = 1..N
    OBVIOUS
  <1>2. New \in SUBSET (1..N) /\ 1 \in New
    BY <1>1
  <1>3. /\ n \in Nat \ {0}
        /\ first \in [1..n -> New]
        /\ IsInjective(first)
    <2>1. first = Ascending(New)
      BY DEF Firsts
    <2> HIDE DEF New, first
    <2> QED
      BY <1>1, <1>2, <2>1, AscendingShape
  <1>4. \A i, j \in New : orbit[i] = orbit[j] => i = j
    <2> SUFFICES ASSUME NEW i \in New, NEW j \in New, i < j
                 PROVE  orbit[i] # orbit[j]
      BY <1>1
    <2>1. i \in 1 .. j - 1
      BY <1>1
    <2> QED
      BY <2>1
  <1>5. ASSUME NEW i \in DOMAIN orbit
        PROVE  \E j \in New : orbit[j] = orbit[i]
    <2> DEFINE E == {j \in DOMAIN orbit : orbit[j] = orbit[i]}
    <2>1. E \in SUBSET Nat /\ E # {}
      BY <1>1
    <2>2. PICK j \in E : \A k \in E : j <= k
      <3> HIDE DEF E
      <3> QED
        BY <2>1, LeastNumber
    <2>3. \A k \in 1..(j - 1) : orbit[k] # orbit[j]
      <3> SUFFICES ASSUME NEW k \in 1..(j - 1), orbit[k] = orbit[j]
                   PROVE  FALSE
        OBVIOUS
      <3>1. k \in E
        BY <1>1
      <3> QED
        BY <1>1, <2>2, <3>1
    <2> QED
      BY <2>2, <2>3
  <1>6. ASSUME NEW j \in New PROVE \E k \in 1..n : first[k] = j
    <2>1. IsFiniteSet(New)
      <3>1. IsFiniteSet(1..N)
        BY <1>1, FS_Interval
      <3> HIDE DEF New
      <3> QED
        BY <1>2, <3>1, FS_Subset
    <2> HIDE DEF New, first
    <2> QED
      BY <1>3, <2>1, InjectiveOnto
  <1>7. c \in [1..n -> Cone] /\ first \in [1..n -> DOMAIN orbit]
    <2>1. \A k \in 1..n : first[k] \in DOMAIN orbit
      BY <1>3
    <2> HIDE DEF n, first
    <2>2. first \in [1..n -> DOMAIN orbit]
      BY <1>3, <2>1
    <2> QED
      BY <2>1, <2>2
  <1> HIDE DEF New, n, first
  <1>8. \A j, k \in 1..n : orbit[first[j]] = orbit[first[k]] => j = k
    BY <1>3, <1>4 DEF IsInjective
  <1>9. IsInjective(c)
    BY <1>8 DEF IsInjective
  <1>10. \E m \in 1..n : \A j \in 1..n \ {m} : Less(c[m], c[j])
    <2> HIDE DEF c
    <2> QED
      BY <1>3, <1>7, <1>9, LeastCone
  <1>11. min \in 1..n /\ \A j \in 1..n \ {min} :
                           Less(orbit[first[min]], orbit[first[j]])
    <2>1. DOMAIN first = 1..n
      BY <1>3
    <2>2. min = CHOOSE m \in 1..n : \A j \in 1..n \ {m} :
                                      Less(orbit[first[m]], orbit[first[j]])
      BY <2>1 DEF minimalElementIndex, first
    <2>3. \E m \in 1..n : \A j \in 1..n \ {m} :
                            Less(orbit[first[m]], orbit[first[j]])
      BY <1>10
    <2> HIDE DEF min
    <2> QED
      BY <2>2, <2>3
  <1>12. \A i \in DOMAIN orbit : \E k \in 1..n : orbit[first[k]] = orbit[i]
    BY <1>5, <1>6
  <1> HIDE DEF min
  <1> QED
    BY <1>3, <1>7, <1>8, <1>11, <1>12 DEF min, first

\* The elements of an orbit stand for all its cones, each once and the least
\* one first, and every cone is found where its index points to.
LEMMA ElementsOfOrbit ==
  ASSUME NEW orbit \in Seq(Cone), orbit # <<>>
  PROVE  /\ 1 \in DOMAIN Elements(orbit)
         /\ \A j, k \in DOMAIN Elements(orbit) :
              orbit[Elements(orbit)[j]] = orbit[Elements(orbit)[k]] => j = k
         /\ \A j \in DOMAIN Elements(orbit) \ {1} :
              Less(orbit[Elements(orbit)[1]], orbit[Elements(orbit)[j]])
         /\ \A i \in DOMAIN orbit :
              /\ ElementIndex(orbit, i) \in DOMAIN Elements(orbit)
              /\ orbit[Elements(orbit)[ElementIndex(orbit, i)]] = orbit[i]
  <1> DEFINE first == Firsts(orbit)
             min == minimalElementIndex(orbit)
             es == Elements(orbit)
  <1>1. PICK n \in Nat \ {0} :
          /\ first \in [1..n -> DOMAIN orbit]
          /\ \A j, k \in 1..n : orbit[first[j]] = orbit[first[k]] => j = k
          /\ \A i \in DOMAIN orbit : \E k \in 1..n : orbit[first[k]] = orbit[i]
          /\ min \in 1..n
          /\ \A j \in 1..n \ {min} : Less(orbit[first[min]], orbit[first[j]])
    BY FirstsShape
  <1>2. es = [first EXCEPT ![1] = first[min], ![min] = first[1]]
    BY DEF Elements
  <1>3. ASSUME NEW i \in DOMAIN orbit
        PROVE  \E e \in DOMAIN first :
                 /\ orbit[first[e]] = orbit[i]
                 /\ ElementIndex(orbit, i) =
                      IF e = 1 THEN min ELSE IF e = min THEN 1 ELSE e
    <2> DEFINE e == CHOOSE e \in DOMAIN first : orbit[first[e]] = orbit[i]
    <2>1. ElementIndex(orbit, i) = IF e = 1 THEN min ELSE IF e = min THEN 1 ELSE e
      BY DEF ElementIndex
    <2>2. \E k \in DOMAIN first : orbit[first[k]] = orbit[i]
      BY <1>1
    <2>3. e \in DOMAIN first /\ orbit[first[e]] = orbit[i]
      BY <2>2
    <2> HIDE DEF e
    <2> QED
      BY <2>1, <2>3
  <1> HIDE DEF first, min, es
  <1>4. /\ DOMAIN es = 1..n /\ 1 \in 1..n /\ DOMAIN first = 1..n
        /\ es[min] = first[1]
        /\ min # 1 => es[1] = first[min]
        /\ \A k \in 1..n \ {1, min} : es[k] = first[k]
    BY <1>1, <1>2
  <1>5. es[1] = first[min]
    BY <1>4
  <1>6. \A j, k \in 1..n : orbit[es[j]] = orbit[es[k]] => j = k
    <2> DEFINE swap(k) == IF k = 1 THEN min ELSE IF k = min THEN 1 ELSE k
    <2>1. \A k \in 1..n : swap(k) \in 1..n /\ es[k] = first[swap(k)]
      BY <1>1, <1>4, <1>5
    <2>2. \A j, k \in 1..n : swap(j) = swap(k) => j = k
      BY <1>1
    <2>3. \A j, k \in 1..n : orbit[first[j]] = orbit[first[k]] => j = k
      BY <1>1
    <2> HIDE DEF swap
    <2>4. ASSUME NEW j \in 1..n, NEW k \in 1..n, orbit[es[j]] = orbit[es[k]]
          PROVE  j = k
      <3>1. orbit[first[swap(j)]] = orbit[first[swap(k)]]
        BY <2>1, <2>4
      <3>2. swap(j) = swap(k)
        BY <2>1, <2>3, <3>1
      <3> QED
        BY <2>2, <3>2
    <2> QED
      BY <2>4
  <1>7. ASSUME NEW j \in 1..n \ {1} PROVE Less(orbit[es[1]], orbit[es[j]])
    <2>1. \A k \in 1..n \ {min} : Less(orbit[first[min]], orbit[first[k]])
      BY <1>1
    <2>2. PICK k \in 1..n \ {min} : es[j] = first[k]
      <3>1. CASE j = min
        BY <1>4, <3>1
      <3>2. CASE j # min
        BY <1>4, <3>2
      <3> QED
        BY <3>1, <3>2
    <2> QED
      BY <1>5, <2>1, <2>2
  <1>8. ASSUME NEW i \in DOMAIN orbit
        PROVE  /\ ElementIndex(orbit, i) \in 1..n
               /\ orbit[es[ElementIndex(orbit, i)]] = orbit[i]
    <2>1. PICK e \in 1..n :
            /\ orbit[first[e]] = orbit[i]
            /\ ElementIndex(orbit, i) =
                 IF e = 1 THEN min ELSE IF e = min THEN 1 ELSE e
      BY <1>3, <1>4
    <2>2. CASE e = 1
      <3>1. ElementIndex(orbit, i) = min
        BY <2>1, <2>2
      <3>2. es[min] = first[1] /\ min \in 1..n
        BY <1>1, <1>4
      <3> QED
        BY <2>1, <2>2, <3>1, <3>2
    <2>3. CASE e # 1 /\ e = min
      <3>1. ElementIndex(orbit, i) = 1
        BY <2>1, <2>3
      <3> QED
        BY <1>4, <1>5, <2>1, <2>3, <3>1
    <2>4. CASE e # 1 /\ e # min
      <3>1. ElementIndex(orbit, i) = e
        BY <2>1, <2>4
      <3>2. es[e] = first[e]
        BY <1>4, <2>4
      <3> QED
        BY <2>1, <3>1, <3>2
    <2> QED
      BY <2>2, <2>3, <2>4
  <1> QED
    BY <1>4, <1>6, <1>7, <1>8 DEF es

\* The indices of symmetries are closed under products and inverses, and the
\* symmetries act on cones.
LEMMA GroupFacts ==
  ASSUME ProblemShape
  PROVE  /\ \A i, j \in DOMAIN group : \E k \in DOMAIN group :
              /\ group[k] = Times(group[i], group[j])
              /\ \A c \in Cone : preimageCone(preimageCone(c, group[i]), group[j])
                                   = preimageCone(c, group[k])
         /\ \E i \in DOMAIN group : \A c \in Cone : preimageCone(c, group[i]) = c
         /\ \A i \in DOMAIN group : \E j \in DOMAIN group : \A c \in Cone :
              preimageCone(preimageCone(c, group[i]), group[j]) = c
  <1>1. PICK problem \in Problem : group = problem.group
    BY DEF ProblemShape
  <1> DEFINE symmetries == Range(problem.group)
             identity == [i \in DOMAIN problem.group[1] |-> i]
  <1>2. /\ \A s \in symmetries : DOMAIN s = DOMAIN identity
        /\ identity \in symmetries
        /\ \A s, t \in symmetries : Compose(s, t) \in symmetries
        /\ \A s \in symmetries : \E t \in symmetries : Compose(s, t) = identity
        /\ \A c \in Cone :
             /\ preimageCone(c, identity) = c
             /\ \A s, t \in symmetries :
                  preimageCone(preimageCone(c, s), t) =
                    preimageCone(c, Compose(s, t))
    BY GroupAssumption, Zenon
  <1>3. /\ \A i \in DOMAIN group : group[i] \in symmetries
        /\ \A s \in symmetries : \E i \in DOMAIN group : group[i] = s
    BY <1>1 DEF Range
  <1> HIDE DEF symmetries, identity
  <1>4. ASSUME NEW i \in DOMAIN group, NEW j \in DOMAIN group
        PROVE  \E k \in DOMAIN group :
                 /\ group[k] = Times(group[i], group[j])
                 /\ \A c \in Cone :
                      preimageCone(preimageCone(c, group[i]), group[j])
                        = preimageCone(c, group[k])
    <2>1. group[i] \in symmetries /\ group[j] \in symmetries
      BY <1>3
    <2>2. DOMAIN group[i] = DOMAIN group[j]
      BY <1>2, <2>1
    <2>3. Times(group[i], group[j]) = Compose(group[i], group[j])
      BY <2>2 DEF Times, Compose
    <2>4. PICK k \in DOMAIN group : group[k] = Compose(group[i], group[j])
      BY <1>2, <1>3, <2>1, Zenon
    <2>5. ASSUME NEW c \in Cone
          PROVE  preimageCone(preimageCone(c, group[i]), group[j])
                   = preimageCone(c, group[k])
      <3>1. preimageCone(preimageCone(c, group[i]), group[j])
              = preimageCone(c, Compose(group[i], group[j]))
        BY <1>2, <2>1
      <3> QED
        BY <2>4, <3>1
    <2> QED
      BY <2>3, <2>4, <2>5, Zenon
  <1>5. \E i \in DOMAIN group : \A c \in Cone : preimageCone(c, group[i]) = c
    <2>1. PICK i \in DOMAIN group : group[i] = identity
      BY <1>2, <1>3, Zenon
    <2>2. \A c \in Cone : preimageCone(c, identity) = c
      BY <1>2
    <2> QED
      BY <2>1, <2>2
  <1>6. ASSUME NEW i \in DOMAIN group
        PROVE  \E j \in DOMAIN group : \A c \in Cone :
                 preimageCone(preimageCone(c, group[i]), group[j]) = c
    <2>1. group[i] \in symmetries
      BY <1>3
    <2>2. PICK t \in symmetries : Compose(group[i], t) = identity
      BY <1>2, <2>1, Zenon
    <2>3. PICK j \in DOMAIN group : group[j] = t
      BY <1>3, <2>2, Zenon
    <2>4. ASSUME NEW c \in Cone
          PROVE  preimageCone(preimageCone(c, group[i]), t) = c
      <3>1. preimageCone(preimageCone(c, group[i]), t)
              = preimageCone(c, Compose(group[i], t))
        BY <1>2, <2>1
      <3>2. preimageCone(c, identity) = c
        BY <1>2
      <3> QED
        BY <2>2, <3>1, <3>2
    <2> QED
      BY <2>3, <2>4, Zenon
  <1> QED
    BY <1>4, <1>5, <1>6, Zenon

\* A cone is in its orbit, and every cone of an orbit has that orbit.
LEMMA OrbitFacts ==
  ASSUME ProblemShape, NEW c \in Cone
  PROVE  /\ Orbit(c) = {preimageCone(c, group[i]) : i \in DOMAIN group}
         /\ Orbit(c) \subseteq Cone
         /\ c \in Orbit(c)
         /\ \A x \in Orbit(c) : Orbit(x) = Orbit(c)
  <1>1. \A x : Orbit(x) = {preimageCone(x, group[i]) : i \in DOMAIN group}
    BY DEF Orbit, Range
  <1>2. \A x \in Cone : Orbit(x) \subseteq Cone
    BY <1>1, ProblemFacts
  <1>3. c \in Orbit(c)
    BY <1>1, GroupFacts
  <1>4. ASSUME NEW d \in Cone, NEW x \in Orbit(d)
        PROVE  Orbit(x) \subseteq Orbit(d) /\ d \in Orbit(x)
    <2>1. PICK i \in DOMAIN group : x = preimageCone(d, group[i])
      BY <1>1
    <2>2. ASSUME NEW y \in Orbit(x) PROVE y \in Orbit(d)
      <3>1. PICK j \in DOMAIN group : y = preimageCone(x, group[j])
        BY <1>1
      <3>2. PICK k \in DOMAIN group : y = preimageCone(d, group[k])
        BY <2>1, <3>1, GroupFacts, Zenon
      <3> QED
        BY <1>1, <3>2
    <2>3. PICK j \in DOMAIN group : d = preimageCone(x, group[j])
      BY <2>1, GroupFacts, Zenon
    <2>4. d \in Orbit(x)
      BY <1>1, <2>3
    <2> QED
      BY <2>2, <2>4
  <1>5. ASSUME NEW x \in Orbit(c) PROVE Orbit(x) = Orbit(c)
    <2>1. x \in Cone
      BY <1>2
    <2>2. Orbit(x) \subseteq Orbit(c) /\ c \in Orbit(x)
      BY <1>4
    <2>3. Orbit(c) \subseteq Orbit(x)
      BY <1>4, <2>1, <2>2
    <2> QED
      BY <2>2, <2>3
  <1> QED
    BY <1>1, <1>2, <1>3, <1>5

\* Orbits that have a cone in common are equal.
LEMMA OrbitsMeet ==
  ASSUME ProblemShape, NEW c \in Cone, NEW d \in Cone,
         NEW x \in Orbit(c), x \in Orbit(d)
  PROVE  Orbit(c) = Orbit(d)
  <1>1. Orbit(x) = Orbit(c)
    BY OrbitFacts
  <1>2. Orbit(x) = Orbit(d)
    BY OrbitFacts
  <1> QED
    BY <1>1, <1>2

\* Looking up products of symmetries gives how the symmetries permute the
\* elements of an orbit.
LEMMA ActionOnOrbit ==
  ASSUME ProblemShape, NEW c \in Cone, NEW orbit \in Seq(Cone),
         orbit = computeOrbitConeOrbitWithDuplicates(c)
  PROVE  /\ \A e \in DOMAIN Elements(orbit) :
              Elements(orbit)[e] \in DOMAIN group /\ Elements(orbit)[e] \in DOMAIN orbit
         /\ {orbit[Elements(orbit)[e]] : e \in DOMAIN Elements(orbit)} = Orbit(c)
         /\ \A p \in DOMAIN group, e \in DOMAIN Elements(orbit) :
              LET q == GroupActionOnOrbit(orbit)[p][e]
              IN  /\ q \in DOMAIN Elements(orbit)
                  /\ orbit[Elements(orbit)[q]] =
                       preimageCone(orbit[Elements(orbit)[e]], group[p])
  <1> DEFINE es == Elements(orbit)
  <1>1. /\ DOMAIN orbit = DOMAIN group
        /\ \A i \in DOMAIN group : orbit[i] = preimageCone(c, group[i])
        /\ orbit # <<>>
    <2>1. DOMAIN orbit = DOMAIN group
      BY DEF computeOrbitConeOrbitWithDuplicates
    <2>2. \A i \in DOMAIN group : orbit[i] = preimageCone(c, group[i])
      BY DEF computeOrbitConeOrbitWithDuplicates
    <2>3. DOMAIN group = 1..Len(group) /\ Len(group) \in Nat /\ Len(group) # 0
      BY ProblemFacts
    <2> QED
      BY <2>1, <2>2, <2>3
  <1>2. \A e \in DOMAIN es : es[e] \in DOMAIN group
    BY <1>1, ElementsShape
  <1>3. \A i \in DOMAIN group :
          /\ ElementIndex(orbit, i) \in DOMAIN es
          /\ orbit[es[ElementIndex(orbit, i)]] = orbit[i]
    BY <1>1, ElementsOfOrbit
  <1>4. GroupActionOnOrbit(orbit) =
          [p \in DOMAIN group |-> [e \in DOMAIN es |->
             ElementIndex(orbit, CHOOSE i \in DOMAIN group :
                                   group[i] = Times(group[es[e]], group[p]))]]
    BY DEF GroupActionOnOrbit
  <1> HIDE DEF es
  <1>5. {orbit[es[e]] : e \in DOMAIN es} = Orbit(c)
    <2>1. Orbit(c) = {preimageCone(c, group[i]) : i \in DOMAIN group}
      BY OrbitFacts
    <2> QED
      BY <1>1, <1>2, <1>3, <2>1
  <1>6. ASSUME NEW p \in DOMAIN group, NEW e \in DOMAIN es
        PROVE  LET q == GroupActionOnOrbit(orbit)[p][e]
               IN  /\ q \in DOMAIN es
                   /\ orbit[es[q]] = preimageCone(orbit[es[e]], group[p])
    <2> DEFINE i == es[e]
               k == CHOOSE k \in DOMAIN group :
                      group[k] = Times(group[i], group[p])
    <2>1. GroupActionOnOrbit(orbit)[p][e] = ElementIndex(orbit, k)
      BY <1>4
    <2>2. i \in DOMAIN group
      BY <1>2
    <2> HIDE DEF i
    <2>3. PICK h \in DOMAIN group :
            /\ group[h] = Times(group[i], group[p])
            /\ \A d \in Cone : preimageCone(preimageCone(d, group[i]), group[p])
                                 = preimageCone(d, group[h])
      BY <2>2, GroupFacts, Zenon
    <2>4. k \in DOMAIN group /\ group[k] = group[h]
      BY <2>3
    <2> HIDE DEF k
    <2>5. orbit[k] = preimageCone(orbit[i], group[p])
      BY <1>1, <2>2, <2>3, <2>4
    <2> QED
      BY <1>3, <2>1, <2>4, <2>5 DEF i
  <1> QED
    BY <1>1, <1>2, <1>5, <1>6 DEF es

-----------------------------------------------------------------------------
(* Positions in a sequence of sequences *)

Prefix(ss, k) == [m \in 1..k |-> ss[m]]

\* How many elements come before those of the n-th sequence.
Before(ss, n) == Len(FlattenSeq(Prefix(ss, n - 1)))

\* The parts from which FlattenSeq() is made up are those of the prefixes.
LEMMA FlattenPrefix ==
  ASSUME NEW S, NEW ss \in Seq(Seq(S)), NEW f, f[1] = ss[1],
         \A i \in 2..Len(ss) : f[i] = f[i - 1] \o ss[i],
         NEW k \in 1..Len(ss)
  PROVE  FlattenSeq(Prefix(ss, k)) = f[k]
  <1> DEFINE pp == Prefix(ss, k)
  <1>1. Len(ss) \in Nat /\ k \in Nat /\ k # 0
    OBVIOUS
  <1>2. pp \in Seq(Seq(S)) /\ Len(pp) = k /\ \A m \in 1..k : pp[m] = ss[m]
    BY <1>1 DEF Prefix
  <1> HIDE DEF pp
  <1>3. \E g : /\ FlattenSeq(pp) = g[Len(pp)]
               /\ g[1] = pp[1]
               /\ \A i \in 2..Len(pp) : g[i] = g[i - 1] \o pp[i]
    <2>1. Len(pp) # 0
      BY <1>1, <1>2
    <2> QED
      BY <1>2, <2>1, FlattenRecursion, Zenon
  <1>4. PICK g : /\ FlattenSeq(pp) = g[k]
                 /\ g[1] = pp[1]
                 /\ \A i \in 2..k : g[i] = g[i - 1] \o pp[i]
    BY <1>2, <1>3, Zenon
  <1> DEFINE Q == {j \in Nat : j = 0 \/ g[j] = f[j]}
  <1>5. 0 \in Q
    OBVIOUS
  <1>6. ASSUME NEW j \in 0 .. k - 1, j \in Q PROVE j + 1 \in Q
    <2>1. j + 1 \in Nat /\ j + 1 \in 1..k /\ (j + 1) - 1 = j
      BY <1>1
    <2>2. CASE j = 0
      <3>1. g[1] = f[1]
        BY <1>1, <1>2, <1>4
      <3> QED
        BY <2>2, <3>1
    <2>3. CASE j # 0
      <3>1. j + 1 \in 2..k /\ j + 1 \in 2..Len(ss)
        BY <1>1, <2>3
      <3>2. g[j + 1] = g[j] \o ss[j + 1]
        BY <1>2, <1>4, <2>1, <3>1
      <3>3. f[j + 1] = f[j] \o ss[j + 1]
        BY <2>1, <3>1
      <3>4. g[j] = f[j]
        BY <1>6, <2>3
      <3> QED
        BY <2>1, <3>2, <3>3, <3>4
    <2> QED
      BY <2>2, <2>3
  <1>7. k \in Q
    <2> HIDE DEF Q
    <2>1. \A j \in 0 .. k - 1 : j \in Q => j + 1 \in Q
      BY <1>6
    <2>2. \A j \in 0..k : j \in Q
      BY <1>1, <1>5, <2>1, BoundedInduction
    <2> QED
      BY <1>1, <2>2
  <1>8. g[k] = f[k]
    BY <1>1, <1>7
  <1> QED
    BY <1>4, <1>8 DEF pp

\* The elements of the n-th sequence come behind those before them, in their
\* order, and there are no others.
LEMMA FlattenAt ==
  ASSUME NEW S, NEW ss \in Seq(Seq(S))
  PROVE  /\ FlattenSeq(ss) \in Seq(S)
         /\ \A n \in DOMAIN ss :
              /\ Before(ss, n) \in Nat
              /\ \A e \in DOMAIN ss[n] :
                   /\ Before(ss, n) + e \in DOMAIN FlattenSeq(ss)
                   /\ FlattenSeq(ss)[Before(ss, n) + e] = ss[n][e]
         /\ \A i \in DOMAIN FlattenSeq(ss) :
              \E n \in DOMAIN ss : \E e \in DOMAIN ss[n] : i = Before(ss, n) + e
  <1> DEFINE B(n) == Before(ss, n)
             Good(t, k) ==
               /\ t \in Seq(S)
               /\ \A n \in 1..k : /\ B(n) \in Nat
                                  /\ \A e \in DOMAIN ss[n] :
                                       /\ B(n) + e \in DOMAIN t
                                       /\ t[B(n) + e] = ss[n][e]
               /\ \A i \in DOMAIN t :
                    \E n \in 1..k : \E e \in DOMAIN ss[n] : i = B(n) + e
  <1>1. DOMAIN ss = 1..Len(ss) /\ Len(ss) \in Nat
    OBVIOUS
  <1>2. \A n \in DOMAIN ss : ss[n] \in Seq(S)
    OBVIOUS
  <1>3. CASE Len(ss) = 0
    <2>1. FlattenSeq(ss) = <<>>
      BY <1>3 DEF FlattenSeq
    <2>2. DOMAIN ss = {}
      BY <1>3
    <2> HIDE DEF B
    <2> QED
      BY <2>1, <2>2
  <1>4. CASE Len(ss) # 0
    <2>1. PICK f : /\ FlattenSeq(ss) = f[Len(ss)]
                   /\ f[1] = ss[1]
                   /\ \A i \in 2..Len(ss) : f[i] = f[i - 1] \o ss[i]
      BY <1>4, FlattenRecursion, Zenon
    <2>2. B(1) = 0
      <3>1. Prefix(ss, 1 - 1) = [m \in 1..0 |-> ss[m]]
        BY DEF Prefix
      <3>2. Prefix(ss, 1 - 1) = <<>>
        BY <3>1
      <3>3. FlattenSeq(<<>>) = <<>>
        BY DEF FlattenSeq
      <3> QED
        BY <3>2, <3>3 DEF Before
    <2>3. ASSUME NEW k \in 1..Len(ss) - 1 PROVE B(k + 1) = Len(f[k])
      <3>1. k \in 1..Len(ss) /\ (k + 1) - 1 = k
        BY <1>1
      <3>2. FlattenSeq(Prefix(ss, k)) = f[k]
        BY <2>1, <3>1, FlattenPrefix
      <3> QED
        BY <3>1, <3>2 DEF Before
    <2> HIDE DEF B
    <2> DEFINE P == {k \in Nat : k = 0 \/ Good(f[k], k)}
    <2>4. 0 \in P
      OBVIOUS
    <2>5. 1 \in P
      <3>1. ss[1] \in Seq(S) /\ \A e \in DOMAIN ss[1] : e \in Nat
        BY <1>1, <1>2, <1>4
      <3>2. Good(ss[1], 1)
        <4>1. \A n \in 1..1 : n = 1
          OBVIOUS
        <4>2. \A e \in DOMAIN ss[1] : 0 + e = e
          BY <3>1
        <4> QED
          BY <2>2, <3>1, <4>1, <4>2
      <3> HIDE DEF Good
      <3> QED
        BY <2>1, <3>2
    <2>6. ASSUME NEW k \in 0 .. Len(ss) - 1, k \in P, k # 0
          PROVE  k + 1 \in P
      <3> DEFINE t == f[k]
                 u == ss[k + 1]
      <3>1. k + 1 \in DOMAIN ss /\ k + 1 \in 2..Len(ss) /\ k \in Nat
            /\ k \in 1..Len(ss) - 1 /\ (k + 1) - 1 = k /\ k + 1 \in Nat
        BY <1>1, <2>6
      <3>2. f[k + 1] = t \o u
        BY <2>1, <3>1
      <3>3. Good(t, k) /\ u \in Seq(S) /\ B(k + 1) = Len(t)
        BY <1>2, <2>3, <2>6, <3>1
      <3>4. u = ss[k + 1]
        OBVIOUS
      <3> HIDE DEF t, u
      <3>5. /\ t \o u \in Seq(S) /\ Len(t) \in Nat
            /\ DOMAIN (t \o u) = 1 .. Len(t) + Len(u) /\ Len(u) \in Nat
            /\ DOMAIN t = 1..Len(t) /\ DOMAIN u = 1..Len(u)
            /\ \A i \in 1..Len(t) : (t \o u)[i] = t[i]
            /\ \A i \in 1..Len(u) : (t \o u)[Len(t) + i] = u[i]
        BY <3>3
      <3>6. ASSUME NEW n \in 1 .. k + 1
            PROVE  /\ B(n) \in Nat
                   /\ \A e \in DOMAIN ss[n] :
                        /\ B(n) + e \in DOMAIN (t \o u)
                        /\ (t \o u)[B(n) + e] = ss[n][e]
        <4>1. CASE n = k + 1
          <5>1. B(n) = Len(t) /\ ss[n] = u
            BY <3>3, <3>4, <4>1
          <5>2. \A e \in 1..Len(u) :
                  /\ Len(t) + e \in 1 .. Len(t) + Len(u)
                  /\ (t \o u)[Len(t) + e] = u[e]
            BY <3>5
          <5> QED
            BY <3>5, <5>1, <5>2
        <4>2. CASE n \in 1..k
          <5>1. /\ B(n) \in Nat
                /\ \A e \in DOMAIN ss[n] :
                     B(n) + e \in DOMAIN t /\ t[B(n) + e] = ss[n][e]
            BY <3>3, <4>2
          <5> QED
            BY <3>5, <5>1
        <4> QED
          BY <3>1, <4>1, <4>2
      <3>7. ASSUME NEW i \in DOMAIN (t \o u)
            PROVE  \E n \in 1 .. k + 1 : \E e \in DOMAIN ss[n] : i = B(n) + e
        <4>1. CASE i \in DOMAIN t
          <5>1. PICK n \in 1..k : \E e \in DOMAIN ss[n] : i = B(n) + e
            BY <3>3, <4>1
          <5>2. n \in 1 .. k + 1
            BY <3>1
          <5> QED
            BY <5>1, <5>2
        <4>2. CASE i \notin DOMAIN t
          <5>1. i - Len(t) \in DOMAIN u /\ i = Len(t) + (i - Len(t))
            BY <3>5, <4>2
          <5>2. k + 1 \in 1 .. k + 1
            BY <3>1
          <5> QED
            BY <3>3, <3>4, <5>1, <5>2
        <4> QED
          BY <4>1, <4>2
      <3>8. Good(t \o u, k + 1)
        BY <3>5, <3>6, <3>7
      <3> HIDE DEF Good
      <3>9. Good(f[k + 1], k + 1)
        BY <3>2, <3>8, Zenon
      <3> QED
        BY <3>1, <3>9
    <2>7. Len(ss) \in P
      <3> HIDE DEF P
      <3>1. \A k \in 0 .. Len(ss) - 1 : k \in P => k + 1 \in P
        BY <2>5, <2>6
      <3>2. \A k \in 0..Len(ss) : k \in P
        BY <1>1, <2>4, <3>1, BoundedInduction
      <3> QED
        BY <1>1, <3>2
    <2>8. Good(FlattenSeq(ss), Len(ss))
      <3> HIDE DEF Good
      <3> QED
        BY <1>4, <2>1, <2>7
    <2> QED
      BY <1>1, <2>8 DEF B
  <1> QED
    BY <1>1, <1>3, <1>4

\* A prefix is a sequence of the first sequences.
LEMMA PrefixShape ==
  ASSUME NEW S, NEW ss \in Seq(S), NEW k \in 0..Len(ss)
  PROVE  /\ Prefix(ss, k) \in Seq(S) /\ Len(Prefix(ss, k)) = k
         /\ DOMAIN Prefix(ss, k) = 1..k
         /\ \A m \in 1..k : m \in DOMAIN ss /\ Prefix(ss, k)[m] = ss[m]
  <1>1. k \in Nat /\ Len(ss) \in Nat /\ DOMAIN ss = 1..Len(ss)
    OBVIOUS
  <1>2. \A m \in 1..k : m \in DOMAIN ss /\ ss[m] \in S
    BY <1>1
  <1> QED
    BY <1>1, <1>2 DEF Prefix

\* In particular one of sequences.
LEMMA PrefixOfSequences ==
  ASSUME NEW S, NEW ss \in Seq(Seq(S)), NEW k \in 0..Len(ss)
  PROVE  /\ Prefix(ss, k) \in Seq(Seq(S)) /\ Len(Prefix(ss, k)) = k
         /\ DOMAIN Prefix(ss, k) = 1..k
         /\ \A m \in 1..k : m \in DOMAIN ss /\ Prefix(ss, k)[m] = ss[m]
  <1> DEFINE U == Seq(S)
  <1>1. ss \in Seq(U)
    OBVIOUS
  <1> SUFFICES /\ Prefix(ss, k) \in Seq(U) /\ Len(Prefix(ss, k)) = k
               /\ DOMAIN Prefix(ss, k) = 1..k
               /\ \A m \in 1..k : m \in DOMAIN ss /\ Prefix(ss, k)[m] = ss[m]
    OBVIOUS
  <1> HIDE DEF U
  <1> QED
    BY <1>1, PrefixShape

\* How many elements come before depends only on the lengths of the sequences.
LEMMA BeforeAgrees ==
  ASSUME NEW S, NEW ss \in Seq(Seq(S)), NEW tt \in Seq(Seq(S)),
         Len(ss) = Len(tt),
         \A n \in DOMAIN ss : DOMAIN ss[n] = DOMAIN tt[n]
  PROVE  \A n \in DOMAIN ss : Before(ss, n) = Before(tt, n)
  <1> SUFFICES ASSUME NEW n \in DOMAIN ss
               PROVE  Before(ss, n) = Before(tt, n)
    OBVIOUS
  <1> DEFINE a == Prefix(ss, n - 1)
             b == Prefix(tt, n - 1)
  <1>1. /\ n \in 1..Len(ss) /\ Len(ss) \in Nat
        /\ DOMAIN ss = 1..Len(ss) /\ DOMAIN tt = 1..Len(ss)
    OBVIOUS
  <1>2. n - 1 \in 0..Len(ss) /\ n - 1 \in 0..Len(tt)
    BY <1>1
  <1>3. /\ a \in Seq(Seq(S)) /\ Len(a) = n - 1 /\ DOMAIN a = 1 .. n - 1
        /\ \A m \in 1 .. n - 1 : m \in DOMAIN ss /\ a[m] = ss[m]
    BY <1>2, PrefixOfSequences
  <1>4. /\ b \in Seq(Seq(S)) /\ Len(b) = n - 1
        /\ \A m \in 1 .. n - 1 : b[m] = tt[m]
    BY <1>2, PrefixOfSequences
  <1> HIDE DEF a, b
  <1>5. DOMAIN FlattenSeq(a) = DOMAIN FlattenSeq(b)
    <2>1. \A m \in DOMAIN a : DOMAIN a[m] = DOMAIN b[m]
      BY <1>3, <1>4
    <2>2. Len(a) = Len(b)
      BY <1>3, <1>4
    <2>3. a \in Seq(Seq(S)) /\ b \in Seq(Seq(S))
      BY <1>3, <1>4
    <2> QED
      BY <2>1, <2>2, <2>3, FlattenLength
  <1>6. FlattenSeq(a) \in Seq(S) /\ FlattenSeq(b) \in Seq(S)
    BY <1>3, <1>4, Flatten
  <1>7. Len(FlattenSeq(a)) = Len(FlattenSeq(b))
    <2> DEFINE x == FlattenSeq(a)
               y == FlattenSeq(b)
    <2>1. x \in Seq(S) /\ y \in Seq(S) /\ DOMAIN x = DOMAIN y
      BY <1>5, <1>6
    <2> HIDE DEF x, y
    <2>2. Len(x) = Len(y)
      BY <2>1
    <2> QED
      BY <2>2 DEF x, y
  <1> QED
    BY <1>7 DEF Before, a, b

-----------------------------------------------------------------------------
(* Which cones the list stands for *)

\* The cones of a-faces are cones, and what is left of them when they are cut.
LEMMA RepresentativesAreCones ==
  ASSUME ProblemShape
  PROVE  AFaceCones \subseteq Cone /\ RepresentativeCones \subseteq Cone
  <1>1. Range(in_data.afaces) \subseteq AFace
    BY ProblemFacts DEF Range
  <1>2. AFaceCones \subseteq Cone
    BY <1>1, ConeAssumption DEF AFaceCones
  <1>3. RepresentativeCones =
          IF in_data.moving_cone
          THEN {intersectWithMovingCone(c) : c \in AFaceCones} \ {NoCone}
          ELSE AFaceCones
    BY DEF RepresentativeCones, AFaceCones
  <1> HIDE DEF AFaceCones
  <1> QED
    BY <1>2, <1>3, ConeAssumption

\* The range of a list of results in some order is that of the results.
LEMMA InOrderRange ==
  ASSUME NEW results, IsFiniteSet(DOMAIN results),
         NEW l, IsInOrder(l, results)
  PROVE  Range(l) = Range(results)
  <1>1. PICK at \in [1..Cardinality(DOMAIN results) -> DOMAIN results] :
          l = [i \in DOMAIN at |-> results[at[i]]]
    BY DEF IsInOrder
  <1>2. \A i \in DOMAIN l : l[i] \in Range(results)
    BY <1>1 DEF Range
  <1>3. \A x \in DOMAIN results : \E i \in DOMAIN l : l[i] = results[x]
    BY InOrderOnto
  <1> QED
    BY <1>2, <1>3 DEF Range

\* compute_orbit_cones: the files have the cones of the a-faces.
LEMMA ComputeCones ==
  ASSUME OrbitInv, ConesInv, compute_orbit_cones
  PROVE  ConesInv'
  <1> DEFINE results == compute_orbit_cones_process
             face(p) == CHOOSE f \in Range(list) : AFacePath(f) = p
             new == [p \in Range(results) |-> computeOrbitCone(face(p)).content]
  <1>1. /\ control = "aface_reps_available"
        /\ control' = "orbit_cone_reps_available"
        /\ IsInOrder(list', results)
        /\ UNCHANGED <<in_data, enable_clean, symmetry_group_on_hashes>>
    BY ListStepOrder DEF compute_orbit_cones
  <1>2. /\ list \in Seq(Range(in_data.afaces))
        /\ Range(list) = Range(in_data.afaces)
    BY <1>1 DEF OrbitInv, ListShape, ListsAFaces, ConesInv
  <1>3. results = [i \in DOMAIN list |-> AFacePath(list[i])]
    BY DEF compute_orbit_cones_process, computeOrbitCone
  <1>4. cone_files' = Overwrite(cone_files, new)
    BY DEF compute_orbit_cones
  <1>5. ASSUME NEW f \in Range(list)
        PROVE  AFacePath(f) \in Range(results)
    BY <1>3 DEF Range
  <1>6. ASSUME NEW f \in Range(list)
        PROVE  cone_files'[AFacePath(f)] = computeOrbitConeForAFace(f)
    <2>1. face(AFacePath(f)) = f
      BY <1>2, ProblemFacts DEF OrbitInv
    <2> HIDE DEF face
    <2>2. new[AFacePath(f)] = computeOrbitConeForAFace(f)
      BY <1>5, <2>1 DEF computeOrbitCone
    <2>3. DOMAIN new = Range(results)
      OBVIOUS
    <2> HIDE DEF new, results
    <2> QED
      BY <1>4, <1>5, <2>2, <2>3 DEF Overwrite
  <1>7. Range(list') = Range(results)
    <2>1. IsFiniteSet(DOMAIN results)
      BY <1>2, <1>3, FiniteIndices
    <2> HIDE DEF results
    <2> QED
      BY <1>1, <2>1, InOrderRange
  <1>8. Range(results) = {AFacePath(f) : f \in Range(list)}
    BY <1>3 DEF Range
  <1> HIDE DEF results, new
  <1>9. ConesOf(list)' = {cone_files'[AFacePath(f)] : f \in Range(list)}
    <2>1. ConesOf(list)' = {cone_files'[p] : p \in Range(list')}
      BY DEF ConesOf, Content
    <2> QED
      BY <1>7, <1>8, <2>1
  <1>10. ConesOf(list)' = AFaceCones'
    <2>1. AFaceCones' = {computeOrbitConeForAFace(f) : f \in Range(list)}
      BY <1>1, <1>2 DEF AFaceCones
    <2> QED
      BY <1>6, <1>9, <2>1
  <1> QED
    BY <1>1, <1>10 DEF ConesInv, ListsAFaces, ListsOrbits, ListsFinalPaths

\* intersect_with_moving_cone: they have these cones, cut, if there is a moving
\* cone.
LEMMA IntersectCones ==
  ASSUME OrbitInv, ConesInv, intersect_with_moving_cone
  PROVE  ConesInv'
  <1> DEFINE results == intersect_with_moving_cone_process
             cut(p) == intersectWithMovingCone(Content(p))
             kept == {i \in DOMAIN list : cut(list[i]) # NoCone}
             cuts == [p \in Range(KeptOrbitCones) |-> cut(p)]
  <1>1. /\ control = "orbit_cone_reps_available"
        /\ control' = "intersected_orbit_cone_reps_available"
        /\ IsInOrder(list', results)
        /\ UNCHANGED <<in_data, enable_clean, symmetry_group_on_hashes>>
    BY ListStepOrder DEF intersect_with_moving_cone
  <1>2. list \in Seq(DOMAIN cone_files) /\ ConesOf(list) = AFaceCones
    BY <1>1 DEF OrbitInv, ListShape, ListsAFaces, ListsOrbits, ConesInv
  <1>3. KeptOrbitCones = [i \in kept |-> list[i]]
    BY DEF KeptOrbitCones, Restrict
  <1>4. DOMAIN results \subseteq DOMAIN list
    BY <1>3 DEF intersect_with_moving_cone_process
  <1>5. Range(list') = Range(results)
    <2>1. IsFiniteSet(DOMAIN results)
      BY <1>2, <1>4, FiniteIndices
    <2> HIDE DEF results
    <2> QED
      BY <1>1, <2>1, InOrderRange
  <1>6. ConesOf(list)' = {cone_files'[p] : p \in Range(results)}
    BY <1>5 DEF ConesOf, Content
  <1>7. RepresentativeCones' = RepresentativeCones
    BY <1>1 DEF RepresentativeCones
  <1>8. CASE in_data.moving_cone
    <2>1. results = KeptOrbitCones /\ cone_files' = Overwrite(cone_files, cuts)
      BY <1>8 DEF intersect_with_moving_cone_process, intersect_with_moving_cone
    <2>2. ASSUME NEW p \in Range(results) PROVE cone_files'[p] = cut(p)
      <3>1. cuts[p] = cut(p) /\ p \in DOMAIN cuts
        BY <2>1
      <3> HIDE DEF cuts, cut
      <3> QED
        BY <2>1, <3>1 DEF Overwrite
    <2>3. Range(results) = {p \in Range(list) : cut(p) # NoCone}
      <3>1. Range(results) = {list[i] : i \in kept}
        BY <1>3, <2>1 DEF Range
      <3> HIDE DEF cut, results
      <3> QED
        BY <3>1 DEF Range
    <2>4. ConesOf(list)' =
            {intersectWithMovingCone(c) : c \in ConesOf(list)} \ {NoCone}
      <3>1. ConesOf(list) = {Content(p) : p \in Range(list)}
        BY DEF ConesOf
      <3> HIDE DEF results, cuts
      <3>2. ASSUME NEW c \in ConesOf(list)'
            PROVE  c \in {intersectWithMovingCone(d) : d \in ConesOf(list)} \ {NoCone}
        BY <1>6, <2>2, <2>3, <3>1
      <3>3. ASSUME NEW d \in ConesOf(list), intersectWithMovingCone(d) # NoCone
            PROVE  intersectWithMovingCone(d) \in ConesOf(list)'
        <4>1. PICK p \in Range(list) : d = Content(p)
          BY <3>1
        <4>2. p \in Range(results) /\ cone_files'[p] = intersectWithMovingCone(d)
          BY <2>2, <2>3, <3>3, <4>1
        <4> QED
          BY <1>6, <4>2
      <3> QED
        BY <3>2, <3>3
    <2>5. RepresentativeCones =
            {intersectWithMovingCone(c) : c \in AFaceCones} \ {NoCone}
      BY <1>8 DEF RepresentativeCones, AFaceCones
    <2>6. ConesOf(list)' = RepresentativeCones'
      BY <1>2, <1>7, <2>4, <2>5
    <2> QED
      BY <1>1, <2>6 DEF ConesInv, ListsAFaces, ListsOrbits, ListsFinalPaths
  <1>9. CASE ~ in_data.moving_cone
    <2>1. results = list /\ cone_files' = cone_files
      BY <1>9 DEF intersect_with_moving_cone_process, intersect_with_moving_cone
    <2>2. ConesOf(list)' = ConesOf(list)
      BY <1>6, <2>1 DEF ConesOf, Content
    <2>3. RepresentativeCones = AFaceCones
      BY <1>9 DEF RepresentativeCones, AFaceCones
    <2>4. ConesOf(list)' = RepresentativeCones'
      BY <1>2, <1>7, <2>2, <2>3
    <2> QED
      BY <1>1, <2>4 DEF ConesInv, ListsAFaces, ListsOrbits, ListsFinalPaths
  <1> QED
    BY <1>8, <1>9

\* The orbit of the n-th cone is a sequence of as many cones as there are
\* symmetries.
LEMMA OrbitOfShape ==
  ASSUME ProblemShape, NEW n, Content(list[n]) \in Cone
  PROVE  /\ OrbitOf(n) = computeOrbitConeOrbitWithDuplicates(Content(list[n]))
         /\ OrbitOf(n) \in Seq(Cone) /\ OrbitOf(n) # <<>>
         /\ DOMAIN OrbitOf(n) = DOMAIN group
  <1>1. OrbitOf(n) = [i \in DOMAIN group |->
                        preimageCone(Content(list[n]), group[i])]
    BY DEF OrbitOf, computeOrbitConeOrbitWithDuplicates
  <1>2. \A i \in DOMAIN group : preimageCone(Content(list[n]), group[i]) \in Cone
    BY ProblemFacts
  <1>3. DOMAIN group = 1..Len(group) /\ Len(group) \in Nat /\ Len(group) # 0
    BY ProblemFacts
  <1>4. OrbitOf(n) \in Seq(Cone) /\ OrbitOf(n) # <<>>
        /\ DOMAIN OrbitOf(n) = DOMAIN group
    BY <1>1, <1>2, <1>3
  <1> QED
    BY <1>4 DEF OrbitOf

\* An orbit in the list, in the files a step leaves.
OrbitIn(files, actions, symmetries, orbit, cones) ==
  /\ {files[p] : p \in Range(orbit.elements)} = cones
  /\ \A i, j \in DOMAIN orbit.elements :
       files[orbit.elements[i]] = files[orbit.elements[j]] => i = j
  /\ \A i \in DOMAIN orbit.elements \ {1} :
       Less(files[orbit.elements[1]], files[orbit.elements[i]])
  /\ \A p \in DOMAIN symmetries : \A i \in DOMAIN orbit.elements :
       LET q == actions[orbit.group_action][p][i]
       IN  /\ q \in DOMAIN orbit.elements
           /\ files[orbit.elements[q]] =
                preimageCone(files[orbit.elements[i]], symmetries[p])

\* The files of an orbit have its cones once each, the least one first, and
\* its action permutes them as the symmetries do.
LEMMA ExpandedOrbit ==
  ASSUME ProblemShape, NEW c \in Cone, NEW orbit \in Seq(Cone), orbit # <<>>,
         orbit = computeOrbitConeOrbitWithDuplicates(c), NEW n, NEW files,
         \A i \in DOMAIN group : files[OrbitPath(n, i)] = orbit[i],
         NEW actions, actions[n] = GroupActionOnOrbit(orbit)
  PROVE  OrbitIn(files, actions, group, expandOrbitConeOrbit(n, orbit), Orbit(c))
  <1> DEFINE es == Elements(orbit)
             o == expandOrbitConeOrbit(n, orbit)
             a == GroupActionOnOrbit(orbit)
  <1>1. /\ \A e \in DOMAIN es : es[e] \in DOMAIN group
        /\ {orbit[es[e]] : e \in DOMAIN es} = Orbit(c)
        /\ \A p \in DOMAIN group, e \in DOMAIN es :
             /\ a[p][e] \in DOMAIN es
             /\ orbit[es[a[p][e]]] = preimageCone(orbit[es[e]], group[p])
    BY ActionOnOrbit
  <1>2. /\ 1 \in DOMAIN es
        /\ \A j, k \in DOMAIN es : orbit[es[j]] = orbit[es[k]] => j = k
        /\ \A j \in DOMAIN es \ {1} : Less(orbit[es[1]], orbit[es[j]])
    BY ElementsOfOrbit
  <1>3. /\ o.elements = [e \in DOMAIN es |-> OrbitPath(n, es[e])]
        /\ o.group_action = n
    BY DEF expandOrbitConeOrbit
  <1> HIDE DEF es, o, a
  <1>4. DOMAIN o.elements = DOMAIN es
    BY <1>3
  <1>5. \A e \in DOMAIN es : files[o.elements[e]] = orbit[es[e]]
    BY <1>1, <1>3
  <1>6. {files[p] : p \in Range(o.elements)} = Orbit(c)
    <2>1. {files[p] : p \in Range(o.elements)} =
            {files[o.elements[e]] : e \in DOMAIN es}
      BY <1>4 DEF Range
    <2>2. {files[o.elements[e]] : e \in DOMAIN es} =
            {orbit[es[e]] : e \in DOMAIN es}
      BY <1>5
    <2> QED
      BY <1>1, <2>1, <2>2, Zenon
  <1>7. \A i, j \in DOMAIN o.elements :
          files[o.elements[i]] = files[o.elements[j]] => i = j
    BY <1>2, <1>4, <1>5
  <1>8. \A i \in DOMAIN o.elements \ {1} :
          Less(files[o.elements[1]], files[o.elements[i]])
    BY <1>2, <1>4, <1>5
  <1>9. ASSUME NEW p \in DOMAIN group, NEW i \in DOMAIN o.elements
        PROVE  LET q == actions[o.group_action][p][i]
               IN  /\ q \in DOMAIN o.elements
                   /\ files[o.elements[q]] =
                        preimageCone(files[o.elements[i]], group[p])
    <2>1. actions[o.group_action][p][i] = a[p][i]
      BY <1>3 DEF a
    <2>2. /\ a[p][i] \in DOMAIN es
          /\ orbit[es[a[p][i]]] = preimageCone(orbit[es[i]], group[p])
      BY <1>1, <1>4
    <2> QED
      BY <1>4, <1>5, <2>1, <2>2
  <1>10. OrbitIn(files, actions, group, o, Orbit(c))
    BY <1>6, <1>7, <1>8, <1>9 DEF OrbitIn
  <1> QED
    BY <1>10 DEF o

\* expand_orbit_cone_orbits: the list has the orbits of the cones.
LEMMA ExpandCones ==
  ASSUME OrbitInv, ConesInv, expand_orbit_cone_orbits
  PROVE  ConesInv'
  <1> DEFINE results == expand_orbit_cone_orbits_process
             orbit == [n \in DOMAIN list |-> OrbitOf(n)]
             written == {OrbitPath(n, i) : n \in DOMAIN list, i \in DOMAIN group}
             new == [p \in written |-> orbit[p.name[1]][p.name[2]]]
             In(o, c) == OrbitIn(cone_files', action_files', group, o, Orbit(c))
  <1>1. /\ control = "intersected_orbit_cone_reps_available"
        /\ control' = "orbit_cone_orbits_available"
        /\ IsInOrder(list', results)
        /\ UNCHANGED <<in_data, enable_clean, symmetry_group_on_hashes>>
    BY ListStepOrder DEF expand_orbit_cone_orbits
  <1>2. /\ list \in Seq(DOMAIN cone_files)
        /\ ConesOf(list) = RepresentativeCones
        /\ ProblemShape
        /\ \A p \in DOMAIN cone_files : Content(p) \in Cone
    BY <1>1 DEF OrbitInv, ListShape, FileShape, ListsAFaces, ListsOrbits, ConesInv
  <1>3. group' = group /\ RepresentativeCones' = RepresentativeCones
    BY <1>1 DEF group, RepresentativeCones
  <1>4. ASSUME NEW n \in DOMAIN list
        PROVE  /\ Content(list[n]) \in Cone
               /\ OrbitOf(n) = computeOrbitConeOrbitWithDuplicates(Content(list[n]))
               /\ OrbitOf(n) \in Seq(Cone) /\ OrbitOf(n) # <<>>
    <2>1. Content(list[n]) \in Cone
      BY <1>2
    <2> QED
      BY <1>2, <2>1, OrbitOfShape
  <1>5. /\ cone_files' = Overwrite(cone_files, new)
        /\ action_files' = [n \in DOMAIN list |-> GroupActionOnOrbit(orbit[n])]
    BY DEF expand_orbit_cone_orbits
  <1>6. ASSUME NEW n \in DOMAIN list, NEW i \in DOMAIN group
        PROVE  cone_files'[OrbitPath(n, i)] = OrbitOf(n)[i]
    <2>1. OrbitPath(n, i) \in written
      OBVIOUS
    <2>2. OrbitPath(n, i).name[1] = n /\ OrbitPath(n, i).name[2] = i
      BY DEF OrbitPath
    <2>3. new[OrbitPath(n, i)] = orbit[n][i] /\ DOMAIN new = written
      BY <2>1, <2>2
    <2>4. orbit[n] = OrbitOf(n)
      OBVIOUS
    <2> HIDE DEF new, orbit, written
    <2> QED
      BY <1>5, <2>1, <2>3, <2>4 DEF Overwrite
  <1>7. \A n \in DOMAIN list : action_files'[n] = GroupActionOnOrbit(OrbitOf(n))
    BY <1>5
  <1>8. /\ DOMAIN results = DOMAIN list
        /\ \A n \in DOMAIN list : results[n] = expandOrbitConeOrbit(n, OrbitOf(n))
    BY DEF expand_orbit_cone_orbits_process
  <1> HIDE DEF results, orbit, written, new
  <1>9. ASSUME NEW n \in DOMAIN list PROVE In(results[n], Content(list[n]))
    <2> DEFINE files == cone_files'
               actions == action_files'
    <2>1. \A i \in DOMAIN group : files[OrbitPath(n, i)] = OrbitOf(n)[i]
      BY <1>6
    <2>2. actions[n] = GroupActionOnOrbit(OrbitOf(n))
      BY <1>7
    <2> HIDE DEF files, actions
    <2>3. OrbitIn(files, actions, group, expandOrbitConeOrbit(n, OrbitOf(n)),
                  Orbit(Content(list[n])))
      BY <1>2, <1>4, <2>1, <2>2, ExpandedOrbit
    <2> QED
      BY <1>8, <2>3 DEF files, actions
  <1>10. Range(list') = Range(results)
    <2>1. IsFiniteSet(DOMAIN results)
      BY <1>2, <1>8, FiniteIndices
    <2> QED
      BY <1>1, <2>1, InOrderRange
  <1>11. \A n \in DOMAIN list : Content(list[n]) \in RepresentativeCones
    BY <1>2 DEF ConesOf, Range
  <1>12. \A c \in RepresentativeCones : \E n \in DOMAIN list : c = Content(list[n])
    BY <1>2 DEF ConesOf, Range
  <1> HIDE DEF In
  <1>13. \A m \in DOMAIN list' : \E c \in RepresentativeCones : In(list'[m], c)
    <2> SUFFICES ASSUME NEW m \in DOMAIN list'
                 PROVE  \E c \in RepresentativeCones : In(list'[m], c)
      OBVIOUS
    <2>1. PICK n \in DOMAIN list : list'[m] = results[n]
      BY <1>8, <1>10 DEF Range
    <2> QED
      BY <1>9, <1>11, <2>1
  <1>14. \A c \in RepresentativeCones : \E m \in DOMAIN list' : In(list'[m], c)
    <2> SUFFICES ASSUME NEW c \in RepresentativeCones
                 PROVE  \E m \in DOMAIN list' : In(list'[m], c)
      OBVIOUS
    <2>1. PICK n \in DOMAIN list : c = Content(list[n])
      BY <1>12
    <2>2. PICK m \in DOMAIN list' : list'[m] = results[n]
      BY <1>8, <1>10 DEF Range
    <2> QED
      BY <1>9, <2>1, <2>2
  <1>15. /\ \A n \in DOMAIN list' :
              \E c \in RepresentativeCones' : IsOrbitOf(list[n], c)'
         /\ \A c \in RepresentativeCones' :
              \E n \in DOMAIN list' : IsOrbitOf(list[n], c)'
    <2>1. ASSUME NEW n, NEW c, In(list'[n], c) PROVE IsOrbitOf(list[n], c)'
      BY <1>3, <2>1 DEF In, IsOrbitOf, ConesOf, HasConesOnce, PermutesCones,
                        OrbitIn, Content, Orbit
    <2> QED
      BY <1>3, <1>13, <1>14, <2>1
  <1> QED
    BY <1>1, <1>15 DEF ConesInv, ListsAFaces, ListsOrbits, ListsFinalPaths

\* A set of indices has a greatest one.
LEMMA GreatestIndex ==
  ASSUME NEW N \in Nat, NEW S \in SUBSET (1..N), S # {}
  PROVE  \E m \in S : \A n \in S : n <= m
  <1> DEFINE R == {k \in Nat : N - k \in S}
  <1>1. \A n \in S : n \in Nat /\ N - n \in Nat /\ N - (N - n) = n
    OBVIOUS
  <1>2. R \in SUBSET Nat /\ R # {}
    <2>1. PICK n \in S : TRUE
      OBVIOUS
    <2>2. N - n \in R
      BY <1>1
    <2> QED
      BY <2>2
  <1>3. PICK k \in R : \A l \in R : k <= l
    <2> HIDE DEF R
    <2> QED
      BY <1>2, LeastNumber
  <1>4. ASSUME NEW n \in S PROVE n <= N - k
    <2>1. N - n \in R
      BY <1>1
    <2>2. k <= N - n
      BY <1>3, <2>1
    <2> QED
      BY <1>1, <2>2
  <1> QED
    BY <1>3, <1>4

\* The first cone of an orbit is its least.
LEMMA FirstCone ==
  ASSUME ProblemShape, NEW o, NEW T, o.elements \in Seq(T),
         NEW c \in Cone, IsOrbitOf(o, c)
  PROVE  /\ 1 \in DOMAIN o.elements
         /\ Content(o.elements[1]) \in Orbit(c)
         /\ \A x \in Orbit(c) : \/ x = Content(o.elements[1])
                                \/ Less(Content(o.elements[1]), x)
  <1>1. Orbit(c) = {Content(o.elements[i]) : i \in DOMAIN o.elements}
    BY DEF IsOrbitOf, ConesOf, Range
  <1>2. c \in Orbit(c)
    BY OrbitFacts
  <1>3. PICK i \in DOMAIN o.elements : TRUE
    BY <1>1, <1>2
  <1>4. 1 \in DOMAIN o.elements
    BY <1>3
  <1>5. \A j \in DOMAIN o.elements \ {1} :
          Less(Content(o.elements[1]), Content(o.elements[j]))
    BY DEF IsOrbitOf
  <1> QED
    BY <1>1, <1>4, <1>5

\* Orbits with the same first cone are the same.
LEMMA SameOrbit ==
  ASSUME ProblemShape, NEW T,
         NEW o, o.elements \in Seq(T), NEW c \in Cone, IsOrbitOf(o, c),
         NEW q, q.elements \in Seq(T), NEW d \in Cone, IsOrbitOf(q, d),
         Content(o.elements[1]) = Content(q.elements[1])
  PROVE  IsOrbitOf(o, d)
  <1>1. Content(o.elements[1]) \in Orbit(c)
    BY FirstCone
  <1>2. Content(q.elements[1]) \in Orbit(d)
    BY FirstCone
  <1>3. Orbit(c) = Orbit(d)
    BY <1>1, <1>2, OrbitsMeet
  <1> QED
    BY <1>3 DEF IsOrbitOf

\* Orbits with a cone in common have the same least cone.
LEMMA SameFirstCone ==
  ASSUME ProblemShape, NEW c \in Cone, NEW d \in Cone,
         NEW x \in Orbit(c), \A z \in Orbit(c) : z = x \/ Less(x, z),
         NEW y \in Orbit(d), \A z \in Orbit(d) : z = y \/ Less(y, z),
         NEW z \in Orbit(c), z \in Orbit(d)
  PROVE  x = y
  <1>1. Orbit(c) = Orbit(d)
    BY OrbitsMeet
  <1>2. x \in Cone /\ y \in Cone
    BY OrbitFacts
  <1>3. y = x \/ Less(x, y)
    BY <1>1
  <1>4. x = y \/ Less(y, x)
    BY <1>1
  <1> QED
    BY <1>2, <1>3, <1>4, OrderAssumption

\* keep_unique_orbit_cones: the last of all equal orbits is kept, and no other.
LEMMA UniqueCones ==
  ASSUME OrbitInv, ConesInv, keep_unique_orbit_cones
  PROVE  ConesInv'
  <1> DEFINE results == keep_unique_orbit_cones_process
             T == [elements : Seq(DOMAIN cone_files), group_action : Nat]
             first(n) == Content(list[n].elements[1])
             last == {n \in DOMAIN list : isLastOfAllEqualOrbitConeOrbits(n)}
  <1>1. /\ control = "orbit_cone_orbits_available"
        /\ control' = "unique_orbit_cone_orbits_available"
        /\ IsInOrder(list', results)
        /\ UNCHANGED <<in_data, cone_files, action_files>>
    BY ListStepOrder DEF keep_unique_orbit_cones
  <1>2. /\ list \in Seq(T) /\ ProblemShape
        /\ \A n \in DOMAIN list :
             \E c \in RepresentativeCones : IsOrbitOf(list[n], c)
        /\ \A c \in RepresentativeCones :
             \E n \in DOMAIN list : IsOrbitOf(list[n], c)
    BY <1>1 DEF OrbitInv, ListShape, ListsOrbits, ConesInv
  <1>3. /\ DOMAIN list = 1..Len(list) /\ Len(list) \in Nat
        /\ \A n \in DOMAIN list : list[n] \in T
    <2> HIDE DEF T
    <2> QED
      BY <1>2
  <1>4. \A n \in DOMAIN list : list[n].elements \in Seq(DOMAIN cone_files)
    BY <1>3
  <1>5. results = [n \in last |-> list[n]]
    BY DEF keep_unique_orbit_cones_process, Restrict
  <1>6. last \subseteq DOMAIN list /\ DOMAIN results = last
    BY <1>5
  <1>7. \A n \in DOMAIN list :
          n \in last <=> \A m \in (n + 1)..Len(list) : first(n) # first(m)
    BY DEF isLastOfAllEqualOrbitConeOrbits
  <1> HIDE DEF results, T, last
  <1>8. PICK at \in [DOMAIN list' -> last] :
          /\ \A i, j \in DOMAIN list' : i # j => at[i] # at[j]
          /\ \A i \in DOMAIN list' : list'[i] = list[at[i]]
    <2>1. IsFiniteSet(DOMAIN results)
      BY <1>2, <1>6, FiniteIndices
    <2>2. \A i \in DOMAIN results : results[i] \in T
      BY <1>3, <1>5, <1>6
    <2>3. PICK at \in [DOMAIN list' -> DOMAIN results] :
            /\ \A i, j \in DOMAIN list' : i # j => at[i] # at[j]
            /\ \A i \in DOMAIN list' : list'[i] = results[at[i]]
      BY <1>1, <2>1, <2>2, InOrder
    <2> QED
      BY <1>5, <1>6, <2>3
  <1>9. \A n \in last : \E i \in DOMAIN list' : list'[i] = list[n]
    <2>1. IsFiniteSet(DOMAIN results)
      BY <1>2, <1>6, FiniteIndices
    <2>2. \A n \in DOMAIN results : \E i \in DOMAIN list' : list'[i] = results[n]
      BY <1>1, <2>1, InOrderOnto
    <2> QED
      BY <1>5, <1>6, <2>2
  <1>10. ASSUME NEW n \in DOMAIN list
         PROVE  \E m \in last : first(m) = first(n)
    <2> DEFINE E == {m \in DOMAIN list : first(m) = first(n)}
    <2>1. E \in SUBSET (1..Len(list)) /\ E # {}
      BY <1>3
    <2>2. PICK m \in E : \A k \in E : k <= m
      <3> HIDE DEF E
      <3> QED
        BY <1>3, <2>1, GreatestIndex
    <2>3. m \in DOMAIN list /\ first(m) = first(n)
      BY <2>2
    <2> HIDE DEF first
    <2>4. ASSUME NEW k \in (m + 1)..Len(list) PROVE first(m) # first(k)
      <3>1. k \in DOMAIN list /\ ~ (k <= m)
        BY <1>3, <2>3
      <3> QED
        BY <2>2, <2>3, <3>1
    <2> QED
      BY <1>7, <2>3, <2>4
  <1>11. \A m, n \in last : first(m) = first(n) => m = n
    <2> HIDE DEF first
    <2> SUFFICES ASSUME NEW m \in last, NEW n \in last, first(m) = first(n), m < n
                 PROVE  FALSE
      BY <1>3, <1>6
    <2>1. n \in (m + 1)..Len(list) /\ m \in DOMAIN list
      BY <1>3, <1>6
    <2> QED
      BY <1>7, <2>1
  <1>12. RepresentativeCones \subseteq Cone
    BY <1>2, RepresentativesAreCones
  <1>13. ASSUME NEW c \in RepresentativeCones
         PROVE  \E i \in DOMAIN list' : IsOrbitOf(list'[i], c)
    <2>1. PICK n \in DOMAIN list : IsOrbitOf(list[n], c)
      BY <1>2
    <2>2. PICK m \in last : first(m) = first(n)
      BY <1>10
    <2>3. m \in DOMAIN list
      BY <1>6
    <2>4. PICK d \in RepresentativeCones : IsOrbitOf(list[m], d)
      BY <1>2, <2>3
    <2>5. IsOrbitOf(list[m], c)
      <3>1. c \in Cone /\ d \in Cone
        BY <1>12
      <3>2. /\ list[m].elements \in Seq(DOMAIN cone_files)
            /\ list[n].elements \in Seq(DOMAIN cone_files)
        BY <1>4, <2>3
      <3>3. Content(list[m].elements[1]) = Content(list[n].elements[1])
        BY <2>2
      <3> QED
        BY <1>2, <2>1, <2>4, <3>1, <3>2, <3>3, SameOrbit
    <2>6. PICK i \in DOMAIN list' : list'[i] = list[m]
      BY <1>9
    <2> QED
      BY <2>5, <2>6
  <1>14. \A i \in DOMAIN list' :
           \E c \in RepresentativeCones : IsOrbitOf(list'[i], c)
    BY <1>2, <1>6, <1>8
  <1>15. \A i, j \in DOMAIN list' :
           Content(list'[i].elements[1]) = Content(list'[j].elements[1]) => i = j
    BY <1>8, <1>11
  <1>16. RepresentativeCones' = RepresentativeCones /\ group' = group
    BY <1>1 DEF RepresentativeCones, group
  <1>17. ASSUME NEW i, NEW c, IsOrbitOf(list'[i], c)
         PROVE  IsOrbitOf(list[i], c)'
    <2>1. /\ cone_files' = cone_files /\ action_files' = action_files
          /\ group' = group
      BY <1>1, <1>16
    <2>2. /\ ConesOf(list'[i].elements) = Orbit(c)
          /\ HasConesOnce(list'[i].elements)
          /\ \A k \in DOMAIN list'[i].elements \ {1} :
               Less(Content(list'[i].elements[1]), Content(list'[i].elements[k]))
          /\ PermutesCones(action_files[list'[i].group_action],
                           list'[i].elements)
      BY <1>17 DEF IsOrbitOf
    <2>3. ConesOf(list[i].elements)' = Orbit(c)'
      BY <2>1, <2>2 DEF ConesOf, Orbit, Content
    <2>4. HasConesOnce(list[i].elements)'
      BY <2>1, <2>2 DEF HasConesOnce, Content
    <2>5. PermutesCones(action_files[list[i].group_action], list[i].elements)'
      BY <2>1, <2>2 DEF PermutesCones, Content
    <2>6. \A k \in DOMAIN list'[i].elements \ {1} :
            Less(Content(list[i].elements[1])', Content(list[i].elements[k])')
      BY <2>1, <2>2 DEF Content
    <2> QED
      BY <2>3, <2>4, <2>5, <2>6 DEF IsOrbitOf
  <1>18. /\ \A n \in DOMAIN list' :
              \E c \in RepresentativeCones' : IsOrbitOf(list[n], c)'
         /\ \A c \in RepresentativeCones' :
              \E n \in DOMAIN list' : IsOrbitOf(list[n], c)'
    BY <1>13, <1>14, <1>16, <1>17
  <1>19. \A m, n \in DOMAIN list' :
           Content(list[m].elements[1])' = Content(list[n].elements[1])' => m = n
    BY <1>1, <1>15 DEF Content
  <1> QED
    BY <1>1, <1>18, <1>19
    DEF ConesInv, ListsAFaces, ListsOrbits, ListsFinalPaths, Content

\* A function on 1..l with values in U is a sequence over U.
LEMMA IsSequence ==
  ASSUME NEW U, NEW l \in Nat, NEW s, s = [i \in 1..l |-> s[i]],
         \A i \in 1..l : s[i] \in U
  PROVE  s \in Seq(U) /\ Len(s) = l
  OBVIOUS

\* The list of orbits and its orbits.
LEMMA OrbitsShape ==
  ASSUME OrbitInv, ListsOrbits
  PROVE  /\ DOMAIN list = 1..Len(list) /\ Len(list) \in Nat
         /\ \A n \in DOMAIN list :
              list[n].elements \in Seq(DOMAIN cone_files)
  <1> DEFINE T == [elements : Seq(DOMAIN cone_files), group_action : Nat]
  <1>1. list \in Seq(T)
    BY DEF OrbitInv, ListShape
  <1>2. /\ DOMAIN list = 1..Len(list) /\ Len(list) \in Nat
        /\ \A n \in DOMAIN list : list[n] \in T
    <2> HIDE DEF T
    <2> QED
      BY <1>1
  <1> QED
    BY <1>2

\* Where the cones of the n-th orbit are among those of all orbits, and what
\* the symmetries make of these numbers.
LEMMA FlattenedPositions ==
  ASSUME OrbitInv, ListsOrbits,
         \A p \in DOMAIN group, n \in DOMAIN list :
           \A e \in DOMAIN list[n].elements :
             action_files[list[n].group_action][p][e] \in DOMAIN list[n].elements
  PROVE  /\ \A n \in DOMAIN list :
              /\ Shift(n) \in Nat
              /\ \A e \in DOMAIN list[n].elements :
                   /\ e \in Nat
                   /\ Shift(n) + e \in DOMAIN Flattened
                   /\ Flattened[Shift(n) + e] = list[n].elements[e]
                   /\ \A p \in DOMAIN group :
                        GroupActionOnFlattened[p][Shift(n) + e] =
                          action_files[list[n].group_action][p][e] + Shift(n)
         /\ \A i \in DOMAIN Flattened :
              \E n \in DOMAIN list : \E e \in DOMAIN list[n].elements :
                i = Shift(n) + e
  <1> DEFINE ss == [n \in DOMAIN list |-> list[n].elements]
             F == DOMAIN cone_files
  <1>1. /\ DOMAIN list = 1..Len(list) /\ Len(list) \in Nat
        /\ \A n \in DOMAIN list : list[n].elements \in Seq(F)
    BY OrbitsShape
  <1>2. /\ ss \in Seq(Seq(F)) /\ Len(ss) = Len(list) /\ DOMAIN ss = DOMAIN list
        /\ \A n \in DOMAIN list : ss[n] = list[n].elements
    BY <1>1
  <1>3. Flattened = FlattenSeq(ss)
    BY DEF Flattened
  <1>4. ASSUME NEW n \in DOMAIN list PROVE Shift(n) = Before(ss, n)
    <2>1. [m \in 1..(n - 1) |-> list[m].elements] = Prefix(ss, n - 1)
      BY <1>1 DEF Prefix
    <2> QED
      BY <2>1 DEF Shift, Before
  <1> HIDE DEF ss, F
  <1>5. /\ \A n \in DOMAIN list :
             /\ Before(ss, n) \in Nat
             /\ \A e \in DOMAIN list[n].elements :
                  /\ Before(ss, n) + e \in DOMAIN Flattened
                  /\ Flattened[Before(ss, n) + e] = list[n].elements[e]
        /\ \A i \in DOMAIN Flattened :
             \E n \in DOMAIN list : \E e \in DOMAIN list[n].elements :
               i = Before(ss, n) + e
    <2>1. /\ \A n \in DOMAIN ss :
               /\ Before(ss, n) \in Nat
               /\ \A e \in DOMAIN ss[n] :
                    /\ Before(ss, n) + e \in DOMAIN FlattenSeq(ss)
                    /\ FlattenSeq(ss)[Before(ss, n) + e] = ss[n][e]
          /\ \A i \in DOMAIN FlattenSeq(ss) :
               \E n \in DOMAIN ss : \E e \in DOMAIN ss[n] : i = Before(ss, n) + e
      BY <1>2, FlattenAt
    <2>2. \A n \in DOMAIN list : ss[n] = list[n].elements /\ n \in DOMAIN ss
      BY <1>2
    <2>3. ASSUME NEW n \in DOMAIN list
          PROVE  /\ Before(ss, n) \in Nat
                 /\ \A e \in DOMAIN list[n].elements :
                      /\ Before(ss, n) + e \in DOMAIN Flattened
                      /\ Flattened[Before(ss, n) + e] = list[n].elements[e]
      BY <1>3, <2>1, <2>2
    <2>4. ASSUME NEW i \in DOMAIN Flattened
          PROVE  \E n \in DOMAIN list : \E e \in DOMAIN list[n].elements :
                   i = Before(ss, n) + e
      <3>1. PICK n \in DOMAIN list : \E e \in DOMAIN ss[n] : i = Before(ss, n) + e
        BY <1>2, <1>3, <2>1
      <3> QED
        BY <2>2, <3>1
    <2> QED
      BY <2>3, <2>4
  <1>6. \A n \in DOMAIN list : \A e \in DOMAIN list[n].elements : e \in Nat
    BY <1>1
  <1>7. ASSUME NEW p \in DOMAIN group, NEW n \in DOMAIN list,
               NEW e \in DOMAIN list[n].elements
        PROVE  GroupActionOnFlattened[p][Shift(n) + e] =
                 action_files[list[n].group_action][p][e] + Shift(n)
    <2> DEFINE shifted(m) == [d \in DOMAIN list[m].elements |->
                                action_files[list[m].group_action][p][d] + Shift(m)]
               tt == [m \in DOMAIN list |-> shifted(m)]
               U == Nat \cup F
    <2>1. GroupActionOnFlattened[p] = FlattenSeq(tt)
      BY DEF GroupActionOnFlattened
    <2>2. ASSUME NEW m \in DOMAIN list
          PROVE  /\ shifted(m) \in Seq(U)
                 /\ DOMAIN shifted(m) = DOMAIN list[m].elements
      <3>1. Shift(m) \in Nat
        BY <1>4, <1>5
      <3>2. \A d \in DOMAIN list[m].elements :
              action_files[list[m].group_action][p][d] + Shift(m) \in Nat
        BY <1>6, <3>1
      <3>3. PICK l \in Nat : DOMAIN list[m].elements = 1..l
        BY <1>1
      <3>4. /\ \A d \in DOMAIN list[m].elements : shifted(m)[d] \in U
            /\ DOMAIN shifted(m) = DOMAIN list[m].elements
            /\ shifted(m) = [d \in DOMAIN list[m].elements |-> shifted(m)[d]]
        BY <3>2
      <3> HIDE DEF shifted, U
      <3>5. shifted(m) \in Seq(U)
        BY <3>3, <3>4, IsSequence
      <3> QED
        BY <3>4, <3>5
    <2>3. tt \in Seq(Seq(U)) /\ Len(tt) = Len(ss)
      <3> HIDE DEF shifted, U
      <3> QED
        BY <1>1, <1>2, <2>2
    <2>4. tt[n] = shifted(n) /\ n \in DOMAIN tt /\ e \in DOMAIN tt[n]
      BY <2>2
    <2>5. ss \in Seq(Seq(U))
      <3>1. F \subseteq U
        OBVIOUS
      <3> HIDE DEF U
      <3>2. \A s \in Seq(F) : s \in Seq(U)
        BY <3>1
      <3>3. \A m \in DOMAIN ss : ss[m] \in Seq(U)
        BY <1>1, <1>2, <3>2, Zenon
      <3>4. DOMAIN ss = 1..Len(list) /\ ss = [m \in 1..Len(list) |-> ss[m]]
        BY <1>1, <1>2
      <3> QED
        BY <1>1, <3>3, <3>4, IsSequence
    <2>6. \A m \in DOMAIN ss : DOMAIN ss[m] = DOMAIN tt[m]
      <3> HIDE DEF shifted
      <3> QED
        BY <1>2, <2>2
    <2>7. n \in DOMAIN ss
      BY <1>2
    <2>8. tt[n][e] = action_files[list[n].group_action][p][e] + Shift(n)
      OBVIOUS
    <2> HIDE DEF tt, U, shifted
    <2>9. Before(ss, n) = Before(tt, n)
      <3>1. \A k \in DOMAIN ss : Before(ss, k) = Before(tt, k)
        BY <2>3, <2>5, <2>6, BeforeAgrees, ZenonT(60)
      <3> QED
        BY <2>7, <3>1
    <2>10. FlattenSeq(tt)[Before(tt, n) + e] = tt[n][e]
      BY <2>3, <2>4, FlattenAt
    <2> QED
      BY <1>4, <2>1, <2>8, <2>9, <2>10
  <1> QED
    BY <1>4, <1>5, <1>6, <1>7

\* The list of different orbits, one after the other, has the cones of all
\* orbits once each, and the symmetries permute them.
LEMMA FlattenedCones ==
  ASSUME OrbitInv, ConesInv, control = "unique_orbit_cone_orbits_available"
  PROVE  /\ ConesOf(Flattened) = UNION {Orbit(c) : c \in RepresentativeCones}
         /\ HasConesOnce(Flattened)
         /\ PermutesCones(GroupActionOnFlattened, Flattened)
  <1> DEFINE act(p, n, e) == action_files[list[n].group_action][p][e]
             cone(n, e) == Content(list[n].elements[e])
             els(n) == DOMAIN list[n].elements
  <1>1. /\ ListsOrbits /\ ProblemShape
        /\ \A n \in DOMAIN list :
             \E c \in RepresentativeCones : IsOrbitOf(list[n], c)
        /\ \A c \in RepresentativeCones :
             \E n \in DOMAIN list : IsOrbitOf(list[n], c)
        /\ \A m, n \in DOMAIN list : cone(m, 1) = cone(n, 1) => m = n
    BY DEF OrbitInv, ConesInv, ListsOrbits
  <1>2. \A n \in DOMAIN list : list[n].elements \in Seq(DOMAIN cone_files)
    BY <1>1, OrbitsShape
  <1>3. RepresentativeCones \subseteq Cone
    BY <1>1, RepresentativesAreCones
  <1>4. ASSUME NEW n \in DOMAIN list
        PROVE  /\ \A i, j \in els(n) : cone(n, i) = cone(n, j) => i = j
               /\ \A p \in DOMAIN group, e \in els(n) :
                    /\ act(p, n, e) \in els(n)
                    /\ cone(n, act(p, n, e)) = preimageCone(cone(n, e), group[p])
    <2>1. PICK c \in RepresentativeCones : IsOrbitOf(list[n], c)
      BY <1>1
    <2> QED
      BY <2>1 DEF IsOrbitOf, HasConesOnce, PermutesCones
  <1>5. /\ \A n \in DOMAIN list :
             /\ Shift(n) \in Nat
             /\ \A e \in els(n) :
                  /\ e \in Nat
                  /\ Shift(n) + e \in DOMAIN Flattened
                  /\ Flattened[Shift(n) + e] = list[n].elements[e]
                  /\ \A p \in DOMAIN group :
                       GroupActionOnFlattened[p][Shift(n) + e] =
                         act(p, n, e) + Shift(n)
        /\ \A i \in DOMAIN Flattened :
             \E n \in DOMAIN list : \E e \in els(n) : i = Shift(n) + e
    BY <1>1, <1>4, FlattenedPositions
  <1>6. ASSUME NEW m \in DOMAIN list, NEW n \in DOMAIN list,
               NEW i \in els(m), NEW j \in els(n), cone(m, i) = cone(n, j)
        PROVE  m = n /\ i = j
    <2>1. PICK c \in RepresentativeCones : IsOrbitOf(list[m], c)
      BY <1>1
    <2>2. PICK d \in RepresentativeCones : IsOrbitOf(list[n], d)
      BY <1>1
    <2>3. cone(m, 1) = cone(n, 1)
      <3>1. /\ cone(m, 1) \in Orbit(c)
            /\ \A z \in Orbit(c) : z = cone(m, 1) \/ Less(cone(m, 1), z)
        BY <1>1, <1>2, <1>3, <2>1, FirstCone
      <3>2. /\ cone(n, 1) \in Orbit(d)
            /\ \A z \in Orbit(d) : z = cone(n, 1) \/ Less(cone(n, 1), z)
        BY <1>1, <1>2, <1>3, <2>2, FirstCone
      <3>3. cone(m, i) \in Orbit(c) /\ cone(n, j) \in Orbit(d)
        BY <2>1, <2>2 DEF IsOrbitOf, ConesOf, Range
      <3>4. c \in Cone /\ d \in Cone
        BY <1>3
      <3> HIDE DEF cone
      <3> QED
        BY <1>1, <1>6, <3>1, <3>2, <3>3, <3>4, SameFirstCone
    <2>4. m = n
      BY <1>1, <2>3
    <2> QED
      BY <1>4, <1>6, <2>4
  <1>7. \A n \in DOMAIN list : \A e \in els(n) :
          Content(Flattened[Shift(n) + e]) = cone(n, e)
    BY <1>5
  <1> HIDE DEF act, cone
  <1>8. HasConesOnce(Flattened)
    <2> SUFFICES ASSUME NEW i \in DOMAIN Flattened, NEW j \in DOMAIN Flattened,
                        Content(Flattened[i]) = Content(Flattened[j])
                 PROVE  i = j
      BY DEF HasConesOnce
    <2>1. PICK m \in DOMAIN list : \E e \in els(m) : i = Shift(m) + e
      BY <1>5
    <2>2. PICK e \in els(m) : i = Shift(m) + e
      BY <2>1
    <2>3. PICK n \in DOMAIN list : \E d \in els(n) : j = Shift(n) + d
      BY <1>5
    <2>4. PICK d \in els(n) : j = Shift(n) + d
      BY <2>3
    <2>5. cone(m, e) = cone(n, d)
      BY <1>7, <2>2, <2>4
    <2>6. m = n /\ e = d
      BY <1>6, <2>5
    <2> QED
      BY <2>2, <2>4, <2>6
  <1>9. PermutesCones(GroupActionOnFlattened, Flattened)
    <2> SUFFICES ASSUME NEW p \in DOMAIN group, NEW i \in DOMAIN Flattened
                 PROVE  LET q == GroupActionOnFlattened[p][i]
                        IN  /\ q \in DOMAIN Flattened
                            /\ Content(Flattened[q]) =
                                 preimageCone(Content(Flattened[i]), group[p])
      BY DEF PermutesCones
    <2>1. PICK n \in DOMAIN list : \E e \in els(n) : i = Shift(n) + e
      BY <1>5
    <2>2. PICK e \in els(n) : i = Shift(n) + e
      BY <2>1
    <2>3. /\ act(p, n, e) \in els(n)
          /\ cone(n, act(p, n, e)) = preimageCone(cone(n, e), group[p])
      BY <1>4
    <2>4. act(p, n, e) \in Nat /\ Shift(n) \in Nat
      BY <1>5, <2>3
    <2>5. GroupActionOnFlattened[p][i] = Shift(n) + act(p, n, e)
      <3>1. GroupActionOnFlattened[p][i] = act(p, n, e) + Shift(n)
        BY <1>5, <2>2
      <3> QED
        BY <2>4, <3>1
    <2>6. /\ Shift(n) + act(p, n, e) \in DOMAIN Flattened
          /\ Content(Flattened[Shift(n) + act(p, n, e)]) = cone(n, act(p, n, e))
      BY <1>5, <1>7, <2>3
    <2>7. Content(Flattened[i]) = cone(n, e)
      BY <1>7, <2>2
    <2> QED
      BY <2>3, <2>5, <2>6, <2>7
  <1>10. ASSUME NEW n \in DOMAIN list, NEW c, IsOrbitOf(list[n], c)
         PROVE  Orbit(c) = {cone(n, e) : e \in els(n)}
    BY <1>10 DEF IsOrbitOf, ConesOf, Range, cone
  <1>11. ASSUME NEW x \in ConesOf(Flattened)
         PROVE  \E c \in RepresentativeCones : x \in Orbit(c)
    <2>1. PICK i \in DOMAIN Flattened : x = Content(Flattened[i])
      BY DEF ConesOf, Range
    <2>2. PICK n \in DOMAIN list : \E e \in els(n) : i = Shift(n) + e
      BY <1>5
    <2>3. PICK c \in RepresentativeCones : IsOrbitOf(list[n], c)
      BY <1>1
    <2>4. x \in {cone(n, e) : e \in els(n)}
      BY <1>7, <2>1, <2>2
    <2> QED
      BY <1>10, <2>3, <2>4
  <1>12. ASSUME NEW c \in RepresentativeCones, NEW x \in Orbit(c)
         PROVE  x \in ConesOf(Flattened)
    <2>1. PICK n \in DOMAIN list : IsOrbitOf(list[n], c)
      BY <1>1
    <2>2. PICK e \in els(n) : x = cone(n, e)
      BY <1>10, <2>1
    <2>3. /\ Shift(n) + e \in DOMAIN Flattened
          /\ x = Content(Flattened[Shift(n) + e])
      BY <1>5, <1>7, <2>2
    <2> QED
      BY <2>3 DEF ConesOf, Range
  <1>13. ConesOf(Flattened) = UNION {Orbit(c) : c \in RepresentativeCones}
    BY <1>11, <1>12
  <1> QED
    BY <1>8, <1>9, <1>13

\* Different files are copied to different files.
LEMMA FinalPathsDiffer ==
  ASSUME OrbitInv, ListsOrbits, NEW p \in Range(Flattened),
         NEW q \in Range(Flattened), FinalPath(p) = FinalPath(q)
  PROVE  p = q
  <1>1. \A n \in Nat, i \in DOMAIN group :
          FinalPath(OrbitPath(n, i)) =
            [directory |-> "orbit_cones", aface |-> <<>>, name |-> <<n, i>>]
    BY DEF FinalPath, OrbitPath
  <1>2. PICK m \in Nat : \E i \in DOMAIN group : p = OrbitPath(m, i)
    BY FlattenedShape
  <1>3. PICK i \in DOMAIN group : p = OrbitPath(m, i)
    BY <1>2
  <1>4. PICK n \in Nat : \E j \in DOMAIN group : q = OrbitPath(n, j)
    BY FlattenedShape
  <1>5. PICK j \in DOMAIN group : q = OrbitPath(n, j)
    BY <1>4
  <1>6. FinalPath(p).name = <<m, i>> /\ FinalPath(q).name = <<n, j>>
    BY <1>1, <1>3, <1>5
  <1>7. m = n /\ i = j
    BY <1>6
  <1> QED
    BY <1>3, <1>5, <1>7

\* removeOrbitStructure: the list has the cones of all orbits.
LEMMA RemoveStructureCones ==
  ASSUME OrbitInv, ConesInv, removeOrbitStructure
  PROVE  ConesInv'
  <1> DEFINE paths == {FinalPath(p) : p \in Range(Flattened)}
             from(q) == CHOOSE p \in Range(Flattened) : FinalPath(p) = q
             new == [q \in paths |-> Content(from(q))]
  <1>1. /\ control = "unique_orbit_cone_orbits_available"
        /\ control' = "orbit_cones_available"
        /\ list' = [i \in DOMAIN Flattened |-> FinalPath(Flattened[i])]
        /\ cone_files' = Overwrite(cone_files, new)
        /\ symmetry_group_on_hashes' = GroupActionOnFlattened
        /\ UNCHANGED in_data
    BY DEF removeOrbitStructure, Move, list
  <1>2. ListsOrbits
    BY <1>1 DEF ListsOrbits
  <1>3. ASSUME NEW p \in Range(Flattened)
        PROVE  cone_files'[FinalPath(p)] = Content(p)
    <2>1. FinalPath(p) \in paths
      OBVIOUS
    <2>2. from(FinalPath(p)) \in Range(Flattened)
          /\ FinalPath(from(FinalPath(p))) = FinalPath(p)
      OBVIOUS
    <2> HIDE DEF from
    <2>3. from(FinalPath(p)) = p
      BY <1>2, <2>2, FinalPathsDiffer
    <2>4. new[FinalPath(p)] = Content(p) /\ DOMAIN new = paths
      BY <2>1, <2>3
    <2> HIDE DEF new, paths
    <2> QED
      BY <1>1, <2>1, <2>4 DEF Overwrite
  <1> HIDE DEF new, paths
  <1>4. /\ DOMAIN list' = DOMAIN Flattened
        /\ \A i \in DOMAIN Flattened :
             cone_files'[list'[i]] = Content(Flattened[i])
    BY <1>1, <1>3 DEF Range
  <1>5. /\ ConesOf(Flattened) = UNION {Orbit(c) : c \in RepresentativeCones}
        /\ HasConesOnce(Flattened)
        /\ PermutesCones(GroupActionOnFlattened, Flattened)
    BY <1>1, FlattenedCones
  <1>6. group' = group /\ RepresentativeCones' = RepresentativeCones
    BY <1>1 DEF group, RepresentativeCones
  <1>7. ConesOf(list)' = ConesOf(Flattened)
    <2>1. ConesOf(list)' = {cone_files'[list'[i]] : i \in DOMAIN list'}
      BY DEF ConesOf, Content, Range
    <2>2. ConesOf(Flattened) = {Content(Flattened[i]) : i \in DOMAIN Flattened}
      BY DEF ConesOf, Range
    <2> QED
      BY <1>4, <2>1, <2>2
  <1>8. (UNION {Orbit(c) : c \in RepresentativeCones})' =
          UNION {Orbit(c) : c \in RepresentativeCones}
    BY <1>6 DEF Orbit
  <1>9. HasConesOnce(list)'
    BY <1>4, <1>5 DEF HasConesOnce, Content
  <1>10. PermutesCones(symmetry_group_on_hashes, list)'
    <2>1. ASSUME NEW p \in DOMAIN group, NEW i \in DOMAIN Flattened
          PROVE  LET q == GroupActionOnFlattened[p][i]
                 IN  /\ q \in DOMAIN list'
                     /\ cone_files'[list'[q]] =
                          preimageCone(cone_files'[list'[i]], group[p])
      <3>1. LET q == GroupActionOnFlattened[p][i]
            IN  /\ q \in DOMAIN Flattened
                /\ Content(Flattened[q]) =
                     preimageCone(Content(Flattened[i]), group[p])
        BY <1>5 DEF PermutesCones
      <3> QED
        BY <1>4, <3>1
    <2> QED
      BY <1>1, <1>4, <1>6, <2>1 DEF PermutesCones, Content
  <1>11. ConesOf(list)' = (UNION {Orbit(c) : c \in RepresentativeCones})'
    BY <1>5, <1>7, <1>8
  <1> QED
    BY <1>1, <1>9, <1>10, <1>11
    DEF ConesInv, ListsAFaces, ListsOrbits, ListsFinalPaths

\* Once the cones are available, what matters is that their files stay.
LEMMA FinalConesKept ==
  ASSUME ConesInv, ListsFinalPaths, control' \in {"orbit_cones_available", "finished"},
         UNCHANGED <<in_data, inout_processed_list, symmetry_group_on_hashes>>,
         \A p \in Range(list) : cone_files'[p] = cone_files[p]
  PROVE  ConesInv'
  <1>1. /\ list' = list /\ group' = group
        /\ RepresentativeCones' = RepresentativeCones
    BY DEF list, group, RepresentativeCones
  <1>2. /\ ConesOf(list) = UNION {Orbit(c) : c \in RepresentativeCones}
        /\ HasConesOnce(list)
        /\ PermutesCones(symmetry_group_on_hashes, list)
    BY DEF ConesInv
  <1>3. \A i \in DOMAIN list : cone_files'[list[i]] = cone_files[list[i]]
    BY DEF Range
  <1>4. ConesOf(list)' = ConesOf(list)
    BY <1>1 DEF ConesOf, Content
  <1>5. (UNION {Orbit(c) : c \in RepresentativeCones})' =
          UNION {Orbit(c) : c \in RepresentativeCones}
    BY <1>1 DEF Orbit
  <1>6. HasConesOnce(list)'
    BY <1>1, <1>2, <1>3 DEF HasConesOnce, Content
  <1>7. PermutesCones(symmetry_group_on_hashes, list)'
    BY <1>1, <1>2, <1>3 DEF PermutesCones, Content
  <1>8. ConesOf(list)' = (UNION {Orbit(c) : c \in RepresentativeCones})'
    BY <1>2, <1>4, <1>5
  <1> QED
    BY <1>6, <1>7, <1>8
    DEF ConesInv, ListsAFaces, ListsOrbits, ListsFinalPaths

\* Steps that leave the net alone.
LEMMA StutterCones ==
  ASSUME ConesInv, UNCHANGED vars
  PROVE  ConesInv'
  <1> USE DEF vars
  <1>1. /\ list' = list /\ group' = group /\ cone_files' = cone_files
        /\ action_files' = action_files /\ control' = control
        /\ symmetry_group_on_hashes' = symmetry_group_on_hashes
        /\ in_data' = in_data
    BY DEF list, group
  <1>2. RepresentativeCones' = RepresentativeCones /\ AFaceCones' = AFaceCones
    BY <1>1 DEF RepresentativeCones, AFaceCones
  <1>3. CASE ListsFinalPaths
    BY <1>1, <1>3, FinalConesKept DEF ListsFinalPaths
  <1>4. CASE ListsOrbits
    <2>1. ASSUME NEW n, NEW c, IsOrbitOf(list[n], c) PROVE IsOrbitOf(list[n], c)'
      <3>1. /\ ConesOf(list[n].elements) = Orbit(c)
            /\ HasConesOnce(list[n].elements)
            /\ \A k \in DOMAIN list[n].elements \ {1} :
                 Less(Content(list[n].elements[1]), Content(list[n].elements[k]))
            /\ PermutesCones(action_files[list[n].group_action],
                             list[n].elements)
        BY <2>1 DEF IsOrbitOf
      <3>2. ConesOf(list[n].elements)' = Orbit(c)'
        BY <1>1, <3>1 DEF ConesOf, Orbit, Content
      <3>3. HasConesOnce(list[n].elements)'
        BY <1>1, <3>1 DEF HasConesOnce, Content
      <3>4. PermutesCones(action_files[list[n].group_action],
                          list[n].elements)'
        BY <1>1, <3>1 DEF PermutesCones, Content
      <3>5. \A k \in DOMAIN list'[n].elements \ {1} :
              Less(Content(list[n].elements[1])', Content(list[n].elements[k])')
        BY <1>1, <3>1 DEF Content
      <3> QED
        BY <3>2, <3>3, <3>4, <3>5 DEF IsOrbitOf
    <2>2. /\ \A n \in DOMAIN list' :
               \E c \in RepresentativeCones' : IsOrbitOf(list[n], c)'
          /\ \A c \in RepresentativeCones' :
               \E n \in DOMAIN list' : IsOrbitOf(list[n], c)'
      BY <1>1, <1>2, <1>4, <2>1 DEF ConesInv
    <2>3. control' = "unique_orbit_cone_orbits_available" =>
            \A m, n \in DOMAIN list' :
              Content(list[m].elements[1])' = Content(list[n].elements[1])'
                => m = n
      BY <1>1 DEF ConesInv, Content
    <2> QED
      BY <1>1, <1>4, <2>2, <2>3
      DEF ConesInv, ListsAFaces, ListsOrbits, ListsFinalPaths, Content
  <1>5. CASE ~ ListsOrbits /\ ~ ListsFinalPaths
    <2>1. ConesOf(list)' = ConesOf(list)
      BY <1>1 DEF ConesOf, Content
    <2> QED
      BY <1>1, <1>2, <1>5, <2>1
      DEF ConesInv, ListsAFaces, ListsOrbits, ListsFinalPaths
  <1> QED
    BY <1>3, <1>4, <1>5

\* The invariant, at every step of the net.
LEMMA NetStepCones ==
  ASSUME OrbitInv, ConesInv, [Next]_vars
  PROVE  ConesInv'
  <1>1. CASE Start
    <2>1. /\ control = "enabled" /\ control' = "aface_reps_available"
          /\ list' = list /\ in_data' = in_data
      BY <1>1 DEF Start, Move, list
    <2>2. Range(list') = Range(in_data'.afaces)
      BY <2>1 DEF ConesInv, ListsAFaces
    <2> QED
      BY <2>1, <2>2 DEF ConesInv, ListsAFaces, ListsOrbits, ListsFinalPaths
  <1>2. CASE split_control_path
    BY <1>2, FinalConesKept
    DEF split_control_path, Move, ListsFinalPaths
  <1>3. CASE clean
    <2>1. control = "finished" /\ control' = "finished"
      BY <1>3 DEF clean, OrbitInv, FileShape
    <2>2. \A p \in Range(list) : cone_files'[p] = cone_files[p]
      BY <1>3, CleanPreserves
    <2> QED
      BY <1>3, <2>1, <2>2, FinalConesKept DEF clean, ListsFinalPaths
  <1>4. CASE Finished \/ UNCHANGED vars
    BY <1>4, StutterCones DEF Finished
  <1> QED
    BY <1>1, <1>2, <1>3, <1>4, ComputeCones, IntersectCones, ExpandCones,
       UniqueCones, RemoveStructureCones
    DEF Next

\* The inductive invariant: which cones the list stands for at each place of
\* the control token.
THEOREM ConesInvariant == Spec => []ConesInv
  <1>1. Init => ConesInv
    BY DEF Init, ConesInv, list, ListsAFaces, ListsOrbits, ListsFinalPaths
  <1>2. OrbitInv /\ ConesInv /\ [Next]_vars => ConesInv'
    BY NetStepCones
  <1> QED
    BY <1>1, <1>2, OrbitInvariant, PTL DEF Spec

\* Both properties of the result are read off the invariant.
LEMMA ResultFollows ==
  ASSUME OrbitInv, ConesInv
  PROVE  OrbitsOnce /\ ActionOnCones
  <1> SUFFICES ASSUME control = "finished" PROVE OrbitsOnce /\ ActionOnCones
    BY DEF OrbitsOnce, ActionOnCones
  <1>1. /\ ConesOf(list) = UNION {Orbit(c) : c \in RepresentativeCones}
        /\ HasConesOnce(list)
        /\ PermutesCones(symmetry_group_on_hashes, list)
    BY DEF ConesInv, ListsFinalPaths
  <1>2. list \in Seq(DOMAIN cone_files)
    BY DEF OrbitInv, ListShape, ListsAFaces, ListsOrbits
  <1>3. ActionOnCones
    BY <1>1 DEF ActionOnCones, PermutesCones
  <1>4. UNION {Orbit(c) : c \in RepresentativeCones} =
          {preimageCone(c, sigma) : c \in RepresentativeCones,
                                    sigma \in Range(group)}
    <2>1. \A c : Orbit(c) = {preimageCone(c, sigma) : sigma \in Range(group)}
      BY DEF Orbit
    <2> QED
      BY <2>1
  <1>5. Len(list) = Cardinality(ConesOf(list))
    <2> DEFINE S == 1..Len(list)
               f == [i \in S |-> Content(list[i])]
    <2>1. Len(list) \in Nat /\ DOMAIN list = S
      BY <1>2
    <2>2. f \in [S -> ConesOf(list)]
      BY <2>1 DEF ConesOf, Range
    <2>3. \A x, y \in S : f[x] = f[y] => x = y
      BY <1>1, <2>1 DEF HasConesOnce
    <2>4. \A z \in ConesOf(list) : \E x \in S : f[x] = z
      BY <2>1 DEF ConesOf, Range
    <2>5. IsFiniteSet(S) /\ Cardinality(S) = Len(list)
      <3>1. /\ IsFiniteSet(1..Len(list))
            /\ Cardinality(1..Len(list)) =
                 IF 1 > Len(list) THEN 0 ELSE Len(list) - 1 + 1
        BY <2>1, FS_Interval
      <3> QED
        BY <2>1, <3>1
    <2> HIDE DEF S, f
    <2>6. Cardinality(ConesOf(list)) = Cardinality(S)
      BY <2>2, <2>3, <2>4, <2>5, OneToOne
    <2> QED
      BY <2>5, <2>6
  <1>6. OrbitsOnce
    <2> DEFINE C == {Content(p) : p \in Range(list)}
               O == {preimageCone(c, sigma) : c \in RepresentativeCones,
                                              sigma \in Range(group)}
    <2>1. ConesOf(list) = C
      BY DEF ConesOf
    <2>2. ConesOf(list) = O
      BY <1>1, <1>4
    <2>3. (C = O /\ Len(list) = Cardinality(C)) => OrbitsOnce
      BY DEF OrbitsOnce
    <2> HIDE DEF C, O
    <2> QED
      BY <1>5, <2>1, <2>2, <2>3
  <1> QED
    BY <1>3, <1>6

\* For any geometry, symmetry group and a-faces, in whatever order workers
\* finish, and with or without a moving cone: the list ends with every cone of
\* the orbits of the representatives, each once, although several a-faces may
\* lead to the same orbit.
THEOREM OrbitsAlwaysOnce == Spec => []OrbitsOnce
  BY OrbitInvariant, ConesInvariant, ResultFollows, PTL

\* And the permutations that removeOrbitStructureAndCreateSymmetryGroupOnHashes()
\* puts together from those of the orbits permute the numbers of the cones the
\* way the symmetries permute the cones.
THEOREM ActionAlwaysOnCones == Spec => []ActionOnCones
  BY OrbitInvariant, ConesInvariant, ResultFollows, PTL

\* The cones are computed unless they are given.
ComputedCones == Precomputed = Missing => ConesInv

\* In the workflow the net starts with the a-faces that were computed.
LEMMA WorkflowConesKept ==
  ASSUME WorkflowInv, ComputedCones, [WorkflowNext]_workflowVars
  PROVE  ComputedCones'
  <1>1. ASSUME control' \in {"start", "full_dim_afaces_start"} PROVE ConesInv'
    BY <1>1 DEF ConesInv, ListsAFaces, ListsOrbits, ListsFinalPaths
  <1>2. ASSUME NEW w \in Worker, preprocess_input(w) PROVE ComputedCones'
    <2>1. control' = "start"
      BY <1>2 DEF preprocess_input, WorkflowInv, PhaseShape
    <2> QED
      BY <1>1, <2>1 DEF ComputedCones
  <1>3. ASSUME NEW w \in Worker, processPrecomputedData(w) PROVE ComputedCones'
    BY <1>3 DEF processPrecomputedData, ComputedCones, Precomputed
  <1>4. CASE check_precomputed_orbit_cones
    BY <1>1, <1>4 DEF check_precomputed_orbit_cones, Move, ComputedCones
  <1>5. CASE full_dim_afaces
    <2>1. control' = "enabled" /\ list' = in_data'.afaces
      BY <1>5 DEF full_dim_afaces, Move, list
    <2> QED
      BY <2>1 DEF ComputedCones, ConesInv, ListsAFaces, ListsOrbits,
                  ListsFinalPaths
  <1>6. CASE orbit_cones_from_afaces
    <2>1. Next
      BY <1>6 DEF orbit_cones_from_afaces, Next
    <2>2. UNCHANGED in_data
      BY <1>6 DEF orbit_cones_from_afaces, Start, compute_orbit_cones,
        intersect_with_moving_cone, expand_orbit_cone_orbits,
        keep_unique_orbit_cones, removeOrbitStructure, split_control_path,
        clean, ListStep
    <2> QED
      BY <2>1, <2>2, NetStepCones DEF ComputedCones, Precomputed, WorkflowInv
  <1>7. ASSUME UNCHANGED orbitVars PROVE ComputedCones'
    <2>1. UNCHANGED vars /\ UNCHANGED in_data
      BY <1>7 DEF orbitVars, vars
    <2> QED
      BY <2>1, StutterCones DEF ComputedCones, Precomputed
  <1>8. ASSUME \/ Throw \/ SplitPath \/ BeginOrder \/ EndOrder \/ EndTraversal
               \/ outputGitCones \/ outputLoadGitConesSingularFile
               \/ EndLoadFile \/ JoinPaths
               \/ UNCHANGED workflowVars
               \/ \E w \in Worker : compute_initial_cone(w) \/ expand_cones(w)
        PROVE  UNCHANGED orbitVars
    BY <1>8 DEF Throw, SplitPath, BeginOrder, EndOrder, EndTraversal,
      outputGitCones, outputLoadGitConesSingularFile, EndLoadFile, JoinPaths,
      workflowVars, compute_initial_cone, expand_cones, Traverses
  <1> QED
    BY <1>2, <1>3, <1>4, <1>5, <1>6, <1>7, <1>8 DEF WorkflowNext, Step

\* In the whole computation too, whatever tasks the workers run and whenever
\* one throws: orbit cones that are computed, and not given, are those of the
\* orbits, each once, and the group on them is the group of symmetries.
THEOREM WorkflowCones ==
  WorkflowSpec => [](Precomputed = Missing => OrbitsOnce /\ ActionOnCones)
  <1>1. WorkflowInit => ComputedCones
    BY DEF WorkflowInit, ComputedCones, ConesInv, ListsAFaces, ListsOrbits,
           ListsFinalPaths
  <1>2. WorkflowInv /\ ComputedCones /\ [WorkflowNext]_workflowVars
          => ComputedCones'
    BY WorkflowConesKept
  <1>3. WorkflowInv /\ ComputedCones =>
          (Precomputed = Missing => OrbitsOnce /\ ActionOnCones)
    BY ResultFollows DEF WorkflowInv, ComputedCones
  <1> QED
    BY <1>1, <1>2, <1>3, WorkflowInvariant, PTL DEF WorkflowSpec
=============================================================================
