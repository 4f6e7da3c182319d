----------------------------- MODULE DataLemmas -----------------------------
(***************************************************************************)
(* Facts about numbers, sequences and finite sets that the proofs about    *)
(* the components share.  Induction is stated with a set of numbers, not   *)
(* with a predicate, so that it can be used where it is needed.            *)
(***************************************************************************)
EXTENDS Integers, Sequences, FiniteSets, FiniteSetTheorems,
        WellFoundedInduction, TLAPS

-----------------------------------------------------------------------------
(* Induction *)

\* A set of natural numbers has a least element, as < is well-founded.
LEMMA LeastNumber ==
  ASSUME NEW S \in SUBSET Nat, S # {}
  PROVE  \E m \in S : \A n \in S : m <= n
  <1> DEFINE Less == {p \in Nat \X Nat : p[1] < p[2]}
  <1>1. IsWellFoundedOn(Less, Nat)
    BY NatLessThanWellFounded DEF OpToRel
  <1>2. \A x, y \in Nat : <<x, y>> \in Less <=> x < y
    OBVIOUS
  <1> HIDE DEF Less
  <1>3. PICK m \in S : \A n \in S : ~ (<<n, m>> \in Less)
    BY <1>1, WFMin
  <1>4. ASSUME NEW n \in S PROVE m <= n
    <2>1. m \in Nat /\ n \in Nat
      OBVIOUS
    <2>2. <<n, m>> \in Less <=> n < m
      BY <1>2, <2>1, Zenon
    <2>3. ~ (n < m)
      BY <1>3, <2>2
    <2> QED
      BY <2>1, <2>3
  <1> QED
    BY <1>4

\* The principle of induction, for a set of numbers that has 0 and with every
\* number its successor.
LEMMA SetInduction ==
  ASSUME NEW P \in SUBSET Nat, 0 \in P, \A n \in P : n + 1 \in P
  PROVE  \A n \in Nat : n \in P
  <1> SUFFICES ASSUME Nat \ P # {} PROVE FALSE
    OBVIOUS
  <1>1. PICK m \in Nat \ P : \A n \in Nat \ P : m <= n
    BY LeastNumber
  <1>2. m # 0 /\ m - 1 \in Nat
    OBVIOUS
  <1>3. m - 1 \in P
    BY <1>1, <1>2
  <1>4. (m - 1) + 1 = m
    BY <1>1
  <1> QED
    BY <1>3, <1>4

\* The same up to a bound.
LEMMA BoundedInduction ==
  ASSUME NEW N \in Nat, NEW P, 0 \in P,
         \A n \in 0 .. N - 1 : n \in P => n + 1 \in P
  PROVE  \A n \in 0..N : n \in P
  <1> DEFINE S == {n \in Nat : n <= N => n \in P}
  <1>1. 0 \in S
    OBVIOUS
  <1>2. \A n \in S : n + 1 \in S
    OBVIOUS
  <1>3. S \in SUBSET Nat
    OBVIOUS
  <1>4. \A n \in Nat : n \in S
    <2> HIDE DEF S
    <2> QED BY <1>1, <1>2, <1>3, SetInduction
  <1> QED
    BY <1>4

\* f is defined on 0..N from a by the functions step[1], ..., step[N].
DefinedByRecursion(f, N, S, a, step) ==
  /\ f \in [0..N -> S]
  /\ f[0] = a
  /\ \A i \in 1..N : f[i] = step[i][f[i - 1]]

\* A function may be defined by recursion on an interval.
LEMMA IntervalRecursion ==
  ASSUME NEW N \in Nat, NEW S, NEW a \in S, NEW step \in [1..N -> [S -> S]]
  PROVE  \E f : DefinedByRecursion(f, N, S, a, step)
  <1> DEFINE Defines(f, n) ==
               /\ f \in [0..n -> S]
               /\ \A i \in 0..n : f[i] = IF i = 0 THEN a ELSE step[i][f[i - 1]]
             P == {n \in Nat : \E f : Defines(f, n)}
  <1>1. 0 \in P
    <2>1. Defines([i \in 0..0 |-> a], 0)
      OBVIOUS
    <2> QED
      BY <2>1
  <1>2. ASSUME NEW n \in 0 .. N - 1, n \in P PROVE n + 1 \in P
    <2>1. PICK f : Defines(f, n)
      BY <1>2
    <2> DEFINE g == [i \in 0 .. n + 1 |->
                       IF i <= n THEN f[i] ELSE step[n + 1][f[n]]]
    <2>2. f[n] \in S /\ step[n + 1] \in [S -> S]
      BY <2>1
    <2>3. g \in [0 .. n + 1 -> S]
      BY <2>1, <2>2
    <2>4. ASSUME NEW i \in 0 .. n + 1
          PROVE  g[i] = IF i = 0 THEN a ELSE step[i][g[i - 1]]
      <3>1. CASE i <= n
        <4>1. g[i] = f[i] /\ i \in 0..n
          BY <3>1
        <4>2. i # 0 => g[i - 1] = f[i - 1]
          BY <3>1
        <4> QED
          BY <4>1, <4>2, <2>1
      <3>2. CASE i = n + 1
        <4>1. g[i] = step[n + 1][f[n]] /\ g[i - 1] = f[n]
          BY <3>2
        <4> QED
          BY <4>1, <3>2
      <3> QED
        BY <3>1, <3>2
    <2> HIDE DEF g
    <2> QED
      BY <2>3, <2>4
  <1>3. N \in P
    <2> HIDE DEF P
    <2>1. \A n \in 0 .. N - 1 : n \in P => n + 1 \in P
      BY <1>2
    <2>2. \A n \in 0..N : n \in P
      BY <1>1, <2>1, BoundedInduction
    <2> QED
      BY <2>2
  <1>4. PICK f : Defines(f, N)
    BY <1>3
  <1>5. f[0] = a /\ \A i \in 1..N : f[i] = step[i][f[i - 1]]
    BY <1>4
  <1> QED
    BY <1>4, <1>5 DEF DefinedByRecursion

-----------------------------------------------------------------------------
(* Counting *)

\* Sets between which a function is one-to-one have the same size.
LEMMA OneToOne ==
  ASSUME NEW S, NEW T, IsFiniteSet(S), NEW f \in [S -> T],
         \A x, y \in S : f[x] = f[y] => x = y,
         \A z \in T : \E x \in S : f[x] = z
  PROVE  /\ IsFiniteSet(T)
         /\ Cardinality(T) = Cardinality(S)
  <1>1. f \in Injection(S, T) /\ f \in Surjection(S, T)
    BY DEF Injection, Surjection, IsInjective
  <1>2. ExistsBijection(S, T)
    BY <1>1 DEF ExistsBijection, Bijection
  <1> QED
    BY <1>2, FS_Bijection

LEMMA DisjointUnion ==
  ASSUME NEW S, IsFiniteSet(S), NEW T, IsFiniteSet(T), S \cap T = {}
  PROVE  /\ IsFiniteSet(S \cup T)
         /\ Cardinality(S \cup T) = Cardinality(S) + Cardinality(T)
         /\ Cardinality(S) \in Nat /\ Cardinality(T) \in Nat
  <1>1. Cardinality(S \cup T) =
          Cardinality(S) + Cardinality(T) - Cardinality(S \cap T)
    BY FS_Union
  <1>2. Cardinality(S \cap T) = 0
    BY FS_EmptySet
  <1>3. Cardinality(S) \in Nat /\ Cardinality(T) \in Nat
    BY FS_CardinalityType
  <1>4. IsFiniteSet(S \cup T)
    BY FS_Union
  <1> QED
    BY <1>1, <1>2, <1>3, <1>4
=============================================================================
