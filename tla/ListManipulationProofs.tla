----------------------- MODULE ListManipulationProofs -----------------------
(***************************************************************************)
(* Proofs about ListManipulation, for every list, every job size and every *)
(* function that processes an element: the list is cut without gap or      *)
(* overlap, the counter of open tasks is exact, and the list in the end is *)
(* the one a single worker would have computed, up to its order.           *)
(***************************************************************************)
EXTENDS ListManipulation, DataLemmas

-----------------------------------------------------------------------------
(* The results for a range *)

InList(list, t) ==
  t \in TaskRange /\ t.start + t.length <= Len(list)

\* The results for the first elements of a range.
ResultsUpTo(list, t) ==
  CHOOSE f : f = [i \in 0..t.length |->
                    IF i = 0 THEN <<>>
                    ELSE f[i - 1] \o Process(list, t.start + i)]

LEMMA ResultsDef ==
  ASSUME NEW list, NEW t
  PROVE  Results(list, t) = ResultsUpTo(list, t)[t.length]
  BY DEF Results, ResultsUpTo

LEMMA ProcessType ==
  ASSUME NEW list \in List, NEW i \in 1..Len(list)
  PROVE  Process(list, i) \in Seq(Value)
  BY ListAssumption

\* The recursive definition has a solution, of sequences of values.
LEMMA ResultsUpToDef ==
  ASSUME NEW list \in List, NEW t, InList(list, t)
  PROVE  LET f == ResultsUpTo(list, t)
         IN  /\ f[0] = <<>>
             /\ \A i \in 1..t.length :
                  f[i] = f[i - 1] \o Process(list, t.start + i)
             /\ \A i \in 0..t.length : f[i] \in Seq(Value)
  <1> DEFINE N == t.length
             S == Seq(Value)
             step == [i \in 1..N |-> [s \in S |-> s \o Process(list, t.start + i)]]
             f == ResultsUpTo(list, t)
             Sat(g) == g = [i \in 0..N |->
                              IF i = 0 THEN <<>>
                              ELSE g[i - 1] \o Process(list, t.start + i)]
  <1>0. N \in Nat
    BY DEF InList, TaskRange
  <1>1. N \in Nat /\ t.start \in Nat /\ Len(list) \in Nat
    BY ListAssumption DEF InList, TaskRange
  <1>2. \A i \in 1..N : Process(list, t.start + i) \in S
    <2> SUFFICES ASSUME NEW i \in 1..N PROVE Process(list, t.start + i) \in S
      OBVIOUS
    <2>1. t.start + i \in 1..Len(list)
      BY <1>1 DEF InList
    <2> QED
      BY <2>1, ProcessType
  <1>3. step \in [1..N -> [S -> S]]
    BY <1>2
  <1>4. <<>> \in S
    OBVIOUS
  <1>5. PICK g \in [0..N -> S] :
               g[0] = <<>> /\ \A i \in 1..N : g[i] = step[i][g[i - 1]]
    <2> HIDE DEF step, S, N
    <2>1. \E g : DefinedByRecursion(g, N, S, <<>>, step)
      BY <1>0, <1>3, <1>4, IntervalRecursion
    <2> QED
      BY <2>1 DEF DefinedByRecursion
  <1>6. Sat(g)
    <2>1. ASSUME NEW i \in 1..N
          PROVE  g[i] = g[i - 1] \o Process(list, t.start + i)
      <3>1. g[i - 1] \in S /\ i \in 1..N
        BY <1>1
      <3> QED
        BY <1>5, <3>1
    <2>2. \A i \in 0..N : i = 0 \/ i \in 1..N
      BY <1>0
    <2> HIDE DEF S
    <2>3. g = [i \in 0..N |-> g[i]]
      OBVIOUS
    <2>4. \A i \in 0..N :
            g[i] = IF i = 0 THEN <<>> ELSE g[i - 1] \o Process(list, t.start + i)
      BY <1>5, <2>1, <2>2
    <2> QED
      BY <2>3, <2>4, Zenon
  <1>7. Sat(f)
    BY <1>6 DEF ResultsUpTo
  <1>8. f[0] = <<>> /\ \A i \in 1..N : f[i] = f[i - 1] \o Process(list, t.start + i)
    <2> HIDE DEF f
    <2>1. \A i \in 0..N : f[i] = IF i = 0 THEN <<>>
                                 ELSE f[i - 1] \o Process(list, t.start + i)
      BY <1>7, Zenon
    <2>2. 0 \in 0..N /\ \A i \in 1..N : i \in 0..N /\ i # 0
      BY <1>1
    <2> QED
      BY <2>1, <2>2, Zenon
  <1>9. \A i \in 0..N : f[i] \in S
    <2> DEFINE P == {i \in Nat : f[i] \in S}
    <2> HIDE DEF f
    <2>0. \A i \in Nat : f[i] \in S => i \in P
      BY Zenon
    <2>1. 0 \in P
      BY <1>4, <1>8, <2>0, Zenon
    <2>2. ASSUME NEW n \in 0 .. N - 1, n \in P PROVE n + 1 \in P
      <3>1. n + 1 \in 1..N /\ (n + 1) - 1 = n
        BY <1>1
      <3>2. f[n + 1] = f[n] \o Process(list, t.start + (n + 1))
        BY <1>8, <3>1, Zenon
      <3>3. f[n] \in S /\ Process(list, t.start + (n + 1)) \in S
        BY <1>2, <2>2, <3>1
      <3>4. n + 1 \in Nat
        OBVIOUS
      <3>5. f[n] \o Process(list, t.start + (n + 1)) \in S
        <4> \A u, w \in S : u \o w \in S
          OBVIOUS
        <4> HIDE DEF S
        <4> QED
          BY <3>3, Zenon
      <3> QED
        BY <2>0, <3>2, <3>4, <3>5, Zenon
    <2>3. \A n \in 0 .. N - 1 : n \in P => n + 1 \in P
      BY <2>2
    <2>4. \A n \in 0..N : n \in P
      <3> HIDE DEF P
      <3> QED
        BY <1>1, <2>1, <2>3, BoundedInduction
    <2> QED
      BY <2>4
  <1> QED
    BY <1>8, <1>9

LEMMA ResultsType ==
  ASSUME NEW list \in List, NEW t, InList(list, t)
  PROVE  Results(list, t) \in Seq(Value)
  <1>1. t.length \in 0..t.length
    BY DEF InList, TaskRange
  <1> QED
    BY <1>1, ResultsDef, ResultsUpToDef

-----------------------------------------------------------------------------
(* How often values occur *)

LEMMA HitsFinite ==
  ASSUME NEW s \in Seq(Value), NEW W
  PROVE  IsFiniteSet(Hits(s, W)) /\ Hits(s, W) \in SUBSET (1..Len(s))
  <1>1. DOMAIN s = 1..Len(s) /\ Len(s) \in Nat
    OBVIOUS
  <1>2. IsFiniteSet(1..Len(s))
    BY <1>1, FS_Interval
  <1>3. Hits(s, W) \in SUBSET (1..Len(s))
    BY <1>1 DEF Hits
  <1> QED
    BY <1>2, <1>3, FS_Subset

\* To join sequences adds up how often values occur.
LEMMA HitsOfConcatenation ==
  ASSUME NEW s \in Seq(Value), NEW u \in Seq(Value), NEW W
  PROVE  Cardinality(Hits(s \o u, W)) =
           Cardinality(Hits(s, W)) + Cardinality(Hits(u, W))
  <1> DEFINE A == Hits(s, W)
             B == {Len(s) + j : j \in Hits(u, W)}
             f == [j \in Hits(u, W) |-> Len(s) + j]
  <1>1. /\ IsFiniteSet(A) /\ A \in SUBSET (1..Len(s))
        /\ IsFiniteSet(Hits(u, W)) /\ Hits(u, W) \in SUBSET (1..Len(u))
    BY HitsFinite
  <1>2. Len(s) \in Nat /\ Len(u) \in Nat
    OBVIOUS
  <1>3. IsFiniteSet(B) /\ Cardinality(B) = Cardinality(Hits(u, W))
    <2>1. f \in [Hits(u, W) -> B]
      OBVIOUS
    <2>2. \A i, j \in Hits(u, W) : f[i] = f[j] => i = j
      BY <1>1, <1>2
    <2>3. \A k \in B : \E j \in Hits(u, W) : f[j] = k
      OBVIOUS
    <2> HIDE DEF f, B
    <2> QED
      BY <1>1, <2>1, <2>2, <2>3, OneToOne
  <1>4. Hits(s \o u, W) = A \cup B
    <2>1. ASSUME NEW k \in Hits(s \o u, W) PROVE k \in A \cup B
      <3>1. k \in 1 .. Len(s) + Len(u) /\ (s \o u)[k] \in W
        BY DEF Hits
      <3>2. CASE k <= Len(s)
        BY <3>1, <3>2, <1>2 DEF Hits
      <3>3. CASE k > Len(s)
        <4>1. k - Len(s) \in 1..Len(u) /\ (s \o u)[k] = u[k - Len(s)]
          BY <3>1, <3>3, <1>2
        <4>2. k - Len(s) \in Hits(u, W)
          BY <3>1, <4>1 DEF Hits
        <4>3. k = Len(s) + (k - Len(s))
          BY <3>1, <1>2
        <4> QED
          BY <4>2, <4>3
      <3> QED
        BY <3>1, <3>2, <3>3, <1>2
    <2>2. ASSUME NEW k \in A PROVE k \in Hits(s \o u, W)
      BY <1>1, <1>2 DEF Hits
    <2>3. ASSUME NEW j \in Hits(u, W) PROVE Len(s) + j \in Hits(s \o u, W)
      <3>1. j \in 1..Len(u) /\ u[j] \in W
        BY <1>1 DEF Hits
      <3>2. Len(s) + j \in 1 .. Len(s) + Len(u)
        BY <3>1, <1>2
      <3>3. (s \o u)[Len(s) + j] = u[j]
        BY <3>1, <3>2, <1>2
      <3> QED
        BY <3>1, <3>2, <3>3 DEF Hits
    <2> QED
      BY <2>1, <2>2, <2>3
  <1>5. A \cap B = {}
    BY <1>1, <1>2
  <1> HIDE DEF A, B
  <1>6. Cardinality(A \cup B) = Cardinality(A) + Cardinality(B)
    BY <1>1, <1>3, <1>5, DisjointUnion
  <1> QED
    BY <1>3, <1>4, <1>6 DEF A

LEMMA OccurrencesIs ==
  ASSUME NEW list, NEW I, NEW W
  PROVE  \A p : p \in Occurrences(list, I, W) <=>
                  \E i \in I : \E j \in Hits(Process(list, i), W) : p = <<i, j>>
  BY DEF Occurrences

LEMMA NoOccurrences ==
  ASSUME NEW list, NEW W
  PROVE  Occurrences(list, {}, W) = {}
  BY OccurrencesIs

LEMMA OccurrencesAtOne ==
  ASSUME NEW list \in List, NEW i \in 1..Len(list), NEW W
  PROVE  /\ IsFiniteSet(Occurrences(list, {i}, W))
         /\ Cardinality(Occurrences(list, {i}, W)) =
              Cardinality(Hits(Process(list, i), W))
  <1> DEFINE H == Hits(Process(list, i), W)
             O == Occurrences(list, {i}, W)
             f == [j \in H |-> <<i, j>>]
  <1>1. \A p : p \in O <=> \E j \in H : p = <<i, j>>
    BY OccurrencesIs
  <1>2. IsFiniteSet(H)
    BY ProcessType, HitsFinite
  <1> HIDE DEF H, O
  <1>3. f \in [H -> O]
    BY <1>1
  <1>4. \A j, k \in H : f[j] = f[k] => j = k
    OBVIOUS
  <1>5. \A p \in O : \E j \in H : f[j] = p
    BY <1>1
  <1> HIDE DEF f
  <1>6. IsFiniteSet(O) /\ Cardinality(O) = Cardinality(H)
    BY <1>2, <1>3, <1>4, <1>5, OneToOne
  <1> QED
    BY <1>6 DEF H, O

\* Positions that are different occur differently.
LEMMA OccurrencesOfUnion ==
  ASSUME NEW list, NEW W, NEW I, NEW J, I \cap J = {},
         IsFiniteSet(Occurrences(list, I, W)),
         IsFiniteSet(Occurrences(list, J, W))
  PROVE  /\ IsFiniteSet(Occurrences(list, I \cup J, W))
         /\ Cardinality(Occurrences(list, I \cup J, W)) =
              Cardinality(Occurrences(list, I, W))
              + Cardinality(Occurrences(list, J, W))
  <1>1. Occurrences(list, I \cup J, W) =
          Occurrences(list, I, W) \cup Occurrences(list, J, W)
    BY OccurrencesIs
  <1>2. Occurrences(list, I, W) \cap Occurrences(list, J, W) = {}
    BY OccurrencesIs
  <1> QED
    BY <1>1, <1>2, DisjointUnion

\* The results for a range are those for its positions.
LEMMA OccurrencesInResults ==
  ASSUME NEW list \in List, NEW t, InList(list, t), NEW W
  PROVE  /\ IsFiniteSet(Occurrences(list, Position(t), W))
         /\ Cardinality(Occurrences(list, Position(t), W)) =
              Cardinality(Hits(Results(list, t), W))
  <1> DEFINE f == ResultsUpTo(list, t)
             N == t.length
             O(n) == Occurrences(list, t.start + 1 .. t.start + n, W)
             Counted(n) ==
               IsFiniteSet(O(n)) /\ Cardinality(O(n)) = Cardinality(Hits(f[n], W))
             P == {n \in Nat : Counted(n)}
  <1>1. N \in Nat /\ t.start \in Nat /\ Len(list) \in Nat
        /\ t.start + N <= Len(list)
    BY ListAssumption DEF InList, TaskRange
  <1>2. /\ f[0] = <<>>
        /\ \A i \in 1..N : f[i] = f[i - 1] \o Process(list, t.start + i)
        /\ \A i \in 0..N : f[i] \in Seq(Value)
    BY ResultsUpToDef
  <1> HIDE DEF f
  <1>3. Counted(0)
    <2>1. t.start + 1 .. t.start + 0 = {}
      BY <1>1
    <2>2. O(0) = {}
      BY <2>1, NoOccurrences
    <2>3. Hits(f[0], W) = {}
      BY <1>2 DEF Hits
    <2> QED
      BY <2>2, <2>3, FS_EmptySet
  <1>4. ASSUME NEW n \in 0 .. N - 1, Counted(n) PROVE Counted(n + 1)
    <2> DEFINE i == t.start + (n + 1)
               I == t.start + 1 .. t.start + n
    <2>1. i \in 1..Len(list) /\ n + 1 \in 1..N /\ (n + 1) - 1 = n /\ n \in 0..N
      BY <1>1
    <2>2. t.start + 1 .. t.start + (n + 1) = I \cup {i} /\ I \cap {i} = {}
      BY <1>1
    <2>3. Process(list, i) \in Seq(Value)
      BY <2>1, ProcessType
    <2>4. f[n + 1] = f[n] \o Process(list, i) /\ f[n] \in Seq(Value)
      <3>1. f[n + 1] = f[(n + 1) - 1] \o Process(list, i)
        BY <1>2, <2>1, Zenon
      <3>2. f[n] \in Seq(Value)
        BY <1>2, <2>1, Zenon
      <3> QED
        BY <2>1, <3>1, <3>2, Zenon
    <2>5. /\ IsFiniteSet(Occurrences(list, {i}, W))
          /\ Cardinality(Occurrences(list, {i}, W)) =
               Cardinality(Hits(Process(list, i), W))
      BY <2>1, OccurrencesAtOne
    <2> HIDE DEF i, I
    <2>6. /\ IsFiniteSet(Occurrences(list, I \cup {i}, W))
          /\ Cardinality(Occurrences(list, I \cup {i}, W)) =
               Cardinality(Occurrences(list, I, W))
               + Cardinality(Occurrences(list, {i}, W))
      BY <1>4, <2>2, <2>5, OccurrencesOfUnion DEF I
    <2>7. Cardinality(Hits(f[n] \o Process(list, i), W)) =
            Cardinality(Hits(f[n], W)) + Cardinality(Hits(Process(list, i), W))
      BY <2>3, <2>4, HitsOfConcatenation
    <2>8. Cardinality(O(n + 1)) = Cardinality(Hits(f[n + 1], W))
      BY <1>4, <2>2, <2>4, <2>5, <2>6, <2>7, Zenon DEF I
    <2> QED
      BY <2>2, <2>6, <2>8
  <1>5. 0 \in P
    BY <1>3
  <1>6. \A n \in 0 .. N - 1 : n \in P => n + 1 \in P
    <2> HIDE DEF Counted
    <2> QED
      BY <1>4
  <1>7. \A n \in 0..N : n \in P
    <2> HIDE DEF P
    <2> QED
      BY <1>1, <1>5, <1>6, BoundedInduction
  <1>8. Counted(N)
    <2>1. N \in 0..N
      BY <1>1
    <2> QED
      BY <1>7, <2>1
  <1> QED
    BY <1>8, ResultsDef DEF Position, f

\* The results for positions of the list are finitely many.
LEMMA OccurrencesFinite ==
  ASSUME NEW list \in List, NEW I, I \subseteq 1..Len(list), NEW W
  PROVE  IsFiniteSet(Occurrences(list, I, W))
  <1> DEFINE t == [start |-> 0, length |-> Len(list)]
  <1>1. Len(list) \in Nat
    BY ListAssumption
  <1>2. InList(list, t) /\ Position(t) = 1..Len(list)
    BY <1>1 DEF InList, TaskRange, Position
  <1>3. IsFiniteSet(Occurrences(list, 1..Len(list), W))
    <2> HIDE DEF t
    <2> QED
      BY <1>2, OccurrencesInResults
  <1>4. Occurrences(list, I, W) \subseteq Occurrences(list, 1..Len(list), W)
    <2> DEFINE J == 1..Len(list)
    <2>1. I \subseteq J
      OBVIOUS
    <2> HIDE DEF J
    <2>2. Occurrences(list, I, W) \subseteq Occurrences(list, J, W)
      <3> SUFFICES ASSUME NEW p \in Occurrences(list, I, W)
                   PROVE  p \in Occurrences(list, J, W)
        OBVIOUS
      <3>1. \E i \in I : \E j \in Hits(Process(list, i), W) : p = <<i, j>>
        BY DEF Occurrences
      <3>2. \E i \in J : \E j \in Hits(Process(list, i), W) : p = <<i, j>>
        BY <2>1, <3>1, Zenon
      <3> QED
        BY <3>2 DEF Occurrences
    <2> QED
      BY <2>2 DEF J
  <1> QED
    BY <1>3, <1>4, FS_Subset

-----------------------------------------------------------------------------
(* The inductive invariant *)

LEMMA InitIInv == Init => IInv
  <1> SUFFICES ASSUME Init PROVE IInv
    OBVIOUS
  <1>1. original \in Seq(Value) /\ <<>> \in Seq(Value)
    BY ListAssumption DEF Init
  <1>2. TypeOK
    BY <1>1 DEF Init, TypeOK, TaskRange
  <1>3. Unjoined = {} /\ TasksOf(processing) = {} /\ TasksOf(processed_elements) = {}
    BY DEF Init, Unjoined, TasksOf
  <1>4. TaskShape
    BY <1>3, FS_EmptySet DEF Init, TaskShape
  <1>5. TasksPartition /\ OpenTasksCounted /\ ListShape
    BY DEF Init, TasksPartition, OpenTasksCounted, ListShape
  <1>6. ResultsJoined
    <2> SUFFICES ASSUME NEW W
                 PROVE  Cardinality(Hits(processed_list, W)) =
                          Cardinality(Occurrences(original, joined, W))
      BY DEF ResultsJoined
    <2>1. Hits(processed_list, W) = {}
      BY DEF Init, Hits
    <2>2. Occurrences(original, joined, W) = {}
      BY NoOccurrences DEF Init
    <2> QED
      BY <2>1, <2>2
  <1> QED
    BY <1>2, <1>4, <1>5, <1>6 DEF IInv

LEMMA initPreserves ==
  ASSUME IInv, init
  PROVE  IInv'
  <1>1. BatchSize \in Nat /\ BatchSize > 0
    <2>1. in_args.symmetry_group_size \in Nat \ {0} /\ JobSize \in Nat
      BY ConfigAssumption DEF IInv, TypeOK
    <2>2. JobSize \div in_args.symmetry_group_size \in Nat
      BY <2>1
    <2> QED
      BY <2>2 DEF BatchSize, Larger
  <1>2. TypeOK'
    BY <1>1, ConfigAssumption DEF IInv, TypeOK, init, input, tasks
  <1>3. TaskShape'
    BY DEF IInv, TaskShape, init, input, tasks, Unjoined, TasksOf, Generated
  <1>4. TasksPartition' /\ OpenTasksCounted'
    BY DEF init, TasksPartition, OpenTasksCounted
  <1>5. ListShape'
    BY <1>1 DEF IInv, ListShape, init, input
  <1>6. ResultsJoined'
    BY DEF IInv, ResultsJoined, init, input
  <1> QED
    BY <1>2, <1>3, <1>4, <1>5, <1>6 DEF IInv

LEMMA SkipListPreserves ==
  ASSUME IInv, SkipList
  PROVE  IInv'
  <1>1. TypeOK'
    BY DEF IInv, TypeOK, SkipList, input, tasks
  <1>2. TaskShape'
    BY DEF IInv, TaskShape, SkipList, input, tasks, Unjoined, TasksOf, Generated
  <1>3. TasksPartition' /\ OpenTasksCounted'
    BY DEF SkipList, TasksPartition, OpenTasksCounted
  <1>4. ListShape'
    BY DEF IInv, ListShape, SkipList, input
  <1>5. ResultsJoined'
    BY DEF IInv, ResultsJoined, SkipList, input
  <1> QED
    BY <1>1, <1>2, <1>3, <1>4, <1>5 DEF IInv

\* The first task begins the list and is empty only if the list is.
LEMMA no_skipPreserves ==
  ASSUME IInv, no_skip
  PROVE  IInv'
  <1> DEFINE first == [start |-> 0, length |-> Smaller(Len(original), batch_size)]
  <1>1. /\ original \in List /\ original \in Seq(Value) /\ Len(original) \in Nat
        /\ inout_list = original
        /\ batch_size \in Nat /\ batch_size > 0
        /\ joined = {} /\ processed_list = <<>>
        /\ ~ in_args.skip
    BY ListAssumption DEF IInv, TypeOK, ListShape, no_skip
  <1>2. first \in TaskRange /\ first.length <= Len(original)
        /\ (first.length = 0 => Len(original) = 0)
        /\ first.start = 0
    BY <1>1 DEF TaskRange, Smaller
  <1>3. /\ last_task' = first /\ open_tasks' = {first}
        /\ list_size' = Len(original) /\ control' = "running"
        /\ number_of_open_tasks' = 1
        /\ all_tasks_generated' = (first.length >= Len(original))
        /\ processed_list' = <<>> /\ joined' = {}
        /\ original' = original /\ in_args' = in_args
        /\ inout_list' = inout_list /\ batch_size' = batch_size /\ skip' = skip
        /\ processing' = processing /\ processed_elements' = processed_elements
    BY <1>1 DEF no_skip, input
  <1> HIDE DEF first
  <1>4. Unjoined = {} /\ processing = {} /\ processed_elements = {}
    <2>1. Unjoined = {}
      BY DEF IInv, TaskShape, no_skip
    <2> QED
      BY <2>1 DEF Unjoined, TasksOf
  <1>5. Unjoined' = {first}
        /\ TasksOf(processing)' = {} /\ TasksOf(processed_elements)' = {}
    BY <1>3, <1>4 DEF Unjoined, TasksOf
  <1>6. TypeOK'
    <2>1. <<>> \in Seq(Value)
      OBVIOUS
    <2> QED
      BY <1>1, <1>2, <1>3, <2>1 DEF IInv, TypeOK
  <1>7. TaskShape'
    <2>1. IsFiniteSet(open_tasks)' /\ IsFiniteSet(processing)'
          /\ IsFiniteSet(processed_elements)'
      BY <1>3, <1>4, FS_EmptySet, FS_Singleton
    <2>2. first.start + first.length <= Generated'
      BY <1>2, <1>3 DEF Generated, TaskRange
    <2> QED
      BY <1>2, <1>3, <1>4, <1>5, <2>1, <2>2 DEF TaskShape
  <1>8. TasksPartition'
    <2>1. Position(first) = 1..first.length
      BY <1>2 DEF Position, TaskRange
    <2>2. last_task'.start + last_task'.length = first.length
      BY <1>2, <1>3 DEF TaskRange
    <2>3. UNION {Position(t) : t \in Unjoined'} = Position(first)
      BY <1>5
    <2>4. first.length <= list_size'
      BY <1>2, <1>3
    <2>5. all_tasks_generated' <=> first.length = list_size'
      <3>1. first.length >= Len(original) <=> first.length = Len(original)
        BY <1>1, <1>2 DEF TaskRange
      <3> QED
        BY <1>3, <3>1, Zenon
    <2>6. 1..first.length = joined' \cup UNION {Position(t) : t \in Unjoined'}
      BY <1>3, <2>1, <2>3
    <2>7. \A t \in Unjoined' : Position(t) \cap joined' = {}
      BY <1>3
    <2>8. \A t, u \in Unjoined' : t = u
      BY <1>5
    <2> QED
      BY <2>2, <2>4, <2>5, <2>6, <2>7, <2>8, Zenon DEF TasksPartition
  <1>9. OpenTasksCounted'
    <2>1. Cardinality(open_tasks') = 1 /\ Cardinality(processing') = 0
          /\ Cardinality(processed_elements') = 0
      BY <1>3, <1>4, FS_EmptySet, FS_Singleton
    <2> QED
      BY <1>3, <2>1 DEF OpenTasksCounted
  <1>10. ListShape'
    BY <1>1, <1>3 DEF IInv, ListShape
  <1>11. ResultsJoined'
    BY <1>1, <1>3 DEF IInv, ResultsJoined
  <1> QED
    BY <1>6, <1>7, <1>8, <1>9, <1>10, <1>11 DEF IInv

\* The positions of some tasks.
Covered(U) == UNION {Position(t) : t \in U}

LEMMA CoveredIs ==
  ASSUME NEW U
  PROVE  \A i : i \in Covered(U) <=> \E t \in U : i \in Position(t)
  BY DEF Covered

LEMMA CoveredByOneMore ==
  ASSUME NEW U, NEW t
  PROVE  Covered(U \cup {t}) = Covered(U) \cup Position(t)
  BY CoveredIs

\* What is known of a running net.
LEMMA RunningFacts ==
  ASSUME IInv, control = "running"
  PROVE  /\ original \in List /\ Len(original) \in Nat
         /\ inout_list = original
         /\ list_size = Len(original) /\ list_size \in Nat
         /\ batch_size \in Nat /\ batch_size > 0
         /\ last_task \in TaskRange
         /\ Generated \in Nat /\ Generated <= list_size
         /\ all_tasks_generated <=> Generated = list_size
         /\ 1..Generated = joined \cup Covered(Unjoined)
         /\ \A t \in Unjoined : Position(t) \cap joined = {}
         /\ \A t, u \in Unjoined : t # u => Position(t) \cap Position(u) = {}
         /\ \A t \in Unjoined : InList(original, t)
  <1>1. /\ original \in List /\ Len(original) \in Nat
        /\ inout_list = original
        /\ list_size = Len(original) /\ list_size \in Nat
        /\ batch_size \in Nat /\ batch_size > 0
        /\ last_task \in TaskRange
    BY ListAssumption DEF IInv, TypeOK, ListShape
  <1>2. Generated \in Nat
    BY <1>1 DEF Generated, TaskRange
  <1>3. /\ Generated <= list_size
        /\ all_tasks_generated <=> Generated = list_size
        /\ 1..Generated = joined \cup Covered(Unjoined)
        /\ \A t \in Unjoined : Position(t) \cap joined = {}
        /\ \A t, u \in Unjoined : t # u => Position(t) \cap Position(u) = {}
    BY Zenon DEF IInv, TasksPartition, Generated, Covered
  <1>4. ASSUME NEW t \in Unjoined PROVE InList(original, t)
    <2>1. t \in TaskRange
      BY DEF IInv, TypeOK, Unjoined, TasksOf
    <2>2. t.start + t.length <= Generated
      BY DEF IInv, TaskShape
    <2> QED
      BY <1>1, <1>2, <1>3, <2>1, <2>2 DEF InList, TaskRange
  <1> QED
    BY <1>1, <1>2, <1>3, <1>4

\* The next task begins where the last one ended; it is not empty.
LEMMA generate_tasksPreserves ==
  ASSUME IInv, generate_tasks
  PROVE  IInv'
  <1>0. control = "running"
    BY DEF generate_tasks
  <1>1. /\ original \in List /\ Len(original) \in Nat
        /\ list_size = Len(original) /\ list_size \in Nat
        /\ batch_size \in Nat /\ batch_size > 0
        /\ Generated \in Nat /\ Generated <= list_size
        /\ all_tasks_generated <=> Generated = list_size
        /\ 1..Generated = joined \cup Covered(Unjoined)
        /\ \A t \in Unjoined : Position(t) \cap joined = {}
        /\ \A t, u \in Unjoined : t # u => Position(t) \cap Position(u) = {}
        /\ \A t \in Unjoined : InList(original, t)
    BY <1>0, RunningFacts
  <1>2. Generated < list_size
    BY <1>1 DEF generate_tasks
  <1> DEFINE new == NextTask
  <1>3. /\ new \in TaskRange
        /\ new.start = Generated
        /\ new.length > 0
        /\ new.start + new.length <= list_size
    BY <1>1, <1>2 DEF NextTask, Generated, TaskRange, Smaller
  <1>4. /\ last_task' = new /\ open_tasks' = open_tasks \cup {new}
        /\ number_of_open_tasks' = number_of_open_tasks + 1
        /\ all_tasks_generated' = (new.start + new.length >= list_size)
        /\ original' = original /\ in_args' = in_args
        /\ control' = control /\ inout_list' = inout_list /\ skip' = skip
        /\ batch_size' = batch_size /\ list_size' = list_size
        /\ processing' = processing /\ processed_elements' = processed_elements
        /\ processed_list' = processed_list /\ joined' = joined
    BY DEF generate_tasks, input
  <1> HIDE DEF new
  <1>5. Unjoined' = Unjoined \cup {new}
        /\ TasksOf(processing)' = TasksOf(processing)
        /\ TasksOf(processed_elements)' = TasksOf(processed_elements)
    BY <1>4 DEF Unjoined, TasksOf
  <1>6. Generated' = new.start + new.length /\ Generated' \in Nat
    BY <1>3, <1>4 DEF Generated, TaskRange
  <1>7. new \notin Unjoined
    <2>1. \A t \in Unjoined : t.start + t.length <= Generated
      BY DEF IInv, TaskShape
    <2> QED
      BY <1>1, <1>3, <2>1 DEF TaskRange
  <1>8. TypeOK'
    BY <1>0, <1>3, <1>4 DEF IInv, TypeOK
  <1>9. TaskShape'
    <2>1. IsFiniteSet(open_tasks)'
      BY <1>4, FS_AddElement DEF IInv, TaskShape
    <2>2. ASSUME NEW t \in Unjoined'
          PROVE  t.start + t.length <= Generated' /\ (t.length = 0 => list_size' = 0)
      <3>1. CASE t = new
        BY <1>3, <1>6, <3>1 DEF TaskRange
      <3>2. CASE t \in Unjoined
        <4>1. t.start + t.length <= Generated /\ (t.length = 0 => list_size = 0)
          BY <3>2 DEF IInv, TaskShape
        <4>2. t \in TaskRange
          BY <1>1, <3>2 DEF InList
        <4> QED
          BY <1>1, <1>3, <1>4, <1>6, <4>1, <4>2 DEF TaskRange
      <3> QED
        BY <1>5, <3>1, <3>2
    <2>3. open_tasks' \cap TasksOf(processing)' = {}
          /\ open_tasks' \cap TasksOf(processed_elements)' = {}
      BY <1>4, <1>5, <1>7 DEF IInv, TaskShape, Unjoined
    <2> QED
      BY <1>0, <1>4, <1>5, <2>1, <2>2, <2>3 DEF IInv, TaskShape
  <1>10. TasksPartition'
    <2>1. Position(new) = Generated + 1 .. Generated'
      BY <1>3, <1>6 DEF Position
    <2>2. 1..Generated' = 1..Generated \cup Position(new)
          /\ Position(new) \cap 1..Generated = {}
      BY <1>1, <1>3, <1>6, <2>1 DEF TaskRange
    <2>3. Covered(Unjoined') = Covered(Unjoined) \cup Position(new)
      BY <1>5, CoveredByOneMore
    <2>4. 1..Generated' = joined' \cup Covered(Unjoined')
      BY <1>1, <1>4, <2>2, <2>3
    <2>5. \A t \in Unjoined : Position(t) \subseteq 1..Generated
      BY <1>1, CoveredIs
    <2>6. joined \subseteq 1..Generated
      BY <1>1
    <2>7. \A t \in Unjoined' : Position(t) \cap joined' = {}
      BY <1>1, <1>4, <1>5, <2>2, <2>6
    <2>8. \A t, u \in Unjoined' : t # u => Position(t) \cap Position(u) = {}
      BY <1>1, <1>5, <2>2, <2>5
    <2>9. Generated' <= list_size'
      BY <1>3, <1>4, <1>6
    <2>10. all_tasks_generated' <=> Generated' = list_size'
      <3>1. new.start + new.length >= list_size <=> Generated' = list_size
        BY <1>1, <1>3, <1>6
      <3> QED
        BY <1>4, <3>1, Zenon
    <2> QED
      BY <2>4, <2>7, <2>8, <2>9, <2>10, Zenon DEF TasksPartition, Generated, Covered
  <1>11. OpenTasksCounted'
    <2>1. Cardinality(open_tasks') = Cardinality(open_tasks) + 1
      BY <1>4, <1>7, FS_AddElement DEF IInv, TaskShape, Unjoined
    <2>2. Cardinality(open_tasks) \in Nat /\ Cardinality(processing) \in Nat
          /\ Cardinality(processed_elements) \in Nat
      BY FS_CardinalityType DEF IInv, TaskShape
    <2>3. number_of_open_tasks =
            Cardinality(open_tasks) + Cardinality(processing)
            + Cardinality(processed_elements)
      BY <1>0 DEF IInv, OpenTasksCounted
    <2> QED
      BY <1>4, <2>1, <2>2, <2>3 DEF OpenTasksCounted
  <1>12. ListShape'
    BY <1>0, <1>4 DEF IInv, ListShape
  <1>13. ResultsJoined'
    BY <1>4 DEF IInv, ResultsJoined
  <1> QED
    BY <1>8, <1>9, <1>10, <1>11, <1>12, <1>13 DEF IInv

\* A task and its results determine each other.
LEMMA OneResultPerTask ==
  ASSUME IInv
  PROVE  \A r, q \in processing \cup processed_elements : r.task = q.task => r = q
  <1> SUFFICES ASSUME NEW r \in processing \cup processed_elements,
                      NEW q \in processing \cup processed_elements,
                      r.task = q.task
               PROVE  r = q
    OBVIOUS
  <1>1. r.elements = q.elements
    BY DEF IInv, TaskShape
  <1>2. /\ r \in [task : TaskRange, elements : Seq(Value)]
        /\ q \in [task : TaskRange, elements : Seq(Value)]
    BY DEF IInv, TypeOK
  <1> QED
    BY <1>1, <1>2

LEMMA TasksOfAdded ==
  ASSUME NEW S, NEW r
  PROVE  TasksOf(S \cup {r}) = TasksOf(S) \cup {r.task}
  BY DEF TasksOf

LEMMA TasksOfRemoved ==
  ASSUME NEW S, NEW r \in S, \A q \in S : q.task = r.task => q = r
  PROVE  TasksOf(S \ {r}) = TasksOf(S) \ {r.task}
  BY DEF TasksOf

\* A worker takes a task: it stays one of the tasks that are not joined.
LEMMA BeginProcessPreserves ==
  ASSUME IInv, NEW t \in open_tasks, BeginProcess(t)
  PROVE  IInv'
  <1> DEFINE r == [task |-> t, elements |-> Results(inout_list, t)]
  <1>1. t \in Unjoined /\ control = "running"
    BY DEF Unjoined, IInv, TaskShape
  <1>2. original \in List /\ inout_list = original /\ InList(original, t)
    BY <1>1, RunningFacts
  <1>3. r.task = t /\ r.elements = Results(original, t)
        /\ r \in [task : TaskRange, elements : Seq(Value)]
    BY <1>2, ResultsType DEF InList
  <1>4. /\ open_tasks' = open_tasks \ {t}
        /\ processing' = processing \cup {r}
        /\ original' = original /\ in_args' = in_args
        /\ control' = control /\ inout_list' = inout_list /\ skip' = skip
        /\ batch_size' = batch_size /\ list_size' = list_size
        /\ last_task' = last_task /\ processed_elements' = processed_elements
        /\ processed_list' = processed_list /\ joined' = joined
        /\ number_of_open_tasks' = number_of_open_tasks
        /\ all_tasks_generated' = all_tasks_generated
    BY DEF BeginProcess, input
  <1> HIDE DEF r
  <1>5. t \notin TasksOf(processing) /\ t \notin TasksOf(processed_elements)
    BY DEF IInv, TaskShape
  <1>6. TasksOf(processing') = TasksOf(processing) \cup {t}
    BY <1>3, <1>4, TasksOfAdded
  <1>7. Unjoined' = Unjoined
    BY <1>4, <1>6 DEF Unjoined
  <1>8. TypeOK'
    BY <1>3, <1>4 DEF IInv, TypeOK
  <1>9. TaskShape'
    <2>1. IsFiniteSet(open_tasks') /\ IsFiniteSet(processing')
      BY <1>4, FS_AddElement, FS_RemoveElement DEF IInv, TaskShape
    <2>2. /\ open_tasks' \cap TasksOf(processing') = {}
          /\ open_tasks' \cap TasksOf(processed_elements') = {}
          /\ TasksOf(processing') \cap TasksOf(processed_elements') = {}
      BY <1>4, <1>5, <1>6 DEF IInv, TaskShape
    <2>3. \A q \in processing' \cup processed_elements' :
            q.elements = Results(original', q.task)
      BY <1>3, <1>4 DEF IInv, TaskShape
    <2>4. Generated' = Generated
      BY <1>4 DEF Generated
    <2> QED
      BY <1>1, <1>4, <1>7, <2>1, <2>2, <2>3, <2>4 DEF IInv, TaskShape
  <1>10. TasksPartition'
    BY <1>4, <1>7, Zenon DEF IInv, TasksPartition
  <1>11. OpenTasksCounted'
    <2>1. r \notin processing
      BY <1>3, <1>5 DEF TasksOf
    <2>2. Cardinality(processing') = Cardinality(processing) + 1
      BY <1>4, <2>1, FS_AddElement DEF IInv, TaskShape
    <2>3. Cardinality(open_tasks') = Cardinality(open_tasks) - 1
      BY <1>4, FS_RemoveElement DEF IInv, TaskShape
    <2>4. Cardinality(open_tasks) \in Nat /\ Cardinality(processing) \in Nat
          /\ Cardinality(processed_elements) \in Nat
      BY FS_CardinalityType DEF IInv, TaskShape
    <2>5. number_of_open_tasks =
            Cardinality(open_tasks) + Cardinality(processing)
            + Cardinality(processed_elements)
      BY <1>1 DEF IInv, OpenTasksCounted
    <2> QED
      BY <1>4, <2>2, <2>3, <2>4, <2>5 DEF OpenTasksCounted
  <1>12. ListShape' /\ ResultsJoined'
    BY <1>1, <1>4 DEF IInv, ListShape, ResultsJoined
  <1> QED
    BY <1>8, <1>9, <1>10, <1>11, <1>12 DEF IInv

\* A worker ends: its task is done, but not joined.
LEMMA EndProcessPreserves ==
  ASSUME IInv, NEW r \in processing, EndProcess(r)
  PROVE  IInv'
  <1>1. r.task \in TasksOf(processing) /\ control = "running"
    BY DEF Unjoined, IInv, TaskShape, TasksOf
  <1>2. /\ processing' = processing \ {r}
        /\ processed_elements' = processed_elements \cup {r}
        /\ original' = original /\ in_args' = in_args
        /\ control' = control /\ inout_list' = inout_list /\ skip' = skip
        /\ batch_size' = batch_size /\ list_size' = list_size
        /\ last_task' = last_task /\ open_tasks' = open_tasks
        /\ processed_list' = processed_list /\ joined' = joined
        /\ number_of_open_tasks' = number_of_open_tasks
        /\ all_tasks_generated' = all_tasks_generated
    BY DEF EndProcess, input
  <1>3. TasksOf(processing') = TasksOf(processing) \ {r.task}
    BY <1>2, OneResultPerTask, TasksOfRemoved
  <1>4. TasksOf(processed_elements') = TasksOf(processed_elements) \cup {r.task}
    BY <1>2, TasksOfAdded
  <1>5. Unjoined' = Unjoined
    BY <1>1, <1>2, <1>3, <1>4 DEF Unjoined
  <1>6. TypeOK'
    BY <1>2 DEF IInv, TypeOK
  <1>7. TaskShape'
    <2>1. IsFiniteSet(processing') /\ IsFiniteSet(processed_elements')
      BY <1>2, FS_AddElement, FS_RemoveElement DEF IInv, TaskShape
    <2>2. /\ open_tasks' \cap TasksOf(processing') = {}
          /\ open_tasks' \cap TasksOf(processed_elements') = {}
          /\ TasksOf(processing') \cap TasksOf(processed_elements') = {}
      BY <1>1, <1>2, <1>3, <1>4 DEF IInv, TaskShape
    <2>3. \A q \in processing' \cup processed_elements' :
            q.elements = Results(original', q.task)
      BY <1>2 DEF IInv, TaskShape
    <2>4. Generated' = Generated
      BY <1>2 DEF Generated
    <2> QED
      BY <1>1, <1>2, <1>5, <2>1, <2>2, <2>3, <2>4 DEF IInv, TaskShape
  <1>8. TasksPartition'
    BY <1>2, <1>5, Zenon DEF IInv, TasksPartition
  <1>9. OpenTasksCounted'
    <2>1. r \notin processed_elements
      BY <1>1 DEF IInv, TaskShape, TasksOf
    <2>2. Cardinality(processed_elements') = Cardinality(processed_elements) + 1
      BY <1>2, <2>1, FS_AddElement DEF IInv, TaskShape
    <2>3. Cardinality(processing') = Cardinality(processing) - 1
      BY <1>2, FS_RemoveElement DEF IInv, TaskShape
    <2>4. Cardinality(open_tasks) \in Nat /\ Cardinality(processing) \in Nat
          /\ Cardinality(processed_elements) \in Nat
      BY FS_CardinalityType DEF IInv, TaskShape
    <2>5. number_of_open_tasks =
            Cardinality(open_tasks) + Cardinality(processing)
            + Cardinality(processed_elements)
      BY <1>1 DEF IInv, OpenTasksCounted
    <2> QED
      BY <1>2, <2>2, <2>3, <2>4, <2>5 DEF OpenTasksCounted
  <1>10. ListShape' /\ ResultsJoined'
    BY <1>1, <1>2 DEF IInv, ListShape, ResultsJoined
  <1> QED
    BY <1>6, <1>7, <1>8, <1>9, <1>10 DEF IInv

\* The results of a range are joined: its positions change sides.
LEMMA aggregatePreserves ==
  ASSUME IInv, NEW r \in processed_elements, aggregate(r)
  PROVE  IInv'
  <1> DEFINE t == r.task
  <1>1. t \in TasksOf(processed_elements) /\ t \in Unjoined /\ control = "running"
    BY DEF Unjoined, IInv, TaskShape, TasksOf
  <1>2. /\ original \in List /\ Len(original) \in Nat
        /\ list_size = Len(original) /\ list_size \in Nat
        /\ Generated \in Nat /\ Generated <= list_size
        /\ all_tasks_generated <=> Generated = list_size
        /\ 1..Generated = joined \cup Covered(Unjoined)
        /\ \A u \in Unjoined : Position(u) \cap joined = {}
        /\ \A u, w \in Unjoined : u # w => Position(u) \cap Position(w) = {}
        /\ InList(original, t)
    BY <1>1, RunningFacts
  <1>3. r.elements = Results(original, t)
    BY DEF IInv, TaskShape
  <1>4. /\ processed_elements' = processed_elements \ {r}
        /\ processed_list' = processed_list \o r.elements
        /\ number_of_open_tasks' = number_of_open_tasks - 1
        /\ joined' = joined \cup Position(t)
        /\ original' = original /\ in_args' = in_args
        /\ control' = control /\ inout_list' = inout_list /\ skip' = skip
        /\ batch_size' = batch_size /\ list_size' = list_size
        /\ last_task' = last_task /\ open_tasks' = open_tasks
        /\ processing' = processing
        /\ all_tasks_generated' = all_tasks_generated
    BY DEF aggregate, input
  <1>5. TasksOf(processed_elements') = TasksOf(processed_elements) \ {t}
    BY <1>4, OneResultPerTask, TasksOfRemoved
  <1> HIDE DEF t
  <1>6. Unjoined' = Unjoined \ {t} /\ TasksOf(processing') = TasksOf(processing)
    BY <1>1, <1>4, <1>5 DEF Unjoined, IInv, TaskShape
  <1>7. Generated' = Generated
    BY <1>4 DEF Generated
  <1>8. Position(t) \subseteq 1..Len(original)
    BY <1>2 DEF InList, TaskRange, Position
  <1>9. OpenTasksCounted' /\ number_of_open_tasks' \in Nat
    <2>1. Cardinality(processed_elements') = Cardinality(processed_elements) - 1
          /\ Cardinality(processed_elements') \in Nat
      BY <1>4, FS_RemoveElement, FS_CardinalityType DEF IInv, TaskShape
    <2>2. Cardinality(open_tasks) \in Nat /\ Cardinality(processing) \in Nat
          /\ Cardinality(processed_elements) \in Nat
      BY FS_CardinalityType DEF IInv, TaskShape
    <2>3. number_of_open_tasks =
            Cardinality(open_tasks) + Cardinality(processing)
            + Cardinality(processed_elements)
      BY <1>1 DEF IInv, OpenTasksCounted
    <2> QED
      BY <1>4, <2>1, <2>2, <2>3 DEF OpenTasksCounted
  <1>10. TypeOK'
    <2>1. r.elements \in Seq(Value)
      BY <1>2, <1>3, ResultsType
    <2>2. processed_list' \in Seq(Value)
      BY <1>4, <2>1 DEF IInv, TypeOK
    <2> QED
      BY <1>4, <1>8, <1>9, <2>2 DEF IInv, TypeOK
  <1>11. TaskShape'
    <2>1. IsFiniteSet(processed_elements')
      BY <1>4, FS_RemoveElement DEF IInv, TaskShape
    <2>2. /\ open_tasks' \cap TasksOf(processing') = {}
          /\ open_tasks' \cap TasksOf(processed_elements') = {}
          /\ TasksOf(processing') \cap TasksOf(processed_elements') = {}
      BY <1>4, <1>5, <1>6 DEF IInv, TaskShape
    <2>3. \A q \in processing' \cup processed_elements' :
            q.elements = Results(original', q.task)
      BY <1>4 DEF IInv, TaskShape
    <2> QED
      BY <1>1, <1>4, <1>6, <1>7, <2>1, <2>2, <2>3 DEF IInv, TaskShape
  <1>12. TasksPartition'
    <2>1. Covered(Unjoined) = Covered(Unjoined') \cup Position(t)
      <3>1. Unjoined = Unjoined' \cup {t}
        BY <1>1, <1>6
      <3> QED
        BY <3>1, CoveredByOneMore
    <2>2. 1..Generated' = joined' \cup Covered(Unjoined')
      BY <1>2, <1>4, <1>7, <2>1
    <2>3. \A u \in Unjoined' : Position(u) \cap joined' = {}
      BY <1>1, <1>2, <1>4, <1>6
    <2>4. \A u, w \in Unjoined' : u # w => Position(u) \cap Position(w) = {}
      BY <1>2, <1>6
    <2>5. Generated' <= list_size' /\ (all_tasks_generated' <=> Generated' = list_size')
      BY <1>2, <1>4, <1>7, Zenon
    <2> QED
      BY <2>2, <2>3, <2>4, <2>5, Zenon DEF TasksPartition, Generated, Covered
  <1>13. ListShape'
    BY <1>1, <1>4 DEF IInv, ListShape
  <1>14. ResultsJoined'
    <2> SUFFICES ASSUME NEW W \in Kinds
                 PROVE  Cardinality(Hits(processed_list', W)) =
                          Cardinality(Occurrences(original', joined', W))
      BY DEF ResultsJoined
    <2>1. Cardinality(Hits(processed_list, W)) =
            Cardinality(Occurrences(original, joined, W))
      BY DEF IInv, ResultsJoined
    <2>2. /\ IsFiniteSet(Occurrences(original, Position(t), W))
          /\ Cardinality(Occurrences(original, Position(t), W)) =
               Cardinality(Hits(r.elements, W))
      BY <1>2, <1>3, OccurrencesInResults
    <2>3. IsFiniteSet(Occurrences(original, joined, W))
      <3>1. joined \subseteq 1..Len(original)
        BY DEF IInv, TypeOK
      <3> QED
        BY <1>2, <3>1, OccurrencesFinite
    <2>4. Cardinality(Hits(processed_list \o r.elements, W)) =
            Cardinality(Hits(processed_list, W)) + Cardinality(Hits(r.elements, W))
      BY <1>2, <1>3, ResultsType, HitsOfConcatenation DEF IInv, TypeOK
    <2>5. Cardinality(Occurrences(original, joined \cup Position(t), W)) =
            Cardinality(Occurrences(original, joined, W))
            + Cardinality(Occurrences(original, Position(t), W))
      BY <1>1, <1>2, <2>2, <2>3, OccurrencesOfUnion
    <2> QED
      BY <1>4, <2>1, <2>2, <2>4, <2>5, Zenon
  <1> QED
    BY <1>9, <1>10, <1>11, <1>12, <1>13, <1>14 DEF IInv

\* When the counter is zero and all tasks are generated, every position is
\* joined.
LEMMA NothingOpen ==
  ASSUME IInv, control = "running", all_tasks_generated, number_of_open_tasks = 0
  PROVE  Unjoined = {} /\ joined = 1..Len(original)
  <1>1. number_of_open_tasks =
          Cardinality(open_tasks) + Cardinality(processing)
          + Cardinality(processed_elements)
    BY DEF IInv, OpenTasksCounted
  <1>2. Cardinality(open_tasks) \in Nat /\ Cardinality(processing) \in Nat
        /\ Cardinality(processed_elements) \in Nat
    BY FS_CardinalityType DEF IInv, TaskShape
  <1>3. Cardinality(open_tasks) = 0 /\ Cardinality(processing) = 0
        /\ Cardinality(processed_elements) = 0
    BY <1>1, <1>2
  <1>4. open_tasks = {} /\ processing = {} /\ processed_elements = {}
    BY <1>3, FS_EmptySet DEF IInv, TaskShape
  <1>5. Unjoined = {}
    BY <1>4 DEF Unjoined, TasksOf
  <1>6. Covered(Unjoined) = {}
    BY <1>5, CoveredIs
  <1>7. Generated = Len(original) /\ 1..Generated = joined \cup Covered(Unjoined)
    BY RunningFacts
  <1> QED
    BY <1>5, <1>6, <1>7

LEMMA cleanPreserves ==
  ASSUME IInv, clean
  PROVE  IInv'
  <1>1. Unjoined = {} /\ joined = 1..Len(original)
    BY NothingOpen DEF clean
  <1>2. /\ control' = "finished" /\ inout_list' = processed_list
        /\ original' = original /\ in_args' = in_args /\ skip' = skip
        /\ batch_size' = batch_size /\ list_size' = list_size
        /\ last_task' = last_task /\ open_tasks' = open_tasks
        /\ processing' = processing /\ processed_elements' = processed_elements
        /\ processed_list' = processed_list /\ joined' = joined
        /\ number_of_open_tasks' = number_of_open_tasks
        /\ all_tasks_generated' = all_tasks_generated
    BY DEF clean, input, tasks
  <1>3. TypeOK'
    BY <1>2 DEF IInv, TypeOK
  <1>4. TaskShape'
    BY <1>1, <1>2 DEF IInv, TaskShape, Unjoined, TasksOf, Generated
  <1>5. TasksPartition' /\ OpenTasksCounted'
    BY <1>2 DEF TasksPartition, OpenTasksCounted
  <1>6. ListShape'
    BY <1>1, <1>2 DEF IInv, ListShape, clean
  <1>7. ResultsJoined'
    BY <1>2 DEF IInv, ResultsJoined
  <1> QED
    BY <1>3, <1>4, <1>5, <1>6, <1>7 DEF IInv

LEMMA StutterPreserves ==
  ASSUME IInv, UNCHANGED vars
  PROVE  IInv'
  <1>1. TypeOK'
    BY DEF IInv, TypeOK, vars, input, tasks
  <1>2. TaskShape'
    BY DEF IInv, TaskShape, vars, input, tasks, Unjoined, TasksOf, Generated
  <1>3. TasksPartition'
    BY Zenon DEF IInv, TasksPartition, vars, input, tasks, Unjoined, TasksOf
  <1>4. OpenTasksCounted' /\ ListShape' /\ ResultsJoined'
    BY DEF IInv, OpenTasksCounted, ListShape, ResultsJoined, vars, input, tasks
  <1> QED
    BY <1>1, <1>2, <1>3, <1>4 DEF IInv

LEMMA NextPreserves == IInv /\ [Next]_vars => IInv'
  <1> SUFFICES ASSUME IInv, [Next]_vars PROVE IInv'
    OBVIOUS
  <1>1. CASE init
    BY <1>1, initPreserves
  <1>2. CASE SkipList
    BY <1>2, SkipListPreserves
  <1>3. CASE no_skip
    BY <1>3, no_skipPreserves
  <1>4. CASE generate_tasks
    BY <1>4, generate_tasksPreserves
  <1>5. CASE \E t \in open_tasks : BeginProcess(t)
    BY <1>5, BeginProcessPreserves
  <1>6. CASE \E r \in processing : EndProcess(r)
    BY <1>6, EndProcessPreserves
  <1>7. CASE \E r \in processed_elements : aggregate(r)
    BY <1>7, aggregatePreserves
  <1>8. CASE clean
    BY <1>8, cleanPreserves
  <1>9. CASE UNCHANGED vars
    BY <1>9, StutterPreserves
  <1> QED
    BY <1>1, <1>2, <1>3, <1>4, <1>5, <1>6, <1>7, <1>8, <1>9 DEF Next, Finished

-----------------------------------------------------------------------------
(* Theorems *)

\* The inductive invariant holds in every state of every execution of the
\* net.
THEOREM ListInvariant == Spec => []IInv
  BY InitIInv, NextPreserves, PTL DEF Spec

\* Type correctness: what the places of the net hold, and that what a worker
\* makes of a range is a list of values.
THEOREM ListTypeCorrect == Spec => []TypeOK
  <1>1. IInv => TypeOK
    BY DEF IInv
  <1> QED
    BY <1>1, ListInvariant, PTL

\* The transitions no_skip and generate_tasks cut every list without gap and
\* overlap, whatever its length and the batch size.
THEOREM ListIsPartitioned == Spec => []TasksPartition
  <1>1. IInv => TasksPartition
    BY DEF IInv
  <1> QED
    BY <1>1, ListInvariant, PTL

\* There are as many tasks in some results as results.
LEMMA TasksOfCounted ==
  ASSUME IInv, NEW S, IsFiniteSet(S),
         S \subseteq processing \cup processed_elements
  PROVE  IsFiniteSet(TasksOf(S)) /\ Cardinality(TasksOf(S)) = Cardinality(S)
  <1> DEFINE f == [r \in S |-> r.task]
  <1>1. f \in [S -> TasksOf(S)]
    BY DEF TasksOf
  <1>2. \A r, q \in S : f[r] = f[q] => r = q
    BY OneResultPerTask
  <1>3. \A t \in TasksOf(S) : \E r \in S : f[r] = t
    BY DEF TasksOf
  <1> HIDE DEF f
  <1> QED
    BY <1>1, <1>2, <1>3, OneToOne

\* The counter number_of_open_tasks, which no_skip sets, generate_tasks
\* increments and aggregate decrements, is the number of tasks that are not
\* joined, so that clean never overtakes a worker.
THEOREM ListTasksCounted == Spec => []TasksCounted
  <1>1. ASSUME IInv PROVE TasksCounted
    <2> SUFFICES ASSUME control = "running"
                 PROVE  /\ number_of_open_tasks = Cardinality(Unjoined)
                        /\ Cardinality(Unjoined) =
                             Cardinality(open_tasks) + Cardinality(processing)
                             + Cardinality(processed_elements)
      BY DEF TasksCounted
    <2> DEFINE P == TasksOf(processing)
               Q == TasksOf(processed_elements)
    <2>1. /\ IsFiniteSet(open_tasks) /\ IsFiniteSet(P) /\ IsFiniteSet(Q)
          /\ Cardinality(P) = Cardinality(processing)
          /\ Cardinality(Q) = Cardinality(processed_elements)
      BY <1>1, TasksOfCounted DEF IInv, TaskShape
    <2>2. open_tasks \cap P = {} /\ (open_tasks \cup P) \cap Q = {}
      BY <1>1 DEF IInv, TaskShape
    <2>3. Unjoined = (open_tasks \cup P) \cup Q
      BY DEF Unjoined
    <2> HIDE DEF P, Q
    <2>4. /\ IsFiniteSet(open_tasks \cup P)
          /\ Cardinality(open_tasks \cup P) = Cardinality(open_tasks) + Cardinality(P)
      BY <2>1, <2>2, DisjointUnion
    <2>5. Cardinality(Unjoined) = Cardinality(open_tasks \cup P) + Cardinality(Q)
      BY <2>1, <2>2, <2>3, <2>4, DisjointUnion
    <2>6. number_of_open_tasks =
            Cardinality(open_tasks) + Cardinality(processing)
            + Cardinality(processed_elements)
      BY <1>1 DEF IInv, OpenTasksCounted
    <2> QED
      BY <2>1, <2>4, <2>5, <2>6
  <1> QED
    BY <1>1, ListInvariant, PTL

\* How often a value, or any value, occurs in the end is how often it occurs
\* in the list a single worker would have computed.
LEMMA FinishedCounts ==
  ASSUME IInv, control = "finished", ~ in_args.skip, NEW W \in Kinds
  PROVE  Cardinality(Hits(inout_list, W)) = Cardinality(Hits(Reference, W))
  <1> DEFINE t == [start |-> 0, length |-> Len(original)]
  <1>1. original \in List /\ Len(original) \in Nat
    BY ListAssumption DEF IInv, TypeOK
  <1>2. InList(original, t) /\ Position(t) = 1..Len(original)
    BY <1>1 DEF InList, TaskRange, Position
  <1>3. Reference = Results(original, t)
    BY DEF Reference
  <1> HIDE DEF t
  <1>4. inout_list = processed_list /\ joined = 1..Len(original)
    BY DEF IInv, ListShape
  <1>5. Cardinality(Hits(processed_list, W)) =
          Cardinality(Occurrences(original, joined, W))
    BY DEF IInv, ResultsJoined
  <1>6. Cardinality(Occurrences(original, Position(t), W)) =
          Cardinality(Hits(Results(original, t), W))
    BY <1>1, <1>2, OccurrencesInResults
  <1> QED
    BY <1>2, <1>3, <1>4, <1>5, <1>6

\* The list the net puts out is, up to the order in which workers finish, the
\* list of the results for all elements, each processed exactly once; a step
\* that <prefix>_init() skips leaves the list alone.
THEOREM ListComplete == Spec => []Complete
  <1>1. ASSUME IInv PROVE Complete
    <2> SUFFICES ASSUME control = "finished", ~ in_args.skip
                 PROVE  /\ Len(inout_list) = Len(Reference)
                        /\ \A i \in DOMAIN Reference :
                             Count(inout_list, Reference[i]) =
                               Count(Reference, Reference[i])
      BY <1>1 DEF Complete, IInv, ListShape
    <2>1. Reference \in Seq(Value)
      <3> DEFINE t == [start |-> 0, length |-> Len(original)]
      <3>1. original \in List /\ Len(original) \in Nat
        BY <1>1, ListAssumption DEF IInv, TypeOK
      <3>2. InList(original, t)
        BY <3>1 DEF InList, TaskRange
      <3> HIDE DEF t
      <3>3. Results(original, t) \in Seq(Value)
        BY <3>1, <3>2, ResultsType
      <3> QED
        BY <3>3 DEF Reference, t
    <2>2. inout_list \in Seq(Value)
      BY <1>1 DEF IInv, TypeOK
    <2>3. ASSUME NEW s \in Seq(Value)
          PROVE  Cardinality(Hits(s, Value)) = Len(s)
      <3>1. Hits(s, Value) = 1..Len(s) /\ Len(s) \in Nat
        BY DEF Hits
      <3> QED
        BY <3>1, FS_Interval
    <2>4. Cardinality(Hits(inout_list, Value)) = Cardinality(Hits(Reference, Value))
      <3>1. Value \in Kinds
        BY DEF Kinds
      <3> QED
        BY <1>1, <3>1, FinishedCounts
    <2>5. ASSUME NEW i \in DOMAIN Reference
          PROVE  Count(inout_list, Reference[i]) = Count(Reference, Reference[i])
      <3> DEFINE v == Reference[i]
      <3>1. {v} \in Kinds
        BY <2>1 DEF Kinds
      <3> HIDE DEF v
      <3>2. Cardinality(Hits(inout_list, {v})) = Cardinality(Hits(Reference, {v}))
        BY <1>1, <3>1, FinishedCounts
      <3>3. \A s : Hits(s, {v}) = {j \in DOMAIN s : s[j] = v}
        BY DEF Hits
      <3>4. Count(inout_list, v) = Count(Reference, v)
        BY <3>2, <3>3 DEF Count
      <3> QED
        BY <3>4 DEF v
    <2> QED
      BY <2>1, <2>2, <2>3, <2>4, <2>5
  <1> QED
    BY <1>1, ListInvariant, PTL
=============================================================================
